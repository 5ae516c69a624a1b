------------------------------ MODULE JobControl ------------------------------
(***************************************************************************)
(* What a shell promises its user about the prompt, whatever signals       *)
(* arrive: it reads the next line only when no foreground process of the   *)
(* last one is alive, and it leaves the prompt for good only at the end of *)
(* the input.                                                              *)
(***************************************************************************)
CONSTANT Pids

VARIABLES mode,  \* what the shell is doing
          live,  \* the foreground processes that have not ended
          eof    \* has the user closed the input?

vars == <<mode, live, eof>>

Init ==
    /\ mode = "off"
    /\ live = {}
    /\ eof = FALSE

Enter(from, to) ==
    /\ mode = from
    /\ mode' = to
    /\ UNCHANGED <<live, eof>>

StartUp   == Enter("off", "prompt") \/ Enter("off", "over")
ReadLine  == ~eof /\ Enter("prompt", "busy")
EndInput  == eof /\ Enter("prompt", "leaving")
\* The line is dealt with: all its foreground processes have ended.
Done      == live = {} /\ Enter("busy", "prompt")
\* An error in the shell itself.
Fail      == Enter("busy", "leaving") \/ Enter("busy", "over")
Leave     == Enter("leaving", "over")

Spawn(p) ==
    /\ mode = "busy"
    /\ live' = live \cup {p}
    /\ UNCHANGED <<mode, eof>>

\* Processes may end at any time; Ctrl-C ends several at once.
End(S) ==
    /\ live' = live \ S
    /\ UNCHANGED <<mode, eof>>

CloseInput ==
    /\ eof' = TRUE
    /\ UNCHANGED <<mode, live>>

Next ==
    \/ StartUp \/ ReadLine \/ EndInput \/ Done \/ Fail \/ Leave \/ CloseInput
    \/ \E p \in Pids : Spawn(p)
    \/ \E S \in SUBSET live : End(S)

Spec == Init /\ [][Next]_vars
===============================================================================
