-------------------------------- MODULE Shell --------------------------------
(***************************************************************************)
(* The shell of hw2: main of shell.c, the functions and signal handlers of *)
(* myshell.c, and the child processes they fork.                           *)
(*                                                                         *)
(* The shell is one thread.  Its SIGCHLD handler may start between any two *)
(* of its system calls and then runs to its end, one waitpid at a time,    *)
(* while the children go on.  SIGCHLD is a single pending bit.  A pid is a *)
(* slot that the kernel may hand out again once its process is reaped.     *)
(* What the kernel and the programs that execvp starts do is modelled from *)
(* how the shell uses them: fork, waitpid, signals, one pipe, and programs *)
(* that sleep, write their output or read their input.                     *)
(***************************************************************************)
EXTENDS Integers, Sequences, FiniteSets

CONSTANTS Pids,      \* the process slots fork can hand out
          SHELL,     \* the shell itself, as a holder of pipe ends
          NULL,      \* no pid, no word
          Lines,     \* what the user may type, each line as its words
          Programs,  \* the words execvp finds, with what the program does
          Files,     \* the words open accepts
          PipeCap    \* the capacity of a pipe

Words == UNION {{l[i] : i \in DOMAIN l} : l \in Lines}

\* A program does io once, or again and again, and then ends.
Program == [io : {"none", "read", "write"}, again : BOOLEAN]

ASSUME ShellAssumption ==
    /\ NULL \notin Pids /\ SHELL \notin Pids
    /\ Lines \subseteq Seq(Words) /\ NULL \notin Words
    /\ Programs \in [DOMAIN Programs -> Program]
    /\ PipeCap \in Nat \ {0}

VARIABLES
    \* the shell: control state, words of the line, bg_process, pid1, pid2 (or pid)
    pc, line, bg, pid1, pid2,
    \* SIGCHLD is pending; sigchld_handler is running
    pending, handler,
    \* the processes: their state and the job each was forked for
    proc, job,
    \* the pipe: the holders of its two ends and the number of items in it
    readers, writers, buf,
    \* the user has typed Ctrl-D
    eof

mainVars == <<line, bg, pid1, pid2>>
sigVars  == <<pending, handler>>
procVars == <<proc, job>>
pipeVars == <<readers, writers, buf>>
vars == <<pc, mainVars, sigVars, procVars, pipeVars, eof>>

\* What a child does between fork and execvp (set), the file it opens and the
\* program it executes; NULL where arglist has no such word.
Job == [set : {"stdout", "stdin", "file", "none"}, fg : BOOLEAN,
        file : Words \cup {NULL}, cmd : Words \cup {NULL}]
NoJob == [set |-> "none", fg |-> FALSE, file |-> NULL, cmd |-> NULL]

Alive == {"forked", "ready", "running"}
Foreground == {p \in Pids : job[p].fg /\ proc[p] \in Alive}
Zombies == {p \in Pids : proc[p] = "zombie"}

-------------------------------------------------------------------------------
(* Signals *)

\* Mutant of sigint_flags: the handler is installed without SA_RESTART.
NoFlags == {}

\* The flags prepare passes to sigaction for the two handlers.
sigchld_flags == {"SA_RESTART", "SA_NOCLDSTOP"}
sigint_flags  == {"SA_RESTART"}

\* A handler that returns into a blocking call: the call is restarted, or it
\* fails with EINTR if the signal came while it was blocked.
Eintr == [getline |-> "finalize", wait1 |-> "wait2", wait2 |-> "return"]
ResumeAt(flags) ==
    IF "SA_RESTART" \in flags \/ pc \notin DOMAIN Eintr
    THEN {pc} ELSE {pc, Eintr[pc]}

\* The processes in S end: their files close, and the shell is sent SIGCHLD;
\* once it is gone, init reaps them.
Die(S) ==
    /\ readers' = readers \ S
    /\ writers' = writers \ S
    /\ proc' = [p \in Pids |-> IF p \notin S THEN proc[p]
                               ELSE IF pc = "exited" THEN "none" ELSE "zombie"]
    /\ pending' = (pc # "exited")

Reap(p) ==
    /\ proc' = [proc EXCEPT ![p] = "none"]
    /\ job' = [job EXCEPT ![p] = NoJob]

\* The kernel starts sigchld_handler.
Deliver ==
    /\ pending /\ ~handler
    /\ pending' = FALSE /\ handler' = TRUE
    /\ UNCHANGED <<pc, mainVars, procVars, pipeVars, eof>>

\* Mutant of sigchld_handler: no loop.
ReapOnce ==
    /\ handler
    /\ \/ \E p \in Zombies : Reap(p)
       \/ Zombies = {} /\ UNCHANGED procVars
    /\ handler' = FALSE
    /\ pc' \in ResumeAt(sigchld_flags)
    /\ UNCHANGED <<pending, mainVars, pipeVars, eof>>

\* One turn of the handler's loop: waitpid reaps some zombie, or finds none
\* and the handler returns.
sigchld_handler ==
    /\ handler
    /\ \/ /\ \E p \in Zombies : Reap(p)
          /\ UNCHANGED <<pc, handler>>
       \/ /\ Zombies = {}
          /\ handler' = FALSE
          /\ pc' \in ResumeAt(sigchld_flags)
          /\ UNCHANGED procVars
    /\ UNCHANGED <<pending, mainVars, pipeVars, eof>>

\* Ctrl-C: SIGINT to the shell and all its children.  sigint_handler does
\* nothing; it is in place once prepare is done, a forked child has it until
\* execvp resets it, and a program dies.
CtrlC ==
    /\ pc # "exited"
    /\ LET hit == {p \in Pids : proc[p] = "running"} IN
       IF hit = {} THEN UNCHANGED <<proc, pending, readers, writers>> ELSE Die(hit)
    /\ \/ pc = "prepare" /\ pc' = "exited"
       \/ pc # "prepare" /\ pc' \in ResumeAt(sigint_flags)
    /\ UNCHANGED <<mainVars, handler, job, buf, eof>>

CtrlD ==
    /\ ~eof /\ eof' = TRUE
    /\ UNCHANGED <<pc, mainVars, sigVars, procVars, pipeVars>>

-------------------------------------------------------------------------------
(* The shell: main of shell.c *)

\* The shell takes its next step: it stands at one of the calls in at.
Main(at) == pc \in at /\ ~handler

\* The shell ends: its pipe ends close, and init reaps what it leaves behind.
Exit ==
    /\ pc' = "exited"
    /\ readers' = readers \ {SHELL}
    /\ writers' = writers \ {SHELL}
    /\ proc' = [p \in Pids |-> IF proc[p] = "zombie" THEN "none" ELSE proc[p]]
    /\ pending' = FALSE
    /\ UNCHANGED <<mainVars, handler, job, buf, eof>>

Goto(next) ==
    /\ pc' = next
    /\ UNCHANGED <<mainVars, sigVars, procVars, pipeVars, eof>>

prepare ==
    /\ Main({"prepare"})
    /\ Goto("getline") \/ Exit        \* either sigaction may fail

getline ==
    /\ Main({"getline"})
    /\ \/ /\ ~eof
          /\ line' \in Lines
          /\ pc' = "arglist"
          /\ UNCHANGED <<bg, pid1, pid2, sigVars, procVars, pipeVars, eof>>
       \/ eof /\ Goto("finalize")

\* The index of the last word sym of words, 0 if there is none.
Index(words, sym) ==
    LET last == {i \in DOMAIN words : /\ words[i] = sym
                                      /\ \A j \in DOMAIN words : words[j] = sym => j <= i}
    IN IF last = {} THEN 0 ELSE CHOOSE i \in last : TRUE
IsBackground(words) == words # <<>> /\ words[Len(words)] = "&"

\* main splits the line into arglist and process_arglist looks for symbols.
arglist ==
    /\ Main({"arglist"})
    /\ \/ Exit                        \* malloc or realloc fails
       \/ line = <<>> /\ Goto("getline")
       \/ /\ line # <<>>
          /\ bg' = IsBackground(line)
          /\ line' = IF bg' THEN SubSeq(line, 1, Len(line) - 1) ELSE line
          /\ pc' = IF Index(line', "|") # 0 THEN "pipe" ELSE "fork"
          /\ UNCHANGED <<pid1, pid2, sigVars, procVars, pipeVars, eof>>

finalize == Main({"finalize"}) /\ Exit

-------------------------------------------------------------------------------
(* process_arglist *)

\* arglist[i], NULL at the end of the array or where a symbol was nullified
Arg(i, end) == IF i < end THEN line[i] ELSE NULL
Symbols == {s \in {"<", ">", ">>"} : Index(line, s) # 0}
\* The order in which the branches of process_arglist test for the symbols.
Redirect == IF "<" \in Symbols THEN "<" ELSE IF ">" \in Symbols THEN ">" ELSE ">>"

FirstJob ==
    [set |-> "stdout", fg |-> TRUE, file |-> NULL, cmd |-> Arg(1, Index(line, "|"))]
SecondJob ==
    [set |-> "stdin", fg |-> TRUE, file |-> NULL,
     cmd |-> Arg(Index(line, "|") + 1, Len(line) + 1)]
SingleJob ==
    IF Symbols = {}
    THEN [set |-> "none", fg |-> ~bg, file |-> NULL, cmd |-> Arg(1, Len(line) + 1)]
    ELSE LET i == Index(line, Redirect) IN
         [set |-> "file", fg |-> TRUE, file |-> Arg(i + 1, Len(line) + 1), cmd |-> Arg(1, i)]

\* fork gives the child a free pid, the shell's files and the shell's handlers.
Fork(p, j) ==
    /\ proc[p] = "none"
    /\ proc' = [proc EXCEPT ![p] = "forked"]
    /\ job' = [job EXCEPT ![p] = j]
    /\ readers' = IF SHELL \in readers THEN readers \cup {p} ELSE readers
    /\ writers' = IF SHELL \in writers THEN writers \cup {p} ELSE writers
    /\ UNCHANGED <<line, bg, sigVars, buf, eof>>

\* Any call that fails makes process_arglist return 0, and main leaves its loop.
Fail == Goto("finalize")

pipe ==
    /\ Main({"pipe"})
    /\ \/ /\ readers' = {SHELL} /\ writers' = {SHELL} /\ buf' = 0
          /\ pc' = "fork1"
          /\ UNCHANGED <<mainVars, sigVars, procVars, eof>>
       \/ Fail

fork1 ==
    /\ Main({"fork1"})
    /\ \/ \E p \in Pids : Fork(p, FirstJob) /\ pid1' = p /\ pc' = "fork2" /\ UNCHANGED pid2
       \/ Fail

\* Mutant of fork2: pid2 is not tested for -1.
UntestedFork ==
    /\ Main({"fork2"})
    /\ \/ \E p \in Pids : Fork(p, SecondJob) /\ pid2' = p /\ pc' = "close" /\ UNCHANGED pid1
       \/ /\ pid2' = -1 /\ pc' = "close"
          /\ UNCHANGED <<line, bg, pid1, sigVars, procVars, pipeVars, eof>>

fork2 ==
    /\ Main({"fork2"})
    /\ \/ \E p \in Pids : Fork(p, SecondJob) /\ pid2' = p /\ pc' = "close" /\ UNCHANGED pid1
       \/ Fail

\* Mutant of close: line 122 is missing.
CloseReadEnd ==
    /\ Main({"close"})
    /\ readers' = readers \ {SHELL}
    /\ pc' = "wait1"
    /\ UNCHANGED <<mainVars, sigVars, procVars, writers, buf, eof>>

\* Mutant of close: line 121 is missing.
CloseWriteEnd ==
    /\ Main({"close"})
    /\ writers' = writers \ {SHELL}
    /\ pc' = "wait1"
    /\ UNCHANGED <<mainVars, sigVars, procVars, readers, buf, eof>>

close ==
    /\ Main({"close"})
    /\ readers' = readers \ {SHELL}
    /\ writers' = writers \ {SHELL}
    /\ pc' = "wait1"
    /\ UNCHANGED <<mainVars, sigVars, procVars, buf, eof>>

\* waitpid(p, &status, 0) reaps p, or fails with ECHILD if the handler has.
waitpid(p) ==
    /\ proc[p] \in {"none", "zombie"}
    /\ Reap(p)
    /\ UNCHANGED <<mainVars, sigVars, pipeVars, eof>>

wait1 == Main({"wait1"}) /\ waitpid(pid1) /\ pc' = "wait2"
wait2 == Main({"wait2"}) /\ waitpid(pid2) /\ pc' = "return"

fork ==
    /\ Main({"fork"})
    /\ \/ \E p \in Pids :
            /\ Fork(p, SingleJob)
            /\ pid2' = p
            /\ pc' = IF SingleJob.fg THEN "wait2" ELSE "return"
            /\ UNCHANGED pid1
       \/ Fail

\* process_arglist returns 1 and main reads the next line.
Return ==
    /\ Main({"return"})
    /\ pc' = "getline"
    /\ line' = <<>> /\ bg' = FALSE /\ pid1' = NULL /\ pid2' = NULL
    /\ UNCHANGED <<sigVars, procVars, pipeVars, eof>>

Shell ==
    \/ prepare \/ arglist \/ finalize \/ pipe \/ fork1 \/ fork2 \/ close
    \/ wait1 \/ wait2 \/ fork \/ Return

-------------------------------------------------------------------------------
(* The children *)

\* Mutant of Redirected: line 92 is missing.
LeaveReadEnd(p) ==
    /\ writers' = IF job[p].set = "stdin" THEN writers \ {p} ELSE writers
    /\ UNCHANGED readers

\* close, dup2, close: the child keeps the end of the pipe its job needs.
Redirected(p) ==
    /\ readers' = IF job[p].set = "stdout" THEN readers \ {p} ELSE readers
    /\ writers' = IF job[p].set = "stdin" THEN writers \ {p} ELSE writers

\* A forked child sets up its files, or fails to open one and exits.
ChildFiles(p) ==
    /\ proc[p] = "forked"
    /\ \/ /\ job[p].set # "file" \/ job[p].file \in Files
          /\ Redirected(p)
          /\ proc' = [proc EXCEPT ![p] = "ready"]
          /\ UNCHANGED pending
       \/ /\ job[p].set = "file" /\ job[p].file \notin Files
          /\ Die({p})
    /\ UNCHANGED <<pc, mainVars, handler, job, buf, eof>>

\* execvp finds the program, or the child exits.
ChildExec(p) ==
    /\ proc[p] = "ready"
    /\ \/ /\ job[p].cmd \in DOMAIN Programs
          /\ proc' = [proc EXCEPT ![p] = "running"]
          /\ UNCHANGED <<pending, readers, writers>>
       \/ /\ job[p].cmd \notin DOMAIN Programs
          /\ Die({p})
    /\ UNCHANGED <<pc, mainVars, handler, job, buf, eof>>

\* What the program does after a read or write that succeeded.
Proceed(p) ==
    IF Programs[job[p].cmd].again THEN UNCHANGED <<proc, pending, readers, writers>>
    ELSE Die({p})

\* A program writes to the pipe, dies of SIGPIPE if nobody can read it, or
\* writes elsewhere.
Write(p) ==
    /\ \/ p \notin writers /\ Proceed(p) /\ UNCHANGED buf
       \/ p \in writers /\ readers = {} /\ Die({p}) /\ UNCHANGED buf
       \/ p \in writers /\ readers # {} /\ buf < PipeCap /\ Proceed(p) /\ buf' = buf + 1

\* A program reads from the pipe, or ends at the end of its input.
Read(p) ==
    /\ \/ p \notin readers /\ Die({p}) /\ UNCHANGED buf
       \/ p \in readers /\ buf > 0 /\ Proceed(p) /\ buf' = buf - 1
       \/ p \in readers /\ buf = 0 /\ writers = {} /\ Die({p}) /\ UNCHANGED buf

Run(p) ==
    /\ proc[p] = "running"
    /\ CASE Programs[job[p].cmd].io = "write" -> Write(p)
         [] Programs[job[p].cmd].io = "read" -> Read(p)
         [] OTHER -> Die({p}) /\ UNCHANGED buf
    /\ UNCHANGED <<pc, mainVars, handler, job, eof>>

Child(p) == ChildFiles(p) \/ ChildExec(p) \/ Run(p)

-------------------------------------------------------------------------------

Init ==
    /\ pc = "prepare" /\ line = <<>> /\ bg = FALSE /\ pid1 = NULL /\ pid2 = NULL
    /\ pending = FALSE /\ handler = FALSE
    /\ proc = [p \in Pids |-> "none"] /\ job = [p \in Pids |-> NoJob]
    /\ readers = {} /\ writers = {} /\ buf = 0
    /\ eof = FALSE

Next ==
    \/ Shell \/ getline
    \/ Deliver \/ sigchld_handler
    \/ CtrlC \/ CtrlD
    \/ \E p \in Pids : Child(p)

Spec == Init /\ [][Next]_vars

\* The scheduler runs every process; the user need not type anything.
FairSpec ==
    /\ Spec
    /\ WF_vars(Shell) /\ WF_vars(getline /\ eof)
    /\ WF_vars(Deliver) /\ WF_vars(sigchld_handler)
    /\ \A p \in Pids : WF_vars(Child(p))

-------------------------------------------------------------------------------

\* Every variable keeps the type its declaration or its use gives it.
TypeOK ==
    /\ pc \in {"prepare", "getline", "arglist", "pipe", "fork1", "fork2", "close",
               "wait1", "wait2", "fork", "return", "finalize", "exited"}
    /\ line \in Seq(Words) /\ bg \in BOOLEAN
    /\ pid1 \in Pids \cup {NULL} /\ pid2 \in Pids \cup {NULL}
    /\ pending \in BOOLEAN /\ handler \in BOOLEAN /\ eof \in BOOLEAN
    /\ proc \in [Pids -> Alive \cup {"none", "zombie"}]
    /\ job \in [Pids -> Job]
    /\ readers \subseteq Pids \cup {SHELL} /\ writers \subseteq Pids \cup {SHELL}
    /\ buf \in 0..PipeCap

\* No zombie is overlooked although one pending SIGCHLD stands for many
\* children: while there is one, the signal is pending or the handler is
\* running and will look again.
ZombieNoticed == Zombies # {} => pending \/ handler

\* When the shell reads a line no process holds an end of a pipe any more, so
\* neither files nor a pipeline outlive their line.
PipeClosed == pc = "getline" => readers = {} /\ writers = {}

\* Every child ends and is reaped, whatever the order of exits, signals and
\* waits: the reader of a pipe sees its end, the writer is told that its
\* reader is gone, also when the second fork fails and nobody waits.
ChildrenEnd == \A p \in Pids : proc[p] # "none" ~> proc[p] = "none"

\* The shell comes back to its prompt after every line, or ends.
PromptReturns == pc \notin {"getline", "exited"} ~> pc \in {"getline", "exited"}

Mode == CASE pc = "prepare"  -> "off"
          [] pc = "getline"  -> "prompt"
          [] pc = "finalize" -> "leaving"
          [] pc = "exited"   -> "over"
          [] OTHER           -> "busy"
Prompt == INSTANCE JobControl WITH mode <- Mode, live <- Foreground

\* The shell keeps the promises of JobControl: the prompt returns only when no
\* foreground process is alive, and no signal takes the shell out of its loop.
IsJobControl == Prompt!Spec

\* "Background child processes should not terminate upon SIGINT": refuted,
\* execvp resets the handler that myshell.c relies on to the default action.
BackgroundSurvives ==
    [][CtrlC => \A p \in Pids : proc[p] = "running" /\ ~job[p].fg => proc'[p] = "running"]_vars
===============================================================================
