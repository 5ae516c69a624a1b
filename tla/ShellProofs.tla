----------------------------- MODULE ShellProofs ------------------------------
(***************************************************************************)
(* Theorems about Shell, for every set of process slots, lines, programs   *)
(* and files.                                                              *)
(***************************************************************************)
EXTENDS Shell, TLAPS

\* Which foreground processes may be alive at each call of the shell's.
ForegroundBound ==
    /\ pc \in {"prepare", "getline", "arglist", "pipe", "fork1", "fork", "return"}
          => Foreground = {}
    /\ pc = "fork2" => Foreground \subseteq {pid1}
    /\ pc \in {"close", "wait1"} => Foreground \subseteq {pid1, pid2}
    /\ pc = "wait2" => Foreground \subseteq {pid2}

\* There are no children before the loop, and init reaps after it.
BeforeAndAfter ==
    /\ pc = "prepare" => \A p \in Pids : proc[p] = "none"
    /\ pc = "exited" => Zombies = {}

\* Only a living foreground process holds an end of the pipe, and the shell
\* between pipe and close.
HoldersAlive ==
    readers \cup writers \subseteq
        Foreground \cup (IF pc \in {"fork1", "fork2", "close", "finalize"} THEN {SHELL} ELSE {})

IInv == TypeOK /\ ZombieNoticed /\ ForegroundBound /\ HoldersAlive /\ BeforeAndAfter

USE ShellAssumption

-------------------------------------------------------------------------------
(* The operators. *)

LEMMA IndexRange ==
    ASSUME NEW words \in Seq(Words), NEW sym
    PROVE  Index(words, sym) \in 0..Len(words)
<1> DEFINE last == {i \in DOMAIN words : /\ words[i] = sym
                                         /\ \A j \in DOMAIN words : words[j] = sym => j <= i}
<1>1. DOMAIN words = 1..Len(words) /\ Len(words) \in Nat
    OBVIOUS
<1>2. last # {} => (CHOOSE i \in last : TRUE) \in last
    OBVIOUS
<1>3. Index(words, sym) = IF last = {} THEN 0 ELSE CHOOSE i \in last : TRUE
    BY DEF Index
<1> QED
    BY <1>1, <1>2, <1>3

LEMMA ArgType ==
    ASSUME line \in Seq(Words), NEW i \in Nat, NEW end \in Nat, i > 0, end <= Len(line) + 1
    PROVE  Arg(i, end) \in Words \cup {NULL}
<1>1. Len(line) \in Nat
    OBVIOUS
<1>2. i < end => i \in 1..Len(line)
    BY <1>1
<1> QED BY <1>2 DEF Arg

LEMMA JobType ==
    ASSUME line \in Seq(Words), bg \in BOOLEAN
    PROVE  FirstJob \in Job /\ SecondJob \in Job /\ SingleJob \in Job
<1>1. /\ Len(line) \in Nat /\ Len(line) + 1 \in Nat /\ 1 \in Nat /\ 1 > 0
      /\ Len(line) <= Len(line) + 1 /\ Len(line) + 1 <= Len(line) + 1
    OBVIOUS
<1>a. ASSUME NEW sym
      PROVE  /\ Index(line, sym) \in Nat /\ Index(line, sym) <= Len(line) + 1
             /\ Index(line, sym) + 1 \in Nat /\ Index(line, sym) + 1 > 0
    BY <1>1, IndexRange
<1>2. FirstJob \in Job
    <2>1. Arg(1, Index(line, "|")) \in Words \cup {NULL}
        BY <1>1, <1>a, ArgType
    <2> QED BY <2>1 DEF FirstJob, Job
<1>3. SecondJob \in Job
    <2>1. Arg(Index(line, "|") + 1, Len(line) + 1) \in Words \cup {NULL}
        BY <1>1, <1>a, ArgType
    <2> QED BY <2>1 DEF SecondJob, Job
<1>4. SingleJob \in Job
    <2>1. Arg(1, Len(line) + 1) \in Words \cup {NULL}
        BY <1>1, <1>a, ArgType
    <2> DEFINE i == Index(line, Redirect)
    <2>2. Arg(i + 1, Len(line) + 1) \in Words \cup {NULL} /\ Arg(1, i) \in Words \cup {NULL}
        BY <1>1, <1>a, ArgType
    <2>3. CASE Symbols = {}
        BY <2>1, <2>3 DEF SingleJob, Job
    <2>4. CASE Symbols # {}
        BY <2>2, <2>4 DEF SingleJob, Job
    <2> QED BY <2>3, <2>4
<1> QED BY <1>2, <1>3, <1>4


\* The effect of each building block on the sets the invariant is about.

LEMMA DieEffect ==
    ASSUME IInv, NEW S \in SUBSET Pids, S # {}, Die(S), UNCHANGED job
    PROVE  /\ proc' \in [Pids -> Alive \cup {"none", "zombie"}]
           /\ readers' \subseteq Pids \cup {SHELL} /\ writers' \subseteq Pids \cup {SHELL}
           /\ pending' \in BOOLEAN
           /\ Foreground' = Foreground \ S
           /\ Zombies' # {} => pending' \/ Zombies # {}
           /\ pc # "exited" => pending'
           /\ readers' = readers \ S /\ writers' = writers \ S
BY DEF IInv, TypeOK, Die, Foreground, Zombies, Alive

LEMMA ReapEffect ==
    ASSUME IInv, NEW p \in Pids \cup {NULL}, p \in Pids => proc[p] \notin Alive, Reap(p)
    PROVE  /\ proc' \in [Pids -> Alive \cup {"none", "zombie"}] /\ job' \in [Pids -> Job]
           /\ Foreground' = Foreground
           /\ Zombies' \subseteq Zombies
<1>1. NoJob \in Job
    BY DEF NoJob, Job
<1>2. proc' \in [Pids -> Alive \cup {"none", "zombie"}] /\ job' \in [Pids -> Job]
    BY <1>1 DEF IInv, TypeOK, Reap
<1>3. \A q \in Pids : q # p => proc'[q] = proc[q] /\ job'[q] = job[q]
    BY DEF IInv, TypeOK, Reap
<1>4. p \in Pids => proc'[p] = "none"
    BY DEF IInv, TypeOK, Reap
<1> QED
    BY <1>2, <1>3, <1>4 DEF Foreground, Zombies, Alive

LEMMA ForkEffect ==
    ASSUME IInv, NEW p \in Pids, NEW j \in Job, Fork(p, j)
    PROVE  /\ proc' \in [Pids -> Alive \cup {"none", "zombie"}] /\ job' \in [Pids -> Job]
           /\ Foreground' = Foreground \cup (IF j.fg THEN {p} ELSE {})
           /\ Zombies' = Zombies
           /\ readers' \subseteq readers \cup (IF SHELL \in readers THEN {p} ELSE {})
           /\ writers' \subseteq writers \cup (IF SHELL \in writers THEN {p} ELSE {})
           /\ pending' = pending /\ handler' = handler /\ buf' = buf /\ eof' = eof
           /\ line' = line /\ bg' = bg
<1>1. proc' \in [Pids -> Alive \cup {"none", "zombie"}] /\ job' \in [Pids -> Job]
    BY DEF IInv, TypeOK, Fork, Alive
<1>2. \A q \in Pids : q # p => proc'[q] = proc[q] /\ job'[q] = job[q]
    BY DEF IInv, TypeOK, Fork
<1>3. proc[p] = "none" /\ proc'[p] = "forked" /\ job'[p] = j
    BY DEF IInv, TypeOK, Fork
<1>4. Foreground' = Foreground \cup (IF j.fg THEN {p} ELSE {})
    BY <1>2, <1>3 DEF Foreground, Alive
<1>5. Zombies' = Zombies
    BY <1>2, <1>3 DEF Zombies
<1> QED
    BY <1>1, <1>4, <1>5 DEF Fork, sigVars

\* The child moves on without ending.
LEMMA MoveEffect ==
    ASSUME IInv, NEW p \in Pids, NEW to \in Alive, proc[p] \in Alive,
           proc' = [proc EXCEPT ![p] = to], UNCHANGED job
    PROVE  /\ proc' \in [Pids -> Alive \cup {"none", "zombie"}]
           /\ Foreground' = Foreground
           /\ Zombies' = Zombies
BY DEF IInv, TypeOK, Foreground, Zombies, Alive

LEMMA SameProcs ==
    ASSUME UNCHANGED procVars
    PROVE  Foreground' = Foreground /\ Zombies' = Zombies
BY DEF procVars, Foreground, Zombies

LEMMA ExitEffect ==
    ASSUME IInv, Exit
    PROVE  IInv' /\ Foreground' = Foreground
<1>1. proc' \in [Pids -> Alive \cup {"none", "zombie"}]
    BY DEF IInv, TypeOK, Exit
<1>2. Foreground' = Foreground /\ Zombies' = {}
    BY <1>1 DEF IInv, TypeOK, Exit, Foreground, Zombies, Alive
<1>3. TypeOK'
    BY <1>1 DEF IInv, TypeOK, Exit, mainVars
<1>4. ZombieNoticed' /\ ForegroundBound' /\ BeforeAndAfter'
    BY <1>2 DEF ZombieNoticed, ForegroundBound, BeforeAndAfter, Exit
<1>5. HoldersAlive'
    BY <1>2 DEF IInv, HoldersAlive, Exit
<1> QED
    BY <1>2, <1>3, <1>4, <1>5 DEF IInv

-------------------------------------------------------------------------------
(* Each action preserves the inductive invariant. *)

\* Any call of process_arglist's may lead to the end of the loop.
LEMMA FailStep ==
    ASSUME IInv, Fail
    PROVE  IInv' /\ Foreground' = Foreground
<1>1. Foreground' = Foreground /\ Zombies' = Zombies
    BY SameProcs DEF Fail, Goto
<1>2. TypeOK'
    BY DEF IInv, TypeOK, Fail, Goto, mainVars, sigVars, procVars, pipeVars
<1>3. ZombieNoticed' /\ ForegroundBound' /\ BeforeAndAfter'
    BY <1>1 DEF IInv, ZombieNoticed, ForegroundBound, BeforeAndAfter, Fail, Goto, sigVars
<1>4. HoldersAlive'
    BY <1>1 DEF IInv, TypeOK, HoldersAlive, Fail, Goto, pipeVars
<1> QED
    BY <1>1, <1>2, <1>3, <1>4 DEF IInv

LEMMA closeStep ==
    ASSUME IInv, close
    PROVE  IInv'
<1>1. Foreground' = Foreground /\ Zombies' = Zombies
    BY SameProcs DEF close
<1>2. TypeOK'
    BY DEF IInv, TypeOK, mainVars, sigVars, procVars, pipeVars, close, Main
<1>3. ZombieNoticed' /\ BeforeAndAfter'
    BY <1>1 DEF IInv, ZombieNoticed, BeforeAndAfter, sigVars, procVars, close, Main
<1>4. ForegroundBound'
    BY <1>1 DEF IInv, ForegroundBound, mainVars, close, Main
<1>5. HoldersAlive'
    BY <1>1 DEF IInv, HoldersAlive, pipeVars, close, Main
<1> QED
    BY <1>2, <1>3, <1>4, <1>5 DEF IInv

LEMMA ReturnStep ==
    ASSUME IInv, Return
    PROVE  IInv'
<1>1. Foreground' = Foreground /\ Zombies' = Zombies
    BY SameProcs DEF Return
<1>a. <<>> \in Seq(Words)
    OBVIOUS
<1>2. TypeOK'
    BY <1>a DEF IInv, TypeOK, mainVars, sigVars, procVars, pipeVars, Return, Main
<1>3. ZombieNoticed' /\ BeforeAndAfter'
    BY <1>1 DEF IInv, ZombieNoticed, BeforeAndAfter, sigVars, procVars, Return, Main
<1>4. ForegroundBound'
    BY <1>1 DEF IInv, ForegroundBound, mainVars, Return, Main
<1>5. HoldersAlive'
    BY <1>1 DEF IInv, HoldersAlive, pipeVars, Return, Main
<1> QED
    BY <1>2, <1>3, <1>4, <1>5 DEF IInv

LEMMA DeliverStep ==
    ASSUME IInv, Deliver
    PROVE  IInv'
<1>1. Foreground' = Foreground /\ Zombies' = Zombies
    BY SameProcs DEF Deliver
<1>2. TypeOK'
    BY DEF IInv, TypeOK, mainVars, sigVars, procVars, pipeVars, Deliver
<1>3. ZombieNoticed' /\ BeforeAndAfter'
    BY <1>1 DEF IInv, ZombieNoticed, BeforeAndAfter, sigVars, procVars, Deliver
<1>4. ForegroundBound'
    BY <1>1 DEF IInv, ForegroundBound, mainVars, Deliver
<1>5. HoldersAlive'
    BY <1>1 DEF IInv, HoldersAlive, pipeVars, Deliver
<1> QED
    BY <1>2, <1>3, <1>4, <1>5 DEF IInv

LEMMA CtrlDStep ==
    ASSUME IInv, CtrlD
    PROVE  IInv'
<1>1. Foreground' = Foreground /\ Zombies' = Zombies
    BY SameProcs DEF CtrlD
<1>2. TypeOK'
    BY DEF IInv, TypeOK, mainVars, sigVars, procVars, pipeVars, CtrlD
<1>3. ZombieNoticed' /\ BeforeAndAfter'
    BY <1>1 DEF IInv, ZombieNoticed, BeforeAndAfter, sigVars, procVars, CtrlD
<1>4. ForegroundBound'
    BY <1>1 DEF IInv, ForegroundBound, mainVars, CtrlD
<1>5. HoldersAlive'
    BY <1>1 DEF IInv, HoldersAlive, pipeVars, CtrlD
<1> QED
    BY <1>2, <1>3, <1>4, <1>5 DEF IInv

LEMMA prepareStep ==
    ASSUME IInv, prepare
    PROVE  IInv'
<1>1. CASE Exit
    BY <1>1, ExitEffect
<1>2. CASE Goto("getline")
    <2>1. Foreground' = Foreground /\ Zombies' = Zombies
        BY <1>2, SameProcs DEF Goto
    <2>2. TypeOK'
        BY <1>2 DEF IInv, TypeOK, Goto, mainVars, sigVars, procVars, pipeVars
    <2>3. ZombieNoticed' /\ ForegroundBound' /\ HoldersAlive' /\ BeforeAndAfter'
        BY <1>2, <2>1 DEF IInv, ZombieNoticed, ForegroundBound, HoldersAlive,
           BeforeAndAfter, procVars, Goto, prepare, Main, sigVars, pipeVars
    <2> QED BY <2>2, <2>3 DEF IInv
<1> QED BY <1>1, <1>2 DEF prepare

LEMMA getlineStep ==
    ASSUME IInv, getline
    PROVE  IInv'
<1>1. Foreground' = Foreground /\ Zombies' = Zombies
    BY SameProcs DEF getline, Goto
<1>2. TypeOK'
    BY DEF IInv, TypeOK, getline, Goto, Main, mainVars, sigVars, procVars, pipeVars
<1>3. ZombieNoticed' /\ ForegroundBound' /\ BeforeAndAfter'
    BY <1>1 DEF IInv, ZombieNoticed, ForegroundBound, BeforeAndAfter, getline, Goto, Main, sigVars
<1>4. HoldersAlive'
    BY <1>1 DEF IInv, HoldersAlive, getline, Goto, Main, pipeVars
<1> QED
    BY <1>2, <1>3, <1>4 DEF IInv

LEMMA arglistStep ==
    ASSUME IInv, arglist
    PROVE  IInv'
<1>1. CASE Exit
    BY <1>1, ExitEffect
<1>2. CASE ~Exit
    <2>1. Foreground' = Foreground /\ Zombies' = Zombies
        BY <1>2, SameProcs DEF arglist, Goto
    <2>2. line' \in Seq(Words) /\ bg' \in BOOLEAN
        <3>1. line \in Seq(Words) /\ bg \in BOOLEAN
            BY DEF IInv, TypeOK
        <3>2. line # <<>> => SubSeq(line, 1, Len(line) - 1) \in Seq(Words)
            BY <3>1
        <3> QED BY <1>2, <3>1, <3>2 DEF arglist, Goto, mainVars, IsBackground
    <2>3. /\ pc' \in {"getline", "pipe", "fork"} /\ pc = "arglist"
          /\ UNCHANGED <<pid1, pid2, sigVars, procVars, pipeVars, eof>>
        BY <1>2 DEF arglist, Goto, Main, mainVars
    <2>4. TypeOK'
        BY <2>2, <2>3 DEF IInv, TypeOK, sigVars, procVars, pipeVars
    <2>5. ZombieNoticed' /\ ForegroundBound' /\ HoldersAlive' /\ BeforeAndAfter'
        BY <2>1, <2>3 DEF IInv, ZombieNoticed, ForegroundBound, HoldersAlive,
           BeforeAndAfter, procVars, sigVars, pipeVars
    <2> QED BY <2>4, <2>5 DEF IInv
<1> QED BY <1>1, <1>2

LEMMA finalizeStep ==
    ASSUME IInv, finalize
    PROVE  IInv'
BY ExitEffect DEF finalize

LEMMA pipeStep ==
    ASSUME IInv, pipe
    PROVE  IInv'
<1>1. CASE Fail
    BY <1>1, FailStep
<1>2. CASE ~Fail
    <2>1. Foreground' = Foreground /\ Zombies' = Zombies
        BY <1>2, SameProcs DEF pipe
    <2>2. TypeOK'
        BY <1>2 DEF IInv, TypeOK, pipe, Main, mainVars, sigVars, procVars
    <2>3. ZombieNoticed' /\ ForegroundBound' /\ HoldersAlive' /\ BeforeAndAfter'
        BY <1>2, <2>1 DEF IInv, ZombieNoticed, ForegroundBound, HoldersAlive,
           BeforeAndAfter, procVars, pipe, Main, sigVars
    <2> QED BY <2>2, <2>3 DEF IInv
<1> QED BY <1>1, <1>2

LEMMA fork1Step ==
    ASSUME IInv, fork1
    PROVE  IInv'
<1>1. CASE Fail
    BY <1>1, FailStep
<1>2. CASE ~Fail
    <2>1. PICK p \in Pids : /\ Fork(p, FirstJob) /\ pid1' = p
                            /\ pc' = "fork2" /\ UNCHANGED pid2
        BY <1>2 DEF fork1
    <2>2. FirstJob \in Job /\ FirstJob.fg
        BY JobType DEF IInv, TypeOK, FirstJob
    <2>3. pc = "fork1"
        BY DEF fork1, Main
    <2>4. /\ proc' \in [Pids -> Alive \cup {"none", "zombie"}] /\ job' \in [Pids -> Job]
          /\ Foreground' = Foreground \cup (IF FirstJob.fg THEN {p} ELSE {})
          /\ Zombies' = Zombies
          /\ readers' \subseteq readers \cup (IF SHELL \in readers THEN {p} ELSE {})
          /\ writers' \subseteq writers \cup (IF SHELL \in writers THEN {p} ELSE {})
          /\ pending' = pending /\ handler' = handler /\ buf' = buf /\ eof' = eof
          /\ line' = line /\ bg' = bg
        BY <2>1, <2>2, ForkEffect
    <2>5. TypeOK'
        BY <2>1, <2>4 DEF IInv, TypeOK
    <2>6. ZombieNoticed' /\ BeforeAndAfter'
        BY <2>1, <2>3, <2>4 DEF IInv, ZombieNoticed, BeforeAndAfter
    <2>7. ForegroundBound'
        BY <2>1, <2>2, <2>3, <2>4 DEF IInv, ForegroundBound
    <2>8. HoldersAlive'
        BY <2>1, <2>2, <2>3, <2>4 DEF IInv, HoldersAlive, ForegroundBound
    <2> QED BY <2>5, <2>6, <2>7, <2>8 DEF IInv
<1> QED BY <1>1, <1>2

LEMMA fork2Step ==
    ASSUME IInv, fork2
    PROVE  IInv'
<1>1. CASE Fail
    BY <1>1, FailStep
<1>2. CASE ~Fail
    <2>1. PICK p \in Pids : /\ Fork(p, SecondJob) /\ pid2' = p
                            /\ pc' = "close" /\ UNCHANGED pid1
        BY <1>2 DEF fork2
    <2>2. SecondJob \in Job /\ SecondJob.fg
        BY JobType DEF IInv, TypeOK, SecondJob
    <2>3. pc = "fork2"
        BY DEF fork2, Main
    <2>4. /\ proc' \in [Pids -> Alive \cup {"none", "zombie"}] /\ job' \in [Pids -> Job]
          /\ Foreground' = Foreground \cup (IF SecondJob.fg THEN {p} ELSE {})
          /\ Zombies' = Zombies
          /\ readers' \subseteq readers \cup (IF SHELL \in readers THEN {p} ELSE {})
          /\ writers' \subseteq writers \cup (IF SHELL \in writers THEN {p} ELSE {})
          /\ pending' = pending /\ handler' = handler /\ buf' = buf /\ eof' = eof
          /\ line' = line /\ bg' = bg
        BY <2>1, <2>2, ForkEffect
    <2>5. TypeOK'
        BY <2>1, <2>4 DEF IInv, TypeOK
    <2>6. ZombieNoticed' /\ BeforeAndAfter'
        BY <2>1, <2>3, <2>4 DEF IInv, ZombieNoticed, BeforeAndAfter
    <2>7. ForegroundBound'
        BY <2>1, <2>2, <2>3, <2>4 DEF IInv, ForegroundBound
    <2>8. HoldersAlive'
        BY <2>1, <2>2, <2>3, <2>4 DEF IInv, HoldersAlive, ForegroundBound
    <2> QED BY <2>5, <2>6, <2>7, <2>8 DEF IInv
<1> QED BY <1>1, <1>2

LEMMA forkStep ==
    ASSUME IInv, fork
    PROVE  IInv'
<1>1. CASE Fail
    BY <1>1, FailStep
<1>2. CASE ~Fail
    <2>1. PICK p \in Pids : /\ Fork(p, SingleJob) /\ pid2' = p
                            /\ (pc' = IF SingleJob.fg THEN "wait2" ELSE "return")
                            /\ UNCHANGED pid1
        BY <1>2 DEF fork
    <2>2. SingleJob \in Job
        BY JobType DEF IInv, TypeOK
    <2>3. pc = "fork"
        BY DEF fork, Main
    <2>4. /\ proc' \in [Pids -> Alive \cup {"none", "zombie"}] /\ job' \in [Pids -> Job]
          /\ Foreground' = Foreground \cup (IF SingleJob.fg THEN {p} ELSE {})
          /\ Zombies' = Zombies
          /\ readers' \subseteq readers \cup (IF SHELL \in readers THEN {p} ELSE {})
          /\ writers' \subseteq writers \cup (IF SHELL \in writers THEN {p} ELSE {})
          /\ pending' = pending /\ handler' = handler /\ buf' = buf /\ eof' = eof
          /\ line' = line /\ bg' = bg
        BY <2>1, <2>2, ForkEffect
    <2>5. TypeOK'
        BY <2>1, <2>4 DEF IInv, TypeOK
    <2>6. ZombieNoticed' /\ BeforeAndAfter'
        BY <2>1, <2>3, <2>4 DEF IInv, ZombieNoticed, BeforeAndAfter
    <2>7. ForegroundBound'
        BY <2>1, <2>2, <2>3, <2>4 DEF IInv, ForegroundBound
    <2>8. HoldersAlive'
        BY <2>1, <2>2, <2>3, <2>4 DEF IInv, HoldersAlive, ForegroundBound
    <2> QED BY <2>5, <2>6, <2>7, <2>8 DEF IInv
<1> QED BY <1>1, <1>2

LEMMA wait1Step ==
    ASSUME IInv, wait1
    PROVE  IInv'
<1>1. /\ pc = "wait1" /\ pc' = "wait2"
      /\ Reap(pid1) /\ proc[pid1] \in {"none", "zombie"}
      /\ UNCHANGED <<mainVars, sigVars, pipeVars, eof>>
    BY DEF wait1, waitpid, Main
<1>2. pid1 \in Pids \cup {NULL} /\ pid1 \notin Foreground
    BY <1>1 DEF IInv, TypeOK, Foreground, Alive
<1>3. /\ proc' \in [Pids -> Alive \cup {"none", "zombie"}] /\ job' \in [Pids -> Job]
      /\ Foreground' = Foreground /\ Zombies' \subseteq Zombies
    BY <1>1, <1>2, ReapEffect DEF Alive
<1>4. TypeOK'
    BY <1>1, <1>3 DEF IInv, TypeOK, mainVars, sigVars, pipeVars
<1>5. ZombieNoticed' /\ ForegroundBound' /\ HoldersAlive' /\ BeforeAndAfter'
    BY <1>1, <1>2, <1>3 DEF IInv, ZombieNoticed, ForegroundBound, HoldersAlive,
       BeforeAndAfter, procVars, mainVars, sigVars, pipeVars
<1> QED BY <1>4, <1>5 DEF IInv

LEMMA wait2Step ==
    ASSUME IInv, wait2
    PROVE  IInv'
<1>1. /\ pc = "wait2" /\ pc' = "return"
      /\ Reap(pid2) /\ proc[pid2] \in {"none", "zombie"}
      /\ UNCHANGED <<mainVars, sigVars, pipeVars, eof>>
    BY DEF wait2, waitpid, Main
<1>2. pid2 \in Pids \cup {NULL} /\ pid2 \notin Foreground
    BY <1>1 DEF IInv, TypeOK, Foreground, Alive
<1>3. /\ proc' \in [Pids -> Alive \cup {"none", "zombie"}] /\ job' \in [Pids -> Job]
      /\ Foreground' = Foreground /\ Zombies' \subseteq Zombies
    BY <1>1, <1>2, ReapEffect DEF Alive
<1>4. TypeOK'
    BY <1>1, <1>3 DEF IInv, TypeOK, mainVars, sigVars, pipeVars
<1>5. ZombieNoticed' /\ ForegroundBound' /\ HoldersAlive' /\ BeforeAndAfter'
    BY <1>1, <1>2, <1>3 DEF IInv, ZombieNoticed, ForegroundBound, HoldersAlive,
       BeforeAndAfter, procVars, mainVars, sigVars, pipeVars
<1> QED BY <1>4, <1>5 DEF IInv

LEMMA handlerStep ==
    ASSUME IInv, sigchld_handler
    PROVE  IInv'
<1>1. pc' = pc /\ UNCHANGED <<pending, mainVars, pipeVars, eof>>
    BY DEF sigchld_handler, ResumeAt, sigchld_flags
<1>2. CASE \E p \in Zombies : Reap(p) /\ UNCHANGED handler
    <2>1. PICK p \in Zombies : Reap(p) /\ UNCHANGED handler
        BY <1>2
    <2>2. /\ proc' \in [Pids -> Alive \cup {"none", "zombie"}] /\ job' \in [Pids -> Job]
          /\ Foreground' = Foreground /\ Zombies' \subseteq Zombies
        BY <2>1, ReapEffect DEF Zombies, Alive
    <2>3. TypeOK'
        BY <1>1, <2>1, <2>2 DEF IInv, TypeOK, mainVars, pipeVars
    <2>a. pc # "prepare" /\ pc # "exited"
        BY <2>1 DEF IInv, BeforeAndAfter, Zombies
    <2>4. ZombieNoticed' /\ ForegroundBound' /\ HoldersAlive' /\ BeforeAndAfter'
        BY <1>1, <2>1, <2>2, <2>a DEF IInv, ZombieNoticed, ForegroundBound, HoldersAlive,
           BeforeAndAfter, procVars, mainVars, pipeVars
    <2> QED BY <2>3, <2>4 DEF IInv
<1>3. CASE Zombies = {} /\ handler' = FALSE /\ UNCHANGED procVars
    <2>1. Foreground' = Foreground /\ Zombies' = Zombies
        BY <1>3, SameProcs
    <2>2. TypeOK'
        BY <1>1, <1>3 DEF IInv, TypeOK, mainVars, pipeVars, procVars
    <2>3. ZombieNoticed' /\ ForegroundBound' /\ HoldersAlive' /\ BeforeAndAfter'
        BY <1>1, <1>3, <2>1 DEF IInv, ZombieNoticed, ForegroundBound, HoldersAlive,
           BeforeAndAfter, procVars, mainVars, pipeVars
    <2> QED BY <2>2, <2>3 DEF IInv
<1> QED BY <1>2, <1>3 DEF sigchld_handler

\* Processes that end, whoever ends them, keep the invariant.
LEMMA DyingStep ==
    ASSUME IInv, NEW S \in SUBSET Pids, S # {}, \A p \in S : proc[p] \in Alive, Die(S),
           UNCHANGED <<pc, mainVars, handler, job, eof>>, buf' \in 0..PipeCap
    PROVE  IInv' /\ Foreground' = Foreground \ S
<1>1. /\ proc' \in [Pids -> Alive \cup {"none", "zombie"}]
      /\ readers' \subseteq Pids \cup {SHELL} /\ writers' \subseteq Pids \cup {SHELL}
      /\ pending' \in BOOLEAN
      /\ Foreground' = Foreground \ S
      /\ readers' = readers \ S /\ writers' = writers \ S
    BY DieEffect
<1>2. TypeOK'
    BY <1>1 DEF IInv, TypeOK, mainVars
<1>3. pc # "prepare"
    BY DEF IInv, BeforeAndAfter, Alive
<1>4. pc = "exited" => Zombies' = {}
    BY DEF IInv, TypeOK, BeforeAndAfter, Zombies, Die
<1>5. pc # "exited" => pending'
    BY DEF Die
<1>6. ZombieNoticed' /\ BeforeAndAfter'
    BY <1>3, <1>4, <1>5 DEF ZombieNoticed, BeforeAndAfter
<1>7. ForegroundBound' /\ HoldersAlive'
    BY <1>1 DEF IInv, ForegroundBound, HoldersAlive, mainVars
<1> QED BY <1>1, <1>2, <1>6, <1>7 DEF IInv

\* A child that moves on without ending keeps it too.
LEMMA MovingStep ==
    ASSUME IInv, NEW p \in Pids, NEW to \in Alive, proc[p] \in Alive,
           proc' = [proc EXCEPT ![p] = to], readers' \subseteq readers, writers' \subseteq writers,
           UNCHANGED <<pc, mainVars, sigVars, job, buf, eof>>
    PROVE  IInv' /\ Foreground' = Foreground
<1>1. /\ proc' \in [Pids -> Alive \cup {"none", "zombie"}]
      /\ Foreground' = Foreground
      /\ Zombies' = Zombies
    BY MoveEffect
<1>2. pc # "prepare"
    BY DEF IInv, BeforeAndAfter, Alive
<1>3. TypeOK'
    BY <1>1 DEF IInv, TypeOK, mainVars, sigVars
<1>4. ZombieNoticed' /\ ForegroundBound' /\ BeforeAndAfter'
    BY <1>1, <1>2 DEF IInv, ZombieNoticed, ForegroundBound, BeforeAndAfter, mainVars, sigVars
<1>5. HoldersAlive'
    BY <1>1 DEF IInv, HoldersAlive
<1> QED BY <1>1, <1>3, <1>4, <1>5 DEF IInv

\* A program may read or write without any process changing.
LEMMA BufferStep ==
    ASSUME IInv, UNCHANGED <<pc, mainVars, sigVars, procVars, readers, writers, eof>>,
           buf' \in 0..PipeCap
    PROVE  IInv' /\ Foreground' = Foreground
<1>1. Foreground' = Foreground /\ Zombies' = Zombies
    BY SameProcs
<1>2. TypeOK'
    BY DEF IInv, TypeOK, mainVars, sigVars, procVars
<1>3. ZombieNoticed' /\ ForegroundBound' /\ HoldersAlive' /\ BeforeAndAfter'
    BY <1>1 DEF IInv, ZombieNoticed, ForegroundBound, HoldersAlive, BeforeAndAfter,
                mainVars, sigVars, procVars
<1> QED BY <1>1, <1>2, <1>3 DEF IInv

LEMMA CtrlCStep ==
    ASSUME IInv, CtrlC
    PROVE  IInv' /\ Foreground' \subseteq Foreground
<1> DEFINE hit == {p \in Pids : proc[p] = "running"}
<1>1. /\ pc # "exited" /\ UNCHANGED <<mainVars, handler, job, buf, eof>>
      /\ IF hit = {} THEN UNCHANGED <<proc, pending, readers, writers>> ELSE Die(hit)
      /\ \/ pc = "prepare" /\ pc' = "exited"
         \/ pc' = pc
    BY DEF CtrlC, ResumeAt, sigint_flags
<1>2. buf' \in 0..PipeCap
    BY <1>1 DEF IInv, TypeOK
<1>3. CASE hit # {}
    <2>1. pc' = pc
        BY <1>1, <1>3 DEF IInv, BeforeAndAfter
    <2>2. \A p \in hit : proc[p] \in Alive
        BY DEF Alive
    <2> QED BY <1>1, <1>2, <1>3, <2>1, <2>2, DyingStep
<1>4. CASE hit = {} /\ pc' = pc
    BY <1>1, <1>2, <1>4, BufferStep DEF sigVars, procVars
<1>5. CASE hit = {} /\ pc = "prepare" /\ pc' = "exited"
    <2>1. Foreground' = Foreground /\ Zombies' = Zombies
        BY <1>1, <1>5, SameProcs DEF procVars
    <2>2. Zombies = {} /\ Foreground = {}
        BY <1>5 DEF IInv, BeforeAndAfter, Zombies, Foreground, Alive
    <2>3. TypeOK'
        BY <1>1, <1>5 DEF IInv, TypeOK, mainVars
    <2>4. ZombieNoticed' /\ ForegroundBound' /\ BeforeAndAfter'
        BY <1>5, <2>1, <2>2 DEF ZombieNoticed, ForegroundBound, BeforeAndAfter
    <2>5. HoldersAlive'
        BY <1>1, <1>5, <2>1 DEF IInv, HoldersAlive
    <2> QED BY <2>1, <2>3, <2>4, <2>5 DEF IInv
<1> QED BY <1>1, <1>3, <1>4, <1>5

LEMMA ChildFilesStep ==
    ASSUME IInv, NEW p \in Pids, ChildFiles(p)
    PROVE  IInv' /\ Foreground' \subseteq Foreground
<1>1. proc[p] \in Alive /\ buf' \in 0..PipeCap /\ UNCHANGED <<pc, mainVars, handler, job, buf, eof>>
    BY DEF ChildFiles, Alive, IInv, TypeOK
<1>2. CASE Die({p})
    BY <1>1, <1>2, DyingStep
<1>3. CASE Redirected(p) /\ proc' = [proc EXCEPT ![p] = "ready"] /\ UNCHANGED pending
    <2>1. readers' \subseteq readers /\ writers' \subseteq writers /\ "ready" \in Alive
        BY <1>3 DEF Redirected, Alive
    <2> QED BY <1>1, <1>3, <2>1, MovingStep DEF sigVars
<1> QED BY <1>2, <1>3 DEF ChildFiles

LEMMA ChildExecStep ==
    ASSUME IInv, NEW p \in Pids, ChildExec(p)
    PROVE  IInv' /\ Foreground' \subseteq Foreground
<1>1. proc[p] \in Alive /\ buf' \in 0..PipeCap /\ UNCHANGED <<pc, mainVars, handler, job, buf, eof>>
    BY DEF ChildExec, Alive, IInv, TypeOK
<1>2. CASE Die({p})
    BY <1>1, <1>2, DyingStep
<1>3. CASE proc' = [proc EXCEPT ![p] = "running"] /\ UNCHANGED <<pending, readers, writers>>
    BY <1>1, <1>3, MovingStep DEF sigVars, Alive
<1> QED BY <1>2, <1>3 DEF ChildExec

LEMMA RunStep ==
    ASSUME IInv, NEW p \in Pids, Run(p)
    PROVE  IInv' /\ Foreground' \subseteq Foreground
<1>1. proc[p] \in Alive /\ UNCHANGED <<pc, mainVars, handler, job, eof>>
    BY DEF Run, Alive
<1>2. buf' \in 0..PipeCap
    BY DEF Run, Read, Write, IInv, TypeOK
<1>3. Die({p}) \/ UNCHANGED <<proc, pending, readers, writers>>
    BY DEF Run, Read, Write, Proceed
<1>4. CASE Die({p})
    BY <1>1, <1>2, <1>4, DyingStep
<1>5. CASE UNCHANGED <<proc, pending, readers, writers>>
    BY <1>1, <1>2, <1>5, BufferStep DEF sigVars, procVars
<1> QED BY <1>3, <1>4, <1>5

-------------------------------------------------------------------------------
(* The invariant of every behaviour. *)

LEMMA InitStep ==
    ASSUME Init
    PROVE  IInv
<1>1. <<>> \in Seq(Words) /\ NoJob \in Job
    BY DEF NoJob, Job
<1>2. TypeOK
    <2>1. proc \in [Pids -> Alive \cup {"none", "zombie"}] /\ job \in [Pids -> Job]
        BY <1>1 DEF Init
    <2>2. buf \in 0..PipeCap
        BY DEF Init
    <2> QED BY <1>1, <2>1, <2>2 DEF Init, TypeOK
<1>3. Foreground = {} /\ Zombies = {}
    BY DEF Init, Foreground, Zombies, Alive
<1> QED
    BY <1>2, <1>3 DEF Init, IInv, ZombieNoticed, ForegroundBound, HoldersAlive, BeforeAndAfter

LEMMA NextStep ==
    ASSUME IInv, [Next]_vars
    PROVE  IInv'
<1>1. CASE UNCHANGED vars
    BY <1>1, BufferStep DEF vars, IInv, TypeOK, mainVars, sigVars, procVars, pipeVars
<1>2. CASE Shell
    BY <1>2, prepareStep, arglistStep, finalizeStep, pipeStep, fork1Step, fork2Step, closeStep,
       wait1Step, wait2Step, forkStep, ReturnStep DEF Shell
<1>3. CASE getline \/ Deliver \/ sigchld_handler \/ CtrlC \/ CtrlD
    BY <1>3, getlineStep, DeliverStep, handlerStep, CtrlCStep, CtrlDStep
<1>4. CASE \E p \in Pids : Child(p)
    BY <1>4, ChildFilesStep, ChildExecStep, RunStep DEF Child
<1> QED
    BY <1>1, <1>2, <1>3, <1>4 DEF Next

\* The inductive invariant holds in every reachable state.
THEOREM ShellInvariance == Spec => []IInv
BY InitStep, NextStep, PTL DEF Spec

\* Every variable keeps its type; fork always names a process of the shell's.
THEOREM ShellTypeCorrect == Spec => []TypeOK
<1>1. IInv => TypeOK
    BY DEF IInv
<1> QED BY <1>1, ShellInvariance, PTL

\* No zombie is overlooked by sigchld_handler (myshell.c:12-15), whatever
\* number of children one SIGCHLD stands for.
THEOREM NoZombieOverlooked == Spec => []ZombieNoticed
<1>1. IInv => ZombieNoticed
    BY DEF IInv
<1> QED BY <1>1, ShellInvariance, PTL

\* When the shell reads a line, no process holds an end of an earlier pipe:
\* the closes of lines 91-122 are enough.
THEOREM NoPipeLeft == Spec => []PipeClosed
<1>1. IInv => PipeClosed
    BY DEF IInv, ForegroundBound, HoldersAlive, PipeClosed
<1> QED BY <1>1, ShellInvariance, PTL

-------------------------------------------------------------------------------
(* The shell implements JobControl. *)

USE DEF Mode

LEMMA PromptInit ==
    ASSUME Init
    PROVE  Prompt!Init
<1>1. Foreground = {}
    BY DEF Init, Foreground, Alive
<1> QED BY <1>1 DEF Init, Prompt!Init

\* Processes end and nothing else changes.
LEMMA PromptEnd ==
    ASSUME Foreground' \subseteq Foreground, pc' = pc, eof' = eof
    PROVE  [Prompt!Next]_(Prompt!vars)
<1>1. Prompt!End(Foreground \ Foreground')
    BY DEF Prompt!End
<1>2. (Foreground \ Foreground') \in SUBSET Foreground
    OBVIOUS
<1> QED BY <1>1, <1>2 DEF Prompt!Next

\* The shell moves between two control states without any process changing.
LEMMA PromptMove ==
    ASSUME Foreground' = Foreground, eof' = eof,
           \/ Mode' = Mode
           \/ Mode = "off" /\ Mode' \in {"prompt", "over"}
           \/ Mode = "prompt" /\ Mode' = "busy" /\ ~eof
           \/ Mode = "prompt" /\ Mode' = "leaving" /\ eof
           \/ Mode = "busy" /\ Mode' = "prompt" /\ Foreground = {}
           \/ Mode = "busy" /\ Mode' \in {"leaving", "over"}
           \/ Mode = "leaving" /\ Mode' = "over"
    PROVE  [Prompt!Next]_(Prompt!vars)
BY DEF Prompt!Next, Prompt!vars, Prompt!StartUp, Prompt!ReadLine, Prompt!EndInput,
       Prompt!Done, Prompt!Fail, Prompt!Leave, Prompt!Enter

\* A fork in the foreground is a Spawn; one in the background is none of
\* JobControl's business.
LEMMA PromptFork ==
    ASSUME IInv, NEW p \in Pids, NEW j \in Job, Fork(p, j), Mode = "busy", Mode' = "busy"
    PROVE  [Prompt!Next]_(Prompt!vars)
<1>1. Foreground' = Foreground \cup (IF j.fg THEN {p} ELSE {}) /\ eof' = eof
    BY ForkEffect
<1>2. CASE j.fg
    BY <1>1, <1>2 DEF Prompt!Next, Prompt!Spawn
<1>3. CASE ~j.fg
    BY <1>1, <1>3, PromptMove
<1> QED BY <1>2, <1>3

LEMMA PromptFail ==
    ASSUME IInv, Fail, Mode = "busy"
    PROVE  [Prompt!Next]_(Prompt!vars)
<1>1. Foreground' = Foreground
    BY FailStep
<1> QED BY <1>1, PromptMove DEF Fail, Goto

LEMMA PromptExit ==
    ASSUME IInv, Exit, Mode \in {"off", "busy", "leaving"}
    PROVE  [Prompt!Next]_(Prompt!vars)
<1>1. Foreground' = Foreground
    BY ExitEffect
<1> QED BY <1>1, PromptMove DEF Exit

LEMMA PromptShell ==
    ASSUME IInv, Shell
    PROVE  [Prompt!Next]_(Prompt!vars)
<1>1. CASE prepare
    <2>1. CASE Goto("getline")
        <3>1. Foreground' = Foreground
            BY <2>1, SameProcs DEF Goto
        <3> QED BY <1>1, <2>1, <3>1, PromptMove DEF prepare, Main, Goto
    <2> QED BY <1>1, <2>1, PromptExit DEF prepare, Main
<1>2. CASE arglist
    <2>1. CASE ~Exit
        <3>1. pc = "arglist" /\ pc' \in {"getline", "pipe", "fork"} /\ eof' = eof
            BY <1>2, <2>1 DEF arglist, Main, Goto
        <3>2. Foreground' = Foreground
            BY <1>2, <2>1, SameProcs DEF arglist, Goto
        <3>3. Foreground = {}
            BY <3>1 DEF IInv, ForegroundBound
        <3> QED BY <3>1, <3>2, <3>3, PromptMove
    <2> QED BY <1>2, <2>1, PromptExit DEF arglist, Main
<1>3. CASE finalize
    BY <1>3, PromptExit DEF finalize, Main
<1>4. CASE pipe
    <2>1. pc = "pipe"
        BY <1>4 DEF pipe, Main
    <2>2. CASE ~Fail
        <3>1. Foreground' = Foreground
            BY <1>4, <2>2, SameProcs DEF pipe
        <3> QED BY <1>4, <2>1, <2>2, <3>1, PromptMove DEF pipe
    <2> QED BY <2>1, <2>2, PromptFail
<1>5. CASE fork1
    <2>1. pc = "fork1" /\ FirstJob \in Job
        BY <1>5, JobType DEF fork1, Main, IInv, TypeOK
    <2> QED BY <1>5, <2>1, PromptFork, PromptFail DEF fork1
<1>6. CASE fork2
    <2>1. pc = "fork2" /\ SecondJob \in Job
        BY <1>6, JobType DEF fork2, Main, IInv, TypeOK
    <2> QED BY <1>6, <2>1, PromptFork, PromptFail DEF fork2
<1>7. CASE fork
    <2>1. pc = "fork" /\ SingleJob \in Job
        BY <1>7, JobType DEF fork, Main, IInv, TypeOK
    <2> QED BY <1>7, <2>1, PromptFork, PromptFail DEF fork
<1>8. CASE close
    <2>1. Foreground' = Foreground
        BY <1>8, SameProcs DEF close
    <2> QED BY <1>8, <2>1, PromptMove DEF close, Main
<1>9. CASE wait1
    <2>1. pid1 \in Pids \cup {NULL} /\ (pid1 \in Pids => proc[pid1] \notin Alive)
        BY <1>9 DEF wait1, waitpid, IInv, TypeOK, Alive
    <2>2. Foreground' = Foreground
        BY <1>9, <2>1, ReapEffect DEF wait1, waitpid
    <2> QED BY <1>9, <2>2, PromptMove DEF wait1, waitpid, Main
<1>10. CASE wait2
    <2>1. pid2 \in Pids \cup {NULL} /\ (pid2 \in Pids => proc[pid2] \notin Alive)
        BY <1>10 DEF wait2, waitpid, IInv, TypeOK, Alive
    <2>2. Foreground' = Foreground
        BY <1>10, <2>1, ReapEffect DEF wait2, waitpid
    <2> QED BY <1>10, <2>2, PromptMove DEF wait2, waitpid, Main
<1>11. CASE Return
    <2>1. Foreground' = Foreground
        BY <1>11, SameProcs DEF Return
    <2>2. Foreground = {}
        BY <1>11 DEF Return, Main, IInv, ForegroundBound
    <2> QED BY <1>11, <2>1, <2>2, PromptMove DEF Return, Main
<1> QED
    BY <1>1, <1>2, <1>3, <1>4, <1>5, <1>6, <1>7, <1>8, <1>9, <1>10, <1>11 DEF Shell

\* Every step of the shell, its handlers, its children and its user is a step
\* of JobControl or none.
LEMMA PromptStep ==
    ASSUME IInv, [Next]_vars
    PROVE  [Prompt!Next]_(Prompt!vars)
<1>1. CASE UNCHANGED vars
    <2>1. Foreground' = Foreground
        BY <1>1, SameProcs DEF vars
    <2> QED BY <1>1, <2>1, PromptMove DEF vars
<1>2. CASE Shell
    BY <1>2, PromptShell
<1>3. CASE getline
    <2>1. Foreground' = Foreground
        BY <1>3, SameProcs DEF getline, Goto
    <2> QED BY <1>3, <2>1, PromptMove DEF getline, Main, Goto
<1>4. CASE Deliver
    <2>1. Foreground' = Foreground
        BY <1>4, SameProcs DEF Deliver
    <2> QED BY <1>4, <2>1, PromptMove DEF Deliver
<1>5. CASE sigchld_handler
    <2>1. CASE UNCHANGED procVars
        BY <1>5, <2>1, SameProcs, PromptMove DEF sigchld_handler, ResumeAt, sigchld_flags
    <2>2. CASE \E p \in Zombies : Reap(p)
        <3>1. Foreground' = Foreground
            BY <2>2, ReapEffect DEF Zombies, Alive
        <3> QED BY <1>5, <3>1, PromptMove DEF sigchld_handler, ResumeAt, sigchld_flags
    <2> QED BY <1>5, <2>1, <2>2 DEF sigchld_handler
<1>6. CASE CtrlC
    <2>1. Foreground' \subseteq Foreground /\ eof' = eof
        BY <1>6, CtrlCStep DEF CtrlC
    <2>2. CASE pc' = pc
        BY <2>1, <2>2, PromptEnd
    <2>3. CASE pc = "prepare" /\ pc' = "exited"
        <3>1. Foreground = {}
            BY <2>3 DEF IInv, ForegroundBound
        <3> QED BY <2>1, <2>3, <3>1, PromptMove
    <2> QED BY <1>6, <2>2, <2>3 DEF CtrlC, ResumeAt, sigint_flags
<1>7. CASE CtrlD
    <2>1. Foreground' = Foreground
        BY <1>7, SameProcs DEF CtrlD
    <2> QED BY <1>7, <2>1 DEF CtrlD, Prompt!Next, Prompt!CloseInput
<1>8. CASE \E p \in Pids : Child(p)
    <2>1. PICK p \in Pids : Child(p)
        BY <1>8
    <2>2. Foreground' \subseteq Foreground
        BY <2>1, ChildFilesStep, ChildExecStep, RunStep DEF Child
    <2>3. pc' = pc /\ eof' = eof
        BY <2>1 DEF Child, ChildFiles, ChildExec, Run
    <2> QED BY <2>2, <2>3, PromptEnd
<1> QED
    BY <1>1, <1>2, <1>3, <1>4, <1>5, <1>6, <1>7, <1>8 DEF Next

\* The prompt comes back only when no foreground process is alive, and no
\* signal takes the shell out of its loop: process_arglist waits for every
\* child it forks in the foreground (myshell.c:123-128, 218), and both
\* handlers are installed with SA_RESTART.
THEOREM ShellIsJobControl == Spec => IsJobControl
BY PromptInit, PromptStep, ShellInvariance, PTL DEF Spec, IsJobControl, Prompt!Spec
===============================================================================
