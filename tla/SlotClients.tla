----------------------------- MODULE SlotClients -----------------------------
(***************************************************************************)
(* message_sender and message_reader running against the driver: each      *)
(* process makes its system calls one at a time, in any interleaving with  *)
(* the others.  A process is named by the one file it opens.               *)
(***************************************************************************)
EXTENDS MessageSlot

CONSTANT Arg   \* Arg[p]: the program p runs, and its command line

ASSUME ClientAssumption ==
    Arg \in [Files -> [prog : {"sender", "reader"}, minor : Minors, id : Ids, msg : Inputs]]

VARIABLES pc,       \* the system call a process makes next
          errno,
          status,   \* its exit value, "run" before it exits
          printed,  \* what a reader wrote to standard output, or NULL
          last      \* history: last[m][c], the message last sent, or NULL

clientVars == <<pc, errno, status, printed, last>>

ClientInit ==
    /\ Init
    /\ pc = [p \in Files |-> "start"]
    /\ errno = [p \in Files |-> "ok"]
    /\ status = [p \in Files |-> "run"]
    /\ printed = [p \in Files |-> NULL]
    /\ last = [m \in Minors |-> [c \in Ids |-> NULL]]

Sender(p) == Arg[p].prog = "sender"
GoTo(p, q) == pc' = [pc EXCEPT ![p] = q]
Exit(p, v) == GoTo(p, "done") /\ status' = [status EXCEPT ![p] = v]

\* The arguments are counted; with too few or too many nothing is opened.
Start(p) ==
    /\ pc[p] = "start"
    /\ (GoTo(p, "open") /\ UNCHANGED status) \/ Exit(p, "1")
    /\ UNCHANGED <<vars, errno, printed, last>>

Open(p) ==
    /\ pc[p] = "open"
    /\ device_open(p, Arg[p].minor)
    /\ GoTo(p, "ioctl")
    /\ UNCHANGED <<errno, status, printed, last>>

\* No driver has the major number, or it is out of memory.  The sender goes on
\* with fd < 0, the reader stops.
OpenFails(p) ==
    /\ pc[p] = "open"
    /\ OpenFailed(p, Arg[p].minor) \/ (major # "slot" /\ UNCHANGED vars)
    /\ IF Sender(p) THEN GoTo(p, "ioctl") /\ UNCHANGED status ELSE Exit(p, "1")
    /\ UNCHANGED <<errno, printed, last>>

\* calloc fails in the reader; its exit closes the file.
NoBuffer(p) ==
    /\ pc[p] = "ioctl" /\ ~Sender(p) /\ "calloc" \in Faults
    /\ Close(p)
    /\ Exit(p, "1")
    /\ UNCHANGED <<errno, printed, last>>

\* A system call failed: its error is in errno and exitAndClean comes next.
Fails(p, e) ==
    /\ errno' = [errno EXCEPT ![p] = e]
    /\ GoTo(p, "exitAndClean")
    /\ UNCHANGED <<status, printed>>

Ioctl(p) ==
    /\ pc[p] = "ioctl"
    /\ device_ioctl(p, Arg[p].id)
    /\ GoTo(p, IF Sender(p) THEN "write" ELSE "read")
    /\ UNCHANGED <<errno, status, printed, last>>

IoctlFails(p) ==
    /\ pc[p] = "ioctl"
    /\ \/ Arg[p].id = 0 /\ IoctlRejected(p) /\ Fails(p, "EINVAL")
       \/ file[p] = NULL /\ UNCHANGED vars /\ Fails(p, "EBADF")
    /\ UNCHANGED last

Write(p) ==
    /\ pc[p] = "write"
    /\ device_write(p, Arg[p].msg)
    /\ last' = [last EXCEPT ![Arg[p].minor][Arg[p].id] = Arg[p].msg]
    /\ GoTo(p, "close")
    /\ UNCHANGED <<errno, status, printed>>

\* A write that fails halfway leaves its channel in doubt.
WriteFails(p) ==
    /\ pc[p] = "write"
    /\ \/ WriteRejected(p, Arg[p].msg, FALSE) /\ UNCHANGED last
       \/ WriteNoNode(p, Arg[p].msg) /\ UNCHANGED last
       \/ /\ WriteNoCopy(p, Arg[p].msg)
          /\ last' = [last EXCEPT ![Arg[p].minor][Arg[p].id] = Junk]
    /\ Fails(p, result'[3])

\* Mutant of ReadFails: the reader tries again.
ReadRetries(p) ==
    /\ pc[p] = "read"
    /\ \/ device_read(p, BUF_LEN) /\ result'[3] # "ok"
       \/ "copy" \in Faults /\ ReadRejected(p)
    /\ UNCHANGED clientVars

Read(p) ==
    /\ pc[p] = "read"
    /\ device_read(p, BUF_LEN) /\ result'[3] = "ok"
    /\ printed' = [printed EXCEPT ![p] = result'[5]]
    /\ GoTo(p, "close")
    /\ UNCHANGED <<errno, status, last>>

ReadFails(p) ==
    /\ pc[p] = "read"
    /\ \/ device_read(p, BUF_LEN) /\ result'[3] # "ok"
       \/ "copy" \in Faults /\ ReadRejected(p)
    /\ Fails(p, result'[3])
    /\ UNCHANGED last

\* close, then the reader's write to standard output, then the end of main.
CloseAndExit(p) ==
    /\ pc[p] = "close"
    /\ Close(p)
    /\ Exit(p, "0")
    /\ UNCHANGED <<errno, printed, last>>

\* Mutant of exitAndClean: the program ends without a failure.
ExitCleanly(p) ==
    /\ pc[p] = "exitAndClean"
    /\ IF file[p] # NULL THEN Close(p) ELSE UNCHANGED vars
    /\ Exit(p, "0")
    /\ UNCHANGED <<errno, printed, last>>

\* close succeeds and leaves errno alone, or there is nothing to close.
exitAndClean(p) ==
    /\ pc[p] = "exitAndClean"
    /\ IF file[p] # NULL THEN Close(p) ELSE UNCHANGED vars
    /\ Exit(p, IF file[p] # NULL THEN errno[p] ELSE "EBADF")
    /\ UNCHANGED <<errno, printed, last>>

\* The module is loaded and unloaded around the processes that use it.
Load == simple_init /\ UNCHANGED clientVars

Unload ==
    /\ simple_cleanup
    /\ last' = [m \in Minors |-> [c \in Ids |-> NULL]]
    /\ UNCHANGED <<pc, errno, status, printed>>

ClientStep(p) ==
    \/ Start(p) \/ Open(p) \/ OpenFails(p) \/ NoBuffer(p) \/ Ioctl(p) \/ IoctlFails(p)
    \/ Write(p) \/ WriteFails(p) \/ Read(p) \/ ReadFails(p)
    \/ CloseAndExit(p) \/ exitAndClean(p)

ClientNext == Load \/ Unload \/ \E p \in Files : ClientStep(p)

ClientSpec == ClientInit /\ [][ClientNext]_<<vars, clientVars>>

\* A process that can run is run; nobody has to load or unload the module.
FairClientSpec == ClientSpec /\ \A p \in Files : WF_<<vars, clientVars>>(ClientStep(p))
-----------------------------------------------------------------------------
\* What a reader prints was, when it read it, the message last sent on its
\* channel, unless the last write there failed halfway (message_reader.c:55-73).
PrintsLastSent ==
    [][\A p \in Files :
          printed'[p] # printed[p] /\ last[Arg[p].minor][Arg[p].id] # Junk =>
              printed'[p] = last[Arg[p].minor][Arg[p].id]]_<<vars, clientVars>>

\* A sender that exits with 0 leaves a message on its channel, because its
\* open file keeps the module loaded from the write to the exit; a reader that
\* exits with 0 has printed one (message_sender.c:50-61, message_reader.c:55-73).
SuccessIsReal ==
    [][\A p \in Files : status'[p] = "0" /\ status[p] # "0" =>
          IF Sender(p) THEN Stored(Arg[p].minor, Arg[p].id) # NULL
          ELSE printed[p] # NULL]_<<vars, clientVars>>

\* Every process comes to its end and no file stays open behind it, whatever
\* fails on the way: the module can be unloaded again.
AllExit == <>[](\A p \in Files : status[p] # "run" /\ file[p] = NULL)
=============================================================================
