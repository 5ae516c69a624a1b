------------------------------ MODULE SlotStore ------------------------------
(***************************************************************************)
(* What a message slot promises its users: every (minor, channel) pair is  *)
(* a register that keeps the last message written to it.  A write that     *)
(* fails may leave its own register in any state, never another one.       *)
(***************************************************************************)
EXTENDS Naturals, Sequences

CONSTANTS Minors, Channels, Files, Messages, None, Errors

VARIABLES slot,    \* slot[m][c]: the message on channel c of minor m, or None
          file,    \* file[f]: None, or the minor and the channel (or None) of f
          result   \* what the last call on a file returned

Deliver(op, f, status, n, msg) == result' = <<op, f, status, n, msg>>
Return(op, f, status) == Deliver(op, f, status, 0, <<>>)

Init ==
    /\ slot = [m \in Minors |-> [c \in Channels |-> None]]
    /\ file = [f \in Files |-> None]
    /\ result = None

IsOpen(f) == file[f] # None
HasChannel(f) == IsOpen(f) /\ file[f].channel # None
Content(f) == slot[file[f].minor][file[f].channel]

Open(f, m) ==
    /\ \/ Return("open", f, "ok") /\ file' = [file EXCEPT ![f] = [minor |-> m, channel |-> None]]
       \/ \E e \in Errors : Return("open", f, e) /\ file' = file
    /\ ~IsOpen(f)
    /\ UNCHANGED slot

SetChannel(f) ==
    /\ IsOpen(f)
    /\ \/ Return("ioctl", f, "ok") /\ \E c \in Channels : file' = [file EXCEPT ![f].channel = c]
       \/ Return("ioctl", f, "EINVAL") /\ file' = file
    /\ UNCHANGED slot

Write(f, msg) ==
    /\ Deliver("write", f, "ok", Len(msg), <<>>)
    /\ HasChannel(f)
    /\ slot' = [slot EXCEPT ![file[f].minor][file[f].channel] = msg]
    /\ UNCHANGED file

\* The caller is told; what its own register holds from now on is open.
FailedWrite(f) ==
    /\ \E e \in Errors : Return("write", f, e)
    /\ IsOpen(f)
    /\ \A m \in Minors : \A c \in Channels :
          slot'[m][c] # slot[m][c] => m = file[f].minor /\ c = file[f].channel
    /\ UNCHANGED file

Read(f) ==
    /\ HasChannel(f)
    /\ IF Content(f) = None THEN Return("read", f, "EWOULDBLOCK")
       ELSE Deliver("read", f, "ok", Len(Content(f)), Content(f))
    /\ UNCHANGED <<slot, file>>

FailedRead(f) ==
    /\ \E e \in Errors \ {"EWOULDBLOCK"} : Return("read", f, e)
    /\ IsOpen(f)
    /\ UNCHANGED <<slot, file>>

Close(f) ==
    /\ UNCHANGED result
    /\ IsOpen(f)
    /\ file' = [file EXCEPT ![f] = None]
    /\ UNCHANGED slot

\* Unloading the driver forgets every message.
Unload ==
    /\ UNCHANGED result
    /\ \A f \in Files : ~IsOpen(f)
    /\ slot' = [m \in Minors |-> [c \in Channels |-> None]]
    /\ UNCHANGED file

Next ==
    \/ Unload
    \/ \E f \in Files :
          \/ \E m \in Minors : Open(f, m)
          \/ \E msg \in Messages : Write(f, msg)
          \/ FailedRead(f) \/ SetChannel(f) \/ FailedWrite(f) \/ Close(f) \/ Read(f)

Spec == Init /\ [][Next]_<<slot, file, result>>
=============================================================================
