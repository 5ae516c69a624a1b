-------------------------- MODULE SlotClientsProofs ---------------------------
(***************************************************************************)
(* message_sender and message_reader on the driver, for any number of      *)
(* processes and any command lines: what a reader prints and what an exit  *)
(* value of 0 means.                                                       *)
(***************************************************************************)
EXTENDS SlotClients, MessageSlotRefinement

Places == {"start", "open", "ioctl", "write", "read", "close", "exitAndClean", "done"}
ErrorValues == Errors \cup {"ok", "EBADF"}

ClientTypes ==
    /\ pc \in [Files -> Places]
    /\ errno \in [Files -> ErrorValues]
    /\ status \in [Files -> {"run", "0", "1"} \cup ErrorValues]
    /\ printed = [p \in Files |-> printed[p]]
    /\ last = [m \in Minors |-> [c \in Ids |-> last[m][c]]]

\* The history tells what a register holds, where no write failed halfway.
LastSound ==
    \A m \in Minors : \A c \in Channels : last[m][c] # Junk => registers[m][c] = last[m][c]

\* What a process has done by the time it makes its next call.
ProcessOK(p) ==
    /\ file[p] # NULL => file[p].minor = Arg[p].minor
    /\ pc[p] \in {"write", "read", "close"} =>
          file[p] # NULL /\ Arg[p].id # 0 /\ file[p].private_data = Arg[p].id
    /\ pc[p] = "write" => Sender(p)
    /\ pc[p] = "read" => ~Sender(p)
    /\ pc[p] = "close" /\ Sender(p) => registers[Arg[p].minor][Arg[p].id] # NULL
    /\ pc[p] = "close" /\ ~Sender(p) => printed[p] # NULL

CInv == IInv /\ ClientTypes /\ LastSound /\ \A p \in Files : ProcessOK(p)

USE Sizes
-----------------------------------------------------------------------------
(* The processes and the driver.                                           *)

LEMMA ArgFacts ==
    ASSUME NEW p \in Files
    PROVE  Arg[p].minor \in Minors /\ Arg[p].id \in Ids /\ Arg[p].msg \in Inputs
  BY ClientAssumption

\* A step of a process is an operation on its file, or none of the driver's.
LEMMA ProcessStep ==
    ASSUME NEW p \in Files, ClientStep(p)
    PROVE  Operation(p) \/ UNCHANGED vars
<1>1. CASE Start(p)
  BY <1>1 DEF Start
<1>2. CASE Open(p) \/ OpenFails(p)
  BY <1>2, ArgFacts DEF Open, OpenFails, Operation
<1>3. CASE NoBuffer(p) \/ CloseAndExit(p) \/ exitAndClean(p)
  BY <1>3 DEF NoBuffer, CloseAndExit, exitAndClean, Operation
<1>4. CASE Ioctl(p) \/ IoctlFails(p)
  BY <1>4, ArgFacts DEF Ioctl, IoctlFails, Operation
<1>5. CASE Write(p) \/ WriteFails(p)
  BY <1>5, ArgFacts DEF Write, WriteFails, Operation
<1>6. CASE Read(p) \/ ReadFails(p)
  <2>1. BUF_LEN \in 0..BUF_LEN
    OBVIOUS
  <2> QED BY <1>6, <2>1 DEF Read, ReadFails, Operation
<1> QED BY <1>1, <1>2, <1>3, <1>4, <1>5, <1>6 DEF ClientStep

LEMMA DriverStep == ASSUME [ClientNext]_<<vars, clientVars>> PROVE [Next]_vars
<1>1. ASSUME NEW p \in Files, ClientStep(p) PROVE [Next]_vars
  BY <1>1, ProcessStep DEF Next
<1> QED BY <1>1 DEF ClientNext, Load, Unload, Next

\* What p does to its own state, and nobody else's.
Local(p) ==
    \A q \in Files : q # p => file'[q] = file[q] /\ pc'[q] = pc[q] /\ printed'[q] = printed[q]

\* No register is emptied.
Fuller == \A m \in Minors : \A c \in Channels : registers[m][c] # NULL => registers'[m][c] # NULL

LEMMA OthersOK ==
    ASSUME CInv, UnsignedIds, NEW p \in Files, Local(p), Fuller, NEW q \in Files, q # p
    PROVE  ProcessOK(q)'
<1>1. Arg[q].minor \in Minors /\ Arg[q].id \in Ids /\ (Arg[q].id # 0 => Arg[q].id \in Channels)
  BY ArgFacts, ChannelFacts
<1>2. ProcessOK(q) /\ file'[q] = file[q] /\ pc'[q] = pc[q] /\ printed'[q] = printed[q]
  BY DEF CInv, Local
<1> QED BY <1>1, <1>2 DEF ProcessOK, Fuller

\* A step of p that leaves the registers alone.
LEMMA QuietProcess ==
    ASSUME CInv, UnsignedIds, NEW p \in Files, Local(p), registers' = registers, last' = last,
           ClientTypes', ProcessOK(p)'
    PROVE  ClientTypes' /\ LastSound' /\ \A q \in Files : ProcessOK(q)'
<1>1. LastSound'
  BY DEF CInv, LastSound
<1>2. Fuller
  BY DEF Fuller
<1>3. \A q \in Files : ProcessOK(q)'
  BY <1>2, OthersOK
<1> QED BY <1>1, <1>3
-----------------------------------------------------------------------------
(* The steps that leave the registers alone.                               *)

LEMMA FileTypes == ASSUME IInv PROVE file \in [Files -> {NULL} \cup OpenFile]
  BY DEF IInv, TypeOK

LEMMA StartKeeps ==
    ASSUME CInv, UnsignedIds, NEW p \in Files, Start(p)
    PROVE  ClientTypes' /\ LastSound' /\ \A q \in Files : ProcessOK(q)'
<1> USE DEF Start, Exit, GoTo
<1>1. registers' = registers /\ last' = last /\ Local(p)
  BY SameRegisters DEF vars, Local, CInv, ClientTypes
<1>2. ClientTypes'
  BY DEF CInv, ClientTypes, Places
<1>3. pc'[p] \in {"open", "done"} /\ file' = file
  BY DEF CInv, ClientTypes, vars
<1>4. ProcessOK(p)'
  BY <1>3 DEF CInv, ProcessOK
<1> QED BY <1>1, <1>2, <1>4, QuietProcess

LEMMA OpenKeepsClients ==
    ASSUME CInv, UnsignedIds, NEW p \in Files, Open(p)
    PROVE  ClientTypes' /\ LastSound' /\ \A q \in Files : ProcessOK(q)'
<1> USE DEF Open, GoTo
<1>1. registers' = registers
  BY ArgFacts, OpenRefines DEF CInv, Store!Open
<1>2. file' = [file EXCEPT ![p] = [minor |-> Arg[p].minor, private_data |-> 0]]
  BY DEF device_open
<1>3. file \in [Files -> {NULL} \cup OpenFile]
  BY FileTypes DEF CInv
<1>4. Local(p) /\ file'[p].minor = Arg[p].minor /\ pc'[p] = "ioctl"
  BY <1>2, <1>3 DEF Local, CInv, ClientTypes
<1>5. ClientTypes'
  BY DEF CInv, ClientTypes, Places
<1>6. ProcessOK(p)'
  BY <1>4 DEF ProcessOK
<1> QED BY <1>1, <1>4, <1>5, <1>6, QuietProcess

LEMMA OpenFailsKeepsClients ==
    ASSUME CInv, UnsignedIds, NEW p \in Files, OpenFails(p)
    PROVE  ClientTypes' /\ LastSound' /\ \A q \in Files : ProcessOK(q)'
<1> USE DEF OpenFails, Exit, GoTo
<1>1. file' = file /\ devices' = devices
  BY DEF OpenFailed, vars
<1>2. registers' = registers /\ Local(p) /\ last' = last
  BY <1>1, SameRegisters DEF Local, CInv, ClientTypes
<1>3. ClientTypes'
  BY DEF CInv, ClientTypes, Places
<1>4. pc'[p] \in {"ioctl", "done"}
  BY DEF CInv, ClientTypes
<1>5. ProcessOK(p)'
  BY <1>1, <1>4 DEF CInv, ProcessOK
<1> QED BY <1>2, <1>3, <1>5, QuietProcess

\* The steps in which p closes its file and ends, or ends without a file.
LEMMA EndKeepsClients ==
    ASSUME CInv, UnsignedIds, NEW p \in Files, NEW v \in {"run", "0", "1"} \cup ErrorValues,
           Close(p) \/ UNCHANGED vars, Exit(p, v), UNCHANGED <<errno, printed, last>>
    PROVE  ClientTypes' /\ LastSound' /\ \A q \in Files : ProcessOK(q)'
<1> USE DEF Exit, GoTo
<1>1. devices' = devices
  BY DEF Close, vars
<1>2. file \in [Files -> {NULL} \cup OpenFile]
  BY FileTypes DEF CInv
<1>3. registers' = registers /\ Local(p)
  BY <1>1, <1>2, SameRegisters DEF Close, vars, Local, CInv, ClientTypes
<1>4. ClientTypes'
  BY DEF CInv, ClientTypes, Places
<1>5. pc'[p] = "done" /\ (file'[p] = NULL \/ file'[p] = file[p])
  BY <1>2 DEF CInv, ClientTypes, Close, vars
<1>6. ProcessOK(p)'
  BY <1>5 DEF CInv, ProcessOK
<1> QED BY <1>3, <1>4, <1>6, QuietProcess

LEMMA EndsKeepClients ==
    ASSUME CInv, UnsignedIds, NEW p \in Files,
           NoBuffer(p) \/ CloseAndExit(p) \/ exitAndClean(p)
    PROVE  ClientTypes' /\ LastSound' /\ \A q \in Files : ProcessOK(q)'
<1>1. CASE NoBuffer(p)
  BY <1>1, EndKeepsClients DEF NoBuffer
<1>2. CASE CloseAndExit(p)
  BY <1>2, EndKeepsClients DEF CloseAndExit
<1>3. CASE exitAndClean(p)
  <2>1. errno[p] \in ErrorValues /\ "EBADF" \in ErrorValues
    BY DEF CInv, ClientTypes, ErrorValues
  <2>2. PICK v : v = IF file[p] # NULL THEN errno[p] ELSE "EBADF"
    OBVIOUS
  <2>3. Exit(p, v) /\ (Close(p) \/ UNCHANGED vars) /\ UNCHANGED <<errno, printed, last>>
    BY <1>3, <2>2 DEF exitAndClean
  <2> QED BY <2>1, <2>2, <2>3, EndKeepsClients
<1> QED BY <1>1, <1>2, <1>3

LEMMA IoctlKeepsClients ==
    ASSUME CInv, UnsignedIds, NEW p \in Files, Ioctl(p)
    PROVE  ClientTypes' /\ LastSound' /\ \A q \in Files : ProcessOK(q)'
<1> USE DEF Ioctl, GoTo
<1>1. file' = [file EXCEPT ![p].private_data = Arg[p].id] /\ Arg[p].id # 0
  BY DEF device_ioctl
<1>2. file \in [Files -> {NULL} \cup OpenFile] /\ file[p] \in OpenFile
  BY FileTypes, OpenFacts DEF CInv, device_ioctl
<1>3. registers' = registers
  BY SameRegisters DEF device_ioctl
<1>4. Local(p) /\ last' = last
  BY <1>1, <1>2 DEF Local, CInv, ClientTypes
<1>5. ClientTypes'
  BY DEF CInv, ClientTypes, Places
<1>6. pc'[p] = IF Sender(p) THEN "write" ELSE "read"
  BY DEF CInv, ClientTypes
<1> DEFINE of == [file[p] EXCEPT !.private_data = Arg[p].id]
<1>7. of \in OpenFile /\ of.minor = file[p].minor /\ of.private_data = Arg[p].id
  BY <1>2, ArgFacts DEF OpenFile
<1>8. file'[p] = of
  BY <1>1, <1>2
<1>9. file[p].minor = Arg[p].minor
  BY <1>2, NullApart DEF CInv, ProcessOK
<1> HIDE DEF of
<1>10. ProcessOK(p)'
  BY <1>1, <1>6, <1>7, <1>8, <1>9, NullApart DEF ProcessOK
<1> QED BY <1>3, <1>4, <1>5, <1>10, QuietProcess

\* A failed call that leaves the driver's files and lists as they are.
LEMMA FailKeepsClients ==
    ASSUME CInv, UnsignedIds, NEW p \in Files, NEW e \in ErrorValues, Fails(p, e),
           file' = file, devices' = devices, last' = last
    PROVE  ClientTypes' /\ LastSound' /\ \A q \in Files : ProcessOK(q)'
<1> USE DEF Fails, GoTo
<1>1. registers' = registers /\ Local(p)
  BY SameRegisters DEF Local, CInv, ClientTypes
<1>2. ClientTypes'
  BY DEF CInv, ClientTypes, Places
<1>3. pc'[p] = "exitAndClean"
  BY DEF CInv, ClientTypes
<1>4. ProcessOK(p)'
  BY <1>3 DEF CInv, ProcessOK
<1> QED BY <1>1, <1>2, <1>4, QuietProcess

LEMMA IoctlFailsKeepsClients ==
    ASSUME CInv, UnsignedIds, NEW p \in Files, IoctlFails(p)
    PROVE  ClientTypes' /\ LastSound' /\ \A q \in Files : ProcessOK(q)'
<1>1. "EINVAL" \in ErrorValues /\ "EBADF" \in ErrorValues
  BY DEF ErrorValues, Errors
<1>2. PICK e \in ErrorValues : Fails(p, e)
  BY <1>1 DEF IoctlFails
<1>3. file' = file /\ devices' = devices /\ last' = last
  BY DEF IoctlFails, IoctlRejected, vars
<1> QED BY <1>2, <1>3, FailKeepsClients
-----------------------------------------------------------------------------
(* Reading.                                                                *)

\* A read that succeeds delivers what the register of the file holds.
LEMMA ReadValue ==
    ASSUME IInv, UnsignedIds, NEW f \in Files, device_read(f, BUF_LEN), result'[3] = "ok"
    PROVE  /\ result'[5] = registers[file[f].minor][file[f].private_data]
           /\ result'[5] # NULL
<1>1. IsOpen(f) /\ file[f].private_data # 0
  BY DEF device_read
<1>2. Store!Content(f) = registers[file[f].minor][file[f].private_data]
  BY <1>1, ContentFacts DEF Store!Content
<1>3. CASE Store!FailedRead(f)
  <2>1. PICK e \in Errors : Store!Return("read", f, e)
    BY <1>3 DEF Store!FailedRead
  <2>2. result'[3] = e /\ e # "ok"
    BY <2>1 DEF Store!Return, Store!Deliver, Errors
  <2> QED BY <2>2
<1>4. CASE Store!Read(f)
  <2>1. Store!Content(f) # NULL
    BY <1>4 DEF Store!Read, Store!Return, Store!Deliver
  <2>2. result'[5] = Store!Content(f)
    BY <1>4, <2>1 DEF Store!Read, Store!Deliver
  <2> QED BY <1>2, <2>1, <2>2
<1> QED BY <1>3, <1>4, ReadRefines

\* The file of a process that reads or writes has the process's channel.
LEMMA AtChannel ==
    ASSUME CInv, UnsignedIds, NEW p \in Files, pc[p] \in {"write", "read", "close"}
    PROVE  /\ file[p].minor = Arg[p].minor /\ file[p].private_data = Arg[p].id
           /\ file[p].private_data # 0
           /\ Arg[p].minor \in Minors /\ Arg[p].id \in Channels /\ Arg[p].id \in Ids
<1>1. ProcessOK(p)
  BY DEF CInv
<1> QED BY <1>1, ArgFacts, ChannelFacts DEF ProcessOK

LEMMA ReadKeepsClients ==
    ASSUME CInv, UnsignedIds, NEW p \in Files, Read(p)
    PROVE  ClientTypes' /\ LastSound' /\ \A q \in Files : ProcessOK(q)'
<1> USE DEF Read, GoTo
<1>1. file' = file /\ devices' = devices
  BY DEF device_read
<1>2. registers' = registers /\ last' = last /\ Local(p)
  BY <1>1, SameRegisters DEF Local, CInv, ClientTypes
<1>3. ClientTypes'
  <2>1. pc' \in [Files -> Places]
    BY DEF CInv, ClientTypes, Places
  <2>2. printed' = [q \in Files |-> printed'[q]]
    BY DEF CInv, ClientTypes
  <2> QED BY <2>1, <2>2 DEF CInv, ClientTypes
<1>4. pc'[p] = "close" /\ printed'[p] = result'[5] /\ ~Sender(p)
  BY DEF CInv, ClientTypes, ProcessOK
<1>5. printed'[p] # NULL
  BY <1>4, ReadValue DEF CInv
<1>6. ProcessOK(p)'
  BY <1>1, <1>4, <1>5 DEF CInv, ProcessOK
<1> QED BY <1>2, <1>3, <1>6, QuietProcess

LEMMA ReadFailsKeepsClients ==
    ASSUME CInv, UnsignedIds, NEW p \in Files, ReadFails(p)
    PROVE  ClientTypes' /\ LastSound' /\ \A q \in Files : ProcessOK(q)'
<1>1. file' = file /\ devices' = devices /\ last' = last
  BY DEF ReadFails, device_read, ReadRejected
<1>2. result'[3] \in ErrorValues
  BY DEF ReadFails, device_read, ReadRejected, Return, Deliver, ErrorValues, Errors
<1>3. PICK e \in ErrorValues : e = result'[3]
  BY <1>2
<1>4. Fails(p, e)
  BY <1>3 DEF ReadFails
<1> QED BY <1>1, <1>4, FailKeepsClients
-----------------------------------------------------------------------------
(* Writing.                                                                *)

\* A write changes no register but its own, which it fills.
LEMMA WriteFills ==
    ASSUME IInv, UnsignedIds, NEW f \in Files, IsOpen(f), NEW m \in Inputs,
           WriteError(f, m, FALSE) = "ok", NEW new,
           new = WrittenList(f, m) \/ new = UncopiedList(f, m),
           devices' = [devices EXCEPT ![file[f].minor + 1] = new]
    PROVE  /\ \A n \in Minors : \A c \in Channels :
                 ~(n = file[f].minor /\ c = file[f].private_data)
                   => registers'[n][c] = registers[n][c]
           /\ registers'[file[f].minor][file[f].private_data] # NULL
           /\ new = WrittenList(f, m) => registers'[file[f].minor][file[f].private_data] = m
<1>1. Len(m) \in Nat
  BY SlotAssumption
<1>2. file[f].private_data # 0
  BY <1>1, WriteAllowed
<1>3. Written(List(f), new, Channel(f)) /\ (new = WrittenList(f, m) => Holds(new, Channel(f), m))
  BY WriteFacts
<1>4. registers' = [n \in Minors |-> [c \in Channels |->
                      IF n = file[f].minor /\ c = file[f].private_data
                      THEN StoredIn(new, c) ELSE registers[n][c]]]
  BY <1>2, <1>3, WriteTouchesOne
<1>5. PICK minor, id : minor = file[f].minor /\ id = file[f].private_data
  OBVIOUS
<1>6. minor \in Minors /\ id \in Channels /\ id \in Nat
  BY <1>2, <1>5, ContentFacts, ChannelFacts
<1>7. Written(List(f), new, ToInt(id)) /\ (new = WrittenList(f, m) => Holds(new, ToInt(id), m))
  BY <1>3, <1>5 DEF Channel
<1>8. new \in LinkedList /\ SoundList(new)
  BY <1>7 DEF Written
<1>9. StoredIn(new, id) # NULL
  <2>1. PICK k \in 1..Len(new.nodes) : new.nodes[k].channelId = ToInt(id)
    BY <1>7 DEF Written
  <2> QED BY <1>6, <1>8, <2>1, StoredAt
<1>10. new = WrittenList(f, m) => StoredIn(new, id) = m
  BY <1>6, <1>7, <1>8, WriteIsRead
<1> QED BY <1>4, <1>5, <1>6, <1>9, <1>10

\* A write of p, whether or not its message arrived.
LEMMA WrittenKeepsClients ==
    ASSUME CInv, UnsignedIds, NEW p \in Files, NEW x, pc[p] = "write",
           \A n \in Minors : \A c \in Channels :
              ~(n = Arg[p].minor /\ c = Arg[p].id) => registers'[n][c] = registers[n][c],
           registers'[Arg[p].minor][Arg[p].id] # NULL,
           x # Junk => registers'[Arg[p].minor][Arg[p].id] = x,
           last' = [last EXCEPT ![Arg[p].minor][Arg[p].id] = x],
           file' = file, printed' = printed,
           ClientTypes', Local(p), pc'[p] \in {"close", "exitAndClean"}
    PROVE  ClientTypes' /\ LastSound' /\ \A q \in Files : ProcessOK(q)'
<1>1. ProcessOK(p) /\ Sender(p) /\ Arg[p].minor \in Minors /\ Arg[p].id \in Channels
      /\ Arg[p].id \in Ids
  BY AtChannel DEF CInv, ProcessOK
<1>2. LastSound'
  <2>1. ASSUME NEW n \in Minors, NEW c \in Channels, last'[n][c] # Junk
        PROVE  registers'[n][c] = last'[n][c]
    <3>1. c \in Ids
      BY ChannelFacts
    <3>2. last'[n][c] = IF n = Arg[p].minor /\ c = Arg[p].id THEN x ELSE last[n][c]
      BY <1>1, <3>1 DEF CInv, ClientTypes
    <3>3. CASE n = Arg[p].minor /\ c = Arg[p].id
      BY <2>1, <3>2, <3>3
    <3>4. CASE ~(n = Arg[p].minor /\ c = Arg[p].id)
      BY <2>1, <3>2, <3>4 DEF CInv, LastSound
    <3> QED BY <3>3, <3>4
  <2> QED BY <2>1 DEF LastSound
<1>3. Fuller
  BY <1>1 DEF Fuller
<1>4. ProcessOK(p)'
  BY <1>1 DEF ProcessOK
<1>5. \A q \in Files : ProcessOK(q)'
  BY <1>3, <1>4, OthersOK
<1> QED BY <1>2, <1>5

LEMMA WriteKeepsClients ==
    ASSUME CInv, UnsignedIds, NEW p \in Files, Write(p)
    PROVE  ClientTypes' /\ LastSound' /\ \A q \in Files : ProcessOK(q)'
<1> USE DEF Write, GoTo
<1>1. IsOpen(p) /\ WriteError(p, Arg[p].msg, FALSE) = "ok" /\ Arg[p].msg \in Inputs
  BY ArgFacts DEF device_write
<1>2. PICK new : new = WrittenList(p, Arg[p].msg)
  OBVIOUS
<1>3. devices' = [devices EXCEPT ![file[p].minor + 1] = new] /\ file' = file
  BY <1>2 DEF device_write, WrittenList
<1>4. file[p].minor = Arg[p].minor /\ file[p].private_data = Arg[p].id
  BY AtChannel
<1>5. /\ \A n \in Minors : \A c \in Channels :
            ~(n = Arg[p].minor /\ c = Arg[p].id) => registers'[n][c] = registers[n][c]
      /\ registers'[Arg[p].minor][Arg[p].id] # NULL
      /\ registers'[Arg[p].minor][Arg[p].id] = Arg[p].msg
  <2>1. PICK m : m = Arg[p].msg
    OBVIOUS
  <2>2. /\ \A n \in Minors : \A c \in Channels :
              ~(n = file[p].minor /\ c = file[p].private_data)
                => registers'[n][c] = registers[n][c]
        /\ registers'[file[p].minor][file[p].private_data] # NULL
        /\ registers'[file[p].minor][file[p].private_data] = m
    <3> HIDE DEF Write
    <3>1. IsOpen(p) /\ WriteError(p, m, FALSE) = "ok" /\ m \in Inputs /\ new = WrittenList(p, m)
      BY <1>1, <1>2, <2>1
    <3> QED BY <1>3, <3>1, WriteFills DEF CInv
  <2> QED BY <1>4, <2>1, <2>2
<1>6. ClientTypes'
  <2>1. pc' \in [Files -> Places]
    BY DEF CInv, ClientTypes, Places
  <2>2. last' = [m \in Minors |-> [c \in Ids |-> last'[m][c]]]
    BY DEF CInv, ClientTypes
  <2> QED BY <2>1, <2>2 DEF CInv, ClientTypes
<1>7. Local(p) /\ pc'[p] = "close"
  BY <1>3 DEF Local, CInv, ClientTypes
<1> QED BY <1>3, <1>5, <1>6, <1>7, WrittenKeepsClients

LEMMA WriteFailsKeepsClients ==
    ASSUME CInv, UnsignedIds, NEW p \in Files, WriteFails(p)
    PROVE  ClientTypes' /\ LastSound' /\ \A q \in Files : ProcessOK(q)'
<1> USE DEF WriteFails
<1>1. Arg[p].msg \in Inputs /\ Len(Arg[p].msg) \in Nat
  BY ArgFacts, SlotAssumption
<1>2. CASE WriteRejected(p, Arg[p].msg, FALSE) /\ UNCHANGED last
  <2>1. result'[3] = WriteError(p, Arg[p].msg, FALSE)
    BY <1>2 DEF WriteRejected, Return, Deliver
  <2>2. WriteError(p, Arg[p].msg, FALSE) \in {"EMSGSIZE", "EINVAL", "ENOSPC", "ok"}
    BY DEF WriteError
  <2>3. PICK e \in ErrorValues : e = result'[3]
    BY <2>1, <2>2 DEF ErrorValues, Errors
  <2>4. Fails(p, e)
    BY <2>3
  <2> QED BY <1>2, <2>4, FailKeepsClients DEF WriteRejected
<1>3. CASE WriteNoNode(p, Arg[p].msg) /\ UNCHANGED last
  <2>1. PICK e \in ErrorValues : e = result'[3]
    BY <1>3 DEF WriteNoNode, Return, Deliver, ErrorValues, Errors
  <2>2. Fails(p, e)
    BY <2>1
  <2> QED BY <1>3, <2>2, FailKeepsClients DEF WriteNoNode
<1>4. CASE /\ WriteNoCopy(p, Arg[p].msg)
           /\ last' = [last EXCEPT ![Arg[p].minor][Arg[p].id] = Junk]
  <2>1. IsOpen(p) /\ WriteError(p, Arg[p].msg, FALSE) = "ok" /\ result'[3] = "ENOSPC"
    BY <1>4 DEF WriteNoCopy, Return, Deliver
  <2>2. PICK new : new = UncopiedList(p, Arg[p].msg)
    OBVIOUS
  <2>3. devices' = [devices EXCEPT ![file[p].minor + 1] = new] /\ file' = file
    BY <1>4, <2>2 DEF WriteNoCopy, UncopiedList
  <2>4. file[p].minor = Arg[p].minor /\ file[p].private_data = Arg[p].id
    BY AtChannel
  <2>5. /\ \A n \in Minors : \A c \in Channels :
              ~(n = Arg[p].minor /\ c = Arg[p].id) => registers'[n][c] = registers[n][c]
        /\ registers'[Arg[p].minor][Arg[p].id] # NULL
    <3> HIDE DEF WriteFails
    <3>1. PICK m : m = Arg[p].msg
      OBVIOUS
    <3>2. IsOpen(p) /\ WriteError(p, m, FALSE) = "ok" /\ m \in Inputs /\ new = UncopiedList(p, m)
      BY <1>1, <2>1, <2>2, <3>1
    <3>3. /\ \A n \in Minors : \A c \in Channels :
                ~(n = file[p].minor /\ c = file[p].private_data)
                  => registers'[n][c] = registers[n][c]
          /\ registers'[file[p].minor][file[p].private_data] # NULL
      BY <2>3, <3>2, WriteFills DEF CInv
    <3> QED BY <2>4, <3>3
  <2>6. ClientTypes'
    <3>1. pc' \in [Files -> Places]
      BY DEF CInv, ClientTypes, Places, Fails, GoTo
    <3>2. last' = [m \in Minors |-> [c \in Ids |-> last'[m][c]]]
      BY <1>4 DEF CInv, ClientTypes
    <3>3. errno' \in [Files -> ErrorValues]
      BY <2>1 DEF CInv, ClientTypes, Fails, ErrorValues, Errors
    <3> QED BY <3>1, <3>2, <3>3 DEF CInv, ClientTypes, Fails
  <2>7. Local(p) /\ pc'[p] = "exitAndClean" /\ printed' = printed
    BY <2>3 DEF Local, CInv, ClientTypes, Fails, GoTo
  <2> QED BY <1>4, <2>3, <2>5, <2>6, <2>7, WrittenKeepsClients
<1> QED BY <1>2, <1>3, <1>4
-----------------------------------------------------------------------------
(* The invariant.                                                          *)

LEMMA InitClients ==
    ASSUME ClientInit, UnsignedIds
    PROVE  CInv
<1>1. IInv /\ file = [f \in Files |-> NULL]
  BY InitIInv DEF ClientInit, Init
<1>2. ClientTypes
  BY DEF ClientInit, ClientTypes, Places, ErrorValues
<1>3. registers = [m \in Minors |-> [c \in Channels |-> NULL]]
  BY InitRefines DEF ClientInit, Store!Init
<1>4. LastSound
  BY <1>3, ChannelFacts DEF LastSound, ClientInit
<1>5. \A p \in Files : ProcessOK(p)
  BY <1>1 DEF ProcessOK, ClientInit
<1> QED BY <1>1, <1>2, <1>4, <1>5 DEF CInv

LEMMA LoadKeepsClients ==
    ASSUME CInv, Load
    PROVE  ClientTypes' /\ LastSound' /\ \A q \in Files : ProcessOK(q)'
<1>1. registers' = registers /\ file' = file /\ UNCHANGED clientVars
  BY SameRegisters DEF Load, simple_init
<1> QED BY <1>1 DEF CInv, ClientTypes, LastSound, ProcessOK, clientVars

LEMMA UnloadKeepsClients ==
    ASSUME CInv, Unload
    PROVE  ClientTypes' /\ LastSound' /\ \A q \in Files : ProcessOK(q)'
<1>1. registers' = [m \in Minors |-> [c \in Channels |-> NULL]]
  BY UnloadRefines DEF Unload, CInv, Store!Unload
<1>2. \A q \in Files : file[q] = NULL /\ file'[q] = NULL
  BY DEF Unload, simple_cleanup
<1>3. ClientTypes'
  BY DEF Unload, CInv, ClientTypes
<1>4. LastSound'
  BY <1>1, ChannelFacts DEF LastSound, Unload
<1>5. \A q \in Files : ProcessOK(q)'
  BY <1>2 DEF CInv, ProcessOK, Unload
<1> QED BY <1>3, <1>4, <1>5

LEMMA NextClients ==
    ASSUME UnsignedIds, CInv, [ClientNext]_<<vars, clientVars>>
    PROVE  CInv'
<1>1. IInv'
  BY DriverStep, NextIInv DEF CInv
<1>2. ClientTypes' /\ LastSound' /\ \A q \in Files : ProcessOK(q)'
  <2>1. ASSUME NEW p \in Files, ClientStep(p)
        PROVE  ClientTypes' /\ LastSound' /\ \A q \in Files : ProcessOK(q)'
    <3>1. CASE Start(p)
      BY <3>1, StartKeeps
    <3>2. CASE Open(p)
      BY <3>2, OpenKeepsClients
    <3>3. CASE OpenFails(p)
      BY <3>3, OpenFailsKeepsClients
    <3>4. CASE NoBuffer(p) \/ CloseAndExit(p) \/ exitAndClean(p)
      BY <3>4, EndsKeepClients
    <3>5. CASE Ioctl(p)
      BY <3>5, IoctlKeepsClients
    <3>6. CASE IoctlFails(p)
      BY <3>6, IoctlFailsKeepsClients
    <3>7. CASE Write(p)
      BY <3>7, WriteKeepsClients
    <3>8. CASE WriteFails(p)
      BY <3>8, WriteFailsKeepsClients
    <3>9. CASE Read(p)
      BY <3>9, ReadKeepsClients
    <3>10. CASE ReadFails(p)
      BY <3>10, ReadFailsKeepsClients
    <3> QED BY <2>1, <3>1, <3>2, <3>3, <3>4, <3>5, <3>6, <3>7, <3>8, <3>9, <3>10 DEF ClientStep
  <2>2. CASE UNCHANGED <<vars, clientVars>>
    <3>1. registers' = registers /\ file' = file /\ UNCHANGED clientVars
      BY <2>2, SameRegisters DEF vars
    <3> QED BY <3>1 DEF CInv, ClientTypes, LastSound, ProcessOK, clientVars
  <2> QED BY <2>1, <2>2, LoadKeepsClients, UnloadKeepsClients DEF ClientNext
<1> QED BY <1>1, <1>2 DEF CInv

LEMMA ClientInvariance == ASSUME UnsignedIds PROVE ClientSpec => []CInv
<1>1. ClientInit => CInv
  BY InitClients
<1>2. CInv /\ [ClientNext]_<<vars, clientVars>> => CInv'
  BY NextClients
<1> QED BY <1>1, <1>2, PTL DEF ClientSpec
-----------------------------------------------------------------------------
(* What the programs promise.                                              *)

\* A reader prints the contents of its register.
LEMMA PrintStep ==
    ASSUME UnsignedIds, CInv, ClientNext, NEW p \in Files,
           printed'[p] # printed[p], last[Arg[p].minor][Arg[p].id] # Junk
    PROVE  printed'[p] = last[Arg[p].minor][Arg[p].id]
<1>1. PICK q \in Files : Read(q)
  <2>1. CASE Load \/ Unload
    BY <2>1 DEF Load, Unload, clientVars
  <2>2. CASE \E q \in Files : ClientStep(q)
    BY <2>2 DEF ClientStep, Start, Open, OpenFails, NoBuffer, Ioctl, IoctlFails, Write,
                WriteFails, ReadFails, CloseAndExit, exitAndClean, Fails
  <2> QED BY <2>1, <2>2 DEF ClientNext
<1>2. q = p /\ printed'[p] = result'[5]
  BY <1>1 DEF Read, CInv, ClientTypes
<1>3. printed'[p] = registers[Arg[p].minor][Arg[p].id]
  BY <1>1, <1>2, AtChannel, ReadValue DEF Read, CInv
<1>4. Arg[p].minor \in Minors /\ Arg[p].id \in Channels
  BY <1>1, <1>2, AtChannel DEF Read
<1> QED BY <1>3, <1>4 DEF CInv, LastSound

\* A program that ends with 0 has come through its close.
LEMMA ExitStep ==
    ASSUME UnsignedIds, CInv, ClientNext, NEW p \in Files, status'[p] = "0", status[p] # "0"
    PROVE  IF Sender(p) THEN Stored(Arg[p].minor, Arg[p].id) # NULL ELSE printed[p] # NULL
<1>1. PICK q \in Files : ClientStep(q)
  BY DEF ClientNext, Load, Unload, clientVars
<1>2. CloseAndExit(q)
  <2>1. "0" \notin ErrorValues /\ errno[q] \in ErrorValues
    BY DEF CInv, ClientTypes, ErrorValues, Errors
  <2>2. ~exitAndClean(q)
    BY <2>1 DEF exitAndClean, Exit, CInv, ClientTypes
  <2>3. ~(Start(q) \/ OpenFails(q) \/ NoBuffer(q))
    BY DEF Start, OpenFails, NoBuffer, Exit, CInv, ClientTypes
  <2>4. ~(Open(q) \/ Ioctl(q) \/ IoctlFails(q) \/ Write(q) \/ WriteFails(q) \/ Read(q)
            \/ ReadFails(q))
    BY DEF Open, Ioctl, IoctlFails, Write, WriteFails, Read, ReadFails, Fails
  <2> QED BY <1>1, <2>2, <2>3, <2>4 DEF ClientStep
<1>3. q = p /\ pc[p] = "close"
  BY <1>2 DEF CloseAndExit, Exit, CInv, ClientTypes
<1>4. ProcessOK(p) /\ Arg[p].minor \in Minors /\ Arg[p].id \in Channels
  BY <1>3, AtChannel DEF CInv
<1>5. registers[Arg[p].minor][Arg[p].id] = Stored(Arg[p].minor, Arg[p].id)
  BY <1>4 DEF registers
<1> QED BY <1>3, <1>4, <1>5 DEF ProcessOK

\* The programs call the driver only as its interface allows, so all that is
\* proved of the driver holds of the programs on it (message_sender.c:38-61,
\* message_reader.c:40-73).
THEOREM ProgramsUseTheDriver == ClientSpec => Spec
<1>1. ClientInit => Init
  BY DEF ClientInit
<1>2. [ClientNext]_<<vars, clientVars>> => [Next]_vars
  BY DriverStep
<1> QED BY <1>1, <1>2, PTL DEF ClientSpec, Spec

\* A reader that prints prints the message last sent on its own channel,
\* however many programs run and fail around it (message_reader.c:55-73).
THEOREM ReadersPrintLastSent ==
    ASSUME UnsignedIds
    PROVE  ClientSpec => PrintsLastSent
<1>1. CInv /\ [ClientNext]_<<vars, clientVars>> =>
        [\A p \in Files :
            printed'[p] # printed[p] /\ last[Arg[p].minor][Arg[p].id] # Junk =>
                printed'[p] = last[Arg[p].minor][Arg[p].id]]_<<vars, clientVars>>
  BY PrintStep
<1> QED BY <1>1, ClientInvariance, PTL DEF ClientSpec, PrintsLastSent

\* An exit value of 0 is true: the message of the sender is on a channel of the
\* loaded driver, the reader has printed one (message_sender.c:50-61,
\* message_reader.c:55-73).
THEOREM ExitZeroIsReal ==
    ASSUME UnsignedIds
    PROVE  ClientSpec => SuccessIsReal
<1>1. CInv /\ [ClientNext]_<<vars, clientVars>> =>
        [\A p \in Files : status'[p] = "0" /\ status[p] # "0" =>
            IF Sender(p) THEN Stored(Arg[p].minor, Arg[p].id) # NULL
            ELSE printed[p] # NULL]_<<vars, clientVars>>
  BY ExitStep
<1> QED BY <1>1, ClientInvariance, PTL DEF ClientSpec, SuccessIsReal
=============================================================================
