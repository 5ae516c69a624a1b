----------------------------- MODULE MessageSlot -----------------------------
(***************************************************************************)
(* The driver of hw3/message_slot.c, one action per file operation.  Each  *)
(* operation runs alone, loading and unloading included: the driver has no *)
(* lock and relies on it.  What makes it hard is the long sequences of     *)
(* calls on many files, the sorted list behind every minor number, and the *)
(* kmalloc and copy calls that can fail on the way.                        *)
(*                                                                         *)
(* A device's list is a sequence of nodes.  A node's msg is the whole      *)
(* kmalloc'ed array, of which the first msgLength bytes are the message.   *)
(***************************************************************************)
EXTENDS Integers, Sequences

CONSTANTS MaxMinor,        \* the largest minor number, 255 in the code
          Files,           \* the struct file objects of the open descriptors
          Ids,             \* the ioctl arguments, unsigned longs
          Bytes,
          Inputs,          \* the sequences of bytes users pass to write
          BUF_LEN, MSG_MAX_LENGTH,
          IntMod,          \* 2^32: an int keeps a channel id modulo this
          NULL,
          Junk,            \* a byte of kmalloc'ed memory nobody has written
          Fresh,           \* what the pointer in fresh memory may look like
          Faults           \* which of the kernel's services may fail

Minors == 0..MaxMinor

\* (int) of an unsigned long.
ToInt(c) == LET r == c % IntMod IN IF r < IntMod - r THEN r ELSE r - IntMod

Ints == {ToInt(c) : c \in Ids \ {0}}

\* The contents of an array of n bytes.
Array(n) == [1..n -> Bytes \cup {Junk}]

Node == [channelId : Ints, msg : Array(MSG_MAX_LENGTH), msgLength : 1..BUF_LEN]
LinkedList == [first : {"null", "wild", "node"}, size : Nat, nodes : Seq(Node)]
OpenFile == [minor : Minors, private_data : Ids \cup {0}]

ASSUME SlotAssumption ==
    /\ MaxMinor \in Nat
    /\ BUF_LEN \in Nat /\ MSG_MAX_LENGTH \in Nat /\ BUF_LEN <= MSG_MAX_LENGTH
    /\ IntMod \in Nat /\ IntMod > 0
    /\ Ids \subseteq Nat
    /\ Inputs \subseteq Seq(Bytes)
    /\ Fresh \subseteq {"null", "wild"} /\ Fresh # {}
    /\ Faults \subseteq {"register", "open", "node", "copy", "calloc"}
    /\ NULL \notin Nat \cup LinkedList \cup OpenFile
    /\ \A n \in 0..MSG_MAX_LENGTH : NULL \notin Array(n)
    /\ NULL \notin [minor : Minors, channel : Ids \cup {NULL}]

VARIABLES
    module,   \* "out", "in" or "oops": the life of the kernel module
    major,    \* who has registered MAJOR_NUM: "nobody", "slot" or "other"
    devices,  \* devices[minor + 1]: NULL or a LinkedList
    file,     \* file[f]: NULL or f's minor number and private_data
    kmem,     \* kmem[k]: kmalloc'ed blocks that belong to devices[k]
    result    \* operation, file, status, count and bytes of the last call

vars == <<module, major, devices, file, kmem, result>>

MAX_DEVICES == MaxMinor + 2
Slots == 0..(MAX_DEVICES - 1)

Init ==
    /\ module = "out"
    /\ major \in {"nobody"} \cup (IF "register" \in Faults THEN {"other"} ELSE {})
    /\ devices = [k \in Slots |-> NULL]
    /\ file = [f \in Files |-> NULL]
    /\ kmem = [k \in Slots |-> 0]
    /\ result = NULL
-----------------------------------------------------------------------------
(* The sorted list of channels.                                            *)

\* The first node of the channel, or 0.
findChannelId(s, id) ==
    LET hits == {i \in DOMAIN s : s[i].channelId = id}
    IN  IF hits = {} THEN 0 ELSE CHOOSE i \in hits : \A j \in hits : i <= j

createNode(id) ==
    [channelId |-> id, msg |-> [i \in 1..MSG_MAX_LENGTH |-> Junk], msgLength |-> 0]

\* Mutant of Position: the loop looks for a larger id before an equal one.
PastPosition(s, id) ==
    CHOOSE i \in 1..(Len(s) + 1) :
        /\ \A j \in 1..(i - 1) : s[j].channelId <= id
        /\ i <= Len(s) => s[i].channelId > id

\* Where the loop of getOrCreateNode stops: the first node that is not smaller.
Position(s, id) ==
    CHOOSE i \in 1..(Len(s) + 1) :
        /\ \A j \in 1..(i - 1) : s[j].channelId < id
        /\ i <= Len(s) => s[i].channelId >= id

AppendAt(s, i, e) == Append(s, e)  \* mutant of InsertAt: always at the end

InsertAt(s, i, e) ==
    [j \in 1..(Len(s) + 1) |-> IF j < i THEN s[j] ELSE IF j = i THEN e ELSE s[j - 1]]

\* Must the channel's node be created?
Missing(lst, id) ==
    LET p == Position(lst.nodes, id)
    IN  ~(lst.size # 0 /\ p <= Len(lst.nodes) /\ lst.nodes[p].channelId = id)

getOrCreateNode(lst, id) ==
    IF ~Missing(lst, id) THEN lst
    ELSE [first |-> "node", size |-> lst.size + 1,
          nodes |-> IF lst.size = 0 THEN <<createNode(id)>>
                    ELSE InsertAt(lst.nodes, Position(lst.nodes, id), createNode(id))]

\* Mutant of SetLength: the length of the list's first node is set.
FirstLength(lst, id, n) == [lst EXCEPT !.nodes[1].msgLength = n]

\* node->msgLength = length, before the message is there.
SetLength(lst, id, n) ==
    [lst EXCEPT !.nodes[findChannelId(lst.nodes, id)].msgLength = n]

\* memcpy of the message over the front of the array.
setMsg(lst, id, m) ==
    LET i == findChannelId(lst.nodes, id)
    IN  [lst EXCEPT !.nodes[i].msg = [j \in DOMAIN @ |-> IF j <= Len(m) THEN m[j] ELSE @[j]],
                    !.nodes[i].msgLength = Len(m)]

WholeArray(node) == node.msg  \* mutant of Message: msgLength is ignored

Message(node) == [j \in 1..node.msgLength |-> node.msg[j]]

\* The kmalloc'ed blocks freeLst returns: the list, and two for each node.
freeLst(lst) == 1 + (IF lst.size # 0 THEN 2 * Len(lst.nodes) ELSE 0)
-----------------------------------------------------------------------------
(* The file operations.  A file that is open keeps the module in.          *)

\* status is "ok" or the error; n and m are the count and the bytes delivered.
Deliver(op, f, status, n, m) == result' = <<op, f, status, n, m>>
Return(op, f, status) == Deliver(op, f, status, 0, <<>>)
IsOpen(f) == module = "in" /\ file[f] # NULL

device_open(f, minor) ==
    /\ module = "in" /\ major = "slot" /\ file[f] = NULL
    /\ \/ /\ devices[minor + 1] = NULL
          /\ \E x \in Fresh :
                devices' = [devices EXCEPT ![minor + 1] = [first |-> x, size |-> 0, nodes |-> <<>>]]
          /\ kmem' = [kmem EXCEPT ![minor + 1] = 1]
       \/ devices[minor + 1] # NULL /\ UNCHANGED <<devices, kmem>>
    /\ file' = [file EXCEPT ![f] = [minor |-> minor, private_data |-> 0]]
    /\ Return("open", f, "ok")
    /\ UNCHANGED <<module, major>>

\* kmalloc of the LinkedList fails.
OpenFailed(f, minor) ==
    /\ module = "in" /\ major = "slot" /\ file[f] = NULL
    /\ "open" \in Faults /\ devices[minor + 1] = NULL
    /\ Return("open", f, "EPERM")
    /\ UNCHANGED <<module, major, devices, file, kmem>>

\* Closing runs no code of the driver's: it has no release operation.
Close(f) ==
    /\ IsOpen(f)
    /\ file' = [file EXCEPT ![f] = NULL]
    /\ UNCHANGED <<module, major, devices, kmem, result>>

device_ioctl(f, id) ==
    /\ IsOpen(f) /\ id # 0
    /\ file' = [file EXCEPT ![f].private_data = id]
    /\ Return("ioctl", f, "ok")
    /\ UNCHANGED <<module, major, devices, kmem>>

\* Another command, or channel 0.
IoctlRejected(f) ==
    /\ IsOpen(f)
    /\ Return("ioctl", f, "EINVAL")
    /\ UNCHANGED <<module, major, devices, file, kmem>>

Channel(f) == ToInt(file[f].private_data)
List(f) == devices[file[f].minor + 1]

\* The early returns of device_write, in their order.
WriteError(f, m, noBuffer) ==
    CASE Len(m) > BUF_LEN \/ Len(m) = 0 -> "EMSGSIZE"
      [] Len(m) \in 1..BUF_LEN /\ file[f].private_data = 0 -> "EINVAL"
      [] Len(m) \in 1..BUF_LEN /\ file[f].private_data # 0 /\ noBuffer -> "ENOSPC"
      [] OTHER -> "ok"

WriteRejected(f, m, noBuffer) ==
    /\ IsOpen(f)
    /\ WriteError(f, m, noBuffer) # "ok"
    /\ Return("write", f, WriteError(f, m, noBuffer))
    /\ UNCHANGED <<module, major, devices, file, kmem>>

\* The list of f's device with the node of f's channel in it.
WithNode(f) == getOrCreateNode(List(f), Channel(f))
BlocksAfter(f) == IF Missing(List(f), Channel(f)) THEN kmem[file[f].minor + 1] + 2
                  ELSE kmem[file[f].minor + 1]

device_write(f, m) ==
    /\ IsOpen(f)
    /\ WriteError(f, m, FALSE) = "ok"
    /\ devices' = [devices EXCEPT ![file[f].minor + 1] =
                      setMsg(SetLength(WithNode(f), Channel(f), Len(m)), Channel(f), m)]
    /\ Deliver("write", f, "ok", Len(m), <<>>)
    /\ kmem' = [kmem EXCEPT ![file[f].minor + 1] = BlocksAfter(f)]
    /\ UNCHANGED <<module, major, file>>

\* createNode runs out of memory, in its first or its second kmalloc.
WriteNoNode(f, m) ==
    /\ IsOpen(f) /\ "node" \in Faults
    /\ WriteError(f, m, FALSE) = "ok"
    /\ Missing(List(f), Channel(f))
    /\ Return("write", f, "ENOSPC")
    /\ UNCHANGED <<module, major, devices, file, kmem>>

\* kmalloc of tmpBuffer or copy_from_user fails: the length is already set.
WriteNoCopy(f, m) ==
    /\ IsOpen(f) /\ "copy" \in Faults
    /\ WriteError(f, m, FALSE) = "ok"
    /\ devices' = [devices EXCEPT ![file[f].minor + 1] =
                      SetLength(WithNode(f), Channel(f), Len(m))]
    /\ kmem' = [kmem EXCEPT ![file[f].minor + 1] = BlocksAfter(f)]
    /\ Return("write", f, "ENOSPC")
    /\ UNCHANGED <<module, major, file>>

\* The node device_read finds, 0 if none.
Found(f) == findChannelId(List(f).nodes, Channel(f))

device_read(f, length) ==
    /\ IsOpen(f) /\ file[f].private_data # 0
    /\ List(f).first # "wild"
    /\ IF Found(f) = 0 THEN Return("read", f, "EWOULDBLOCK")
       ELSE LET node == List(f).nodes[Found(f)]
            IN  IF length < node.msgLength THEN Return("read", f, "ENOSPC")
                ELSE Deliver("read", f, "ok", node.msgLength, Message(node))
    /\ UNCHANGED <<module, major, devices, file, kmem>>

\* No channel is set; or there is a message, and buffer is NULL, there is no
\* memory for tmpBuffer, or copy_to_user fails.
ReadRejected(f) ==
    /\ IsOpen(f)
    /\ \/ file[f].private_data = 0 /\ Return("read", f, "EINVAL")
       \/ /\ file[f].private_data # 0 /\ List(f).first # "wild" /\ Found(f) # 0
          /\ Return("read", f, "ENOSPC")
    /\ UNCHANGED <<module, major, devices, file, kmem>>

\* findChannelId follows a pointer that was never set.
ReadWild(f) ==
    /\ IsOpen(f) /\ file[f].private_data # 0
    /\ List(f).first = "wild"
    /\ module' = "oops"
    /\ Return("read", f, "oops")
    /\ UNCHANGED <<major, devices, file, kmem>>
-----------------------------------------------------------------------------
(* Loading and unloading.                                                  *)

\* simple_init returns MAJOR_NUM, no error code, when register_chrdev fails:
\* the kernel keeps the module loaded without a major number.
simple_init ==
    /\ module = "out"
    /\ module' = "in"
    /\ major' = IF major = "nobody" THEN "slot" ELSE major
    /\ UNCHANGED <<devices, file, kmem, result>>

\* Mutant of CleanupRange: the loop ends one device early.
ShortRange == 1..(MAX_DEVICES - 2)

\* The devices simple_cleanup visits.
CleanupRange == 1..(MAX_DEVICES - 1)

\* The module's own memory goes with it, devices[] included.
simple_cleanup ==
    /\ module = "in" /\ \A f \in Files : file[f] = NULL
    /\ module' = "out"
    /\ major' = "nobody"
    /\ kmem' = [k \in Slots |-> IF k \in CleanupRange /\ devices[k] # NULL
                                THEN kmem[k] - freeLst(devices[k]) ELSE kmem[k]]
    /\ devices' = [k \in Slots |-> NULL]
    /\ UNCHANGED <<file, result>>

Operation(f) ==
    \/ \E minor \in Minors : device_open(f, minor) \/ OpenFailed(f, minor)
    \/ Close(f)
    \/ \E id \in Ids : device_ioctl(f, id)
    \/ IoctlRejected(f)
    \/ \E m \in Inputs, noBuffer \in BOOLEAN : WriteRejected(f, m, noBuffer)
    \/ \E m \in Inputs : device_write(f, m) \/ WriteNoNode(f, m) \/ WriteNoCopy(f, m)
    \/ \E length \in 0..BUF_LEN : device_read(f, length)
    \/ ReadRejected(f) \/ ReadWild(f)

Next == simple_init \/ simple_cleanup \/ \E f \in Files : Operation(f)

Spec == Init /\ [][Next]_vars
-----------------------------------------------------------------------------
(* Properties.                                                             *)

\* What a caller may be told; "oops": the kernel stopped in the call.
Errors == {"EPERM", "EINVAL", "EMSGSIZE", "ENOSPC", "EWOULDBLOCK", "oops"}

\* The driver's data structures keep their types, and every file that is open
\* has a device.
TypeOK ==
    /\ module \in {"out", "in", "oops"}
    /\ major \in {"nobody", "slot", "other"}
    /\ devices \in [Slots -> {NULL} \cup LinkedList]
    /\ file \in [Files -> {NULL} \cup OpenFile]
    /\ \A f \in Files : file[f] # NULL => List(f) # NULL
    /\ kmem \in [Slots -> Int]

\* Every list is strictly sorted by channel id, so no channel has two nodes,
\* size is its length, and first is set once there is a node
\* (message_slot.c:67-104).
ListSound ==
    \A k \in Slots : devices[k] # NULL =>
        LET s == devices[k].nodes
        IN  /\ \A i, j \in DOMAIN s : i < j => s[i].channelId < s[j].channelId
            /\ devices[k].size = Len(s)
            /\ s # <<>> => devices[k].first = "node"

\* Every kmalloc'ed block is reachable from devices[] and unloading the module
\* returns them all (message_slot.c:113-126, 260-272).
NoLeak ==
    \A k \in Slots :
        kmem[k] = IF devices[k] = NULL THEN 0 ELSE 1 + 2 * Len(devices[k].nodes)

\* The channels of the interface: non-zero unsigned ints.
Channels == {c \in Ids : c \in 1..(IntMod - 1)}

\* What the driver holds for a channel of a minor.
Stored(minor, c) ==
    IF devices[minor + 1] = NULL THEN NULL
    ELSE LET s == devices[minor + 1].nodes
             i == findChannelId(s, ToInt(c))
         IN  IF i = 0 THEN NULL ELSE Message(s[i])

registers == [m \in Minors |-> [c \in Channels |-> Stored(m, c)]]

\* What the interface lets a user know of an open file.
Descriptor(of) ==
    IF of = NULL THEN NULL
    ELSE [minor |-> of.minor, channel |-> IF of.private_data = 0 THEN NULL ELSE of.private_data]

descriptors == [f \in Files |-> Descriptor(file[f])]

Store == INSTANCE SlotStore WITH
    slot <- registers, file <- descriptors,
    Messages <- {m \in Inputs : Len(m) \in 1..BUF_LEN},
    None <- NULL

\* While users keep to unsigned int channel ids, every (minor, channel) pair
\* is a register of its own that returns exactly the last message written to
\* it: no list insertion, no int conversion and no failing call on one channel
\* ever shows on another (message_slot.c:145-234).
ChannelsAreRegisters == Store!Spec

\* What the assignment says of a read on a channel nobody has written: "If no
\* message exists on the channel, returns -1 and errno is set to EWOULDBLOCK".
EmptyChannelWouldBlock ==
    [][\A f \in Files :
         /\ file[f] # NULL /\ file[f].private_data # 0
         /\ Stored(file[f].minor, file[f].private_data) = NULL
         /\ result' # result /\ result'[1] = "read" /\ result'[2] = f
         => result'[3] = "EWOULDBLOCK"]_vars
=============================================================================
