------------------------ MODULE MessageSlotRefinement -------------------------
(***************************************************************************)
(* The driver implements SlotStore: while users keep to the interface's    *)
(* channel ids, unsigned ints, every channel of every minor is a register  *)
(* of its own.  And what a read of an empty channel would do if the memory *)
(* of a new list came zeroed.                                              *)
(***************************************************************************)
EXTENDS MessageSlotProofs

\* The interface passes unsigned ints to ioctl.
UnsignedIds == Ids \subseteq 0..IntMod - 1

USE Sizes
-----------------------------------------------------------------------------
(* The message on a channel.                                               *)

\* What a device's list holds for channel c, as Stored says it of devices.
StoredIn(lst, c) ==
    IF lst = NULL THEN NULL
    ELSE LET i == findChannelId(lst.nodes, ToInt(c))
         IN  IF i = 0 THEN NULL ELSE Message(lst.nodes[i])

LEMMA StoredNow ==
    ASSUME NEW m, NEW c
    PROVE  /\ Stored(m, c) = StoredIn(devices[m + 1], c)
           /\ Stored(m, c)' = StoredIn(devices'[m + 1], c)
  BY DEF Stored, StoredIn

\* A message is a sequence of msgLength bytes, and never NULL.
LEMMA MessageFacts ==
    ASSUME NEW node \in Node
    PROVE  Len(Message(node)) = node.msgLength /\ Message(node) # NULL
<1>1. node.msgLength \in 0..MSG_MAX_LENGTH /\ node.msg \in Array(MSG_MAX_LENGTH)
  BY DEF Node
<1>2. \A j \in 1..node.msgLength : node.msg[j] \in Bytes \cup {Junk}
  BY <1>1 DEF Array
<1>3. Message(node) \in Array(node.msgLength)
  BY <1>2 DEF Message, Array
<1>4. Message(node) # NULL
  BY <1>1, <1>3, SlotAssumption
<1>5. Message(node) \in [1..node.msgLength -> Bytes \cup {Junk}] /\ node.msgLength \in Nat
  BY <1>1, <1>3 DEF Array
<1>6. Len(Message(node)) = node.msgLength
  BY <1>5
<1> QED BY <1>4, <1>6

LEMMA SoundNodes ==
    ASSUME NEW lst \in LinkedList, SoundList(lst)
    PROVE  /\ IsList(lst.nodes) /\ Sorted(lst.nodes) /\ Len(lst.nodes) \in Nat
           /\ \A i \in 1..Len(lst.nodes) : lst.nodes[i] \in Node
<1>1. lst.nodes \in Seq(Node)
  BY DEF LinkedList
<1>2. lst.nodes \in Seq(RawNode)
  BY <1>1, NodesAreRaw
<1> QED BY <1>1, <1>2, NodesAreLists DEF SoundList

\* Register c is the node of channel (int) c, if there is one.
LEMMA StoredAt ==
    ASSUME NEW lst \in LinkedList, SoundList(lst), NEW c \in Nat, NEW p \in 1..Len(lst.nodes),
           lst.nodes[p].channelId = ToInt(c)
    PROVE  StoredIn(lst, c) = Message(lst.nodes[p]) /\ StoredIn(lst, c) # NULL
<1>1. findChannelId(lst.nodes, ToInt(c)) = p /\ p # 0
  BY SoundNodes, ToIntType, FindFacts
<1>2. lst # NULL
  BY NullApart
<1>3. StoredIn(lst, c) = Message(lst.nodes[p])
  BY <1>1, <1>2 DEF StoredIn
<1>4. lst.nodes[p] \in Node
  BY SoundNodes
<1> QED BY <1>3, <1>4, MessageFacts

LEMMA StoredNowhere ==
    ASSUME NEW lst \in LinkedList, SoundList(lst), NEW c \in Nat,
           \A p \in 1..Len(lst.nodes) : lst.nodes[p].channelId # ToInt(c)
    PROVE  StoredIn(lst, c) = NULL
<1>1. findChannelId(lst.nodes, ToInt(c)) = 0
  BY SoundNodes, ToIntType, FindFacts
<1> QED BY <1>1 DEF StoredIn

\* A write to one channel shows on no other.
LEMMA WriteIsLocal ==
    ASSUME NEW old \in LinkedList, SoundList(old), NEW id, NEW new, Written(old, new, id),
           NEW c \in Nat, ToInt(c) # id
    PROVE  StoredIn(new, c) = StoredIn(old, c)
<1>1. new \in LinkedList /\ SoundList(new)
  BY DEF Written
<1>2. CASE \E p \in 1..Len(new.nodes) : new.nodes[p].channelId = ToInt(c)
  <2>1. PICK p \in 1..Len(new.nodes) : new.nodes[p].channelId = ToInt(c)
    BY <1>2
  <2>2. PICK k \in 1..Len(old.nodes) : new.nodes[p] = old.nodes[k]
    BY <2>1 DEF Written
  <2> QED BY <1>1, <2>1, <2>2, StoredAt
<1>3. CASE \A p \in 1..Len(new.nodes) : new.nodes[p].channelId # ToInt(c)
  <2>1. \A k \in 1..Len(old.nodes) : old.nodes[k].channelId # ToInt(c)
    BY <1>3 DEF Written
  <2> QED BY <1>1, <1>3, <2>1, StoredNowhere
<1> QED BY <1>2, <1>3

\* A write that succeeds leaves its message in its register.
LEMMA WriteIsRead ==
    ASSUME NEW new \in LinkedList, SoundList(new), NEW c \in Nat, NEW m, Holds(new, ToInt(c), m)
    PROVE  StoredIn(new, c) = m
  BY StoredAt DEF Holds

\* A device nobody has written holds nothing.
LEMMA StoredFresh ==
    ASSUME NEW x, NEW c
    PROVE  StoredIn([first |-> x, size |-> 0, nodes |-> <<>>], c) = NULL
<1>1. {i \in DOMAIN <<>> : <<>>[i].channelId = ToInt(c)} = {}
  OBVIOUS
<1>2. findChannelId(<<>>, ToInt(c)) = 0
  BY <1>1 DEF findChannelId
<1> QED BY <1>2 DEF StoredIn
-----------------------------------------------------------------------------
(* The registers and the descriptors.                                      *)

LEMMA ChannelFacts ==
    /\ \A c \in Channels : c \in Nat /\ c # 0 /\ c \in Ids /\ c \in 0..IntMod - 1
    /\ UnsignedIds => \A c \in Ids : c # 0 => c \in Channels
  BY DEF Channels, UnsignedIds

LEMMA RegisterIs ==
    /\ registers = [m \in Minors |-> [c \in Channels |-> StoredIn(devices[m + 1], c)]]
    /\ registers' = [m \in Minors |-> [c \in Channels |-> StoredIn(devices'[m + 1], c)]]
  BY StoredNow DEF registers

LEMMA DescriptorFacts ==
    ASSUME NEW of \in OpenFile
    PROVE  /\ Descriptor(of) = [minor |-> of.minor,
                                channel |-> IF of.private_data = 0 THEN NULL ELSE of.private_data]
           /\ Descriptor(of) # NULL
           /\ Descriptor(of).minor = of.minor
           /\ Descriptor(of).channel = IF of.private_data = 0 THEN NULL ELSE of.private_data
           /\ Descriptor(of).channel # NULL <=> of.private_data # 0
<1> DEFINE ch == IF of.private_data = 0 THEN NULL ELSE of.private_data
<1>1. of # NULL /\ of.minor \in Minors /\ of.private_data \in Ids \cup {0}
  BY NullApart DEF OpenFile
<1>2. Descriptor(of) = [minor |-> of.minor, channel |-> ch]
  BY <1>1 DEF Descriptor
<1>3. ch \in Ids \cup {NULL} /\ (ch # NULL <=> of.private_data # 0)
  BY <1>1
<1> HIDE DEF ch
<1>4. [minor |-> of.minor, channel |-> ch] \in [minor : Minors, channel : Ids \cup {NULL}]
  BY <1>1, <1>3
<1>5. [minor |-> of.minor, channel |-> ch] # NULL
  BY <1>4, SlotAssumption
<1> QED BY <1>2, <1>3, <1>5 DEF ch

LEMMA DescriptorNull == Descriptor(NULL) = NULL
  BY DEF Descriptor

\* An open file of the driver is an open file of the store.
LEMMA OpenDescriptor ==
    ASSUME IInv, NEW f \in Files
    PROVE  /\ descriptors[f] = Descriptor(file[f])
           /\ descriptors[f] # NULL <=> file[f] # NULL
<1>1. file[f] = NULL \/ file[f] \in OpenFile
  BY DEF IInv, TypeOK
<1> QED BY <1>1, DescriptorFacts, DescriptorNull DEF descriptors

\* Only f's descriptor follows a change of file[f].
LEMMA DescriptorsUpdated ==
    ASSUME IInv, NEW f \in Files, NEW of, file' = [file EXCEPT ![f] = of]
    PROVE  descriptors' = [descriptors EXCEPT ![f] = Descriptor(of)]
<1>1. file \in [Files -> {NULL} \cup OpenFile]
  BY DEF IInv, TypeOK
<1>2. \A g \in Files : Descriptor(file'[g]) = IF g = f THEN Descriptor(of) ELSE Descriptor(file[g])
  BY <1>1
<1> QED BY <1>2 DEF descriptors

LEMMA SameDescriptors == ASSUME file' = file PROVE descriptors' = descriptors
  BY DEF descriptors, Descriptor

LEMMA SameRegisters == ASSUME devices' = devices PROVE registers' = registers
  BY RegisterIs

\* What a step of the driver does to the registers when it changes one list.
LEMMA OneRegister ==
    ASSUME IInv, NEW minor \in Minors, NEW lst, devices' = [devices EXCEPT ![minor + 1] = lst]
    PROVE  registers' = [m \in Minors |-> [c \in Channels |->
                           IF m = minor THEN StoredIn(lst, c) ELSE registers[m][c]]]
<1>1. devices \in [Slots -> {NULL} \cup LinkedList] /\ minor + 1 \in Slots
  BY SlotOf DEF IInv, TypeOK
<1>2. \A m \in Minors : devices'[m + 1] = IF m = minor THEN lst ELSE devices[m + 1]
  <2> SUFFICES ASSUME NEW m \in Minors
               PROVE  devices'[m + 1] = IF m = minor THEN lst ELSE devices[m + 1]
    OBVIOUS
  <2>1. m + 1 \in Slots
    BY SlotOf
  <2>2. m # minor => m + 1 # minor + 1
    BY DEF Minors
  <2> QED BY <1>1, <2>1, <2>2
<1>3. \A m \in Minors : \A c \in Channels :
         StoredIn(devices'[m + 1], c) = IF m = minor THEN StoredIn(lst, c)
                                        ELSE StoredIn(devices[m + 1], c)
  BY <1>2
<1>4. \A m \in Minors : \A c \in Channels : registers[m][c] = StoredIn(devices[m + 1], c)
  BY RegisterIs
<1> QED BY <1>3, <1>4, RegisterIs
-----------------------------------------------------------------------------
(* Every step is a step of the store.                                      *)

LEMMA InitRefines == Init => Store!Init
<1> SUFFICES ASSUME Init PROVE Store!Init
  OBVIOUS
<1>1. \A m \in Minors : devices[m + 1] = NULL
  BY SlotOf DEF Init
<1>2. \A m \in Minors : \A c \in Channels : StoredIn(devices[m + 1], c) = NULL
  BY <1>1 DEF StoredIn
<1>3. registers = [m \in Minors |-> [c \in Channels |-> NULL]]
  BY <1>2, RegisterIs
<1>4. descriptors = [f \in Files |-> NULL]
  BY DescriptorNull DEF Init, descriptors
<1> QED BY <1>3, <1>4 DEF Init, Store!Init

LEMMA OpenRefines ==
    ASSUME IInv, NEW f \in Files, NEW minor \in Minors,
           device_open(f, minor) \/ OpenFailed(f, minor)
    PROVE  Store!Open(f, minor)
<1>1. ~Store!IsOpen(f)
  BY OpenDescriptor DEF device_open, OpenFailed, Store!IsOpen
<1>2. CASE device_open(f, minor)
  <2>1. registers' = registers
    <3>1. CASE devices[minor + 1] = NULL
      <4>1. PICK x \in Fresh :
              devices' = [devices EXCEPT ![minor + 1] = [first |-> x, size |-> 0, nodes |-> <<>>]]
        BY <1>2, <3>1 DEF device_open
      <4>2. \A c \in Channels : registers[minor][c] = NULL
        BY <3>1, RegisterIs DEF StoredIn
      <4>3. registers' = [m \in Minors |-> [c \in Channels |->
                             IF m = minor THEN NULL ELSE registers[m][c]]]
        <5>1. PICK lst : lst = [first |-> x, size |-> 0, nodes |-> <<>>]
          OBVIOUS
        <5>2. devices' = [devices EXCEPT ![minor + 1] = lst]
          BY <4>1, <5>1
        <5>3. \A c \in Channels : StoredIn(lst, c) = NULL
          BY <5>1, StoredFresh
        <5>4. registers' = [m \in Minors |-> [c \in Channels |->
                               IF m = minor THEN StoredIn(lst, c) ELSE registers[m][c]]]
          BY <5>2, OneRegister
        <5> QED BY <5>3, <5>4
      <4>4. registers' = [m \in Minors |-> [c \in Channels |-> registers[m][c]]]
        BY <4>2, <4>3
      <4> QED BY <4>4, RegisterIs
    <3>2. CASE devices[minor + 1] # NULL
      BY <1>2, <3>2, SameRegisters DEF device_open
    <3> QED BY <3>1, <3>2
  <2>2. descriptors' = [descriptors EXCEPT ![f] = [minor |-> minor, channel |-> NULL]]
    <3> DEFINE of == [minor |-> minor, private_data |-> 0]
    <3>1. of \in OpenFile /\ of.minor = minor /\ of.private_data = 0
      BY DEF OpenFile
    <3>2. file' = [file EXCEPT ![f] = of]
      BY <1>2 DEF device_open
    <3> HIDE DEF of
    <3>3. Descriptor(of) = [minor |-> minor, channel |-> NULL]
      BY <3>1, DescriptorFacts
    <3> QED BY <3>2, <3>3, DescriptorsUpdated
  <2>3. Store!Return("open", f, "ok")
    BY <1>2 DEF device_open, Return, Deliver, Store!Return, Store!Deliver
  <2> QED BY <1>1, <2>1, <2>2, <2>3 DEF Store!Open
<1>3. CASE OpenFailed(f, minor)
  <2>1. registers' = registers /\ descriptors' = descriptors
    BY <1>3, SameRegisters, SameDescriptors DEF OpenFailed
  <2>2. Store!Return("open", f, "EPERM") /\ "EPERM" \in Errors
    BY <1>3 DEF OpenFailed, Return, Deliver, Store!Return, Store!Deliver, Errors
  <2> QED BY <1>1, <2>1, <2>2 DEF Store!Open
<1> QED BY <1>2, <1>3

LEMMA IoctlRefines ==
    ASSUME IInv, UnsignedIds, NEW f \in Files,
           (\E id \in Ids : device_ioctl(f, id)) \/ IoctlRejected(f)
    PROVE  Store!SetChannel(f)
<1>1. Store!IsOpen(f)
  BY OpenDescriptor DEF device_ioctl, IoctlRejected, IsOpen, Store!IsOpen
<1>2. ASSUME NEW id \in Ids, device_ioctl(f, id) PROVE Store!SetChannel(f)
  <2>1. file[f] \in OpenFile
    BY <1>2, OpenFacts DEF device_ioctl
  <2>2. id \in Channels
    BY <1>2, ChannelFacts DEF device_ioctl
  <2> DEFINE of == [file[f] EXCEPT !.private_data = id]
  <2>3. of \in OpenFile /\ of.minor = file[f].minor /\ of.private_data = id
    BY <2>1 DEF OpenFile
  <2>4. file' = [file EXCEPT ![f] = of]
    BY <1>2 DEF device_ioctl
  <2> HIDE DEF of
  <2>5. descriptors' = [descriptors EXCEPT ![f] = Descriptor(of)]
    BY <2>4, DescriptorsUpdated
  <2>6. Descriptor(of) = [minor |-> file[f].minor, channel |-> id]
    BY <2>2, <2>3, DescriptorFacts, ChannelFacts
  <2>7. [descriptors[f] EXCEPT !.channel = id] = [minor |-> file[f].minor, channel |-> id]
    BY <2>1, DescriptorFacts, OpenDescriptor
  <2>8. descriptors' = [descriptors EXCEPT ![f].channel = id]
    BY <2>5, <2>6, <2>7
  <2>9. registers' = registers
    BY <1>2, SameRegisters DEF device_ioctl
  <2>10. Store!Return("ioctl", f, "ok")
    BY <1>2 DEF device_ioctl, Return, Deliver, Store!Return, Store!Deliver
  <2> QED BY <1>1, <2>2, <2>8, <2>9, <2>10 DEF Store!SetChannel
<1>3. CASE IoctlRejected(f)
  <2>1. registers' = registers /\ descriptors' = descriptors
    BY <1>3, SameRegisters, SameDescriptors DEF IoctlRejected
  <2>2. Store!Return("ioctl", f, "EINVAL")
    BY <1>3 DEF IoctlRejected, Return, Deliver, Store!Return, Store!Deliver
  <2> QED BY <1>1, <2>1, <2>2 DEF Store!SetChannel
<1> QED BY <1>2, <1>3

\* The register of an open file with a channel.
LEMMA ContentFacts ==
    ASSUME IInv, UnsignedIds, NEW f \in Files, IsOpen(f), file[f].private_data # 0
    PROVE  /\ file[f].private_data \in Channels /\ file[f].minor \in Minors
           /\ descriptors[f].minor = file[f].minor
           /\ descriptors[f].channel = file[f].private_data
           /\ Store!IsOpen(f) /\ Store!HasChannel(f)
           /\ Store!Content(f) = StoredIn(List(f), file[f].private_data)
<1>1. file[f] \in OpenFile /\ file[f].minor \in Minors /\ file[f].private_data \in Ids
  BY OpenFacts
<1>2. file[f].private_data \in Channels
  BY <1>1, ChannelFacts
<1>3. /\ descriptors[f].minor = file[f].minor
      /\ descriptors[f].channel = file[f].private_data
      /\ descriptors[f] # NULL /\ descriptors[f].channel # NULL
  BY <1>1, DescriptorFacts, OpenDescriptor
<1>4. Store!IsOpen(f) /\ Store!HasChannel(f)
  BY <1>3 DEF Store!IsOpen, Store!HasChannel
<1>5. Store!Content(f) = registers[file[f].minor][file[f].private_data]
  BY <1>3 DEF Store!Content
<1>6. Store!Content(f) = StoredIn(List(f), file[f].private_data)
  BY <1>1, <1>2, <1>5, RegisterIs DEF List
<1> QED BY <1>1, <1>2, <1>3, <1>4, <1>6

\* A write that changes f's list changes at most f's own register.
LEMMA WriteTouchesOne ==
    ASSUME IInv, UnsignedIds, NEW f \in Files, IsOpen(f), file[f].private_data # 0,
           NEW new, Written(List(f), new, Channel(f)),
           devices' = [devices EXCEPT ![file[f].minor + 1] = new]
    PROVE  registers' = [m \in Minors |-> [c \in Channels |->
                           IF m = file[f].minor /\ c = file[f].private_data
                           THEN StoredIn(new, c) ELSE registers[m][c]]]
<1>1. PICK minor, id, old : minor = file[f].minor /\ id = file[f].private_data /\ old = List(f)
  OBVIOUS
<1>2. minor \in Minors /\ id \in Channels /\ old \in LinkedList /\ SoundList(old)
  BY <1>1, ContentFacts, OpenFacts
<1>3. Written(old, new, ToInt(id))
  BY <1>1 DEF Channel
<1>4. \A c \in Channels : c # id => StoredIn(new, c) = StoredIn(old, c)
  <2> SUFFICES ASSUME NEW c \in Channels, c # id PROVE StoredIn(new, c) = StoredIn(old, c)
    OBVIOUS
  <2>1. ToInt(c) # ToInt(id)
    BY <1>2, ChannelFacts, ToIntInjective
  <2> QED BY <1>2, <1>3, <2>1, ChannelFacts, WriteIsLocal
<1>5. \A c \in Channels : registers[minor][c] = StoredIn(old, c)
  BY <1>1, <1>2, RegisterIs DEF List
<1>6. registers' = [m \in Minors |-> [c \in Channels |->
                      IF m = minor THEN StoredIn(new, c) ELSE registers[m][c]]]
  BY <1>1, <1>2, OneRegister
<1>7. registers' = [m \in Minors |-> [c \in Channels |->
                      IF m = minor /\ c = id THEN StoredIn(new, c) ELSE registers[m][c]]]
  BY <1>4, <1>5, <1>6
<1> QED BY <1>1, <1>7

LEMMA WriteRefines ==
    ASSUME IInv, UnsignedIds, NEW f \in Files, NEW m \in Inputs, device_write(f, m)
    PROVE  Len(m) \in 1..BUF_LEN /\ Store!Write(f, m)
<1>1. m \in Seq(Bytes) /\ Len(m) \in Nat
  BY SlotAssumption
<1>2. IsOpen(f) /\ WriteError(f, m, FALSE) = "ok"
  BY DEF device_write
<1>3. Len(m) \in 1..BUF_LEN /\ file[f].private_data # 0
  BY <1>1, <1>2, WriteAllowed
<1>4. PICK new : new = WrittenList(f, m)
  OBVIOUS
<1>5. devices' = [devices EXCEPT ![file[f].minor + 1] = new]
  BY <1>4 DEF device_write, WrittenList
<1>6. Written(List(f), new, Channel(f)) /\ Holds(new, Channel(f), m)
  BY <1>2, <1>4, WriteFacts
<1>7. PICK minor, id : minor = file[f].minor /\ id = file[f].private_data
  OBVIOUS
<1>8. StoredIn(new, id) = m
  <2>1. new \in LinkedList /\ SoundList(new)
    BY <1>6 DEF Written
  <2>2. id \in Nat
    BY <1>2, <1>3, <1>7, ContentFacts, ChannelFacts
  <2>3. Holds(new, ToInt(id), m)
    BY <1>6, <1>7 DEF Channel
  <2> QED BY <2>1, <2>2, <2>3, WriteIsRead
<1>9. registers' = [n \in Minors |-> [c \in Channels |->
                      IF n = minor /\ c = id THEN m ELSE registers[n][c]]]
  <2>1. registers' = [n \in Minors |-> [c \in Channels |->
                        IF n = file[f].minor /\ c = file[f].private_data
                        THEN StoredIn(new, c) ELSE registers[n][c]]]
    BY <1>2, <1>3, <1>5, <1>6, WriteTouchesOne
  <2>2. registers' = [n \in Minors |-> [c \in Channels |->
                        IF n = minor /\ c = id THEN StoredIn(new, c) ELSE registers[n][c]]]
    BY <1>7, <2>1
  <2> QED BY <1>8, <2>2
<1>10. /\ descriptors[f].minor = minor /\ descriptors[f].channel = id
       /\ minor \in Minors /\ id \in Channels /\ Store!HasChannel(f)
  BY <1>2, <1>3, <1>7, ContentFacts
<1>11. registers' = [registers EXCEPT ![minor][id] = m]
  <2>1. registers = [n \in Minors |-> [c \in Channels |-> registers[n][c]]]
    BY RegisterIs
  <2> QED BY <1>9, <1>10, <2>1
<1>12. Store!Deliver("write", f, "ok", Len(m), <<>>)
  BY DEF device_write, Deliver, Store!Deliver
<1>13. descriptors' = descriptors
  BY SameDescriptors DEF device_write
<1> QED BY <1>3, <1>10, <1>11, <1>12, <1>13 DEF Store!Write

LEMMA FailedWriteRefines ==
    ASSUME IInv, UnsignedIds, NEW f \in Files, NEW m \in Inputs,
           \/ \E noBuffer \in BOOLEAN : WriteRejected(f, m, noBuffer)
           \/ WriteNoNode(f, m) \/ WriteNoCopy(f, m)
    PROVE  Store!FailedWrite(f)
<1>1. IsOpen(f) /\ descriptors' = descriptors
  BY SameDescriptors DEF WriteRejected, WriteNoNode, WriteNoCopy
<1>2. Store!IsOpen(f)
  BY <1>1, OpenDescriptor DEF IsOpen, Store!IsOpen
<1>3. \E e \in Errors : Store!Return("write", f, e)
  <2>1. ASSUME NEW noBuffer \in BOOLEAN, WriteRejected(f, m, noBuffer)
        PROVE  \E e \in Errors : Store!Return("write", f, e)
    <3>1. WriteError(f, m, noBuffer) \in {"EMSGSIZE", "EINVAL", "ENOSPC", "ok"}
      BY DEF WriteError
    <3>2. WriteError(f, m, noBuffer) \in Errors
      BY <2>1, <3>1 DEF WriteRejected, Errors
    <3>3. Store!Return("write", f, WriteError(f, m, noBuffer))
      BY <2>1 DEF WriteRejected, Return, Deliver, Store!Return, Store!Deliver
    <3> QED BY <3>2, <3>3
  <2>2. CASE WriteNoNode(f, m) \/ WriteNoCopy(f, m)
    <3>1. Store!Return("write", f, "ENOSPC")
      BY <2>2 DEF WriteNoNode, WriteNoCopy, Return, Deliver, Store!Return, Store!Deliver
    <3> QED BY <3>1 DEF Errors
  <2> QED BY <2>1, <2>2
<1>4. \A n \in Minors : \A c \in Channels :
        registers'[n][c] # registers[n][c]
          => n = descriptors[f].minor /\ c = descriptors[f].channel
  <2>1. CASE WriteNoCopy(f, m)
    <3>1. Len(m) \in Nat
      BY SlotAssumption
    <3>2. file[f].private_data # 0 /\ WriteError(f, m, FALSE) = "ok"
      BY <2>1, <3>1, WriteAllowed DEF WriteNoCopy
    <3>3. PICK new : new = UncopiedList(f, m)
      OBVIOUS
    <3>4. devices' = [devices EXCEPT ![file[f].minor + 1] = new]
      BY <2>1, <3>3 DEF WriteNoCopy, UncopiedList
    <3>5. Written(List(f), new, Channel(f))
      BY <1>1, <3>2, <3>3, WriteFacts
    <3>6. registers' = [n \in Minors |-> [c \in Channels |->
                          IF n = file[f].minor /\ c = file[f].private_data
                          THEN StoredIn(new, c) ELSE registers[n][c]]]
      BY <1>1, <3>2, <3>4, <3>5, WriteTouchesOne
    <3>7. descriptors[f].minor = file[f].minor /\ descriptors[f].channel = file[f].private_data
      BY <1>1, <3>2, ContentFacts
    <3> QED BY <3>6, <3>7
  <2>2. CASE ~WriteNoCopy(f, m)
    <3>1. registers' = registers
      BY <2>2, SameRegisters DEF WriteRejected, WriteNoNode
    <3> QED BY <3>1
  <2> QED BY <2>1, <2>2
<1> QED BY <1>1, <1>2, <1>3, <1>4 DEF Store!FailedWrite

LEMMA ReadRefines ==
    ASSUME IInv, UnsignedIds, NEW f \in Files, NEW length, device_read(f, length)
    PROVE  Store!Read(f) \/ Store!FailedRead(f)
<1>1. IsOpen(f) /\ file[f].private_data # 0
  BY DEF device_read
<1>2. registers' = registers /\ descriptors' = descriptors
  BY SameRegisters, SameDescriptors DEF device_read
<1>3. PICK lst, id : lst = List(f) /\ id = file[f].private_data
  OBVIOUS
<1>4. /\ lst \in LinkedList /\ SoundList(lst) /\ id \in Channels /\ id \in Nat
      /\ Store!IsOpen(f) /\ Store!HasChannel(f) /\ Store!Content(f) = StoredIn(lst, id)
  BY <1>1, <1>3, OpenFacts, ContentFacts, ChannelFacts
<1>5. Found(f) = findChannelId(lst.nodes, ToInt(id))
  BY <1>3 DEF Found, Channel
<1>6. CASE \A i \in 1..Len(lst.nodes) : lst.nodes[i].channelId # ToInt(id)
  <2>1. Found(f) = 0
    BY <1>4, <1>5, <1>6, SoundNodes, ToIntType, FindFacts
  <2>2. StoredIn(lst, id) = NULL
    BY <1>4, <1>6, StoredNowhere
  <2>3. Store!Return("read", f, "EWOULDBLOCK")
    BY <2>1 DEF device_read, Return, Deliver, Store!Return, Store!Deliver
  <2> QED BY <1>2, <1>4, <2>2, <2>3 DEF Store!Read
<1>7. CASE \E i \in 1..Len(lst.nodes) : lst.nodes[i].channelId = ToInt(id)
  <2>1. PICK i \in 1..Len(lst.nodes) : lst.nodes[i].channelId = ToInt(id)
    BY <1>7
  <2>2. Found(f) = i /\ i # 0
    BY <1>4, <1>5, <2>1, SoundNodes, ToIntType, FindFacts
  <2>3. StoredIn(lst, id) = Message(lst.nodes[i]) /\ StoredIn(lst, id) # NULL
    BY <1>4, <2>1, StoredAt
  <2>4. Len(Message(lst.nodes[i])) = lst.nodes[i].msgLength
    BY <1>4, <2>1, SoundNodes, MessageFacts
  <2>5. CASE length < lst.nodes[i].msgLength
    <3>1. Store!Return("read", f, "ENOSPC")
      BY <1>3, <2>2, <2>5 DEF device_read, Return, Deliver, Store!Return, Store!Deliver
    <3>2. "ENOSPC" \in Errors \ {"EWOULDBLOCK"}
      BY DEF Errors
    <3> QED BY <1>2, <1>4, <3>1, <3>2 DEF Store!FailedRead
  <2>6. CASE ~(length < lst.nodes[i].msgLength)
    <3>1. Store!Deliver("read", f, "ok", lst.nodes[i].msgLength, Message(lst.nodes[i]))
      BY <1>3, <2>2, <2>6 DEF device_read, Deliver, Store!Deliver
    <3> QED BY <1>2, <1>4, <2>3, <2>4, <3>1 DEF Store!Read
  <2> QED BY <2>5, <2>6
<1> QED BY <1>6, <1>7

LEMMA FailedReadRefines ==
    ASSUME IInv, NEW f \in Files, ReadRejected(f) \/ ReadWild(f)
    PROVE  Store!FailedRead(f)
<1>1. IsOpen(f) /\ registers' = registers /\ descriptors' = descriptors
  BY SameRegisters, SameDescriptors DEF ReadRejected, ReadWild
<1>2. Store!IsOpen(f)
  BY <1>1, OpenDescriptor DEF IsOpen, Store!IsOpen
<1>3. \E e \in {"EINVAL", "ENOSPC", "oops"} : Store!Return("read", f, e)
  BY DEF ReadRejected, ReadWild, Return, Deliver, Store!Return, Store!Deliver
<1>4. {"EINVAL", "ENOSPC", "oops"} \subseteq Errors \ {"EWOULDBLOCK"}
  BY DEF Errors
<1> QED BY <1>1, <1>2, <1>3, <1>4 DEF Store!FailedRead

LEMMA CloseRefines == ASSUME IInv, NEW f \in Files, Close(f) PROVE Store!Close(f)
<1>1. Store!IsOpen(f)
  BY OpenDescriptor DEF Close, IsOpen, Store!IsOpen
<1>2. descriptors' = [descriptors EXCEPT ![f] = NULL]
  BY DescriptorsUpdated, DescriptorNull DEF Close
<1>3. registers' = registers
  BY SameRegisters DEF Close
<1> QED BY <1>1, <1>2, <1>3 DEF Close, Store!Close

LEMMA UnloadRefines == ASSUME IInv, simple_cleanup PROVE Store!Unload
<1>1. \A f \in Files : ~Store!IsOpen(f)
  BY OpenDescriptor DEF simple_cleanup, Store!IsOpen
<1>2. \A m \in Minors : devices'[m + 1] = NULL
  BY SlotOf DEF simple_cleanup
<1>3. \A m \in Minors : \A c \in Channels : StoredIn(devices'[m + 1], c) = NULL
  BY <1>2 DEF StoredIn
<1>4. registers' = [m \in Minors |-> [c \in Channels |-> NULL]]
  BY <1>3, RegisterIs
<1>5. descriptors' = descriptors /\ result' = result
  BY SameDescriptors DEF simple_cleanup
<1> QED BY <1>1, <1>4, <1>5 DEF Store!Unload

LEMMA StepRefines ==
    ASSUME UnsignedIds
    PROVE  IInv /\ [Next]_vars => [Store!Next]_<<registers, descriptors, result>>
<1> SUFFICES ASSUME IInv, [Next]_vars
             PROVE  Store!Next \/ UNCHANGED <<registers, descriptors, result>>
  OBVIOUS
<1>1. CASE simple_init \/ UNCHANGED vars
  BY <1>1, SameRegisters, SameDescriptors DEF simple_init, vars
<1>2. CASE simple_cleanup
  BY <1>2, UnloadRefines DEF Store!Next
<1>3. ASSUME NEW f \in Files, Operation(f) PROVE Store!Next
  <2>1. CASE \E minor \in Minors : device_open(f, minor) \/ OpenFailed(f, minor)
    BY <2>1, OpenRefines DEF Store!Next
  <2>2. CASE Close(f)
    BY <2>2, CloseRefines DEF Store!Next
  <2>3. CASE (\E id \in Ids : device_ioctl(f, id)) \/ IoctlRejected(f)
    BY <2>3, IoctlRefines DEF Store!Next
  <2>4. CASE \E m \in Inputs : device_write(f, m)
    <3>1. PICK m \in Inputs : device_write(f, m)
      BY <2>4
    <3>2. m \in {i \in Inputs : Len(i) \in 1..BUF_LEN} /\ Store!Write(f, m)
      BY <3>1, WriteRefines
    <3> QED BY <3>2 DEF Store!Next
  <2>5. CASE \E m \in Inputs : \/ \E noBuffer \in BOOLEAN : WriteRejected(f, m, noBuffer)
                               \/ WriteNoNode(f, m) \/ WriteNoCopy(f, m)
    BY <2>5, FailedWriteRefines DEF Store!Next
  <2>6. CASE \E length \in 0..BUF_LEN : device_read(f, length)
    BY <2>6, ReadRefines DEF Store!Next
  <2>7. CASE ReadRejected(f) \/ ReadWild(f)
    BY <2>7, FailedReadRefines DEF Store!Next
  <2> QED BY <1>3, <2>1, <2>2, <2>3, <2>4, <2>5, <2>6, <2>7 DEF Operation
<1> QED BY <1>1, <1>2, <1>3 DEF Next

\* While channel ids are the interface's unsigned ints, every behaviour of the
\* driver is one of SlotStore: a channel returns exactly the last message written
\* to it, whatever list insertions, int conversions and failing calls happen on
\* the channels around it (message_slot.c:129-272).
THEOREM ImplementsSlotStore ==
    ASSUME UnsignedIds
    PROVE  Spec => ChannelsAreRegisters
<1>1. IInv /\ [Next]_vars => [Store!Next]_<<registers, descriptors, result>>
  BY StepRefines
<1> QED BY InitRefines, <1>1, Invariance, PTL DEF Spec, ChannelsAreRegisters, Store!Spec
-----------------------------------------------------------------------------
(* A channel nobody has written, where fresh memory is zero.               *)

\* No list starts with a pointer that was never set.
NoWild == \A k \in Slots : devices[k] # NULL => devices[k].first # "wild"

\* Writing sets first.
LEMMA WriteSetsFirst ==
    ASSUME IInv, NEW f \in Files, NEW m \in Inputs, device_write(f, m) \/ WriteNoCopy(f, m)
    PROVE  \E new : /\ devices' = [devices EXCEPT ![file[f].minor + 1] = new]
                    /\ new.first = "node"
<1>1. IsOpen(f) /\ WriteError(f, m, FALSE) = "ok"
  BY DEF device_write, WriteNoCopy
<1>2. PICK new : /\ devices' = [devices EXCEPT ![file[f].minor + 1] = new]
                 /\ new = UncopiedList(f, m) \/ new = WrittenList(f, m)
  BY DEF device_write, WriteNoCopy, UncopiedList, WrittenList
<1>3. Written(List(f), new, Channel(f))
  BY <1>1, <1>2, WriteFacts
<1>4. SoundList(new) /\ new.nodes # <<>>
  <2>1. PICK p \in 1..Len(new.nodes) : new.nodes[p].channelId = Channel(f)
    BY <1>3 DEF Written
  <2>2. SoundList(new)
    BY <1>3 DEF Written
  <2>3. PICK s : s = new.nodes
    OBVIOUS
  <2>4. s # <<>>
    <3>1. Len(<<>>) = 0
      OBVIOUS
    <3> QED BY <2>1, <2>3, <3>1
  <2> QED BY <2>2, <2>3, <2>4
<1>5. new.first = "node"
  BY <1>4 DEF SoundList
<1> QED BY <1>2, <1>5

LEMMA NextNoWild ==
    ASSUME Fresh = {"null"}, IInv, NoWild, [Next]_vars
    PROVE  NoWild'
<1>1. devices \in [Slots -> {NULL} \cup LinkedList]
  BY DEF IInv, TypeOK
<1>2. ASSUME NEW f \in Files, NEW minor \in Minors, device_open(f, minor) PROVE NoWild'
  <2>1. CASE devices[minor + 1] = NULL
    <3>1. PICK new : devices' = [devices EXCEPT ![minor + 1] = new] /\ new.first = "null"
      BY <1>2, <2>1 DEF device_open
    <3> QED BY <1>1, <3>1 DEF NoWild
  <2>2. CASE devices[minor + 1] # NULL
    BY <1>2, <2>2 DEF device_open, NoWild
  <2> QED BY <2>1, <2>2
<1>3. ASSUME NEW f \in Files, NEW m \in Inputs, device_write(f, m) \/ WriteNoCopy(f, m)
      PROVE  NoWild'
  <2>1. PICK new : /\ devices' = [devices EXCEPT ![file[f].minor + 1] = new]
                   /\ new.first = "node"
    BY <1>3, WriteSetsFirst
  <2> QED BY <1>1, <2>1 DEF NoWild
<1>4. CASE simple_cleanup
  BY <1>4 DEF simple_cleanup, NoWild
<1>5. CASE devices' = devices
  BY <1>5 DEF NoWild
<1>6. ASSUME NEW f \in Files, Operation(f) PROVE NoWild'
  <2>1. CASE \E minor \in Minors : device_open(f, minor)
    BY <1>2, <2>1
  <2>2. CASE \E m \in Inputs : device_write(f, m) \/ WriteNoCopy(f, m)
    BY <1>3, <2>2
  <2>3. CASE ~(\E minor \in Minors : device_open(f, minor))
             /\ ~(\E m \in Inputs : device_write(f, m) \/ WriteNoCopy(f, m))
    BY <1>5, <1>6, <2>3 DEF Operation, OpenFailed, Close, device_ioctl, IoctlRejected,
       WriteRejected, WriteNoNode, device_read, ReadRejected, ReadWild
  <2> QED BY <2>1, <2>2, <2>3
<1> QED BY <1>4, <1>5, <1>6 DEF Next, simple_init, vars

\* A read on a channel without a message finds no node.
LEMMA EmptyReadStep ==
    ASSUME IInv, NoWild, Next, NEW f \in Files, file[f] # NULL, file[f].private_data # 0,
           Stored(file[f].minor, file[f].private_data) = NULL,
           result' # result, result'[1] = "read", result'[2] = f
    PROVE  result'[3] = "EWOULDBLOCK"
<1>1. (\E length \in 0..BUF_LEN : device_read(f, length)) \/ ReadRejected(f) \/ ReadWild(f)
  <2>1. PICK g \in Files : Operation(g)
    BY DEF Next, simple_init, simple_cleanup
  <2> USE DEF Return, Deliver
  <2>2. ~(\E minor \in Minors : device_open(g, minor) \/ OpenFailed(g, minor))
    BY DEF device_open, OpenFailed
  <2>3. ~(Close(g) \/ (\E id \in Ids : device_ioctl(g, id)) \/ IoctlRejected(g))
    BY DEF Close, device_ioctl, IoctlRejected
  <2>4. ~(\E m \in Inputs, noBuffer \in BOOLEAN : WriteRejected(g, m, noBuffer))
    BY DEF WriteRejected
  <2>5. ~(\E m \in Inputs : device_write(g, m) \/ WriteNoNode(g, m) \/ WriteNoCopy(g, m))
    <3>1. ASSUME NEW m, NEW n, NEW e, result' = <<"write", g, e, n, m>> PROVE FALSE
      BY <3>1
    <3> QED BY <3>1 DEF device_write, WriteNoNode, WriteNoCopy
  <2>6. (\E length \in 0..BUF_LEN : device_read(g, length)) \/ ReadRejected(g) \/ ReadWild(g)
    BY <2>1, <2>2, <2>3, <2>4, <2>5 DEF Operation
  <2>7. g = f
    BY <2>6 DEF device_read, ReadRejected, ReadWild
  <2> QED BY <2>6, <2>7
<1>2. IsOpen(f)
  BY <1>1 DEF device_read, ReadRejected, ReadWild
<1>3. PICK lst, id : lst = List(f) /\ id = file[f].private_data
  OBVIOUS
<1>4. lst \in LinkedList /\ SoundList(lst) /\ id \in Nat /\ file[f].minor \in Minors
  BY <1>2, <1>3, OpenFacts
<1>5. Found(f) = findChannelId(lst.nodes, ToInt(id))
  BY <1>3 DEF Found, Channel
<1>6. StoredIn(lst, id) = NULL
  BY <1>3, StoredNow DEF List
<1>7. \A i \in 1..Len(lst.nodes) : lst.nodes[i].channelId # ToInt(id)
  BY <1>4, <1>6, StoredAt
<1>8. Found(f) = 0
  BY <1>4, <1>5, <1>7, SoundNodes, ToIntType, FindFacts
<1>9. lst.first # "wild"
  BY <1>2, <1>3, <1>4, SlotOf, NullApart DEF NoWild, List
<1>10. \E length \in 0..BUF_LEN : device_read(f, length)
  BY <1>1, <1>3, <1>8, <1>9 DEF ReadRejected, ReadWild
<1> QED BY <1>8, <1>10 DEF device_read, Return, Deliver

\* The uninitialized first of device_open (message_slot.c:135-139) is all that
\* separates the driver from its interface here: in memory that comes zeroed, a
\* read on a channel without a message always returns EWOULDBLOCK.
THEOREM ZeroedMemoryWouldBlock ==
    ASSUME Fresh = {"null"}
    PROVE  Spec => EmptyChannelWouldBlock
<1>1. Init => NoWild
  BY DEF Init, NoWild
<1>2. IInv /\ NoWild /\ [Next]_vars => NoWild'
  BY NextNoWild
<1>3. IInv /\ NoWild /\ [Next]_vars =>
        [\A f \in Files :
           /\ file[f] # NULL /\ file[f].private_data # 0
           /\ Stored(file[f].minor, file[f].private_data) = NULL
           /\ result' # result /\ result'[1] = "read" /\ result'[2] = f
           => result'[3] = "EWOULDBLOCK"]_vars
  BY EmptyReadStep
<1> QED BY <1>1, <1>2, <1>3, Invariance, PTL DEF Spec, EmptyChannelWouldBlock
=============================================================================
