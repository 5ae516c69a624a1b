--------------------------- MODULE PccServiceProofs ---------------------------
(***************************************************************************)
(* The server's counts and statistics are exact for any clients, files,    *)
(* sizes of the buffer and of the integers, and any way the byte streams   *)
(* are cut up.                                                             *)
(***************************************************************************)
EXTENDS PccService, FiniteSetTheorems, TLAPS

LEMMA Sizes ==
    /\ NUM_PRINTABLE_CHARS \in Nat /\ NUM_PRINTABLE_CHARS > 0
    /\ BUFFER_SIZE \in Nat /\ UINT_MOD \in Nat /\ UINT_MOD > 0
    /\ \A c \in Clients : FileSize[c] \in Nat
  BY PccAssumption

USE Sizes

LEMMA NType == ASSUME NEW c \in Clients PROVE N(c) \in Nat
  BY DEF N
-----------------------------------------------------------------------------
(* Counting bytes.                                                         *)

\* How many of the places m..n belong to T.
Count(T, m, n) == Cardinality((m..n) \cap T)

LEMMA CountType ==
    ASSUME NEW T, NEW m \in Nat, NEW n \in Nat
    PROVE  IsFiniteSet((m..n) \cap T) /\ Count(T, m, n) \in Nat
<1>1. IsFiniteSet(m..n)
  BY FS_Interval
<1>2. IsFiniteSet((m..n) \cap T)
  BY <1>1, FS_Intersection
<1> QED BY <1>2, FS_CardinalityType DEF Count

LEMMA CountNothing == ASSUME NEW T PROVE Count(T, 1, 0) = 0
<1>1. (1..0) \cap T = {}
  OBVIOUS
<1> QED BY <1>1, FS_EmptySet DEF Count

\* What arrives in two pieces is counted piece by piece.
LEMMA CountSplits ==
    ASSUME NEW T, NEW g \in Nat, NEW n \in Nat
    PROVE  Count(T, 1, g + n) = Count(T, 1, g) + Count(T, g + 1, g + n)
<1> DEFINE A == (1..g) \cap T
           B == (g + 1..g + n) \cap T
<1>1. g + 1 \in Nat /\ g + n \in Nat
  OBVIOUS
<1>2. IsFiniteSet(A) /\ Count(T, 1, g) \in Nat
  BY CountType
<1>3. IsFiniteSet(B) /\ Count(T, g + 1, g + n) \in Nat
  BY <1>1, CountType
<1>4. A \cap B = {} /\ A \cup B = (1..g + n) \cap T
  OBVIOUS
<1>5. Cardinality(A \cap B) = 0
  BY <1>4, FS_EmptySet
<1>6. /\ Count(T, 1, g) = Cardinality(A) /\ Count(T, g + 1, g + n) = Cardinality(B)
      /\ Count(T, 1, g + n) = Cardinality(A \cup B)
  BY <1>4 DEF Count
<1> HIDE DEF A, B
<1>7. Cardinality(A \cup B) = Cardinality(A) + Cardinality(B) - Cardinality(A \cap B)
  BY <1>2, <1>3, FS_Union
<1> QED BY <1>2, <1>3, <1>5, <1>6, <1>7

\* The printable bytes among bytes m..n of s.
Printable(s, m, n) == Cardinality({j \in m..n : s[j] \in Chars})

Places(s, k) == {j \in Nat : s[j] = k}
PrintablePlaces(s) == {j \in Nat : s[j] \in Chars}

LEMMA CountsAsSets ==
    ASSUME NEW s, NEW m \in Nat, NEW n \in Nat
    PROVE  /\ \A k : Occurs(s, m, n, k) = Count(Places(s, k), m, n)
           /\ Printable(s, m, n) = Count(PrintablePlaces(s), m, n)
<1>1. \A k : {j \in m..n : s[j] = k} = (m..n) \cap Places(s, k)
  BY DEF Places
<1>2. {j \in m..n : s[j] \in Chars} = (m..n) \cap PrintablePlaces(s)
  BY DEF PrintablePlaces
<1> QED BY <1>1, <1>2 DEF Occurs, Printable, Count

LEMMA OccursFacts ==
    ASSUME NEW s, NEW g \in Nat, NEW n \in Nat
    PROVE  \A k \in Chars :
             /\ Occurs(s, 1, g, k) \in Nat /\ Occurs(s, g + 1, g + n, k) \in Nat
             /\ Occurs(s, 1, g + n, k) = Occurs(s, 1, g, k) + Occurs(s, g + 1, g + n, k)
             /\ Occurs(s, 1, 0, k) = 0
<1> SUFFICES ASSUME NEW k \in Chars
             PROVE  /\ Occurs(s, 1, g, k) \in Nat /\ Occurs(s, g + 1, g + n, k) \in Nat
                    /\ Occurs(s, 1, g + n, k)
                         = Occurs(s, 1, g, k) + Occurs(s, g + 1, g + n, k)
                    /\ Occurs(s, 1, 0, k) = 0
  OBVIOUS
<1>1. g + 1 \in Nat /\ g + n \in Nat /\ 0 \in Nat /\ 1 \in Nat
  OBVIOUS
<1>2. PICK T : T = Places(s, k)
  OBVIOUS
<1>3. /\ Occurs(s, 1, g, k) = Count(T, 1, g) /\ Occurs(s, g + 1, g + n, k) = Count(T, g + 1, g + n)
      /\ Occurs(s, 1, g + n, k) = Count(T, 1, g + n) /\ Occurs(s, 1, 0, k) = Count(T, 1, 0)
  BY <1>1, <1>2, CountsAsSets
<1>4. Count(T, 1, g) \in Nat /\ Count(T, g + 1, g + n) \in Nat
  BY <1>1, CountType
<1>5. Count(T, 1, g + n) = Count(T, 1, g) + Count(T, g + 1, g + n) /\ Count(T, 1, 0) = 0
  BY CountNothing, CountSplits
<1> QED BY <1>3, <1>4, <1>5

LEMMA PrintableFacts ==
    ASSUME NEW s, NEW g \in Nat, NEW n \in Nat
    PROVE  /\ Printable(s, 1, g) \in Nat /\ Printable(s, g + 1, g + n) \in Nat
           /\ Printable(s, 1, g + n) = Printable(s, 1, g) + Printable(s, g + 1, g + n)
           /\ Printable(s, 1, 0) = 0
<1>1. g + 1 \in Nat /\ g + n \in Nat /\ 0 \in Nat /\ 1 \in Nat
  OBVIOUS
<1>2. PICK T : T = PrintablePlaces(s)
  OBVIOUS
<1>3. /\ Printable(s, 1, g) = Count(T, 1, g) /\ Printable(s, g + 1, g + n) = Count(T, g + 1, g + n)
      /\ Printable(s, 1, g + n) = Count(T, 1, g + n) /\ Printable(s, 1, 0) = Count(T, 1, 0)
  BY <1>1, <1>2, CountsAsSets
<1>4. Count(T, 1, g) \in Nat /\ Count(T, g + 1, g + n) \in Nat
  BY <1>1, CountType
<1>5. Count(T, 1, g + n) = Count(T, 1, g) + Count(T, g + 1, g + n) /\ Count(T, 1, 0) = 0
  BY CountNothing, CountSplits
<1> QED BY <1>3, <1>4, <1>5

\* A client's bytes with one index.
LEMMA BytesFacts ==
    ASSUME NEW c \in Clients, NEW k
    PROVE  /\ IsFiniteSet(BytesOf(c, k))
           /\ Cardinality(BytesOf(c, k)) = Occurs(Content[c], 1, N(c), k)
<1> DEFINE J == {j \in 1..N(c) : Content[c][j] = k}
<1>1. N(c) \in Nat
  BY NType
<1>2. J = (1..N(c)) \cap {j \in Nat : Content[c][j] = k}
  BY <1>1
<1>3. IsFiniteSet(J) /\ Cardinality(J) \in Nat
  <2> DEFINE T == {j \in Nat : Content[c][j] = k}
  <2>1. J = (1..N(c)) \cap T
    BY <1>2
  <2> HIDE DEF J, T
  <2>2. IsFiniteSet((1..N(c)) \cap T) /\ Count(T, 1, N(c)) \in Nat
    BY <1>1, CountType
  <2> QED BY <2>1, <2>2 DEF Count
<1>4. IsFiniteSet({c}) /\ Cardinality({c}) = 1
  BY FS_Singleton
<1> HIDE DEF J
<1>5. IsFiniteSet({c} \X J) /\ Cardinality({c} \X J) = 1 * Cardinality(J)
  BY <1>3, <1>4, FS_Product
<1>6. Cardinality({c} \X J) = Cardinality(J)
  BY <1>3, <1>5
<1> QED BY <1>5, <1>6 DEF BytesOf, Occurs, J

\* One more client adds its own bytes.
LEMMA SeenAdds ==
    ASSUME NEW C, NEW k, IsFiniteSet(AllBytes(C, k)), NEW c \in Clients, c \notin C
    PROVE  /\ IsFiniteSet(AllBytes(C \cup {c}, k))
           /\ Seen(C \cup {c}, k) = Seen(C, k) + Occurs(Content[c], 1, N(c), k)
<1>1. AllBytes(C \cup {c}, k) = AllBytes(C, k) \cup BytesOf(c, k)
  BY DEF AllBytes
<1>2. AllBytes(C, k) \cap BytesOf(c, k) = {}
  BY DEF AllBytes, BytesOf
<1>3. IsFiniteSet(BytesOf(c, k)) /\ Cardinality(BytesOf(c, k)) = Occurs(Content[c], 1, N(c), k)
  BY BytesFacts
<1>4. /\ IsFiniteSet(AllBytes(C, k) \cup BytesOf(c, k))
      /\ Cardinality(AllBytes(C, k) \cup BytesOf(c, k))
           = Cardinality(AllBytes(C, k)) + Cardinality(BytesOf(c, k)) - Cardinality({})
  <2>1. PICK S, T : S = AllBytes(C, k) /\ T = BytesOf(c, k)
    OBVIOUS
  <2>2. IsFiniteSet(S) /\ IsFiniteSet(T) /\ S \cap T = {}
    BY <1>2, <1>3, <2>1
  <2>3. /\ IsFiniteSet(S \cup T)
        /\ Cardinality(S \cup T) = Cardinality(S) + Cardinality(T) - Cardinality(S \cap T)
    BY <2>2, FS_Union
  <2> QED BY <2>1, <2>2, <2>3
<1>5. /\ Cardinality({}) = 0 /\ Cardinality(AllBytes(C, k)) \in Nat
      /\ Cardinality(BytesOf(c, k)) \in Nat
  BY <1>3, FS_EmptySet, FS_CardinalityType
<1>6. Seen(C \cup {c}, k) = Cardinality(AllBytes(C, k) \cup BytesOf(c, k))
  BY <1>1 DEF Seen
<1>7. Seen(C, k) = Cardinality(AllBytes(C, k))
  BY DEF Seen
<1>8. IsFiniteSet(AllBytes(C \cup {c}, k))
  BY <1>1, <1>4
<1>9. PICK x, y, z : x = Seen(C \cup {c}, k) /\ y = Seen(C, k) /\ z = Occurs(Content[c], 1, N(c), k)
  OBVIOUS
<1>10. x = y + z - 0 /\ y \in Nat /\ z \in Nat
  BY <1>3, <1>4, <1>5, <1>6, <1>7, <1>9
<1>11. x = y + z
  BY <1>10
<1> QED BY <1>8, <1>9, <1>11

\* Fewer clients, fewer bytes.
LEMMA SeenMonotone ==
    ASSUME NEW C, NEW k, IsFiniteSet(AllBytes(C, k)), NEW x
    PROVE  /\ IsFiniteSet(AllBytes(C \ {x}, k))
           /\ Seen(C, k) \in Nat /\ Seen(C \ {x}, k) \in Nat
           /\ Seen(C \ {x}, k) <= Seen(C, k)
<1>1. AllBytes(C \ {x}, k) \in SUBSET AllBytes(C, k)
  BY DEF AllBytes
<1> QED BY <1>1, FS_Subset, FS_CardinalityType DEF Seen
-----------------------------------------------------------------------------
(* The inductive invariant.                                                *)

\* There is a connection behind client_fd.
Busy == spc \in {"size", "body", "update", "close"}

\* A client connects once: it waits in the listen queue at most once, and not
\* again after it was accepted or answered.
QueueSound ==
    /\ \A i, j \in 1..Len(backlog) : backlog[i] = backlog[j] => i = j
    /\ \A i \in 1..Len(backlog) : cpc[backlog[i]] # "start" /\ backlog[i] \notin served
    /\ \A c \in served : cpc[c] # "start"

ClientSound ==
    Busy => /\ client \in Clients /\ cpc[client] # "start"
            /\ \A i \in 1..Len(backlog) : backlog[i] # client
            /\ spc \in {"size", "body"} => client \notin served
            /\ spc = "update" => client \in served

\* The local counters hold the first got bytes of the client's file.
CountSound ==
    spc \in {"body", "update"} =>
        /\ got + file_size = N(client)
        /\ spc = "update" => file_size = 0
        /\ \A k \in Chars : local[k] = Occurs(Content[client], 1, got, k)
        /\ printable_count = Printable(Content[client], 1, got)

Between(total, C, c) == \A k \in Chars : total[k] \in Seen(C \ {c}, k)..Seen(C, k)

\* The loop over pcc_total has added the client's bytes up to next.
TotalSound ==
    /\ \A k \in Chars : IsFiniteSet(AllBytes(served, k))
    /\ spc \in {"accept", "size", "body", "close"} =>
         \A k \in Chars : pcc_total[k] = Seen(served, k)
    /\ spc = "update" =>
         \A k \in Chars : pcc_total[k] = IF k < next THEN Seen(served, k)
                                         ELSE Seen(served \ {client}, k)
    /\ Between(pcc_total, served, client)
    /\ output # NULL => ~ServerUp /\ Between(output, served, client)

IInv == TypeOK /\ QueueSound /\ ClientSound /\ CountSound /\ TotalSound /\ CountsExact

LEMMA NoBytes == ASSUME NEW k PROVE IsFiniteSet(AllBytes({}, k)) /\ Seen({}, k) = 0
<1>1. AllBytes({}, k) = {}
  BY DEF AllBytes
<1> QED BY <1>1, FS_EmptySet DEF Seen

LEMMA InitIInv == Init => IInv
<1> SUFFICES ASSUME Init PROVE IInv
  OBVIOUS
<1>1. TypeOK
  <2>1. \A c \in Clients : 0 <= Len(Content[c])
    BY PccAssumption
  <2>2. <<>> \in Seq(Clients) /\ Len(<<>>) <= BACKLOG
    BY PccAssumption
  <2>3. 1 \in 1..NUM_PRINTABLE_CHARS + 1
    OBVIOUS
  <2> QED BY <2>1, <2>2, <2>3 DEF Init, TypeOK
<1>2. QueueSound /\ ClientSound /\ CountSound /\ CountsExact
  BY DEF Init, QueueSound, ClientSound, Busy, CountSound, CountsExact
<1>3. TotalSound
  <2>1. served = {} /\ served \ {client} = {} /\ output = NULL
    BY DEF Init
  <2>2. \A k \in Chars : pcc_total[k] = 0
    BY DEF Init
  <2>3. Between(pcc_total, served, client)
    BY <2>1, <2>2, NoBytes DEF Between
  <2> QED BY <2>1, <2>2, <2>3, NoBytes DEF Init, TotalSound
<1> QED BY <1>1, <1>2, <1>3 DEF IInv

\* When the totals hold exactly the answered clients they are between the bounds.
LEMMA ExactIsBetween ==
    ASSUME NEW C, NEW c, NEW total,
           \A k \in Chars : IsFiniteSet(AllBytes(C, k)) /\ total[k] = Seen(C, k)
    PROVE  Between(total, C, c)
<1> SUFFICES ASSUME NEW k \in Chars PROVE total[k] \in Seen(C \ {c}, k)..Seen(C, k)
  BY DEF Between
<1>1. /\ Seen(C, k) \in Nat /\ Seen(C \ {c}, k) \in Nat /\ Seen(C \ {c}, k) <= Seen(C, k)
  BY SeenMonotone
<1> QED BY <1>1
-----------------------------------------------------------------------------
(* The clients' steps.                                                     *)

\* Nothing a client does touches the server's counts.
LEMMA ServerSame ==
    ASSUME IInv, UNCHANGED serverVars
    PROVE  CountSound' /\ TotalSound'
  BY DEF IInv, CountSound, TotalSound, serverVars, Between, ServerUp

\* A client that goes on leaves the queue and the server's client as they were.
LEMMA QueueSame ==
    ASSUME IInv, UNCHANGED <<serverVars, backlog>>,
           \A c \in Clients : cpc[c] # "start" => cpc'[c] # "start"
    PROVE  QueueSound' /\ ClientSound'
<1>1. served \subseteq Clients /\ \A i \in 1..Len(backlog) : backlog[i] \in Clients
  BY DEF IInv, TypeOK
<1>2. QueueSound'
  BY <1>1 DEF IInv, QueueSound, serverVars
<1>3. ClientSound'
  BY <1>1 DEF IInv, ClientSound, serverVars, Busy
<1> QED BY <1>2, <1>3

LEMMA ConnectKeeps == ASSUME IInv, NEW c \in Clients, Connect(c) PROVE IInv'
<1> USE DEF Connect
<1>1. CountSound' /\ TotalSound' /\ CountsExact'
  BY ServerSame DEF IInv, CountsExact
<1>2. backlog \in Seq(Clients) /\ Len(backlog) < BACKLOG /\ BACKLOG \in Nat
  BY PccAssumption DEF IInv, TypeOK
<1>3. /\ backlog' \in Seq(Clients) /\ Len(backlog') = Len(backlog) + 1
      /\ \A i \in 1..Len(backlog) : backlog'[i] = backlog[i] /\ backlog[i] \in Clients
      /\ backlog'[Len(backlog) + 1] = c
  BY <1>2
<1>4. TypeOK'
  BY <1>2, <1>3 DEF IInv, TypeOK, serverVars
<1>5. cpc[c] = "start" /\ cpc'[c] = "size" /\ \A d \in Clients : d # c => cpc'[d] = cpc[d]
  BY DEF IInv, TypeOK
<1>6. \A i \in 1..Len(backlog) + 1 :
         \/ i = Len(backlog) + 1 /\ backlog'[i] = c
         \/ i \in 1..Len(backlog) /\ backlog'[i] = backlog[i] /\ backlog[i] # c
  BY <1>2, <1>3, <1>5 DEF IInv, QueueSound
<1>7. QueueSound'
  <2>1. c \notin served
    BY <1>5 DEF IInv, QueueSound
  <2>2. \A i, j \in 1..Len(backlog') : backlog'[i] = backlog'[j] => i = j
    BY <1>3, <1>6 DEF IInv, QueueSound
  <2>3. \A i \in 1..Len(backlog') : cpc'[backlog'[i]] # "start" /\ backlog'[i] \notin served
    BY <1>3, <1>5, <1>6, <2>1 DEF IInv, QueueSound
  <2>4. \A d \in served : cpc'[d] # "start"
    BY <1>5, <2>1 DEF IInv, QueueSound, TypeOK
  <2> QED BY <2>2, <2>3, <2>4 DEF QueueSound, serverVars
<1>8. ClientSound'
  BY <1>3, <1>5, <1>6 DEF IInv, ClientSound, Busy, serverVars
<1> QED BY <1>1, <1>4, <1>7, <1>8 DEF IInv

LEMMA SentGrows ==
    ASSUME IInv, NEW c \in Clients, SendBody(c)
    PROVE  sent' \in [Clients -> Nat] /\ \A d \in Clients : sent'[d] <= Len(Content[d])
<1>1. PICK n \in 1..BUFFER_SIZE :
        sent[c] + n <= Len(Content[c]) /\ sent' = [sent EXCEPT ![c] = @ + n]
  BY DEF SendBody
<1>2. sent \in [Clients -> Nat] /\ \A d \in Clients : sent[d] <= Len(Content[d])
  BY DEF IInv, TypeOK
<1>3. n \in Nat /\ sent[c] + n \in Nat
  BY <1>2
<1> QED BY <1>1, <1>2, <1>3

LEMMA ClientKeeps ==
    ASSUME IInv, NEW c \in Clients, ClientStep(c) \/ Killed(c)
    PROVE  IInv'
<1>1. CASE Connect(c)
  BY <1>1, ConnectKeeps
<1>2. CASE ~Connect(c)
  <2>1. UNCHANGED <<serverVars, backlog, reply>>
    BY <1>2 DEF ClientStep, ConnectFails, SendSize, SendBody, SendEnd, SendFails, Recv, RecvEnd,
                RecvFails, Killed
  <2>2. \A d \in Clients : cpc[d] # "start" => cpc'[d] # "start"
    BY <1>2 DEF ClientStep, ConnectFails, SendSize, SendBody, SendEnd, SendFails, Recv, RecvEnd,
                RecvFails, Killed, Exit, IInv, TypeOK
  <2>3. QueueSound' /\ ClientSound'
    BY <2>1, <2>2, QueueSame
  <2>4. CountSound' /\ TotalSound' /\ CountsExact'
    BY <2>1, ServerSame DEF IInv, CountsExact
  <2>5. TypeOK'
    <3> USE DEF IInv, TypeOK, serverVars
    <3>1. CASE ConnectFails(c)
      BY <3>1 DEF ConnectFails, Exit
    <3>2. CASE SendSize(c)
      BY <3>2 DEF SendSize
    <3>3. CASE SendBody(c)
      BY <3>3, SentGrows DEF SendBody
    <3>4. CASE SendEnd(c)
      BY <3>4 DEF SendEnd
    <3>5. CASE SendFails(c)
      BY <3>5 DEF SendFails, Exit
    <3>6. CASE Recv(c)
      BY <3>6 DEF Recv, Exit
    <3>7. CASE RecvEnd(c)
      BY <3>7 DEF RecvEnd, Exit
    <3>8. CASE RecvFails(c)
      BY <3>8 DEF RecvFails, Exit
    <3>9. CASE Killed(c)
      BY <3>9 DEF Killed, Exit
    <3> QED BY <1>2, <3>1, <3>2, <3>3, <3>4, <3>5, <3>6, <3>7, <3>8, <3>9 DEF ClientStep
  <2> QED BY <2>3, <2>4, <2>5 DEF IInv
<1> QED BY <1>1, <1>2
-----------------------------------------------------------------------------
(* The server's steps.                                                     *)

\* What is known while a connection is handled.
LEMMA BusyFacts ==
    ASSUME IInv, Busy
    PROVE  client \in Clients /\ N(client) \in Nat
  BY NType DEF IInv, ClientSound

\* A step that changes no queue, client or answer keeps what is said of them.
LEMMA QueueKept ==
    ASSUME IInv, UNCHANGED <<client, served, backlog, cpc>>,
           spc' = spc \/ spc' \in {"close", "exited", "killed"}, Busy
    PROVE  QueueSound' /\ ClientSound'
  BY DEF IInv, QueueSound, ClientSound, Busy

LEMMA AcceptKeeps == ASSUME IInv, Accept PROVE IInv'
<1> USE DEF Accept
<1>1. backlog \in Seq(Clients) /\ backlog # <<>> /\ Len(backlog) <= BACKLOG /\ BACKLOG \in Nat
  BY PccAssumption DEF IInv, TypeOK
<1>2. /\ Len(backlog) \in Nat /\ Len(backlog) > 0
      /\ backlog' \in Seq(Clients) /\ Len(backlog') = Len(backlog) - 1
      /\ client' = backlog[1] /\ client' \in Clients
      /\ \A i \in 1..Len(backlog') : backlog'[i] = backlog[i + 1] /\ i + 1 \in 1..Len(backlog)
  BY <1>1
<1>3. TypeOK'
  BY <1>1, <1>2 DEF IInv, TypeOK, clientVars
<1>4. QueueSound'
  <2>1. \A i, j \in 1..Len(backlog') : backlog'[i] = backlog'[j] => i = j
    <3> SUFFICES ASSUME NEW i \in 1..Len(backlog'), NEW j \in 1..Len(backlog'),
                        backlog'[i] = backlog'[j]
                 PROVE  i = j
      OBVIOUS
    <3>1. i + 1 \in 1..Len(backlog) /\ j + 1 \in 1..Len(backlog) /\ backlog[i + 1] = backlog[j + 1]
      BY <1>2
    <3>2. i + 1 = j + 1
      BY <3>1 DEF IInv, QueueSound
    <3> QED BY <1>2, <3>2
  <2> QED BY <1>2, <2>1 DEF IInv, QueueSound, clientVars
<1>5. ClientSound'
  <2>1. 1 \in 1..Len(backlog)
    BY <1>2
  <2>2. cpc[client'] # "start" /\ client' \notin served
    BY <1>2, <2>1 DEF IInv, QueueSound
  <2>3. \A i \in 1..Len(backlog') : backlog'[i] # client'
    <3> SUFFICES ASSUME NEW i \in 1..Len(backlog'), backlog'[i] = client' PROVE FALSE
      OBVIOUS
    <3>1. i + 1 \in 1..Len(backlog) /\ backlog[i + 1] = backlog[1]
      BY <1>2
    <3>2. i + 1 = 1
      BY <2>1, <3>1 DEF IInv, QueueSound
    <3> QED BY <1>2, <3>2
  <2> QED BY <1>2, <2>2, <2>3 DEF ClientSound, clientVars
<1>6. CountSound' /\ CountsExact'
  BY DEF IInv, CountSound, CountsExact
<1>7. TotalSound'
  <2>1. \A k \in Chars : IsFiniteSet(AllBytes(served, k)) /\ pcc_total[k] = Seen(served, k)
    BY DEF IInv, TotalSound
  <2>2. Between(pcc_total, served, client')
    BY <2>1, ExactIsBetween
  <2>3. output = NULL
    BY DEF IInv, TotalSound, ServerUp
  <2> QED BY <2>1, <2>2, <2>3 DEF TotalSound, Between
<1> QED BY <1>3, <1>4, <1>5, <1>6, <1>7 DEF IInv

\* While the totals, the answers and the client stay, so does what is known of them.
LEMMA TotalKept ==
    ASSUME IInv, UNCHANGED <<pcc_total, served, client, output>>,
           spc \in {"size", "body"}, spc' \in {"size", "body", "close", "killed"}
    PROVE  TotalSound'
<1>1. output = NULL
  BY DEF IInv, TotalSound, ServerUp
<1> QED BY <1>1 DEF IInv, TotalSound, Between

LEMMA RecvSizeKeeps == ASSUME IInv, RecvSize PROVE IInv'
<1> USE DEF RecvSize
<1>1. client \in Clients /\ N(client) \in Nat
  BY BusyFacts DEF Busy
<1>2. TypeOK'
  BY <1>1 DEF IInv, TypeOK, clientVars, networkVars
<1>3. QueueSound' /\ ClientSound'
  BY DEF IInv, QueueSound, ClientSound, Busy, clientVars, networkVars
<1>4. CountSound'
  <2>1. \A k \in Chars : Occurs(Content[client], 1, 0, k) = 0
    BY OccursFacts
  <2>2. Printable(Content[client], 1, 0) = 0
    BY PrintableFacts
  <2>3. 0 + N(client) = N(client)
    BY <1>1
  <2> QED BY <2>1, <2>2, <2>3 DEF CountSound
<1>5. TotalSound'
  BY TotalKept
<1>6. CountsExact'
  BY DEF IInv, CountsExact, networkVars
<1> QED BY <1>2, <1>3, <1>4, <1>5, <1>6 DEF IInv

LEMMA RecvBodyKeeps == ASSUME IInv, RecvBody PROVE IInv'
<1> USE DEF RecvBody
<1>1. PICK n \in 1..BUFFER_SIZE :
        /\ n <= file_size /\ got' = got + n /\ file_size' = file_size - n
        /\ local' = [k \in Chars |-> local[k] + Occurs(Content[client], got + 1, got + n, k)]
        /\ printable_count' = printable_count + Printable(Content[client], got + 1, got + n)
  BY DEF Printable
<1>2. /\ client \in Clients /\ N(client) \in Nat
      /\ spc = "body" /\ UNCHANGED <<pcc_total, spc, client, served, output, cpc, backlog, reply>>
  BY BusyFacts DEF Busy, clientVars, networkVars
<1>3. n \in Nat /\ got \in Nat /\ file_size \in Nat
  BY DEF IInv, TypeOK
<1>4. PICK s : s = Content[client]
  OBVIOUS
<1>5. /\ got + file_size = N(client)
      /\ \A k \in Chars : local[k] = Occurs(s, 1, got, k)
      /\ printable_count = Printable(s, 1, got)
  BY <1>2, <1>4 DEF IInv, CountSound
<1>6. /\ \A k \in Chars :
                /\ Occurs(s, 1, got + n, k) = Occurs(s, 1, got, k) + Occurs(s, got + 1, got + n, k)
                /\ Occurs(s, got + 1, got + n, k) \in Nat /\ Occurs(s, 1, got, k) \in Nat
      /\ Printable(s, 1, got + n) = Printable(s, 1, got) + Printable(s, got + 1, got + n)
      /\ Printable(s, got + 1, got + n) \in Nat /\ Printable(s, 1, got) \in Nat
  <2>1. \A k \in Chars :
               /\ Occurs(s, 1, got, k) \in Nat /\ Occurs(s, got + 1, got + n, k) \in Nat
               /\ Occurs(s, 1, got + n, k) = Occurs(s, 1, got, k) + Occurs(s, got + 1, got + n, k)
    <3>1. PICK g \in Nat : g = got
      BY <1>3
    <3>2. \A k \in Chars :
             /\ Occurs(s, 1, g, k) \in Nat /\ Occurs(s, g + 1, g + n, k) \in Nat
             /\ Occurs(s, 1, g + n, k) = Occurs(s, 1, g, k) + Occurs(s, g + 1, g + n, k)
             /\ Occurs(s, 1, 0, k) = 0
      BY <1>3, OccursFacts
    <3> QED BY <3>1, <3>2
  <2>2. /\ Printable(s, 1, got + n) = Printable(s, 1, got) + Printable(s, got + 1, got + n)
        /\ Printable(s, got + 1, got + n) \in Nat /\ Printable(s, 1, got) \in Nat
    BY <1>3, PrintableFacts
  <2> QED BY <2>1, <2>2
<1>7. \A k \in Chars : local'[k] = Occurs(s, 1, got', k) /\ local'[k] \in Nat
  BY <1>1, <1>3, <1>4, <1>5, <1>6
<1>8. printable_count' = Printable(s, 1, got') /\ printable_count' \in Nat
  BY <1>1, <1>3, <1>4, <1>5, <1>6
<1>9. got' + file_size' = N(client) /\ got' \in Nat /\ file_size' \in Nat
  BY <1>1, <1>2, <1>3, <1>5
<1>10. local' \in [Chars -> Nat]
  BY <1>1, <1>7
<1>11. TypeOK'
  BY <1>8, <1>9, <1>10 DEF IInv, TypeOK, clientVars, networkVars
<1>12. CountSound'
  BY <1>2, <1>4, <1>7, <1>8, <1>9 DEF CountSound
<1>13. QueueSound' /\ ClientSound'
  BY <1>2, QueueKept DEF Busy
<1>14. TotalSound'
  BY <1>2, TotalKept
<1>15. CountsExact'
  BY <1>2 DEF IInv, CountsExact
<1> QED BY <1>11, <1>12, <1>13, <1>14, <1>15 DEF IInv

\* The connection is dropped, or SIGPIPE ends the server.
LEMMA DropKeeps ==
    ASSUME IInv, RecvDropped \/ SendDropped \/ SendKills
    PROVE  IInv'
<1> USE DEF RecvDropped, SendDropped, SendKills
<1>1. /\ spc \in {"size", "body"} /\ spc' \in {"close", "killed"}
      /\ UNCHANGED <<pcc_total, client, served, output, cpc, backlog, reply>>
  BY DEF clientVars, networkVars
<1>2. TypeOK'
  BY DEF IInv, TypeOK, clientVars, networkVars
<1>3. QueueSound' /\ ClientSound'
  BY <1>1, QueueKept DEF Busy
<1>4. CountSound' /\ CountsExact'
  BY <1>1 DEF IInv, CountSound, CountsExact
<1>5. TotalSound'
  BY <1>1, TotalKept
<1> QED BY <1>2, <1>3, <1>4, <1>5 DEF IInv

LEMMA SendCountKeeps == ASSUME IInv, SendCount PROVE IInv'
<1> USE DEF SendCount
<1>1. /\ client \in Clients /\ N(client) \in Nat /\ client \notin served
      /\ got + file_size = N(client) /\ got \in Nat /\ file_size = 0
      /\ printable_count = Printable(Content[client], 1, got)
      /\ output = NULL /\ served \subseteq Clients
  BY BusyFacts DEF Busy, IInv, TypeOK, ClientSound, CountSound, TotalSound, ServerUp
<1>2. got = N(client)
  BY <1>1
<1>3. TypeOK'
  BY <1>1 DEF IInv, TypeOK, clientVars
<1>4. QueueSound'
  <2>1. /\ \A i \in 1..Len(backlog) : backlog[i] # client
        /\ cpc[client] # "start"
    BY DEF IInv, ClientSound, Busy
  <2> QED BY <2>1 DEF IInv, QueueSound, clientVars
<1>5. ClientSound'
  BY DEF IInv, ClientSound, Busy, clientVars
<1>6. CountSound'
  BY DEF IInv, CountSound
<1>7. CountsExact'
  <2>1. printable_count = Cardinality({j \in 1..N(client) : Content[client][j] \in Chars})
    BY <1>1, <1>2 DEF Printable
  <2>2. \A c \in Clients : c # client => reply'[c] = reply[c]
    BY <1>1 DEF IInv, TypeOK
  <2>3. reply'[client] = printable_count
    BY <1>1 DEF IInv, TypeOK
  <2> QED BY <2>1, <2>2, <2>3 DEF IInv, CountsExact
<1>8. TotalSound'
  <2>1. served' \ {client} = served /\ served' = served \cup {client}
    BY <1>1
  <2>2. \A k \in Chars : IsFiniteSet(AllBytes(served, k)) /\ pcc_total[k] = Seen(served, k)
    BY DEF IInv, TotalSound
  <2>3. \A k \in Chars : IsFiniteSet(AllBytes(served', k))
    BY <1>1, <2>1, <2>2, SeenAdds
  <2>4. \A k \in Chars : pcc_total[k] = Seen(served' \ {client}, k) /\ ~(k < 1)
    BY <2>1, <2>2 DEF Chars
  <2>5. Between(pcc_total, served', client)
    <3> SUFFICES ASSUME NEW k \in Chars
                 PROVE  pcc_total[k] \in Seen(served' \ {client}, k)..Seen(served', k)
      BY DEF Between
    <3>1. /\ Seen(served', k) \in Nat /\ Seen(served' \ {client}, k) \in Nat
          /\ Seen(served' \ {client}, k) <= Seen(served', k)
      BY <2>3, SeenMonotone
    <3> QED BY <2>4, <3>1
  <2> QED BY <1>1, <2>3, <2>4, <2>5 DEF TotalSound
<1> QED BY <1>3, <1>4, <1>5, <1>6, <1>7, <1>8 DEF IInv

LEMMA UpdateKeeps == ASSUME IInv, Update PROVE IInv'
<1> USE DEF Update
<1>1. /\ client \in Clients /\ N(client) \in Nat /\ client \in served /\ output = NULL
      /\ got = N(client) /\ next \in 1..NUM_PRINTABLE_CHARS + 1
      /\ \A k \in Chars : local[k] = Occurs(Content[client], 1, N(client), k)
      /\ \A k \in Chars : pcc_total[k] = IF k < next THEN Seen(served, k)
                                         ELSE Seen(served \ {client}, k)
      /\ \A k \in Chars : IsFiniteSet(AllBytes(served, k))
  <2>1. got + file_size = N(client) /\ file_size = 0 /\ got \in Nat
    BY DEF IInv, TypeOK, CountSound
  <2>2. got = N(client)
    BY <2>1
  <2> QED BY <2>2, BusyFacts DEF Busy, IInv, TypeOK, ClientSound, CountSound, TotalSound, ServerUp
<1>2. CASE next <= NUM_PRINTABLE_CHARS
  <2>1. /\ pcc_total' = [pcc_total EXCEPT ![next] = @ + local[next]] /\ next' = next + 1
        /\ UNCHANGED <<spc, client, file_size, got, local, printable_count, output, served,
                       backlog, cpc, announced, sent, status, shown, peer, reply>>
        /\ next \in Chars
    BY <1>1, <1>2 DEF clientVars, networkVars, Chars
  <2>2. next' \in 1..NUM_PRINTABLE_CHARS + 1
    BY <1>1, <1>2, <2>1
  <2>3. TypeOK'
    BY <2>1, <2>2 DEF IInv, TypeOK
  <2>4. QueueSound' /\ ClientSound'
    BY <2>1, QueueKept DEF Busy
  <2>5. CountSound' /\ CountsExact'
    BY <2>1 DEF IInv, CountSound, CountsExact
  <2>6. Seen(served, next)
          = Seen(served \ {client}, next) + Occurs(Content[client], 1, N(client), next)
    <3>1. IsFiniteSet(AllBytes(served \ {client}, next))
      BY <1>1, <2>1, SeenMonotone
    <3>2. (served \ {client}) \cup {client} = served /\ client \notin served \ {client}
      BY <1>1
    <3>3. PICK C : C = served \ {client}
      OBVIOUS
    <3> QED BY <1>1, <3>1, <3>2, <3>3, SeenAdds
  <2>7. \A k \in Chars : pcc_total'[k] = IF k < next' THEN Seen(served, k)
                                         ELSE Seen(served \ {client}, k)
    <3> SUFFICES ASSUME NEW k \in Chars
                 PROVE  pcc_total'[k] = IF k < next' THEN Seen(served, k)
                                        ELSE Seen(served \ {client}, k)
      OBVIOUS
    <3>0. pcc_total \in [Chars -> Nat] /\ k \in Nat /\ next \in Nat
      BY <1>1 DEF IInv, TypeOK, Chars
    <3>1. CASE k = next
      <4>1. pcc_total'[k] = pcc_total[next] + local[next] /\ k < next'
        BY <2>1, <3>0, <3>1
      <4>2. pcc_total[next] = Seen(served \ {client}, next)
        BY <1>1, <2>1, <3>0
      <4> QED BY <1>1, <2>1, <2>6, <3>1, <4>1, <4>2
    <3>2. CASE k # next
      <4>1. pcc_total'[k] = pcc_total[k] /\ (k < next' <=> k < next)
        BY <2>1, <3>0, <3>2
      <4> QED BY <1>1, <4>1
    <3> QED BY <3>1, <3>2
  <2>8. Between(pcc_total', served, client)
    <3> SUFFICES ASSUME NEW k \in Chars
                 PROVE  pcc_total'[k] \in Seen(served \ {client}, k)..Seen(served, k)
      BY DEF Between
    <3>1. /\ Seen(served, k) \in Nat /\ Seen(served \ {client}, k) \in Nat
          /\ Seen(served \ {client}, k) <= Seen(served, k)
      BY <1>1, SeenMonotone
    <3> QED BY <2>7, <3>1
  <2>9. TotalSound'
    BY <1>1, <2>1, <2>7, <2>8 DEF TotalSound
  <2> QED BY <2>3, <2>4, <2>5, <2>9 DEF IInv
<1>3. CASE ~(next <= NUM_PRINTABLE_CHARS)
  <2>1. /\ spc' = "close"
        /\ UNCHANGED <<pcc_total, next, client, file_size, got, local, printable_count, output,
                       served, backlog, cpc, announced, sent, status, shown, peer, reply>>
    BY <1>3 DEF clientVars, networkVars
  <2>2. TypeOK'
    BY <2>1 DEF IInv, TypeOK
  <2>3. QueueSound' /\ ClientSound'
    BY <2>1, QueueKept DEF Busy
  <2>4. CountSound' /\ CountsExact'
    BY <2>1 DEF IInv, CountSound, CountsExact
  <2>5. \A k \in Chars : k < next
    BY <1>1, <1>3 DEF Chars
  <2>6. TotalSound'
    BY <1>1, <2>1, <2>5 DEF IInv, TotalSound, Between
  <2> QED BY <2>2, <2>3, <2>4, <2>6 DEF IInv
<1> QED BY <1>2, <1>3

LEMMA CloseKeeps == ASSUME IInv, Close PROVE IInv'
<1> USE DEF Close
<1>1. TypeOK'
  BY DEF IInv, TypeOK, clientVars
<1>2. QueueSound' /\ ClientSound' /\ CountSound' /\ CountsExact'
  BY DEF IInv, QueueSound, ClientSound, CountSound, CountsExact, Busy, clientVars
<1>3. TotalSound'
  <2>1. /\ \A k \in Chars : IsFiniteSet(AllBytes(served, k)) /\ pcc_total[k] = Seen(served, k)
        /\ output = NULL
    BY DEF IInv, TotalSound, ServerUp
  <2>2. Between(pcc_total, served, client')
    BY <2>1, ExactIsBetween
  <2> QED BY <2>1, <2>2 DEF TotalSound, Between
<1> QED BY <1>1, <1>2, <1>3 DEF IInv

LEMMA SigintKeeps == ASSUME IInv, handle_sigint PROVE IInv'
<1> USE DEF handle_sigint
<1>1. TypeOK'
  BY DEF IInv, TypeOK, clientVars, networkVars
<1>2. QueueSound' /\ ClientSound' /\ CountSound' /\ CountsExact'
  BY DEF IInv, QueueSound, ClientSound, CountSound, CountsExact, Busy, clientVars, networkVars
<1>3. TotalSound'
  BY DEF IInv, TotalSound, Between, ServerUp
<1> QED BY <1>1, <1>2, <1>3 DEF IInv

LEMMA NextIInv == ASSUME IInv, [Next]_vars PROVE IInv'
<1>1. CASE ServerStep
  BY <1>1, AcceptKeeps, RecvSizeKeeps, RecvBodyKeeps, DropKeeps, SendCountKeeps, UpdateKeeps,
     CloseKeeps DEF ServerStep
<1>2. CASE handle_sigint
  BY <1>2, SigintKeeps
<1>3. CASE \E c \in Clients : ClientStep(c) \/ Killed(c)
  BY <1>3, ClientKeeps
<1>4. CASE UNCHANGED vars
  <2>1. UNCHANGED serverVars /\ UNCHANGED <<backlog, cpc, reply>>
    BY <1>4 DEF vars, clientVars
  <2>2. QueueSound' /\ ClientSound' /\ CountSound' /\ TotalSound' /\ CountsExact'
    BY <2>1, ServerSame, QueueSame DEF IInv, CountsExact
  <2>3. TypeOK'
    BY <1>4 DEF IInv, TypeOK, vars, serverVars, clientVars
  <2> QED BY <2>2, <2>3 DEF IInv
<1> QED BY <1>1, <1>2, <1>3, <1>4 DEF Next

LEMMA Invariance == Spec => []IInv
  BY InitIInv, NextIInv, PTL DEF Spec

LEMMA IInvTotals == IInv => TotalsExact
  BY DEF IInv, TotalSound, Between, TotalsExact

\* The counters, the buffers' bookkeeping and the connections keep their types,
\* and the loop over pcc_total stays inside it (pcc_server.c:49-78).
THEOREM TypeCorrect == Spec => []TypeOK
  BY Invariance, PTL DEF IInv

\* Every count sent to a client is the number of printable bytes among those it
\* announced, however recv and send cut the stream up (pcc_server.c:49-75).
THEOREM CountsAreExact == Spec => []CountsExact
  BY Invariance, PTL DEF IInv

\* pcc_total, and the statistics SIGINT prints at any instant, hold exactly the
\* bytes of the clients answered, the last of which may be added in part
\* (pcc_server.c:19-24, 69-78).
THEOREM TotalsAreExact == Spec => []TotalsExact
  BY Invariance, IInvTotals, PTL
=============================================================================
