----------------------------- MODULE PccService ------------------------------
(***************************************************************************)
(* The printable characters counting server of hw5/pcc_server.c and its    *)
(* clients, hw5/pcc_client.c.  The server handles one connection at a      *)
(* time; a client may be killed and a connection reset at any moment, a    *)
(* recv may return less than was asked for, and SIGINT may arrive between  *)
(* any two steps of the server.                                            *)
(*                                                                         *)
(* A byte is 0 when it is not printable and the index of its counter       *)
(* otherwise.  The stream from a client is its file; sent and got count    *)
(* the bytes that have gone in and come out of it.                         *)
(***************************************************************************)
EXTENDS Naturals, Sequences, FiniteSets

CONSTANTS Clients,
          Content,               \* Content[c]: the bytes client c reads from its file
          FileSize,              \* FileSize[c]: its size when lseek asked for it
          NUM_PRINTABLE_CHARS, BUFFER_SIZE, BACKLOG,
          UINT_MOD,              \* 2^32, the width of the size on the wire
          NULL, Garbage,         \* Garbage: an uninitialized integer
          Events                 \* which of the events below may happen

ASSUME PccAssumption ==
    /\ NUM_PRINTABLE_CHARS \in Nat \ {0} /\ BUFFER_SIZE \in Nat \ {0} /\ BACKLOG \in Nat \ {0}
    /\ Content \in [Clients -> Seq(0..NUM_PRINTABLE_CHARS)]
    /\ UINT_MOD \in Nat \ {0}
    \* a file may grow while it is sent; it does not shrink
    /\ FileSize \in [Clients -> Nat] /\ \A c \in Clients : FileSize[c] <= Len(Content[c])
    /\ Events \subseteq {"sigint", "error", "killed", "reset", "epipe"}

VARIABLES
    pcc_total,      \* the global counters
    spc,            \* the server's control state
    client,         \* the client behind client_fd
    file_size,      \* bytes still to be received, as the client announced them
    got,            \* bytes received so far
    local,          \* printable_chars_local
    printable_count,
    next,           \* the index of the loop that updates pcc_total
    output,         \* the statistics handle_sigint printed, or NULL
    backlog,        \* connections that wait in the listen queue
    cpc, announced, \* each client's control state, and whether it sent N
    sent,           \* the bytes of its file it sent
    status, shown,  \* its exit value, and the count it printed
    peer,           \* peer[c]: the connection as the server sees c's end of it
    reply,          \* reply[c]: the count sent to c, or NULL
    served          \* history: the clients whose count was sent

serverVars ==
    <<pcc_total, spc, client, file_size, got, local, printable_count, next, output, served>>
clientVars == <<cpc, announced, sent, status, shown>>
vars == <<serverVars, clientVars, backlog, peer, reply>>

Chars == 1..NUM_PRINTABLE_CHARS

Init ==
    /\ pcc_total = [k \in Chars |-> 0]
    /\ spc = "accept" /\ client = NULL
    /\ file_size = 0 /\ got = 0 /\ local = [k \in Chars |-> 0] /\ printable_count = 0
    /\ next = 1 /\ output = NULL /\ served = {}
    /\ backlog = <<>>
    /\ cpc = [c \in Clients |-> "start"] /\ sent = [c \in Clients |-> 0]
    /\ announced = [c \in Clients |-> FALSE]
    /\ status = [c \in Clients |-> "run"] /\ shown = [c \in Clients |-> NULL]
    /\ peer = [c \in Clients |-> "none"] /\ reply = [c \in Clients |-> NULL]

ServerUp == spc \notin {"exited", "killed"}

\* The size client c announces.
N(c) == FileSize[c] % UINT_MOD

\* How often byte k occurs in bytes m..n of s.
Occurs(s, m, n, k) == Cardinality({j \in m..n : s[j] = k})
-----------------------------------------------------------------------------
(* The client.                                                             *)

Exit(c, v) ==
    /\ cpc' = [cpc EXCEPT ![c] = "done"]
    /\ status' = [status EXCEPT ![c] = v]

\* Arguments, file, socket and address; then connect, which waits while the
\* listen queue is full.
Connect(c) ==
    /\ cpc[c] = "start"
    /\ ServerUp /\ Len(backlog) < BACKLOG
    /\ backlog' = Append(backlog, c)
    /\ peer' = [peer EXCEPT ![c] = "open"]
    /\ cpc' = [cpc EXCEPT ![c] = "size"]
    /\ UNCHANGED <<serverVars, announced, sent, status, shown, reply>>

ConnectFails(c) ==
    /\ cpc[c] = "start"
    /\ ~ServerUp \/ "error" \in Events
    /\ Exit(c, "1")
    /\ UNCHANGED <<serverVars, announced, sent, shown, backlog, peer, reply>>

\* The server has closed its end.
Lost(c) == peer[c] = "closed" \/ ~ServerUp

SendSize(c) ==
    /\ cpc[c] = "size"
    /\ announced' = [announced EXCEPT ![c] = TRUE]
    /\ cpc' = [cpc EXCEPT ![c] = "body"]
    /\ UNCHANGED <<serverVars, sent, status, shown, backlog, peer, reply>>

\* One send of the loop; how much it takes is up to the socket.
SendBody(c) ==
    /\ cpc[c] = "body"
    /\ \E n \in 1..BUFFER_SIZE :
          /\ sent[c] + n <= Len(Content[c])
          /\ sent' = [sent EXCEPT ![c] = @ + n]
    /\ UNCHANGED <<serverVars, announced, cpc, status, shown, backlog, peer, reply>>

SendEnd(c) ==
    /\ cpc[c] = "body" /\ sent[c] = Len(Content[c])
    /\ cpc' = [cpc EXCEPT ![c] = "recv"]
    /\ UNCHANGED <<serverVars, announced, sent, status, shown, backlog, peer, reply>>

\* send on a connection the server has left fails, or SIGPIPE ends the client;
\* reading the file may fail at any time.  The exit closes the connection.
SendFails(c) ==
    /\ cpc[c] \in {"size", "body"}
    /\ \/ Lost(c) /\ \E v \in {"1", "sigpipe"} : Exit(c, v)
       \/ "error" \in Events /\ Exit(c, "1")
    /\ peer' = [peer EXCEPT ![c] = IF @ = "open" THEN "fin" ELSE @]
    /\ UNCHANGED <<serverVars, announced, sent, shown, backlog, reply>>

Recv(c) ==
    /\ cpc[c] = "recv" /\ reply[c] # NULL
    /\ shown' = [shown EXCEPT ![c] = reply[c]]
    /\ Exit(c, "0")
    /\ peer' = [peer EXCEPT ![c] = IF @ = "open" THEN "fin" ELSE @]
    /\ UNCHANGED <<serverVars, announced, sent, backlog, reply>>

\* recv returns 0, which is not < 0: the client prints what was on its stack.
RecvEnd(c) ==
    /\ cpc[c] = "recv" /\ reply[c] = NULL /\ Lost(c)
    /\ shown' = [shown EXCEPT ![c] = Garbage]
    /\ Exit(c, "0")
    /\ UNCHANGED <<serverVars, announced, sent, backlog, peer, reply>>

\* recv fails on a reset connection: the server is gone, or it closed before it
\* had read all that was sent, and a count on its way is lost.
RecvFails(c) ==
    /\ cpc[c] = "recv" /\ Lost(c)
    /\ reply[c] = NULL \/ sent[c] > N(c)
    /\ Exit(c, "1")
    /\ UNCHANGED <<serverVars, announced, sent, shown, backlog, peer, reply>>

\* The client is killed: its end is closed, or reset by its kernel.
Killed(c) ==
    /\ cpc[c] \in {"size", "body", "recv"}
    /\ \/ "killed" \in Events /\ peer' = [peer EXCEPT ![c] = IF @ = "open" THEN "fin" ELSE @]
       \/ "reset" \in Events /\ peer' = [peer EXCEPT ![c] = IF @ = "open" THEN "rst" ELSE @]
    /\ Exit(c, "killed")
    /\ UNCHANGED <<serverVars, announced, sent, shown, backlog, reply>>

ClientStep(c) ==
    \/ Connect(c) \/ ConnectFails(c) \/ SendSize(c) \/ SendBody(c) \/ SendEnd(c)
    \/ SendFails(c) \/ Recv(c) \/ RecvEnd(c) \/ RecvFails(c)
-----------------------------------------------------------------------------
(* The server.                                                             *)

networkVars == <<backlog, peer, reply>>

Accept ==
    /\ spc = "accept" /\ backlog # <<>>
    /\ client' = Head(backlog)
    /\ backlog' = Tail(backlog)
    /\ spc' = "size"
    /\ UNCHANGED <<pcc_total, file_size, got, local, printable_count, next, output, served,
                   clientVars, peer, reply>>

RecvSize ==
    /\ spc = "size" /\ announced[client]
    /\ file_size' = N(client)
    /\ got' = 0 /\ printable_count' = 0 /\ local' = [k \in Chars |-> 0]
    /\ spc' = "body"
    /\ UNCHANGED <<pcc_total, client, next, output, served, clientVars, networkVars>>

\* Mutant of RecvBody: what was asked for is subtracted, not what arrived.
RecvAssumedWhole ==
    /\ spc = "body" /\ file_size > 0
    /\ \E n \in 1..BUFFER_SIZE :
          /\ n <= file_size /\ got + n <= sent[client]
          /\ got' = got + n
          /\ file_size' = file_size - BUFFER_SIZE
          /\ local' = [k \in Chars |-> local[k] + Occurs(Content[client], got + 1, got + n, k)]
          /\ printable_count' =
                printable_count
                    + Cardinality({j \in got + 1..got + n : Content[client][j] \in Chars})
    /\ UNCHANGED <<pcc_total, spc, client, next, output, served, clientVars, networkVars>>

\* One recv of the loop, and the counting of the bytes it brought.
RecvBody ==
    /\ spc = "body" /\ file_size > 0
    /\ \E n \in 1..BUFFER_SIZE :
          /\ n <= file_size /\ got + n <= sent[client]
          /\ got' = got + n
          /\ file_size' = file_size - n
          /\ local' = [k \in Chars |-> local[k] + Occurs(Content[client], got + 1, got + n, k)]
          /\ printable_count' =
                printable_count
                    + Cardinality({j \in got + 1..got + n : Content[client][j] \in Chars})
    /\ UNCHANGED <<pcc_total, spc, client, next, output, served, clientVars, networkVars>>

\* Mutant of Ended: recv returning 0 is not taken for the end.
EndedByReset(drained) == peer[client] = "rst"

Ended(drained) == (peer[client] = "fin" /\ drained) \/ peer[client] = "rst"

\* recv returns 0 once the client's end is closed and all its bytes are read,
\* or an error once it was reset: the connection is dropped.
RecvDropped ==
    /\ \/ spc = "size" /\ Ended(~announced[client])
       \/ spc = "body" /\ file_size > 0 /\ Ended(got = sent[client])
    /\ spc' = "close"
    /\ UNCHANGED <<pcc_total, client, file_size, got, local, printable_count, next, output,
                   served, clientVars, networkVars>>

\* send works while the peer's end is not reset, even when nobody reads it.
SendCount ==
    /\ spc = "body" /\ file_size = 0
    /\ peer[client] # "rst"
    /\ reply' = [reply EXCEPT ![client] = printable_count]
    /\ served' = served \cup {client}
    /\ next' = 1
    /\ spc' = "update"
    /\ UNCHANGED <<pcc_total, client, file_size, got, local, printable_count, output,
                   clientVars, backlog, peer>>

\* Mutant of SendDropped: the counts are added although the send failed.
CountDropped ==
    /\ spc = "body" /\ file_size = 0
    /\ peer[client] = "rst"
    /\ next' = 1
    /\ spc' = "update"
    /\ UNCHANGED <<pcc_total, client, file_size, got, local, printable_count, output,
                   served, clientVars, networkVars>>

\* The connection was reset: send returns ECONNRESET and the client is dropped.
SendDropped ==
    /\ spc = "body" /\ file_size = 0
    /\ peer[client] = "rst"
    /\ spc' = "close"
    /\ UNCHANGED <<pcc_total, client, file_size, got, local, printable_count, next, output,
                   served, clientVars, networkVars>>

\* When send would return EPIPE, SIGPIPE comes first and ends the server.
SendKills ==
    /\ "epipe" \in Events
    /\ spc = "body" /\ file_size = 0
    /\ peer[client] = "rst"
    /\ spc' = "killed"
    /\ UNCHANGED <<pcc_total, client, file_size, got, local, printable_count, next, output,
                   served, clientVars, networkVars>>

\* One turn of the loop over pcc_total.
Update ==
    /\ spc = "update"
    /\ IF next <= NUM_PRINTABLE_CHARS
       THEN /\ pcc_total' = [pcc_total EXCEPT ![next] = @ + local[next]]
            /\ next' = next + 1
            /\ UNCHANGED spc
       ELSE spc' = "close" /\ UNCHANGED <<pcc_total, next>>
    /\ UNCHANGED <<client, file_size, got, local, printable_count, output, served,
                   clientVars, networkVars>>

Close ==
    /\ spc = "close"
    /\ peer' = [peer EXCEPT ![client] = "closed"]
    /\ client' = NULL
    /\ spc' = "accept"
    /\ UNCHANGED <<pcc_total, file_size, got, local, printable_count, next, output, served,
                   clientVars, backlog, reply>>

\* The handler runs between any two steps, prints the statistics and exits.
handle_sigint ==
    /\ "sigint" \in Events /\ ServerUp
    /\ output' = pcc_total
    /\ spc' = "exited"
    /\ UNCHANGED <<pcc_total, client, file_size, got, local, printable_count, next, served,
                   clientVars, networkVars>>

ServerStep ==
    \/ Accept \/ RecvSize \/ RecvBody \/ RecvDropped \/ SendCount \/ SendDropped
    \/ SendKills \/ Update \/ Close

Next ==
    \/ ServerStep \/ handle_sigint
    \/ \E c \in Clients : ClientStep(c) \/ Killed(c)

Spec == Init /\ [][Next]_vars

\* The server and every client that can go on do; nothing makes a client be
\* killed, a connection be reset or SIGINT arrive.
FairSpec == Spec /\ WF_vars(ServerStep) /\ \A c \in Clients : WF_vars(ClientStep(c))
-----------------------------------------------------------------------------
(* Properties.                                                             *)

\* The counters, the server's bookkeeping of one connection and the state of
\* every connection keep their types.
TypeOK ==
    /\ pcc_total \in [Chars -> Nat] /\ local \in [Chars -> Nat]
    /\ spc \in {"accept", "size", "body", "update", "close", "exited", "killed"}
    /\ client \in Clients \cup {NULL}
    /\ file_size \in Nat /\ got \in Nat /\ printable_count \in Nat
    /\ next \in 1..NUM_PRINTABLE_CHARS + 1
    /\ output \in [Chars -> Nat] \cup {NULL}
    /\ backlog \in Seq(Clients) /\ Len(backlog) <= BACKLOG
    /\ cpc \in [Clients -> {"start", "size", "body", "recv", "done"}]
    /\ announced \in [Clients -> BOOLEAN]
    /\ status \in [Clients -> {"run", "0", "1", "sigpipe", "killed"}]
    /\ shown \in [Clients -> Nat \cup {NULL, Garbage}]
    /\ sent \in [Clients -> Nat] /\ \A c \in Clients : sent[c] <= Len(Content[c])
    /\ peer \in [Clients -> {"none", "open", "fin", "rst", "closed"}]
    /\ reply \in [Clients -> Nat \cup {NULL}]
    /\ served \subseteq Clients

\* The bytes with index k among those client c announced, and those the clients
\* in C announced.
BytesOf(c, k) == {c} \X {j \in 1..N(c) : Content[c][j] = k}
AllBytes(C, k) == UNION {BytesOf(c, k) : c \in C}
Seen(C, k) == Cardinality(AllBytes(C, k))

\* The statistics reflect exactly the connections that were answered: all of
\* them when no connection is being processed, and never a byte of one that
\* ended early; so do the statistics SIGINT prints, except that the last client
\* may be counted in part (pcc_server.c:19-24, 49-77).
TotalsExact ==
    \A k \in Chars :
        /\ spc = "accept" => pcc_total[k] = Seen(served, k)
        /\ pcc_total[k] \in Seen(served \ {client}, k)..Seen(served, k)
        /\ output # NULL => output[k] \in Seen(served \ {client}, k)..Seen(served, k)

\* What a client was told is the number of printable bytes among the N it
\* announced, however the two ends cut the stream up and however many bytes
\* follow them (pcc_server.c:49-70, pcc_client.c:60-108).
CountsExact ==
    \A c \in Clients : reply[c] # NULL =>
        reply[c] = Cardinality({j \in 1..N(c) : Content[c][j] \in Chars})

\* Every client comes to its end, killed or not, even when the server goes.
AllClientsEnd == <>[](\A c \in Clients : status[c] # "run")

\* And the server goes back to accept: no client can hold it for ever.
ServerReturns == (spc # "accept") ~> (spc = "accept" \/ ~ServerUp)

\* What the assignment says of the client: it prints the count received, and
\* "on any error condition" exits with code 1.
ClientExitIsHonest == \A c \in Clients : status[c] = "0" => shown[c] # Garbage
=============================================================================
