---------------------------- MODULE MCSlotClients ----------------------------
(* Processes for SlotClients.                                              *)
EXTENDS SlotClients

CONSTANTS a, b, s1, s2, r1, r2

SomeInputs == {<<>>, <<a>>, <<b, b>>}

Run(prog, minor, id, msg) ==
    [prog |-> prog, minor |-> minor, id |-> id, msg |-> msg]

\* Two senders and a reader on one channel, and a reader of the channel of the
\* other minor with the same id.
FourProcesses == [p \in Files |->
    CASE p = s1 -> Run("sender", 0, 1, <<a>>)
      [] p = s2 -> Run("sender", 0, 1, <<b, b>>)
      [] p = r1 -> Run("reader", 0, 1, <<>>)
      [] p = r2 -> Run("reader", 1, 1, <<>>)]
=============================================================================
