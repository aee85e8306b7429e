------------------------- MODULE ConsumerInvariants -------------------------
(***************************************************************************)
(* What the consumers of the queue promise, over the state of              *)
(* WagerConsumer.                                                          *)
(***************************************************************************)
EXTENDS WagerConsumer

HasOutcome(m) == m \in processed \cup dlq

\* A message leaves the queue only once its operation is committed or the dead-letter
\* queue has it, whatever fails between the commit, the SendMessage and the DeleteMessage
\* (sqs_wager_consumer.go, handle).
NothingIsLost == \A m \in gone : HasOutcome(m)

\* An operation that can be processed is dead-lettered only by as many failures as the
\* redrive policy allows receptions: the code never takes a transient error for a
\* permanent one, and no batch costs a message two receptions.
DeadOnlyIfExhausted ==
  \A m \in dlq : Verdict[m] = "good" => failures >= MaxReceiveCount

\* A message is processed before an earlier one of its group has its outcome only if some
\* consumer left the earlier one in the queue after handling it: neither competing consumers nor messages
\* that reappear too early change the order.
OvertakenOnlyAfterFailure ==
  \A m, n \in Messages :
    (Precedes(m, n) /\ n \in processed /\ ~HasOutcome(m)) => m \in troubled

\* Every message leaves the queue in the end: one that can never be processed, or makes
\* every attempt fail, does not hold up its group for ever.
EveryMessageEnds == \A m \in Messages : Sent(m) ~> m \in gone
=============================================================================
