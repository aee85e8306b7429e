-------------------------- MODULE OutboxInvariants --------------------------
(***************************************************************************)
(* What the publishing of the outbox promises, over the state of           *)
(* OutboxPublisher.                                                        *)
(***************************************************************************)
EXTENDS OutboxPublisher

\* Where an event is in a sequence: an event the queue took twice is at two places.
Places(e, s) == {i \in 1..Len(s) : s[i] = e}
Copies(e) == Cardinality(Places(e, queue[AggregateOf[e]]))

\* An event marked published has been taken by the queue, whichever publishers sent it,
\* failed, were overtaken or came back (publish_outbox_events.go).
PublishedMeansSent == \A e \in Events : row[e].published => Appended(e) /\ Sent(e)

\* Every extra copy of an event in the queue is paid for by a failure or a lease that ran
\* out too early: publishers that merely compete for the outbox never send it twice.
DuplicatesAreExplained == \A e \in Events : Copies(e) <= 1 + failures

\* A publisher loses its lease on a row only by a step of its own or by time: what a
\* publisher that was overtaken marks has no effect on the one that took over.
HolderDecides ==
  [][\A e \in Events, p \in Publishers :
       (row[e].lockedBy = p /\ ~row[e].expired /\ row'[e].lockedBy # p) =>
         <<pc'[p], batch'[p]>> # <<pc[p], batch[p]>>]_vars

\* A row marked published is never leased, rescheduled or marked again, although
\* publishers that were overtaken may still be sending the event.
PublishedIsFinal == [][\A e \in Events : row[e].published => row'[e] = row[e]]_vars

Place(e, s) == CHOOSE i \in 1..Len(s) : s[i] = e /\ \A j \in 1..(i - 1) : s[j] # e

\* Whether an event was committed before another of its aggregate.
Precedes(f, e) ==
  LET a == AggregateOf[e]
  IN  Within(f, outbox[a]) /\ Within(e, outbox[a]) /\ Place(f, outbox[a]) < Place(e, outbox[a])

\* "eventos da MESMA carteira/transacao cheguem em ordem" (event_publisher.go:15-17): the
\* queue takes an event after all those of its aggregate that were committed before it.
SentInOrder ==
  \A e, f \in Events : (Sent(e) /\ Precedes(f, e)) =>
    Sent(f) /\ Place(f, queue[AggregateOf[e]]) < Place(e, queue[AggregateOf[e]])

\* As long as nothing fails, an event is overtaken by one of its aggregate that was stamped
\* in a later millisecond only if two publishers are sending the two at once: one publisher
\* keeps the order, and so do several whose claims do not split an aggregate
\* (outbox_publisher_repository_postgres.go:62).  Within a millisecond nothing orders them.
OvertakenOnlyByRival ==
  [][\A e, f \in Events :
       ( /\ failures = 0
         /\ Precedes(f, e)
         /\ OccurredAt[f] < OccurredAt[e]
         /\ ~Sent(f) /\ ~Sent(e) /\ Sent(e)' ) =>
         \E p, q \in Publishers : p # q /\ AtWorkOn(p, e) /\ AtWorkOn(q, f)]_vars

\* The outbox delivers: the abstract specification, liveness included.
Delivery == INSTANCE EventDelivery WITH
  state <- [e \in Events |-> IF row[e].published THEN "confirmed"
                             ELSE IF Appended(e) THEN "pending" ELSE "unborn"],
  copies <- [e \in Events |-> Copies(e)]
DeliversAtLeastOnce == Delivery!LiveSpec
=============================================================================
