--------------------------- MODULE OutboxPublisher ---------------------------
(***************************************************************************)
(* The publishing half of the transactional outbox: events committed along *)
(* with the state they tell of, and publishers that lease them in batches, *)
(* send them to a FIFO queue one by one and mark what came of it.          *)
(*                                                                         *)
(* The claim, each call to the queue and each mark are steps of their own; *)
(* no transaction is open between them.  The queue drops an event whose    *)
(* identity it still remembers.                                            *)
(***************************************************************************)
EXTENDS Naturals, Sequences, FiniteSets

CONSTANTS
  Events,          \* outbox rows: an event keeps its id for ever
  Aggregates,      \* wallets and wager transactions
  AggregateOf,     \* the aggregate an event is about
  OccurredAt,      \* the instant stamped on it, in milliseconds
  Publishers,      \* instances of the outbox publisher
  BatchSize,       \* rows one Claim may take
  MaxFailures,     \* bound: failed calls, stops, crashes, leases that run out too early
  Gone,            \* the id of a publisher process that no longer exists
  None

ASSUME OutboxAssumption ==
  /\ IsFiniteSet(Events) /\ IsFiniteSet(Publishers)
  /\ AggregateOf \in [Events -> Aggregates]
  /\ OccurredAt \in [Events -> Nat]
  /\ BatchSize \in Nat \ {0}
  /\ MaxFailures \in Nat
  /\ Gone \notin Publishers \cup {None}
  /\ None \notin Publishers

VARIABLES
  outbox,    \* the events of each aggregate, in commit order
  row,       \* the publishing columns of each event
  pc,        \* the next step of each publisher
  batch,     \* what it has claimed and not dealt with, its current event first
  stopping,  \* its context is cancelled
  queue,     \* the events of each aggregate the queue has taken, in order
  window,    \* the events whose deduplication id the queue remembers
  failures   \* failed calls, stops, crashes, leases that ran out too early

vars == <<outbox, row, pc, batch, stopping, queue, window, failures>>

ColumnSets ==
  [ published : BOOLEAN, due : BOOLEAN, expired : BOOLEAN,
    lockedBy : Publishers \cup {Gone, None} ]
Columns == [published |-> FALSE, due |-> TRUE, expired |-> FALSE, lockedBy |-> None]
PublisherSteps == {"idle", "publish", "mark_published", "mark_failed", "stopped"}

TypeOK ==
  /\ outbox \in [Aggregates -> Seq(Events)]
  /\ row \in [Events -> ColumnSets]
  /\ pc \in [Publishers -> PublisherSteps]
  /\ batch \in [Publishers -> Seq(Events)]
  /\ \A p \in Publishers : batch[p] # <<>> <=> pc[p] \in {"publish", "mark_published", "mark_failed"}
  /\ stopping \in [Publishers -> BOOLEAN]
  /\ queue \in [Aggregates -> Seq(Events)]
  /\ window \subseteq Events
  /\ failures \in Nat

Within(e, s) == \E i \in 1..Len(s) : s[i] = e
Appended(e) == Within(e, outbox[AggregateOf[e]])
Sent(e) == Within(e, queue[AggregateOf[e]])
AtWorkOn(p, e) == Within(e, batch[p])

Fail == failures < MaxFailures /\ failures' = failures + 1

-----------------------------------------------------------------------------
\* A business transaction commits.  It stamps the event while it holds the
\* aggregate's row, so the events of one aggregate are stamped in commit order.
AppendEvent(e) ==
  LET a == AggregateOf[e]
  IN  /\ ~Appended(e)
      /\ \A f \in Events : AggregateOf[f] = a /\ ~Appended(f) => OccurredAt[e] <= OccurredAt[f]
      /\ outbox' = [outbox EXCEPT ![a] = Append(@, e)]
      /\ UNCHANGED <<row, pc, batch, stopping, queue, window, failures>>

\* Mutation: a lease keeps nobody away.
UnpublishedAndDue(e) == Appended(e) /\ ~row[e].published /\ row[e].due
\* Mutation: a lease left behind is never taken over.
NeverLeased(e) ==
  Appended(e) /\ ~row[e].published /\ row[e].due /\ row[e].lockedBy = None
MayClaim(e) ==
  /\ Appended(e)
  /\ ~row[e].published
  /\ row[e].due
  /\ row[e].lockedBy = None \/ row[e].expired

Claimable == {e \in Events : MayClaim(e)}

\* Mutation: the rows come in any order.
BatchesUnordered ==
  LET left == Cardinality(Claimable)
      n == IF left < BatchSize THEN left ELSE BatchSize
  IN  {b \in [1..n -> Claimable] : \A i, j \in 1..n : i < j => b[i] # b[j]}

\* As many due rows as one claim may take, the earliest first.
Batches ==
  LET left == Cardinality(Claimable)
      n == IF left < BatchSize THEN left ELSE BatchSize
  IN  {b \in [1..n -> Claimable] :
         /\ \A i, j \in 1..n : i < j => b[i] # b[j] /\ OccurredAt[b[i]] <= OccurredAt[b[j]]
         /\ \A e \in Claimable : Within(e, b) \/ OccurredAt[b[n]] <= OccurredAt[e]}

Lease(p, b) ==
  row' = [e \in Events |->
    IF Within(e, b) THEN [row[e] EXCEPT !.lockedBy = p, !.expired = FALSE] ELSE row[e]]

\* SELECT ... FOR UPDATE SKIP LOCKED and the UPDATE that leases what it found, in one
\* short transaction.
Claim(p) ==
  /\ pc[p] = "idle"
  /\ ~stopping[p]
  /\ Claimable # {}
  /\ \E b \in Batches : Lease(p, b) /\ batch' = [batch EXCEPT ![p] = b]
  /\ pc' = [pc EXCEPT ![p] = "publish"]
  /\ UNCHANGED <<outbox, stopping, queue, window, failures>>

\* The commit goes through but its answer is lost: leases without a batch.
ClaimUnanswered(p) ==
  /\ pc[p] = "idle"
  /\ ~stopping[p]
  /\ Claimable # {}
  /\ Fail
  /\ \E b \in Batches : Lease(p, b)
  /\ UNCHANGED <<outbox, pc, batch, stopping, queue, window>>

\* A poll that finds nothing to do.
EmptyPoll(p) ==
  /\ pc[p] = "idle"
  /\ ~stopping[p]
  /\ Claimable = {}
  /\ UNCHANGED vars

\* The queue takes an event into its group, unless it remembers the event's id.
Take(e) ==
  LET a == AggregateOf[e]
  IN  /\ queue' = IF e \in window THEN queue ELSE [queue EXCEPT ![a] = Append(@, e)]
      /\ window' = window \cup {e}

Publish(p) ==
  /\ pc[p] = "publish"
  /\ ~stopping[p]
  /\ Take(Head(batch[p]))
  /\ pc' = [pc EXCEPT ![p] = "mark_published"]
  /\ UNCHANGED <<outbox, row, batch, stopping, failures>>

\* The call fails: the queue has taken the event and its answer is lost, or it has not.
PublishFails(p) ==
  /\ pc[p] = "publish"
  /\ ~stopping[p]
  /\ Fail
  /\ Take(Head(batch[p])) \/ UNCHANGED <<queue, window>>
  /\ pc' = [pc EXCEPT ![p] = "mark_failed"]
  /\ UNCHANGED <<outbox, row, batch, stopping>>

\* A cancelled context lets no call out.
PublishCancelled(p) ==
  /\ pc[p] = "publish"
  /\ stopping[p]
  /\ pc' = [pc EXCEPT ![p] = "mark_failed"]
  /\ UNCHANGED <<outbox, row, batch, stopping, queue, window, failures>>

\* Mutation: one event too early.
ProceedTooSoon(p) ==
  /\ batch' = [batch EXCEPT ![p] = Tail(@)]
  /\ pc' = [pc EXCEPT ![p] = IF Len(batch[p]) <= 2 THEN "idle" ELSE "publish"]

\* On to the next event of the batch.
Proceed(p) ==
  /\ batch' = [batch EXCEPT ![p] = Tail(@)]
  /\ pc' = [pc EXCEPT ![p] = IF Len(batch[p]) = 1 THEN "idle" ELSE "publish"]

\* Mutation: whoever marks a row need not be its holder.
MarkUnguarded(p, marked) == row' = [row EXCEPT ![Head(batch[p])] = marked]

\* UPDATE ... WHERE id = $1 AND locked_by = $2: no effect once another has the lease.
Mark(p, marked) ==
  LET e == Head(batch[p])
  IN  row' = IF row[e].lockedBy = p THEN [row EXCEPT ![e] = marked] ELSE row

MarkPublished(p) ==
  /\ pc[p] = "mark_published"
  /\ ~stopping[p]
  /\ Mark(p, [row[Head(batch[p])] EXCEPT !.published = TRUE, !.expired = FALSE, !.lockedBy = None])
  /\ Proceed(p)
  /\ UNCHANGED <<outbox, stopping, queue, window, failures>>

\* Mutation: an event whose call failed is marked published all the same.
MarkFailedAsPublished(p) ==
  /\ pc[p] = "mark_failed"
  /\ ~stopping[p]
  /\ Mark(p, [row[Head(batch[p])] EXCEPT !.published = TRUE, !.expired = FALSE, !.lockedBy = None])
  /\ Proceed(p)
  /\ UNCHANGED <<outbox, stopping, queue, window, failures>>

\* The next attempt waits for the backoff.
MarkFailed(p) ==
  /\ pc[p] = "mark_failed"
  /\ ~stopping[p]
  /\ Mark(p, [row[Head(batch[p])] EXCEPT !.due = FALSE, !.expired = FALSE, !.lockedBy = None])
  /\ Proceed(p)
  /\ UNCHANGED <<outbox, stopping, queue, window, failures>>

\* The UPDATE fails, as it must under a cancelled context: the error is logged, the
\* lease stays.
MarkFails(p) ==
  /\ pc[p] \in {"mark_published", "mark_failed"}
  /\ IF stopping[p] THEN UNCHANGED failures ELSE Fail
  /\ Proceed(p)
  /\ UNCHANGED <<outbox, row, stopping, queue, window>>

-----------------------------------------------------------------------------
\* SIGTERM cancels the one context that the poll, the calls and the marks all use.
Stop(p) ==
  /\ pc[p] # "stopped"
  /\ ~stopping[p]
  /\ Fail
  /\ stopping' = [stopping EXCEPT ![p] = TRUE]
  /\ UNCHANGED <<outbox, row, pc, batch, queue, window>>

Exit(p) ==
  /\ pc[p] = "idle"
  /\ stopping[p]
  /\ pc' = [pc EXCEPT ![p] = "stopped"]
  /\ UNCHANGED <<outbox, row, batch, stopping, queue, window, failures>>

Crash(p) ==
  /\ pc[p] # "stopped"
  /\ Fail
  /\ pc' = [pc EXCEPT ![p] = "stopped"]
  /\ batch' = [batch EXCEPT ![p] = <<>>]
  /\ stopping' = [stopping EXCEPT ![p] = FALSE]
  /\ UNCHANGED <<outbox, row, queue, window>>

\* A new process takes the place of the old one, under an id of its own.
Start(p) ==
  /\ pc[p] = "stopped"
  /\ pc' = [pc EXCEPT ![p] = "idle"]
  /\ stopping' = [stopping EXCEPT ![p] = FALSE]
  /\ row' = [e \in Events |->
       IF row[e].lockedBy = p THEN [row[e] EXCEPT !.lockedBy = Gone] ELSE row[e]]
  /\ UNCHANGED <<outbox, batch, queue, window, failures>>

-----------------------------------------------------------------------------
BackoffElapses(e) ==
  /\ ~row[e].due
  /\ ~row[e].published
  /\ row' = [row EXCEPT ![e].due = TRUE]
  /\ UNCHANGED <<outbox, pc, batch, stopping, queue, window, failures>>

\* locked_at is older than the lock timeout.
LeaseRunsOut(e) ==
  /\ row[e].lockedBy # None
  /\ ~row[e].expired
  /\ row' = [row EXCEPT ![e].expired = TRUE]
  /\ UNCHANGED <<outbox, pc, batch, stopping, queue, window>>

HolderAtWork(e) == \E p \in Publishers : row[e].lockedBy = p /\ AtWorkOn(p, e)

LeaseExpires(e) == LeaseRunsOut(e) /\ ~HolderAtWork(e) /\ UNCHANGED failures

\* The holder is still on its way to the event, or waits for the queue's answer.
LeaseExpiresEarly(e) == LeaseRunsOut(e) /\ HolderAtWork(e) /\ Fail

\* The queue forgets the event's id, five minutes after it first took it.
WindowCloses(e) ==
  /\ e \in window
  /\ window' = window \ {e}
  /\ UNCHANGED <<outbox, row, pc, batch, stopping, queue, failures>>

-----------------------------------------------------------------------------
Init ==
  /\ outbox = [a \in Aggregates |-> <<>>]
  /\ row = [e \in Events |-> Columns]
  /\ pc = [p \in Publishers |-> "idle"]
  /\ batch = [p \in Publishers |-> <<>>]
  /\ stopping = [p \in Publishers |-> FALSE]
  /\ queue = [a \in Aggregates |-> <<>>]
  /\ window = {}
  /\ failures = 0

PublisherStep(p) ==
  \/ Claim(p) \/ Publish(p) \/ PublishCancelled(p)
  \/ MarkPublished(p) \/ MarkFailed(p) \/ (stopping[p] /\ MarkFails(p))
  \/ Exit(p) \/ Start(p)

Next ==
  \/ \E e \in Events : AppendEvent(e) \/ BackoffElapses(e) \/ LeaseExpires(e)
                    \/ LeaseExpiresEarly(e) \/ WindowCloses(e)
  \/ \E p \in Publishers :
       \/ PublisherStep(p) \/ EmptyPoll(p)
       \/ ClaimUnanswered(p) \/ PublishFails(p) \/ MarkFails(p) \/ Stop(p) \/ Crash(p)

Spec == Init /\ [][Next]_vars

\* A publisher that is up polls and works through its batch, one that is down is started
\* again, leases and backoffs run out.  No event has to be appended, and calls need not fail.
Fairness ==
  /\ \A p \in Publishers : WF_vars(PublisherStep(p))
  /\ \A e \in Events : WF_vars(BackoffElapses(e)) /\ WF_vars(LeaseExpires(e))

FairSpec == Spec /\ Fairness
=============================================================================
