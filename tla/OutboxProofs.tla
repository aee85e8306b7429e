---------------------------- MODULE OutboxProofs ----------------------------
(***************************************************************************)
(* Theorems about OutboxPublisher for any events, publishers, batch size   *)
(* and failure bound.                                                      *)
(***************************************************************************)
EXTENDS OutboxInvariants, FiniteSetTheorems, SequenceTheorems, TLAPS

-----------------------------------------------------------------------------
(* The inductive invariant. *)

\* A publisher works on committed events only, and marks published what the queue took.
BatchesOK ==
  \A p \in Publishers :
    /\ \A e \in Events : AtWorkOn(p, e) => Appended(e)
    /\ pc[p] = "mark_published" => Sent(Head(batch[p]))

\* A published row is nobody's: no publisher can mark it again.
PublishedAreReleased == \A e \in Events : row[e].published => row[e].lockedBy = None

\* The queue remembers only what it took.
WindowSent == \A e \in window : Sent(e)

IInv == TypeOK /\ BatchesOK /\ PublishedMeansSent /\ PublishedAreReleased /\ WindowSent

-----------------------------------------------------------------------------
(* Sequences of events. *)

\* A batch that is not empty begins with an event of its own; Tail drops one event.
LEMMA BatchParts ==
  ASSUME NEW s \in Seq(Events), s # <<>>
  PROVE  /\ Head(s) \in Events /\ Within(Head(s), s)
         /\ Tail(s) \in Seq(Events) /\ Tail(s) # s
         /\ Tail(s) = <<>> <=> Len(s) = 1
         /\ \A e \in Events : Within(e, Tail(s)) => Within(e, s)
<1>1. Len(s) \in Nat /\ Len(s) > 0 /\ Head(s) = s[1]
  OBVIOUS
<1>2. Tail(s) \in Seq(Events) /\ Len(Tail(s)) = Len(s) - 1
  BY <1>1
<1>3. \A i \in 1..Len(Tail(s)) : Tail(s)[i] = s[i + 1]
  BY <1>1
<1>4. Tail(s) = <<>> <=> Len(s) = 1
  BY <1>1, <1>2, EmptySeq
<1>5. \A e \in Events : Within(e, Tail(s)) => Within(e, s)
  BY <1>1, <1>2, <1>3 DEF Within
<1>6. Within(Head(s), s)
  <2>1. 1 \in 1..Len(s)
    BY <1>1
  <2> QED
    BY <1>1, <2>1 DEF Within
<1>7. Tail(s) # s
  <2>1. CASE Tail(s) = s
    <3>1. Len(s) = Len(s) - 1
      BY <1>2, <2>1, Zenon
    <3> QED
      BY <1>1, <3>1
  <2> QED
    BY <2>1
<1>8. Head(s) \in Events
  BY <1>1
<1> QED
  BY <1>2, <1>4, <1>5, <1>6, <1>7, <1>8

\* Append keeps what a sequence has and adds one element.
LEMMA AppendParts ==
  ASSUME NEW s \in Seq(Events), NEW e \in Events
  PROVE  /\ Append(s, e) \in Seq(Events)
         /\ Within(e, Append(s, e))
         /\ \A f \in Events : Within(f, s) => Within(f, Append(s, e))
<1>1. /\ Append(s, e) \in Seq(Events) /\ Len(Append(s, e)) = Len(s) + 1
      /\ Len(s) \in Nat /\ Append(s, e)[Len(s) + 1] = e
      /\ \A i \in 1..Len(s) : Append(s, e)[i] = s[i]
  OBVIOUS
<1> QED
  BY <1>1 DEF Within

\* What one claim takes: a sequence, not empty, of rows it may claim.
LEMMA BatchOfClaim ==
  ASSUME OutboxAssumption, Claimable # {}, NEW b \in Batches
  PROVE  /\ b \in Seq(Events) /\ b # <<>>
         /\ \A e \in Events : Within(e, b) => MayClaim(e)
         /\ \A i, j \in 1..Len(b) : i # j => b[i] # b[j]
<1> DEFINE left == Cardinality(Claimable)
           n == IF left < BatchSize THEN left ELSE BatchSize
<1>1. Claimable \subseteq Events /\ IsFiniteSet(Claimable)
  BY FS_Subset DEF Claimable, OutboxAssumption
<1>2. left \in Nat /\ left # 0
  BY <1>1, FS_CardinalityType, FS_EmptySet
<1>3. n \in Nat /\ n # 0
  BY <1>2 DEF OutboxAssumption
<1>4. b \in [1..n -> Claimable] /\ \A i, j \in 1..n : i < j => b[i] # b[j]
  BY DEF Batches
<1> HIDE DEF n
<1>5. b \in Seq(Claimable) /\ Len(b) = n
  BY <1>3, <1>4
<1>6. b \in Seq(Events) /\ b # <<>>
  BY <1>1, <1>3, <1>5
<1>7. ASSUME NEW e \in Events, Within(e, b) PROVE MayClaim(e)
  BY <1>4, <1>5, <1>7 DEF Within, Claimable
<1>8. ASSUME NEW i \in 1..Len(b), NEW j \in 1..Len(b), i # j PROVE b[i] # b[j]
  <2>1. i < j \/ j < i
    BY <1>3, <1>5, <1>8
  <2> QED
    BY <1>4, <1>5, <2>1
<1> QED
  BY <1>6, <1>7, <1>8

-----------------------------------------------------------------------------
(* What the parts of a step keep. *)

\* The queue's groups grow only, and what was passed to Take is in the queue.
LEMMA TakeParts ==
  ASSUME OutboxAssumption, TypeOK, WindowSent, NEW e \in Events, Take(e)
  PROVE  /\ queue' \in [Aggregates -> Seq(Events)]
         /\ window' \subseteq Events
         /\ \A f \in Events : Sent(f) => Sent(f)'
         /\ Sent(e)'
         /\ WindowSent'
<1> DEFINE a == AggregateOf[e]
<1>1. a \in Aggregates /\ queue[a] \in Seq(Events) /\ window \subseteq Events
  BY DEF OutboxAssumption, TypeOK
<1>2. CASE e \in window
  BY <1>1, <1>2 DEF Take, TypeOK, WindowSent, Sent
<1>3. CASE e \notin window
  <2>1. queue' = [queue EXCEPT ![a] = Append(queue[a], e)] /\ window' = window \cup {e}
    BY <1>3 DEF Take
  <2>2. /\ Append(queue[a], e) \in Seq(Events)
        /\ Within(e, Append(queue[a], e))
        /\ \A f \in Events : Within(f, queue[a]) => Within(f, Append(queue[a], e))
    BY <1>1, AppendParts
  <2>3. queue' \in [Aggregates -> Seq(Events)] /\ window' \subseteq Events
    BY <1>1, <2>1, <2>2 DEF TypeOK
  <2>4. queue'[a] = Append(queue[a], e) /\ \A b \in Aggregates \ {a} : queue'[b] = queue[b]
    BY <1>1, <2>1 DEF TypeOK
  <2>5. Sent(e)'
    BY <2>2, <2>4 DEF Sent
  <2>6. ASSUME NEW f \in Events, Sent(f) PROVE Sent(f)'
    <3>1. AggregateOf[f] \in Aggregates /\ Within(f, queue[AggregateOf[f]])
      BY <2>6 DEF OutboxAssumption, Sent
    <3>2. Within(f, queue'[AggregateOf[f]])
      BY <2>2, <2>4, <3>1
    <3> QED
      BY <3>2 DEF Sent
  <2>7. WindowSent'
    BY <1>1, <2>1, <2>5, <2>6 DEF WindowSent
  <2> QED
    BY <2>3, <2>5, <2>6, <2>7
<1> QED
  BY <1>2, <1>3

\* The columns of TypeOK that a publisher's progress changes.
ProgressTypeOK ==
  /\ pc \in [Publishers -> PublisherSteps]
  /\ batch \in [Publishers -> Seq(Events)]
  /\ \A p \in Publishers : batch[p] # <<>> <=> pc[p] \in {"publish", "mark_published", "mark_failed"}

\* Going on to the next event leaves a shorter batch and nothing to mark.
LEMMA ProceedParts ==
  ASSUME TypeOK, NEW p \in Publishers, batch[p] # <<>>, Proceed(p)
  PROVE  /\ ProgressTypeOK'
         /\ batch'[p] # batch[p]
         /\ \A q \in Publishers, e \in Events : AtWorkOn(q, e)' => AtWorkOn(q, e)
         /\ \A q \in Publishers : pc'[q] = "mark_published" => pc'[q] = pc[q] /\ batch'[q] = batch[q]
<1>1. batch[p] \in Seq(Events)
  BY DEF TypeOK
<1>2. /\ batch' = [batch EXCEPT ![p] = Tail(batch[p])]
      /\ pc' = [pc EXCEPT ![p] = IF Len(batch[p]) = 1 THEN "idle" ELSE "publish"]
  BY DEF Proceed
<1>3. /\ Tail(batch[p]) \in Seq(Events) /\ Tail(batch[p]) # batch[p]
      /\ Tail(batch[p]) = <<>> <=> Len(batch[p]) = 1
      /\ \A e \in Events : Within(e, Tail(batch[p])) => Within(e, batch[p])
  BY <1>1, BatchParts
<1>4. /\ batch'[p] = Tail(batch[p])
      /\ pc'[p] = IF Len(batch[p]) = 1 THEN "idle" ELSE "publish"
      /\ \A q \in Publishers \ {p} : batch'[q] = batch[q] /\ pc'[q] = pc[q]
  BY <1>2 DEF TypeOK
<1>5. pc' \in [Publishers -> PublisherSteps] /\ batch' \in [Publishers -> Seq(Events)]
  BY <1>2, <1>3 DEF TypeOK, PublisherSteps
<1>6. \A q \in Publishers : batch'[q] # <<>> <=> pc'[q] \in {"publish", "mark_published", "mark_failed"}
  BY <1>3, <1>4 DEF TypeOK
<1>7. \A q \in Publishers, e \in Events : AtWorkOn(q, e)' => AtWorkOn(q, e)
  BY <1>3, <1>4 DEF AtWorkOn
<1> QED
  BY <1>3, <1>4, <1>5, <1>6, <1>7 DEF ProgressTypeOK

\* A publisher with an event at hand works on that event.
LEMMA HeadParts ==
  ASSUME TypeOK, NEW p \in Publishers, pc[p] \in {"publish", "mark_published", "mark_failed"}
  PROVE  batch[p] # <<>> /\ Head(batch[p]) \in Events /\ AtWorkOn(p, Head(batch[p]))
<1>1. batch[p] \in Seq(Events) /\ batch[p] # <<>>
  BY DEF TypeOK
<1> QED
  BY <1>1, BatchParts DEF AtWorkOn

\* A mark writes the columns of the event at hand, and those only while its lease is held.
LEMMA MarkParts ==
  ASSUME TypeOK, NEW p \in Publishers, NEW marked \in ColumnSets, Head(batch[p]) \in Events,
         Mark(p, marked)
  PROVE  /\ row' \in [Events -> ColumnSets]
         /\ \A e \in Events : row'[e] # row[e] =>
              e = Head(batch[p]) /\ row[e].lockedBy = p /\ row'[e] = marked
BY DEF Mark, TypeOK

\* Leasing takes rows that may be claimed and leaves the others alone.
LEMMA LeaseParts ==
  ASSUME OutboxAssumption, TypeOK, NEW p \in Publishers, Claimable # {}, NEW b \in Batches, Lease(p, b)
  PROVE  /\ row' \in [Events -> ColumnSets]
         /\ \A e \in Events : row'[e].published = row[e].published
         /\ \A e \in Events : row'[e] # row[e] => MayClaim(e)
<1>1. \A e \in Events : Within(e, b) => MayClaim(e)
  BY BatchOfClaim
<1>2. ASSUME NEW e \in Events
      PROVE  /\ row'[e] \in ColumnSets
             /\ row'[e].published = row[e].published
             /\ row'[e] # row[e] => Within(e, b)
  <2>1. row'[e] = IF Within(e, b) THEN [row[e] EXCEPT !.lockedBy = p, !.expired = FALSE] ELSE row[e]
    BY DEF Lease
  <2>2. row[e] \in ColumnSets
    BY DEF TypeOK
  <2> QED
    BY <2>1, <2>2 DEF ColumnSets
<1>3. row' = [e \in Events |-> row'[e]]
  BY DEF Lease
<1> QED
  BY <1>1, <1>2, <1>3

-----------------------------------------------------------------------------
(* Every step keeps the inductive invariant. *)

LEMMA InitIInv == ASSUME OutboxAssumption, Init PROVE IInv
<1>1. TypeOK
  BY DEF Init, TypeOK, Columns, ColumnSets, PublisherSteps
<1>2. \A p \in Publishers, e \in Events : ~AtWorkOn(p, e)
  BY DEF Init, AtWorkOn, Within
<1> QED
  BY <1>1, <1>2 DEF Init, IInv, BatchesOK, PublishedMeansSent, PublishedAreReleased, WindowSent, Columns

LEMMA AppendEventKeeps ==
  ASSUME OutboxAssumption, IInv, NEW e \in Events, AppendEvent(e) PROVE IInv'
<1> DEFINE a == AggregateOf[e]
<1>1. a \in Aggregates /\ outbox[a] \in Seq(Events)
  BY DEF OutboxAssumption, IInv, TypeOK
<1>2. outbox' = [outbox EXCEPT ![a] = Append(outbox[a], e)]
  BY DEF AppendEvent
<1>3. /\ Append(outbox[a], e) \in Seq(Events)
      /\ \A f \in Events : Within(f, outbox[a]) => Within(f, Append(outbox[a], e))
  BY <1>1, AppendParts
<1>4. outbox' \in [Aggregates -> Seq(Events)]
  BY <1>2, <1>3 DEF IInv, TypeOK
<1>5. \A f \in Events : Appended(f) => Appended(f)'
  BY <1>1, <1>2, <1>3 DEF IInv, TypeOK, OutboxAssumption, Appended
<1>6. UNCHANGED <<row, pc, batch, stopping, queue, window, failures>>
  BY DEF AppendEvent
<1>7. TypeOK'
  BY <1>4, <1>6 DEF IInv, TypeOK
<1>8. \A p \in Publishers, f \in Events : AtWorkOn(p, f)' <=> AtWorkOn(p, f)
  BY <1>6 DEF AtWorkOn
<1>9. BatchesOK'
  BY <1>5, <1>6, <1>8 DEF IInv, BatchesOK, Sent
<1> QED
  BY <1>5, <1>6, <1>7, <1>9 DEF IInv, PublishedMeansSent, PublishedAreReleased, WindowSent, Sent

\* The rows change, and what a row says stays true of the events and the queue.
LEMMA RowStepKeeps ==
  ASSUME IInv, UNCHANGED <<outbox, queue, window>>,
         row' \in [Events -> ColumnSets], stopping' \in [Publishers -> BOOLEAN], failures' \in Nat,
         ProgressTypeOK',
         \A p \in Publishers, e \in Events : AtWorkOn(p, e)' => Appended(e),
         \A p \in Publishers : pc'[p] = "mark_published" => Sent(Head(batch'[p])),
         \A e \in Events : row'[e].published =>
            row'[e].lockedBy = None /\ Appended(e) /\ Sent(e)
  PROVE  IInv'
<1>1. TypeOK'
  BY DEF IInv, TypeOK, ProgressTypeOK
<1>2. BatchesOK' /\ PublishedMeansSent' /\ PublishedAreReleased' /\ WindowSent'
  BY DEF IInv, BatchesOK, PublishedMeansSent, PublishedAreReleased, WindowSent, Sent, Appended
<1> QED
  BY <1>1, <1>2 DEF IInv

\* A published row is neither leased nor on its way to being marked.
LEMMA PublishedStays ==
  ASSUME IInv, NEW e \in Events, row[e].published
  PROVE  ~MayClaim(e) /\ Appended(e) /\ Sent(e) /\ row[e].lockedBy = None
BY DEF IInv, MayClaim, PublishedMeansSent, PublishedAreReleased

LEMMA ClaimKeeps ==
  ASSUME OutboxAssumption, IInv, NEW p \in Publishers, Claim(p) \/ ClaimUnanswered(p) PROVE IInv'
<1>1. PICK b \in Batches :
        /\ Lease(p, b)
        /\ \/ batch' = [batch EXCEPT ![p] = b] /\ pc' = [pc EXCEPT ![p] = "publish"]
           \/ UNCHANGED <<pc, batch>>
  BY DEF Claim, ClaimUnanswered
<1>2. b \in Seq(Events) /\ b # <<>> /\ \A e \in Events : Within(e, b) => MayClaim(e)
  BY BatchOfClaim DEF Claim, ClaimUnanswered
<1>3. /\ row' \in [Events -> ColumnSets]
      /\ \A e \in Events : row'[e].published = row[e].published
      /\ \A e \in Events : row'[e] # row[e] => MayClaim(e)
  BY <1>1, LeaseParts DEF Claim, ClaimUnanswered, IInv
<1>4. UNCHANGED <<outbox, queue, window, stopping>> /\ failures' \in Nat
  BY DEF Claim, ClaimUnanswered, Fail, IInv, TypeOK
<1>5. \A e \in Events : row'[e].published => row'[e].lockedBy = None /\ Appended(e) /\ Sent(e)
  BY <1>3, PublishedStays
<1>6. stopping' \in [Publishers -> BOOLEAN]
  BY <1>4 DEF IInv, TypeOK
<1>7. ProgressTypeOK'
  BY ZenonT(30), <1>1, <1>2 DEF ProgressTypeOK, IInv, TypeOK, PublisherSteps
<1>8. \A q \in Publishers, e \in Events : AtWorkOn(q, e)' => Appended(e)
  BY <1>1, <1>2 DEF AtWorkOn, IInv, TypeOK, BatchesOK, MayClaim
<1>9. \A q \in Publishers : pc'[q] = "mark_published" => Sent(Head(batch'[q]))
  BY <1>1 DEF IInv, TypeOK, BatchesOK
<1> QED
  BY <1>3, <1>4, <1>5, <1>6, <1>7, <1>8, <1>9, RowStepKeeps

LEMMA PublishKeeps ==
  ASSUME OutboxAssumption, IInv, NEW p \in Publishers,
         Publish(p) \/ PublishFails(p) \/ PublishCancelled(p)
  PROVE  IInv'
<1>1. TypeOK /\ WindowSent /\ pc[p] = "publish"
  BY DEF IInv, Publish, PublishFails, PublishCancelled
<1>2. batch[p] # <<>> /\ Head(batch[p]) \in Events
  BY <1>1, HeadParts
<1>3. /\ queue' \in [Aggregates -> Seq(Events)] /\ window' \subseteq Events
      /\ \A f \in Events : Sent(f) => Sent(f)'
      /\ WindowSent'
  <2>1. CASE Take(Head(batch[p]))
    BY <1>1, <1>2, <2>1, TakeParts
  <2>2. CASE UNCHANGED <<queue, window>>
    BY <1>1, <2>2 DEF TypeOK, Sent, WindowSent
  <2> QED
    BY <2>1, <2>2 DEF Publish, PublishFails, PublishCancelled
<1>4. UNCHANGED <<outbox, row, batch, stopping>> /\ failures' \in Nat
  BY <1>1 DEF Publish, PublishFails, PublishCancelled, Fail, TypeOK
<1>5. \/ pc' = [pc EXCEPT ![p] = "mark_published"] /\ Take(Head(batch[p]))
      \/ pc' = [pc EXCEPT ![p] = "mark_failed"]
  BY DEF Publish, PublishFails, PublishCancelled
<1>6. TypeOK'
  BY <1>1, <1>2, <1>3, <1>4, <1>5 DEF TypeOK, PublisherSteps
<1>7. BatchesOK'
  <2>1. ASSUME NEW q \in Publishers, NEW e \in Events, AtWorkOn(q, e)' PROVE Appended(e)'
    BY <1>4, <2>1 DEF IInv, BatchesOK, AtWorkOn, Appended
  <2>2. ASSUME NEW q \in Publishers, pc'[q] = "mark_published" PROVE Sent(Head(batch[q]))'
    <3>1. CASE q = p
      BY <1>1, <1>2, <1>4, <1>5, <2>2, <3>1, TakeParts DEF TypeOK, Sent
    <3>2. CASE q # p
      <4>1. pc[q] = "mark_published"
        BY <1>1, <1>5, <2>2, <3>2 DEF TypeOK
      <4>2. Head(batch[q]) \in Events /\ Sent(Head(batch[q]))
        BY <1>1, <4>1, HeadParts DEF IInv, BatchesOK
      <4> QED
        BY <1>3, <1>4, <4>2 DEF Sent
    <3> QED
      BY <3>1, <3>2
  <2> QED
    BY <2>1, <2>2 DEF BatchesOK
<1> QED
  BY <1>3, <1>4, <1>6, <1>7 DEF IInv, PublishedMeansSent, PublishedAreReleased, Appended

LEMMA MarkKeeps ==
  ASSUME OutboxAssumption, IInv, NEW p \in Publishers,
         MarkPublished(p) \/ MarkFailed(p) \/ MarkFails(p)
  PROVE  IInv'
<1> DEFINE e == Head(batch[p])
<1>1. TypeOK /\ pc[p] \in {"mark_published", "mark_failed"} /\ Proceed(p)
  BY DEF IInv, MarkPublished, MarkFailed, MarkFails
<1>2. batch[p] # <<>> /\ e \in Events /\ AtWorkOn(p, e)
  BY <1>1, HeadParts
<1>3. /\ ProgressTypeOK'
      /\ \A q \in Publishers, f \in Events : AtWorkOn(q, f)' => AtWorkOn(q, f)
      /\ \A q \in Publishers : pc'[q] = "mark_published" => pc'[q] = pc[q] /\ batch'[q] = batch[q]
  BY <1>1, <1>2, ProceedParts
<1>4. UNCHANGED <<outbox, queue, window, stopping>> /\ failures' \in Nat
  BY <1>1 DEF MarkPublished, MarkFailed, MarkFails, Fail, TypeOK
<1>5. stopping' \in [Publishers -> BOOLEAN]
  BY <1>1, <1>4 DEF TypeOK
<1>6. \A q \in Publishers, f \in Events : AtWorkOn(q, f)' => Appended(f)
  BY <1>3 DEF IInv, BatchesOK
<1>7. \A q \in Publishers : pc'[q] = "mark_published" => Sent(Head(batch'[q]))
  BY <1>3 DEF IInv, BatchesOK
<1>8. /\ row' \in [Events -> ColumnSets]
      /\ \A f \in Events : row'[f].published => row'[f].lockedBy = None /\ Appended(f) /\ Sent(f)
  <2> DEFINE done == [row[e] EXCEPT !.published = TRUE, !.expired = FALSE, !.lockedBy = None]
             later == [row[e] EXCEPT !.due = FALSE, !.expired = FALSE, !.lockedBy = None]
  <2>1. row[e] \in ColumnSets
    BY <1>1, <1>2 DEF TypeOK
  <2>2. /\ done \in ColumnSets /\ done.lockedBy = None
        /\ later \in ColumnSets /\ later.published = row[e].published
    BY <2>1 DEF ColumnSets
  <2>3. CASE MarkPublished(p)
    <3>1. Mark(p, done)
      BY <2>3 DEF MarkPublished
    <3>2. /\ row' \in [Events -> ColumnSets]
          /\ \A f \in Events : row'[f] # row[f] => f = e /\ row'[f] = done
      BY <1>1, <1>2, <2>2, <3>1, MarkParts
    <3>3. Appended(e) /\ Sent(e)
      BY <1>2, <2>3 DEF MarkPublished, IInv, BatchesOK
    <3> QED
      BY <2>2, <3>2, <3>3, PublishedStays
  <2>4. CASE MarkFailed(p)
    <3>1. Mark(p, later)
      BY <2>4 DEF MarkFailed
    <3>2. /\ row' \in [Events -> ColumnSets]
          /\ \A f \in Events : row'[f] # row[f] => f = e /\ row[f].lockedBy = p /\ row'[f] = later
      BY <1>1, <1>2, <2>2, <3>1, MarkParts
    <3>3. \A f \in Events : row'[f].published => row'[f] = row[f]
      BY <2>2, <3>2, PublishedStays DEF OutboxAssumption
    <3> QED
      BY <3>2, <3>3, PublishedStays
  <2>5. CASE MarkFails(p)
    BY <1>1, <2>5, PublishedStays DEF MarkFails, TypeOK
  <2> QED
    BY <2>3, <2>4, <2>5
<1> QED
  BY <1>3, <1>4, <1>5, <1>6, <1>7, <1>8, RowStepKeeps

\* A publisher stops, exits, crashes or starts: no row is published by it.
LEMMA LifeKeeps ==
  ASSUME OutboxAssumption, IInv, NEW p \in Publishers, Stop(p) \/ Exit(p) \/ Crash(p) \/ Start(p)
  PROVE  IInv'
<1>1. TypeOK /\ UNCHANGED <<outbox, queue, window>>
  BY DEF IInv, Stop, Exit, Crash, Start
<1>2. stopping' \in [Publishers -> BOOLEAN] /\ failures' \in Nat
  <2>1. \/ stopping' = stopping
        \/ stopping' = [stopping EXCEPT ![p] = TRUE]
        \/ stopping' = [stopping EXCEPT ![p] = FALSE]
    BY DEF Stop, Exit, Crash, Start
  <2>2. failures' = failures \/ failures' = failures + 1
    BY DEF Stop, Exit, Crash, Start, Fail
  <2>3. stopping' \in [Publishers -> BOOLEAN]
    BY <1>1, <2>1 DEF TypeOK
  <2>4. failures' \in Nat
    BY <1>1, <2>2 DEF TypeOK
  <2> QED
    BY <2>3, <2>4
<1>3. \/ UNCHANGED <<pc, batch>>
      \/ /\ pc[p] \in {"idle", "stopped"}
         /\ batch' = batch
         /\ pc' = [pc EXCEPT ![p] = "idle"] \/ pc' = [pc EXCEPT ![p] = "stopped"]
      \/ batch' = [batch EXCEPT ![p] = <<>>] /\ pc' = [pc EXCEPT ![p] = "stopped"]
  BY DEF Stop, Exit, Crash, Start
<1>4. ProgressTypeOK'
  <2>1. pc' \in [Publishers -> PublisherSteps]
    BY <1>1, <1>3 DEF TypeOK, PublisherSteps
  <2>2. batch' \in [Publishers -> Seq(Events)]
    <3>1. batch' = batch \/ batch' = [batch EXCEPT ![p] = <<>>]
      BY <1>3
    <3>2. batch \in [Publishers -> Seq(Events)] /\ <<>> \in Seq(Events)
      BY <1>1, EmptySeq DEF TypeOK
    <3> QED
      BY <3>1, <3>2
  <2>3. \A q \in Publishers :
          batch'[q] # <<>> <=> pc'[q] \in {"publish", "mark_published", "mark_failed"}
    BY <1>1, <1>3 DEF TypeOK
  <2> QED
    BY <2>1, <2>2, <2>3 DEF ProgressTypeOK
<1>5. \A q \in Publishers, e \in Events : AtWorkOn(q, e)' => Appended(e)
  <2>1. \A e \in Events : ~Within(e, <<>>)
    BY DEF Within
  <2> QED
    BY ZenonT(30), <1>1, <1>3, <2>1 DEF TypeOK, IInv, BatchesOK, AtWorkOn
<1>6. \A q \in Publishers : pc'[q] = "mark_published" => Sent(Head(batch'[q]))
  BY <1>1, <1>3 DEF TypeOK, IInv, BatchesOK
<1>7. ASSUME NEW e \in Events
      PROVE  /\ row'[e] \in ColumnSets
             /\ row'[e].published = row[e].published
             /\ row[e].lockedBy = None => row'[e] = row[e]
  <2>1. row[e] \in ColumnSets
    BY <1>1 DEF TypeOK
  <2>2. \/ row'[e] = row[e]
        \/ row[e].lockedBy = p /\ row'[e] = [row[e] EXCEPT !.lockedBy = Gone]
    BY <1>1 DEF Stop, Exit, Crash, Start
  <2> QED
    BY <2>1, <2>2 DEF ColumnSets, OutboxAssumption
<1>8. row' \in [Events -> ColumnSets]
  <2>1. row' = [e \in Events |-> row'[e]]
    BY <1>1 DEF Stop, Exit, Crash, Start, TypeOK
  <2> QED
    BY <1>7, <2>1
<1>9. \A e \in Events : row'[e].published => row'[e].lockedBy = None /\ Appended(e) /\ Sent(e)
  BY <1>7, PublishedStays
<1> QED
  BY <1>1, <1>2, <1>4, <1>5, <1>6, <1>8, <1>9, RowStepKeeps

\* Time passes for a row or for the queue.
LEMMA TimeKeeps ==
  ASSUME OutboxAssumption, IInv, NEW e \in Events,
         BackoffElapses(e) \/ LeaseExpires(e) \/ LeaseExpiresEarly(e) \/ WindowCloses(e)
  PROVE  IInv'
<1>1. TypeOK /\ BatchesOK /\ PublishedMeansSent /\ PublishedAreReleased /\ WindowSent
  BY DEF IInv
<1>2. UNCHANGED <<outbox, pc, batch, stopping, queue>> /\ failures' \in Nat
  BY <1>1 DEF BackoffElapses, LeaseExpires, LeaseExpiresEarly, LeaseRunsOut, WindowCloses, Fail, TypeOK
<1>3. window' \subseteq window
  BY DEF BackoffElapses, LeaseExpires, LeaseExpiresEarly, LeaseRunsOut, WindowCloses
<1>4. /\ row' \in [Events -> ColumnSets]
      /\ \A f \in Events : row'[f].published = row[f].published /\ row'[f].lockedBy = row[f].lockedBy
  <2>1. PICK r \in {row[e], [row[e] EXCEPT !.due = TRUE], [row[e] EXCEPT !.expired = TRUE]} :
          row' = [row EXCEPT ![e] = r]
    BY <1>1 DEF BackoffElapses, LeaseExpires, LeaseExpiresEarly, LeaseRunsOut, WindowCloses, TypeOK
  <2>2. row[e] \in ColumnSets
    BY <1>1 DEF TypeOK
  <2>3. r \in ColumnSets /\ r.published = row[e].published /\ r.lockedBy = row[e].lockedBy
    BY <2>2 DEF ColumnSets
  <2> QED
    BY <1>1, <2>1, <2>3 DEF TypeOK
<1>5. \A q \in Publishers, f \in Events : AtWorkOn(q, f)' <=> AtWorkOn(q, f)
  BY <1>2 DEF AtWorkOn
<1>6. TypeOK'
  BY <1>1, <1>2, <1>3, <1>4 DEF TypeOK
<1>7. BatchesOK'
  BY <1>1, <1>2, <1>5 DEF BatchesOK, Sent, Appended
<1> QED
  BY <1>1, <1>2, <1>3, <1>4, <1>6, <1>7
  DEF IInv, PublishedMeansSent, PublishedAreReleased, WindowSent, Sent, Appended

LEMMA NextKeepsIInv == ASSUME OutboxAssumption, IInv, [Next]_vars PROVE IInv'
<1>1. ASSUME NEW e \in Events, AppendEvent(e) PROVE IInv'
  BY <1>1, AppendEventKeeps
<1>2. ASSUME NEW e \in Events,
             BackoffElapses(e) \/ LeaseExpires(e) \/ LeaseExpiresEarly(e) \/ WindowCloses(e)
      PROVE  IInv'
  BY <1>2, TimeKeeps
<1>3. ASSUME NEW p \in Publishers, Claim(p) \/ ClaimUnanswered(p) PROVE IInv'
  BY <1>3, ClaimKeeps
<1>4. ASSUME NEW p \in Publishers, Publish(p) \/ PublishFails(p) \/ PublishCancelled(p) PROVE IInv'
  BY <1>4, PublishKeeps
<1>5. ASSUME NEW p \in Publishers, MarkPublished(p) \/ MarkFailed(p) \/ MarkFails(p) PROVE IInv'
  BY <1>5, MarkKeeps
<1>6. ASSUME NEW p \in Publishers, Stop(p) \/ Exit(p) \/ Crash(p) \/ Start(p) PROVE IInv'
  BY <1>6, LifeKeeps
<1>7. ASSUME UNCHANGED vars PROVE IInv'
  BY <1>7 DEF vars, IInv, TypeOK, BatchesOK, PublishedMeansSent, PublishedAreReleased, WindowSent,
     Sent, Appended, AtWorkOn
<1> QED
  BY <1>1, <1>2, <1>3, <1>4, <1>5, <1>6, <1>7 DEF Next, PublisherStep, EmptyPoll

LEMMA AlwaysIInv == Spec => []IInv
<1>1. Init => IInv
  BY OutboxAssumption, InitIInv
<1>2. IInv /\ [Next]_vars => IInv'
  BY OutboxAssumption, NextKeepsIInv
<1> QED
  BY <1>1, <1>2, PTL DEF Spec

\* The columns of an event are what TypeOK says wherever a publisher stands.
THEOREM TypeCorrect == Spec => []TypeOK
<1>1. IInv => TypeOK
  BY DEF IInv
<1> QED
  BY <1>1, AlwaysIInv, PTL

\* An event marked published (publish_outbox_events.go) has been taken by the queue, however
\* many publishers compete, fail, are overtaken or come back.
THEOREM PublishedCorrect == Spec => []PublishedMeansSent
<1>1. IInv => PublishedMeansSent
  BY DEF IInv
<1> QED
  BY <1>1, AlwaysIInv, PTL

-----------------------------------------------------------------------------
(* What a step may do to a row. *)

\* A row stays, is claimed, is marked or orphaned by a step of its holder, or time passes.
RowMoves(e) ==
  \/ row'[e] = row[e]
  \/ MayClaim(e) /\ row'[e].published = row[e].published
  \/ \E p \in Publishers :
       /\ row[e].lockedBy = p
       /\ pc'[p] # pc[p] \/ batch'[p] # batch[p]
       /\ row'[e].published # row[e].published => MarkPublished(p) /\ e = Head(batch[p])
  \/ /\ ~row[e].published
     /\ row'[e].lockedBy = row[e].lockedBy
     /\ row'[e].published = row[e].published

LEMMA MarkMoves ==
  ASSUME OutboxAssumption, IInv, NEW p \in Publishers,
         MarkPublished(p) \/ MarkFailed(p) \/ MarkFails(p), NEW e \in Events
  PROVE  RowMoves(e)
<1> DEFINE h == Head(batch[p])
           done == [row[h] EXCEPT !.published = TRUE, !.expired = FALSE, !.lockedBy = None]
           later == [row[h] EXCEPT !.due = FALSE, !.expired = FALSE, !.lockedBy = None]
<1>1. TypeOK /\ pc[p] \in {"mark_published", "mark_failed"} /\ Proceed(p)
  BY DEF IInv, MarkPublished, MarkFailed, MarkFails
<1>2. batch[p] # <<>> /\ h \in Events
  BY <1>1, HeadParts
<1>3. batch'[p] # batch[p]
  BY <1>1, <1>2, ProceedParts
<1>4. row[h] \in ColumnSets
  BY <1>1, <1>2 DEF TypeOK
<1>5. done \in ColumnSets /\ later \in ColumnSets /\ later.published = row[h].published
  BY <1>4 DEF ColumnSets
<1>6. CASE MarkPublished(p)
  <2>1. Mark(p, done)
    BY <1>6 DEF MarkPublished
  <2>2. row'[e] # row[e] => e = h /\ row[e].lockedBy = p
    BY <1>1, <1>2, <1>5, <2>1, MarkParts
  <2> QED
    BY <1>3, <1>6, <2>2 DEF RowMoves
<1>7. CASE MarkFailed(p)
  <2>1. Mark(p, later)
    BY <1>7 DEF MarkFailed
  <2>2. row'[e] # row[e] => e = h /\ row[e].lockedBy = p /\ row'[e] = later
    BY <1>1, <1>2, <1>5, <2>1, MarkParts
  <2> QED
    BY <1>3, <1>5, <2>2 DEF RowMoves
<1>8. CASE MarkFails(p)
  BY <1>8 DEF MarkFails, RowMoves
<1> QED
  BY <1>6, <1>7, <1>8

LEMMA TimeMoves ==
  ASSUME OutboxAssumption, IInv, NEW f \in Events,
         BackoffElapses(f) \/ LeaseExpires(f) \/ LeaseExpiresEarly(f) \/ WindowCloses(f),
         NEW e \in Events
  PROVE  RowMoves(e)
<1>1. row \in [Events -> ColumnSets] /\ row[f] \in ColumnSets
  BY DEF IInv, TypeOK
<1>2. CASE row' = row
  BY <1>2 DEF RowMoves
<1>3. CASE ~row[f].published /\ row' = [row EXCEPT ![f].due = TRUE]
  BY <1>1, <1>3 DEF RowMoves, ColumnSets
<1>4. CASE row[f].lockedBy # None /\ row' = [row EXCEPT ![f].expired = TRUE]
  <2>1. ~row[f].published
    BY <1>4 DEF IInv, PublishedAreReleased
  <2> QED
    BY <1>1, <1>4, <2>1 DEF RowMoves, ColumnSets
<1> QED
  BY <1>2, <1>3, <1>4 DEF BackoffElapses, LeaseExpires, LeaseExpiresEarly, LeaseRunsOut, WindowCloses

LEMMA StartMoves ==
  ASSUME OutboxAssumption, IInv, NEW p \in Publishers, Start(p), NEW e \in Events
  PROVE  RowMoves(e)
<1>1. row[e] \in ColumnSets /\ pc \in [Publishers -> PublisherSteps]
  BY DEF IInv, TypeOK
<1>2. pc'[p] # pc[p]
  BY <1>1 DEF Start
<1>3. \/ row'[e] = row[e]
      \/ row[e].lockedBy = p /\ row'[e] = [row[e] EXCEPT !.lockedBy = Gone]
  BY DEF Start
<1> QED
  BY <1>1, <1>2, <1>3 DEF RowMoves, ColumnSets

LEMMA NextMoves ==
  ASSUME OutboxAssumption, IInv, [Next]_vars, NEW e \in Events PROVE RowMoves(e)
<1>1. ASSUME UNCHANGED row PROVE RowMoves(e)
  BY <1>1 DEF RowMoves
<1>2. ASSUME NEW f \in Events,
             BackoffElapses(f) \/ LeaseExpires(f) \/ LeaseExpiresEarly(f) \/ WindowCloses(f)
      PROVE  RowMoves(e)
  BY <1>2, TimeMoves
<1>3. ASSUME NEW p \in Publishers, Claim(p) \/ ClaimUnanswered(p) PROVE RowMoves(e)
  <2>1. TypeOK /\ Claimable # {} /\ \E b \in Batches : Lease(p, b)
    BY <1>3 DEF IInv, Claim, ClaimUnanswered
  <2> QED
    BY <2>1, LeaseParts DEF RowMoves
<1>4. ASSUME NEW p \in Publishers, MarkPublished(p) \/ MarkFailed(p) \/ MarkFails(p) PROVE RowMoves(e)
  BY <1>4, MarkMoves
<1>5. ASSUME NEW p \in Publishers, Start(p) PROVE RowMoves(e)
  BY <1>5, StartMoves
<1>6. ASSUME NEW p \in Publishers,
             \/ Publish(p) \/ PublishFails(p) \/ PublishCancelled(p)
             \/ EmptyPoll(p) \/ Stop(p) \/ Exit(p) \/ Crash(p)
      PROVE  UNCHANGED row
  BY <1>6 DEF Publish, PublishFails, PublishCancelled, EmptyPoll, Stop, Exit, Crash, vars
<1>7. ASSUME NEW f \in Events, AppendEvent(f) PROVE UNCHANGED row
  BY <1>7 DEF AppendEvent
<1> QED
  BY <1>1, <1>2, <1>3, <1>4, <1>5, <1>6, <1>7 DEF Next, PublisherStep, vars

\* A row marked published is never leased, rescheduled or marked again, although publishers
\* that were overtaken may still be sending its event.
THEOREM FinalCorrect == Spec => PublishedIsFinal
<1>1. IInv /\ [Next]_vars => \A e \in Events : row[e].published => row'[e] = row[e]
  <2> SUFFICES ASSUME IInv, [Next]_vars, NEW e \in Events, row[e].published
      PROVE  row'[e] = row[e]
    OBVIOUS
  <2>1. RowMoves(e)
    BY OutboxAssumption, NextMoves
  <2>2. ~MayClaim(e) /\ row[e].lockedBy = None
    BY PublishedStays
  <2> QED
    BY <2>1, <2>2, OutboxAssumption DEF RowMoves, OutboxAssumption
<1> QED
  BY <1>1, AlwaysIInv, PTL DEF Spec, PublishedIsFinal

\* A publisher loses a lease that has not run out only by a step of its own: the marks of
\* another, guarded by locked_by, do not touch it.
THEOREM HolderCorrect == Spec => HolderDecides
<1>1. IInv /\ [Next]_vars =>
        \A e \in Events, p \in Publishers :
          (row[e].lockedBy = p /\ ~row[e].expired /\ row'[e].lockedBy # p) =>
            <<pc'[p], batch'[p]>> # <<pc[p], batch[p]>>
  <2> SUFFICES ASSUME IInv, [Next]_vars, NEW e \in Events, NEW p \in Publishers,
                      row[e].lockedBy = p, ~row[e].expired, row'[e].lockedBy # p
      PROVE  pc'[p] # pc[p] \/ batch'[p] # batch[p]
    OBVIOUS
  <2>1. RowMoves(e)
    BY OutboxAssumption, NextMoves
  <2>2. ~MayClaim(e)
    BY OutboxAssumption DEF MayClaim, OutboxAssumption
  <2> QED
    BY <2>1, <2>2 DEF RowMoves
<1> QED
  BY <1>1, AlwaysIInv, PTL DEF Spec, HolderDecides

-----------------------------------------------------------------------------
(* The outbox implements the delivery of events. *)

state == [e \in Events |-> IF row[e].published THEN "confirmed"
                           ELSE IF Appended(e) THEN "pending" ELSE "unborn"]
copies == [e \in Events |-> Copies(e)]

LEMMA Refines ==
  /\ Delivery!Init <=> state = [e \in Events |-> "unborn"] /\ copies = [e \in Events |-> 0]
  /\ [Delivery!Next]_(Delivery!vars) <=>
       \/ UNCHANGED <<state, copies>>
       \/ \E e \in Events :
            \/ state[e] = "unborn" /\ state' = [state EXCEPT ![e] = "pending"] /\ UNCHANGED copies
            \/ state[e] # "unborn" /\ copies' = [copies EXCEPT ![e] = @ + 1] /\ UNCHANGED state
            \/ /\ state[e] = "pending" /\ copies[e] > 0
               /\ state' = [state EXCEPT ![e] = "confirmed"] /\ UNCHANGED copies
BY DEF Delivery!Init, Delivery!Next, Delivery!vars, Delivery!Append, Delivery!Deliver,
   Delivery!Confirm, state, copies

\* An event is at finitely many places of a sequence, none if it is not in it.
LEMMA PlacesParts ==
  ASSUME NEW s \in Seq(Events), NEW e
  PROVE  /\ IsFiniteSet(Places(e, s))
         /\ Cardinality(Places(e, s)) \in Nat
         /\ Within(e, s) => Cardinality(Places(e, s)) > 0
<1>1. Len(s) \in Nat
  OBVIOUS
<1>2. IsFiniteSet(1..Len(s))
  BY <1>1, FS_Interval
<1>3. IsFiniteSet(Places(e, s))
  BY <1>2, FS_Subset DEF Places
<1>4. Cardinality(Places(e, s)) \in Nat
  BY <1>3, FS_CardinalityType
<1>5. Within(e, s) => Cardinality(Places(e, s)) # 0
  BY ZenonT(30), <1>3, FS_EmptySet DEF Within, Places
<1> QED
  BY <1>3, <1>4, <1>5

LEMMA PlacesAppended ==
  ASSUME NEW s \in Seq(Events), NEW e \in Events, NEW f \in Events
  PROVE  Cardinality(Places(f, Append(s, e))) =
           IF f = e THEN Cardinality(Places(f, s)) + 1 ELSE Cardinality(Places(f, s))
<1>1. /\ Len(s) \in Nat /\ Len(Append(s, e)) = Len(s) + 1 /\ Append(s, e)[Len(s) + 1] = e
      /\ \A i \in 1..Len(s) : Append(s, e)[i] = s[i]
  OBVIOUS
<1>2. IsFiniteSet(Places(f, s)) /\ Cardinality(Places(f, s)) \in Nat
  BY PlacesParts
<1>3. Len(s) + 1 \notin Places(f, s)
  BY <1>1 DEF Places
<1>4. CASE f = e
  <2>1. Places(f, Append(s, e)) = Places(f, s) \cup {Len(s) + 1}
    BY <1>1, <1>4 DEF Places
  <2> QED
    BY ZenonT(30), <1>2, <1>3, <1>4, <2>1, FS_AddElement
<1>5. CASE f # e
  <2>1. Places(f, Append(s, e)) = Places(f, s)
    BY <1>1, <1>5 DEF Places
  <2> QED
    BY <1>5, <2>1
<1> QED
  BY <1>4, <1>5

\* What Take does to the copies of an event.
LEMMA TakeCopies ==
  ASSUME OutboxAssumption, TypeOK, NEW e \in Events, Take(e)
  PROVE  UNCHANGED copies \/ copies' = [copies EXCEPT ![e] = @ + 1]
<1> DEFINE a == AggregateOf[e]
<1>1. a \in Aggregates /\ queue[a] \in Seq(Events)
  BY DEF OutboxAssumption, TypeOK
<1>2. CASE e \in window
  <2>1. queue' = queue
    BY <1>2 DEF Take
  <2> QED
    BY <2>1 DEF copies, Copies
<1>3. CASE e \notin window
  <2>1. queue' = [queue EXCEPT ![a] = Append(queue[a], e)]
    BY <1>3 DEF Take
  <2>2. queue'[a] = Append(queue[a], e) /\ \A b \in Aggregates \ {a} : queue'[b] = queue[b]
    BY <1>1, <2>1 DEF TypeOK
  <2>3. ASSUME NEW f \in Events
        PROVE  Copies(f)' = IF f = e THEN Copies(f) + 1 ELSE Copies(f)
    <3>1. CASE AggregateOf[f] = a
      <4>1. Copies(f) = Cardinality(Places(f, queue[a]))
        BY <3>1 DEF Copies
      <4>2. Copies(f)' = Cardinality(Places(f, Append(queue[a], e)))
        BY <2>2, <3>1 DEF Copies
      <4> QED
        BY <1>1, <4>1, <4>2, PlacesAppended
    <3>2. CASE AggregateOf[f] # a
      BY <2>2, <3>2 DEF Copies, OutboxAssumption
    <3> QED
      BY <3>1, <3>2
  <2> QED
    BY <2>3 DEF copies
<1> QED
  BY <1>2, <1>3

-----------------------------------------------------------------------------
(* Every step is a step of the delivery or none. *)

\* A step that commits nothing and publishes nothing.
LEMMA SameState ==
  ASSUME UNCHANGED outbox, \A e \in Events : row'[e].published = row[e].published
  PROVE  UNCHANGED state
BY DEF state, Appended

LEMMA AppendRefines ==
  ASSUME OutboxAssumption, IInv, NEW e \in Events, AppendEvent(e)
  PROVE  state[e] = "unborn" /\ state' = [state EXCEPT ![e] = "pending"] /\ UNCHANGED copies
<1> DEFINE a == AggregateOf[e]
<1>1. a \in Aggregates /\ outbox[a] \in Seq(Events)
  BY DEF OutboxAssumption, IInv, TypeOK
<1>2. outbox'[a] = Append(outbox[a], e) /\ \A b \in Aggregates \ {a} : outbox'[b] = outbox[b]
  BY <1>1 DEF AppendEvent, IInv, TypeOK
<1>3. \A f \in Events : Within(f, Append(outbox[a], e)) <=> Within(f, outbox[a]) \/ f = e
  <2>1. /\ Len(outbox[a]) \in Nat /\ Len(Append(outbox[a], e)) = Len(outbox[a]) + 1
        /\ Append(outbox[a], e)[Len(outbox[a]) + 1] = e
        /\ \A i \in 1..Len(outbox[a]) : Append(outbox[a], e)[i] = outbox[a][i]
    BY <1>1
  <2> QED
    BY <2>1 DEF Within
<1>4. \A f \in Events : Appended(f)' <=> Appended(f) \/ f = e
  BY <1>2, <1>3 DEF Appended, OutboxAssumption
<1>5. UNCHANGED row /\ UNCHANGED queue /\ ~Appended(e)
  BY DEF AppendEvent
<1>6. ~row[e].published
  BY <1>5 DEF IInv, PublishedMeansSent
<1>7. state[e] = "unborn" /\ state' = [state EXCEPT ![e] = "pending"]
  BY <1>4, <1>5, <1>6 DEF state
<1> QED
  BY <1>5, <1>7 DEF copies, Copies

LEMMA PublishRefines ==
  ASSUME OutboxAssumption, IInv, NEW p \in Publishers,
         Publish(p) \/ PublishFails(p) \/ PublishCancelled(p)
  PROVE  \/ UNCHANGED <<state, copies>>
         \/ \E e \in Events :
              state[e] # "unborn" /\ copies' = [copies EXCEPT ![e] = @ + 1] /\ UNCHANGED state
<1> DEFINE e == Head(batch[p])
<1>1. TypeOK /\ pc[p] = "publish" /\ UNCHANGED <<outbox, row>>
  BY DEF IInv, Publish, PublishFails, PublishCancelled
<1>2. e \in Events /\ Appended(e)
  BY <1>1, HeadParts DEF IInv, BatchesOK
<1>3. UNCHANGED state
  BY <1>1, SameState
<1>4. state[e] # "unborn"
  BY <1>2 DEF state
<1>5. CASE Take(e)
  BY <1>1, <1>2, <1>3, <1>4, <1>5, TakeCopies
<1>6. CASE UNCHANGED queue
  BY <1>3, <1>6 DEF copies, Copies
<1> QED
  BY <1>5, <1>6 DEF Publish, PublishFails, PublishCancelled

\* Only MarkPublished publishes, and what it publishes was delivered.
LEMMA RowRefines ==
  ASSUME OutboxAssumption, IInv, [Next]_vars, UNCHANGED <<outbox, queue>>
  PROVE  \/ UNCHANGED <<state, copies>>
         \/ \E e \in Events :
              /\ state[e] = "pending" /\ copies[e] > 0
              /\ state' = [state EXCEPT ![e] = "confirmed"] /\ UNCHANGED copies
<1>1. UNCHANGED copies
  BY DEF copies, Copies
<1>2. CASE \A e \in Events : row'[e].published = row[e].published
  BY <1>1, <1>2, SameState
<1>3. CASE \E e \in Events : row'[e].published # row[e].published
  <2>1. PICK e \in Events : row'[e].published # row[e].published
    BY <1>3
  <2>2. PICK p \in Publishers : row[e].lockedBy = p /\ MarkPublished(p) /\ e = Head(batch[p])
    BY <2>1, NextMoves DEF RowMoves
  <2>3. ~row[e].published
    BY <2>2, PublishedStays DEF OutboxAssumption
  <2>4. Appended(e) /\ Sent(e)
    BY <2>2, HeadParts DEF IInv, BatchesOK, MarkPublished
  <2>5. copies[e] > 0
    <3>1. queue[AggregateOf[e]] \in Seq(Events)
      BY DEF IInv, TypeOK, OutboxAssumption
    <3>2. Cardinality(Places(e, queue[AggregateOf[e]])) > 0
      BY <2>4, <3>1, PlacesParts DEF Sent
    <3> QED
      BY <3>2 DEF copies, Copies
  <2>6. \A f \in Events \ {e} : row'[f] = row[f]
    BY <2>2 DEF MarkPublished, Mark, IInv, TypeOK
  <2>7. row'[e].published
    BY <2>1, <2>3, NextKeepsIInv DEF IInv, TypeOK, ColumnSets
  <2>8. state[e] = "pending" /\ state' = [state EXCEPT ![e] = "confirmed"]
    <3>1. state[e] = "pending"
      BY <2>3, <2>4 DEF state
    <3>2. \A f \in Events : Appended(f)' <=> Appended(f)
      BY DEF Appended
    <3>3. ASSUME NEW f \in Events
          PROVE  state'[f] = IF f = e THEN "confirmed" ELSE state[f]
      BY <2>6, <2>7, <3>2 DEF state
    <3> QED
      BY <3>1, <3>3 DEF state
  <2> QED
    BY <1>1, <2>5, <2>8
<1> QED
  BY <1>2, <1>3

\* Whatever publishers there are and whatever they fail at, the outbox only confirms what it
\* delivered and only delivers what was committed.
THEOREM DeliveryImplemented == Spec => Delivery!Spec
<1>1. Init => Delivery!Init
  <2> SUFFICES ASSUME Init PROVE state = [e \in Events |-> "unborn"] /\ copies = [e \in Events |-> 0]
    BY Refines
  <2>1. \A e \in Events : Places(e, <<>>) = {} /\ ~Within(e, <<>>)
    BY DEF Places, Within
  <2>2. \A e \in Events : Copies(e) = 0 /\ ~Appended(e) /\ ~row[e].published
    BY <2>1, FS_EmptySet, OutboxAssumption DEF Init, Copies, Appended, Columns, OutboxAssumption
  <2> QED
    BY <2>2 DEF state, copies
<1>2. IInv /\ [Next]_vars => [Delivery!Next]_(Delivery!vars)
  <2> SUFFICES ASSUME IInv, [Next]_vars PROVE [Delivery!Next]_(Delivery!vars)
    OBVIOUS
  <2>1. CASE \E e \in Events : AppendEvent(e)
    BY <2>1, OutboxAssumption, AppendRefines, Refines
  <2>2. CASE \E p \in Publishers : Publish(p) \/ PublishFails(p) \/ PublishCancelled(p)
    BY <2>2, OutboxAssumption, PublishRefines, Refines
  <2>3. CASE UNCHANGED <<outbox, queue>>
    BY <2>3, OutboxAssumption, RowRefines, Refines
  <2>4. \/ \E e \in Events : AppendEvent(e)
        \/ \E p \in Publishers : Publish(p) \/ PublishFails(p) \/ PublishCancelled(p)
        \/ UNCHANGED <<outbox, queue>>
    BY DEF Next, PublisherStep, vars, BackoffElapses, LeaseExpires, LeaseExpiresEarly, LeaseRunsOut,
       WindowCloses, Claim, ClaimUnanswered, MarkPublished, MarkFailed, MarkFails, EmptyPoll,
       Stop, Exit, Crash, Start
  <2> QED
    BY <2>1, <2>2, <2>3, <2>4
<1> QED
  BY <1>1, <1>2, AlwaysIInv, PTL DEF Spec, Delivery!Spec

-----------------------------------------------------------------------------
(* The theorem on duplicates: for any events, publishers, batch size and   *)
(* failure bound, the queue holds at most one copy of an event more than   *)
(* there were failures.                                                    *)

(* The inductive invariant: every copy yet to come is already counted. *)

NoRepeats(s) == \A i, j \in 1..Len(s) : i # j => s[i] # s[j]
BatchesDistinct == \A p \in Publishers : NoRepeats(batch[p])

\* The publishers that have an event at hand and may yet send it, or leave it to be sent
\* again without a further failure.
ToSend(e) ==
  {p \in Publishers :
     AtWorkOn(p, e) /\ ~(pc[p] = "mark_published" /\ ~stopping[p] /\ Head(batch[p]) = e)}

\* Nobody is at work on a row that is still to be published: it may be claimed by and by.
Open(e) ==
  /\ ~row[e].published
  /\ ~\E p \in Publishers : row[e].lockedBy = p /\ ~row[e].expired /\ AtWorkOn(p, e)

\* The copies an event has and those it may get for nothing.
OpenCount(e) == IF Open(e) THEN 1 ELSE 0
Explained(e) == Copies(e) + Cardinality(ToSend(e)) + OpenCount(e) <= 1 + failures

DInv == IInv /\ BatchesDistinct /\ \A e \in Events : Explained(e)

-----------------------------------------------------------------------------
(* Counting. *)

LEMMA Counted ==
  ASSUME OutboxAssumption, NEW S \in SUBSET Publishers, NEW T \in SUBSET Publishers, NEW p
  PROVE  /\ Cardinality(S) \in Nat /\ Cardinality(T) \in Nat
         /\ T \subseteq S => Cardinality(T) <= Cardinality(S)
         /\ T \subseteq S \cup {p} => Cardinality(T) <= Cardinality(S) + 1
         /\ p \in S /\ T \subseteq S \ {p} => Cardinality(T) <= Cardinality(S) - 1
<1>1. IsFiniteSet(S) /\ IsFiniteSet(T)
  BY FS_Subset DEF OutboxAssumption
<1>2. Cardinality(S) \in Nat /\ Cardinality(T) \in Nat
  BY <1>1, FS_CardinalityType
<1>3. T \subseteq S => Cardinality(T) <= Cardinality(S)
  BY <1>1, FS_Subset
<1>4. ASSUME T \subseteq S \cup {p} PROVE Cardinality(T) <= Cardinality(S) + 1
  <2>1. IsFiniteSet(S \cup {p}) /\ Cardinality(S \cup {p}) =
          IF p \in S THEN Cardinality(S) ELSE Cardinality(S) + 1
    BY <1>1, FS_AddElement
  <2>2. Cardinality(T) <= Cardinality(S \cup {p})
    BY <1>4, <2>1, FS_Subset
  <2> QED
    BY <1>2, <2>1, <2>2
<1>5. ASSUME p \in S, T \subseteq S \ {p} PROVE Cardinality(T) <= Cardinality(S) - 1
  <2>1. IsFiniteSet(S \ {p}) /\ Cardinality(S \ {p}) = Cardinality(S) - 1
    BY <1>1, <1>5, FS_RemoveElement
  <2>2. Cardinality(T) <= Cardinality(S \ {p})
    BY <1>5, <2>1, FS_Subset
  <2> QED
    BY <2>1, <2>2
<1> QED
  BY <1>2, <1>3, <1>4, <1>5

\* What is counted is a number.
LEMMA CountsAreNumbers ==
  ASSUME OutboxAssumption, TypeOK, TypeOK', NEW e \in Events
  PROVE  /\ Copies(e) \in Nat /\ Copies(e)' \in Nat
         /\ ToSend(e) \in SUBSET Publishers /\ ToSend(e)' \in SUBSET Publishers
         /\ Cardinality(ToSend(e)) \in Nat /\ Cardinality(ToSend(e)') \in Nat
         /\ OpenCount(e) \in {0, 1} /\ OpenCount(e)' \in {0, 1}
         /\ failures \in Nat /\ failures' \in Nat
<1>1. queue[AggregateOf[e]] \in Seq(Events) /\ queue'[AggregateOf[e]] \in Seq(Events)
  BY DEF TypeOK, OutboxAssumption
<1>2. Copies(e) \in Nat /\ Copies(e)' \in Nat
  BY <1>1, PlacesParts DEF Copies
<1>3. ToSend(e) \in SUBSET Publishers /\ ToSend(e)' \in SUBSET Publishers
  BY DEF ToSend
<1>4. failures \in Nat /\ failures' \in Nat
  BY DEF TypeOK
<1>5. OpenCount(e) \in {0, 1} /\ OpenCount(e)' \in {0, 1}
  BY DEF OpenCount
<1>6. Cardinality(ToSend(e)) \in Nat /\ Cardinality(ToSend(e)') \in Nat
  BY <1>3, Counted
<1> QED
  BY <1>2, <1>3, <1>4, <1>5, <1>6

-----------------------------------------------------------------------------
(* Four ways for an event to stay explained. *)

\* Nothing is added to what is counted for it.
LEMMA NothingAdded ==
  ASSUME OutboxAssumption, TypeOK, TypeOK', NEW e \in Events, Explained(e),
         Copies(e)' <= Copies(e), ToSend(e)' \subseteq ToSend(e), Open(e)' => Open(e),
         failures' >= failures
  PROVE  Explained(e)'
<1>1. Cardinality(ToSend(e)') <= Cardinality(ToSend(e))
  BY CountsAreNumbers, Counted
<1>2. OpenCount(e)' <= OpenCount(e)
  BY DEF OpenCount
<1> QED
  BY <1>1, <1>2, CountsAreNumbers DEF Explained

\* A failure pays for a copy, for a publisher or for the row.
LEMMA FailurePays ==
  ASSUME OutboxAssumption, TypeOK, TypeOK', NEW e \in Events, Explained(e), NEW p \in Publishers,
         failures' = failures + 1,
         \/ /\ Copies(e)' <= Copies(e) + 1
            /\ ToSend(e)' \subseteq ToSend(e)
            /\ Open(e)' => Open(e)
         \/ /\ ToSend(e)' \subseteq ToSend(e) \cup {p}
            /\ Copies(e)' <= Copies(e)
            /\ Open(e)' => Open(e)
         \/ /\ Copies(e)' <= Copies(e) /\ ToSend(e)' \subseteq ToSend(e)
  PROVE  Explained(e)'
<1>1. /\ ToSend(e)' \subseteq ToSend(e) => Cardinality(ToSend(e)') <= Cardinality(ToSend(e))
      /\ ToSend(e)' \subseteq ToSend(e) \cup {p} =>
           Cardinality(ToSend(e)') <= Cardinality(ToSend(e)) + 1
  BY CountsAreNumbers, Counted
<1>2. (Open(e)' => Open(e)) => OpenCount(e)' <= OpenCount(e)
  BY DEF OpenCount
<1>3. OpenCount(e)' <= OpenCount(e) + 1
  BY DEF OpenCount
<1> QED
  BY <1>1, <1>2, <1>3, CountsAreNumbers DEF Explained

\* A publisher that counted becomes a copy or leaves the row open.
LEMMA PublisherPays ==
  ASSUME OutboxAssumption, TypeOK, TypeOK', NEW e \in Events, Explained(e), NEW p \in Publishers,
         failures' >= failures,
         p \in ToSend(e), ToSend(e)' \subseteq ToSend(e) \ {p},
         \/ Copies(e)' <= Copies(e)
         \/ Copies(e)' <= Copies(e) + 1 /\ (Open(e)' => Open(e))
  PROVE  Explained(e)'
<1>1. Cardinality(ToSend(e)') <= Cardinality(ToSend(e)) - 1
  BY CountsAreNumbers, Counted
<1>2. (Open(e)' => Open(e)) => OpenCount(e)' <= OpenCount(e)
  BY DEF OpenCount
<1>3. OpenCount(e)' <= OpenCount(e) + 1
  BY DEF OpenCount
<1> QED
  BY <1>1, <1>2, <1>3, CountsAreNumbers DEF Explained

\* A row that was open is claimed.
LEMMA OpenPays ==
  ASSUME OutboxAssumption, TypeOK, TypeOK', NEW e \in Events, Explained(e), NEW p \in Publishers,
         failures' = failures, Open(e), ~Open(e)',
         ToSend(e)' \subseteq ToSend(e) \cup {p}, Copies(e)' <= Copies(e)
  PROVE  Explained(e)'
<1>1. Cardinality(ToSend(e)') <= Cardinality(ToSend(e)) + 1
  BY CountsAreNumbers, Counted
<1>2. OpenCount(e)' = 0 /\ OpenCount(e) = 1
  BY DEF OpenCount
<1> QED
  BY <1>1, <1>2, CountsAreNumbers DEF Explained

-----------------------------------------------------------------------------
(* Batches without repetitions. *)

\* Tail drops the first event for good and no other.
LEMMA TailDrops ==
  ASSUME NEW s \in Seq(Events), s # <<>>, NoRepeats(s)
  PROVE  /\ NoRepeats(Tail(s))
         /\ ~Within(Head(s), Tail(s))
         /\ \A e \in Events : e # Head(s) => (Within(e, Tail(s)) <=> Within(e, s))
<1>1. /\ Len(s) \in Nat /\ Len(s) > 0 /\ Head(s) = s[1] /\ Len(Tail(s)) = Len(s) - 1
      /\ \A i \in 1..Len(Tail(s)) : Tail(s)[i] = s[i + 1]
  OBVIOUS
<1>2. NoRepeats(Tail(s))
  BY <1>1 DEF NoRepeats
<1>3. ~Within(Head(s), Tail(s))
  BY <1>1 DEF NoRepeats, Within
<1>4. ASSUME NEW e \in Events, e # Head(s), Within(e, s) PROVE Within(e, Tail(s))
  <2>1. PICK i \in 1..Len(s) : s[i] = e
    BY <1>4 DEF Within
  <2>2. i # 1 /\ i - 1 \in 1..Len(Tail(s)) /\ Tail(s)[i - 1] = e
    BY <1>1, <1>4, <2>1
  <2> QED
    BY <2>2 DEF Within
<1> QED
  BY <1>2, <1>3, <1>4, BatchParts

\* No step brings an event into a batch twice.
LEMMA DistinctKept ==
  ASSUME OutboxAssumption, IInv, BatchesDistinct, Next, NEW p \in Publishers PROVE NoRepeats(batch[p])'
<1>1. NoRepeats(batch[p]) /\ NoRepeats(<<>>) /\ batch \in [Publishers -> Seq(Events)]
  BY DEF BatchesDistinct, NoRepeats, IInv, TypeOK
<1>2. ASSUME UNCHANGED batch PROVE NoRepeats(batch[p])'
  BY <1>1, <1>2
<1>3. ASSUME NEW q \in Publishers, Claim(q) PROVE NoRepeats(batch[p])'
  <2>1. PICK b \in Batches : batch' = [batch EXCEPT ![q] = b]
    BY <1>3 DEF Claim
  <2>2. NoRepeats(b)
    BY <1>3, BatchOfClaim DEF Claim, NoRepeats
  <2>3. batch'[p] = IF p = q THEN b ELSE batch[p]
    BY <1>1, <2>1
  <2> QED
    BY <1>1, <2>2, <2>3
<1>4. ASSUME NEW q \in Publishers, MarkPublished(q) \/ MarkFailed(q) \/ MarkFails(q)
      PROVE  NoRepeats(batch[p])'
  <2>1. /\ pc[q] \in {"mark_published", "mark_failed"}
        /\ batch' = [batch EXCEPT ![q] = Tail(batch[q])]
    BY <1>4 DEF MarkPublished, MarkFailed, MarkFails, Proceed
  <2>2. batch[q] # <<>>
    BY <2>1, HeadParts DEF IInv
  <2>3. NoRepeats(Tail(batch[q]))
    BY <1>1, <2>2, TailDrops DEF BatchesDistinct
  <2>4. batch'[p] = IF p = q THEN Tail(batch[q]) ELSE batch[p]
    BY <1>1, <2>1
  <2> QED
    BY <1>1, <2>3, <2>4
<1>5. ASSUME NEW q \in Publishers, Crash(q) PROVE NoRepeats(batch[p])'
  <2>1. batch'[p] = IF p = q THEN <<>> ELSE batch[p]
    BY <1>1, <1>5 DEF Crash
  <2> QED
    BY <1>1, <2>1
<1> QED
  BY <1>2, <1>3, <1>4, <1>5 DEF Next, PublisherStep, AppendEvent, BackoffElapses, LeaseExpires,
     LeaseExpiresEarly, LeaseRunsOut, WindowCloses, ClaimUnanswered, Publish, PublishFails,
     PublishCancelled, EmptyPoll, Stop, Exit, Start, vars

-----------------------------------------------------------------------------
(* Every step keeps every event explained. *)

\* A step of p leaves the other publishers as they are.
OnlyOf(p) ==
  \A q \in Publishers \ {p} : pc'[q] = pc[q] /\ batch'[q] = batch[q] /\ stopping'[q] = stopping[q]

LEMMA Local ==
  ASSUME NEW e \in Events, NEW p \in Publishers, OnlyOf(p)
  PROVE  /\ \A q \in Publishers \ {p} : AtWorkOn(q, e)' <=> AtWorkOn(q, e)
         /\ ToSend(e)' \subseteq ToSend(e) \cup {p}
         /\ (p \in ToSend(e)' => p \in ToSend(e)) => ToSend(e)' \subseteq ToSend(e)
         /\ p \notin ToSend(e)' => ToSend(e)' \subseteq ToSend(e) \ {p}
         /\ row'[e] = row[e] /\ (AtWorkOn(p, e) => AtWorkOn(p, e)') => (Open(e)' => Open(e))
<1>1. \A q \in Publishers \ {p} : AtWorkOn(q, e)' <=> AtWorkOn(q, e)
  BY DEF OnlyOf, AtWorkOn
<1>2. \A q \in Publishers \ {p} : q \in ToSend(e)' <=> q \in ToSend(e)
  BY <1>1 DEF OnlyOf, ToSend
<1>3. ToSend(e) \subseteq Publishers /\ ToSend(e)' \subseteq Publishers
  BY DEF ToSend
<1>4. row'[e] = row[e] /\ (AtWorkOn(p, e) => AtWorkOn(p, e)') => (Open(e)' => Open(e))
  BY <1>1 DEF Open
<1> QED
  BY <1>1, <1>2, <1>3, <1>4

\* Commits and time: leases run out for nothing only where nobody is at work.
LEMMA TimeExplained ==
  ASSUME OutboxAssumption, IInv, TypeOK', NEW e \in Events, Explained(e), NEW f \in Events,
         \/ AppendEvent(f) \/ BackoffElapses(f) \/ LeaseExpires(f)
         \/ LeaseExpiresEarly(f) \/ WindowCloses(f)
  PROVE  Explained(e)'
<1>1. TypeOK /\ UNCHANGED <<pc, batch, stopping, queue>>
  BY DEF IInv, AppendEvent, BackoffElapses, LeaseExpires, LeaseExpiresEarly, LeaseRunsOut, WindowCloses
<1>2. \A p \in Publishers : AtWorkOn(p, e)' <=> AtWorkOn(p, e)
  BY <1>1 DEF AtWorkOn
<1>3. ToSend(e)' = ToSend(e) /\ Copies(e)' = Copies(e) /\ Copies(e) \in Nat
  BY <1>1, <1>2, CountsAreNumbers DEF ToSend, Copies
<1>4. CASE LeaseExpiresEarly(f)
  <2>1. failures' = failures + 1 /\ \E p \in Publishers : TRUE
    BY <1>4 DEF LeaseExpiresEarly, Fail, HolderAtWork
  <2> QED
    BY <1>1, <1>3, <2>1, FailurePays
<1>5. CASE AppendEvent(f) \/ BackoffElapses(f) \/ LeaseExpires(f) \/ WindowCloses(f)
  <2>1. failures' = failures
    BY <1>5 DEF AppendEvent, BackoffElapses, LeaseExpires, WindowCloses
  <2>2. Open(e)' => Open(e)
    <3>1. row[e] \in ColumnSets /\ row \in [Events -> ColumnSets]
      BY <1>1 DEF TypeOK
    <3>2. \/ row'[e] = row[e]
          \/ row'[e] = [row[e] EXCEPT !.due = TRUE]
          \/ row'[e] = [row[e] EXCEPT !.expired = TRUE] /\ ~HolderAtWork(e)
      BY <1>5, <3>1 DEF AppendEvent, BackoffElapses, LeaseExpires, LeaseRunsOut, WindowCloses
    <3>3. /\ row'[e].published = row[e].published /\ row'[e].lockedBy = row[e].lockedBy
          /\ row'[e].expired = row[e].expired \/ ~HolderAtWork(e)
      BY <3>1, <3>2 DEF ColumnSets
    <3> QED
      BY <1>2, <3>3 DEF Open, HolderAtWork
  <2>3. failures' >= failures
    BY <1>1, <2>1 DEF TypeOK
  <2> QED
    BY <1>1, <1>3, <2>2, <2>3, NothingAdded
<1> QED
  BY <1>4, <1>5

LEMMA ClaimExplained ==
  ASSUME OutboxAssumption, IInv, TypeOK', NEW e \in Events, Explained(e), NEW p \in Publishers,
         Claim(p) \/ ClaimUnanswered(p)
  PROVE  Explained(e)'
<1>1. TypeOK /\ pc[p] = "idle" /\ UNCHANGED <<queue, stopping>> /\ Claimable # {}
  BY DEF IInv, Claim, ClaimUnanswered
<1>2. Copies(e)' = Copies(e) /\ Copies(e) \in Nat /\ failures \in Nat
  BY <1>1, CountsAreNumbers DEF Copies
<1>3. CASE ClaimUnanswered(p)
  <2>1. failures' = failures + 1 /\ UNCHANGED <<pc, batch>>
    BY <1>3 DEF ClaimUnanswered, Fail
  <2>2. ToSend(e)' = ToSend(e)
    BY <1>1, <2>1 DEF ToSend, AtWorkOn
  <2> QED
    BY <1>1, <1>2, <2>1, <2>2, FailurePays
<1>4. CASE Claim(p)
  <2>1. PICK b \in Batches : Lease(p, b) /\ batch' = [batch EXCEPT ![p] = b]
    BY <1>4 DEF Claim
  <2>2. pc' = [pc EXCEPT ![p] = "publish"] /\ failures' = failures
    BY <1>4 DEF Claim
  <2>3. OnlyOf(p) /\ batch'[p] = b
    BY <1>1, <2>1, <2>2 DEF OnlyOf, TypeOK
  <2>4. ~AtWorkOn(p, e)
    <3>1. batch[p] = <<>>
      BY <1>1 DEF TypeOK
    <3> QED
      BY <3>1 DEF AtWorkOn, Within
  <2>5. row[e] \in ColumnSets /\
        row'[e] = IF Within(e, b) THEN [row[e] EXCEPT !.lockedBy = p, !.expired = FALSE] ELSE row[e]
    BY <1>1, <2>1 DEF Lease, TypeOK
  <2>6. CASE Within(e, b)
    <3>1. MayClaim(e)
      BY <1>1, <2>6, BatchOfClaim
    <3>2. Open(e)
      BY <3>1, OutboxAssumption DEF MayClaim, Open, OutboxAssumption
    <3>3. row'[e].lockedBy = p /\ ~row'[e].expired
      BY <2>5, <2>6 DEF ColumnSets
    <3>4. AtWorkOn(p, e)'
      BY <2>3, <2>6 DEF AtWorkOn
    <3>5. ~Open(e)'
      BY <3>3, <3>4 DEF Open
    <3>6. ToSend(e)' \subseteq ToSend(e) \cup {p}
      BY <2>3, Local
    <3> QED
      BY <1>1, <1>2, <2>2, <3>2, <3>5, <3>6, OpenPays
  <2>7. CASE ~Within(e, b)
    <3>1. row'[e] = row[e] /\ p \notin ToSend(e)'
      BY <2>3, <2>5, <2>7 DEF ToSend, AtWorkOn
    <3>2. ToSend(e)' \subseteq ToSend(e) /\ (Open(e)' => Open(e))
      BY <2>3, <2>4, <3>1, Local
    <3> QED
      BY <1>1, <1>2, <2>2, <3>2, NothingAdded
  <2> QED
    BY <2>6, <2>7
<1> QED
  BY <1>3, <1>4

\* What Take does to the copies of one event.
LEMMA TakeOne ==
  ASSUME OutboxAssumption, TypeOK, TypeOK', NEW h \in Events, NEW e \in Events,
         Take(h) \/ UNCHANGED queue
  PROVE  /\ Copies(e)' <= Copies(e) + 1
         /\ e # h => Copies(e)' <= Copies(e)
<1>1. Copies(e) \in Nat
  BY CountsAreNumbers
<1>2. CASE UNCHANGED queue
  BY <1>1, <1>2 DEF Copies
<1>3. CASE Take(h)
  <2>1. copies' = copies \/ copies' = [copies EXCEPT ![h] = @ + 1]
    BY <1>3, TakeCopies
  <2>2. copies[e] = Copies(e) /\ copies'[e] = Copies(e)'
    BY DEF copies
  <2>3. Copies(e)' = Copies(e) \/ (e = h /\ Copies(e)' = Copies(e) + 1)
    BY <2>1, <2>2 DEF copies
  <2> QED
    BY <1>1, <2>3
<1> QED
  BY <1>2, <1>3

LEMMA PublishExplained ==
  ASSUME OutboxAssumption, IInv, TypeOK', NEW e \in Events, Explained(e), NEW p \in Publishers,
         Publish(p) \/ PublishFails(p) \/ PublishCancelled(p)
  PROVE  Explained(e)'
<1> DEFINE h == Head(batch[p])
<1>1. TypeOK /\ pc[p] = "publish" /\ UNCHANGED <<row, batch, stopping>>
  BY DEF IInv, Publish, PublishFails, PublishCancelled
<1>2. h \in Events /\ AtWorkOn(p, h)
  BY <1>1, HeadParts
<1>3. OnlyOf(p)
  BY <1>1 DEF OnlyOf, TypeOK, Publish, PublishFails, PublishCancelled
<1>4. Take(h) \/ UNCHANGED queue
  BY DEF Publish, PublishFails, PublishCancelled
<1>5. Copies(e)' <= Copies(e) + 1 /\ (e # h => Copies(e)' <= Copies(e))
  BY <1>1, <1>2, <1>4, TakeOne
<1>6. AtWorkOn(p, e)' <=> AtWorkOn(p, e)
  BY <1>1 DEF AtWorkOn
<1>7. (p \in ToSend(e)' => p \in ToSend(e)) /\ (AtWorkOn(p, e) => p \in ToSend(e))
  BY <1>1, <1>6 DEF ToSend
<1>8. ToSend(e)' \subseteq ToSend(e) /\ (Open(e)' => Open(e))
  BY <1>1, <1>3, <1>6, <1>7, Local
<1>9. CASE PublishFails(p)
  <2>1. failures' = failures + 1
    BY <1>9 DEF PublishFails, Fail
  <2> QED
    BY <1>1, <1>5, <1>8, <2>1, FailurePays
<1>10. CASE PublishCancelled(p)
  <2>1. UNCHANGED <<queue, failures>>
    BY <1>10 DEF PublishCancelled
  <2>2. Copies(e)' <= Copies(e) /\ failures' >= failures
    BY <1>1, <2>1, CountsAreNumbers DEF Copies
  <2> QED
    BY <1>1, <1>8, <2>2, NothingAdded
<1>11. CASE Publish(p)
  <2>1. failures' >= failures /\ pc'[p] = "mark_published" /\ ~stopping'[p]
    BY <1>1, <1>11, CountsAreNumbers DEF Publish, TypeOK
  <2>2. CASE e = h
    <3>1. p \in ToSend(e) /\ p \notin ToSend(e)'
      BY <1>1, <1>2, <1>7, <2>1, <2>2 DEF ToSend
    <3>2. ToSend(e)' \subseteq ToSend(e) \ {p}
      BY <1>3, <3>1, Local
    <3> QED
      BY <1>1, <1>5, <1>8, <2>1, <3>1, <3>2, PublisherPays
  <2>3. CASE e # h
    BY <1>1, <1>5, <1>8, <2>1, <2>3, NothingAdded
  <2> QED
    BY <2>2, <2>3
<1> QED
  BY <1>9, <1>10, <1>11

LEMMA MarkExplained ==
  ASSUME OutboxAssumption, IInv, BatchesDistinct, TypeOK', NEW e \in Events, Explained(e),
         NEW p \in Publishers, MarkPublished(p) \/ MarkFailed(p) \/ MarkFails(p)
  PROVE  Explained(e)'
<1> DEFINE h == Head(batch[p])
           done == [row[h] EXCEPT !.published = TRUE, !.expired = FALSE, !.lockedBy = None]
           later == [row[h] EXCEPT !.due = FALSE, !.expired = FALSE, !.lockedBy = None]
<1>1. TypeOK /\ pc[p] \in {"mark_published", "mark_failed"} /\ UNCHANGED <<queue, stopping>>
  BY DEF IInv, MarkPublished, MarkFailed, MarkFails
<1>2. batch[p] # <<>> /\ h \in Events /\ AtWorkOn(p, h)
  BY <1>1, HeadParts
<1>3. /\ batch' = [batch EXCEPT ![p] = Tail(batch[p])]
      /\ pc' = [pc EXCEPT ![p] = IF Len(batch[p]) = 1 THEN "idle" ELSE "publish"]
  BY DEF MarkPublished, MarkFailed, MarkFails, Proceed
<1>4. OnlyOf(p) /\ batch'[p] = Tail(batch[p]) /\ pc'[p] # "mark_published"
  BY <1>1, <1>3 DEF OnlyOf, TypeOK
<1>5. ~Within(h, batch'[p]) /\ (e # h => (AtWorkOn(p, e)' <=> AtWorkOn(p, e)))
  <2>1. batch[p] \in Seq(Events) /\ NoRepeats(batch[p])
    BY <1>1 DEF TypeOK, BatchesDistinct
  <2>2. ~Within(h, Tail(batch[p])) /\ (e # h => (Within(e, Tail(batch[p])) <=> Within(e, batch[p])))
    BY <1>2, <2>1, TailDrops
  <2> QED
    BY <1>4, <2>2 DEF AtWorkOn
<1>6. Copies(e)' <= Copies(e) /\ failures' >= failures
  BY <1>1, CountsAreNumbers DEF Copies, MarkPublished, MarkFailed, MarkFails, Fail
<1>7. row[h] \in ColumnSets /\ done \in ColumnSets /\ later \in ColumnSets
  <2>1. row[h] \in ColumnSets
    BY <1>1, <1>2 DEF TypeOK
  <2> QED
    BY <2>1 DEF ColumnSets
<1>8. row' = row \/ Mark(p, done) \/ Mark(p, later)
  BY DEF MarkPublished, MarkFailed, MarkFails
<1>9. CASE e # h
  <2>1. row'[e] = row[e]
    BY <1>1, <1>2, <1>7, <1>8, <1>9, MarkParts
  <2>2. p \in ToSend(e)' => p \in ToSend(e)
    BY <1>1, <1>5, <1>9 DEF ToSend
  <2>3. ToSend(e)' \subseteq ToSend(e) /\ (Open(e)' => Open(e))
    BY <1>4, <1>5, <1>9, <2>1, <2>2, Local
  <2> QED
    BY <1>1, <1>6, <2>3, NothingAdded
<1>10. CASE e = h
  <2>1. p \notin ToSend(e)'
    BY <1>5, <1>10 DEF ToSend, AtWorkOn
  <2>2. ToSend(e)' \subseteq ToSend(e) /\ ToSend(e)' \subseteq ToSend(e) \ {p}
    BY <1>4, <2>1, Local
  <2>3. CASE pc[p] = "mark_failed" \/ stopping[p]
    <3>1. p \in ToSend(e)
      BY <1>1, <1>2, <1>10, <2>3 DEF ToSend
    <3> QED
      BY <1>1, <1>6, <2>2, <3>1, PublisherPays
  <2>4. CASE MarkFails(p) /\ ~stopping[p]
    <3>1. failures' = failures + 1
      BY <2>4 DEF MarkFails, Fail
    <3> QED
      BY <1>1, <1>6, <2>2, <3>1, FailurePays
  <2>5. CASE MarkPublished(p)
    <3>1. row' = IF row[h].lockedBy = p THEN [row EXCEPT ![h] = done] ELSE row
      BY <2>5 DEF MarkPublished, Mark
    <3>2. CASE row[h].lockedBy = p
      <4>1. row'[e].published
        BY <1>1, <1>2, <1>7, <1>10, <3>1, <3>2 DEF TypeOK, ColumnSets
      <4>2. ~Open(e)'
        BY <4>1 DEF Open
      <4> QED
        BY <1>1, <1>6, <2>2, <4>2, NothingAdded
    <3>3. CASE row[h].lockedBy # p
      <4>1. row'[e] = row[e]
        BY <3>1, <3>3
      <4>2. Open(e)' => Open(e)
        <5>1. \A q \in Publishers \ {p} : AtWorkOn(q, e)' <=> AtWorkOn(q, e)
          BY <1>4, Local
        <5> QED
          BY <1>10, <3>3, <4>1, <5>1 DEF Open
      <4> QED
        BY <1>1, <1>6, <2>2, <4>2, NothingAdded
    <3> QED
      BY <3>2, <3>3
  <2> QED
    BY <1>1, <2>3, <2>4, <2>5 DEF MarkFailed
<1> QED
  BY <1>9, <1>10

LEMMA LifeExplained ==
  ASSUME OutboxAssumption, IInv, TypeOK', NEW e \in Events, Explained(e), NEW p \in Publishers,
         Stop(p) \/ Exit(p) \/ Crash(p) \/ Start(p)
  PROVE  Explained(e)'
<1>1. TypeOK /\ UNCHANGED queue
  BY DEF IInv, Stop, Exit, Crash, Start
<1>2. OnlyOf(p)
  BY <1>1 DEF OnlyOf, TypeOK, Stop, Exit, Crash, Start
<1>3. Copies(e)' <= Copies(e)
  BY <1>1, CountsAreNumbers DEF Copies
<1>4. CASE Stop(p)
  <2>1. failures' = failures + 1 /\ UNCHANGED <<row, batch>>
    BY <1>4 DEF Stop, Fail
  <2>2. ToSend(e)' \subseteq ToSend(e) \cup {p} /\ (Open(e)' => Open(e))
    BY <1>2, <2>1, Local DEF AtWorkOn
  <2> QED
    BY <1>1, <1>3, <2>1, <2>2, FailurePays
<1>5. CASE Crash(p)
  <2>1. failures' = failures + 1 /\ batch'[p] = <<>>
    BY <1>1, <1>5 DEF Crash, Fail, TypeOK
  <2>2. p \notin ToSend(e)'
    BY <2>1 DEF ToSend, AtWorkOn, Within
  <2>3. ToSend(e)' \subseteq ToSend(e)
    BY <1>2, <2>2, Local
  <2> QED
    BY <1>1, <1>3, <2>1, <2>3, FailurePays
<1>6. CASE Exit(p) \/ Start(p)
  <2>1. batch[p] = <<>> /\ batch' = batch /\ failures' >= failures
    <3>1. pc[p] \in {"idle", "stopped"} /\ batch' = batch /\ failures' = failures
      BY <1>6 DEF Exit, Start
    <3>2. batch[p] = <<>>
      BY <1>1, <3>1 DEF TypeOK
    <3> QED
      BY <3>1, <3>2, CountsAreNumbers, <1>1
  <2>2. ~AtWorkOn(p, e) /\ p \notin ToSend(e)' /\ \A q \in Publishers : AtWorkOn(q, e)' <=> AtWorkOn(q, e)
    BY <2>1 DEF ToSend, AtWorkOn, Within
  <2>3. ToSend(e)' \subseteq ToSend(e)
    BY <1>2, <2>2, Local
  <2>4. Open(e)' => Open(e)
    <3>1. row[e] \in ColumnSets
      BY <1>1 DEF TypeOK
    <3>2. \/ row'[e] = row[e]
          \/ row[e].lockedBy = p /\ row'[e] = [row[e] EXCEPT !.lockedBy = Gone]
      BY <1>6 DEF Exit, Start
    <3> QED
      BY <2>2, <3>1, <3>2 DEF Open, ColumnSets
  <2> QED
    BY <1>1, <1>3, <2>1, <2>3, <2>4, NothingAdded
<1> QED
  BY <1>4, <1>5, <1>6

LEMMA NextKeepsDInv == ASSUME OutboxAssumption, DInv, [Next]_vars PROVE DInv'
<1>1. IInv /\ BatchesDistinct /\ \A e \in Events : Explained(e)
  BY DEF DInv
<1>2. IInv' /\ TypeOK'
  BY <1>1, NextKeepsIInv DEF IInv
<1>3. CASE UNCHANGED vars
  <2>1. BatchesDistinct'
    BY <1>1, <1>3 DEF vars, BatchesDistinct
  <2>2. \A e \in Events : Explained(e)'
    BY <1>1, <1>3 DEF vars, Explained, Copies, ToSend, AtWorkOn, OpenCount, Open
  <2> QED
    BY <1>2, <2>1, <2>2 DEF DInv
<1>4. CASE Next
  <2>1. BatchesDistinct'
    BY <1>1, <1>4, DistinctKept DEF BatchesDistinct
  <2>2. ASSUME NEW e \in Events PROVE Explained(e)'
    <3>1. Explained(e)
      BY <1>1
    <3>2. ASSUME NEW f \in Events,
                 \/ AppendEvent(f) \/ BackoffElapses(f) \/ LeaseExpires(f)
                 \/ LeaseExpiresEarly(f) \/ WindowCloses(f)
          PROVE  Explained(e)'
      BY <1>1, <1>2, <3>1, <3>2, TimeExplained
    <3>3. ASSUME NEW p \in Publishers, Claim(p) \/ ClaimUnanswered(p) PROVE Explained(e)'
      BY <1>1, <1>2, <3>1, <3>3, ClaimExplained
    <3>4. ASSUME NEW p \in Publishers, Publish(p) \/ PublishFails(p) \/ PublishCancelled(p)
          PROVE  Explained(e)'
      BY <1>1, <1>2, <3>1, <3>4, PublishExplained
    <3>5. ASSUME NEW p \in Publishers, MarkPublished(p) \/ MarkFailed(p) \/ MarkFails(p)
          PROVE  Explained(e)'
      BY <1>1, <1>2, <3>1, <3>5, MarkExplained
    <3>6. ASSUME NEW p \in Publishers, Stop(p) \/ Exit(p) \/ Crash(p) \/ Start(p) PROVE Explained(e)'
      BY <1>1, <1>2, <3>1, <3>6, LifeExplained
    <3>7. ASSUME NEW p \in Publishers, EmptyPoll(p) PROVE UNCHANGED vars
      BY <3>7 DEF EmptyPoll
    <3> QED
      BY <1>3, <1>4, <3>1, <3>2, <3>3, <3>4, <3>5, <3>6, <3>7 DEF Next, PublisherStep, DInv
  <2> QED
    BY <1>2, <2>1, <2>2 DEF DInv
<1> QED
  BY <1>3, <1>4

LEMMA InitDInv == ASSUME OutboxAssumption, Init PROVE DInv
<1>1. IInv
  BY InitIInv
<1>2. BatchesDistinct
  BY DEF Init, BatchesDistinct, NoRepeats
<1>3. ASSUME NEW e \in Events PROVE Explained(e)
  <2>1. Places(e, <<>>) = {} /\ ToSend(e) = {}
    BY DEF Init, Places, ToSend, AtWorkOn, Within
  <2>2. Copies(e) = 0 /\ Cardinality(ToSend(e)) = 0
    BY <2>1, FS_EmptySet DEF Init, Copies, OutboxAssumption
  <2>3. OpenCount(e) <= 1 /\ OpenCount(e) \in Nat /\ failures = 0
    BY DEF Init, OpenCount
  <2> QED
    BY <2>2, <2>3 DEF Explained
<1> QED
  BY <1>1, <1>2, <1>3 DEF DInv

LEMMA AlwaysDInv == Spec => []DInv
<1>1. Init => DInv
  BY OutboxAssumption, InitDInv
<1>2. DInv /\ [Next]_vars => DInv'
  BY OutboxAssumption, NextKeepsDInv
<1> QED
  BY <1>1, <1>2, PTL DEF Spec

\* Competing publishers never send an event twice: every copy after the first is paid for by a
\* failed call, a lost answer, a stop, a crash or a lease that ran out too early.
THEOREM DuplicatesCorrect == Spec => []DuplicatesAreExplained
<1>1. DInv => DuplicatesAreExplained
  <2> SUFFICES ASSUME DInv, NEW e \in Events PROVE Copies(e) <= 1 + failures
    BY DEF DuplicatesAreExplained
  <2>1. TypeOK /\ Explained(e)
    BY DEF DInv, IInv
  <2>2. Copies(e) \in Nat /\ failures \in Nat
    BY <2>1, PlacesParts, OutboxAssumption DEF Copies, TypeOK, OutboxAssumption
  <2>3. Cardinality(ToSend(e)) \in Nat
    BY OutboxAssumption, Counted DEF ToSend
  <2>4. OpenCount(e) \in {0, 1}
    BY DEF OpenCount
  <2> QED
    BY <2>1, <2>2, <2>3, <2>4 DEF Explained
<1> QED
  BY <1>1, AlwaysDInv, PTL

-----------------------------------------------------------------------------
(* The theorem on order: until something fails, an event is only ever      *)
(* overtaken by one that another publisher is sending.                     *)

(* The inductive invariant: what should come before an event at hand is    *)
(* sent, in somebody else's hands or further ahead in the batch.           *)

Earlier(f, e) == AggregateOf[f] = AggregateOf[e] /\ OccurredAt[f] < OccurredAt[e]

OwnAggregate == \A a \in Aggregates : \A i \in 1..Len(outbox[a]) : AggregateOf[outbox[a][i]] = a
AppendedInTurn == \A e, f \in Events : Earlier(f, e) /\ Appended(e) => Appended(f)

\* While nothing fails, a row is leased exactly as long as its holder is at work on it.
Calm ==
  /\ \A p \in Publishers : ~stopping[p] /\ pc[p] \in {"idle", "publish", "mark_published"}
  /\ \A e \in Events : /\ row[e].due
                       /\ row[e].lockedBy # None => ~row[e].expired /\ HolderAtWork(e)
  /\ \A p \in Publishers, e \in Events : AtWorkOn(p, e) => row[e].lockedBy = p

Ahead(f, p, i) == \E j \in 1..(i - 1) : batch[p][j] = f
WithOther(f, p) == \E q \in Publishers \ {p} : AtWorkOn(q, f)
InTurn(p) ==
  \A i \in 1..Len(batch[p]) : \A f \in Events :
    Earlier(f, batch[p][i]) => Sent(f) \/ WithOther(f, p) \/ Ahead(f, p, i)

OInv ==
  /\ OwnAggregate /\ AppendedInTurn
  /\ failures = 0 => Calm /\ \A p \in Publishers : InTurn(p)

-----------------------------------------------------------------------------
(* Every step keeps the order. *)

\* A claim takes the earliest rows it may, in their order.
LEMMA EarliestClaimed ==
  ASSUME OutboxAssumption, Claimable # {}, NEW b \in Batches
  PROVE  /\ \A i, j \in 1..Len(b) : i < j => OccurredAt[b[i]] <= OccurredAt[b[j]]
         /\ \A i \in 1..Len(b), e \in Claimable : Within(e, b) \/ OccurredAt[b[i]] <= OccurredAt[e]
<1> DEFINE left == Cardinality(Claimable)
           n == IF left < BatchSize THEN left ELSE BatchSize
<1>1. Claimable \subseteq Events /\ IsFiniteSet(Claimable)
  BY FS_Subset DEF Claimable, OutboxAssumption
<1>2. left \in Nat /\ left # 0
  BY <1>1, FS_CardinalityType, FS_EmptySet
<1>3. n \in Nat /\ n # 0
  BY <1>2 DEF OutboxAssumption
<1>4. /\ b \in [1..n -> Claimable]
      /\ \A i, j \in 1..n : i < j => OccurredAt[b[i]] <= OccurredAt[b[j]]
      /\ \A e \in Claimable : Within(e, b) \/ OccurredAt[b[n]] <= OccurredAt[e]
  BY DEF Batches
<1> HIDE DEF n
<1>5. Len(b) = n /\ n \in 1..n
  BY <1>3, <1>4
<1>6. \A e \in Events : OccurredAt[e] \in Nat
  BY DEF OutboxAssumption
<1>7. ASSUME NEW i \in 1..n, NEW e \in Claimable, ~Within(e, b) PROVE OccurredAt[b[i]] <= OccurredAt[e]
  <2>1. OccurredAt[b[i]] \in Nat /\ OccurredAt[b[n]] \in Nat /\ OccurredAt[e] \in Nat
    BY <1>1, <1>4, <1>5, <1>6
  <2>2. OccurredAt[b[n]] <= OccurredAt[e]
    BY <1>4, <1>7
  <2>3. OccurredAt[b[i]] <= OccurredAt[b[n]]
    <3>1. CASE i = n
      BY <2>1, <3>1
    <3>2. CASE i < n
      BY <1>4, <1>5, <3>2
    <3> QED
      BY <1>3, <3>1, <3>2
  <2> QED
    BY <2>1, <2>2, <2>3
<1> QED
  BY <1>4, <1>5, <1>7

LEMMA AppendAdds ==
  ASSUME NEW s \in Seq(Events), NEW e \in Events
  PROVE  /\ Len(Append(s, e)) = Len(s) + 1 /\ Len(s) \in Nat
         /\ Append(s, e)[Len(s) + 1] = e
         /\ \A i \in 1..Len(s) : Append(s, e)[i] = s[i]
         /\ \A f \in Events : Within(f, Append(s, e)) => Within(f, s) \/ f = e
<1>1. /\ Len(Append(s, e)) = Len(s) + 1 /\ Len(s) \in Nat
      /\ Append(s, e)[Len(s) + 1] = e
      /\ \A i \in 1..Len(s) : Append(s, e)[i] = s[i]
  OBVIOUS
<1> QED
  BY <1>1 DEF Within

LEMMA CommitsInTurn ==
  ASSUME OutboxAssumption, IInv, OwnAggregate, AppendedInTurn, NEW e \in Events, AppendEvent(e)
  PROVE  OwnAggregate' /\ AppendedInTurn'
<1> DEFINE a == AggregateOf[e]
<1>1. a \in Aggregates /\ outbox[a] \in Seq(Events) /\ outbox' = [outbox EXCEPT ![a] = Append(outbox[a], e)]
  BY DEF OutboxAssumption, IInv, TypeOK, AppendEvent
<1>2. outbox'[a] = Append(outbox[a], e) /\ \A b \in Aggregates \ {a} : outbox'[b] = outbox[b]
  BY <1>1 DEF IInv, TypeOK
<1>3. /\ Len(outbox'[a]) = Len(outbox[a]) + 1 /\ Len(outbox[a]) \in Nat
      /\ outbox'[a][Len(outbox[a]) + 1] = e
      /\ \A i \in 1..Len(outbox[a]) : outbox'[a][i] = outbox[a][i]
      /\ \A f \in Events : Within(f, outbox'[a]) => Within(f, outbox[a]) \/ f = e
  BY <1>1, <1>2, AppendAdds
<1>4. OwnAggregate'
  <2> SUFFICES ASSUME NEW b \in Aggregates, NEW i \in 1..Len(outbox'[b])
               PROVE  AggregateOf[outbox'[b][i]] = b
    BY DEF OwnAggregate
  <2>1. CASE b = a
    <3>1. i \in 1..Len(outbox[a]) \/ i = Len(outbox[a]) + 1
      BY <1>3, <2>1
    <3> QED
      BY <1>3, <2>1, <3>1 DEF OwnAggregate
  <2>2. CASE b # a
    BY <1>2, <2>2 DEF OwnAggregate
  <2> QED
    BY <2>1, <2>2
<1>5. \A f \in Events : Appended(f) => Appended(f)'
  BY <1>1, <1>2, AppendParts DEF Appended, OutboxAssumption
<1>6. \A f \in Events : Appended(f)' => Appended(f) \/ f = e
  BY <1>2, <1>3 DEF Appended, OutboxAssumption
<1>7. ASSUME NEW g \in Events, NEW f \in Events, Earlier(f, g), Appended(g)' PROVE Appended(f)'
  <2>1. CASE Appended(g)
    BY <1>5, <1>7, <2>1 DEF AppendedInTurn
  <2>2. CASE g = e
    <3>1. AggregateOf[f] = a /\ OccurredAt[f] < OccurredAt[e]
      BY <1>7, <2>2 DEF Earlier
    <3>2. ~Appended(f) => OccurredAt[e] <= OccurredAt[f]
      BY <3>1 DEF AppendEvent
    <3>3. OccurredAt[e] \in Nat /\ OccurredAt[f] \in Nat
      BY DEF OutboxAssumption
    <3> QED
      BY <1>5, <3>1, <3>2, <3>3
  <2> QED
    BY <1>6, <1>7, <2>1, <2>2
<1> QED
  BY <1>4, <1>7 DEF AppendedInTurn, Earlier

\* Until something fails these are all the steps there are.
LEMMA CalmSteps ==
  ASSUME OutboxAssumption, IInv, Calm, failures = 0, failures' = 0, Next
  PROVE  \/ \E e \in Events : AppendEvent(e) \/ WindowCloses(e)
         \/ \E p \in Publishers : Claim(p) \/ Publish(p) \/ MarkPublished(p)
         \/ UNCHANGED vars
<1>1. ~Fail
  BY DEF Fail
<1>2. \A e \in Events : ~BackoffElapses(e) /\ ~LeaseExpires(e) /\ ~LeaseExpiresEarly(e)
  BY <1>1 DEF Calm, BackoffElapses, LeaseExpires, LeaseExpiresEarly, LeaseRunsOut
<1>3. ASSUME NEW p \in Publishers
      PROVE  /\ ~ClaimUnanswered(p) /\ ~PublishFails(p) /\ ~PublishCancelled(p) /\ ~MarkFailed(p)
             /\ ~MarkFails(p) /\ ~Stop(p) /\ ~Crash(p) /\ ~Exit(p) /\ ~Start(p)
             /\ EmptyPoll(p) => UNCHANGED vars
  BY <1>1 DEF Calm, ClaimUnanswered, PublishFails, PublishCancelled, MarkFailed, MarkFails, Stop, Crash,
     Exit, Start, EmptyPoll
<1> QED
  BY <1>2, <1>3 DEF Next, PublisherStep

\* Nothing changes hands, and the queue forgets nothing it has.
LEMMA TurnsFrame ==
  ASSUME UNCHANGED batch, \A f \in Events : Sent(f) => Sent(f)', \A p \in Publishers : InTurn(p)
  PROVE  \A p \in Publishers : InTurn(p)'
<1> SUFFICES ASSUME NEW p \in Publishers PROVE InTurn(p)'
  OBVIOUS
<1>1. \A f \in Events : WithOther(f, p)' <=> WithOther(f, p)
  BY DEF WithOther, AtWorkOn
<1>2. \A f \in Events, i \in 1..Len(batch[p]) : Ahead(f, p, i)' <=> Ahead(f, p, i)
  BY DEF Ahead
<1> QED
  BY <1>1, <1>2 DEF InTurn, Earlier

LEMMA CalmFrame ==
  ASSUME Calm, UNCHANGED <<row, batch, stopping>>,
         \A p \in Publishers : pc'[p] \in {"idle", "publish", "mark_published"}
  PROVE  Calm'
BY DEF Calm, HolderAtWork, AtWorkOn

LEMMA ClaimKeepsTurns ==
  ASSUME OutboxAssumption, IInv, AppendedInTurn, Calm, \A q \in Publishers : InTurn(q),
         NEW p \in Publishers, Claim(p)
  PROVE  Calm' /\ \A q \in Publishers : InTurn(q)'
<1>1. PICK b \in Batches : Lease(p, b) /\ batch' = [batch EXCEPT ![p] = b]
  BY DEF Claim
<1>2. /\ TypeOK /\ PublishedMeansSent /\ BatchesOK /\ Claimable # {} /\ batch[p] = <<>>
      /\ pc' = [pc EXCEPT ![p] = "publish"] /\ UNCHANGED <<outbox, stopping, queue>>
  BY DEF Claim, IInv, TypeOK
<1>3. batch'[p] = b /\ pc'[p] = "publish" /\ \A q \in Publishers \ {p} : batch'[q] = batch[q] /\ pc'[q] = pc[q]
  BY <1>1, <1>2 DEF TypeOK
<1>4. /\ b \in Seq(Events) /\ Len(b) \in Nat
      /\ \A e \in Events : Within(e, b) => MayClaim(e)
      /\ \A i, j \in 1..Len(b) : i < j => OccurredAt[b[i]] <= OccurredAt[b[j]]
      /\ \A i \in 1..Len(b), e \in Claimable : Within(e, b) \/ OccurredAt[b[i]] <= OccurredAt[e]
  BY <1>2, BatchOfClaim, EarliestClaimed
<1>5. /\ \A e \in Events : ~AtWorkOn(p, e) /\ (AtWorkOn(p, e)' <=> Within(e, b))
      /\ \A q \in Publishers \ {p}, e \in Events : AtWorkOn(q, e)' <=> AtWorkOn(q, e)
  BY <1>2, <1>3 DEF AtWorkOn, Within
<1>6. \A e \in Events : MayClaim(e) => row[e].lockedBy = None
  BY DEF Calm, MayClaim
<1>7. ASSUME NEW e \in Events
      PROVE  /\ row'[e].due /\ (row'[e].lockedBy # None => ~row'[e].expired /\ HolderAtWork(e)')
             /\ \A q \in Publishers : AtWorkOn(q, e)' => row'[e].lockedBy = q
  <2>1. row[e] \in ColumnSets /\
        row'[e] = IF Within(e, b) THEN [row[e] EXCEPT !.lockedBy = p, !.expired = FALSE] ELSE row[e]
    BY <1>1, <1>2 DEF Lease, TypeOK
  <2>2. CASE Within(e, b)
    <3>1. row'[e].lockedBy = p /\ ~row'[e].expired /\ row'[e].due = row[e].due
      BY <2>1, <2>2 DEF ColumnSets
    <3>2. row[e].lockedBy = None /\ None \notin Publishers
      BY <1>4, <1>6, <2>2 DEF OutboxAssumption
    <3>3. \A q \in Publishers : AtWorkOn(q, e)' => q = p
      BY <1>5, <3>2 DEF Calm
    <3>4. AtWorkOn(p, e)'
      BY <1>5, <2>2
    <3> QED
      BY <3>1, <3>3, <3>4 DEF Calm, HolderAtWork
  <2>3. CASE ~Within(e, b)
    <3>1. row'[e] = row[e] /\ \A q \in Publishers : AtWorkOn(q, e)' <=> AtWorkOn(q, e)
      BY <1>5, <2>1, <2>3
    <3> QED
      BY <3>1 DEF Calm, HolderAtWork
  <2> QED
    BY <2>2, <2>3
<1>8. Calm'
  <2>1. \A q \in Publishers : ~stopping'[q] /\ pc'[q] \in {"idle", "publish", "mark_published"}
    BY <1>2, <1>3 DEF Calm
  <2> QED
    BY <1>7, <2>1 DEF Calm
<1>9. \A f \in Events : Sent(f)' <=> Sent(f)
  BY <1>2 DEF Sent
<1>10. ASSUME NEW q \in Publishers \ {p} PROVE InTurn(q)'
  <2>1. \A f \in Events : WithOther(f, q) => WithOther(f, q)'
    BY <1>5 DEF WithOther
  <2>2. \A f \in Events, i \in 1..Len(batch[q]) : Ahead(f, q, i)' <=> Ahead(f, q, i)
    BY <1>3 DEF Ahead
  <2> QED
    BY <1>3, <1>9, <2>1, <2>2 DEF InTurn, Earlier
<1>11. InTurn(p)'
  <2> SUFFICES ASSUME NEW i \in 1..Len(b), NEW f \in Events, Earlier(f, b[i])
               PROVE  Sent(f)' \/ WithOther(f, p)' \/ Ahead(f, p, i)'
    BY <1>3 DEF InTurn, Earlier
  <2>1. b[i] \in Events /\ Within(b[i], b)
    BY <1>4 DEF Within
  <2>2. Appended(f)
    BY <1>4, <2>1 DEF AppendedInTurn, MayClaim
  <2>3. /\ OccurredAt[f] < OccurredAt[b[i]]
        /\ OccurredAt[f] \in Nat /\ OccurredAt[b[i]] \in Nat
    BY <2>1 DEF Earlier, OutboxAssumption
  <2>4. CASE Within(f, b)
    <3>1. PICK j \in 1..Len(b) : b[j] = f
      BY <2>4 DEF Within
    <3>2. ~(i < j) /\ i # j
      BY <1>4, <2>3, <3>1
    <3>3. j \in 1..(i - 1)
      BY <1>4, <3>2
    <3> QED
      BY <1>3, <3>1, <3>3 DEF Ahead
  <2>5. CASE ~Within(f, b)
    <3>1. ~MayClaim(f)
      BY SMTT(30), <1>4, <2>3, <2>5 DEF Claimable
    <3>2. CASE row[f].published
      BY <1>2, <1>9, <3>2 DEF PublishedMeansSent
    <3>3. CASE row[f].lockedBy # None
      <4>1. PICK q \in Publishers : AtWorkOn(q, f)
        BY <3>3 DEF Calm, HolderAtWork
      <4>2. q # p /\ AtWorkOn(q, f)'
        BY <1>5, <4>1
      <4> QED
        BY <4>2 DEF WithOther
    <3> QED
      BY <2>2, <3>1, <3>2, <3>3 DEF MayClaim, Calm
  <2> QED
    BY <2>4, <2>5
<1> QED
  BY <1>8, <1>10, <1>11

\* An event marked published was sent: it need not be ahead of the others any more.
LEMMA MarkKeepsTurns ==
  ASSUME OutboxAssumption, IInv, BatchesDistinct, Calm, \A q \in Publishers : InTurn(q),
         NEW p \in Publishers, MarkPublished(p)
  PROVE  Calm' /\ \A q \in Publishers : InTurn(q)'
<1> PICK h : h = Head(batch[p])
  OBVIOUS
<1>1. TypeOK /\ pc[p] = "mark_published" /\ Proceed(p) /\ UNCHANGED <<outbox, stopping, queue>>
  BY DEF IInv, MarkPublished
<1>2. batch[p] \in Seq(Events) /\ batch[p] # <<>> /\ h \in Events /\ AtWorkOn(p, h) /\ Sent(h)
  BY <1>1, HeadParts DEF IInv, BatchesOK, TypeOK
<1>3. /\ batch'[p] = Tail(batch[p]) /\ pc'[p] \in {"idle", "publish"}
      /\ \A q \in Publishers \ {p} : batch'[q] = batch[q] /\ pc'[q] = pc[q]
  BY <1>1 DEF Proceed, TypeOK
<1>4. /\ Len(batch[p]) \in Nat /\ Len(batch[p]) > 0 /\ batch[p][1] = h
      /\ Len(Tail(batch[p])) = Len(batch[p]) - 1
      /\ \A i \in 1..Len(Tail(batch[p])) : Tail(batch[p])[i] = batch[p][i + 1]
  BY <1>2
<1>5. /\ ~Within(h, Tail(batch[p]))
      /\ \A e \in Events : e # h => (Within(e, batch[p]) <=> Within(e, Tail(batch[p])))
  BY <1>2, BatchParts, TailDrops DEF BatchesDistinct
<1>6. \A q \in Publishers, e \in Events : AtWorkOn(q, e)' <=> AtWorkOn(q, e) /\ ~(q = p /\ e = h)
  BY <1>3, <1>5 DEF AtWorkOn
<1>7. row[h] \in ColumnSets /\ row[h].lockedBy = p
  BY <1>1, <1>2 DEF TypeOK, Calm
<1>8. row' = [row EXCEPT ![h] = [row[h] EXCEPT !.published = TRUE, !.expired = FALSE, !.lockedBy = None]]
  BY <1>7 DEF MarkPublished, Mark
<1>9. /\ row'[h].lockedBy = None /\ row'[h].due = row[h].due
      /\ \A e \in Events \ {h} : row'[e] = row[e]
  BY <1>1, <1>2, <1>7, <1>8 DEF TypeOK, ColumnSets
<1>10. \A q \in Publishers : AtWorkOn(q, h) => q = p
  BY <1>2, <1>7 DEF Calm
<1>11. Calm'
  <2>1. \A q \in Publishers : ~stopping'[q] /\ pc'[q] \in {"idle", "publish", "mark_published"}
    BY <1>1, <1>3 DEF Calm
  <2>2. ASSUME NEW e \in Events
        PROVE  /\ row'[e].due /\ (row'[e].lockedBy # None => ~row'[e].expired /\ HolderAtWork(e)')
               /\ \A q \in Publishers : AtWorkOn(q, e)' => row'[e].lockedBy = q
    <3>1. CASE e = h
      BY <1>2, <1>6, <1>9, <1>10, <3>1 DEF Calm
    <3>2. CASE e # h
      <4>1. row'[e] = row[e] /\ \A q \in Publishers : AtWorkOn(q, e)' <=> AtWorkOn(q, e)
        BY <1>6, <1>9, <3>2
      <4> QED
        BY <4>1 DEF Calm, HolderAtWork
    <3> QED
      BY <3>1, <3>2
  <2> QED
    BY <2>1, <2>2 DEF Calm
<1>12. \A f \in Events : Sent(f)' <=> Sent(f)
  BY <1>1 DEF Sent
<1>13. \A f \in Events, q \in Publishers : WithOther(f, q) => WithOther(f, q)' \/ Sent(f)
  BY <1>2, <1>6 DEF WithOther
<1>14. ASSUME NEW q \in Publishers \ {p} PROVE InTurn(q)'
  <2>1. \A f \in Events, i \in 1..Len(batch[q]) : Ahead(f, q, i)' <=> Ahead(f, q, i)
    BY <1>3 DEF Ahead
  <2> QED
    BY <1>3, <1>12, <1>13, <2>1 DEF InTurn, Earlier
<1>15. InTurn(p)'
  <2> SUFFICES ASSUME NEW i \in 1..Len(Tail(batch[p])), NEW f \in Events, Earlier(f, Tail(batch[p])[i]),
                      ~Sent(f), ~WithOther(f, p)'
               PROVE  Ahead(f, p, i)'
    BY <1>3, <1>12 DEF InTurn, Earlier
  <2>1. i + 1 \in 1..Len(batch[p]) /\ Earlier(f, batch[p][i + 1])
    BY <1>4
  <2>2. Ahead(f, p, i + 1)
    BY <1>13, <2>1 DEF InTurn
  <2>3. PICK j \in 1..i : batch[p][j] = f
    BY <1>4, <2>2 DEF Ahead
  <2>4. j # 1
    BY <1>2, <1>4, <2>3
  <2>5. j - 1 \in 1..(i - 1) /\ j - 1 \in 1..Len(Tail(batch[p])) /\ Tail(batch[p])[j - 1] = f
    BY <1>4, <2>3, <2>4
  <2> QED
    BY <1>3, <2>5 DEF Ahead
<1> QED
  BY <1>11, <1>14, <1>15

LEMMA NextKeepsOInv ==
  ASSUME OutboxAssumption, DInv, OInv, [Next]_vars PROVE OInv'
<1>0. IInv /\ TypeOK /\ WindowSent /\ BatchesDistinct
  BY DEF DInv, IInv
<1>1. OwnAggregate' /\ AppendedInTurn'
  <2>1. ASSUME NEW e \in Events, AppendEvent(e) PROVE OwnAggregate' /\ AppendedInTurn'
    BY <1>0, <2>1, CommitsInTurn DEF OInv
  <2>2. CASE UNCHANGED outbox
    BY <2>2 DEF OInv, OwnAggregate, AppendedInTurn, Appended, Earlier
  <2>3. (\E e \in Events : AppendEvent(e)) \/ UNCHANGED outbox
    BY DEF Next, PublisherStep, vars, BackoffElapses, LeaseExpires, LeaseExpiresEarly, LeaseRunsOut,
       WindowCloses, Claim, ClaimUnanswered, Publish, PublishFails, PublishCancelled, MarkPublished,
       MarkFailed, MarkFails, EmptyPoll, Stop, Exit, Crash, Start
  <2> QED
    BY <2>1, <2>2, <2>3
<1>2. failures \in Nat /\ (failures' = failures \/ failures' = failures + 1)
  BY <1>0 DEF TypeOK, Fail, Next, PublisherStep, vars, AppendEvent, BackoffElapses, LeaseExpires,
     LeaseExpiresEarly, LeaseRunsOut, WindowCloses, Claim, ClaimUnanswered, Publish, PublishFails,
     PublishCancelled, MarkPublished, MarkFailed, MarkFails, EmptyPoll, Stop, Exit, Crash, Start
<1>3. ASSUME failures' = 0 PROVE Calm' /\ \A p \in Publishers : InTurn(p)'
  <2>1. failures = 0
    BY <1>2, <1>3
  <2>2. Calm /\ AppendedInTurn /\ \A p \in Publishers : InTurn(p)
    BY <2>1 DEF OInv
  <2>3. CASE UNCHANGED vars
    BY <2>2, <2>3, TurnsFrame, CalmFrame DEF vars, Calm, Sent
  <2>4. ASSUME NEW e \in Events, AppendEvent(e) \/ WindowCloses(e)
        PROVE  Calm' /\ \A p \in Publishers : InTurn(p)'
    <3>1. UNCHANGED <<row, pc, batch, stopping, queue>>
      BY <2>4 DEF AppendEvent, WindowCloses
    <3> QED
      BY <2>2, <3>1, TurnsFrame, CalmFrame DEF Calm, Sent
  <2>5. ASSUME NEW p \in Publishers, Claim(p) PROVE Calm' /\ \A q \in Publishers : InTurn(q)'
    BY <1>0, <2>2, <2>5, ClaimKeepsTurns
  <2>6. ASSUME NEW p \in Publishers, MarkPublished(p) PROVE Calm' /\ \A q \in Publishers : InTurn(q)'
    BY <1>0, <2>2, <2>6, MarkKeepsTurns
  <2>7. ASSUME NEW p \in Publishers, Publish(p) PROVE Calm' /\ \A q \in Publishers : InTurn(q)'
    <3>1. pc[p] = "publish" /\ Take(Head(batch[p])) /\ UNCHANGED <<row, batch, stopping>>
          /\ pc' = [pc EXCEPT ![p] = "mark_published"]
      BY <2>7 DEF Publish
    <3>2. \A f \in Events : Sent(f) => Sent(f)'
      BY <1>0, <3>1, HeadParts, TakeParts
    <3>3. \A q \in Publishers : pc'[q] \in {"idle", "publish", "mark_published"}
      BY <1>0, <2>2, <3>1 DEF TypeOK, Calm
    <3> QED
      BY <2>2, <3>1, <3>2, <3>3, TurnsFrame, CalmFrame
  <2> QED
    BY <1>0, <1>3, <2>1, <2>2, <2>3, <2>4, <2>5, <2>6, <2>7, CalmSteps
<1> QED
  BY <1>1, <1>3 DEF OInv

\* The queue takes an event only from a publisher that has come to it.
LEMMA OnlyHeadsSent ==
  ASSUME OutboxAssumption, IInv, [Next]_vars, NEW e \in Events, ~Sent(e), Sent(e)'
  PROVE  \E p \in Publishers : pc[p] = "publish" /\ Head(batch[p]) = e
<1>1. queue' # queue
  BY DEF Sent
<1>2. PICK p \in Publishers : pc[p] = "publish" /\ Take(Head(batch[p]))
  BY <1>1 DEF Next, PublisherStep, vars, AppendEvent, BackoffElapses, LeaseExpires, LeaseExpiresEarly,
     LeaseRunsOut, WindowCloses, Claim, ClaimUnanswered, Publish, PublishFails, PublishCancelled,
     MarkPublished, MarkFailed, MarkFails, EmptyPoll, Stop, Exit, Crash, Start
<1> PICK h : h = Head(batch[p])
  OBVIOUS
<1>3. h \in Events /\ AggregateOf[h] \in Aggregates /\ queue \in [Aggregates -> Seq(Events)]
  BY <1>2, HeadParts DEF IInv, TypeOK, OutboxAssumption
<1>4. queue' = [queue EXCEPT ![AggregateOf[h]] = Append(queue[AggregateOf[h]], h)]
  BY <1>1, <1>2 DEF Take
<1>5. AggregateOf[e] = AggregateOf[h] /\ Within(e, Append(queue[AggregateOf[h]], h))
  BY <1>3, <1>4 DEF Sent, OutboxAssumption
<1>6. e = h
  BY <1>3, <1>5, AppendAdds DEF Sent
<1> QED
  BY <1>2, <1>6

\* As long as nothing fails, an event is overtaken only by one that another publisher is
\* sending: one publisher keeps the order of an aggregate, and so do several whose claims do
\* not split it (outbox_publisher_repository_postgres.go, publish_outbox_events.go).
THEOREM RivalCorrect == Spec => OvertakenOnlyByRival
<1>1. Init => OInv
  <2> SUFFICES ASSUME Init PROVE OInv
    OBVIOUS
  <2>1. \A e \in Events, p \in Publishers : ~AtWorkOn(p, e)
    BY DEF Init, AtWorkOn, Within
  <2>2. OwnAggregate /\ AppendedInTurn
    <3>1. \A a \in Aggregates : Len(outbox[a]) = 0
      BY DEF Init
    <3>2. OwnAggregate
      BY <3>1 DEF OwnAggregate
    <3>3. AppendedInTurn
      <4>1. \A e \in Events : ~Within(e, outbox[AggregateOf[e]])
        BY <3>1, OutboxAssumption DEF Within, OutboxAssumption
      <4> QED
        BY <4>1 DEF AppendedInTurn, Appended
    <3> QED
      BY <3>2, <3>3
  <2>3. Calm
    BY <2>1 DEF Init, Calm, Columns
  <2>4. \A p \in Publishers : Len(batch[p]) = 0
    BY DEF Init
  <2>5. \A p \in Publishers : InTurn(p)
    BY <2>4 DEF InTurn
  <2> QED
    BY <2>2, <2>3, <2>5 DEF OInv
<1>2. DInv /\ OInv /\ [Next]_vars => OInv'
  BY OutboxAssumption, NextKeepsOInv
<1>3. DInv /\ OInv /\ [Next]_vars =>
        \A e, f \in Events :
          ( /\ failures = 0
            /\ Precedes(f, e)
            /\ OccurredAt[f] < OccurredAt[e]
            /\ ~Sent(f) /\ ~Sent(e) /\ Sent(e)' ) =>
            \E p, q \in Publishers : p # q /\ AtWorkOn(p, e) /\ AtWorkOn(q, f)
  <2> SUFFICES ASSUME DInv, OInv, [Next]_vars, NEW e \in Events, NEW f \in Events, failures = 0,
                      Precedes(f, e), OccurredAt[f] < OccurredAt[e], ~Sent(f), ~Sent(e), Sent(e)'
               PROVE  \E p, q \in Publishers : p # q /\ AtWorkOn(p, e) /\ AtWorkOn(q, f)
    OBVIOUS
  <2>1. PICK p \in Publishers : pc[p] = "publish" /\ Head(batch[p]) = e
    BY OutboxAssumption, OnlyHeadsSent DEF DInv
  <2>2. AtWorkOn(p, e) /\ batch[p] # <<>> /\ batch[p] \in Seq(Events)
    BY <2>1, HeadParts DEF DInv, IInv, TypeOK
  <2>3. 1 \in 1..Len(batch[p]) /\ batch[p][1] = e
    BY <2>1, <2>2
  <2>4. Earlier(f, e)
    BY OutboxAssumption DEF Precedes, Within, OInv, OwnAggregate, Earlier, OutboxAssumption
  <2>5. WithOther(f, p) \/ Ahead(f, p, 1)
    BY <2>3, <2>4 DEF OInv, InTurn
  <2>6. ~Ahead(f, p, 1)
    BY DEF Ahead
  <2> QED
    BY <2>2, <2>5, <2>6 DEF WithOther
<1> QED
  BY <1>1, <1>2, <1>3, AlwaysDInv, PTL DEF Spec, OvertakenOnlyByRival
=============================================================================
