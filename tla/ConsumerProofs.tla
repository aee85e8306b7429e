--------------------------- MODULE ConsumerProofs ---------------------------
(***************************************************************************)
(* Theorems about WagerConsumer for any messages, groups and consumers,    *)
(* any batch size, redrive policy and number of failures.                  *)
(***************************************************************************)
EXTENDS ConsumerInvariants, SequenceTheorems, TLAPS

Good(m) == Verdict[m] = "good"

\* Some consumer that is not stopping has the message and its valid receipt.
Covered(m) == \E c \in Consumers : hiddenBy[m] = c /\ Holding(c, m) /\ ~stopping[c]

\* What a consumer has at hand was sent; it dead-letters only what can never be processed
\* and deletes only what has an outcome.
HandsOK ==
  \A c \in Consumers :
    /\ \A m \in Messages : Holding(c, m) => Sent(m)
    /\ pc[c] = "dead_letter" => Verdict[Head(batch[c])] = "permanent"
    /\ pc[c] = "delete" => HasOutcome(Head(batch[c]))

\* What precedes a message at hand is dealt with, was left in the queue or comes first in
\* the batch.
AheadOK ==
  \A c \in Consumers : \A j \in 1..Len(batch[c]) : \A m \in Messages :
    Precedes(m, batch[c][j]) =>
      HasOutcome(m) \/ m \in troubled \/ \E i \in 1..(j - 1) : batch[c][i] = m

ProcessedSent == \A m \in processed : Sent(m)

\* Every reception of a message that can be processed is paid for by a failure, but the one
\* under which a consumer is still working on it.
ReceptionsPaid ==
  \A m \in Messages \ gone : Good(m) => receives[m] <= failures + (IF Covered(m) THEN 1 ELSE 0)

IInv ==
  /\ TypeOK
  /\ HandsOK
  /\ NothingIsLost
  /\ AheadOK
  /\ ProcessedSent
  /\ OvertakenOnlyAfterFailure
  /\ ReceptionsPaid
  /\ DeadOnlyIfExhausted

-----------------------------------------------------------------------------
(* Sequences of messages. *)

\* A batch that is not empty begins with a message of its own; Tail drops that one.
LEMMA BatchParts ==
  ASSUME NEW s \in Seq(Messages), s # <<>>
  PROVE  /\ Len(s) \in Nat /\ Len(s) > 0 /\ Head(s) = s[1] /\ Head(s) \in Messages
         /\ Tail(s) \in Seq(Messages) /\ Len(Tail(s)) = Len(s) - 1
         /\ \A i \in 1..Len(Tail(s)) : Tail(s)[i] = s[i + 1]
         /\ Tail(s) = <<>> <=> Len(s) = 1
         /\ Contains(s, Head(s))
         /\ \A m \in Messages : Contains(Tail(s), m) => Contains(s, m)
         /\ \A m \in Messages : Contains(s, m) => m = Head(s) \/ Contains(Tail(s), m)
<1>1. Len(s) \in Nat /\ Len(s) > 0 /\ Head(s) = s[1] /\ Head(s) \in Messages
  OBVIOUS
<1>2. /\ Tail(s) \in Seq(Messages) /\ Len(Tail(s)) = Len(s) - 1
      /\ \A i \in 1..Len(Tail(s)) : Tail(s)[i] = s[i + 1]
  BY <1>1
<1>3. Tail(s) = <<>> <=> Len(s) = 1
  BY <1>1, <1>2, EmptySeq
<1>4. Contains(s, Head(s))
  <2>1. 1 \in 1..Len(s)
    BY <1>1
  <2> QED
    BY <1>1, <2>1 DEF Contains
<1>5. \A m \in Messages : Contains(Tail(s), m) => Contains(s, m)
  BY <1>1, <1>2 DEF Contains
<1>6. ASSUME NEW m \in Messages, Contains(s, m) PROVE m = Head(s) \/ Contains(Tail(s), m)
  <2>1. PICK i \in 1..Len(s) : s[i] = m
    BY <1>6 DEF Contains
  <2>2. CASE i = 1
    BY <1>1, <2>1, <2>2
  <2>3. CASE i # 1
    <3>1. i - 1 \in 1..Len(Tail(s)) /\ (i - 1) + 1 = i
      BY <1>1, <1>2, <2>3
    <3>2. Tail(s)[i - 1] = m
      BY <1>2, <2>1, <3>1
    <3> QED
      BY <3>1, <3>2 DEF Contains
  <2> QED
    BY <2>2, <2>3
<1> QED
  BY <1>1, <1>2, <1>3, <1>4, <1>5, <1>6

\* What a reception returns was offered, after what precedes it.
LEMMA ReceptionParts ==
  ASSUME NEW b \in Receptions
  PROVE  /\ b \in Seq(Messages) /\ b # <<>>
         /\ \A m \in Messages : Contains(b, m) => Offered(m)
         /\ \A i \in 1..Len(b) : \A m \in Messages :
              Waiting(m) /\ Precedes(m, b[i]) => \E j \in 1..(i - 1) : b[j] = m
<1>1. PICK n \in 0..BatchSize : b \in [1..n -> Messages]
  BY Zenon DEF Receptions, SeqOf
<1>2. b \in Seq(Messages)
  BY <1>1
<1> QED
  BY <1>2 DEF Receptions, Contains

\* Sending adds a message behind all others of its group.
LEMMA SendParts ==
  ASSUME ConsumerAssumption, TypeOK, NEW m \in Messages, Send(m)
  PROVE  /\ sent' \in [Groups -> Seq(Messages)]
         /\ \A n \in Messages : Sent(n) => Sent(n)'
         /\ \A k, n \in Messages : Sent(n) /\ Precedes(k, n)' => Precedes(k, n)
<1> DEFINE g == GroupOf[m]
           s == sent[g]
<1>1. g \in Groups /\ s \in Seq(Messages) /\ Len(s) \in Nat
  BY DEF ConsumerAssumption, TypeOK
<1>2. sent' = [sent EXCEPT ![g] = Append(s, m)] /\ ~Contains(s, m)
  BY DEF Send, Sent
<1>3. sent'[g] = Append(s, m) /\ \A h \in Groups \ {g} : sent'[h] = sent[h]
  BY <1>1, <1>2 DEF TypeOK
<1>4. /\ Append(s, m) \in Seq(Messages) /\ Len(Append(s, m)) = Len(s) + 1
      /\ Append(s, m)[Len(s) + 1] = m /\ \A i \in 1..Len(s) : Append(s, m)[i] = s[i]
  BY <1>1
<1>5. sent' \in [Groups -> Seq(Messages)]
  BY <1>1, <1>2, <1>4 DEF TypeOK
<1> HIDE DEF g, s
<1>6. ASSUME NEW n \in Messages, Sent(n) PROVE Sent(n)'
  <2>1. CASE GroupOf[n] = g
    BY <1>1, <1>3, <1>4, <1>6, <2>1 DEF Sent, Contains, s
  <2>2. CASE GroupOf[n] # g
    BY <1>3, <1>6, <2>2 DEF Sent, Contains, ConsumerAssumption
  <2> QED
    BY <2>1, <2>2
<1>7. ASSUME NEW k \in Messages, NEW n \in Messages, Sent(n), Precedes(k, n)' PROVE Precedes(k, n)
  <2>1. GroupOf[k] = GroupOf[n] /\ GroupOf[k] \in Groups
    BY <1>7 DEF Precedes, ConsumerAssumption
  <2>2. CASE GroupOf[k] # g
    BY <1>3, <1>7, <2>1, <2>2 DEF Precedes
  <2>3. CASE GroupOf[k] = g
    <3>1. PICK i \in 1..Len(sent'[g]), j \in 1..Len(sent'[g]) :
            i < j /\ sent'[g][i] = k /\ sent'[g][j] = n
      BY <1>7, <2>3 DEF Precedes
    <3>2. i \in 1..(Len(s) + 1) /\ j \in 1..(Len(s) + 1)
      BY <1>3, <1>4, <3>1
    <3>3. CASE j = Len(s) + 1
      <4>1. n = m
        BY <1>3, <1>4, <3>1, <3>3
      <4> QED
        BY <1>2, <1>7, <4>1 DEF Sent, g, s
    <3>4. CASE j # Len(s) + 1
      <4>1. i \in 1..Len(s) /\ j \in 1..Len(s)
        BY <1>1, <3>1, <3>2, <3>4
      <4>2. s[i] = k /\ s[j] = n
        BY <1>3, <1>4, <3>1, <4>1
      <4>3. \E a, b \in 1..Len(s) : a < b /\ s[a] = k /\ s[b] = n
        BY <3>1, <4>1, <4>2
      <4> QED
        BY <2>1, <2>3, <4>3 DEF Precedes, s
    <3> QED
      BY <3>3, <3>4
  <2> QED
    BY <2>2, <2>3
<1> QED
  BY <1>5, <1>6, <1>7

-----------------------------------------------------------------------------
(* What the steps of a consumer have in common. *)

AtWork == {"execute", "dead_letter", "delete"}

\* A consumer goes on with the message at hand.
Handles(c) ==
  LET m == Head(batch[c])
  IN  /\ pc[c] \in {"execute", "dead_letter"}
      /\ \/ /\ pc[c] = "execute" /\ Verdict[m] = "permanent"
            /\ pc' = [pc EXCEPT ![c] = "dead_letter"]
            /\ UNCHANGED <<dlq, processed>>
         \/ /\ pc' = [pc EXCEPT ![c] = "delete"]
            /\ \/ processed' = processed \cup {m} /\ UNCHANGED dlq
               \/ pc[c] = "dead_letter" /\ dlq' = dlq \cup {m} /\ UNCHANGED processed
      /\ UNCHANGED <<sent, gone, receives, hiddenBy, batch, stopping, troubled, failures>>

\* A consumer is done with the message at hand, in one way or another.
Drops(c) ==
  LET m == Head(batch[c])
  IN  /\ pc[c] \in AtWork
      /\ Proceed(c)
      /\ \/ UNCHANGED <<gone, hiddenBy>>
         \/ pc[c] = "delete" /\ gone' = gone \cup {m} /\ hiddenBy' = [hiddenBy EXCEPT ![m] = None]
      /\ \/ UNCHANGED dlq
         \/ pc[c] = "dead_letter" /\ dlq' = dlq \cup {m}
      /\ \/ UNCHANGED processed
         \/ processed' = processed \cup {m}
      /\ \/ UNCHANGED troubled /\ pc[c] = "delete"
         \/ troubled' = troubled \cup {m}
      /\ \/ failures' = failures + 1
         \/ /\ UNCHANGED failures
            /\ Good(m) => (stopping[c] \/ pc[c] = "dead_letter" \/ m \in gone' \/ hiddenBy[m] # c)
      /\ UNCHANGED <<sent, receives, stopping>>

\* A consumer takes a batch, or it is lost on its way.
Takes(c, b) ==
  /\ pc[c] = "poll" /\ ~stopping[c]
  /\ Hand(c, b)
  /\ \/ /\ batch' = [batch EXCEPT ![c] = b]
        /\ pc' = [pc EXCEPT ![c] = "execute"]
        /\ UNCHANGED failures
     \/ UNCHANGED <<batch, pc>> /\ failures' = failures + 1
  /\ UNCHANGED <<processed, stopping, troubled>>

\* A consumer changes its state with nothing at hand or in its hands.
Turns(c) == Exit(c) \/ Start(c) \/ Stop(c) \/ Crash(c)

\* A message leaves for the dead-letter queue, or becomes visible again.
Moves(m) ==
  \/ Redrive(m)
  \/ /\ Reappear(m)
     /\ \/ UNCHANGED failures /\ ~Covered(m)
        \/ failures' = failures + 1

LEMMA ConsumerSteps ==
  ASSUME NEW c \in Consumers,
         ConsumerStep(c) \/ EmptyPoll(c) \/ ReceiveUnanswered(c) \/ ExecuteFails(c)
           \/ DeadLetterFails(c) \/ DeleteFails(c) \/ Stop(c) \/ Crash(c)
  PROVE  Handles(c) \/ Drops(c) \/ Turns(c) \/ (\E b \in Receptions : Takes(c, b)) \/ UNCHANGED vars
<1>1. CASE Receive(c)
  BY <1>1 DEF Receive, Takes
<1>2. CASE ReceiveUnanswered(c)
  BY <1>2 DEF ReceiveUnanswered, Takes, Fail, consumerVars
<1>3. CASE Execute(c) \/ ExecuteRefuses(c) \/ DeadLetter(c)
  BY <1>3 DEF Execute, ExecuteRefuses, DeadLetter, Handles, Goto, queueVars
<1>4. CASE ExecuteFails(c)
  BY <1>4, Zenon DEF ExecuteFails, Fails, Fail, Leave, Drops, Good, AtWork
<1>5. CASE DeadLetterFails(c)
  BY <1>5 DEF DeadLetterFails, Fails, Fail, Leave, Drops, Good, AtWork
<1>6. CASE DeleteFails(c)
  BY <1>6 DEF DeleteFails, Discard, Fails, Fail, Leave, Drops, Good, AtWork
<1>7. CASE Delete(c)
  BY <1>7 DEF Delete, Discard, Drops, Good, AtWork
<1>8. CASE EmptyPoll(c)
  BY <1>8 DEF EmptyPoll
<1>9. CASE Exit(c) \/ Start(c) \/ Stop(c) \/ Crash(c)
  BY <1>9 DEF Turns
<1> QED
  BY <1>1, <1>2, <1>3, <1>4, <1>5, <1>6, <1>7, <1>8, <1>9 DEF ConsumerStep

LEMMA QueueSteps ==
  ASSUME NEW m \in Messages,
         Redrive(m) \/ VisibilityExpires(m) \/ VisibilityExpiresEarly(m)
  PROVE  Moves(m)
BY DEF Moves, VisibilityExpires, VisibilityExpiresEarly, Fail, Covered

\* Every step is one of these.
LEMMA NextIs ==
  ASSUME [Next]_vars
  PROVE  \/ \E m \in Messages : Send(m) \/ Moves(m)
         \/ \E c \in Consumers :
              Handles(c) \/ Drops(c) \/ Turns(c) \/ \E b \in Receptions : Takes(c, b)
         \/ UNCHANGED vars
<1>1. CASE \E m \in Messages : Send(m) \/ Redrive(m) \/ VisibilityExpires(m) \/ VisibilityExpiresEarly(m)
  BY <1>1, QueueSteps
<1>2. CASE \E c \in Consumers :
             ConsumerStep(c) \/ EmptyPoll(c) \/ ReceiveUnanswered(c) \/ ExecuteFails(c)
               \/ DeadLetterFails(c) \/ DeleteFails(c) \/ Stop(c) \/ Crash(c)
  BY <1>2, ConsumerSteps
<1> QED
  BY <1>1, <1>2 DEF Next

-----------------------------------------------------------------------------
(* Types. *)

LEMMA DropTypes ==
  ASSUME TypeOK, NEW c \in Consumers, Drops(c)
  PROVE  TypeOK'
<1> DEFINE m == Head(batch[c])
<1>1. batch[c] \in Seq(Messages) /\ batch[c] # <<>>
  BY DEF TypeOK, Drops, AtWork
<1>2. m \in Messages /\ Tail(batch[c]) \in Seq(Messages) /\ (Tail(batch[c]) = <<>> <=> Len(batch[c]) = 1)
  BY <1>1, BatchParts
<1> HIDE DEF m
<1>3. batch' \in [Consumers -> Seq(Messages)] /\ pc' \in [Consumers -> Steps]
  BY <1>2 DEF TypeOK, Drops, Proceed, Steps
<1>4. \A d \in Consumers : batch'[d] # <<>> <=> pc'[d] \in AtWork
  BY <1>2 DEF TypeOK, Drops, Proceed, AtWork
<1>5. gone' \subseteq Messages /\ hiddenBy' \in [Messages -> Consumers \cup {None}]
  BY <1>2 DEF TypeOK, Drops, m
<1>6. dlq' \subseteq Messages /\ processed' \subseteq Messages /\ troubled' \subseteq Messages
  BY <1>2 DEF TypeOK, Drops, m
<1>7. failures' \in Nat
  BY DEF TypeOK, Drops
<1> QED
  BY <1>3, <1>4, <1>5, <1>6, <1>7 DEF TypeOK, Drops, AtWork

LEMMA HandleTypes ==
  ASSUME TypeOK, NEW c \in Consumers, Handles(c)
  PROVE  TypeOK'
<1>1. Head(batch[c]) \in Messages
  BY BatchParts DEF TypeOK, Handles
<1> QED
  BY <1>1 DEF TypeOK, Handles, Steps

LEMMA TakeTypes ==
  ASSUME ConsumerAssumption, TypeOK, NEW c \in Consumers, NEW b \in Receptions, Takes(c, b)
  PROVE  TypeOK'
<1>1. b \in Seq(Messages) /\ b # <<>> /\ \A m \in Messages : Contains(b, m) => receives[m] < MaxReceiveCount
  BY ReceptionParts DEF Offered
<1>2. receives' \in [Messages -> 0..MaxReceiveCount]
  BY <1>1 DEF Takes, Hand, TypeOK, ConsumerAssumption
<1>3. hiddenBy' \in [Messages -> Consumers \cup {None}]
  BY DEF Takes, Hand, TypeOK
<1>4. /\ batch' \in [Consumers -> Seq(Messages)] /\ pc' \in [Consumers -> Steps]
      /\ \A d \in Consumers : batch'[d] # <<>> <=> pc'[d] \in AtWork
  BY ZenonT(30), <1>1 DEF Takes, TypeOK, Steps, AtWork
<1> QED
  BY <1>2, <1>3, <1>4 DEF Takes, Hand, TypeOK, AtWork

LEMMA TurnTypes ==
  ASSUME TypeOK, NEW c \in Consumers, Turns(c)
  PROVE  TypeOK'
<1>1. CASE Crash(c)
  <2>1. <<>> \in Seq(Messages) /\ ToSet(batch[c]) \subseteq Messages
    BY DEF TypeOK, ToSet
  <2> QED
    BY <1>1, <2>1 DEF Crash, Fail, TypeOK, Steps, queueVars
<1>2. CASE Exit(c)
  BY <1>2 DEF Exit, Goto, TypeOK, Steps, queueVars
<1>3. CASE Start(c)
  BY <1>3 DEF Start, Goto, TypeOK, Steps, queueVars
<1>4. CASE Stop(c)
  BY <1>4 DEF Stop, Fail, TypeOK, queueVars
<1> QED
  BY <1>1, <1>2, <1>3, <1>4 DEF Turns

LEMMA QueueTypes ==
  ASSUME ConsumerAssumption, TypeOK, NEW m \in Messages, Send(m) \/ Moves(m)
  PROVE  TypeOK'
<1>1. CASE Send(m)
  BY <1>1, SendParts DEF Send, TypeOK, consumerVars
<1>2. CASE Redrive(m)
  BY <1>2 DEF Redrive, TypeOK, consumerVars
<1>3. CASE Reappear(m) /\ (UNCHANGED failures \/ failures' = failures + 1)
  BY <1>3 DEF Reappear, TypeOK, consumerVars
<1> QED
  BY <1>1, <1>2, <1>3 DEF Moves

LEMMA StepTypes ==
  ASSUME ConsumerAssumption, TypeOK, [Next]_vars
  PROVE  TypeOK'
<1>1. CASE UNCHANGED vars
  BY <1>1 DEF TypeOK, vars, queueVars, consumerVars
<1> QED
  BY <1>1, NextIs, DropTypes, HandleTypes, TakeTypes, TurnTypes, QueueTypes

-----------------------------------------------------------------------------
(* What any step does to batches and outcomes. *)

\* A batch stays, is thrown away, is a new reception or loses its first message, which is
\* then dealt with or left in the queue.
BatchMoves(c) ==
  \/ batch'[c] = batch[c]
  \/ batch'[c] = <<>>
  \/ batch[c] = <<>> /\ batch'[c] \in Receptions /\ pc'[c] = "execute" /\ UNCHANGED <<sent, gone>>
  \/ /\ batch[c] # <<>> /\ batch'[c] = Tail(batch[c])
     /\ Head(batch[c]) \in processed' \cup dlq' \cup troubled'
     /\ pc'[c] \in {"poll", "execute"}

\* A step only adds outcomes, and a message at hand is the only one it can process.
Grows ==
  /\ processed \subseteq processed' /\ dlq \subseteq dlq'
  /\ troubled \subseteq troubled'
  /\ \A m \in processed' \ processed :
       \E c \in Consumers : batch[c] # <<>> /\ m = Head(batch[c])

LEMMA StepBatches ==
  ASSUME TypeOK, HandsOK, [Next]_vars, NEW d \in Consumers
  PROVE  BatchMoves(d)
<1>1. ASSUME NEW c \in Consumers, Handles(c) PROVE BatchMoves(d)
  BY <1>1 DEF Handles, BatchMoves
<1>2. ASSUME NEW c \in Consumers, Drops(c) PROVE BatchMoves(d)
  <2>1. CASE c # d
    BY <1>2, <2>1 DEF Drops, Proceed, BatchMoves, TypeOK
  <2>2. CASE c = d
    <3>1. batch[d] # <<>> /\ batch'[d] = Tail(batch[d]) /\ pc'[d] \in {"poll", "execute"}
      BY <1>2, <2>2 DEF Drops, Proceed, TypeOK, AtWork
    <3>2. Head(batch[d]) \in processed' \cup dlq' \cup troubled'
      <4>1. processed \subseteq processed' /\ dlq \subseteq dlq'
        BY <1>2 DEF Drops
      <4>2. CASE UNCHANGED troubled /\ pc[c] = "delete"
        BY <2>2, <4>1, <4>2 DEF HandsOK, HasOutcome
      <4>3. CASE troubled' = troubled \cup {Head(batch[c])}
        BY <2>2, <4>3
      <4> QED
        BY <1>2, <4>2, <4>3 DEF Drops
    <3> QED
      BY <3>1, <3>2 DEF BatchMoves
  <2> QED
    BY <2>1, <2>2
<1>3. ASSUME NEW c \in Consumers, NEW b \in Receptions, Takes(c, b) PROVE BatchMoves(d)
  BY <1>3 DEF Takes, Hand, BatchMoves, TypeOK
<1>4. ASSUME NEW c \in Consumers, Turns(c) PROVE BatchMoves(d)
  BY <1>4 DEF Turns, Exit, Start, Stop, Crash, Goto, BatchMoves, TypeOK
<1>5. ASSUME NEW m \in Messages, Send(m) \/ Moves(m) PROVE BatchMoves(d)
  BY <1>5 DEF Send, Moves, Redrive, Reappear, BatchMoves, consumerVars
<1>6. CASE UNCHANGED vars
  BY <1>6 DEF vars, consumerVars, BatchMoves
<1> QED
  BY <1>1, <1>2, <1>3, <1>4, <1>5, <1>6, NextIs

LEMMA StepGrows ==
  ASSUME TypeOK, [Next]_vars
  PROVE  Grows
<1>1. ASSUME NEW c \in Consumers, Handles(c) PROVE Grows
  BY <1>1 DEF Handles, Grows, TypeOK
<1>2. ASSUME NEW c \in Consumers, Drops(c) PROVE Grows
  BY <1>2 DEF Drops, Grows, TypeOK, AtWork
<1>3. ASSUME NEW c \in Consumers, NEW b \in Receptions, Takes(c, b) PROVE Grows
  BY <1>3 DEF Takes, Hand, Grows
<1>4. ASSUME NEW c \in Consumers, Turns(c) PROVE Grows
  BY <1>4 DEF Turns, Exit, Start, Stop, Crash, Grows, queueVars
<1>5. ASSUME NEW m \in Messages, Send(m) \/ Moves(m) PROVE Grows
  BY <1>5 DEF Send, Moves, Redrive, Reappear, Grows
<1>6. CASE UNCHANGED vars
  BY <1>6 DEF vars, queueVars, Grows
<1> QED
  BY <1>1, <1>2, <1>3, <1>4, <1>5, <1>6, NextIs

\* What was sent stays sent, in its order.
LEMMA StepSent ==
  ASSUME ConsumerAssumption, TypeOK, [Next]_vars
  PROVE  /\ \A n \in Messages : Sent(n) => Sent(n)'
         /\ \A k, n \in Messages : Sent(n) /\ Precedes(k, n)' => Precedes(k, n)
<1>1. CASE \E m \in Messages : Send(m)
  BY <1>1, SendParts
<1>2. CASE UNCHANGED sent
  BY <1>2 DEF Sent, Precedes
<1>3. ASSUME NEW c \in Consumers, NEW b \in Receptions, Takes(c, b) PROVE UNCHANGED sent
  BY <1>3 DEF Takes, Hand
<1>4. ASSUME NEW c \in Consumers, Handles(c) \/ Drops(c) \/ Turns(c) PROVE UNCHANGED sent
  BY <1>4 DEF Handles, Drops, Turns, Exit, Start, Stop, Crash, queueVars
<1>5. ASSUME NEW m \in Messages, Moves(m) PROVE UNCHANGED sent
  BY <1>5 DEF Moves, Redrive, Reappear
<1>6. ASSUME UNCHANGED vars PROVE UNCHANGED sent
  BY <1>6 DEF vars, queueVars
<1> QED
  BY <1>1, <1>2, <1>3, <1>4, <1>5, <1>6, NextIs

-----------------------------------------------------------------------------
(* No message is lost, and none is overtaken but after a failure. *)

\* At the head of its batch a message has nothing left before it.
LEMMA HeadIsNext ==
  ASSUME TypeOK, AheadOK, NEW c \in Consumers, batch[c] # <<>>, NEW m \in Messages,
         Precedes(m, Head(batch[c]))
  PROVE  HasOutcome(m) \/ m \in troubled
<1>1. 1 \in 1..Len(batch[c]) /\ Head(batch[c]) = batch[c][1]
  BY BatchParts DEF TypeOK
<1> QED
  BY <1>1 DEF AheadOK

LEMMA SteadyHands ==
  ASSUME TypeOK, HandsOK, Grows, NEW d \in Consumers,
         \/ pc'[d] = pc[d] /\ batch'[d] = batch[d]
         \/ pc'[d] \in {"poll", "execute", "stopped"}
  PROVE  /\ pc'[d] = "dead_letter" => Verdict[Head(batch'[d])] = "permanent"
         /\ pc'[d] = "delete" => HasOutcome(Head(batch[d]))'
BY DEF HandsOK, HasOutcome, Grows

LEMMA StepHandles ==
  ASSUME ConsumerAssumption, TypeOK, HandsOK, [Next]_vars, NEW d \in Consumers
  PROVE  /\ pc'[d] = "dead_letter" => Verdict[Head(batch'[d])] = "permanent"
         /\ pc'[d] = "delete" => HasOutcome(Head(batch[d]))'
<1> DEFINE Steady == \/ pc'[d] = pc[d] /\ batch'[d] = batch[d]
                     \/ pc'[d] \in {"poll", "execute", "stopped"}
<1>1. ASSUME NEW c \in Consumers, Handles(c)
      PROVE  /\ pc'[d] = "dead_letter" => Verdict[Head(batch'[d])] = "permanent"
             /\ pc'[d] = "delete" => HasOutcome(Head(batch[d]))'
  <2>1. CASE c = d
    BY <1>1, <2>1 DEF Handles, HasOutcome, TypeOK
  <2>2. CASE c # d
    <3>1. Steady
      BY <1>1, <2>2 DEF Handles, TypeOK
    <3> QED
      BY <3>1, SteadyHands, StepGrows
  <2> QED
    BY <2>1, <2>2
<1>2. ASSUME NEW c \in Consumers, Drops(c) PROVE Steady
  BY <1>2 DEF Drops, Proceed, TypeOK
<1>3. ASSUME NEW c \in Consumers, NEW b \in Receptions, Takes(c, b) PROVE Steady
  BY <1>3 DEF Takes, TypeOK
<1>4. ASSUME NEW c \in Consumers, Turns(c) PROVE Steady
  BY <1>4 DEF Turns, Exit, Start, Stop, Crash, Goto, TypeOK
<1>5. ASSUME NEW m \in Messages, Send(m) \/ Moves(m) PROVE Steady
  BY <1>5 DEF Send, Moves, Redrive, Reappear, consumerVars
<1>6. ASSUME UNCHANGED vars PROVE Steady
  BY <1>6 DEF vars, consumerVars
<1>7. CASE Steady
  BY <1>7, SteadyHands, StepGrows
<1> HIDE DEF Steady
<1> QED
  BY <1>1, <1>2, <1>3, <1>4, <1>5, <1>6, <1>7, NextIs

LEMMA StepHands ==
  ASSUME ConsumerAssumption, TypeOK, HandsOK, [Next]_vars
  PROVE  HandsOK'
<1>1. ASSUME NEW d \in Consumers, NEW m \in Messages, Holding(d, m)' PROVE Sent(m)'
  <2>1. Sent(m) => Sent(m)'
    BY StepSent
  <2>2. CASE Holding(d, m)
    BY <2>1, <2>2 DEF HandsOK
  <2>3. CASE batch'[d] = <<>>
    BY <1>1, <2>3 DEF Holding, Contains
  <2>4. CASE batch'[d] \in Receptions
    BY <1>1, <2>1, <2>4, ReceptionParts DEF Holding, Contains, Offered, Waiting
  <2>5. CASE batch[d] # <<>> /\ batch'[d] = Tail(batch[d])
    <3>1. Holding(d, m)
      BY SMTT(30), <1>1, <2>5, BatchParts DEF Holding, TypeOK, Contains
    <3> QED
      BY <2>2, <3>1
  <2>6. CASE batch'[d] = batch[d]
    BY <1>1, <2>2, <2>6 DEF Holding, Contains
  <2> QED
    BY <2>3, <2>4, <2>5, <2>6, StepBatches DEF BatchMoves
<1> QED
  BY <1>1, StepHandles DEF HandsOK

\* A message leaves by a delete or by the redrive policy.
LEMMA StepLosesNothing ==
  ASSUME TypeOK, HandsOK, NothingIsLost, [Next]_vars
  PROVE  NothingIsLost'
<1>1. Grows
  BY StepGrows
<1>2. SUFFICES ASSUME NEW m \in gone' \ gone PROVE HasOutcome(m)'
  BY <1>1 DEF NothingIsLost, HasOutcome, Grows
<1>3. ASSUME NEW c \in Consumers, Drops(c) PROVE HasOutcome(m)'
  BY <1>1, <1>2, <1>3 DEF Drops, HandsOK, HasOutcome, Grows
<1>4. ASSUME NEW c \in Consumers, NEW b \in Receptions, Takes(c, b) PROVE FALSE
  BY <1>2, <1>4 DEF Takes, Hand
<1>5. ASSUME NEW c \in Consumers, Handles(c) \/ Turns(c) PROVE FALSE
  BY <1>2, <1>5 DEF Handles, Turns, Exit, Start, Stop, Crash, queueVars
<1>6. ASSUME NEW n \in Messages, Send(n) \/ Moves(n) PROVE HasOutcome(m)'
  BY <1>2, <1>6 DEF Send, Moves, Redrive, Reappear, HasOutcome
<1>7. CASE UNCHANGED vars
  BY <1>2, <1>7 DEF vars, queueVars
<1> QED
  BY <1>3, <1>4, <1>5, <1>6, <1>7, NextIs

\* New outcomes only help those at hand, and a reception starts with what precedes it.
LEMMA StepAhead ==
  ASSUME ConsumerAssumption, IInv, [Next]_vars
  PROVE  AheadOK'
<1> USE DEF IInv
<1>1. Grows
  BY StepGrows
<1>2. SUFFICES ASSUME NEW d \in Consumers, NEW j \in 1..Len(batch'[d]), NEW m \in Messages,
                      Precedes(m, batch[d][j])',
                      ~HasOutcome(m)', m \notin troubled'
               PROVE  \E i \in 1..(j - 1) : batch'[d][i] = m
  BY DEF AheadOK
<1>3. ~HasOutcome(m) /\ m \notin troubled
  BY <1>1, <1>2 DEF Grows, HasOutcome
<1>4. ASSUME NEW n \in Messages, n = batch'[d][j], Sent(n) PROVE Precedes(m, n)
  <2>1. Precedes(m, n)'
    BY <1>2, <1>4 DEF Precedes
  <2> QED
    BY <1>4, <2>1, StepSent
<1>5. CASE batch'[d] = batch[d]
  <2>1. batch[d] \in Seq(Messages) /\ j \in 1..Len(batch[d]) /\ batch[d][j] \in Messages
    BY <1>5 DEF TypeOK
  <2>2. Holding(d, batch[d][j])
    BY <2>1 DEF Holding, Contains
  <2>3. Precedes(m, batch[d][j])
    BY <1>4, <1>5, <2>1, <2>2 DEF HandsOK
  <2> QED
    BY <1>3, <1>5, <2>1, <2>3 DEF AheadOK
<1>6. CASE batch'[d] = <<>>
  BY <1>2, <1>6
<1>7. CASE batch'[d] \in Receptions /\ UNCHANGED <<sent, gone>>
  <2>1. batch'[d] \in Seq(Messages)
    BY <1>7, ReceptionParts
  <2>2. Precedes(m, batch'[d][j])
    BY <1>2, <1>7 DEF Precedes
  <2>3. m \notin gone
    BY <1>3 DEF NothingIsLost
  <2>4. Sent(m)
    BY <2>2 DEF Precedes, Sent, Contains
  <2> QED
    BY <1>7, <2>2, <2>3, <2>4, ReceptionParts DEF Waiting
<1>8. CASE /\ batch[d] # <<>> /\ batch'[d] = Tail(batch[d])
           /\ Head(batch[d]) \in processed' \cup dlq' \cup troubled'
  <2> DEFINE s == batch[d]
  <2>1. s \in Seq(Messages)
    BY DEF TypeOK
  <2>2. /\ Len(s) \in Nat /\ Head(s) = s[1] /\ Len(Tail(s)) = Len(s) - 1
        /\ \A i \in 1..Len(Tail(s)) : Tail(s)[i] = s[i + 1]
    BY <1>8, <2>1, BatchParts
  <2>3. j + 1 \in 1..Len(s) /\ s[j + 1] = batch'[d][j] /\ s[j + 1] \in Messages
    BY <1>8, <2>1, <2>2
  <2>4. Holding(d, s[j + 1])
    BY <2>3 DEF Holding, Contains
  <2>5. Precedes(m, s[j + 1])
    BY <1>4, <2>3, <2>4 DEF HandsOK
  <2>6. PICK i \in 1..((j + 1) - 1) : s[i] = m
    BY <1>3, <2>3, <2>5 DEF AheadOK
  <2>7. i # 1
    BY <1>2, <1>8, <2>2, <2>6 DEF HasOutcome
  <2>8. i - 1 \in 1..(j - 1) /\ i - 1 \in 1..Len(Tail(s)) /\ (i - 1) + 1 = i
    BY <2>2, <2>3, <2>6, <2>7
  <2>9. Tail(s)[i - 1] = m
    BY <2>2, <2>6, <2>8
  <2> QED
    BY <1>8, <2>8, <2>9
<1> QED
  BY <1>5, <1>6, <1>7, <1>8, StepBatches DEF BatchMoves

\* What is processed was sent, and comes after what precedes it.
LEMMA StepOrder ==
  ASSUME ConsumerAssumption, IInv, [Next]_vars
  PROVE  ProcessedSent' /\ OvertakenOnlyAfterFailure'
<1> USE DEF IInv
<1>1. Grows
  BY StepGrows
<1>2. ASSUME NEW n \in processed' \ processed
      PROVE  /\ n \in Messages /\ Sent(n)
             /\ \A m \in Messages : Precedes(m, n) => HasOutcome(m) \/ m \in troubled
  <2>1. PICK c \in Consumers : batch[c] # <<>> /\ n = Head(batch[c])
    BY <1>1, <1>2 DEF Grows
  <2>2. n \in Messages /\ Holding(c, n)
    BY <2>1, BatchParts DEF TypeOK, Holding
  <2> QED
    BY <2>1, <2>2, HeadIsNext DEF HandsOK
<1>3. \A n \in processed : n \in Messages /\ Sent(n)
  BY DEF ProcessedSent, TypeOK
<1>4. ProcessedSent'
  BY <1>2, <1>3, StepSent DEF ProcessedSent
<1>5. ASSUME NEW m \in Messages, NEW n \in Messages,
             Precedes(m, n)', n \in processed', ~HasOutcome(m)'
      PROVE  m \in troubled'
  <2>1. Precedes(m, n)
    BY <1>2, <1>3, <1>5, StepSent
  <2>2. ~HasOutcome(m)
    BY <1>1, <1>5 DEF Grows, HasOutcome
  <2>3. m \in troubled
    BY <1>2, <1>5, <2>1, <2>2 DEF OvertakenOnlyAfterFailure
  <2> QED
    BY <1>1, <2>3 DEF Grows
<1> QED
  BY <1>4, <1>5 DEF OvertakenOnlyAfterFailure

-----------------------------------------------------------------------------
(* Receptions are paid for. *)

Paid(m) == receives[m] <= failures + (IF Covered(m) THEN 1 ELSE 0)

\* A step that costs the message no reception: its cover stays, or a failure pays for it.
LEMMA StillPaid ==
  ASSUME TypeOK, NEW m \in Messages, Paid(m), receives'[m] = receives[m],
         (failures' = failures /\ (Covered(m) => Covered(m)')) \/ failures' = failures + 1
  PROVE  Paid(m)'
<1>1. receives[m] \in Nat /\ failures \in Nat
  BY DEF TypeOK
<1> QED
  BY <1>1 DEF Paid

LEMMA DropPaid ==
  ASSUME IInv, NEW c \in Consumers, Drops(c), NEW m \in Messages \ gone', Good(m), Paid(m)
  PROVE  Paid(m)'
<1> USE DEF IInv
<1>1. batch[c] \in Seq(Messages) /\ batch[c] # <<>>
  BY DEF TypeOK, Drops, AtWork
<1>2. receives'[m] = receives[m]
  BY DEF Drops
<1>3. ASSUME failures' = failures, Covered(m) PROVE Covered(m)'
  <2>1. PICK d \in Consumers : hiddenBy[m] = d /\ Holding(d, m) /\ ~stopping[d]
    BY <1>3 DEF Covered
  <2>2. failures' # failures + 1
    BY <1>3 DEF TypeOK
  <2>3. hiddenBy'[m] = d /\ ~stopping'[d]
    BY <2>1 DEF Drops, TypeOK
  <2>4. CASE d # c
    <3>1. batch'[d] = batch[d]
      BY <2>4 DEF Drops, Proceed, TypeOK
    <3> QED
      BY <2>1, <2>3, <3>1 DEF Covered, Holding
  <2>5. CASE d = c
    <3>1. m # Head(batch[c])
      <4> SUFFICES ASSUME m = Head(batch[c]) PROVE FALSE
        OBVIOUS
      <4>1. Good(m) => (stopping[c] \/ pc[c] = "dead_letter" \/ m \in gone' \/ hiddenBy[m] # c)
        BY <2>2 DEF Drops
      <4>2. pc[c] # "dead_letter"
        BY DEF HandsOK, Good
      <4> QED
        BY <2>1, <2>5, <4>1, <4>2
    <3>2. batch'[c] = Tail(batch[c])
      BY DEF Drops, Proceed, TypeOK
    <3>3. Contains(Tail(batch[c]), m)
      BY <1>1, <2>1, <2>5, <3>1, BatchParts DEF Holding
    <3>4. Holding(c, m)'
      BY <3>2, <3>3 DEF Holding
    <3> QED
      BY <2>3, <2>5, <3>4 DEF Covered
  <2> QED
    BY <2>4, <2>5
<1>4. failures' = failures \/ failures' = failures + 1
  BY DEF Drops
<1> QED
  BY <1>2, <1>3, <1>4, StillPaid

LEMMA TakePaid ==
  ASSUME ConsumerAssumption, IInv, NEW c \in Consumers, NEW b \in Receptions, Takes(c, b),
         NEW m \in Messages, Paid(m)
  PROVE  Paid(m)'
<1> USE DEF IInv
<1>0. pc[c] = "poll"
  BY DEF Takes
<1>1. receives[m] \in Nat /\ failures \in Nat /\ batch[c] = <<>>
  <2>1. receives[m] \in Nat /\ failures \in Nat
    BY DEF TypeOK
  <2>2. batch[c] = <<>>
    BY <1>0 DEF TypeOK
  <2> QED
    BY <2>1, <2>2
<1>2. CASE Contains(b, m)
  <2>1. Waiting(m) /\ Open(GroupOf[m])
    BY <1>2, ReceptionParts DEF Offered
  <2>2. hiddenBy[m] = None
    BY <2>1 DEF Open
  <2>3. ~Covered(m)
    BY <2>2 DEF Covered, ConsumerAssumption
  <2>4. receives[m] <= failures /\ receives'[m] = receives[m] + 1 /\ hiddenBy'[m] = c
    BY <1>1, <1>2, <2>3 DEF Paid, Takes, Hand
  <2>5. CASE failures' = failures + 1
    BY <1>1, <2>4, <2>5 DEF Paid
  <2>6. CASE batch' = [batch EXCEPT ![c] = b] /\ UNCHANGED failures
    <3>1. Holding(c, m)' /\ ~stopping'[c]
      BY <1>2, <2>6 DEF Takes, Holding, TypeOK
    <3>2. Covered(m)'
      BY <2>4, <3>1 DEF Covered
    <3> QED
      BY <1>1, <2>4, <2>6, <3>2 DEF Paid
  <2> QED
    BY <2>5, <2>6 DEF Takes
<1>3. CASE ~Contains(b, m)
  <2>1. receives'[m] = receives[m] /\ hiddenBy'[m] = hiddenBy[m]
    BY <1>3 DEF Takes, Hand
  <2>2. \A d \in Consumers : Holding(d, m) => Holding(d, m)'
    <3>1. ~Holding(c, m)
      BY <1>1 DEF Holding, Contains
    <3>2. \A d \in Consumers \ {c} : batch'[d] = batch[d]
      BY DEF Takes, TypeOK
    <3> QED
      BY <3>1, <3>2 DEF Holding
  <2>3. Covered(m) => Covered(m)'
    BY <2>1, <2>2 DEF Covered, Takes
  <2>4. failures' = failures \/ failures' = failures + 1
    BY DEF Takes
  <2> QED
    BY <2>1, <2>3, <2>4, StillPaid
<1> QED
  BY <1>2, <1>3

LEMMA TurnPaid ==
  ASSUME IInv, NEW c \in Consumers, Turns(c), NEW m \in Messages, Paid(m)
  PROVE  Paid(m)'
<1> USE DEF IInv
<1>1. receives'[m] = receives[m]
  BY DEF Turns, Exit, Start, Stop, Crash, queueVars
<1>2. CASE Stop(c) \/ Crash(c)
  BY <1>1, <1>2, StillPaid DEF Stop, Crash, Fail
<1>3. CASE Exit(c)
  BY <1>1, <1>3, StillPaid DEF Exit, Goto, Covered, Holding, queueVars
<1>4. CASE Start(c)
  <2>1. ~Holding(c, m)
    <3>1. pc[c] = "stopped"
      BY <1>4 DEF Start
    <3>2. batch[c] = <<>>
      BY <3>1 DEF TypeOK
    <3> QED
      BY <3>2 DEF Holding, Contains
  <2>2. Covered(m) => Covered(m)'
    BY <1>4, <2>1 DEF Start, Goto, Covered, Holding, TypeOK, queueVars
  <2> QED
    BY <1>1, <1>4, <2>2, StillPaid DEF Start
<1> QED
  BY <1>2, <1>3, <1>4 DEF Turns

LEMMA QueuePaid ==
  ASSUME IInv, NEW n \in Messages, Send(n) \/ Moves(n), NEW m \in Messages \ gone', Paid(m)
  PROVE  Paid(m)'
<1> USE DEF IInv
<1>1. receives'[m] = receives[m] /\ UNCHANGED consumerVars
  BY DEF Send, Moves, Redrive, Reappear
<1>2. CASE hiddenBy'[m] = hiddenBy[m] /\ (UNCHANGED failures \/ failures' = failures + 1)
  <2>1. Covered(m) => Covered(m)'
    BY <1>1, <1>2 DEF Covered, Holding, consumerVars
  <2> QED
    BY <1>1, <1>2, <2>1, StillPaid
<1>3. CASE Send(n) \/ Redrive(n)
  BY <1>2, <1>3 DEF Send, Redrive
<1>4. CASE Reappear(n) /\ ((UNCHANGED failures /\ ~Covered(n)) \/ failures' = failures + 1)
  <2>1. CASE n = m
    BY <1>1, <1>4, <2>1, StillPaid
  <2>2. CASE n # m
    BY <1>2, <1>4, <2>2 DEF Reappear, TypeOK
  <2> QED
    BY <2>1, <2>2
<1> QED
  BY <1>3, <1>4 DEF Moves

LEMMA StepPaid ==
  ASSUME ConsumerAssumption, IInv, [Next]_vars
  PROVE  ReceptionsPaid'
<1> SUFFICES ASSUME NEW m \in Messages \ gone', Good(m) PROVE Paid(m)'
  BY DEF ReceptionsPaid, Paid, Good
<1>1. gone \subseteq gone'
  <2>1. ASSUME NEW c \in Consumers, Handles(c) \/ Drops(c) \/ Turns(c) PROVE gone \subseteq gone'
    BY <2>1 DEF Handles, Drops, Turns, Exit, Start, Stop, Crash, queueVars
  <2>2. ASSUME NEW c \in Consumers, NEW b \in Receptions, Takes(c, b) PROVE gone \subseteq gone'
    BY <2>2 DEF Takes, Hand
  <2>3. ASSUME NEW n \in Messages, Send(n) \/ Moves(n) PROVE gone \subseteq gone'
    BY <2>3 DEF Send, Moves, Redrive, Reappear
  <2>4. CASE UNCHANGED vars
    BY <2>4 DEF vars, queueVars
  <2> QED
    BY <2>1, <2>2, <2>3, <2>4, NextIs
<1>2. Paid(m)
  BY <1>1 DEF IInv, ReceptionsPaid, Paid
<1>3. ASSUME NEW c \in Consumers, Handles(c) PROVE Paid(m)'
  BY <1>2, <1>3 DEF Handles, Paid, Covered, Holding
<1>4. CASE UNCHANGED vars
  BY <1>2, <1>4 DEF vars, queueVars, consumerVars, Paid, Covered, Holding
<1> QED
  BY <1>2, <1>3, <1>4, NextIs, DropPaid, TakePaid, TurnPaid, QueuePaid

\* Only the redrive policy gives up a message that can be processed.
LEMMA StepDead ==
  ASSUME ConsumerAssumption, IInv, [Next]_vars
  PROVE  DeadOnlyIfExhausted'
<1> USE DEF IInv
<1>1. failures' >= failures
  <2>1. ASSUME NEW c \in Consumers, Handles(c) \/ Drops(c) \/ Turns(c) PROVE failures' >= failures
    BY <2>1 DEF Handles, Drops, Turns, Exit, Start, Stop, Crash, Fail, TypeOK
  <2>2. ASSUME NEW c \in Consumers, NEW b \in Receptions, Takes(c, b) PROVE failures' >= failures
    BY <2>2 DEF Takes, TypeOK
  <2>3. ASSUME NEW n \in Messages, Send(n) \/ Moves(n) PROVE failures' >= failures
    BY <2>3 DEF Send, Moves, Redrive, Reappear, TypeOK
  <2>4. CASE UNCHANGED vars
    BY <2>4 DEF vars, TypeOK
  <2> QED
    BY <2>1, <2>2, <2>3, <2>4, NextIs
<1>2. SUFFICES ASSUME NEW m \in dlq' \ dlq, Good(m) PROVE failures' >= MaxReceiveCount
  <2>1. ASSUME NEW m \in dlq', Good(m) PROVE failures' >= MaxReceiveCount
    <3>1. CASE m \in dlq
      <4>1. failures >= MaxReceiveCount
        BY <2>1, <3>1 DEF DeadOnlyIfExhausted, Good
      <4> QED
        BY <1>1, <4>1, StepTypes DEF TypeOK, ConsumerAssumption
    <3>2. CASE m \notin dlq
      BY <1>2, <2>1, <3>2
    <3> QED
      BY <3>1, <3>2
  <2> QED
    BY <2>1 DEF DeadOnlyIfExhausted, Good
<1>3. ASSUME NEW c \in Consumers, Handles(c) \/ Drops(c) PROVE FALSE
  BY <1>2, <1>3 DEF Handles, Drops, HandsOK, Good
<1>4. ASSUME NEW c \in Consumers, Turns(c) PROVE FALSE
  BY <1>2, <1>4 DEF Turns, Exit, Start, Stop, Crash, queueVars
<1>5. ASSUME NEW c \in Consumers, NEW b \in Receptions, Takes(c, b) PROVE FALSE
  BY <1>2, <1>5 DEF Takes, Hand
<1>6. ASSUME NEW n \in Messages, Send(n) \/ Moves(n) PROVE failures' >= MaxReceiveCount
  <2>1. n = m /\ Redrive(m) /\ m \in Messages
    BY <1>2, <1>6 DEF Send, Moves, Redrive, Reappear
  <2>2. ~Covered(m)
    BY <2>1 DEF Redrive, Covered, ConsumerAssumption
  <2>3. receives[m] = MaxReceiveCount /\ m \notin gone
    BY <2>1 DEF Redrive, Waiting
  <2>4. receives[m] <= failures
    BY <1>2, <2>1, <2>2, <2>3 DEF ReceptionsPaid, TypeOK
  <2> QED
    BY <2>1, <2>3, <2>4 DEF Redrive, TypeOK, ConsumerAssumption
<1>7. CASE UNCHANGED vars
  BY <1>2, <1>7 DEF vars, queueVars
<1> QED
  BY <1>3, <1>4, <1>5, <1>6, <1>7, NextIs

-----------------------------------------------------------------------------
(* The inductive invariant and what follows from it. *)

LEMMA InitIInv ==
  ASSUME ConsumerAssumption, Init
  PROVE  IInv
<1>1. TypeOK
  BY DEF Init, TypeOK, Steps, ConsumerAssumption
<1>2. \A c \in Consumers : pc[c] = "poll" /\ batch[c] = <<>>
  BY DEF Init
<1>3. HandsOK /\ AheadOK
  BY <1>2 DEF HandsOK, AheadOK, Holding, Contains
<1>4. NothingIsLost /\ ProcessedSent /\ OvertakenOnlyAfterFailure /\ DeadOnlyIfExhausted
  BY DEF Init, NothingIsLost, ProcessedSent, OvertakenOnlyAfterFailure, DeadOnlyIfExhausted
<1>5. ReceptionsPaid
  BY <1>1 DEF Init, ReceptionsPaid
<1> QED
  BY <1>1, <1>3, <1>4, <1>5 DEF IInv

LEMMA NextKeepsIInv ==
  ASSUME ConsumerAssumption, IInv, [Next]_vars
  PROVE  IInv'
<1>1. TypeOK'
  BY StepTypes DEF IInv
<1>2. HandsOK' /\ NothingIsLost'
  BY StepHands, StepLosesNothing DEF IInv
<1>3. AheadOK' /\ ProcessedSent' /\ OvertakenOnlyAfterFailure'
  BY StepAhead, StepOrder
<1>4. ReceptionsPaid' /\ DeadOnlyIfExhausted'
  BY StepPaid, StepDead
<1> QED
  BY <1>1, <1>2, <1>3, <1>4 DEF IInv

LEMMA AlwaysIInv == Spec => []IInv
<1>1. Init => IInv
  BY InitIInv, ConsumerAssumption
<1>2. IInv /\ [Next]_vars => IInv'
  BY NextKeepsIInv, ConsumerAssumption
<1> QED
  BY <1>1, <1>2, PTL DEF Spec

\* A consumer has a batch exactly while it handles one, and no message is received more
\* often than the redrive policy allows (sqs_wager_consumer.go, Run and handle).
THEOREM TypeCorrect == Spec => []TypeOK
<1>1. IInv => TypeOK
  BY DEF IInv
<1> QED
  BY <1>1, AlwaysIInv, PTL

\* A message leaves the queue only once its operation is committed or the dead-letter queue
\* has it, at whichever call a consumer fails, stops or crashes.
THEOREM NothingLostCorrect == Spec => []NothingIsLost
<1>1. IInv => NothingIsLost
  BY DEF IInv
<1> QED
  BY <1>1, AlwaysIInv, PTL

\* A message that can be processed is dead-lettered only after as many failures as the
\* redrive policy allows receptions: every other reception ends in its deletion.
THEOREM DeadCorrect == Spec => []DeadOnlyIfExhausted
<1>1. IInv => DeadOnlyIfExhausted
  BY DEF IInv
<1> QED
  BY <1>1, AlwaysIInv, PTL

\* A message is processed before an earlier one of its group only if a consumer left the
\* earlier one in the queue after handling it.
THEOREM OrderCorrect == Spec => []OvertakenOnlyAfterFailure
<1>1. IInv => OvertakenOnlyAfterFailure
  BY DEF IInv
<1> QED
  BY <1>1, AlwaysIInv, PTL
=============================================================================
