---------------------------- MODULE WagerConsumer ----------------------------
(***************************************************************************)
(* The consumers of wager-transactions.fifo: each receives a batch, handles*)
(* its messages one by one and deletes, dead-letters or leaves each.       *)
(*                                                                         *)
(* The queue is SQS as the code uses it: a message received is hidden for  *)
(* the visibility timeout and holds up its group meanwhile; one received   *)
(* too often goes to the dead-letter queue.  What happens within the       *)
(* database transaction that processes a message is WagerService; here it  *)
(* is one step, and doing it again has no effect.                          *)
(***************************************************************************)
EXTENDS Naturals, Sequences, SequencesExt

CONSTANTS
  Messages, Groups,
  GroupOf,          \* the message group of each message
  Verdict,          \* what Execute makes of it: it can be processed ("good"), it never
                    \* can ("permanent"), or every attempt fails ("poison")
  Consumers,
  BatchSize,        \* MaxNumberOfMessages
  MaxReceiveCount,  \* of the redrive policy
  MaxFailures,      \* bound: failed calls, stops, crashes, messages that reappear too early
  None

ASSUME ConsumerAssumption ==
  /\ GroupOf \in [Messages -> Groups]
  /\ Verdict \in [Messages -> {"good", "permanent", "poison"}]
  /\ BatchSize \in Nat \ {0}
  /\ MaxReceiveCount \in Nat \ {0}
  /\ MaxFailures \in Nat
  /\ None \notin Consumers

VARIABLES
  sent,        \* the messages of each group, in the order they were sent
  gone,        \* messages no longer in the queue
  receives,    \* how often each message was received
  hiddenBy,    \* whose receipt hides a message, None if it is visible
  dlq,         \* messages in the dead-letter queue
  processed,   \* messages whose operation is committed
  pc,          \* the next step of each consumer
  batch,       \* what it has received and not dealt with, its current message first
  stopping,    \* its context is cancelled
  troubled,    \* messages some consumer left in the queue after handling them
  failures

queueVars == <<sent, gone, receives, hiddenBy, dlq>>
consumerVars == <<pc, batch, stopping>>
vars == <<queueVars, processed, consumerVars, troubled, failures>>

Steps == {"poll", "execute", "dead_letter", "delete", "stopped"}

Sent(m) == Contains(sent[GroupOf[m]], m)
Waiting(m) == Sent(m) /\ m \notin gone
Holding(c, m) == Contains(batch[c], m)

\* One message was sent before another of its group.
Precedes(m, n) ==
  LET group == sent[GroupOf[m]]
  IN  /\ GroupOf[m] = GroupOf[n]
      /\ \E i, j \in 1..Len(group) : i < j /\ group[i] = m /\ group[j] = n

TypeOK ==
  /\ sent \in [Groups -> Seq(Messages)]
  /\ gone \subseteq Messages
  /\ receives \in [Messages -> 0..MaxReceiveCount]
  /\ hiddenBy \in [Messages -> Consumers \cup {None}]
  /\ dlq \subseteq Messages
  /\ processed \subseteq Messages
  /\ pc \in [Consumers -> Steps]
  /\ batch \in [Consumers -> Seq(Messages)]
  /\ \A c \in Consumers : batch[c] # <<>> <=> pc[c] \in {"execute", "dead_letter", "delete"}
  /\ stopping \in [Consumers -> BOOLEAN]
  /\ troubled \subseteq Messages
  /\ failures \in Nat

Fail == failures < MaxFailures /\ failures' = failures + 1

-----------------------------------------------------------------------------
(* The queue. *)

Send(m) ==
  /\ ~Sent(m)
  /\ sent' = [sent EXCEPT ![GroupOf[m]] = Append(@, m)]
  /\ UNCHANGED <<gone, receives, hiddenBy, dlq, processed, consumerVars, troubled, failures>>

\* A group with a message in flight, or with one due for the dead-letter queue, waits.
Open(g) == \A m \in Messages : Waiting(m) /\ GroupOf[m] = g => hiddenBy[m] = None

\* A message a reception may return once it returns those before it.
Offered(m) == Waiting(m) /\ Open(GroupOf[m]) /\ receives[m] < MaxReceiveCount

\* Up to the size of a batch, groups in any order, and in each its first messages one after
\* the other.
Receptions ==
  {b \in SeqOf(Messages, BatchSize) :
     /\ b # <<>>
     /\ \A i \in 1..Len(b) :
          /\ Offered(b[i])
          /\ \A j \in 1..Len(b) : b[i] = b[j] => i = j
          /\ \A m \in Messages : Waiting(m) /\ Precedes(m, b[i]) => \E j \in 1..(i - 1) : b[j] = m}

Hand(c, b) ==
  /\ receives' = [m \in Messages |-> IF Contains(b, m) THEN receives[m] + 1 ELSE receives[m]]
  /\ hiddenBy' = [m \in Messages |-> IF Contains(b, m) THEN c ELSE hiddenBy[m]]
  /\ UNCHANGED <<sent, gone, dlq>>

\* Mutation: off by one.
RedriveLater(m) ==
  /\ Waiting(m)
  /\ hiddenBy[m] = None
  /\ receives[m] = MaxReceiveCount + 1
  /\ gone' = gone \cup {m}
  /\ dlq' = dlq \cup {m}
  /\ UNCHANGED <<sent, receives, hiddenBy, processed, consumerVars, troubled, failures>>

\* Received as often as the redrive policy allows, and visible again.
Redrive(m) ==
  /\ Waiting(m)
  /\ hiddenBy[m] = None
  /\ receives[m] = MaxReceiveCount
  /\ gone' = gone \cup {m}
  /\ dlq' = dlq \cup {m}
  /\ UNCHANGED <<sent, receives, hiddenBy, processed, consumerVars, troubled, failures>>

Reappear(m) ==
  /\ hiddenBy[m] # None
  /\ hiddenBy' = [hiddenBy EXCEPT ![m] = None]
  /\ UNCHANGED <<sent, gone, receives, dlq, processed, consumerVars, troubled>>

\* The visibility timeout runs out.
VisibilityExpires(m) ==
  /\ ~ \E c \in Consumers : hiddenBy[m] = c /\ Holding(c, m)
  /\ Reappear(m)
  /\ UNCHANGED failures

\* The consumer is still busy with it, or with those before it in the batch.
VisibilityExpiresEarly(m) ==
  /\ \E c \in Consumers : hiddenBy[m] = c /\ Holding(c, m)
  /\ Reappear(m)
  /\ Fail

-----------------------------------------------------------------------------
(* A consumer: Run and handle. *)

\* Mutation: the messages of a batch are handled last first.
ReceiveReversed(c) ==
  /\ pc[c] = "poll"
  /\ ~stopping[c]
  /\ \E b \in Receptions : Hand(c, b) /\ batch' = [batch EXCEPT ![c] = Reverse(b)]
  /\ pc' = [pc EXCEPT ![c] = "execute"]
  /\ UNCHANGED <<processed, stopping, troubled, failures>>

Receive(c) ==
  /\ pc[c] = "poll"
  /\ ~stopping[c]
  /\ \E b \in Receptions : Hand(c, b) /\ batch' = [batch EXCEPT ![c] = b]
  /\ pc' = [pc EXCEPT ![c] = "execute"]
  /\ UNCHANGED <<processed, stopping, troubled, failures>>

\* The answer is lost: messages hidden for nobody.
ReceiveUnanswered(c) ==
  /\ pc[c] = "poll"
  /\ ~stopping[c]
  /\ Fail
  /\ \E b \in Receptions : Hand(c, b)
  /\ UNCHANGED <<processed, consumerVars, troubled>>

EmptyPoll(c) ==
  /\ pc[c] = "poll"
  /\ ~stopping[c]
  /\ Receptions = {}
  /\ UNCHANGED vars

Goto(c, step) == pc' = [pc EXCEPT ![c] = step] /\ UNCHANGED batch

\* Mutation: one message too early.
ProceedTooSoon(c) ==
  /\ batch' = [batch EXCEPT ![c] = Tail(@)]
  /\ pc' = [pc EXCEPT ![c] = IF Len(batch[c]) <= 2 THEN "poll" ELSE "execute"]

\* On to the next message of the batch.
Proceed(c) ==
  /\ batch' = [batch EXCEPT ![c] = Tail(@)]
  /\ pc' = [pc EXCEPT ![c] = IF Len(batch[c]) = 1 THEN "poll" ELSE "execute"]

\* Processed now or before: an outcome either way.
Execute(c) ==
  /\ pc[c] = "execute"
  /\ ~stopping[c]
  /\ Verdict[Head(batch[c])] = "good"
  /\ processed' = processed \cup {Head(batch[c])}
  /\ Goto(c, "delete")
  /\ UNCHANGED <<queueVars, stopping, troubled, failures>>

\* IsPermanentWagerError.
ExecuteRefuses(c) ==
  /\ pc[c] = "execute"
  /\ Verdict[Head(batch[c])] = "permanent"
  /\ Goto(c, "dead_letter")
  /\ UNCHANGED <<queueVars, processed, stopping, troubled, failures>>

\* A call fails on its own account, or because the context is cancelled.
Fails(c) == IF stopping[c] THEN UNCHANGED failures ELSE Fail

\* Leave the current message in the queue and take the next.
Leave(c) ==
  /\ Proceed(c)
  /\ troubled' = troubled \cup {Head(batch[c])}
  /\ UNCHANGED <<sent, receives, stopping>>

\* Mutation: every error is taken for a permanent one.
ExecuteGivesUp(c) ==
  /\ pc[c] = "execute"
  /\ Verdict[Head(batch[c])] = "poison" \/ Fails(c)
  /\ Verdict[Head(batch[c])] = "poison" => UNCHANGED failures
  /\ Goto(c, "dead_letter")
  /\ UNCHANGED <<queueVars, processed, stopping, troubled>>

\* A transient error: nothing is deleted, though the commit may have gone through.
ExecuteFails(c) ==
  LET m == Head(batch[c])
  IN  /\ pc[c] = "execute"
      /\ \/ /\ Verdict[m] = "poison"
            /\ UNCHANGED <<processed, failures>>
         \/ /\ Verdict[m] # "poison"
            /\ Fails(c)
            /\ \/ Verdict[m] = "good" /\ processed' = processed \cup {m}
               \/ UNCHANGED processed
      /\ UNCHANGED <<gone, hiddenBy, dlq>>
      /\ Leave(c)

DeadLetter(c) ==
  /\ pc[c] = "dead_letter"
  /\ ~stopping[c]
  /\ dlq' = dlq \cup {Head(batch[c])}
  /\ Goto(c, "delete")
  /\ UNCHANGED <<sent, gone, receives, hiddenBy, processed, stopping, troubled, failures>>

\* Mutation: the message is deleted although the dead-letter queue may not have it.
DeadLetterUnchecked(c) ==
  /\ pc[c] = "dead_letter"
  /\ Fails(c)
  /\ Goto(c, "delete")
  /\ UNCHANGED <<queueVars, processed, stopping, troubled>>

\* SendMessage fails, maybe after the dead-letter queue has taken the message.
DeadLetterFails(c) ==
  /\ pc[c] = "dead_letter"
  /\ Fails(c)
  /\ dlq' = dlq \cup {Head(batch[c])} \/ UNCHANGED dlq
  /\ UNCHANGED <<gone, hiddenBy, processed>>
  /\ Leave(c)

\* The receipt of a message that has reappeared deletes nothing.
Discard(c) ==
  LET m == Head(batch[c])
  IN  IF hiddenBy[m] = c
        THEN gone' = gone \cup {m} /\ hiddenBy' = [hiddenBy EXCEPT ![m] = None]
        ELSE UNCHANGED <<gone, hiddenBy>>

Delete(c) ==
  /\ pc[c] = "delete"
  /\ ~stopping[c]
  /\ Discard(c)
  /\ Proceed(c)
  /\ UNCHANGED <<sent, receives, dlq, processed, stopping, troubled, failures>>

\* DeleteMessage fails, maybe after the queue has deleted the message.
DeleteFails(c) ==
  /\ pc[c] = "delete"
  /\ Fails(c)
  /\ Discard(c) \/ UNCHANGED <<gone, hiddenBy>>
  /\ UNCHANGED <<dlq, processed>>
  /\ Leave(c)

-----------------------------------------------------------------------------
\* SIGTERM cancels the one context that the poll, the transaction and the calls use.
Stop(c) ==
  /\ pc[c] # "stopped"
  /\ ~stopping[c]
  /\ Fail
  /\ stopping' = [stopping EXCEPT ![c] = TRUE]
  /\ UNCHANGED <<queueVars, processed, pc, batch, troubled>>

Exit(c) ==
  /\ pc[c] = "poll"
  /\ stopping[c]
  /\ Goto(c, "stopped")
  /\ UNCHANGED <<queueVars, processed, stopping, troubled, failures>>

Crash(c) ==
  /\ pc[c] # "stopped"
  /\ Fail
  /\ pc' = [pc EXCEPT ![c] = "stopped"]
  /\ batch' = [batch EXCEPT ![c] = <<>>]
  /\ troubled' = troubled \cup ToSet(batch[c])
  /\ UNCHANGED <<queueVars, processed, stopping>>

Start(c) ==
  /\ pc[c] = "stopped"
  /\ Goto(c, "poll")
  /\ stopping' = [stopping EXCEPT ![c] = FALSE]
  /\ UNCHANGED <<queueVars, processed, troubled, failures>>

-----------------------------------------------------------------------------
Init ==
  /\ sent = [g \in Groups |-> <<>>]
  /\ gone = {}
  /\ receives = [m \in Messages |-> 0]
  /\ hiddenBy = [m \in Messages |-> None]
  /\ dlq = {}
  /\ processed = {}
  /\ pc = [c \in Consumers |-> "poll"]
  /\ batch = [c \in Consumers |-> <<>>]
  /\ stopping = [c \in Consumers |-> FALSE]
  /\ troubled = {}
  /\ failures = 0

\* What a consumer does that is up and meets no failure of its own.
ConsumerStep(c) ==
  \/ Receive(c) \/ Execute(c) \/ ExecuteRefuses(c) \/ DeadLetter(c) \/ Delete(c)
  \/ (ExecuteFails(c) \/ DeadLetterFails(c) \/ DeleteFails(c)) /\ UNCHANGED failures
  \/ Exit(c) \/ Start(c)

Next ==
  \/ \E m \in Messages : Send(m) \/ Redrive(m) \/ VisibilityExpires(m) \/ VisibilityExpiresEarly(m)
  \/ \E c \in Consumers :
       \/ ConsumerStep(c) \/ EmptyPoll(c) \/ ReceiveUnanswered(c)
       \/ ExecuteFails(c) \/ DeadLetterFails(c) \/ DeleteFails(c) \/ Stop(c) \/ Crash(c)

Spec == Init /\ [][Next]_vars

\* A consumer that is up polls and handles its batch, one that is down is started again;
\* the queue offers what it holds, lets timeouts run out and follows its redrive policy.
\* Nothing has to be sent, and calls need not fail.
Fairness ==
  /\ \A c \in Consumers : WF_vars(ConsumerStep(c))
  /\ \A m \in Messages : WF_vars(VisibilityExpires(m)) /\ WF_vars(Redrive(m))

FairSpec == Spec /\ Fairness
=============================================================================
