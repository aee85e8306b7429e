---------------------------- MODULE WagerService ----------------------------
(***************************************************************************)
(* The processing of wagering operations over one PostgreSQL database: the *)
(* handlers of the HTTP API and of the SQS consumer, each delivery a       *)
(* process of its own, and the workers that reapply operations whose       *)
(* reference had not arrived.                                              *)
(*                                                                         *)
(* A process runs one SQL transaction at a time under READ COMMITTED.      *)
(* Every statement that reads shared rows or waits for a lock is a step;   *)
(* what the transaction has written stays in the process until its last    *)
(* step, Finish, makes it visible to all at once.  Waiting for a row lock  *)
(* or for a rival's uncommitted unique key is a disabled step.             *)
(*                                                                         *)
(* Time is abstracted: a lease, a backoff and a time-to-live each run out  *)
(* in a step of the environment.                                           *)
(***************************************************************************)
EXTENDS WagerRules, Sequences, FiniteSets

CONSTANTS
  Deliveries,     \* calls of the HTTP handler and receptions of SQS messages
  Workers,        \* instances of the pending-reference worker
  Messages,       \* SQS message ids
  RequestOf,      \* the request each delivery carries
  MessageOf,      \* the message it comes from, None over HTTP
  OpeningBalance, \* the balance each wallet was opened with
  BatchSize,      \* rows one Claim may take
  MaxAttempts,    \* reapplications before a worker gives up
  MaxFailures,    \* bound: failures and restarts of workers
  SlowWorkers,    \* TRUE: a lease may run out while its holder is at work
  Gone            \* the id of a worker process that no longer exists

Procs == Deliveries \cup Workers

ASSUME RequestAssumption ==
  /\ RequestOf \in [Deliveries -> Requests]
  /\ \A d \in Deliveries : ValidRequest(RequestOf[d])
  /\ MessageOf \in [Deliveries -> Messages \cup {None}]

\* The id of a message is SQS's own, the same for every reception of the same body
\* (consume_wager_transaction.go:13-19).
ASSUME MessageAssumption ==
  \A d, e \in Deliveries :
    MessageOf[d] # None /\ MessageOf[d] = MessageOf[e] => RequestOf[d] = RequestOf[e]

ASSUME SizeAssumption ==
  /\ OpeningBalance \in [Wallets -> Nat]
  /\ BatchSize \in Nat \ {0}
  /\ MaxAttempts \in Nat
  /\ MaxFailures \in Nat
  /\ SlowWorkers \in BOOLEAN

ASSUME NameAssumption ==
  /\ Deliveries \cap Workers = {}
  /\ None \notin Deliveries \cup Workers \cup Messages \cup Wallets
  /\ None \notin Keys \cup Externals \cup Nat \cup Statuses \cup FailureCodes
  /\ Gone \notin Workers \cup {None}

VARIABLES
  \* the committed database
  wallets,       \* balance and version of each wallet
  wagers,        \* the row each delivery inserted, None if it inserted none
  ledger,        \* the entries of each wallet, in commit order
  wagerEvents,   \* outbox events of each wager, in commit order
  walletEvents,  \* versions announced by each wallet's balance events
  inbox,         \* messages recorded as seen
  schedule,      \* the retry columns of each row
  \* row locks of open SQL transactions
  rowLock, walletLock,
  \* the processes
  pc,            \* the next step of each
  draft,         \* the entity a process holds in memory
  replaying,     \* a delivery rereads the winner of a race
  answer,        \* what a delivery was told
  batch, claim,  \* a worker's candidates, and the one it is processing
  failures       \* failures and restarts of workers so far

database == <<wallets, wagers, ledger, wagerEvents, walletEvents, inbox, schedule>>
locks == <<rowLock, walletLock>>
workerVars == <<batch, claim, failures>>
deliveryVars == <<replaying, answer>>
vars == <<database, locks, pc, draft, deliveryVars, workerVars>>

Directions == {"DEBIT", "CREDIT"}
EventKinds == {"Processed", "Rejected", "PendingReference"}
AnswerKinds ==
  {"none", "created", "replay", "idempotency_conflict", "external_conflict",
   "wallet_refused", "already_seen", "not_found_after_race", "error"}
DeliverySteps ==
  {"inbox", "find_key", "find_external", "insert", "loss", "lock_ref", "move",
   "finish", "done"}
WorkerSteps == {"idle", "lock_ref", "move", "finish", "ack"}

Rows ==
  [ status : Statuses, code : FailureCodes \cup {None},
    ref : Deliveries \cup {None}, result : Nat \cup {None} ]
Entries ==
  [ wager : Deliveries \cup {None}, direction : Directions, amount : Nat,
    before : Nat, after : Nat ]
Schedules ==
  [ attempts : Nat, due : BOOLEAN, overdue : BOOLEAN,
    lockedBy : Workers \cup {Gone, None}, expired : BOOLEAN ]
Claims == [ wager : Deliveries, attempts : Nat ]
Answers ==
  [ kind : AnswerKinds, wager : Deliveries \cup {None}, row : Rows \cup {None} ]

NewRow == [status |-> "PENDING", code |-> None, ref |-> None, result |-> None]
NoSchedule ==
  [attempts |-> 0, due |-> FALSE, overdue |-> FALSE, lockedBy |-> None, expired |-> FALSE]
NoAnswer == [kind |-> "none", wager |-> None, row |-> None]

\* The absent value is neither a row nor a claim.
ASSUME AbsentAssumption == None \notin Rows \cup Claims

TypeOK ==
  /\ wallets \in [Wallets -> [balance : Nat, version : Nat]]
  /\ wagers \in [Deliveries -> Rows \cup {None}]
  /\ ledger \in [Wallets -> Seq(Entries)]
  /\ wagerEvents \in [Deliveries -> Seq(EventKinds)]
  /\ walletEvents \in [Wallets -> Seq(Nat)]
  /\ inbox \subseteq Messages
  /\ schedule \in [Deliveries -> Schedules]
  /\ rowLock \in [Deliveries -> Procs \cup {None}]
  /\ walletLock \in [Wallets -> Procs \cup {None}]
  /\ pc \in [Procs -> DeliverySteps \cup WorkerSteps]
  /\ \A d \in Deliveries : pc[d] \in DeliverySteps
  /\ \A w \in Workers : pc[w] \in WorkerSteps
  /\ draft \in [Procs -> Rows \cup {None}]
  /\ replaying \in [Deliveries -> BOOLEAN]
  /\ answer \in [Deliveries -> Answers]
  /\ batch \in [Workers -> SUBSET Claims]
  /\ claim \in [Workers -> Claims \cup {None}]
  /\ failures \in Nat

-----------------------------------------------------------------------------
(* Reading the committed tables. *)

\* The wager a process is working on: a delivery's own, a worker's claim.
Own(p) == IF p \in Deliveries THEN p ELSE claim[p].wager
RequestAt(p) == RequestOf[Own(p)]

ByKey(key) == {d \in Deliveries : wagers[d] # None /\ RequestOf[d].key = key}
\* Mutation: only what was PROCESSED counts as existing.
ProcessedByExternal(external) ==
  {d \in Deliveries : /\ wagers[d] # None
                      /\ RequestOf[d].external = external
                      /\ wagers[d].status = "PROCESSED"}
ByExternal(external) ==
  {d \in Deliveries : wagers[d] # None /\ RequestOf[d].external = external}

SameIdentity(d, e) ==
  RequestOf[d].key = RequestOf[e].key \/ RequestOf[d].external = RequestOf[e].external

IsPending(d) == wagers[d] # None /\ wagers[d].status = "PENDING_REFERENCE"

\* Mutation: a ROLLBACK is not seen as a reversal.
HasProcessedRefundOf(r) ==
  \E d \in Deliveries :
    wagers[d] # None /\ wagers[d].ref = r /\ RequestOf[d].kind = "REFUND" /\ wagers[d].status = "PROCESSED"

HasProcessedReversalOf(r) ==
  \E d \in Deliveries :
    /\ wagers[d] # None
    /\ wagers[d].ref = r
    /\ IsReversal(RequestOf[d].kind)
    /\ wagers[d].status = "PROCESSED"

\* The unique index uq_wager_single_processed_reversal as a check on the row
\* that p is about to write: no OTHER processed reversal of the same reference.
OnlyReversal(p) ==
  (draft[p].status = "PROCESSED" /\ IsReversal(RequestAt(p).kind)) =>
    ~ \E d \in Deliveries \ {Own(p)} :
        /\ wagers[d] # None
        /\ wagers[d].ref = draft[p].ref
        /\ IsReversal(RequestOf[d].kind)
        /\ wagers[d].status = "PROCESSED"

\* uq_ledger_wallet_transaction: the wager has an entry in the wallet already.
InLedger(w, d) == \E i \in 1..Len(ledger[w]) : ledger[w][i].wager = d

\* p's transaction holds an uncommitted row in wager_transactions.
Inserted(d) == pc[d] \in {"loss", "lock_ref", "move", "finish"}

\* p's transaction holds an uncommitted row in inbox_messages.
InInbox(d) ==
  /\ MessageOf[d] # None
  /\ ~replaying[d]
  /\ pc[d] \notin {"inbox", "done"}

\* What p finds where its reference should be: a committed row, or the row it has just
\* inserted itself when the request refers to itself.
Referenced(p) ==
  {r \in Deliveries : RequestOf[r].external = RequestAt(p).ref /\ (wagers[r] # None \/ r = p)}
\* Mutation: a waiting reference is taken for a settled one.
RowSeenAsSettled(r) ==
  IF wagers[r] = None THEN NewRow
  ELSE [wagers[r] EXCEPT !.status = IF @ = "PENDING_REFERENCE" THEN "PROCESSED" ELSE @]
RowSeen(r) == IF wagers[r] = None THEN NewRow ELSE wagers[r]

RefKind(p) == IF draft[p].ref = None THEN None ELSE RequestOf[draft[p].ref].kind

\* An operation that needs no reference moves money on its own account.
Direction(p) ==
  MovementDirection(RequestAt(p).kind,
                    IF NeedsReference(RequestAt(p)) THEN RefKind(p) ELSE None)

Released(p, lock) == [x \in DOMAIN lock |-> IF lock[x] = p THEN None ELSE lock[x]]

Goto(p, step) == pc' = [pc EXCEPT ![p] = step]
Tell(d, kind, e, row) ==
  answer' = [answer EXCEPT ![d] = [kind |-> kind, wager |-> e, row |-> row]]

\* The inbox row of a delivery is committed with the rest of its transaction.
CommitInbox(d) ==
  inbox' = IF InInbox(d) THEN inbox \cup {MessageOf[d]} ELSE inbox

-----------------------------------------------------------------------------
(* One delivery: ProcessWagerTransactionUseCase.Execute over HTTP, and     *)
(* ConsumeWagerTransactionUseCase.Execute for a message.                   *)

\* Mutation: the inbox row is committed at once, in a transaction of its own.
InsertInboxAtOnce(d) ==
  /\ pc[d] = "inbox"
  /\ inbox' = inbox \cup {MessageOf[d]}
  /\ IF MessageOf[d] \in inbox
       THEN Goto(d, "done") /\ Tell(d, "already_seen", None, None)
       ELSE Goto(d, "find_key") /\ UNCHANGED answer
  /\ UNCHANGED <<wallets, wagers, ledger, wagerEvents, walletEvents, schedule,
                 locks, draft, replaying, workerVars>>

\* Inbox.TryInsert: ON CONFLICT DO NOTHING, waiting for a rival reception of the
\* same message that has not committed yet.
TryInsertInbox(d) ==
  /\ pc[d] = "inbox"
  /\ ~ \E e \in Deliveries \ {d} : InInbox(e) /\ MessageOf[e] = MessageOf[d]
  /\ \/ /\ MessageOf[d] \notin inbox
        /\ Goto(d, "find_key")
        /\ UNCHANGED answer
     \/ /\ MessageOf[d] \in inbox
        /\ Goto(d, "done")
        /\ Tell(d, "already_seen", None, None)
  /\ UNCHANGED <<database, locks, draft, replaying, workerVars>>

\* The delivery finds e where its own operation should be: a replay if the
\* content is the same, a conflict (and a rollback) if it is not.
AnswerFrom(d, e) ==
  /\ Goto(d, "done")
  /\ IF PayloadHash(RequestOf[e]) = PayloadHash(RequestOf[d])
       THEN Tell(d, "replay", e, wagers[e]) /\ CommitInbox(d)
       ELSE Tell(d, "idempotency_conflict", e, None) /\ UNCHANGED inbox

\* First half of findExisting.
FindByKey(d) ==
  /\ pc[d] = "find_key"
  /\ \/ /\ ByKey(RequestOf[d].key) = {}
        /\ Goto(d, "find_external")
        /\ UNCHANGED <<answer, inbox>>
     \/ \E e \in ByKey(RequestOf[d].key) : AnswerFrom(d, e)
  /\ UNCHANGED <<wallets, wagers, ledger, wagerEvents, walletEvents, schedule,
                 locks, draft, replaying, workerVars>>

\* Mutation: whatever the second lookup finds belongs to another key.
FindRivalByExternal(d) ==
  /\ pc[d] = "find_external"
  /\ \/ /\ ByExternal(RequestOf[d].external) = {}
        /\ Goto(d, IF replaying[d] THEN "done" ELSE "insert")
        /\ IF replaying[d] THEN Tell(d, "not_found_after_race", None, None)
                           ELSE UNCHANGED answer
     \/ \E e \in ByExternal(RequestOf[d].external) :
          Goto(d, "done") /\ Tell(d, "external_conflict", e, None)
  /\ UNCHANGED <<database, locks, draft, replaying, workerVars>>

\* Second half: a later statement, so it may see a row the first one missed.
FindByExternal(d) ==
  /\ pc[d] = "find_external"
  /\ \/ /\ ByExternal(RequestOf[d].external) = {}
        /\ Goto(d, IF replaying[d] THEN "done" ELSE "insert")
        /\ IF replaying[d] THEN Tell(d, "not_found_after_race", None, None)
                           ELSE UNCHANGED answer
        /\ UNCHANGED inbox
     \/ \E e \in ByExternal(RequestOf[d].external) :
          /\ RequestOf[e].key = RequestOf[d].key
          /\ AnswerFrom(d, e)
     \/ \E e \in ByExternal(RequestOf[d].external) :
          /\ RequestOf[e].key # RequestOf[d].key
          /\ Goto(d, "done")
          /\ Tell(d, "external_conflict", e, None)
          /\ UNCHANGED inbox
  /\ UNCHANGED <<wallets, wagers, ledger, wagerEvents, walletEvents, schedule,
                 locks, draft, replaying, workerVars>>

\* ErrWalletNotFound, ErrPlayerWalletMismatch, ErrWalletCurrencyMismatch.
RefuseWallet(d) ==
  /\ pc[d] = "insert"
  /\ RequestOf[d].wallet = None
  /\ Goto(d, "done")
  /\ Tell(d, "wallet_refused", None, None)
  /\ UNCHANGED <<database, locks, draft, replaying, workerVars>>

\* Mutation: no unique index, so nobody waits for a rival.
InsertWithoutWaiting(d) == pc[d] = "insert" /\ RequestOf[d].wallet # None

\* WagerTransactions.Create waits for a rival that holds the same key or the
\* same external id and has not committed yet.
MayInsert(d) ==
  /\ pc[d] = "insert"
  /\ RequestOf[d].wallet # None
  /\ ~ \E e \in Deliveries \ {d} : Inserted(e) /\ SameIdentity(d, e)

IdentityTaken(d) == \E e \in Deliveries : wagers[e] # None /\ SameIdentity(d, e)

Create(d) ==
  /\ MayInsert(d)
  /\ ~IdentityTaken(d)
  /\ draft' = [draft EXCEPT ![d] = NewRow]
  /\ Goto(d, IF NeedsReference(RequestOf[d]) THEN "lock_ref"
             ELSE IF MovesMoney(RequestOf[d]) THEN "move" ELSE "loss")
  /\ UNCHANGED <<database, locks, deliveryVars, workerVars>>

\* Mutation: the INSERT is simply tried again.
InsertAgain(d) ==
  /\ MayInsert(d)
  /\ IdentityTaken(d)
  /\ replaying' = [replaying EXCEPT ![d] = TRUE]
  /\ UNCHANGED <<database, locks, pc, draft, answer, workerVars>>

\* ErrDuplicateTransaction: the transaction is rolled back, its inbox row with
\* it, and the winner is read again in a new one.
LoseRace(d) ==
  /\ MayInsert(d)
  /\ IdentityTaken(d)
  /\ replaying' = [replaying EXCEPT ![d] = TRUE]
  /\ Goto(d, "find_key")
  /\ UNCHANGED <<database, locks, draft, answer, workerVars>>

-----------------------------------------------------------------------------
(* applyWagerTransaction, run by a delivery for its new row and by a       *)
(* worker for the row it reapplies.                                        *)

Reject(p, code) ==
  draft' = [draft EXCEPT ![p].status = "REJECTED", ![p].code = code]

\* applyLoss: the balance is read without a lock.
ApplyLoss(d) ==
  /\ pc[d] = "loss"
  /\ draft' = [draft EXCEPT ![d].status = "PROCESSED",
                            ![d].result = wallets[RequestOf[d].wallet].balance]
  /\ Goto(d, "finish")
  /\ UNCHANGED <<database, locks, deliveryVars, workerVars>>

\* The reference has no committed row: wait for it.
ReferenceMissing(p) ==
  /\ pc[p] = "lock_ref"
  /\ Referenced(p) = {}
  /\ draft' = [draft EXCEPT ![p].status = "PENDING_REFERENCE"]
  /\ Goto(p, "finish")
  /\ UNCHANGED <<database, locks, deliveryVars, workerVars>>

\* SELECT ... FOR UPDATE on the reference, then everything applyWithReference
\* decides about it before money moves.
LockReference(p) ==
  /\ pc[p] = "lock_ref"
  /\ \E r \in Referenced(p) :
       LET broken == CheckReferenceRules(RequestAt(p), RequestOf[r])
           resolved == [draft[p] EXCEPT !.ref = r]
           Decide(status, code) ==
             /\ draft' = [draft EXCEPT ![p] = [resolved EXCEPT !.status = status, !.code = code]]
             /\ Goto(p, "finish")
       IN  /\ rowLock[r] \in {None, p}
           /\ rowLock' = [rowLock EXCEPT ![r] = p]
           /\ \/ /\ RowSeen(r).status \in {"PENDING", "PENDING_REFERENCE"}
                 /\ Decide("PENDING_REFERENCE", None)
              \/ /\ RowSeen(r).status \in {"REJECTED", "FAILED"}
                 /\ Decide("REJECTED", "REFERENCE_NOT_PROCESSED")
              \/ /\ RowSeen(r).status = "PROCESSED"
                 /\ broken # None
                 /\ Decide("REJECTED", broken)
              \/ /\ RowSeen(r).status = "PROCESSED"
                 /\ broken = None
                 /\ IsReversal(RequestAt(p).kind) /\ HasProcessedReversalOf(r)
                 /\ Decide("REJECTED", "REFERENCE_ALREADY_REVERSED")
              \/ /\ RowSeen(r).status = "PROCESSED"
                 /\ broken = None
                 /\ ~(IsReversal(RequestAt(p).kind) /\ HasProcessedReversalOf(r))
                 /\ draft' = [draft EXCEPT ![p] = resolved]
                 /\ Goto(p, "move")
  /\ UNCHANGED <<database, walletLock, deliveryVars, workerVars>>

\* Mutation: off by one.
InsufficientByTwo(p) ==
  /\ Direction(p) = "DEBIT"
  /\ wallets[RequestAt(p).wallet].balance + 1 < RequestAt(p).amount

Insufficient(p) ==
  /\ Direction(p) = "DEBIT"
  /\ wallets[RequestAt(p).wallet].balance < RequestAt(p).amount

\* The conditional UPDATE finds no row.  The condition is tested on the committed
\* balance first, so a locked wallet does not make it wait.
DebitRefused(p) ==
  /\ pc[p] = "move"
  /\ Insufficient(p)
  /\ Reject(p, InsufficientCode(RequestAt(p).kind))
  /\ Goto(p, "finish")
  /\ UNCHANGED <<database, locks, deliveryVars, workerVars>>

\* Mutation: no unique index on the entries of a wager.
MoveMoneyAgain(p) ==
  LET q == RequestAt(p)
  IN  /\ pc[p] = "move"
      /\ ~Insufficient(p)
      /\ walletLock[q.wallet] = None
      /\ walletLock' = [walletLock EXCEPT ![q.wallet] = p]
      /\ draft' = [draft EXCEPT ![p].status = "PROCESSED",
                     ![p].result = BalanceAfter(Direction(p), wallets[q.wallet].balance, q.amount)]
      /\ Goto(p, "finish")
      /\ UNCHANGED <<database, rowLock, deliveryVars, workerVars>>

\* The UPDATE locks the wallet row until the transaction ends and returns the
\* new balance; the ledger's unique index admits one entry per wager.
MoveMoney(p) ==
  LET q == RequestAt(p)
  IN  /\ pc[p] = "move"
      /\ ~Insufficient(p)
      /\ walletLock[q.wallet] = None
      /\ ~InLedger(q.wallet, Own(p))
      /\ walletLock' = [walletLock EXCEPT ![q.wallet] = p]
      /\ draft' = [draft EXCEPT ![p].status = "PROCESSED",
                     ![p].result = BalanceAfter(Direction(p), wallets[q.wallet].balance, q.amount)]
      /\ Goto(p, "finish")
      /\ UNCHANGED <<database, rowLock, deliveryVars, workerVars>>

-----------------------------------------------------------------------------
(* The end of a transaction: the row update, the outbox rows, COMMIT.      *)

Moved(p) == walletLock[RequestAt(p).wallet] = p

NewEntry(p) ==
  [ wager |-> Own(p), direction |-> Direction(p), amount |-> RequestAt(p).amount,
    before |-> BalanceBefore(Direction(p), draft[p].result, RequestAt(p).amount),
    after |-> draft[p].result ]

\* Mutation: the waiting event goes out at every attempt.
EventsEveryTime(p) ==
  IF draft[p].status = "PROCESSED" THEN <<"Processed">>
  ELSE IF draft[p].status = "REJECTED" THEN <<"Rejected">> ELSE <<"PendingReference">>

\* The waiting event is for the first time only: a worker's row waited before.
NewEvents(p) ==
  IF draft[p].status = "PROCESSED" THEN <<"Processed">>
  ELSE IF draft[p].status = "REJECTED" THEN <<"Rejected">>
  ELSE IF p \in Deliveries THEN <<"PendingReference">> ELSE <<>>

\* Mutation: the version the UPDATE found.
AnnouncedTooLow(p) == IF Moved(p) THEN <<wallets[RequestAt(p).wallet].version>> ELSE <<>>

\* WalletBalanceChanged carries the version the UPDATE left the wallet at.
Announced(p) == IF Moved(p) THEN <<wallets[RequestAt(p).wallet].version + 1>> ELSE <<>>

\* reference_next_retry_at: set at first, kept while the row waits, cleared after.
NextDue(p) ==
  IF draft[p].status # "PENDING_REFERENCE" THEN FALSE
  ELSE IF IsPending(Own(p)) THEN schedule[Own(p)].due ELSE TRUE

\* The UPDATE has no condition on the status the row has by now.
Commit(p) ==
  LET w == RequestAt(p).wallet
  IN  /\ pc[p] = "finish"
      /\ rowLock[Own(p)] \in {None, p}
      /\ OnlyReversal(p)
      /\ wagers' = [wagers EXCEPT ![Own(p)] = draft[p]]
      /\ wagerEvents' = [wagerEvents EXCEPT ![Own(p)] = @ \o NewEvents(p)]
      /\ schedule' = [schedule EXCEPT ![Own(p)].due = NextDue(p)]
      /\ IF Moved(p)
           THEN /\ wallets' = [wallets EXCEPT ![w] =
                     [balance |-> draft[p].result, version |-> @.version + 1]]
                /\ ledger' = [ledger EXCEPT ![w] = Append(@, NewEntry(p))]
           ELSE UNCHANGED <<wallets, ledger>>
      /\ walletEvents' = [walletEvents EXCEPT ![w] = @ \o Announced(p)]
      /\ rowLock' = Released(p, rowLock)
      /\ walletLock' = Released(p, walletLock)

FinishDelivery(d) ==
  /\ Commit(d)
  /\ CommitInbox(d)
  /\ Tell(d, "created", d, draft[d])
  /\ Goto(d, "done")
  /\ draft' = [draft EXCEPT ![d] = None]
  /\ UNCHANGED <<replaying, workerVars>>

\* A crash, a lost connection, a cancelled context: the transaction is rolled
\* back and the caller learns nothing.
FailDelivery(d) ==
  /\ pc[d] # "done"
  /\ Goto(d, "done")
  /\ Tell(d, "error", None, None)
  /\ draft' = [draft EXCEPT ![d] = None]
  /\ rowLock' = Released(d, rowLock)
  /\ walletLock' = Released(d, walletLock)
  /\ UNCHANGED <<database, replaying, workerVars>>

-----------------------------------------------------------------------------
(* One pending-reference worker: RunOnce claims a batch, then processOne   *)
(* takes its candidates one at a time.                                     *)

\* Mutation: a lease keeps nobody away.
LeaseIgnored(i) == TRUE
\* Mutation: a lease left behind is never taken over.
LeaseForEver(i) == schedule[i].lockedBy = None
LeaseFree(i) == schedule[i].lockedBy = None \/ schedule[i].expired

\* FOR UPDATE SKIP LOCKED passes over rows some transaction has locked.
Claimable == {i \in Deliveries :
  IsPending(i) /\ schedule[i].due /\ LeaseFree(i) /\ rowLock[i] = None}

ClaimBatch(w) ==
  /\ pc[w] = "idle"
  /\ batch[w] = {}
  /\ \E S \in SUBSET Claimable :
       /\ S # {}
       /\ Cardinality(S) <= BatchSize
       /\ Cardinality(S) = BatchSize \/ S = Claimable
       /\ batch' = [batch EXCEPT ![w] =
            {[wager |-> i, attempts |-> schedule[i].attempts] : i \in S}]
       /\ schedule' = [i \in Deliveries |->
            IF i \in S THEN [schedule[i] EXCEPT !.lockedBy = w, !.expired = FALSE]
                       ELSE schedule[i]]
  /\ UNCHANGED <<wallets, wagers, ledger, wagerEvents, walletEvents, inbox, locks,
                 pc, draft, deliveryVars, claim, failures>>

\* FindByID reads the row without locking it.
Take(w, c) ==
  /\ pc[w] = "idle"
  /\ claim' = [claim EXCEPT ![w] = c]
  /\ batch' = [batch EXCEPT ![w] = @ \ {c}]
  /\ UNCHANGED <<database, locks, deliveryVars, failures>>

\* Settled by somebody else since it was claimed.
TakeSettled(w) ==
  \E c \in batch[w] :
    /\ Take(w, c)
    /\ ~IsPending(c.wager)
    /\ draft' = [draft EXCEPT ![w] = wagers[c.wager]]
    /\ Goto(w, "ack")

\* Out of attempts or out of time, judged on what Claim had read.
GiveUp(c) == c.attempts >= MaxAttempts \/ schedule[c.wager].overdue

TakeToGiveUp(w) ==
  \E c \in batch[w] :
    /\ Take(w, c)
    /\ IsPending(c.wager)
    /\ GiveUp(c)
    /\ draft' = [draft EXCEPT ![w] =
         [wagers[c.wager] EXCEPT !.status = "REJECTED", !.code = "REFERENCE_NOT_FOUND"]]
    /\ Goto(w, "finish")

TakeToReapply(w) ==
  \E c \in batch[w] :
    /\ Take(w, c)
    /\ IsPending(c.wager)
    /\ ~GiveUp(c)
    /\ draft' = [draft EXCEPT ![w] = wagers[c.wager]]
    /\ Goto(w, "lock_ref")

FinishRetry(w) ==
  /\ Commit(w)
  /\ Goto(w, "ack")
  /\ UNCHANGED <<inbox, draft, deliveryVars, workerVars>>

\* After the commit, in a transaction of its own: MarkRetryScheduled for a row that
\* still waits, ReleaseLock for one that is settled.  Both touch the row only while
\* this worker is its holder.
Acknowledge(w) ==
  LET i == Own(w)
      waits == draft[w].status = "PENDING_REFERENCE"
  IN  /\ pc[w] = "ack"
      /\ rowLock[i] = None
      /\ schedule' = IF schedule[i].lockedBy # w THEN schedule ELSE
           [schedule EXCEPT ![i] =
              [schedule[i] EXCEPT
                 !.lockedBy = None, !.expired = FALSE,
                 !.attempts = IF waits THEN claim[w].attempts + 1 ELSE schedule[i].attempts,
                 !.due = IF waits THEN FALSE ELSE schedule[i].due]]
      /\ Goto(w, "idle")
      /\ draft' = [draft EXCEPT ![w] = None]
      /\ claim' = [claim EXCEPT ![w] = None]
      /\ UNCHANGED <<wallets, wagers, ledger, wagerEvents, walletEvents, inbox, locks,
                     deliveryVars, batch, failures>>

\* The transaction is rolled back and the error logged; the lease stays.
AbandonClaim(w) ==
  /\ pc[w] # "idle"
  /\ Goto(w, "idle")
  /\ draft' = [draft EXCEPT ![w] = None]
  /\ claim' = [claim EXCEPT ![w] = None]
  /\ rowLock' = Released(w, rowLock)
  /\ walletLock' = Released(w, walletLock)
  /\ UNCHANGED <<database, deliveryVars, batch>>

FailRetry(w) ==
  /\ failures < MaxFailures
  /\ failures' = failures + 1
  /\ AbandonClaim(w)

\* A worker starts again under a fresh id: its leases belong to nobody alive.
RestartWorker(w) ==
  /\ failures < MaxFailures
  /\ batch[w] # {} \/ claim[w] # None
  /\ failures' = failures + 1
  /\ schedule' = [i \in Deliveries |->
       IF schedule[i].lockedBy = w THEN [schedule[i] EXCEPT !.lockedBy = Gone]
                                   ELSE schedule[i]]
  /\ Goto(w, "idle")
  /\ draft' = [draft EXCEPT ![w] = None]
  /\ claim' = [claim EXCEPT ![w] = None]
  /\ batch' = [batch EXCEPT ![w] = {}]
  /\ rowLock' = Released(w, rowLock)
  /\ walletLock' = Released(w, walletLock)
  /\ UNCHANGED <<wallets, wagers, ledger, wagerEvents, walletEvents, inbox, deliveryVars>>

-----------------------------------------------------------------------------
(* PostgreSQL and the clock. *)

\* p cannot take its next step before q ends its transaction.
WaitsFor(p, q) ==
  /\ p # q
  /\ \/ pc[p] = "lock_ref" /\ \E r \in Referenced(p) : rowLock[r] = q
     \/ pc[p] = "move" /\ ~Insufficient(p) /\ walletLock[RequestAt(p).wallet] = q
     \/ pc[p] = "finish" /\ rowLock[Own(p)] = q
     \/ /\ p \in Deliveries /\ q \in Deliveries
        /\ \/ pc[p] = "insert" /\ Inserted(q) /\ SameIdentity(p, q)
           \/ pc[p] = "inbox" /\ InInbox(q) /\ MessageOf[p] = MessageOf[q]

\* A process waits for one other at most, so these are exactly the cycles.
InDeadlock(p) ==
  \E S \in SUBSET Procs :
    /\ p \in S
    /\ \A q \in S : \E r \in S : WaitsFor(q, r)
    /\ \A q \in S : \E r \in S : WaitsFor(r, q)

\* The server's deadlock detector aborts one of the transactions.
DeadlockVictim(w) ==
  /\ InDeadlock(w)
  /\ AbandonClaim(w)
  /\ UNCHANGED failures

\* A second ledger entry for the wager: the unique index refuses it, the error is
\* logged and the lease stays.
ConstraintViolation(w) ==
  /\ pc[w] = "move"
  /\ ~Insufficient(w)
  /\ walletLock[RequestAt(w).wallet] = None
  /\ InLedger(RequestAt(w).wallet, Own(w))
  /\ AbandonClaim(w)
  /\ UNCHANGED failures

ClockFrame == UNCHANGED <<wallets, wagers, ledger, wagerEvents, walletEvents, inbox,
                          locks, pc, draft, deliveryVars, workerVars>>

BackoffElapses(i) ==
  /\ IsPending(i)
  /\ ~schedule[i].due
  /\ schedule' = [schedule EXCEPT ![i].due = TRUE]
  /\ ClockFrame

TTLElapses(i) ==
  /\ IsPending(i)
  /\ ~schedule[i].overdue
  /\ schedule' = [schedule EXCEPT ![i].overdue = TRUE]
  /\ ClockFrame

AtWorkOn(w, i) == \E c \in batch[w] \cup {claim[w]} : c # None /\ c.wager = i

\* locked_at is older than the lock timeout.
LeaseExpires(i) ==
  /\ schedule[i].lockedBy # None
  /\ ~schedule[i].expired
  /\ IsPending(i)
  /\ SlowWorkers \/ ~ \E w \in Workers : schedule[i].lockedBy = w /\ AtWorkOn(w, i)
  /\ schedule' = [schedule EXCEPT ![i].expired = TRUE]
  /\ ClockFrame

-----------------------------------------------------------------------------
\* OpenWallet: with a positive balance the wallet has its OPENING entry and event.
OpeningEntries(b) ==
  IF b = 0 THEN <<>>
  ELSE <<[wager |-> None, direction |-> "CREDIT", amount |-> b, before |-> 0, after |-> b]>>

Init ==
  /\ wallets = [w \in Wallets |-> [balance |-> OpeningBalance[w], version |-> 1]]
  /\ ledger = [w \in Wallets |-> OpeningEntries(OpeningBalance[w])]
  /\ walletEvents = [w \in Wallets |-> IF OpeningBalance[w] = 0 THEN <<>> ELSE <<1>>]
  /\ wagers = [d \in Deliveries |-> None]
  /\ wagerEvents = [d \in Deliveries |-> <<>>]
  /\ inbox = {}
  /\ schedule = [d \in Deliveries |-> NoSchedule]
  /\ rowLock = [d \in Deliveries |-> None]
  /\ walletLock = [w \in Wallets |-> None]
  /\ pc = [p \in Procs |-> IF p \in Workers THEN "idle"
                           ELSE IF MessageOf[p] # None THEN "inbox" ELSE "find_key"]
  /\ draft = [p \in Procs |-> None]
  /\ replaying = [d \in Deliveries |-> FALSE]
  /\ answer = [d \in Deliveries |-> NoAnswer]
  /\ batch = [w \in Workers |-> {}]
  /\ claim = [w \in Workers |-> None]
  /\ failures = 0

ApplyStep(p) ==
  ReferenceMissing(p) \/ LockReference(p) \/ DebitRefused(p) \/ MoveMoney(p)

DeliveryStep(d) ==
  \/ TryInsertInbox(d) \/ FindByKey(d) \/ FindByExternal(d)
  \/ RefuseWallet(d) \/ Create(d) \/ LoseRace(d)
  \/ ApplyLoss(d) \/ ApplyStep(d) \/ FinishDelivery(d)

WorkerStep(w) ==
  \/ TakeSettled(w) \/ TakeToGiveUp(w) \/ TakeToReapply(w)
  \/ ApplyStep(w) \/ FinishRetry(w) \/ Acknowledge(w)
  \/ DeadlockVictim(w) \/ ConstraintViolation(w)

\* Nothing is left to do: every delivery has its answer and every row is settled.
Quiescent ==
  /\ \A d \in Deliveries : pc[d] = "done" /\ ~IsPending(d)
  /\ \A w \in Workers : pc[w] = "idle" /\ batch[w] = {}
  /\ UNCHANGED vars

Next ==
  \/ \E d \in Deliveries : DeliveryStep(d) \/ FailDelivery(d)
  \/ \E w \in Workers : ClaimBatch(w) \/ WorkerStep(w) \/ FailRetry(w) \/ RestartWorker(w)
  \/ \E i \in Deliveries : BackoffElapses(i) \/ TTLElapses(i) \/ LeaseExpires(i)
  \/ Quiescent

Spec == Init /\ [][Next]_vars

\* A server that is up runs its statements, a worker polls, and leases and backoffs
\* run out.  No delivery has to fail, and the time-to-live need not run out.
Fairness ==
  /\ \A d \in Deliveries : WF_vars(DeliveryStep(d))
  /\ \A w \in Workers : WF_vars(ClaimBatch(w)) /\ WF_vars(WorkerStep(w))
  /\ \A d \in Deliveries : WF_vars(BackoffElapses(d)) /\ WF_vars(LeaseExpires(d))

FairSpec == Spec /\ Fairness
=============================================================================
