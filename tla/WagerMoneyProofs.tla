-------------------------- MODULE WagerMoneyProofs --------------------------
(***************************************************************************)
(* Theorems about the money that operations move, for every value of the   *)
(* constants of WagerService, slow workers included: what a process has    *)
(* read under a row lock stays true until it commits.                      *)
(***************************************************************************)
EXTENDS WagerServiceProofs, FiniteSetTheorems

-----------------------------------------------------------------------------
(* The inductive invariant. *)

\* d is a PROCESSED reversal of r.
ReversalOf(d, r) ==
  HasRow(d) /\ wagers[d].ref = r /\ IsReversal(RequestOf[d].kind) /\ wagers[d].status = "PROCESSED"

\* p holds the row of its reference, and what LockReference has found out about it stands.
ReferenceHeld(p) ==
  LET r == draft[p].ref
  IN  /\ r \in Deliveries /\ rowLock[r] = p
      /\ HasRow(r) /\ wagers[r].status = "PROCESSED"
      /\ RequestOf[r].external = RequestAt(p).ref
      /\ CheckReferenceRules(RequestAt(p), RequestOf[r]) = None
      /\ IsReversal(RequestAt(p).kind) => \A d \in Deliveries \ {Own(p)} : ~ReversalOf(d, r)

MayApply(p) == NeedsReference(RequestAt(p)) => ReferenceHeld(p)

\* A row is locked as a reference by who is about to apply or has decided about it: while
\* the reference waits, that can only be to wait for it.
RowLocksOK(p) ==
  \A x \in Deliveries : rowLock[x] = p =>
    /\ pc[p] \in {"move", "finish"}
    /\ draft[p].ref = x
    /\ HasRow(x) \/ x = p
    /\ RowSeen(x).status \in {"PENDING", "PENDING_REFERENCE"} =>
         pc[p] = "finish" /\ draft[p].status = "PENDING_REFERENCE"

\* A wallet is locked by who moves money in it for the first time.
WalletLocksOK(p) ==
  \A w \in Wallets : walletLock[w] = p =>
    /\ draft[p].status = "PROCESSED"
    /\ MovesMoney(RequestAt(p))
    /\ ~InLedger(w, Own(p))

\* What each step of a transaction may count on.
StepsOK(p) ==
  /\ pc[p] = "loss" => ~MovesMoney(RequestAt(p)) /\ ~NeedsReference(RequestAt(p))
  /\ pc[p] = "lock_ref" => NeedsReference(RequestAt(p))
  /\ pc[p] = "move" => MovesMoney(RequestAt(p)) /\ MayApply(p)
  /\ pc[p] = "finish" =>
       \/ draft[p].status = "PROCESSED" /\ MayApply(p) /\ (MovesMoney(RequestAt(p)) => Moved(p))
       \/ draft[p].status = "REJECTED" /\ (RequestAt(p).kind = "BET" \/ NeedsReference(RequestAt(p)))
       \/ draft[p].status = "PENDING_REFERENCE" /\ NeedsReference(RequestAt(p))

WorkOK(p) == RowLocksOK(p) /\ WalletLocksOK(p) /\ StepsOK(p)

\* Before its own, the wallet has the entry of the reference, the other way round.
Mirrored(d, j) ==
  LET entries == ledger[RequestOf[d].wallet]
  IN  \E i \in 1..Len(entries) :
        /\ i < j
        /\ entries[i].wager = wagers[d].ref
        /\ entries[i].amount = entries[j].amount
        /\ entries[i].direction # entries[j].direction

\* The money of a PROCESSED operation is in the ledger.
Paid(d) ==
  LET entries == ledger[RequestOf[d].wallet]
  IN  \E j \in 1..Len(entries) :
        /\ entries[j].wager = d
        /\ entries[j].amount = RequestOf[d].amount
        /\ RequestOf[d].kind # "ROLLBACK" =>
             entries[j].direction = IF RequestOf[d].kind = "BET" THEN "DEBIT" ELSE "CREDIT"
        /\ IsReversal(RequestOf[d].kind) => Mirrored(d, j)

ReferenceKnown(d) ==
  LET r == wagers[d].ref
  IN  r \in Deliveries /\ HasRow(r) /\ RequestOf[r].external = RequestOf[d].ref

RowOK(d) ==
  HasRow(d) =>
    \/ /\ wagers[d].status = "PROCESSED"
       /\ MovesMoney(RequestOf[d]) => Paid(d)
       /\ NeedsReference(RequestOf[d]) => ReferenceKnown(d)
    \/ wagers[d].status = "REJECTED"
    \/ wagers[d].status = "PENDING_REFERENCE" /\ NeedsReference(RequestOf[d])

\* Every entry but the opening one belongs to one operation of the wallet, which has no other.
EntriesOK ==
  \A w \in Wallets : \A i \in 1..Len(ledger[w]) :
    LET d == ledger[w][i].wager
    IN  d # None => /\ d \in Deliveries /\ HasRow(d) /\ RequestOf[d].wallet = w
                    /\ \A j \in 1..Len(ledger[w]) : ledger[w][j].wager = d => i = j

OneReversal == \A d, e, r \in Deliveries : ReversalOf(d, r) /\ ReversalOf(e, r) => d = e

BooksOK == (\A d \in Deliveries : RowOK(d)) /\ EntriesOK /\ OneReversal /\ VersionsAnnounced
MoneyInv == (\A p \in Procs : WorkOK(p)) /\ BooksOK

-----------------------------------------------------------------------------
(* Frames. *)

\* The locks of the others are theirs before and after a step of p.
LocksOf(q) ==
  /\ \A x \in Deliveries : rowLock'[x] = q <=> rowLock[x] = q
  /\ \A w \in Wallets : walletLock'[w] = q <=> walletLock[w] = q

Untouched(q) ==
  /\ pc'[q] = pc[q] /\ draft'[q] = draft[q] /\ (q \in Workers => claim'[q] = claim[q])
  /\ LocksOf(q)

LEMMA OwnFrame ==
  ASSUME NameAssumption, NEW q \in Procs, q \in Workers => claim'[q] = claim[q]
  PROVE  Own(q)' = Own(q) /\ RequestAt(q)' = RequestAt(q)
<1>1. Own(q)' = Own(q)
  BY DEF Own, Procs
<1> QED
  BY <1>1 DEF RequestAt

LEMMA BooksFrame ==
  ASSUME BooksOK, UNCHANGED <<wallets, wagers, ledger, walletEvents>> PROVE BooksOK'
<1>1. \A d \in Deliveries : RowOK(d)'
  BY DEF BooksOK, RowOK, HasRow, Paid, Mirrored, ReferenceKnown
<1>2. EntriesOK' /\ OneReversal' /\ VersionsAnnounced'
  BY DEF BooksOK, EntriesOK, OneReversal, VersionsAnnounced, HasRow, ReversalOf
<1> QED
  BY <1>1, <1>2 DEF BooksOK

LEMMA WorkFrame ==
  ASSUME RequestAssumption, NameAssumption, IInv, NEW q \in Procs, WorkOK(q), Untouched(q),
         UNCHANGED <<wagers, ledger>>
  PROVE  WorkOK(q)'
<1>1. Own(q)' = Own(q) /\ RequestAt(q)' = RequestAt(q)
  BY OwnFrame DEF Untouched
<1>2. RowLocksOK(q)'
  BY DEF WorkOK, RowLocksOK, Untouched, LocksOf, HasRow, RowSeen
<1>3. WalletLocksOK(q)'
  BY <1>1 DEF WorkOK, WalletLocksOK, Untouched, LocksOf, InLedger
<1>4. MayApply(q) /\ pc[q] \in {"move", "finish"} => MayApply(q)'
  BY <1>1 DEF MayApply, ReferenceHeld, Untouched, LocksOf, HasRow, ReversalOf
<1>5. pc[q] = "finish" /\ Moved(q) => Moved(q)'
  BY <1>1, Working DEF Moved, Untouched, LocksOf, IInv
<1>6. StepsOK(q)'
  BY <1>1, <1>4, <1>5 DEF WorkOK, StepsOK, Untouched
<1> QED
  BY <1>2, <1>3, <1>6 DEF WorkOK

\* A process holds locks only from the lock on its reference to the end of its transaction.
LEMMA NoLocksElsewhere ==
  ASSUME IInv, MoneyInv, NEW p \in Procs, pc[p] \notin {"move", "finish"}
  PROVE  (\A x \in Deliveries : rowLock[x] # p) /\ (\A w \in Wallets : walletLock[w] # p)
  BY DEF MoneyInv, WorkOK, RowLocksOK, IInv, MoneyInFlight

\* The others do not notice a step of p that writes nothing and leaves their locks alone.
LEMMA OthersWork ==
  ASSUME RequestAssumption, NameAssumption, IInv, MoneyInv, NEW p \in Procs, StepOf(p),
         UNCHANGED <<wagers, ledger>>, \A q \in Procs \ {p} : LocksOf(q)
  PROVE  \A q \in Procs \ {p} : WorkOK(q)'
<1> SUFFICES ASSUME NEW q \in Procs \ {p} PROVE WorkOK(q)'
  OBVIOUS
<1>1. Untouched(q)
  BY DEF Untouched, StepOf
<1> QED
  BY <1>1, WorkFrame DEF MoneyInv

\* So it is with a step that p takes without a lock and that leaves the locks as they are.
LEMMA LocklessStep ==
  ASSUME RequestAssumption, NameAssumption, IInv, MoneyInv, NEW p \in Procs, StepOf(p),
         pc[p] \notin {"move", "finish"}, UNCHANGED <<wagers, ledger, locks>>, StepsOK(p)'
  PROVE  \A q \in Procs : WorkOK(q)'
<1>1. \A q \in Procs \ {p} : WorkOK(q)'
  BY OthersWork DEF LocksOf, locks
<1>2. RowLocksOK(p)' /\ WalletLocksOK(p)'
  BY NoLocksElsewhere DEF RowLocksOK, WalletLocksOK, locks
<1> QED
  BY <1>1, <1>2 DEF WorkOK

\* Who ends a transaction gives up its own locks and nobody else's.
LEMMA ReleasedLocks ==
  ASSUME NameAssumption, TypeOK, NEW p \in Procs,
         rowLock' = Released(p, rowLock), walletLock' = Released(p, walletLock)
  PROVE  /\ \A x \in Deliveries : rowLock'[x] # p
         /\ \A w \in Wallets : walletLock'[w] # p
         /\ \A q \in Procs \ {p} : LocksOf(q)
<1>1. \A x \in Deliveries : rowLock'[x] = IF rowLock[x] = p THEN None ELSE rowLock[x]
  BY DEF Released, TypeOK
<1>2. \A w \in Wallets : walletLock'[w] = IF walletLock[w] = p THEN None ELSE walletLock[w]
  BY DEF Released, TypeOK
<1>3. None \notin Procs
  BY DEF NameAssumption, Procs
<1> QED
  BY <1>1, <1>2, <1>3 DEF LocksOf

LEMMA AtRest ==
  ASSUME NEW p \in Procs, \A x \in Deliveries : rowLock'[x] # p, \A w \in Wallets : walletLock'[w] # p,
         pc'[p] \in {"done", "idle", "ack"}
  PROVE  WorkOK(p)'
  BY DEF WorkOK, RowLocksOK, WalletLocksOK, StepsOK

LEMMA RollbackKeepsWork ==
  ASSUME RequestAssumption, NameAssumption, IInv, MoneyInv, NEW p \in Procs, StepOf(p),
         UNCHANGED <<wagers, ledger>>, pc'[p] \in {"done", "idle"},
         rowLock' = Released(p, rowLock), walletLock' = Released(p, walletLock)
  PROVE  \A q \in Procs : WorkOK(q)'
<1>1. /\ \A x \in Deliveries : rowLock'[x] # p
      /\ \A w \in Wallets : walletLock'[w] # p
      /\ \A q \in Procs \ {p} : LocksOf(q)
  BY ReleasedLocks DEF IInv
<1> QED
  BY <1>1, AtRest, OthersWork

-----------------------------------------------------------------------------
(* The steps of a delivery and of a worker before money moves. *)

\* Only what is looked up and read changes: a step that leaves p outside its transaction.
LEMMA LookupKeepsWork ==
  ASSUME RequestAssumption, NameAssumption, IInv, MoneyInv, NEW p \in Procs, NEW step, Goto(p, step),
         pc[p] \notin {"move", "finish"}, step \notin {"loss", "lock_ref", "move", "finish"},
         draft' = draft \/ (\E row \in Rows \cup {None} : draft' = [draft EXCEPT ![p] = row]),
         \A w \in Workers \ {p} : claim'[w] = claim[w] /\ batch'[w] = batch[w],
         UNCHANGED <<wagers, ledger, locks>>
  PROVE  \A q \in Procs : WorkOK(q)'
<1>1. pc'[p] = step /\ \A q \in Procs \ {p} : pc'[q] = pc[q]
  BY GotoGives DEF IInv
<1>2. \A q \in Procs \ {p} : draft'[q] = draft[q]
  BY DraftType DEF IInv
<1>3. StepOf(p)
  BY <1>1, <1>2 DEF StepOf
<1>4. StepsOK(p)'
  BY <1>1 DEF StepsOK
<1> QED
  BY <1>3, <1>4, LocklessStep

LEMMA DeliveryLookups ==
  ASSUME RequestAssumption, NameAssumption, IInv, MoneyInv, NEW d \in Deliveries,
         TryInsertInbox(d) \/ FindByKey(d) \/ FindByExternal(d) \/ RefuseWallet(d) \/ LoseRace(d)
  PROVE  \A q \in Procs : WorkOK(q)'
<1>1. /\ d \in Procs
      /\ pc[d] \in {"inbox", "find_key", "find_external", "insert"}
      /\ UNCHANGED <<wagers, ledger, locks, draft, claim, batch>>
      /\ \E step \in {"find_key", "find_external", "insert", "done"} : Goto(d, step)
  BY DEF Procs, TryInsertInbox, FindByKey, FindByExternal, AnswerFrom, RefuseWallet, LoseRace, MayInsert,
     database, workerVars
<1> QED
  BY <1>1, LookupKeepsWork

LEMMA CreateKeepsWork ==
  ASSUME RequestAssumption, NameAssumption, IInv, MoneyInv, NEW d \in Deliveries, Create(d)
  PROVE  \A q \in Procs : WorkOK(q)'
<1> DEFINE step == IF NeedsReference(RequestOf[d]) THEN "lock_ref"
                   ELSE IF MovesMoney(RequestOf[d]) THEN "move" ELSE "loss"
<1>0. d \in Procs /\ TypeOK
  BY DEF Procs, IInv
<1>1. /\ pc[d] = "insert" /\ Goto(d, step) /\ draft' = [draft EXCEPT ![d] = NewRow]
      /\ UNCHANGED <<wagers, ledger, locks, claim, batch>>
  BY DEF Create, MayInsert, database, workerVars
<1>2. pc'[d] = step /\ \A q \in Procs \ {d} : pc'[q] = pc[q]
  BY <1>0, <1>1, GotoGives
<1>3. StepOf(d)
  BY <1>0, <1>1, <1>2 DEF StepOf, TypeOK
<1>4. RequestAt(d)' = RequestOf[d]
  BY DEF RequestAt, Own
<1>5. StepsOK(d)'
  BY <1>2, <1>4 DEF StepsOK, MayApply
<1> QED
  BY <1>0, <1>1, <1>3, <1>5, LocklessStep

LEMMA ApplyLossKeepsWork ==
  ASSUME RequestAssumption, NameAssumption, IInv, MoneyInv, NEW d \in Deliveries, ApplyLoss(d)
  PROVE  \A q \in Procs : WorkOK(q)'
<1>0. d \in Procs /\ TypeOK
  BY DEF Procs, IInv
<1>1. /\ pc[d] = "loss" /\ Goto(d, "finish")
      /\ UNCHANGED <<wagers, ledger, locks, claim, batch>>
  BY DEF ApplyLoss, database, workerVars
<1>2. pc'[d] = "finish" /\ \A q \in Procs \ {d} : pc'[q] = pc[q]
  BY <1>0, <1>1, GotoGives
<1>3. draft[d] \in Rows
  BY <1>1 DEF IInv, ProcessesOK, Inserted
<1>4. draft'[d].status = "PROCESSED" /\ \A q \in Procs \ {d} : draft'[q] = draft[q]
  BY <1>0, <1>3 DEF ApplyLoss, TypeOK, Rows
<1>5. StepOf(d)
  BY <1>1, <1>2, <1>4 DEF StepOf
<1>6. RequestAt(d)' = RequestAt(d)
  BY DEF RequestAt, Own
<1>7. ~MovesMoney(RequestAt(d)) /\ ~NeedsReference(RequestAt(d))
  BY <1>0, <1>1 DEF MoneyInv, WorkOK, StepsOK
<1>8. StepsOK(d)'
  BY <1>2, <1>4, <1>6, <1>7 DEF StepsOK, MayApply
<1> QED
  BY <1>0, <1>1, <1>5, <1>8, LocklessStep

LEMMA ReferenceMissingKeepsWork ==
  ASSUME RequestAssumption, NameAssumption, IInv, MoneyInv, NEW p \in Procs, ReferenceMissing(p)
  PROVE  \A q \in Procs : WorkOK(q)'
<1>1. /\ pc[p] = "lock_ref" /\ Goto(p, "finish") /\ TypeOK
      /\ UNCHANGED <<wagers, ledger, locks, claim, batch>>
  BY DEF ReferenceMissing, database, workerVars, IInv
<1>2. pc'[p] = "finish" /\ \A q \in Procs \ {p} : pc'[q] = pc[q]
  BY <1>1, GotoGives
<1>3. draft[p] \in Rows
  BY <1>1, Working DEF IInv
<1>4. draft'[p].status = "PENDING_REFERENCE" /\ \A q \in Procs \ {p} : draft'[q] = draft[q]
  BY <1>1, <1>3 DEF ReferenceMissing, TypeOK, Rows
<1>5. StepOf(p)
  BY <1>1, <1>2, <1>4 DEF StepOf
<1>6. RequestAt(p)' = RequestAt(p)
  BY <1>1, OwnFrame
<1>7. NeedsReference(RequestAt(p))
  BY <1>1 DEF MoneyInv, WorkOK, StepsOK
<1>8. StepsOK(p)'
  BY <1>2, <1>4, <1>6, <1>7 DEF StepsOK
<1> QED
  BY <1>1, <1>5, <1>8, LocklessStep

LEMMA TakesKeepWork ==
  ASSUME RequestAssumption, NameAssumption, AbsentAssumption, IInv, MoneyInv, NEW w \in Workers,
         TakeSettled(w) \/ TakeToGiveUp(w) \/ TakeToReapply(w)
  PROVE  \A q \in Procs : WorkOK(q)'
<1>0. w \in Procs /\ w \notin Deliveries /\ TypeOK
  BY DEF Procs, NameAssumption, IInv
<1>1. PICK c \in batch[w], row \in Rows \cup {None}, step \in {"ack", "finish", "lock_ref"} :
        /\ Take(w, c) /\ Goto(w, step) /\ draft' = [draft EXCEPT ![w] = row]
        /\ step # "ack" => IsPending(c.wager)
        /\ step = "finish" => row.status = "REJECTED"
  <2>1. \A c \in batch[w] : c.wager \in Deliveries /\ wagers[c.wager] \in Rows
    BY DEF IInv, TypeOK, ProcessesOK, HasRow, Claims
  <2>2. CASE TakeSettled(w)
    BY <2>1, <2>2 DEF TakeSettled
  <2>3. CASE TakeToGiveUp(w)
    <3>1. PICK c \in batch[w] :
            /\ Take(w, c) /\ IsPending(c.wager) /\ Goto(w, "finish")
            /\ draft' = [draft EXCEPT ![w] =
                 [wagers[c.wager] EXCEPT !.status = "REJECTED", !.code = "REFERENCE_NOT_FOUND"]]
      BY <2>3 DEF TakeToGiveUp
    <3> DEFINE row == [wagers[c.wager] EXCEPT !.status = "REJECTED", !.code = "REFERENCE_NOT_FOUND"]
    <3>2. row \in Rows /\ row.status = "REJECTED"
      BY ZenonT(30), <2>1 DEF Rows, Statuses, FailureCodes
    <3>3. /\ Take(w, c) /\ Goto(w, "finish") /\ IsPending(c.wager)
          /\ draft' = [draft EXCEPT ![w] = row]
      BY <3>1
    <3> HIDE DEF row
    <3> QED
      BY ZenonT(30), <3>2, <3>3
  <2>4. CASE TakeToReapply(w)
    BY <2>1, <2>4 DEF TakeToReapply
  <2> QED
    BY <2>2, <2>3, <2>4
<1>2. /\ pc[w] = "idle" /\ claim' = [claim EXCEPT ![w] = c] /\ batch' = [batch EXCEPT ![w] = @ \ {c}]
      /\ UNCHANGED <<wagers, ledger, locks>>
  BY <1>1 DEF Take, database
<1>3. pc'[w] = step /\ \A q \in Procs \ {w} : pc'[q] = pc[q]
  BY <1>0, <1>1, GotoGives
<1>4. draft'[w] = row /\ \A q \in Procs \ {w} : draft'[q] = draft[q]
  BY <1>0, <1>1, DraftType
<1>5. claim'[w] = c /\ StepOf(w)
  BY <1>0, <1>2, <1>3, <1>4 DEF StepOf, TypeOK
<1>6. RequestAt(w)' = RequestOf[c.wager]
  BY <1>0, <1>5 DEF RequestAt, Own
<1>7. IsPending(c.wager) => NeedsReference(RequestOf[c.wager])
  <2>1. c.wager \in Deliveries
    BY <1>0 DEF TypeOK, Claims
  <2>2. RowOK(c.wager)
    BY <2>1 DEF MoneyInv, BooksOK
  <2> QED
    BY <2>2 DEF RowOK, HasRow, IsPending
<1>8. StepsOK(w)'
  BY <1>1, <1>3, <1>4, <1>6, <1>7 DEF StepsOK
<1> QED
  BY <1>0, <1>2, <1>5, <1>8, LocklessStep

LEMMA AcknowledgeKeepsWork ==
  ASSUME RequestAssumption, NameAssumption, IInv, MoneyInv, NEW w \in Workers, Acknowledge(w)
  PROVE  \A q \in Procs : WorkOK(q)'
<1>1. /\ w \in Procs /\ pc[w] = "ack" /\ Goto(w, "idle")
      /\ draft' = [draft EXCEPT ![w] = None] /\ claim' = [claim EXCEPT ![w] = None]
      /\ UNCHANGED <<wagers, ledger, locks, batch>>
  BY DEF Procs, Acknowledge
<1>2. \A v \in Workers \ {w} : claim'[v] = claim[v] /\ batch'[v] = batch[v]
  BY <1>1 DEF IInv, TypeOK
<1> QED
  BY <1>1, <1>2, LookupKeepsWork

LEMMA RollbacksKeepWork ==
  ASSUME RequestAssumption, NameAssumption, IInv, MoneyInv, NEW p \in Procs,
         \/ p \in Deliveries /\ FailDelivery(p)
         \/ p \in Workers /\ (AbandonClaim(p) \/ RestartWorker(p))
  PROVE  \A q \in Procs : WorkOK(q)'
<1>1. /\ \E step \in {"done", "idle"} : Goto(p, step)
      /\ draft' = [draft EXCEPT ![p] = None]
      /\ UNCHANGED <<wagers, ledger>>
      /\ rowLock' = Released(p, rowLock) /\ walletLock' = Released(p, walletLock)
      /\ claim' = claim \/ claim' = [claim EXCEPT ![p] = None]
      /\ batch' = batch \/ batch' = [batch EXCEPT ![p] = {}]
  BY DEF FailDelivery, AbandonClaim, RestartWorker, database, workerVars
<1>2. pc'[p] \in {"done", "idle"} /\ \A q \in Procs \ {p} : pc'[q] = pc[q]
  BY <1>1, GotoGives DEF IInv
<1>3. \A q \in Procs \ {p} : draft'[q] = draft[q]
  BY <1>1 DEF IInv, TypeOK
<1>4. \A w \in Workers \ {p} : claim'[w] = claim[w] /\ batch'[w] = batch[w]
  BY <1>1 DEF IInv, TypeOK
<1>5. StepOf(p)
  BY <1>2, <1>3, <1>4 DEF StepOf
<1> QED
  BY <1>1, <1>2, <1>5, RollbackKeepsWork

LEMMA DebitRefusedKeepsWork ==
  ASSUME RequestAssumption, NameAssumption, IInv, MoneyInv, NEW p \in Procs, DebitRefused(p)
  PROVE  \A q \in Procs : WorkOK(q)'
<1>1. /\ pc[p] = "move" /\ Insufficient(p) /\ Goto(p, "finish") /\ TypeOK
      /\ Reject(p, InsufficientCode(RequestAt(p).kind))
      /\ UNCHANGED <<wagers, ledger, locks, claim, batch>>
  BY DEF DebitRefused, database, workerVars, IInv
<1>2. pc'[p] = "finish" /\ \A q \in Procs \ {p} : pc'[q] = pc[q]
  BY <1>1, GotoGives
<1>3. draft[p] \in Rows
  BY <1>1, Working DEF IInv
<1>4. /\ draft'[p].status = "REJECTED" /\ draft'[p].ref = draft[p].ref
      /\ \A q \in Procs \ {p} : draft'[q] = draft[q]
  BY <1>1, <1>3 DEF Reject, TypeOK, Rows
<1>5. StepOf(p)
  BY <1>1, <1>2, <1>4 DEF StepOf
<1>6. RequestAt(p)' = RequestAt(p)
  BY <1>1, OwnFrame
<1>7. RequestAt(p).kind = "BET" \/ NeedsReference(RequestAt(p))
  BY <1>1 DEF Insufficient, Direction, MovementDirection, NeedsReference, IsReversal
<1>8. StepsOK(p)'
  BY <1>2, <1>4, <1>6, <1>7 DEF StepsOK
<1>9. RowLocksOK(p)'
  BY <1>1, <1>2, <1>4 DEF MoneyInv, WorkOK, RowLocksOK, HasRow, RowSeen, locks
<1>10. WalletLocksOK(p)'
  BY <1>1 DEF WalletLocksOK, IInv, MoneyInFlight, locks
<1>11. \A q \in Procs \ {p} : WorkOK(q)'
  BY <1>1, <1>5, OthersWork DEF LocksOf, locks
<1> QED
  BY <1>8, <1>9, <1>10, <1>11 DEF WorkOK

LEMMA MoveMoneyKeepsWork ==
  ASSUME RequestAssumption, NameAssumption, IInv, MoneyInv, NEW p \in Procs, MoveMoney(p)
  PROVE  \A q \in Procs : WorkOK(q)'
<1> DEFINE w == RequestAt(p).wallet
<1>1. /\ pc[p] = "move" /\ Goto(p, "finish") /\ TypeOK
      /\ walletLock[w] = None /\ walletLock' = [walletLock EXCEPT ![w] = p]
      /\ ~InLedger(w, Own(p))
      /\ UNCHANGED <<wagers, ledger, rowLock, claim, batch>>
  BY DEF MoveMoney, database, workerVars, IInv
<1>2. pc'[p] = "finish" /\ \A q \in Procs \ {p} : pc'[q] = pc[q]
  BY <1>1, GotoGives
<1>3. draft[p] \in Rows /\ w \in Wallets
  BY <1>1, Working DEF IInv
<1>4. /\ draft'[p].status = "PROCESSED" /\ draft'[p].ref = draft[p].ref
      /\ \A q \in Procs \ {p} : draft'[q] = draft[q]
  BY <1>1, <1>3 DEF MoveMoney, TypeOK, Rows
<1>5. StepOf(p)
  BY <1>1, <1>2, <1>4 DEF StepOf
<1>6. RequestAt(p)' = RequestAt(p) /\ Own(p)' = Own(p)
  BY <1>1, OwnFrame
<1>7. MovesMoney(RequestAt(p)) /\ MayApply(p)
  BY <1>1 DEF MoneyInv, WorkOK, StepsOK
<1>8. walletLock'[w] = p /\ \A v \in Wallets \ {w} : walletLock'[v] = walletLock[v]
  BY <1>1, <1>3 DEF TypeOK
<1>9. MayApply(p)'
  BY <1>1, <1>4, <1>6, <1>7 DEF MayApply, ReferenceHeld, HasRow, ReversalOf
<1>10. StepsOK(p)'
  BY <1>2, <1>4, <1>6, <1>7, <1>8, <1>9 DEF StepsOK, Moved
<1>11. RowLocksOK(p)'
  BY <1>1, <1>2, <1>4 DEF MoneyInv, WorkOK, RowLocksOK, HasRow, RowSeen
<1>12. \A v \in Wallets \ {w} : walletLock[v] # p
  BY <1>1 DEF IInv, MoneyInFlight
<1>13. WalletLocksOK(p)'
  BY <1>1, <1>4, <1>6, <1>7, <1>8, <1>12 DEF WalletLocksOK, InLedger
<1>14. \A q \in Procs \ {p} : LocksOf(q)
  BY <1>1, <1>8, NameAssumption DEF LocksOf, Procs, NameAssumption
<1>15. \A q \in Procs \ {p} : WorkOK(q)'
  BY <1>1, <1>5, <1>14, OthersWork
<1> QED
  BY <1>10, <1>11, <1>13, <1>15 DEF WorkOK

\* The clock, and a worker that claims a batch.
LEMMA ClockKeepsWork ==
  ASSUME RequestAssumption, NameAssumption, IInv, MoneyInv,
         UNCHANGED <<wagers, ledger, locks, pc, draft, claim>>
  PROVE  \A q \in Procs : WorkOK(q)'
<1>1. \A q \in Procs : Untouched(q)
  BY DEF Untouched, LocksOf, locks
<1> QED
  BY <1>1, WorkFrame DEF MoneyInv

-----------------------------------------------------------------------------
(* The reference is locked, and what is decided about it. *)

\* What p finds under the lock: nothing more than a reason to wait or to give up, or a
\* reference it may apply, which only itself can reverse now.
Finding(p, r, row, step) ==
  \/ /\ step = "finish"
     /\ row.status = "PENDING_REFERENCE"
     /\ RowSeen(r).status \in {"PENDING", "PENDING_REFERENCE"}
  \/ /\ step = "finish"
     /\ row.status = "REJECTED"
     /\ RowSeen(r).status \notin {"PENDING", "PENDING_REFERENCE"}
  \/ /\ step = "move"
     /\ RowSeen(r).status = "PROCESSED"
     /\ CheckReferenceRules(RequestAt(p), RequestOf[r]) = None
     /\ ~(IsReversal(RequestAt(p).kind) /\ HasProcessedReversalOf(r))

LEMMA LockReferenceGives ==
  ASSUME RequestAssumption, NameAssumption, IInv, NEW p \in Procs, LockReference(p)
  PROVE  \E r \in Referenced(p) : \E row \in Rows : \E step \in {"move", "finish"} :
           /\ rowLock[r] \in {None, p}
           /\ rowLock' = [rowLock EXCEPT ![r] = p]
           /\ draft' = [draft EXCEPT ![p] = row]
           /\ Goto(p, step)
           /\ row.ref = r
           /\ Finding(p, r, row, step)
<1>1. PICK r \in Referenced(p) :
        LET broken == CheckReferenceRules(RequestAt(p), RequestOf[r])
            resolved == [draft[p] EXCEPT !.ref = r]
            Decide(status, code) ==
              /\ draft' = [draft EXCEPT ![p] = [resolved EXCEPT !.status = status, !.code = code]]
              /\ Goto(p, "finish")
        IN  /\ rowLock[r] \in {None, p}
            /\ rowLock' = [rowLock EXCEPT ![r] = p]
            /\ \/ /\ RowSeen(r).status \in {"PENDING", "PENDING_REFERENCE"}
                  /\ Decide("PENDING_REFERENCE", None)
               \/ /\ RowSeen(r).status \in {"REJECTED", "FAILED"}
                  /\ Decide("REJECTED", "REFERENCE_NOT_PROCESSED")
               \/ /\ RowSeen(r).status = "PROCESSED"
                  /\ broken # None
                  /\ Decide("REJECTED", broken)
               \/ /\ RowSeen(r).status = "PROCESSED"
                  /\ broken = None
                  /\ IsReversal(RequestAt(p).kind) /\ HasProcessedReversalOf(r)
                  /\ Decide("REJECTED", "REFERENCE_ALREADY_REVERSED")
               \/ /\ RowSeen(r).status = "PROCESSED"
                  /\ broken = None
                  /\ ~(IsReversal(RequestAt(p).kind) /\ HasProcessedReversalOf(r))
                  /\ draft' = [draft EXCEPT ![p] = resolved]
                  /\ Goto(p, "move")
  BY ZenonT(30) DEF LockReference
<1> DEFINE resolved == [draft[p] EXCEPT !.ref = r]
           Row(status, code) == [resolved EXCEPT !.status = status, !.code = code]
<1>2. draft[p] \in Rows /\ r \in Deliveries
  BY Working DEF IInv, LockReference, Referenced
<1>3. resolved \in Rows /\ resolved.ref = r
  BY <1>2 DEF Rows
<1>4. \A status \in Statuses : \A code \in FailureCodes \cup {None} :
        Row(status, code) \in Rows /\ Row(status, code).ref = r /\ Row(status, code).status = status
  BY <1>3 DEF Rows
<1>5. \E row \in Rows : \E step \in {"move", "finish"} :
        draft' = [draft EXCEPT ![p] = row] /\ Goto(p, step) /\ row.ref = r /\ Finding(p, r, row, step)
  <2> HIDE DEF resolved
  <2>1. CASE /\ RowSeen(r).status \in {"PENDING", "PENDING_REFERENCE"}
             /\ draft' = [draft EXCEPT ![p] = Row("PENDING_REFERENCE", None)] /\ Goto(p, "finish")
    <3>1. Row("PENDING_REFERENCE", None) \in Rows /\ Row("PENDING_REFERENCE", None).ref = r
          /\ Row("PENDING_REFERENCE", None).status = "PENDING_REFERENCE"
      BY <1>4 DEF Statuses
    <3>2. Finding(p, r, Row("PENDING_REFERENCE", None), "finish")
      BY <2>1, <3>1 DEF Finding
    <3> QED
      BY <2>1, <3>1, <3>2
  <2>2. CASE /\ RowSeen(r).status \in {"REJECTED", "FAILED", "PROCESSED"}
             /\ \E code \in FailureCodes \cup {None} :
                  draft' = [draft EXCEPT ![p] = Row("REJECTED", code)] /\ Goto(p, "finish")
    <3>1. PICK code \in FailureCodes \cup {None} :
            draft' = [draft EXCEPT ![p] = Row("REJECTED", code)] /\ Goto(p, "finish")
      BY <2>2
    <3>2. Row("REJECTED", code) \in Rows /\ Row("REJECTED", code).ref = r
          /\ Row("REJECTED", code).status = "REJECTED"
      BY <1>4 DEF Statuses
    <3>3. Finding(p, r, Row("REJECTED", code), "finish")
      BY <2>2, <3>2 DEF Finding
    <3> QED
      BY <3>1, <3>2, <3>3
  <2>3. CASE /\ RowSeen(r).status = "PROCESSED"
             /\ CheckReferenceRules(RequestAt(p), RequestOf[r]) = None
             /\ ~(IsReversal(RequestAt(p).kind) /\ HasProcessedReversalOf(r))
             /\ draft' = [draft EXCEPT ![p] = resolved] /\ Goto(p, "move")
    BY <1>3, <2>3 DEF Finding
  <2> USE DEF resolved
  <2>4. /\ "REFERENCE_NOT_PROCESSED" \in FailureCodes /\ "REFERENCE_ALREADY_REVERSED" \in FailureCodes
        /\ CheckReferenceRules(RequestAt(p), RequestOf[r]) \in FailureCodes \cup {None}
    BY RulesHaveCodes DEF FailureCodes
  <2> QED
    BY <1>1, <2>1, <2>2, <2>3, <2>4
<1>6. rowLock[r] \in {None, p} /\ rowLock' = [rowLock EXCEPT ![r] = p]
  BY <1>1
<1> QED
  BY ZenonT(30), <1>5, <1>6

LEMMA LockReferenceKeepsWork ==
  ASSUME RequestAssumption, NameAssumption, IInv, MoneyInv, NEW p \in Procs, LockReference(p)
  PROVE  \A q \in Procs : WorkOK(q)'
<1>1. /\ pc[p] = "lock_ref" /\ TypeOK
      /\ UNCHANGED <<wagers, ledger, walletLock, claim, batch>>
  BY DEF LockReference, database, workerVars, IInv
<1>2. PICK r \in Referenced(p), row \in Rows, step \in {"move", "finish"} :
        /\ rowLock[r] \in {None, p} /\ rowLock' = [rowLock EXCEPT ![r] = p]
        /\ draft' = [draft EXCEPT ![p] = row] /\ Goto(p, step)
        /\ row.ref = r /\ Finding(p, r, row, step)
  BY LockReferenceGives
<1>3. r \in Deliveries /\ RequestOf[r].external = RequestAt(p).ref /\ (HasRow(r) \/ r = p)
  BY DEF Referenced, HasRow
<1>4. pc'[p] = step /\ \A q \in Procs \ {p} : pc'[q] = pc[q]
  BY <1>1, <1>2, GotoGives
<1>5. draft'[p] = row /\ \A q \in Procs \ {p} : draft'[q] = draft[q]
  BY <1>1, <1>2, DraftType
<1>6. StepOf(p)
  BY <1>1, <1>4, <1>5 DEF StepOf
<1>7. RequestAt(p)' = RequestAt(p) /\ Own(p)' = Own(p)
  BY <1>1, OwnFrame
<1>8. rowLock'[r] = p /\ \A x \in Deliveries \ {r} : rowLock'[x] = rowLock[x]
  BY <1>1, <1>2, <1>3 DEF TypeOK
<1>9. (\A x \in Deliveries : rowLock[x] # p) /\ (\A w \in Wallets : walletLock[w] # p)
  BY <1>1, NoLocksElsewhere
<1>10. NeedsReference(RequestAt(p))
  BY <1>1 DEF MoneyInv, WorkOK, StepsOK
<1>11. RowLocksOK(p)'
  <2>1. RowSeen(r)' = RowSeen(r) /\ (HasRow(r)' <=> HasRow(r))
    BY <1>1 DEF RowSeen, HasRow
  <2>2. RowSeen(r).status \in {"PENDING", "PENDING_REFERENCE"} =>
          step = "finish" /\ row.status = "PENDING_REFERENCE"
    BY <1>2 DEF Finding
  <2>3. \A x \in Deliveries : rowLock'[x] = p => x = r
    BY <1>8, <1>9
  <2> QED
    BY <1>2, <1>3, <1>4, <1>5, <2>1, <2>2, <2>3 DEF RowLocksOK
<1>12. WalletLocksOK(p)'
  BY <1>1, <1>9 DEF WalletLocksOK
<1>13. StepsOK(p)'
  <2>1. CASE step = "finish"
    BY <1>2, <1>4, <1>5, <1>7, <1>10, <2>1 DEF StepsOK, Finding
  <2>2. CASE step = "move"
    <3>1. /\ RowSeen(r).status = "PROCESSED"
          /\ CheckReferenceRules(RequestAt(p), RequestOf[r]) = None
          /\ ~(IsReversal(RequestAt(p).kind) /\ HasProcessedReversalOf(r))
      BY <1>2, <2>2 DEF Finding
    <3>2. HasRow(r) /\ wagers[r].status = "PROCESSED"
      BY <3>1 DEF RowSeen, NewRow, HasRow
    <3>3. IsReversal(RequestAt(p).kind) => \A d \in Deliveries \ {Own(p)} : ~ReversalOf(d, r)
      BY <3>1 DEF HasProcessedReversalOf, ReversalOf, HasRow
    <3>4. ReferenceHeld(p)'
      BY <1>1, <1>2, <1>3, <1>5, <1>7, <1>8, <3>1, <3>2, <3>3 DEF ReferenceHeld, HasRow, ReversalOf
    <3>5. MovesMoney(RequestAt(p))
      BY <1>10 DEF NeedsReference, IsReversal, MovesMoney
    <3> QED
      BY <1>4, <1>7, <2>2, <3>4, <3>5 DEF StepsOK, MayApply
  <2> QED
    BY <2>1, <2>2
<1>14. \A q \in Procs \ {p} : LocksOf(q)
  BY <1>1, <1>2, <1>3, <1>8, NameAssumption DEF LocksOf, Procs, NameAssumption
<1>15. \A q \in Procs \ {p} : WorkOK(q)'
  BY <1>1, <1>6, <1>14, OthersWork
<1> QED
  BY <1>11, <1>12, <1>13, <1>15 DEF WorkOK

-----------------------------------------------------------------------------
(* The commit of p. *)

LEMMA CommitRows ==
  ASSUME RequestAssumption, NameAssumption, AbsentAssumption, IInv, NEW p \in Procs, Commit(p)
  PROVE  /\ draft[p] \in Rows /\ Own(p) \in Deliveries /\ RequestAt(p).wallet \in Wallets
         /\ wagers'[Own(p)] = draft[p] /\ draft[p] # None
         /\ \A d \in Deliveries \ {Own(p)} : wagers'[d] = wagers[d] /\ (HasRow(d)' <=> HasRow(d))
         /\ \A d \in Deliveries : HasRow(d) => HasRow(d)'
<1>1. draft[p] \in Rows /\ Own(p) \in Deliveries /\ RequestAt(p).wallet \in Wallets /\ draft[p] # None
  BY Working DEF Commit, IInv, AbsentAssumption
<1>2. wagers' = [wagers EXCEPT ![Own(p)] = draft[p]]
  BY DEF Commit
<1>3. wagers'[Own(p)] = draft[p] /\ \A d \in Deliveries \ {Own(p)} : wagers'[d] = wagers[d]
  BY <1>1, <1>2 DEF IInv, TypeOK
<1> QED
  BY <1>1, <1>3 DEF HasRow

\* A ledger only grows, by the one entry of a transaction that moved money.
LEMMA CommitEntries ==
  ASSUME RequestAssumption, NameAssumption, IInv, NEW p \in Procs, Commit(p)
  PROVE  LET w == RequestAt(p).wallet
         IN  /\ \A v \in Wallets :
                  /\ Len(ledger[v]) \in Nat /\ Len(ledger'[v]) \in Nat
                  /\ Len(ledger[v]) <= Len(ledger'[v])
                  /\ \A i \in 1..Len(ledger[v]) : ledger'[v][i] = ledger[v][i]
                  /\ walletLock[v] # p => ledger'[v] = ledger[v]
             /\ Moved(p) => /\ Len(ledger'[w]) = Len(ledger[w]) + 1
                            /\ ledger'[w][Len(ledger[w]) + 1] = NewEntry(p)
             /\ \A v \in Wallets : v # w => ledger'[v] = ledger[v]
             /\ ~Moved(p) => ledger' = ledger
<1> DEFINE w == RequestAt(p).wallet
<1>1. w \in Wallets /\ pc[p] = "finish"
  BY Working DEF Commit, IInv
<1>2. ledger \in [Wallets -> Seq(Entries)]
  BY DEF IInv, TypeOK
<1>3. \A v \in Wallets : ledger[v] \in Seq(Entries) /\ Len(ledger[v]) \in Nat
  BY <1>2
<1>4. CASE ~Moved(p)
  <2>1. ledger' = ledger
    BY <1>4 DEF Commit
  <2> QED
    BY <1>3, <1>4, <2>1
<1>5. CASE Moved(p)
  <2> DEFINE entry == NewEntry(p)
  <2>1. ledger' = [ledger EXCEPT ![w] = Append(ledger[w], entry)] /\ walletLock[w] = p
    BY <1>5 DEF Commit, Moved
  <2>2. entry \in Entries
    BY <1>1, <1>5, NewEntryFits
  <2> HIDE DEF entry
  <2>3. ledger'[w] = Append(ledger[w], entry) /\ \A v \in Wallets : v # w => ledger'[v] = ledger[v]
    BY <1>1, <1>2, <2>1
  <2>4. /\ Len(ledger'[w]) = Len(ledger[w]) + 1
        /\ ledger'[w][Len(ledger[w]) + 1] = entry
        /\ \A i \in 1..Len(ledger[w]) : ledger'[w][i] = ledger[w][i]
    BY <1>1, <1>3, <2>2, <2>3
  <2> HIDE DEF w
  <2> QED
    BY <1>1, <1>3, <1>5, <2>1, <2>3, <2>4 DEF entry, w
<1> QED
  BY <1>4, <1>5

\* What each process has found out under its lock is not spoilt by another's commit.
LEMMA CommitKeepsWork ==
  ASSUME RequestAssumption, NameAssumption, AbsentAssumption, IInv, MoneyInv, NEW p \in Procs,
         Commit(p), StepOf(p), pc'[p] \in {"done", "ack"}
  PROVE  \A q \in Procs : WorkOK(q)'
<1>0. /\ pc[p] = "finish" /\ rowLock[Own(p)] \in {None, p} /\ TypeOK
      /\ rowLock' = Released(p, rowLock) /\ walletLock' = Released(p, walletLock)
  BY DEF Commit, IInv
<1>1. /\ \A x \in Deliveries : rowLock'[x] # p
      /\ \A w \in Wallets : walletLock'[w] # p
      /\ \A q \in Procs \ {p} : LocksOf(q)
  BY <1>0, ReleasedLocks
<1>2. WorkOK(p)'
  BY <1>1, AtRest
<1>3. ASSUME NEW q \in Procs \ {p} PROVE WorkOK(q)'
  <2>1. /\ pc'[q] = pc[q] /\ draft'[q] = draft[q] /\ (q \in Workers => claim'[q] = claim[q])
        /\ LocksOf(q) /\ WorkOK(q)
    BY <1>1, <1>3 DEF StepOf, MoneyInv
  <2>2. Own(q)' = Own(q) /\ RequestAt(q)' = RequestAt(q)
    BY <2>1, OwnFrame
  <2>3. \A x \in Deliveries : rowLock[x] = q => x # Own(p)
    BY <1>0, <1>3, NameAssumption DEF Procs, NameAssumption
  <2>4. \A x \in Deliveries \ {Own(p)} : wagers'[x] = wagers[x] /\ (HasRow(x)' <=> HasRow(x))
    BY CommitRows
  <2>5. RowLocksOK(q)'
    <3>1. \A x \in Deliveries \ {Own(p)} : RowSeen(x)' = RowSeen(x)
      BY <2>4 DEF RowSeen
    <3> QED
      BY <2>1, <2>3, <2>4, <3>1 DEF WorkOK, RowLocksOK, LocksOf
  <2>6. WalletLocksOK(q)'
    <3>1. \A w \in Wallets : walletLock[w] = q => ledger'[w] = ledger[w]
      BY <1>3, CommitEntries
    <3> QED
      BY <2>1, <2>2, <3>1 DEF WorkOK, WalletLocksOK, LocksOf, InLedger
  <2>7. ASSUME MayApply(q) PROVE MayApply(q)'
    <3> PICK r : r = draft[q].ref
      OBVIOUS
    <3> SUFFICES ASSUME NeedsReference(RequestAt(q)) PROVE ReferenceHeld(q)'
      BY <2>2 DEF MayApply
    <3>1. ReferenceHeld(q) /\ r \in Deliveries /\ rowLock[r] = q /\ r # Own(p)
      BY <2>3, <2>7 DEF MayApply, ReferenceHeld
    <3>2. wagers'[r] = wagers[r] /\ HasRow(r)' /\ rowLock'[r] = q
      BY <2>1, <2>4, <3>1 DEF ReferenceHeld, LocksOf
    <3>3. ASSUME IsReversal(RequestAt(q).kind), NEW d \in Deliveries \ {Own(q)} PROVE ~ReversalOf(d, r)'
      <4>1. CASE d # Own(p)
        <5>1. ~ReversalOf(d, r)
          BY <3>1, <3>3 DEF ReferenceHeld
        <5> QED
          BY <2>4, <4>1, <5>1 DEF ReversalOf
      <4>2. CASE d = Own(p)
        <5> SUFFICES ASSUME draft[p].ref = r, IsReversal(RequestAt(p).kind), draft[p].status = "PROCESSED"
                     PROVE  FALSE
          BY <4>2, CommitRows DEF ReversalOf, RequestAt
        <5>1. ReferenceHeld(p)
          BY <1>0 DEF MoneyInv, WorkOK, StepsOK, MayApply, NeedsReference
        <5> QED
          BY <1>3, <3>1, <5>1 DEF ReferenceHeld
      <4> QED
        BY <4>1, <4>2
    <3> QED
      BY <2>1, <2>2, <3>1, <3>2, <3>3 DEF ReferenceHeld
  <2>8. pc[q] = "finish" /\ Moved(q) => Moved(q)'
    BY <2>1, <2>2, Working DEF Moved, LocksOf, IInv
  <2>9. StepsOK(q)'
    BY <2>1, <2>2, <2>7, <2>8 DEF WorkOK, StepsOK
  <2> QED
    BY <2>5, <2>6, <2>9 DEF WorkOK
<1> QED
  BY <1>2, <1>3

\* Money once in the ledger stays there.
LEMMA PaidStays ==
  ASSUME NEW d \in Deliveries, wagers'[d] = wagers[d], Paid(d),
         LET v == RequestOf[d].wallet
         IN  /\ Len(ledger[v]) \in Nat /\ Len(ledger'[v]) \in Nat /\ Len(ledger[v]) <= Len(ledger'[v])
             /\ \A i \in 1..Len(ledger[v]) : ledger'[v][i] = ledger[v][i]
  PROVE  Paid(d)'
<1> DEFINE v == RequestOf[d].wallet
           old == ledger[v]
           new == ledger'[v]
<1>1. PICK j \in 1..Len(old) :
        /\ old[j].wager = d /\ old[j].amount = RequestOf[d].amount
        /\ RequestOf[d].kind # "ROLLBACK" =>
             old[j].direction = IF RequestOf[d].kind = "BET" THEN "DEBIT" ELSE "CREDIT"
        /\ IsReversal(RequestOf[d].kind) => Mirrored(d, j)
  BY DEF Paid
<1>2. j \in 1..Len(new) /\ new[j] = old[j]
  BY DEF Paid
<1>3. ASSUME IsReversal(RequestOf[d].kind)
      PROVE  \E i \in 1..Len(new) :
               /\ i < j /\ new[i].wager = wagers'[d].ref
               /\ new[i].amount = new[j].amount /\ new[i].direction # new[j].direction
  <2>1. PICK i \in 1..Len(old) :
          /\ i < j /\ old[i].wager = wagers[d].ref
          /\ old[i].amount = old[j].amount /\ old[i].direction # old[j].direction
    BY <1>1, <1>3 DEF Mirrored
  <2>2. i \in 1..Len(new) /\ new[i] = old[i]
    OBVIOUS
  <2> QED
    BY <1>2, <2>1, <2>2
<1> QED
  BY <1>1, <1>2, <1>3 DEF Paid, Mirrored

\* The money of p's operation is in the ledger once p has committed.
LEMMA CommitPays ==
  ASSUME RequestAssumption, NameAssumption, AbsentAssumption, IInv, MoneyInv, NEW p \in Procs,
         Commit(p), NEW d, d = Own(p), draft[p].status = "PROCESSED", MovesMoney(RequestOf[d])
  PROVE  Paid(d)'
<1> DEFINE w == RequestOf[d].wallet
           old == ledger[w]
           new == ledger'[w]
           j == Len(old) + 1
<1>0. pc[p] = "finish" /\ RequestAt(p) = RequestOf[d]
  BY DEF Commit, RequestAt
<1>1. w \in Wallets /\ d \in Deliveries /\ wagers'[d] = draft[p]
  BY <1>0, CommitRows
<1>2. Moved(p) /\ MayApply(p)
  BY <1>0 DEF MoneyInv, WorkOK, StepsOK
<1>3. /\ Len(old) \in Nat /\ Len(new) = Len(old) + 1 /\ new[j] = NewEntry(p)
      /\ \A i \in 1..Len(old) : new[i] = old[i]
  BY <1>0, <1>1, <1>2, CommitEntries
<1>4. new[j].wager = d /\ new[j].amount = RequestOf[d].amount /\ new[j].direction = Direction(p)
  BY <1>0, <1>3 DEF NewEntry
<1>5. j \in 1..Len(new)
  BY <1>3
<1>6. RequestOf[d].kind # "ROLLBACK" =>
        Direction(p) = IF RequestOf[d].kind = "BET" THEN "DEBIT" ELSE "CREDIT"
  BY <1>0 DEF Direction, MovementDirection
<1>7. ASSUME IsReversal(RequestOf[d].kind)
      PROVE  \E i \in 1..Len(new) :
               /\ i < j /\ new[i].wager = wagers'[d].ref
               /\ new[i].amount = new[j].amount /\ new[i].direction # new[j].direction
  <2> DEFINE r == draft[p].ref
  <2>1. /\ r \in Deliveries /\ HasRow(r) /\ wagers[r].status = "PROCESSED"
        /\ CheckReferenceRules(RequestOf[d], RequestOf[r]) = None
        /\ NeedsReference(RequestAt(p))
    BY <1>0, <1>2, <1>7 DEF MayApply, NeedsReference, ReferenceHeld
  <2>2. None \notin FailureCodes
    BY DEF NameAssumption
  <2>3. /\ RequestOf[r].wallet = w /\ RequestOf[r].kind \in ReferableKinds(RequestOf[d].kind)
        /\ RequestOf[r].amount = RequestOf[d].amount
    BY <1>7, <2>1, <2>2 DEF CheckReferenceRules, FailureCodes
  <2>4. Paid(r)
    <3>1. MovesMoney(RequestOf[r])
      BY <2>3 DEF ReferableKinds, MovesMoney
    <3> QED
      BY <2>1, <3>1 DEF MoneyInv, BooksOK, RowOK
  <2>5. PICK i \in 1..Len(old) :
          /\ old[i].wager = r /\ old[i].amount = RequestOf[r].amount
          /\ RequestOf[r].kind # "ROLLBACK" =>
               old[i].direction = IF RequestOf[r].kind = "BET" THEN "DEBIT" ELSE "CREDIT"
    BY <2>3, <2>4 DEF Paid
  <2>6. i \in 1..Len(new) /\ i < j /\ new[i] = old[i]
    BY <1>3
  <2>7. Direction(p) = MovementDirection(RequestOf[d].kind, RequestOf[r].kind)
    <3>1. r # None
      BY <2>1 DEF NameAssumption
    <3> QED
      BY <1>0, <2>1, <3>1 DEF Direction, RefKind
  <2>8. old[i].direction # Direction(p)
    BY <1>7, <2>3, <2>5, <2>7 DEF MovementDirection, ReferableKinds, IsReversal
  <2>9. new[i].wager = wagers'[d].ref
    BY <1>1, <2>5, <2>6
  <2>10. new[i].amount = new[j].amount /\ new[i].direction # new[j].direction
    BY <1>4, <2>3, <2>5, <2>6, <2>8
  <2> HIDE DEF j, old, new
  <2> QED
    BY SMTT(30), <2>6, <2>9, <2>10
<1> HIDE DEF j
<1> QED
  BY <1>4, <1>5, <1>6, <1>7 DEF Paid, Mirrored

LEMMA CommitKeepsRows ==
  ASSUME RequestAssumption, NameAssumption, AbsentAssumption, IInv, MoneyInv, NEW p \in Procs,
         Commit(p), NEW d \in Deliveries
  PROVE  RowOK(d)'
<1>0. pc[p] = "finish" /\ StepsOK(p)
  BY DEF Commit, MoneyInv, WorkOK
<1>1. CASE d = Own(p)
  <2>1. wagers'[d] = draft[p] /\ RequestAt(p) = RequestOf[d]
    BY <1>1, CommitRows DEF RequestAt
  <2>2. CASE draft[p].status = "PROCESSED"
    <3>1. MovesMoney(RequestOf[d]) => Paid(d)'
      BY <1>1, <2>2, CommitPays
    <3>2. ASSUME NeedsReference(RequestOf[d]) PROVE ReferenceKnown(d)'
      <4>1. ReferenceHeld(p)
        BY <1>0, <2>1, <2>2, <3>2 DEF StepsOK, MayApply
      <4>2. PICK r \in Deliveries : r = draft[p].ref /\ HasRow(r) /\ RequestOf[r].external = RequestOf[d].ref
        BY <2>1, <4>1 DEF ReferenceHeld
      <4>3. HasRow(r)'
        BY <4>2, CommitRows
      <4> QED
        BY <2>1, <4>2, <4>3 DEF ReferenceKnown, HasRow
    <3> QED
      BY <2>1, <2>2, <3>1, <3>2 DEF RowOK
  <2>3. CASE draft[p].status # "PROCESSED"
    BY <1>0, <2>1, <2>3 DEF RowOK, StepsOK
  <2> QED
    BY <2>2, <2>3
<1>2. CASE d # Own(p)
  <2>1. wagers'[d] = wagers[d] /\ (HasRow(d)' <=> HasRow(d))
    BY <1>2, CommitRows
  <2> SUFFICES ASSUME HasRow(d) PROVE RowOK(d)'
    BY <2>1 DEF RowOK
  <2>2. RequestOf[d].wallet \in Wallets /\ RowOK(d)
    BY DEF IInv, ProcessesOK, MoneyInv, BooksOK
  <2>3. Paid(d) => Paid(d)'
    BY <2>1, <2>2, PaidStays, CommitEntries
  <2>4. ASSUME ReferenceKnown(d) PROVE ReferenceKnown(d)'
    <3>1. PICK r \in Deliveries : r = wagers[d].ref /\ HasRow(r) /\ RequestOf[r].external = RequestOf[d].ref
      BY <2>4 DEF ReferenceKnown
    <3>2. HasRow(r)'
      BY <3>1, CommitRows
    <3> QED
      BY <2>1, <3>1, <3>2 DEF ReferenceKnown, HasRow
  <2> QED
    BY <2>1, <2>2, <2>3, <2>4 DEF RowOK
<1> QED
  BY <1>1, <1>2

\* The ledger's unique index has been asked when money moved, and nobody else could add
\* an entry to the wallet since.
LEMMA CommitKeepsEntries ==
  ASSUME RequestAssumption, NameAssumption, AbsentAssumption, IInv, MoneyInv, NEW p \in Procs, Commit(p)
  PROVE  EntriesOK'
<1> SUFFICES ASSUME NEW w \in Wallets, NEW i \in 1..Len(ledger'[w]), NEW d, d = ledger'[w][i].wager, d # None
    PROVE  /\ d \in Deliveries /\ HasRow(d)' /\ RequestOf[d].wallet = w
           /\ \A j \in 1..Len(ledger'[w]) : ledger'[w][j].wager = d => i = j
  BY DEF EntriesOK, HasRow
<1> DEFINE L == Len(ledger[w])
<1>0. /\ L \in Nat /\ Len(ledger'[w]) \in Nat /\ L <= Len(ledger'[w])
      /\ \A k \in 1..L : ledger'[w][k] = ledger[w][k]
  BY CommitEntries
<1>1. \A k \in 1..L : ledger[w][k].wager # None =>
        LET e == ledger[w][k].wager
        IN  /\ e \in Deliveries /\ wagers'[e] # None /\ RequestOf[e].wallet = w
            /\ \A j \in 1..L : ledger[w][j].wager = e => k = j
  <2>1. EntriesOK /\ \A e \in Deliveries : HasRow(e) => wagers'[e] # None
    BY CommitRows DEF MoneyInv, BooksOK, HasRow
  <2> QED
    BY <2>1 DEF EntriesOK
<1>2. CASE ledger'[w] = ledger[w]
  BY <1>1, <1>2 DEF HasRow
<1>3. CASE ledger'[w] # ledger[w]
  <2>1. Moved(p) /\ w = RequestAt(p).wallet
    BY <1>3, CommitEntries
  <2>2. Len(ledger'[w]) = L + 1 /\ ledger'[w][L + 1].wager = Own(p)
    <3>1. Len(ledger'[w]) = L + 1 /\ ledger'[w][L + 1] = NewEntry(p)
      BY <2>1, CommitEntries
    <3>2. NewEntry(p).wager = Own(p)
      BY DEF NewEntry
    <3> QED
      BY <3>1, <3>2
  <2>3. \A k \in 1..L : ledger[w][k].wager # Own(p)
    BY <2>1 DEF MoneyInv, WorkOK, WalletLocksOK, Moved, InLedger
  <2>4. Own(p) \in Deliveries /\ wagers'[Own(p)] # None /\ RequestOf[Own(p)].wallet = w
    BY <2>1, CommitRows DEF RequestAt
  <2> HIDE DEF L
  <2>5. 1..Len(ledger'[w]) = 1..L \cup {L + 1} /\ L + 1 \notin 1..L
    BY <1>0, <2>2
  <2>6. CASE i = L + 1
    BY <1>0, <2>2, <2>3, <2>4, <2>5, <2>6 DEF HasRow
  <2>7. CASE i \in 1..L
    BY <1>0, <1>1, <2>2, <2>3, <2>5, <2>7 DEF HasRow
  <2> QED
    BY <2>5, <2>6, <2>7
<1> QED
  BY <1>2, <1>3

\* The lock on the reference is held from the check for another reversal to the commit.
LEMMA CommitKeepsOneReversal ==
  ASSUME RequestAssumption, NameAssumption, AbsentAssumption, IInv, MoneyInv, NEW p \in Procs, Commit(p)
  PROVE  OneReversal'
<1>1. ASSUME NEW d \in Deliveries, NEW r \in Deliveries, d # Own(p), ReversalOf(d, r)'
      PROVE  ReversalOf(d, r)
  BY <1>1, CommitRows DEF ReversalOf
<1>2. ASSUME NEW r \in Deliveries, NEW e \in Deliveries, e = Own(p), ReversalOf(e, r)'
      PROVE  \A d \in Deliveries \ {Own(p)} : ~ReversalOf(d, r)
  <2>1. draft[p].status = "PROCESSED" /\ draft[p].ref = r /\ IsReversal(RequestAt(p).kind)
    BY <1>2, CommitRows DEF ReversalOf, RequestAt
  <2>2. ReferenceHeld(p)
    BY <2>1 DEF Commit, MoneyInv, WorkOK, StepsOK, MayApply, NeedsReference
  <2> QED
    BY <2>1, <2>2 DEF ReferenceHeld
<1>3. \A d, e, r \in Deliveries : ReversalOf(d, r) /\ ReversalOf(e, r) => d = e
  BY DEF MoneyInv, BooksOK, OneReversal
<1> SUFFICES ASSUME NEW d \in Deliveries, NEW e \in Deliveries, NEW r \in Deliveries,
                    ReversalOf(d, r)', ReversalOf(e, r)', d # e
             PROVE  FALSE
  BY DEF OneReversal
<1> QED
  BY <1>1, <1>2, <1>3

LEMMA CommitKeepsVersions ==
  ASSUME RequestAssumption, NameAssumption, AbsentAssumption, IInv, MoneyInv, NEW p \in Procs, Commit(p)
  PROVE  VersionsAnnounced'
<1> DEFINE w == RequestAt(p).wallet
           first(v) == IF OpeningBalance[v] = 0 THEN 2 ELSE 1
<1>1. /\ w \in Wallets /\ wallets \in [Wallets -> [balance : Nat, version : Nat]]
      /\ walletEvents \in [Wallets -> Seq(Nat)]
      /\ walletEvents' = [walletEvents EXCEPT ![w] = walletEvents[w] \o Announced(p)]
  BY CommitRows DEF IInv, TypeOK, Commit
<1>2. \A v \in Wallets :
        /\ Len(walletEvents[v]) = Len(ledger[v])
        /\ \A i \in 1..Len(walletEvents[v]) : walletEvents[v][i] = first(v) + i - 1
        /\ wallets[v].version = first(v) + Len(walletEvents[v]) - 1
  BY DEF MoneyInv, BooksOK, VersionsAnnounced
<1>3. SUFFICES ASSUME NEW v \in Wallets
      PROVE  /\ Len(walletEvents'[v]) = Len(ledger'[v])
             /\ \A i \in 1..Len(walletEvents'[v]) : walletEvents'[v][i] = first(v) + i - 1
             /\ wallets'[v].version = first(v) + Len(walletEvents'[v]) - 1
  BY DEF VersionsAnnounced
<1>4. CASE v = w /\ Moved(p)
  <2> DEFINE old == walletEvents[v]
             version == wallets[v].version
  <2>1. old \in Seq(Nat) /\ version \in Nat
    BY <1>1
  <2>2. wallets'[v].version = version + 1
    BY <1>1, <1>4 DEF Commit
  <2>3. walletEvents'[v] = old \o <<version + 1>>
    BY <1>1, <1>4 DEF Announced
  <2>4. Len(ledger'[v]) = Len(ledger[v]) + 1
    BY <1>4, CommitEntries
  <2>5. /\ Len(walletEvents'[v]) = Len(old) + 1
        /\ walletEvents'[v][Len(old) + 1] = version + 1
        /\ \A i \in 1..Len(old) : walletEvents'[v][i] = old[i]
    BY <2>1, <2>3
  <2>6. 1..(Len(old) + 1) = 1..Len(old) \cup {Len(old) + 1} /\ Len(old) \in Nat /\ first(v) \in Nat
    BY <2>1
  <2>7. Len(old) = Len(ledger[v]) /\ version = first(v) + Len(old) - 1
        /\ \A i \in 1..Len(old) : old[i] = first(v) + i - 1
    BY <1>2
  <2> HIDE DEF old, version, first
  <2>8. PICK f \in Nat : f = first(v)
    BY <2>6
  <2>9. \A i \in 1..(Len(old) + 1) : walletEvents'[v][i] = f + i - 1
    <3>1. \A i \in 1..Len(old) : walletEvents'[v][i] = f + i - 1
      BY <2>5, <2>7, <2>8
    <3>2. walletEvents'[v][Len(old) + 1] = f + (Len(old) + 1) - 1
      BY <2>5, <2>6, <2>7, <2>8
    <3> QED
      BY <2>6, <3>1, <3>2
  <2>10. wallets'[v].version = f + (Len(old) + 1) - 1
    BY <2>1, <2>2, <2>6, <2>7, <2>8
  <2> QED
    BY <2>4, <2>5, <2>7, <2>8, <2>9, <2>10
<1>5. CASE v # w \/ ~Moved(p)
  <2>1. wallets'[v] = wallets[v]
    BY <1>1, <1>5 DEF Commit
  <2>2. ledger'[v] = ledger[v]
    BY <1>5, CommitEntries
  <2>3. walletEvents'[v] = walletEvents[v]
    <3>1. ~Moved(p) => Announced(p) = <<>>
      BY DEF Announced
    <3>2. walletEvents[v] \in Seq(Nat)
      BY <1>1
    <3>3. walletEvents[v] \o <<>> = walletEvents[v]
      BY <3>2
    <3> QED
      BY <1>1, <1>5, <3>1, <3>3
  <2> QED
    BY <1>2, <2>1, <2>2, <2>3
<1> QED
  BY <1>4, <1>5

-----------------------------------------------------------------------------
(* The invariant holds at the start and is kept by every step. *)

LEMMA CommitKeepsMoneyInv ==
  ASSUME RequestAssumption, NameAssumption, AbsentAssumption, IInv, MoneyInv, NEW p \in Procs,
         \/ p \in Deliveries /\ FinishDelivery(p)
         \/ p \in Workers /\ FinishRetry(p)
  PROVE  MoneyInv'
<1>1. Commit(p)
  BY DEF FinishDelivery, FinishRetry
<1>2. /\ \E step \in {"done", "ack"} : Goto(p, step)
      /\ draft' = draft \/ draft' = [draft EXCEPT ![p] = None]
      /\ UNCHANGED <<claim, batch>>
  BY DEF FinishDelivery, FinishRetry, workerVars
<1>3. pc'[p] \in {"done", "ack"} /\ \A q \in Procs \ {p} : pc'[q] = pc[q]
  BY <1>2, GotoGives DEF IInv
<1>4. StepOf(p)
  BY <1>2, <1>3 DEF StepOf, IInv, TypeOK
<1>5. BooksOK'
  BY <1>1, CommitKeepsRows, CommitKeepsEntries, CommitKeepsOneReversal, CommitKeepsVersions DEF BooksOK
<1> QED
  BY <1>1, <1>3, <1>4, <1>5, CommitKeepsWork DEF MoneyInv

\* Every step that commits nothing keeps what the processes count on.
LEMMA OtherStepsKeepWork ==
  ASSUME RequestAssumption, NameAssumption, AbsentAssumption, IInv, MoneyInv, [Next]_vars,
         ~\E d \in Deliveries : FinishDelivery(d), ~\E w \in Workers : FinishRetry(w)
  PROVE  \A q \in Procs : WorkOK(q)'
<1>1. ASSUME NEW p \in Procs, ApplyStep(p) PROVE \A q \in Procs : WorkOK(q)'
  BY <1>1, ReferenceMissingKeepsWork, LockReferenceKeepsWork, DebitRefusedKeepsWork,
     MoveMoneyKeepsWork DEF ApplyStep
<1>2. ASSUME NEW d \in Deliveries, DeliveryStep(d) \/ FailDelivery(d)
      PROVE  \A q \in Procs : WorkOK(q)'
  <2>1. d \in Procs
    BY DEF Procs
  <2> QED
    BY <1>1, <1>2, <2>1, DeliveryLookups, CreateKeepsWork, ApplyLossKeepsWork, RollbacksKeepWork
       DEF DeliveryStep
<1>3. ASSUME NEW w \in Workers, WorkerStep(w) \/ FailRetry(w) \/ RestartWorker(w)
      PROVE  \A q \in Procs : WorkOK(q)'
  <2>1. w \in Procs
    BY DEF Procs
  <2>2. DeadlockVictim(w) \/ ConstraintViolation(w) \/ FailRetry(w) => AbandonClaim(w)
    BY DEF DeadlockVictim, ConstraintViolation, FailRetry
  <2> QED
    BY <1>1, <1>3, <2>1, <2>2, TakesKeepWork, AcknowledgeKeepsWork, RollbacksKeepWork DEF WorkerStep
<1>4. ASSUME NEW w \in Workers, ClaimBatch(w) PROVE \A q \in Procs : WorkOK(q)'
  BY <1>4, ClockKeepsWork DEF ClaimBatch
<1>5. ASSUME NEW i \in Deliveries, BackoffElapses(i) \/ TTLElapses(i) \/ LeaseExpires(i)
      PROVE  \A q \in Procs : WorkOK(q)'
  BY <1>5, ClockKeepsWork DEF BackoffElapses, TTLElapses, LeaseExpires, ClockFrame, workerVars
<1>6. ASSUME UNCHANGED vars PROVE \A q \in Procs : WorkOK(q)'
  BY <1>6, ClockKeepsWork DEF vars, database, workerVars
<1> QED
  BY <1>2, <1>3, <1>4, <1>5, <1>6 DEF Next, Quiescent

LEMMA NextKeepsMoneyInv ==
  ASSUME RequestAssumption, NameAssumption, AbsentAssumption, IInv, MoneyInv, [Next]_vars
  PROVE  MoneyInv'
<1>1. CASE (\E d \in Deliveries : FinishDelivery(d)) \/ (\E w \in Workers : FinishRetry(w))
  BY <1>1, CommitKeepsMoneyInv DEF Procs
<1>2. CASE ~((\E d \in Deliveries : FinishDelivery(d)) \/ (\E w \in Workers : FinishRetry(w)))
  <2>1. UNCHANGED <<wallets, wagers, ledger, walletEvents>>
    BY <1>2, OnlyCommitsWrite
  <2> QED
    BY <1>2, <2>1, OtherStepsKeepWork, BooksFrame DEF MoneyInv
<1> QED
  BY <1>1, <1>2

LEMMA InitMoneyInv ==
  ASSUME SizeAssumption, NameAssumption, Init PROVE MoneyInv
<1>1. ASSUME NEW p \in Procs PROVE WorkOK(p)
  <2>1. pc[p] \in {"idle", "inbox", "find_key"} /\ p # None
    BY DEF Init, NameAssumption, Procs
  <2>2. (\A x \in Deliveries : rowLock[x] # p) /\ (\A w \in Wallets : walletLock[w] # p)
    BY <2>1 DEF Init
  <2> QED
    BY <2>1, <2>2 DEF WorkOK, RowLocksOK, WalletLocksOK, StepsOK
<1>2. \A d \in Deliveries : ~HasRow(d)
  BY DEF Init, HasRow
<1>3. ASSUME NEW w \in Wallets
      PROVE  LET b == OpeningBalance[w]
             IN  /\ ledger[w] = OpeningEntries(b) /\ wallets[w].version = 1
                 /\ walletEvents[w] = IF b = 0 THEN <<>> ELSE <<1>>
                 /\ b = 0 => Len(ledger[w]) = 0
                 /\ b # 0 => Len(ledger[w]) = 1 /\ ledger[w][1].wager = None
  <2>1. ledger[w] = OpeningEntries(OpeningBalance[w]) /\ wallets[w].version = 1
        /\ walletEvents[w] = IF OpeningBalance[w] = 0 THEN <<>> ELSE <<1>>
    BY DEF Init
  <2> QED
    BY <2>1 DEF OpeningEntries
<1>4. EntriesOK
  <2> SUFFICES ASSUME NEW w \in Wallets, NEW i \in 1..Len(ledger[w])
               PROVE  ledger[w][i].wager = None
    BY DEF EntriesOK
  <2>1. Len(ledger[w]) = 1 /\ ledger[w][1].wager = None
    BY <1>3
  <2> QED
    BY <2>1
<1>5. VersionsAnnounced
  <2> SUFFICES ASSUME NEW w \in Wallets
               PROVE  LET announced == walletEvents[w]
                          first == IF OpeningBalance[w] = 0 THEN 2 ELSE 1
                      IN  /\ Len(announced) = Len(ledger[w])
                          /\ \A i \in 1..Len(announced) : announced[i] = first + i - 1
                          /\ wallets[w].version = first + Len(announced) - 1
    BY DEF VersionsAnnounced
  <2>1. CASE OpeningBalance[w] = 0
    BY <1>3, <2>1
  <2>2. CASE OpeningBalance[w] # 0
    <3>1. walletEvents[w] = <<1>> /\ Len(ledger[w]) = 1 /\ wallets[w].version = 1
      BY <1>3, <2>2
    <3>2. Len(<<1>>) = 1 /\ \A i \in 1..1 : <<1>>[i] = i
      OBVIOUS
    <3> QED
      BY <2>2, <3>1, <3>2
  <2> QED
    BY <2>1, <2>2
<1> QED
  BY <1>1, <1>2, <1>4, <1>5 DEF MoneyInv, BooksOK, RowOK, OneReversal, ReversalOf

LEMMA AlwaysMoneyInv == Spec => []MoneyInv
<1>1. Init => MoneyInv
  BY InitMoneyInv, SizeAssumption, NameAssumption
<1>2. IInv /\ MoneyInv /\ [Next]_vars => MoneyInv'
  BY NextKeepsMoneyInv, RequestAssumption, NameAssumption, AbsentAssumption
<1> QED
  BY <1>1, <1>2, AlwaysIInv, PTL DEF Spec

-----------------------------------------------------------------------------
(* What the theorems say. *)

\* Each version of a wallet is announced exactly once and in order: the version in the event
\* is the one the wallet's own UPDATE left, under its lock (wager_applier.go).
THEOREM VersionsCorrect == Spec => []VersionsAnnounced
<1>1. MoneyInv => VersionsAnnounced
  BY DEF MoneyInv, BooksOK
<1> QED
  BY <1>1, AlwaysMoneyInv, PTL

\* No operation is paid twice, however slow the workers that reapply it: whoever finds an
\* entry of the operation in the ledger stops, and the wallet stays locked until the commit
\* (wager_applier.go, uq_ledger_wallet_transaction).
THEOREM OneEntryCorrect == Spec => []AtMostOneEntry
<1>1. IInv /\ MoneyInv => AtMostOneEntry
  <2> SUFFICES ASSUME IInv, MoneyInv, NEW d \in Deliveries, RequestOf[d].wallet # None
               PROVE  Cardinality(EntriesOf(d)) <= 1
    BY DEF AtMostOneEntry
  <2>1. RequestOf[d].wallet \in Wallets /\ d # None
    BY RequestAssumption, NameAssumption DEF RequestAssumption, Requests, NameAssumption
  <2>2. \A i, j \in EntriesOf(d) : i = j
    BY <2>1 DEF EntriesOf, MoneyInv, BooksOK, EntriesOK
  <2>3. CASE EntriesOf(d) = {}
    BY <2>3, FS_EmptySet
  <2>4. CASE EntriesOf(d) # {}
    <3>1. PICK i : EntriesOf(d) = {i}
      BY <2>2, <2>4
    <3> QED
      BY <3>1, FS_Singleton
  <2> QED
    BY <2>3, <2>4
<1> QED
  BY <1>1, AlwaysIInv, AlwaysMoneyInv, PTL

\* The row lock on the reference makes the index of migration 000005 a mere backstop, between
\* deliveries and workers alike (wager_applier.go).
THEOREM BackstopCorrect == Spec => []BackstopNeverFires
<1>1. MoneyInv => BackstopNeverFires
  <2> SUFFICES ASSUME MoneyInv, NEW p \in Procs, pc[p] = "finish", draft[p].status = "PROCESSED",
                      IsReversal(RequestAt(p).kind)
               PROVE  \A d \in Deliveries \ {Own(p)} : ~ReversalOf(d, draft[p].ref)
    BY DEF BackstopNeverFires, OnlyReversal, ReversalOf, HasRow
  <2>1. ReferenceHeld(p)
    BY DEF MoneyInv, WorkOK, StepsOK, MayApply, NeedsReference
  <2> QED
    BY <2>1 DEF ReferenceHeld
<1> QED
  BY <1>1, AlwaysMoneyInv, PTL

\* A PROCESSED REFUND or ROLLBACK gives back what its reference took, or takes back what it
\* gave, to the cent and in the same wallet (wager_applier.go, wager_transaction.go).
THEOREM MirrorCorrect == Spec => []ReversalMirrorsReference
<1>1. IInv /\ MoneyInv => ReversalMirrorsReference
  <2> SUFFICES ASSUME IInv, MoneyInv, NEW d \in Deliveries, HasRow(d), wagers[d].status = "PROCESSED",
                      IsReversal(RequestOf[d].kind)
               PROVE  \E w \in Wallets : \E i, j \in 1..Len(ledger[w]) :
                        /\ i < j
                        /\ ledger[w][j].wager = d
                        /\ ledger[w][i].wager = wagers[d].ref
                        /\ ledger[w][i].amount = ledger[w][j].amount
                        /\ ledger[w][i].direction # ledger[w][j].direction
    BY DEF ReversalMirrorsReference
  <2>1. RequestOf[d].wallet \in Wallets
    BY DEF IInv, ProcessesOK
  <2>2. Paid(d)
    BY DEF MoneyInv, BooksOK, RowOK, MovesMoney, IsReversal
  <2> QED
    BY <2>1, <2>2 DEF Paid, Mirrored
<1> QED
  BY <1>1, AlwaysIInv, AlwaysMoneyInv, PTL

\* An operation that is PROCESSED and moves money has an entry of its amount in its wallet's
\* ledger: what a client is told has been done is in the books, even when slow workers
\* rewrite statuses (wager_applier.go).
ProcessedIsPaid ==
  \A d \in Deliveries :
    HasRow(d) /\ wagers[d].status = "PROCESSED" /\ MovesMoney(RequestOf[d]) =>
      \E i \in EntriesOf(d) : ledger[RequestOf[d].wallet][i].amount = RequestOf[d].amount

THEOREM PaidCorrect == Spec => []ProcessedIsPaid
<1>1. MoneyInv => ProcessedIsPaid
  <2> SUFFICES ASSUME MoneyInv, NEW d \in Deliveries, HasRow(d), wagers[d].status = "PROCESSED",
                      MovesMoney(RequestOf[d])
               PROVE  \E i \in EntriesOf(d) : ledger[RequestOf[d].wallet][i].amount = RequestOf[d].amount
    BY DEF ProcessedIsPaid
  <2>1. Paid(d)
    BY DEF MoneyInv, BooksOK, RowOK
  <2> QED
    BY <2>1 DEF Paid, EntriesOf
<1> QED
  BY <1>1, AlwaysMoneyInv, PTL
=============================================================================
