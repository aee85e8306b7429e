-------------------------- MODULE WagerLeaseProofs --------------------------
(***************************************************************************)
(* Theorems about WagerService when no worker outlives its lease           *)
(* (~SlowWorkers), for every value of the other constants.  A row is then  *)
(* reapplied by one worker at a time, and only while it waits.             *)
(***************************************************************************)
EXTENDS WagerMoneyProofs

-----------------------------------------------------------------------------
(* The inductive invariant. *)

Leased(w, i) == schedule[i].lockedBy = w /\ ~schedule[i].expired

\* What a worker has claimed is its own, one candidate for each row, and waits until the
\* worker itself settles it.
BatchOK(w) ==
  \A c \in batch[w] :
    /\ Leased(w, c.wager)
    /\ IsPending(c.wager)
    /\ \A b \in batch[w] : b.wager = c.wager => b = c

ClaimOK(w) ==
  /\ pc[w] = "idle" => claim[w] = None
  /\ claim[w] # None => /\ Leased(w, claim[w].wager)
                        /\ \A c \in batch[w] : c.wager # claim[w].wager
  /\ pc[w] \in {"lock_ref", "move", "finish"} => IsPending(claim[w].wager)

\* Only a PROCESSED operation has money in the ledger.
EntriesSettled ==
  \A w \in Wallets : \A i \in 1..Len(ledger[w]) :
    ledger[w][i].wager # None => wagers[ledger[w][i].wager].status = "PROCESSED"

LeaseInv ==
  /\ \A w \in Workers : BatchOK(w) /\ ClaimOK(w)
  /\ EntriesSettled
  /\ EventsTellStatus

-----------------------------------------------------------------------------
(* Leases. *)

LEMMA RowsInHand ==
  ASSUME NameAssumption, IInv, LeaseInv, NEW w \in Workers
  PROVE  /\ \A c \in batch[w] : c.wager \in Deliveries /\ HasRow(c.wager)
         /\ claim[w] # None => claim[w].wager \in Deliveries /\ HasRow(claim[w].wager)
<1>1. \A c \in batch[w] : c.wager \in Deliveries /\ HasRow(c.wager)
  BY DEF IInv, TypeOK, ProcessesOK, Claims
<1>2. claim[w] # None => claim[w] \in Claims /\ HasRow(claim[w].wager)
  BY DEF LeaseInv, ClaimOK, IInv, ProcessesOK
<1> QED
  BY <1>1, <1>2 DEF Claims

\* The leases of a worker, and the rows under them, are not disturbed by a step that is not
\* its own and leaves both alone.
LEMMA LeaseFrame ==
  ASSUME NameAssumption, IInv, LeaseInv, NEW w \in Workers,
         pc'[w] = pc[w], batch'[w] = batch[w], claim'[w] = claim[w],
         \A i \in Deliveries : Leased(w, i) => Leased(w, i)' /\ (IsPending(i) => IsPending(i)')
  PROVE  BatchOK(w)' /\ ClaimOK(w)'
<1>1. BatchOK(w) /\ ClaimOK(w)
  BY DEF LeaseInv
<1>2. \A c \in batch[w] : c.wager \in Deliveries
  BY RowsInHand
<1>3. claim[w] # None => claim[w].wager \in Deliveries
  BY RowsInHand
<1>4. BatchOK(w)'
  <2>1. \A c \in batch[w] : wagers'[c.wager] # None /\ wagers'[c.wager].status = "PENDING_REFERENCE"
    BY <1>1, <1>2 DEF BatchOK, IsPending
  <2>2. \A c \in batch[w] : schedule'[c.wager].lockedBy = w /\ ~schedule'[c.wager].expired
    BY <1>1, <1>2 DEF BatchOK, Leased
  <2> QED
    BY <1>1, <2>1, <2>2 DEF BatchOK, IsPending, Leased
<1>5. ClaimOK(w)'
  <2>1. claim[w] # None => schedule'[claim[w].wager].lockedBy = w /\ ~schedule'[claim[w].wager].expired
    BY <1>1, <1>3 DEF ClaimOK, Leased
  <2>2. pc[w] \in {"lock_ref", "move", "finish"} => claim[w] # None
    BY NameAssumption, AbsentAssumption DEF IInv, ProcessesOK, AbsentAssumption
  <2>3. pc[w] \in {"lock_ref", "move", "finish"} =>
          wagers'[claim[w].wager] # None /\ wagers'[claim[w].wager].status = "PENDING_REFERENCE"
    BY <1>1, <1>3, <2>2 DEF ClaimOK, IsPending
  <2> QED
    BY <1>1, <2>1, <2>3 DEF ClaimOK, IsPending, Leased
<1> QED
  BY <1>4, <1>5

LEMMA LeasesFrame ==
  ASSUME NameAssumption, IInv, LeaseInv, UNCHANGED <<wagers, schedule, batch, claim>>,
         \A w \in Workers : pc'[w] = pc[w]
  PROVE  \A w \in Workers : BatchOK(w)' /\ ClaimOK(w)'
<1> SUFFICES ASSUME NEW w \in Workers PROVE BatchOK(w)' /\ ClaimOK(w)'
  OBVIOUS
<1>1. \A i \in Deliveries : Leased(w, i) => Leased(w, i)' /\ (IsPending(i) => IsPending(i)')
  BY DEF Leased, IsPending
<1> QED
  BY <1>1, LeaseFrame

\* Two workers never have the same row in hand.
LEMMA LeasesApart ==
  ASSUME LeaseInv, NEW v \in Workers, NEW w \in Workers, v # w
  PROVE  /\ \A c \in batch[w] : ~Leased(v, c.wager)
         /\ claim[w] # None => ~Leased(v, claim[w].wager)
  BY DEF LeaseInv, BatchOK, ClaimOK, Leased

LEMMA ClaimBatchKeepsLeases ==
  ASSUME NameAssumption, IInv, LeaseInv, NEW w \in Workers, ClaimBatch(w)
  PROVE  \A v \in Workers : BatchOK(v)' /\ ClaimOK(v)'
<1>1. /\ pc[w] = "idle" /\ batch[w] = {} /\ UNCHANGED <<wagers, pc, claim>> /\ TypeOK
  BY DEF ClaimBatch, IInv
<1>2. PICK S \in SUBSET Claimable :
        /\ batch' = [batch EXCEPT ![w] = {[wager |-> i, attempts |-> schedule[i].attempts] : i \in S}]
        /\ schedule' = [i \in Deliveries |->
             IF i \in S THEN [schedule[i] EXCEPT !.lockedBy = w, !.expired = FALSE] ELSE schedule[i]]
  BY DEF ClaimBatch
<1>3. \A i \in S : i \in Deliveries /\ IsPending(i) /\ LeaseFree(i)
  BY DEF Claimable
<1>4. \A i \in S : schedule'[i].lockedBy = w /\ schedule'[i].expired = FALSE
  <2> SUFFICES ASSUME NEW i \in S PROVE schedule'[i].lockedBy = w /\ schedule'[i].expired = FALSE
    OBVIOUS
  <2>1. schedule[i] \in Schedules
    BY <1>1, <1>3 DEF TypeOK
  <2>2. schedule'[i] = [schedule[i] EXCEPT !.lockedBy = w, !.expired = FALSE]
    BY <1>2, <1>3
  <2> QED
    BY <2>1, <2>2 DEF Schedules
<1>5. \A i \in Deliveries \ S : schedule'[i] = schedule[i]
  BY <1>2
<1>6. ASSUME NEW v \in Workers \ {w} PROVE BatchOK(v)' /\ ClaimOK(v)'
  <2>1. batch'[v] = batch[v]
    BY <1>1, <1>2 DEF TypeOK
  <2>2. \A i \in Deliveries : Leased(v, i) => i \notin S
    BY <1>3, NameAssumption DEF Leased, LeaseFree, NameAssumption
  <2>3. \A i \in Deliveries : Leased(v, i) => Leased(v, i)' /\ (IsPending(i) => IsPending(i)')
    BY <1>1, <1>5, <2>2 DEF Leased, IsPending
  <2> QED
    BY <1>1, <2>1, <2>3, LeaseFrame
<1>7. BatchOK(w)'
  <2>1. batch'[w] = {[wager |-> i, attempts |-> schedule[i].attempts] : i \in S}
    BY <1>1, <1>2 DEF TypeOK
  <2>2. \A c \in batch'[w] : c.wager \in S /\ c = [wager |-> c.wager, attempts |-> schedule[c.wager].attempts]
    BY <2>1
  <2> QED
    BY <1>1, <1>3, <1>4, <2>2 DEF BatchOK, Leased, IsPending
<1>8. ClaimOK(w)'
  BY <1>1 DEF LeaseInv, ClaimOK
<1> QED
  BY <1>6, <1>7, <1>8

LEMMA TakesKeepLeases ==
  ASSUME NameAssumption, IInv, LeaseInv, NEW w \in Workers,
         TakeSettled(w) \/ TakeToGiveUp(w) \/ TakeToReapply(w)
  PROVE  \A v \in Workers : BatchOK(v)' /\ ClaimOK(v)'
<1>1. PICK c \in batch[w] : Take(w, c) /\ \E step \in {"ack", "finish", "lock_ref"} : Goto(w, step)
  BY DEF TakeSettled, TakeToGiveUp, TakeToReapply
<1>2. /\ claim' = [claim EXCEPT ![w] = c] /\ batch' = [batch EXCEPT ![w] = batch[w] \ {c}]
      /\ UNCHANGED <<wagers, schedule>> /\ TypeOK /\ w \in Procs
  BY <1>1 DEF Take, database, IInv, Procs
<1>3. pc'[w] # "idle" /\ \A q \in Procs \ {w} : pc'[q] = pc[q]
  BY <1>1, <1>2, GotoGives
<1>4. ASSUME NEW v \in Workers \ {w} PROVE BatchOK(v)' /\ ClaimOK(v)'
  <2>1. pc'[v] = pc[v] /\ batch'[v] = batch[v] /\ claim'[v] = claim[v]
    BY <1>2, <1>3 DEF TypeOK, Procs
  <2> QED
    BY <1>2, <2>1, LeaseFrame DEF Leased, IsPending
<1>5. claim'[w] = c /\ batch'[w] = batch[w] \ {c}
  BY <1>2 DEF TypeOK
<1>6. BatchOK(w)
  BY DEF LeaseInv
<1>7. BatchOK(w)' /\ ClaimOK(w)'
  BY <1>2, <1>3, <1>5, <1>6 DEF BatchOK, ClaimOK, Leased, IsPending
<1> QED
  BY <1>4, <1>7

LEMMA AcknowledgeKeepsLeases ==
  ASSUME NameAssumption, AbsentAssumption, IInv, LeaseInv, NEW w \in Workers, Acknowledge(w)
  PROVE  \A v \in Workers : BatchOK(v)' /\ ClaimOK(v)'
<1>1. /\ pc[w] = "ack" /\ Goto(w, "idle") /\ claim' = [claim EXCEPT ![w] = None]
      /\ UNCHANGED <<wagers, batch>> /\ TypeOK /\ w \in Procs /\ w \notin Deliveries
  BY DEF Acknowledge, IInv, Procs, NameAssumption
<1>2. pc'[w] = "idle" /\ \A q \in Procs \ {w} : pc'[q] = pc[q]
  BY <1>1, GotoGives
<1>3. claim[w] \in Claims /\ claim[w] # None /\ Own(w) = claim[w].wager
  BY <1>1, AbsentAssumption DEF IInv, ProcessesOK, Own, AbsentAssumption
<1>4. \A i \in Deliveries \ {Own(w)} : schedule'[i] = schedule[i]
  BY <1>1 DEF Acknowledge, TypeOK
<1>5. \A i \in Deliveries : IsPending(i)' <=> IsPending(i)
  BY <1>1 DEF IsPending
<1>6. ASSUME NEW v \in Workers \ {w} PROVE BatchOK(v)' /\ ClaimOK(v)'
  <2>1. pc'[v] = pc[v] /\ batch'[v] = batch[v] /\ claim'[v] = claim[v]
    BY <1>1, <1>2 DEF TypeOK, Procs
  <2>2. \A i \in Deliveries : Leased(v, i) => i # Own(w)
    BY <1>3, LeasesApart
  <2>3. \A i \in Deliveries : Leased(v, i) => Leased(v, i)'
    BY <1>4, <2>2 DEF Leased
  <2> QED
    BY <1>5, <2>1, <2>3, LeaseFrame
<1>7. claim'[w] = None /\ batch'[w] = batch[w]
  BY <1>1 DEF TypeOK
<1>8. BatchOK(w) /\ \A c \in batch[w] : c.wager \in Deliveries \ {Own(w)}
  BY <1>3, RowsInHand DEF LeaseInv, ClaimOK
<1>9. BatchOK(w)' /\ ClaimOK(w)'
  BY <1>1, <1>2, <1>4, <1>7, <1>8 DEF BatchOK, ClaimOK, Leased, IsPending
<1> QED
  BY <1>6, <1>9

LEMMA RollbacksKeepLeases ==
  ASSUME NameAssumption, IInv, LeaseInv, NEW w \in Workers, AbandonClaim(w) \/ RestartWorker(w)
  PROVE  \A v \in Workers : BatchOK(v)' /\ ClaimOK(v)'
<1>1. /\ Goto(w, "idle") /\ claim' = [claim EXCEPT ![w] = None] /\ TypeOK /\ w \in Procs
      /\ wagers' = wagers
      /\ \/ UNCHANGED <<batch, schedule>>
         \/ /\ batch' = [batch EXCEPT ![w] = {}]
            /\ schedule' = [i \in Deliveries |->
                 IF schedule[i].lockedBy = w THEN [schedule[i] EXCEPT !.lockedBy = Gone]
                                             ELSE schedule[i]]
  BY DEF AbandonClaim, RestartWorker, database, IInv, Procs
<1>2. pc'[w] = "idle" /\ \A q \in Procs \ {w} : pc'[q] = pc[q]
  BY <1>1, GotoGives
<1>3. \A i \in Deliveries : IsPending(i)' <=> IsPending(i)
  BY <1>1 DEF IsPending
<1>4. ASSUME NEW v \in Workers \ {w} PROVE BatchOK(v)' /\ ClaimOK(v)'
  <2>1. pc'[v] = pc[v] /\ batch'[v] = batch[v] /\ claim'[v] = claim[v]
    BY <1>1, <1>2 DEF TypeOK, Procs
  <2>2. \A i \in Deliveries : Leased(v, i) => schedule'[i] = schedule[i]
    BY <1>1 DEF Leased
  <2>3. \A i \in Deliveries : Leased(v, i) => Leased(v, i)'
    BY <2>2 DEF Leased
  <2> QED
    BY <1>3, <2>1, <2>3, LeaseFrame
<1>5. claim'[w] = None /\ (batch'[w] = {} \/ (batch'[w] = batch[w] /\ schedule' = schedule))
  BY <1>1 DEF TypeOK
<1>6. BatchOK(w)
  BY DEF LeaseInv
<1>7. BatchOK(w)' /\ ClaimOK(w)'
  BY <1>1, <1>2, <1>5, <1>6 DEF BatchOK, ClaimOK, Leased, IsPending
<1> QED
  BY <1>4, <1>7

\* No lease runs out while its holder is at work, and the other columns do not matter.
LEMMA ClockKeepsLeases ==
  ASSUME ~SlowWorkers, NameAssumption, AbsentAssumption, IInv, LeaseInv, NEW i \in Deliveries,
         BackoffElapses(i) \/ TTLElapses(i) \/ LeaseExpires(i)
  PROVE  \A v \in Workers : BatchOK(v)' /\ ClaimOK(v)'
<1>1. UNCHANGED <<wagers, pc, batch, claim>> /\ TypeOK
  BY DEF BackoffElapses, TTLElapses, LeaseExpires, ClockFrame, workerVars, IInv
<1>2. SUFFICES ASSUME NEW v \in Workers PROVE BatchOK(v)' /\ ClaimOK(v)'
  OBVIOUS
<1>3. CASE BackoffElapses(i) \/ TTLElapses(i)
  <2>1. \A j \in Deliveries : schedule'[j].lockedBy = schedule[j].lockedBy
                              /\ schedule'[j].expired = schedule[j].expired
    <3> SUFFICES ASSUME NEW j \in Deliveries
        PROVE  schedule'[j].lockedBy = schedule[j].lockedBy /\ schedule'[j].expired = schedule[j].expired
      OBVIOUS
    <3>1. schedule[j] \in Schedules /\ schedule \in [Deliveries -> Schedules]
      BY <1>1 DEF TypeOK
    <3>2. CASE schedule' = [schedule EXCEPT ![i].due = TRUE]
      BY <3>1, <3>2 DEF Schedules
    <3>3. CASE schedule' = [schedule EXCEPT ![i].overdue = TRUE]
      BY <3>1, <3>3 DEF Schedules
    <3> QED
      BY <1>3, <3>2, <3>3 DEF BackoffElapses, TTLElapses
  <2>2. \A j \in Deliveries : Leased(v, j) => Leased(v, j)' /\ (IsPending(j) => IsPending(j)')
    BY <1>1, <2>1 DEF Leased, IsPending
  <2> QED
    BY <1>1, <2>2, LeaseFrame
<1>4. CASE LeaseExpires(i)
  <2>1. /\ ~ \E w \in Workers : schedule[i].lockedBy = w /\ AtWorkOn(w, i)
        /\ schedule' = [schedule EXCEPT ![i].expired = TRUE]
    BY <1>4 DEF LeaseExpires
  <2>2. \A j \in Deliveries \ {i} : schedule'[j] = schedule[j]
    BY <1>1, <2>1 DEF TypeOK
  <2>3. \A c \in batch[v] : c.wager # i /\ c.wager \in Deliveries
    <3> SUFFICES ASSUME NEW c \in batch[v] PROVE c.wager # i /\ c.wager \in Deliveries
      OBVIOUS
    <3>1. c # None /\ Leased(v, c.wager)
      BY <1>1, AbsentAssumption DEF LeaseInv, BatchOK, TypeOK, AbsentAssumption
    <3> QED
      BY <2>1, <3>1, RowsInHand DEF AtWorkOn, Leased
  <2>4. claim[v] # None => claim[v].wager # i /\ claim[v].wager \in Deliveries
    BY <2>1, RowsInHand DEF LeaseInv, ClaimOK, AtWorkOn, Leased
  <2>5. BatchOK(v) /\ ClaimOK(v)
    BY DEF LeaseInv
  <2> QED
    BY <1>1, <2>2, <2>3, <2>4, <2>5 DEF BatchOK, ClaimOK, Leased, IsPending
<1> QED
  BY <1>3, <1>4

LEMMA ApplyKeepsLeases ==
  ASSUME NameAssumption, AbsentAssumption, IInv, LeaseInv, NEW p \in Procs, ApplyStep(p)
  PROVE  \A v \in Workers : BatchOK(v)' /\ ClaimOK(v)'
<1>1. /\ pc[p] \in {"lock_ref", "move"} /\ \E step \in {"move", "finish"} : Goto(p, step)
      /\ UNCHANGED <<wagers, schedule, batch, claim>> /\ TypeOK
  BY DEF ApplyStep, ReferenceMissing, LockReference, DebitRefused, MoveMoney, database, workerVars, IInv
<1>2. pc'[p] \in {"move", "finish"} /\ \A q \in Procs \ {p} : pc'[q] = pc[q]
  BY <1>1, GotoGives
<1>3. ASSUME NEW v \in Workers PROVE BatchOK(v)' /\ ClaimOK(v)'
  <2>1. BatchOK(v) /\ ClaimOK(v)
    BY DEF LeaseInv
  <2>2. pc'[v] = pc[v] \/ (pc[v] \in {"lock_ref", "move"} /\ pc'[v] \in {"move", "finish"})
    BY <1>1, <1>2 DEF Procs
  <2> QED
    BY <1>1, <2>1, <2>2 DEF BatchOK, ClaimOK, Leased, IsPending
<1> QED
  BY <1>3

\* What a delivery does before its commit is no business of a worker.
LEMMA DeliveryKeepsLeases ==
  ASSUME NameAssumption, AbsentAssumption, IInv, LeaseInv, NEW d \in Deliveries,
         DeliveryStep(d) \/ FailDelivery(d), ~FinishDelivery(d)
  PROVE  \A v \in Workers : BatchOK(v)' /\ ClaimOK(v)'
<1>0. d \in Procs /\ TypeOK
  BY DEF Procs, IInv
<1>1. CASE ApplyStep(d)
  BY <1>0, <1>1, ApplyKeepsLeases
<1>2. CASE ~ApplyStep(d)
  <2>1. UNCHANGED <<wagers, schedule, batch, claim>> /\ \E step : Goto(d, step)
    BY <1>2 DEF DeliveryStep, TryInsertInbox, FindByKey, FindByExternal, AnswerFrom, RefuseWallet, Create,
       LoseRace, ApplyLoss, FailDelivery, database, workerVars
  <2>2. \A v \in Workers : pc'[v] = pc[v]
    BY <1>0, <2>1, GotoGives, NameAssumption DEF Procs, NameAssumption
  <2> QED
    BY <2>1, <2>2, LeasesFrame
<1> QED
  BY <1>1, <1>2

-----------------------------------------------------------------------------
(* The commit of p. *)

\* A delivery records a new operation, a worker settles one that waits.
LEMMA OwnUnsettled ==
  ASSUME NameAssumption, AbsentAssumption, IInv, LeaseInv, NEW p \in Procs, pc[p] = "finish"
  PROVE  /\ p \in Deliveries => Own(p) = p /\ ~HasRow(p)
         /\ p \in Workers => p \notin Deliveries /\ Own(p) = claim[p].wager /\ IsPending(Own(p))
                             /\ claim[p] # None
         /\ ~Settled(wagers[Own(p)])
<1>1. p \in Deliveries => Own(p) = p /\ ~HasRow(p)
  BY DEF Own, IInv, ProcessesOK
<1>2. p \in Workers => p \notin Deliveries /\ claim[p] # None
  BY DEF NameAssumption, AbsentAssumption, IInv, ProcessesOK
<1>3. p \in Workers => Own(p) = claim[p].wager /\ IsPending(Own(p))
  BY <1>2 DEF Own, LeaseInv, ClaimOK
<1>4. ~Settled(wagers[Own(p)])
  BY <1>1, <1>3 DEF Settled, HasRow, IsPending, Terminal, Procs
<1> QED
  BY <1>1, <1>2, <1>3, <1>4

LEMMA CommitKeepsLeases ==
  ASSUME RequestAssumption, NameAssumption, AbsentAssumption, IInv, LeaseInv, NEW p \in Procs, Commit(p),
         pc'[p] \in {"done", "ack"}, \A q \in Procs \ {p} : pc'[q] = pc[q], UNCHANGED <<batch, claim>>
  PROVE  \A v \in Workers : BatchOK(v)' /\ ClaimOK(v)'
<1>1. pc[p] = "finish" /\ TypeOK
  BY DEF Commit, IInv
<1>2. \A j \in Deliveries : schedule'[j].lockedBy = schedule[j].lockedBy
                            /\ schedule'[j].expired = schedule[j].expired
  <2> SUFFICES ASSUME NEW j \in Deliveries
      PROVE  schedule'[j].lockedBy = schedule[j].lockedBy /\ schedule'[j].expired = schedule[j].expired
    OBVIOUS
  <2>1. schedule[j] \in Schedules /\ schedule \in [Deliveries -> Schedules]
    BY <1>1 DEF TypeOK
  <2>2. schedule' = [schedule EXCEPT ![Own(p)].due = NextDue(p)]
    BY DEF Commit
  <2> QED
    BY <2>1, <2>2 DEF Schedules
<1>3. \A d \in Deliveries \ {Own(p)} : IsPending(d) => IsPending(d)'
  BY CommitRows DEF IsPending
<1>4. ASSUME NEW v \in Workers, v # p PROVE BatchOK(v)' /\ ClaimOK(v)'
  <2>1. \A i \in Deliveries : Leased(v, i) /\ IsPending(i) => i # Own(p)
    <3>1. CASE p \in Deliveries
      BY <1>1, <3>1, OwnUnsettled DEF IsPending, HasRow
    <3>2. CASE p \in Workers
      BY <1>1, <1>4, <3>2, OwnUnsettled, LeasesApart
    <3> QED
      BY <3>1, <3>2 DEF Procs
  <2>2. \A i \in Deliveries : Leased(v, i) => Leased(v, i)' /\ (IsPending(i) => IsPending(i)')
    BY <1>2, <1>3, <2>1 DEF Leased
  <2> QED
    BY <1>4, <2>2, LeaseFrame DEF Procs
<1>5. ASSUME p \in Workers PROVE BatchOK(p)' /\ ClaimOK(p)'
  <2>1. BatchOK(p) /\ ClaimOK(p) /\ pc'[p] \in {"done", "ack"}
    BY <1>5 DEF LeaseInv
  <2>2. /\ claim[p] # None /\ Own(p) = claim[p].wager
        /\ \A c \in batch[p] : c.wager \in Deliveries \ {Own(p)}
        /\ claim[p].wager \in Deliveries
    BY <1>1, <1>5, <2>1, OwnUnsettled, RowsInHand DEF ClaimOK
  <2>3. \A c \in batch[p] : wagers'[c.wager] = wagers[c.wager]
    BY <2>2, CommitRows
  <2> QED
    BY <1>2, <2>1, <2>2, <2>3 DEF BatchOK, ClaimOK, Leased, IsPending
<1> QED
  BY <1>4, <1>5

LEMMA CommitKeepsEntriesSettled ==
  ASSUME RequestAssumption, NameAssumption, AbsentAssumption, IInv, MoneyInv, LeaseInv,
         NEW p \in Procs, Commit(p)
  PROVE  EntriesSettled'
<1> SUFFICES ASSUME NEW w \in Wallets, NEW i \in 1..Len(ledger'[w]), NEW d, d = ledger'[w][i].wager, d # None
    PROVE  wagers'[d].status = "PROCESSED"
  BY DEF EntriesSettled
<1>0. pc[p] = "finish"
  BY DEF Commit
<1>1. ASSUME i \in 1..Len(ledger[w]), ledger'[w][i] = ledger[w][i] PROVE wagers'[d].status = "PROCESSED"
  <2>1. wagers[d].status = "PROCESSED" /\ d \in Deliveries /\ HasRow(d)
    BY <1>1 DEF LeaseInv, EntriesSettled, MoneyInv, BooksOK, EntriesOK
  <2>2. d # Own(p)
    BY <1>0, <2>1, OwnUnsettled DEF Settled, Terminal, HasRow
  <2> QED
    BY <2>1, <2>2, CommitRows
<1>2. CASE ledger'[w] = ledger[w]
  BY <1>1, <1>2
<1>3. CASE ledger'[w] # ledger[w]
  <2>1. Moved(p) /\ w = RequestAt(p).wallet
    BY <1>3, CommitEntries
  <2>2. /\ Len(ledger[w]) \in Nat /\ Len(ledger'[w]) = Len(ledger[w]) + 1
        /\ ledger'[w][Len(ledger[w]) + 1] = NewEntry(p)
        /\ \A k \in 1..Len(ledger[w]) : ledger'[w][k] = ledger[w][k]
    BY <2>1, CommitEntries
  <2>3. i \in 1..Len(ledger[w]) \/ i = Len(ledger[w]) + 1
    BY <2>2
  <2>4. NewEntry(p).wager = Own(p)
    BY DEF NewEntry
  <2>5. draft[p].status = "PROCESSED"
    BY <2>1 DEF Moved, MoneyInv, WorkOK, WalletLocksOK
  <2>6. wagers'[Own(p)].status = "PROCESSED"
    BY <2>5, CommitRows
  <2> QED
    BY <1>1, <2>2, <2>3, <2>4, <2>6
<1> QED
  BY <1>2, <1>3

LEMMA CommitKeepsEvents ==
  ASSUME RequestAssumption, NameAssumption, AbsentAssumption, IInv, MoneyInv, LeaseInv,
         NEW p \in Procs, Commit(p)
  PROVE  EventsTellStatus'
<1> DEFINE notice == <<"PendingReference">>
           Outcome(row) == IF row = None THEN <<>>
                           ELSE IF row.status = "PROCESSED" THEN <<"Processed">>
                           ELSE IF row.status = "REJECTED" THEN <<"Rejected">> ELSE <<>>
           Waits(row) == row # None /\ row.status = "PENDING_REFERENCE"
           Tells(events, row) ==
             IF Waits(row) THEN events = notice
             ELSE events \in {Outcome(row), notice \o Outcome(row)} /\ (row # None \/ events = <<>>)
<1>1. \A d \in Deliveries : Tells(wagerEvents[d], wagers[d])
  BY DEF LeaseInv, EventsTellStatus, HasRow, IsPending
<1>2. SUFFICES ASSUME NEW d \in Deliveries PROVE Tells(wagerEvents'[d], wagers'[d])
  BY DEF EventsTellStatus, HasRow, IsPending
<1>3. /\ pc[p] = "finish" /\ wagerEvents \in [Deliveries -> Seq(EventKinds)]
      /\ wagerEvents' = [wagerEvents EXCEPT ![Own(p)] = wagerEvents[Own(p)] \o NewEvents(p)]
  BY DEF Commit, IInv, TypeOK
<1>4. CASE d # Own(p)
  <2>1. wagerEvents'[d] = wagerEvents[d] /\ wagers'[d] = wagers[d]
    BY <1>3, <1>4, CommitRows
  <2> HIDE DEF Tells
  <2> QED
    BY <1>1, <2>1
<1>5. CASE d = Own(p)
  <2>1. wagerEvents'[d] = wagerEvents[d] \o NewEvents(p) /\ wagers'[d] = draft[p] /\ draft[p] # None
    BY <1>3, <1>5, CommitRows
  <2>2. draft[p].status \in {"PROCESSED", "REJECTED", "PENDING_REFERENCE"}
    BY <1>3 DEF MoneyInv, WorkOK, StepsOK
  <2>3. CASE p \in Deliveries
    <3>1. wagerEvents[d] = <<>>
      BY <1>1, <1>3, <1>5, <2>3, OwnUnsettled DEF HasRow
    <3>2. NewEvents(p) \in {<<"Processed">>, <<"Rejected">>, <<"PendingReference">>}
      BY <2>3 DEF NewEvents
    <3>3. <<>> \o <<"Processed">> = <<"Processed">> /\ <<>> \o <<"Rejected">> = <<"Rejected">>
          /\ <<>> \o <<"PendingReference">> = <<"PendingReference">>
      OBVIOUS
    <3>4. wagerEvents'[d] = NewEvents(p)
      BY <2>1, <3>1, <3>2, <3>3
    <3> QED
      BY <2>1, <2>2, <2>3, <3>4 DEF NewEvents
  <2>4. CASE p \in Workers
    <3>1. wagerEvents[d] = notice /\ p \notin Deliveries
      BY <1>1, <1>3, <1>5, <2>4, OwnUnsettled DEF IsPending
    <3>2. notice \o <<>> = notice
      OBVIOUS
    <3> QED
      BY <2>1, <2>2, <3>1, <3>2 DEF NewEvents
  <2> QED
    BY <2>3, <2>4 DEF Procs
<1> QED
  BY <1>4, <1>5

-----------------------------------------------------------------------------
(* The invariant holds at the start and is kept by every step. *)

LEMMA CommitKeepsLeaseInv ==
  ASSUME RequestAssumption, NameAssumption, AbsentAssumption, IInv, MoneyInv, LeaseInv,
         NEW p \in Procs,
         \/ p \in Deliveries /\ FinishDelivery(p)
         \/ p \in Workers /\ FinishRetry(p)
  PROVE  LeaseInv'
<1>1. Commit(p) /\ UNCHANGED <<claim, batch>> /\ \E step \in {"done", "ack"} : Goto(p, step)
  BY DEF FinishDelivery, FinishRetry, workerVars
<1>2. pc'[p] \in {"done", "ack"} /\ \A q \in Procs \ {p} : pc'[q] = pc[q]
  BY <1>1, GotoGives DEF IInv
<1> QED
  BY <1>1, <1>2, CommitKeepsLeases, CommitKeepsEntriesSettled, CommitKeepsEvents DEF LeaseInv

LEMMA OtherStepsKeepLeases ==
  ASSUME ~SlowWorkers, NameAssumption, AbsentAssumption, IInv, LeaseInv, [Next]_vars,
         ~\E d \in Deliveries : FinishDelivery(d), ~\E w \in Workers : FinishRetry(w)
  PROVE  \A v \in Workers : BatchOK(v)' /\ ClaimOK(v)'
<1>1. ASSUME NEW d \in Deliveries, DeliveryStep(d) \/ FailDelivery(d)
      PROVE  \A v \in Workers : BatchOK(v)' /\ ClaimOK(v)'
  BY <1>1, DeliveryKeepsLeases
<1>2. ASSUME NEW w \in Workers, WorkerStep(w) \/ FailRetry(w) \/ RestartWorker(w)
      PROVE  \A v \in Workers : BatchOK(v)' /\ ClaimOK(v)'
  <2>1. w \in Procs
    BY DEF Procs
  <2>2. DeadlockVictim(w) \/ ConstraintViolation(w) \/ FailRetry(w) => AbandonClaim(w)
    BY DEF DeadlockVictim, ConstraintViolation, FailRetry
  <2> QED
    BY <1>2, <2>1, <2>2, ApplyKeepsLeases, TakesKeepLeases, AcknowledgeKeepsLeases, RollbacksKeepLeases
       DEF WorkerStep
<1>3. ASSUME UNCHANGED vars PROVE \A v \in Workers : BatchOK(v)' /\ ClaimOK(v)'
  BY <1>3, LeasesFrame DEF vars, database, workerVars
<1> QED
  BY <1>1, <1>2, <1>3, ClaimBatchKeepsLeases, ClockKeepsLeases DEF Next, Quiescent

LEMMA NextKeepsLeaseInv ==
  ASSUME ~SlowWorkers, RequestAssumption, NameAssumption, AbsentAssumption, IInv, MoneyInv, LeaseInv,
         [Next]_vars
  PROVE  LeaseInv'
<1>1. CASE (\E d \in Deliveries : FinishDelivery(d)) \/ (\E w \in Workers : FinishRetry(w))
  BY <1>1, CommitKeepsLeaseInv DEF Procs
<1>2. CASE ~((\E d \in Deliveries : FinishDelivery(d)) \/ (\E w \in Workers : FinishRetry(w)))
  <2>1. UNCHANGED <<wallets, wagers, ledger, wagerEvents, walletEvents>>
    BY <1>2, OnlyCommitsWrite
  <2>2. EntriesSettled' /\ EventsTellStatus'
    BY <2>1 DEF LeaseInv, EntriesSettled, EventsTellStatus, HasRow, IsPending
  <2> QED
    BY <1>2, <2>2, OtherStepsKeepLeases DEF LeaseInv
<1> QED
  BY <1>1, <1>2

LEMMA InitLeaseInv ==
  ASSUME SizeAssumption, NameAssumption, Init PROVE LeaseInv
<1>1. \A w \in Workers : BatchOK(w) /\ ClaimOK(w)
  BY DEF Init, BatchOK, ClaimOK, Procs
<1>2. EntriesSettled
  <2> SUFFICES ASSUME NEW w \in Wallets, NEW i \in 1..Len(ledger[w]) PROVE ledger[w][i].wager = None
    BY DEF EntriesSettled
  <2>1. ledger[w] = OpeningEntries(OpeningBalance[w])
    BY DEF Init
  <2> QED
    BY <2>1 DEF OpeningEntries
<1>3. EventsTellStatus
  BY DEF Init, EventsTellStatus, HasRow, IsPending
<1> QED
  BY <1>1, <1>2, <1>3 DEF LeaseInv

LEMMA AlwaysLeaseInv ==
  ASSUME ~SlowWorkers PROVE Spec => []LeaseInv
<1>1. Init => LeaseInv
  BY InitLeaseInv, SizeAssumption, NameAssumption
<1>2. IInv /\ MoneyInv /\ LeaseInv /\ [Next]_vars => LeaseInv'
  BY NextKeepsLeaseInv, RequestAssumption, NameAssumption, AbsentAssumption
<1> QED
  BY <1>1, <1>2, AlwaysIInv, AlwaysMoneyInv, PTL DEF Spec

-----------------------------------------------------------------------------
(* What the theorems say. *)

\* A settled operation is never rewritten (docs/DESAFIO.md), although the UPDATE that settles
\* one does not look at the status it finds: the lease of the row keeps every other worker
\* away until then (pending_reference_repository_postgres.go, retry_pending_reference.go).
THEOREM TerminalCorrect ==
  ASSUME ~SlowWorkers PROVE Spec => TerminalIsFinal
<1>1. ASSUME IInv, LeaseInv, [Next]_vars, NEW d \in Deliveries, Settled(wagers[d])
      PROVE  wagers'[d] = wagers[d]
  <2>1. ASSUME NEW p \in Procs, Commit(p) PROVE wagers'[d] = wagers[d]
    <3>1. d # Own(p)
      BY <1>1, <2>1, OwnUnsettled, NameAssumption, AbsentAssumption DEF Commit
    <3> QED
      BY <1>1, <2>1, <3>1, CommitRows, RequestAssumption, NameAssumption, AbsentAssumption
  <2> QED
    BY <1>1, <2>1, OnlyCommitsWrite DEF FinishDelivery, FinishRetry, Procs
<1>2. IInv /\ LeaseInv /\ [Next]_vars =>
        [\A d \in Deliveries : Settled(wagers[d]) => wagers'[d] = wagers[d]]_vars
  BY <1>1
<1> QED
  BY <1>2, AlwaysIInv, AlwaysLeaseInv, PTL DEF Spec, TerminalIsFinal

\* An operation announces that it waits at most once and its outcome exactly once, whichever
\* of deliveries and workers commits it (outbox_events.go, wager_applier.go).
THEOREM EventsCorrect ==
  ASSUME ~SlowWorkers PROVE Spec => []EventsTellStatus
<1>1. LeaseInv => EventsTellStatus
  BY DEF LeaseInv
<1> QED
  BY <1>1, AlwaysLeaseInv, PTL

\* However many reversals name one operation and in whatever order they arrive and are
\* retried, one at the most has moved money (wager_applier.go).
THEOREM ReversedOnceCorrect ==
  ASSUME ~SlowWorkers PROVE Spec => []ReversedAtMostOnce
<1>1. IInv /\ MoneyInv /\ LeaseInv => ReversedAtMostOnce
  <2> SUFFICES ASSUME IInv, MoneyInv, LeaseInv, NEW d \in Deliveries, NEW e \in Deliveries,
                      HasRow(d), HasRow(e),
                      IsReversal(RequestOf[d].kind), IsReversal(RequestOf[e].kind),
                      RequestOf[d].ref = RequestOf[e].ref,
                      EntriesOf(d) # {}, EntriesOf(e) # {}
               PROVE  d = e
    BY DEF ReversedAtMostOnce
  <2>1. ASSUME NEW x \in Deliveries, HasRow(x), IsReversal(RequestOf[x].kind), EntriesOf(x) # {}
        PROVE  \E r \in Deliveries :
                 ReversalOf(x, r) /\ HasRow(r) /\ RequestOf[r].external = RequestOf[x].ref
    <3>1. RequestOf[x].wallet \in Wallets /\ x # None
      BY <2>1, NameAssumption DEF IInv, ProcessesOK, NameAssumption
    <3>2. wagers[x].status = "PROCESSED"
      BY <2>1, <3>1 DEF LeaseInv, EntriesSettled, EntriesOf
    <3>3. ReferenceKnown(x)
      BY <2>1, <3>2 DEF MoneyInv, BooksOK, RowOK, NeedsReference
    <3> QED
      BY <2>1, <3>2, <3>3 DEF ReferenceKnown, ReversalOf
  <2>2. PICK r \in Deliveries : ReversalOf(d, r) /\ HasRow(r) /\ RequestOf[r].external = RequestOf[d].ref
    BY <2>1
  <2>3. PICK s \in Deliveries : ReversalOf(e, s) /\ HasRow(s) /\ RequestOf[s].external = RequestOf[e].ref
    BY <2>1
  <2>4. r = s
    BY <2>2, <2>3 DEF IInv, PresentAreUnique, Present, SameIdentity
  <2> QED
    BY <2>2, <2>3, <2>4 DEF MoneyInv, BooksOK, OneReversal
<1> QED
  BY <1>1, AlwaysIInv, AlwaysMoneyInv, AlwaysLeaseInv, PTL

\* The ledger says of every operation that moves money whether it is PROCESSED: the wallet has
\* its entry then and only then, so no refused, waiting or rolled back operation has left money
\* behind (wager_applier.go, retry_pending_reference.go).
PaidMeansProcessed ==
  \A d \in Deliveries :
    HasRow(d) /\ MovesMoney(RequestOf[d]) => (EntriesOf(d) # {} <=> wagers[d].status = "PROCESSED")

THEOREM LedgerTellsCorrect ==
  ASSUME ~SlowWorkers PROVE Spec => []PaidMeansProcessed
<1>1. IInv /\ LeaseInv /\ ProcessedIsPaid => PaidMeansProcessed
  <2> SUFFICES ASSUME IInv, LeaseInv, ProcessedIsPaid, NEW d \in Deliveries, HasRow(d),
                      MovesMoney(RequestOf[d])
               PROVE  EntriesOf(d) # {} <=> wagers[d].status = "PROCESSED"
    BY DEF PaidMeansProcessed
  <2>1. RequestOf[d].wallet \in Wallets /\ d # None
    BY NameAssumption DEF IInv, ProcessesOK, NameAssumption
  <2>2. EntriesOf(d) # {} => wagers[d].status = "PROCESSED"
    BY <2>1 DEF LeaseInv, EntriesSettled, EntriesOf
  <2> QED
    BY <2>2 DEF ProcessedIsPaid
<1> QED
  BY <1>1, AlwaysIInv, AlwaysLeaseInv, PaidCorrect, PTL

-----------------------------------------------------------------------------
(* Circles of transactions that wait for one another. *)

Circle(S) ==
  /\ S \subseteq Procs
  /\ \A q \in S : \E r \in S : WaitsFor(q, r)
  /\ \A q \in S : \E r \in S : WaitsFor(r, q)

\* Nobody in a circle is before its transaction's first lock: a rival waits there for one
\* that is not, so every one of them is waited for because of a row or a wallet it holds.
LEMMA CircleHoldsLocks ==
  ASSUME IInv, MoneyInv, NEW S, Circle(S), NEW q \in S
  PROVE  pc[q] \in {"move", "finish"}
<1>1. \A x \in S : \A y \in S : WaitsFor(y, x) =>
        \/ pc[x] \in {"move", "finish"}
        \/ x \in Deliveries /\ y \in Deliveries /\ pc[y] = "insert" /\ Inserted(x)
        \/ x \in Deliveries /\ y \in Deliveries /\ pc[y] = "inbox" /\ InInbox(x)
  <2> SUFFICES ASSUME NEW x \in S, NEW y \in S, WaitsFor(y, x), pc[x] \notin {"move", "finish"}
      PROVE  \/ x \in Deliveries /\ y \in Deliveries /\ pc[y] = "insert" /\ Inserted(x)
             \/ x \in Deliveries /\ y \in Deliveries /\ pc[y] = "inbox" /\ InInbox(x)
    OBVIOUS
  <2>1. (\A i \in Deliveries : rowLock[i] # x) /\ (\A w \in Wallets : walletLock[w] # x)
    BY NoLocksElsewhere DEF Circle
  <2>2. pc[y] = "move" => RequestAt(y).wallet \in Wallets
    BY Working, RequestAssumption, NameAssumption DEF IInv, Circle
  <2>3. pc[y] = "finish" => Own(y) \in Deliveries
    BY Working, RequestAssumption, NameAssumption DEF IInv, Circle
  <2> QED
    BY <2>1, <2>2, <2>3 DEF WaitsFor, Referenced
<1>2. \A x \in S : pc[x] # "inbox"
  BY <1>1 DEF Circle, InInbox, Inserted
<1>3. \A x \in S : pc[x] # "insert"
  <2> SUFFICES ASSUME NEW x \in S, pc[x] = "insert" PROVE FALSE
    OBVIOUS
  <2>1. PICK y \in S : WaitsFor(y, x)
    BY DEF Circle
  <2>2. pc[y] # "inbox" /\ ~Inserted(x)
    BY <1>2 DEF Inserted
  <2> QED
    BY <1>1, <2>1, <2>2
<1> QED
  BY <1>1, <1>2, <1>3 DEF Circle

\* What is waited for at the end of a transaction is the row of an operation that waits, which
\* its holder locked as a reference.
LEMMA HeldByAWaiter ==
  ASSUME IInv, MoneyInv, LeaseInv, NEW p \in Procs, NEW s \in Procs, pc[s] = "finish", s # p,
         rowLock[Own(s)] = p
  PROVE  s \in Workers /\ pc[p] = "finish" /\ draft[p].status = "PENDING_REFERENCE"
<1>1. Own(s) \in Deliveries
  BY Working, RequestAssumption, NameAssumption DEF IInv
<1>2. RowLocksOK(p)
  BY DEF MoneyInv, WorkOK
<1>3. s \notin Deliveries
  <2> SUFFICES ASSUME s \in Deliveries PROVE FALSE
    OBVIOUS
  <2>1. Own(s) = s /\ ~HasRow(s)
    BY OwnUnsettled, NameAssumption, AbsentAssumption
  <2> QED
    BY <1>2, <2>1 DEF RowLocksOK
<1>4. s \in Workers /\ IsPending(Own(s))
  BY <1>3, OwnUnsettled, NameAssumption, AbsentAssumption DEF Procs
<1>5. RowSeen(Own(s)).status = "PENDING_REFERENCE"
  BY <1>4 DEF IsPending, RowSeen
<1> QED
  BY <1>1, <1>2, <1>4, <1>5 DEF RowLocksOK

\* The only transactions the server's deadlock detector ever aborts are those of two or more
\* workers that reapply operations waiting for one another: a delivery is never its victim,
\* and no wallet stays locked meanwhile (wager_applier.go, retry_pending_reference.go).
THEOREM DeadlockCorrect ==
  ASSUME ~SlowWorkers PROVE Spec => []DeadlockOnlyBetweenWaitingRows
<1>1. IInv /\ MoneyInv /\ LeaseInv => DeadlockOnlyBetweenWaitingRows
  <2> SUFFICES ASSUME IInv, MoneyInv, LeaseInv, NEW p \in Procs, InDeadlock(p)
               PROVE  /\ p \in Workers /\ draft[p].status = "PENDING_REFERENCE"
                      /\ \A w \in Wallets : walletLock[w] # p
    BY DEF DeadlockOnlyBetweenWaitingRows
  <2>1. PICK S : Circle(S) /\ p \in S
    BY DEF InDeadlock, Circle
  <2>2. \A q \in S : q \in Procs /\ pc[q] \in {"move", "finish"}
    BY <2>1, CircleHoldsLocks DEF Circle
  <2>3. \A q \in S : pc[q] = "finish"
    <3> SUFFICES ASSUME NEW q \in S, pc[q] = "move" PROVE FALSE
      BY <2>2
    <3>1. PICK s \in S : WaitsFor(s, q)
      BY <2>1 DEF Circle
    <3>2. \A w \in Wallets : walletLock[w] # q
      BY <2>2 DEF IInv, MoneyInFlight
    <3>3. pc[s] = "move" => RequestAt(s).wallet \in Wallets
      BY <2>2, Working, RequestAssumption, NameAssumption DEF IInv
    <3>4. pc[s] = "finish" /\ rowLock[Own(s)] = q /\ s # q
      BY <2>2, <3>1, <3>2, <3>3 DEF WaitsFor
    <3> QED
      BY <2>2, <3>4, HeldByAWaiter
  <2>4. PICK s \in S : WaitsFor(s, p)
    BY <2>1 DEF Circle
  <2>5. rowLock[Own(s)] = p /\ s # p
    BY <2>3, <2>4 DEF WaitsFor
  <2>6. draft[p].status = "PENDING_REFERENCE"
    BY <2>2, <2>3, <2>5, HeldByAWaiter
  <2>7. PICK r \in S : WaitsFor(p, r)
    BY <2>1 DEF Circle
  <2>8. rowLock[Own(p)] = r /\ p # r
    BY <2>1, <2>3, <2>7 DEF WaitsFor
  <2>9. p \in Workers
    BY <2>1, <2>2, <2>3, <2>8, HeldByAWaiter
  <2>10. \A w \in Wallets : walletLock[w] # p
    BY <2>6 DEF MoneyInv, WorkOK, WalletLocksOK
  <2> QED
    BY <2>6, <2>9, <2>10
<1> QED
  BY <1>1, AlwaysIInv, AlwaysMoneyInv, AlwaysLeaseInv, PTL

-----------------------------------------------------------------------------
(* The service implements the book: a commit is one entry of the clerk's,  *)
(* and every other step is nothing the book knows of.                      *)

status == [d \in Deliveries |-> IF HasRow(d) THEN wagers[d].status ELSE "UNKNOWN"]
balance == [w \in Wallets |-> wallets[w].balance]

LEMMA SameRules ==
  /\ \A q : Book!NeedsReference(q) <=> NeedsReference(q)
  /\ \A q : Book!MovesMoney(q) <=> MovesMoney(q)
  /\ \A kind : Book!IsReversal(kind) <=> IsReversal(kind)
  /\ \A q, r : Book!CheckReferenceRules(q, r) = CheckReferenceRules(q, r)
  /\ \A kind, refKind : Book!MovementDirection(kind, refKind) = MovementDirection(kind, refKind)
  /\ \A direction, before, amount :
       Book!BalanceAfter(direction, before, amount) = BalanceAfter(direction, before, amount)
  BY DEF Book!NeedsReference, NeedsReference, Book!MovesMoney, MovesMoney, Book!IsReversal, IsReversal,
     Book!CheckReferenceRules, CheckReferenceRules, Book!ReferableKinds, ReferableKinds,
     Book!MovementDirection, MovementDirection, Book!BalanceAfter, BalanceAfter

LEMMA RecordedIsARow ==
  ASSUME IInv, NEW d \in Deliveries
  PROVE  (Book!Recorded(d) <=> HasRow(d)) /\ (status[d] = "PROCESSED" <=> HasRow(d) /\ wagers[d].status = "PROCESSED")
<1>1. HasRow(d) => wagers[d].status \in Statuses
  BY DEF IInv, TypeOK, HasRow, Rows
<1> QED
  BY <1>1 DEF Book!Recorded, status, Statuses

\* What a commit does to the book.
LEMMA CommitInTheBook ==
  ASSUME RequestAssumption, NameAssumption, AbsentAssumption, IInv, NEW p \in Procs, Commit(p),
         NEW d, d = Own(p)
  PROVE  /\ status' = [status EXCEPT ![d] = draft[p].status]
         /\ ~Moved(p) => balance' = balance
         /\ Moved(p) => balance' = [balance EXCEPT ![RequestOf[d].wallet] = draft[p].result]
<1>1. /\ d \in Deliveries /\ wagers'[d] = draft[p] /\ draft[p] # None
      /\ \A e \in Deliveries \ {d} : wagers'[e] = wagers[e]
      /\ RequestAt(p) = RequestOf[d] /\ RequestOf[d].wallet \in Wallets
  BY CommitRows DEF RequestAt
<1>2. status' = [status EXCEPT ![d] = draft[p].status]
  BY <1>1 DEF status, HasRow
<1>3. ~Moved(p) => balance' = balance
  BY DEF Commit, balance
<1>4. ASSUME Moved(p) PROVE balance' = [balance EXCEPT ![RequestOf[d].wallet] = draft[p].result]
  <2>1. wallets' = [wallets EXCEPT ![RequestOf[d].wallet] =
                      [balance |-> draft[p].result, version |-> wallets[RequestOf[d].wallet].version + 1]]
    BY <1>1, <1>4 DEF Commit
  <2>2. wallets \in [Wallets -> [balance : Nat, version : Nat]]
    BY DEF IInv, TypeOK
  <2> QED
    BY <1>1, <2>1, <2>2 DEF balance
<1> QED
  BY <1>2, <1>3, <1>4

\* The reference under p's lock is one the book accepts: the rules allow it, and no other
\* operation that names it is a PROCESSED reversal.
LEMMA ReferenceIsGood ==
  ASSUME RequestAssumption, NameAssumption, AbsentAssumption, IInv, MoneyInv, LeaseInv,
         NEW p \in Procs, pc[p] = "finish", NEW d \in Deliveries, d = Own(p), ReferenceHeld(p)
  PROVE  draft[p].ref \in Deliveries /\ Book!GoodReference(d, draft[p].ref)
<1> PICK r : r = draft[p].ref
  OBVIOUS
<1>1. /\ r \in Deliveries /\ HasRow(r) /\ wagers[r].status = "PROCESSED"
      /\ RequestOf[r].external = RequestOf[d].ref
      /\ CheckReferenceRules(RequestOf[d], RequestOf[r]) = None
      /\ IsReversal(RequestOf[d].kind) => \A e \in Deliveries \ {d} : ~ReversalOf(e, r)
  BY DEF ReferenceHeld, RequestAt
<1>2. ASSUME NEW e \in Deliveries, HasRow(e), wagers[e].status = "PROCESSED", IsReversal(RequestOf[e].kind),
             RequestOf[e].ref = RequestOf[d].ref, IsReversal(RequestOf[d].kind)
      PROVE  FALSE
  <2>1. ReferenceKnown(e)
    BY <1>2 DEF MoneyInv, BooksOK, RowOK, NeedsReference
  <2>2. wagers[e].ref = r
    BY <1>1, <1>2, <2>1 DEF ReferenceKnown, IInv, PresentAreUnique, Present, SameIdentity
  <2>3. e # d
    BY <1>2, OwnUnsettled DEF Settled, Terminal, HasRow
  <2> QED
    BY <1>1, <1>2, <2>2, <2>3 DEF ReversalOf
<1>3. status[r] = "PROCESSED"
  BY <1>1, RecordedIsARow
<1>4. \A e \in Deliveries : IsReversal(RequestOf[d].kind) =>
        ~(status[e] = "PROCESSED" /\ IsReversal(RequestOf[e].kind) /\ RequestOf[e].ref = RequestOf[d].ref)
  BY <1>2, RecordedIsARow
<1> QED
  BY <1>1, <1>3, <1>4, SameRules DEF Book!GoodReference, status

LEMMA CommitProcesses ==
  ASSUME RequestAssumption, NameAssumption, AbsentAssumption, IInv, MoneyInv, LeaseInv,
         NEW p \in Procs, Commit(p), NEW d \in Deliveries, d = Own(p), draft[p].status = "PROCESSED"
  PROVE  Book!Process(d)
<1> DEFINE w == RequestOf[d].wallet
           amount == RequestOf[d].amount
<1>0. /\ pc[p] = "finish" /\ RequestAt(p) = RequestOf[d]
      /\ w \in Wallets /\ amount \in Nat /\ wallets[w].balance \in Nat
  BY Working DEF Commit, RequestAt, IInv, Requests, TypeOK
<1>1. status' = [status EXCEPT ![d] = "PROCESSED"]
  BY CommitInTheBook
<1>2. MayApply(p) /\ (MovesMoney(RequestOf[d]) => Moved(p))
  BY <1>0 DEF MoneyInv, WorkOK, StepsOK
<1>3. CASE ~MovesMoney(RequestOf[d])
  <2>1. ~Moved(p)
    BY <1>0, <1>3 DEF Moved, MoneyInv, WorkOK, WalletLocksOK
  <2>2. balance' = balance
    BY <2>1, CommitInTheBook
  <2> QED
    BY <1>1, <1>3, <2>2, SameRules DEF Book!Process, status, balance
<1>4. CASE MovesMoney(RequestOf[d])
  <2>1. /\ draft[p].result = BalanceAfter(Direction(p), wallets[w].balance, amount)
        /\ draft[p].result \in Nat
    BY <1>0, <1>2, <1>4 DEF Moved, IInv, MoneyInFlight
  <2>2. balance' = [balance EXCEPT ![w] = BalanceAfter(Direction(p), balance[w], amount)]
    BY <1>0, <1>2, <1>4, <2>1, CommitInTheBook DEF balance
  <2>3. Direction(p) = "DEBIT" => balance[w] >= amount
    BY <1>0, <2>1 DEF BalanceAfter, balance
  <2>5. CASE NeedsReference(RequestOf[d])
    <3>1. ReferenceHeld(p)
      BY <1>0, <1>2, <2>5 DEF MayApply
    <3>2. draft[p].ref \in Deliveries /\ Book!GoodReference(d, draft[p].ref)
      BY <1>0, <3>1, ReferenceIsGood
    <3>3. draft[p].ref # None
      BY <3>2, NameAssumption
    <3>4. Direction(p) = MovementDirection(RequestOf[d].kind, RequestOf[draft[p].ref].kind)
      BY <1>0, <2>5, <3>3 DEF Direction, RefKind
    <3>5. \E r \in Deliveries :
            /\ Book!GoodReference(d, r)
            /\ Book!Move(d, Book!MovementDirection(RequestOf[d].kind, RequestOf[r].kind))
      BY <2>2, <2>3, <3>2, <3>4, SameRules DEF Book!Move, balance
    <3> QED
      BY <1>1, <1>4, <2>5, <3>5, SameRules DEF Book!Process, status
  <2>6. CASE ~NeedsReference(RequestOf[d])
    <3>1. Direction(p) = MovementDirection(RequestOf[d].kind, None)
      BY <1>0, <2>6 DEF Direction
    <3>2. Book!Move(d, Book!MovementDirection(RequestOf[d].kind, None))
      BY <2>2, <2>3, <3>1, SameRules DEF Book!Move, balance
    <3> QED
      BY <1>1, <1>4, <2>6, <3>2, SameRules DEF Book!Process, status
  <2> QED
    BY <2>5, <2>6
<1> QED
  BY <1>3, <1>4

LEMMA CommitDecides ==
  ASSUME RequestAssumption, NameAssumption, AbsentAssumption, IInv, MoneyInv, LeaseInv,
         NEW p \in Procs, Commit(p), NEW d \in Deliveries, d = Own(p), draft[p].status # "PROCESSED"
  PROVE  \/ draft[p].status = "REJECTED" /\ Book!Refuse(d)
         \/ draft[p].status = "PENDING_REFERENCE" /\ Book!Wait(d)
<1>0. pc[p] = "finish" /\ RequestAt(p) = RequestOf[d] /\ RequestAt(p).wallet \in Wallets
  BY Working DEF Commit, RequestAt, IInv
<1>1. status' = [status EXCEPT ![d] = draft[p].status]
  BY CommitInTheBook
<1>2. ~Moved(p)
  BY <1>0 DEF Moved, MoneyInv, WorkOK, WalletLocksOK
<1>3. balance' = balance
  BY <1>2, CommitInTheBook
<1>4. \/ draft[p].status = "REJECTED" /\ (RequestOf[d].kind = "BET" \/ NeedsReference(RequestOf[d]))
      \/ draft[p].status = "PENDING_REFERENCE" /\ NeedsReference(RequestOf[d])
  BY <1>0 DEF MoneyInv, WorkOK, StepsOK
<1> QED
  BY <1>1, <1>3, <1>4, SameRules DEF Book!Refuse, Book!Wait, status, balance

LEMMA CommitRefines ==
  ASSUME RequestAssumption, NameAssumption, AbsentAssumption, IInv, MoneyInv, LeaseInv,
         NEW p \in Procs, Commit(p)
  PROVE  [Book!Next]_(Book!vars)
<1> PICK d : d = Own(p)
  OBVIOUS
<1>0. pc[p] = "finish" /\ d \in Deliveries /\ RequestOf[d].wallet \in Wallets /\ Present(d)
  BY Working DEF Commit, RequestAt, IInv
<1>1. CASE p \in Deliveries
  <2>1. ~HasRow(d)
    BY <1>0, <1>1, OwnUnsettled
  <2>2. Book!Fresh(d)
    <3>1. \A e \in Deliveries : HasRow(e) => ~SameIdentity(e, d)
      BY <1>0, <2>1 DEF IInv, PresentAreUnique, Present
    <3> QED
      BY <3>1, RecordedIsARow DEF Book!Fresh, SameIdentity
  <2>3. Book!Process(d) \/ Book!Refuse(d) \/ Book!Wait(d)
    BY <1>0, CommitProcesses, CommitDecides
  <2>4. Book!Record(d)
    BY <1>0, <2>1, <2>2, <2>3, RecordedIsARow DEF Book!Record
  <2> QED
    BY <1>0, <2>4 DEF Book!Next
<1>2. CASE p \in Workers
  <2>1. IsPending(d)
    BY <1>0, <1>2, OwnUnsettled
  <2>2. status[d] = "PENDING_REFERENCE"
    BY <1>0, <2>1 DEF status, IsPending, HasRow
  <2>3. CASE draft[p].status = "PENDING_REFERENCE"
    <3>1. status' = [status EXCEPT ![d] = "PENDING_REFERENCE"] /\ Book!Wait(d)
      BY <1>0, <2>3, CommitInTheBook, CommitDecides
    <3>2. status' = status
      BY <1>0, <2>2, <3>1 DEF status
    <3>3. balance' = balance
      BY <3>1 DEF balance, Book!Wait
    <3> QED
      BY <3>2, <3>3 DEF status, balance, Book!vars
  <2>4. CASE draft[p].status # "PENDING_REFERENCE"
    <3>1. Book!Process(d) \/ Book!Refuse(d)
      BY <1>0, <2>4, CommitProcesses, CommitDecides
    <3>2. Book!Settle(d)
      BY <2>2, <3>1 DEF Book!Settle, status
    <3> QED
      BY <1>0, <3>2 DEF Book!Next
  <2> QED
    BY <2>3, <2>4
<1> QED
  BY <1>1, <1>2 DEF Procs

\* Deliveries, retries, workers, locks, leases, rollbacks and crashes are nothing the book
\* knows of: what the tables say is what one clerk could have written, operation by operation
\* (process_wager_transaction.go, wager_applier.go, retry_pending_reference.go).
THEOREM BookImplemented ==
  ASSUME ~SlowWorkers PROVE Spec => ImplementsBook
<1>1. Init => Book!Init
  BY SizeAssumption DEF Init, Book!Init, HasRow, SizeAssumption
<1>2. IInv /\ MoneyInv /\ LeaseInv /\ [Next]_vars => [Book!Next]_(Book!vars)
  <2> SUFFICES ASSUME IInv, MoneyInv, LeaseInv, [Next]_vars PROVE [Book!Next]_(Book!vars)
    OBVIOUS
  <2>1. ASSUME NEW p \in Procs, Commit(p) PROVE [Book!Next]_(Book!vars)
    BY <2>1, CommitRefines, RequestAssumption, NameAssumption, AbsentAssumption
  <2>2. ASSUME UNCHANGED <<wallets, wagers>> PROVE UNCHANGED Book!vars
    BY <2>2 DEF Book!vars, HasRow
  <2> QED
    BY <2>1, <2>2, OnlyCommitsWrite DEF FinishDelivery, FinishRetry, Procs
<1> QED
  BY <1>1, <1>2, AlwaysIInv, AlwaysMoneyInv, AlwaysLeaseInv, PTL DEF Spec, ImplementsBook, Book!Spec
=============================================================================
