------------------------- MODULE WagerServiceProofs -------------------------
(***************************************************************************)
(* Theorems about WagerService for every value of its constants.           *)
(***************************************************************************)
EXTENDS WagerInvariants, TLAPS

-----------------------------------------------------------------------------
(* The inductive invariant. *)

\* A process holds an entity while its transaction applies one, and what it works on
\* is in the table; a delivery's own row appears when it is done.
ProcessesOK ==
  /\ \A d \in Deliveries : HasRow(d) => pc[d] = "done" /\ RequestOf[d].wallet \in Wallets
  /\ \A d \in Deliveries : Inserted(d) => draft[d] \in Rows /\ RequestOf[d].wallet \in Wallets
  /\ \A w \in Workers :
       /\ pc[w] # "idle" => claim[w] \in Claims /\ HasRow(claim[w].wager) /\ draft[w] \in Rows
       /\ \A c \in batch[w] : HasRow(c.wager)

\* No two operations present, committed or not, share a key or an external id.
Present(d) == HasRow(d) \/ Inserted(d)
PresentAreUnique ==
  \A d, e \in Deliveries : Present(d) /\ Present(e) /\ SameIdentity(d, e) => d = e

\* Who holds a wallet's lock is about to commit what it has computed from the balance.
MoneyInFlight ==
  \A w \in Wallets, p \in Procs : walletLock[w] = p =>
    /\ pc[p] = "finish"
    /\ RequestAt(p).wallet = w
    /\ draft[p].result = BalanceAfter(Direction(p), wallets[w].balance, RequestAt(p).amount)
    /\ draft[p].result \in Nat

IInv == TypeOK /\ ProcessesOK /\ PresentAreUnique /\ MoneyInFlight /\ LedgerIsHistory

-----------------------------------------------------------------------------
(* Frames: what a step of one process cannot disturb. *)

\* A step of p leaves the other processes as they are.
StepOf(p) ==
  /\ \A q \in Procs \ {p} : pc'[q] = pc[q] /\ draft'[q] = draft[q]
  /\ \A w \in Workers \ {p} : claim'[w] = claim[w] /\ batch'[w] = batch[w]

\* What a process is working on depends on its own claim and entity only.
LEMMA SameWork ==
  ASSUME NameAssumption, NEW q \in Procs, draft'[q] = draft[q], q \in Workers => claim'[q] = claim[q]
  PROVE  RequestAt(q)' = RequestAt(q) /\ Direction(q)' = Direction(q)
<1>1. Own(q)' = Own(q)
  BY DEF Own, Procs
<1>2. RequestAt(q)' = RequestAt(q)
  BY <1>1 DEF RequestAt
<1>3. RefKind(q)' = RefKind(q)
  BY DEF RefKind
<1> QED
  BY <1>2, <1>3 DEF Direction, MovementDirection, NeedsReference, IsReversal

\* The money in flight with q is not disturbed while q, its lock and the balance stay.
LEMMA MoneyOf ==
  ASSUME NameAssumption, MoneyInFlight, NEW w \in Wallets, NEW q \in Procs, walletLock[w] = q,
         pc'[q] = pc[q], draft'[q] = draft[q], q \in Workers => claim'[q] = claim[q],
         wallets'[w] = wallets[w]
  PROVE  /\ pc'[q] = "finish"
         /\ RequestAt(q)'.wallet = w
         /\ draft'[q].result = BalanceAfter(Direction(q)', wallets'[w].balance, RequestAt(q)'.amount)
         /\ draft'[q].result \in Nat
<1>1. RequestAt(q)' = RequestAt(q) /\ Direction(q)' = Direction(q)
  BY SameWork
<1> QED
  BY <1>1 DEF MoneyInFlight

LEMMA MoneyFrame ==
  ASSUME NameAssumption, TypeOK, MoneyInFlight, NEW p \in Procs, StepOf(p),
         pc[p] # "finish", UNCHANGED <<wallets, walletLock>>
  PROVE  MoneyInFlight'
<1> SUFFICES ASSUME NEW w \in Wallets, NEW q \in Procs, walletLock[w] = q
    PROVE  /\ pc'[q] = "finish"
           /\ RequestAt(q)'.wallet = w
           /\ draft'[q].result = BalanceAfter(Direction(q)', wallets'[w].balance, RequestAt(q)'.amount)
           /\ draft'[q].result \in Nat
  BY DEF MoneyInFlight
<1>1. q # p
  BY DEF MoneyInFlight
<1>2. pc'[q] = pc[q] /\ draft'[q] = draft[q] /\ (q \in Workers => claim'[q] = claim[q])
  BY <1>1 DEF StepOf
<1> QED
  BY <1>2, MoneyOf

LEMMA LedgerFrame ==
  ASSUME LedgerIsHistory, UNCHANGED <<wallets, ledger>> PROVE LedgerIsHistory'
  BY DEF LedgerIsHistory

LEMMA UniqueFrame ==
  ASSUME PresentAreUnique, \A d \in Deliveries : Present(d)' => Present(d)
  PROVE  PresentAreUnique'
  BY DEF PresentAreUnique, SameIdentity

LEMMA ProcessesFrame ==
  ASSUME NameAssumption, TypeOK, ProcessesOK, NEW p \in Procs, StepOf(p), wagers' = wagers,
         p \in Deliveries =>
           /\ pc[p] # "done"
           /\ Inserted(p)' => draft'[p] \in Rows /\ RequestOf[p].wallet \in Wallets,
         p \in Workers =>
           /\ pc'[p] # "idle" =>
                claim'[p] \in Claims /\ wagers[claim'[p].wager] # None /\ draft'[p] \in Rows
           /\ \A c \in batch'[p] : wagers[c.wager] # None
  PROVE  ProcessesOK'
<1>1. \A d \in Deliveries : HasRow(d)' => pc'[d] = "done" /\ RequestOf[d].wallet \in Wallets
  BY DEF ProcessesOK, HasRow, StepOf, Procs
<1>2. \A d \in Deliveries : Inserted(d)' => draft'[d] \in Rows /\ RequestOf[d].wallet \in Wallets
  BY DEF ProcessesOK, Inserted, StepOf, Procs
<1>3. \A w \in Workers :
        /\ pc'[w] # "idle" => claim'[w] \in Claims /\ HasRow(claim[w].wager)' /\ draft'[w] \in Rows
        /\ \A c \in batch'[w] : HasRow(c.wager)'
  BY DEF ProcessesOK, HasRow, StepOf, Procs
<1> QED
  BY <1>1, <1>2, <1>3 DEF ProcessesOK

-----------------------------------------------------------------------------
(* Types of the pieces steps are made of. *)

LEMMA GotoType ==
  ASSUME NameAssumption, TypeOK, NEW p \in Procs, NEW step, Goto(p, step),
         p \in Deliveries => step \in DeliverySteps, p \in Workers => step \in WorkerSteps
  PROVE  /\ pc' \in [Procs -> DeliverySteps \cup WorkerSteps]
         /\ \A d \in Deliveries : pc'[d] \in DeliverySteps
         /\ \A w \in Workers : pc'[w] \in WorkerSteps
         /\ pc'[p] = step
         /\ \A q \in Procs \ {p} : pc'[q] = pc[q]
  BY DEF Goto, TypeOK, Procs, NameAssumption

LEMMA DraftType ==
  ASSUME TypeOK, NEW p \in Procs, NEW row \in Rows \cup {None}, draft' = [draft EXCEPT ![p] = row]
  PROVE  /\ draft' \in [Procs -> Rows \cup {None}]
         /\ draft'[p] = row
         /\ \A q \in Procs \ {p} : draft'[q] = draft[q]
  BY DEF TypeOK

LEMMA TellType ==
  ASSUME TypeOK, NEW d \in Deliveries, NEW kind \in AnswerKinds,
         NEW e \in Deliveries \cup {None}, NEW row \in Rows \cup {None}, Tell(d, kind, e, row)
  PROVE  answer' \in [Deliveries -> Answers]
<1> DEFINE told == [kind |-> kind, wager |-> e, row |-> row]
<1>1. told \in Answers
  BY DEF Answers
<1>2. answer' = [answer EXCEPT ![d] = told]
  BY DEF Tell
<1>3. answer \in [Deliveries -> Answers]
  BY DEF TypeOK
<1> HIDE DEF told
<1> QED
  BY <1>1, <1>2, <1>3

LEMMA CommitInboxType ==
  ASSUME RequestAssumption, TypeOK, NEW d \in Deliveries, CommitInbox(d)
  PROVE  inbox' \subseteq Messages
  BY DEF CommitInbox, InInbox, RequestAssumption, TypeOK

LEMMA AnswerFromType ==
  ASSUME RequestAssumption, NameAssumption, TypeOK, NEW d \in Deliveries, NEW e \in Deliveries,
         AnswerFrom(d, e)
  PROVE  answer' \in [Deliveries -> Answers] /\ inbox' \subseteq Messages /\ Goto(d, "done")
<1>1. CASE PayloadHash(RequestOf[e]) = PayloadHash(RequestOf[d])
  <2>1. Tell(d, "replay", e, wagers[e]) /\ CommitInbox(d) /\ Goto(d, "done")
    BY <1>1 DEF AnswerFrom
  <2>2. wagers[e] \in Rows \cup {None} /\ "replay" \in AnswerKinds
    BY DEF TypeOK, AnswerKinds
  <2> QED
    BY <2>1, <2>2, TellType, CommitInboxType
<1>2. CASE PayloadHash(RequestOf[e]) # PayloadHash(RequestOf[d])
  <2>1. Tell(d, "idempotency_conflict", e, None) /\ inbox' = inbox /\ Goto(d, "done")
    BY <1>2 DEF AnswerFrom
  <2>2. "idempotency_conflict" \in AnswerKinds
    BY DEF AnswerKinds
  <2> QED
    BY <2>1, <2>2, TellType DEF TypeOK
<1> QED
  BY <1>1, <1>2

\* The wager an applying process works on, and its request.
LEMMA Working ==
  ASSUME RequestAssumption, NameAssumption, TypeOK, ProcessesOK, NEW p \in Procs,
         pc[p] \in {"lock_ref", "move", "finish"}
  PROVE  /\ draft[p] \in Rows
         /\ Own(p) \in Deliveries
         /\ RequestAt(p) \in Requests
         /\ RequestAt(p).wallet \in Wallets
         /\ Present(Own(p))
<1>1. CASE p \in Deliveries
  BY <1>1 DEF Own, RequestAt, ProcessesOK, Inserted, Present, RequestAssumption
<1>2. CASE p \in Workers
  <2>1. claim[p] \in Claims /\ HasRow(claim[p].wager) /\ draft[p] \in Rows
    BY <1>2 DEF ProcessesOK
  <2>2. Own(p) = claim[p].wager
    BY <1>2 DEF Own, NameAssumption
  <2>3. claim[p].wager \in Deliveries
    BY <2>1 DEF Claims
  <2> QED
    BY <2>1, <2>2, <2>3 DEF RequestAt, ProcessesOK, Present, RequestAssumption
<1> QED
  BY <1>1, <1>2 DEF Procs

\* Every rule that can break has its failure code.
LEMMA RulesHaveCodes ==
  ASSUME NEW q, NEW r PROVE CheckReferenceRules(q, r) \in FailureCodes \cup {None}
  BY DEF CheckReferenceRules, FailureCodes

LEMMA SufficientStaysNatural ==
  ASSUME RequestAssumption, NameAssumption, TypeOK, ProcessesOK, NEW p \in Procs,
         pc[p] = "move", ~Insufficient(p)
  PROVE  BalanceAfter(Direction(p), wallets[RequestAt(p).wallet].balance, RequestAt(p).amount) \in Nat
<1>1. RequestAt(p).wallet \in Wallets /\ RequestAt(p).amount \in Nat
  BY Working DEF Requests
<1>2. wallets[RequestAt(p).wallet].balance \in Nat
  BY <1>1 DEF TypeOK
<1> QED
  BY <1>1, <1>2 DEF Insufficient, BalanceAfter

-----------------------------------------------------------------------------
LEMMA TryInsertInboxKeeps ==
  ASSUME RequestAssumption, NameAssumption, IInv, NEW d \in Deliveries, TryInsertInbox(d)
  PROVE IInv'
<1> USE DEF IInv
<1> d \in Procs
  BY DEF Procs
<1>0. StepOf(d) /\ pc[d] = "inbox" /\ pc'[d] \in {"find_key", "done"}
      /\ UNCHANGED <<database, locks, draft, replaying, workerVars>>
  BY DEF TryInsertInbox, TypeOK, Goto, StepOf, workerVars
<1>1. TypeOK'
  <2>1. pc' = [pc EXCEPT ![d] = pc'[d]]
    BY DEF TryInsertInbox, TypeOK, Goto
  <2>2. answer' \in [Deliveries -> Answers]
    <3>1. CASE UNCHANGED answer
      BY <3>1 DEF TypeOK
    <3>2. CASE Tell(d, "already_seen", None, None)
      BY <3>2, TellType DEF AnswerKinds
    <3> QED
      BY <3>1, <3>2 DEF TryInsertInbox
  <2> QED
    BY ZenonT(30), <1>0, <2>1, <2>2 DEF TypeOK, Procs, DeliverySteps, NameAssumption, database, locks, workerVars
<1>2. ProcessesOK'
  BY <1>0, ProcessesFrame DEF Inserted, NameAssumption, database
<1>3. PresentAreUnique'
  BY <1>0, UniqueFrame DEF Present, HasRow, Inserted, StepOf, Procs, database
<1>4. MoneyInFlight'
  BY <1>0, MoneyFrame DEF database, locks
<1>5. LedgerIsHistory'
  BY <1>0, LedgerFrame DEF database
<1> QED
  BY <1>1, <1>2, <1>3, <1>4, <1>5

LEMMA FindByKeyKeeps ==
  ASSUME RequestAssumption, NameAssumption, IInv, NEW d \in Deliveries, FindByKey(d)
  PROVE IInv'
<1> USE DEF IInv
<1> d \in Procs
  BY DEF Procs
<1>0. /\ pc[d] = "find_key"
      /\ UNCHANGED <<wallets, wagers, ledger, wagerEvents, walletEvents, schedule,
                     locks, draft, replaying, workerVars>>
  BY DEF FindByKey
<1>a. /\ answer' \in [Deliveries -> Answers]
      /\ inbox' \subseteq Messages
      /\ \E step \in {"find_external", "done"} : Goto(d, step)
  <2>1. CASE Goto(d, "find_external") /\ UNCHANGED <<answer, inbox>>
    BY <2>1 DEF TypeOK
  <2>2. CASE \E e \in ByKey(RequestOf[d].key) : AnswerFrom(d, e)
    BY <2>2, AnswerFromType DEF ByKey
  <2> QED
    BY <2>1, <2>2 DEF FindByKey
<1>b. PICK step \in {"find_external", "done"} : Goto(d, step)
  BY <1>a
<1>c. /\ pc' \in [Procs -> DeliverySteps \cup WorkerSteps]
      /\ \A e \in Deliveries : pc'[e] \in DeliverySteps
      /\ \A w \in Workers : pc'[w] \in WorkerSteps
      /\ pc'[d] = step
      /\ \A q \in Procs \ {d} : pc'[q] = pc[q]
  BY <1>b, GotoType DEF DeliverySteps, NameAssumption
<1>d. StepOf(d)
  BY <1>0, <1>c DEF StepOf, workerVars
<1>1. TypeOK'
  BY <1>0, <1>a, <1>c DEF TypeOK, locks, workerVars
<1>2. ProcessesOK'
  BY <1>0, <1>c, <1>d, ProcessesFrame DEF Inserted, NameAssumption
<1>3. PresentAreUnique'
  BY <1>0, <1>c, UniqueFrame DEF Present, HasRow, Inserted, Procs
<1>4. MoneyInFlight'
  BY <1>0, <1>d, MoneyFrame DEF locks
<1>5. LedgerIsHistory'
  BY <1>0, LedgerFrame
<1> QED
  BY <1>1, <1>2, <1>3, <1>4, <1>5

LEMMA FindByExternalKeeps ==
  ASSUME RequestAssumption, NameAssumption, IInv, NEW d \in Deliveries, FindByExternal(d)
  PROVE IInv'
<1> USE DEF IInv
<1> d \in Procs
  BY DEF Procs
<1>0. /\ pc[d] = "find_external"
      /\ UNCHANGED <<wallets, wagers, ledger, wagerEvents, walletEvents, schedule,
                     locks, draft, replaying, workerVars>>
  BY DEF FindByExternal
<1>a. /\ answer' \in [Deliveries -> Answers]
      /\ inbox' \subseteq Messages
      /\ \E step \in {"insert", "done"} : Goto(d, step)
  <2>1. CASE /\ Goto(d, IF replaying[d] THEN "done" ELSE "insert")
             /\ IF replaying[d] THEN Tell(d, "not_found_after_race", None, None)
                                ELSE UNCHANGED answer
             /\ UNCHANGED inbox
    <3>1. CASE replaying[d]
      BY <2>1, <3>1, TellType DEF TypeOK, AnswerKinds
    <3>2. CASE ~replaying[d]
      BY <2>1, <3>2 DEF TypeOK
    <3> QED
      BY <3>1, <3>2
  <2>2. CASE \E e \in ByExternal(RequestOf[d].external) : AnswerFrom(d, e)
    BY <2>2, AnswerFromType DEF ByExternal
  <2>3. CASE \E e \in ByExternal(RequestOf[d].external) :
               Goto(d, "done") /\ Tell(d, "external_conflict", e, None) /\ UNCHANGED inbox
    BY <2>3, TellType DEF ByExternal, TypeOK, AnswerKinds
  <2> QED
    BY <2>1, <2>2, <2>3 DEF FindByExternal
<1>b. PICK step \in {"insert", "done"} : Goto(d, step)
  BY <1>a
<1>c. /\ pc' \in [Procs -> DeliverySteps \cup WorkerSteps]
      /\ \A e \in Deliveries : pc'[e] \in DeliverySteps
      /\ \A w \in Workers : pc'[w] \in WorkerSteps
      /\ pc'[d] = step
      /\ \A q \in Procs \ {d} : pc'[q] = pc[q]
  BY <1>b, GotoType DEF DeliverySteps, NameAssumption
<1>d. StepOf(d)
  BY <1>0, <1>c DEF StepOf, workerVars
<1>1. TypeOK'
  BY <1>0, <1>a, <1>c DEF TypeOK, locks, workerVars
<1>2. ProcessesOK'
  BY <1>0, <1>c, <1>d, ProcessesFrame DEF Inserted, NameAssumption
<1>3. PresentAreUnique'
  BY <1>0, <1>c, UniqueFrame DEF Present, HasRow, Inserted, Procs
<1>4. MoneyInFlight'
  BY <1>0, <1>d, MoneyFrame DEF locks
<1>5. LedgerIsHistory'
  BY <1>0, LedgerFrame
<1> QED
  BY <1>1, <1>2, <1>3, <1>4, <1>5

LEMMA RefuseWalletKeeps ==
  ASSUME RequestAssumption, NameAssumption, IInv, NEW d \in Deliveries, RefuseWallet(d)
  PROVE IInv'
<1> USE DEF IInv
<1> d \in Procs
  BY DEF Procs
<1>0. /\ pc[d] = "insert"
      /\ Goto(d, "done")
      /\ UNCHANGED <<database, locks, draft, replaying, workerVars>>
  BY DEF RefuseWallet
<1>a. answer' \in [Deliveries -> Answers]
  BY TellType DEF RefuseWallet, AnswerKinds
<1>c. /\ pc' \in [Procs -> DeliverySteps \cup WorkerSteps]
      /\ \A e \in Deliveries : pc'[e] \in DeliverySteps
      /\ \A w \in Workers : pc'[w] \in WorkerSteps
      /\ pc'[d] = "done"
      /\ \A q \in Procs \ {d} : pc'[q] = pc[q]
  BY <1>0, GotoType DEF DeliverySteps, NameAssumption
<1>d. StepOf(d)
  BY <1>0, <1>c DEF StepOf, workerVars
<1>1. TypeOK'
  BY <1>0, <1>a, <1>c DEF TypeOK, database, locks, workerVars
<1>2. ProcessesOK'
  BY <1>0, <1>c, <1>d, ProcessesFrame DEF Inserted, NameAssumption, database
<1>3. PresentAreUnique'
  BY <1>0, <1>c, UniqueFrame DEF Present, HasRow, Inserted, Procs, database
<1>4. MoneyInFlight'
  BY <1>0, <1>d, MoneyFrame DEF locks, database
<1>5. LedgerIsHistory'
  BY <1>0, LedgerFrame DEF database
<1> QED
  BY <1>1, <1>2, <1>3, <1>4, <1>5

LEMMA LoseRaceKeeps ==
  ASSUME RequestAssumption, NameAssumption, IInv, NEW d \in Deliveries, LoseRace(d)
  PROVE IInv'
<1> USE DEF IInv
<1> d \in Procs
  BY DEF Procs
<1>0. /\ pc[d] = "insert"
      /\ Goto(d, "find_key")
      /\ replaying' = [replaying EXCEPT ![d] = TRUE]
      /\ UNCHANGED <<database, locks, draft, answer, workerVars>>
  BY DEF LoseRace, MayInsert
<1>c. /\ pc' \in [Procs -> DeliverySteps \cup WorkerSteps]
      /\ \A e \in Deliveries : pc'[e] \in DeliverySteps
      /\ \A w \in Workers : pc'[w] \in WorkerSteps
      /\ pc'[d] = "find_key"
      /\ \A q \in Procs \ {d} : pc'[q] = pc[q]
  BY <1>0, GotoType DEF DeliverySteps, NameAssumption
<1>d. StepOf(d)
  BY <1>0, <1>c DEF StepOf, workerVars
<1>1. TypeOK'
  BY <1>0, <1>c DEF TypeOK, database, locks, workerVars
<1>2. ProcessesOK'
  BY <1>0, <1>c, <1>d, ProcessesFrame DEF Inserted, NameAssumption, database
<1>3. PresentAreUnique'
  BY <1>0, <1>c, UniqueFrame DEF Present, HasRow, Inserted, Procs, database
<1>4. MoneyInFlight'
  BY <1>0, <1>d, MoneyFrame DEF locks, database
<1>5. LedgerIsHistory'
  BY <1>0, LedgerFrame DEF database
<1> QED
  BY <1>1, <1>2, <1>3, <1>4, <1>5

LEMMA CreateKeeps ==
  ASSUME RequestAssumption, NameAssumption, IInv, NEW d \in Deliveries, Create(d)
  PROVE IInv'
<1> USE DEF IInv
<1> d \in Procs
  BY DEF Procs
<1>0. /\ pc[d] = "insert"
      /\ RequestOf[d].wallet # None
      /\ \A e \in Deliveries \ {d} : ~(Inserted(e) /\ SameIdentity(d, e))
      /\ \A e \in Deliveries : ~(HasRow(e) /\ SameIdentity(d, e))
      /\ draft' = [draft EXCEPT ![d] = NewRow]
      /\ \E step \in {"lock_ref", "move", "loss"} : Goto(d, step)
      /\ UNCHANGED <<database, locks, deliveryVars, workerVars>>
  BY DEF Create, MayInsert, IdentityTaken, HasRow
<1>a. RequestOf[d].wallet \in Wallets
  BY <1>0 DEF RequestAssumption, Requests
<1>b. NewRow \in Rows
  BY DEF NewRow, Rows, Statuses
<1>c. PICK step \in {"lock_ref", "move", "loss"} : Goto(d, step)
  BY <1>0
<1>d. /\ pc' \in [Procs -> DeliverySteps \cup WorkerSteps]
      /\ \A e \in Deliveries : pc'[e] \in DeliverySteps
      /\ \A w \in Workers : pc'[w] \in WorkerSteps
      /\ pc'[d] = step
      /\ \A q \in Procs \ {d} : pc'[q] = pc[q]
  BY <1>c, GotoType DEF DeliverySteps, NameAssumption
<1>e. /\ draft' \in [Procs -> Rows \cup {None}]
      /\ draft'[d] = NewRow
      /\ \A q \in Procs \ {d} : draft'[q] = draft[q]
  BY <1>0, <1>b, DraftType
<1>f. StepOf(d)
  BY <1>0, <1>d, <1>e DEF StepOf, workerVars
<1>1. TypeOK'
  BY <1>0, <1>d, <1>e DEF TypeOK, database, locks, deliveryVars, workerVars
<1>2. ProcessesOK'
  BY <1>0, <1>a, <1>b, <1>d, <1>e, <1>f, ProcessesFrame DEF NameAssumption, database
<1>3. PresentAreUnique'
  <2>1. \A e \in Deliveries \ {d} : Present(e)' => Present(e)
    BY <1>0, <1>d DEF Present, HasRow, Inserted, Procs, database
  <2>2. \A e \in Deliveries \ {d} : Present(e) => ~SameIdentity(d, e) /\ ~SameIdentity(e, d)
    BY <1>0 DEF Present, SameIdentity
  <2> QED
    BY <2>1, <2>2 DEF PresentAreUnique, SameIdentity
<1>4. MoneyInFlight'
  BY <1>0, <1>f, MoneyFrame DEF locks, database
<1>5. LedgerIsHistory'
  BY <1>0, LedgerFrame DEF database
<1> QED
  BY <1>1, <1>2, <1>3, <1>4, <1>5

\* A process that only decides what becomes of its entity disturbs nothing.
LEMMA DecidingKeeps ==
  ASSUME RequestAssumption, NameAssumption, IInv, NEW p \in Procs, NEW row \in Rows,
         NEW step \in {"move", "finish"},
         pc[p] \in {"loss", "lock_ref", "move"}, Goto(p, step),
         draft' = [draft EXCEPT ![p] = row],
         rowLock' \in [Deliveries -> Procs \cup {None}],
         UNCHANGED <<database, walletLock, deliveryVars, workerVars>>
  PROVE  IInv'
<1> USE DEF IInv
<1>a. /\ pc' \in [Procs -> DeliverySteps \cup WorkerSteps]
      /\ \A e \in Deliveries : pc'[e] \in DeliverySteps
      /\ \A w \in Workers : pc'[w] \in WorkerSteps
      /\ pc'[p] = step
      /\ \A q \in Procs \ {p} : pc'[q] = pc[q]
  BY GotoType DEF DeliverySteps, WorkerSteps
<1>b. /\ draft' \in [Procs -> Rows \cup {None}]
      /\ draft'[p] = row
      /\ \A q \in Procs \ {p} : draft'[q] = draft[q]
  BY DraftType
<1>c. StepOf(p)
  BY <1>a, <1>b DEF StepOf, workerVars
<1>1. TypeOK'
  BY <1>a, <1>b DEF TypeOK, database, deliveryVars, workerVars
<1>2. ProcessesOK'
  <2>1. p \in Deliveries => Inserted(p)
    BY DEF Inserted
  <2>2. p \in Workers => pc[p] # "idle"
    OBVIOUS
  <2>3. UNCHANGED <<wagers, claim, batch>>
    BY DEF database, workerVars
  <2> QED
    BY <1>b, <1>c, <2>1, <2>2, <2>3, ProcessesFrame DEF ProcessesOK, HasRow
<1>3. PresentAreUnique'
  BY <1>a, UniqueFrame DEF Present, HasRow, Inserted, Procs, database
<1>4. MoneyInFlight'
  BY <1>c, MoneyFrame DEF database
<1>5. LedgerIsHistory'
  BY LedgerFrame DEF database
<1> QED
  BY <1>1, <1>2, <1>3, <1>4, <1>5

LEMMA ApplyLossKeeps ==
  ASSUME RequestAssumption, NameAssumption, IInv, NEW d \in Deliveries, ApplyLoss(d)
  PROVE IInv'
<1> DEFINE row == [draft[d] EXCEPT !.status = "PROCESSED", !.result = wallets[RequestOf[d].wallet].balance]
<1>1. draft[d] \in Rows /\ RequestOf[d].wallet \in Wallets
  BY DEF ApplyLoss, IInv, ProcessesOK, Inserted
<1>2. row \in Rows
  BY <1>1 DEF Rows, Statuses, IInv, TypeOK
<1>3. draft' = [draft EXCEPT ![d] = row]
  BY DEF ApplyLoss, IInv, TypeOK, Procs
<1> HIDE DEF row
<1> QED
  BY <1>2, <1>3, DecidingKeeps DEF ApplyLoss, Procs, IInv, TypeOK, locks

LEMMA ReferenceMissingKeeps ==
  ASSUME RequestAssumption, NameAssumption, IInv, NEW p \in Procs, ReferenceMissing(p)
  PROVE IInv'
<1> DEFINE row == [draft[p] EXCEPT !.status = "PENDING_REFERENCE"]
<1>1. draft[p] \in Rows
  BY Working DEF ReferenceMissing, IInv
<1>2. row \in Rows
  BY <1>1 DEF Rows, Statuses
<1>3. draft' = [draft EXCEPT ![p] = row]
  BY DEF ReferenceMissing, IInv, TypeOK
<1> HIDE DEF row
<1> QED
  BY <1>2, <1>3, DecidingKeeps DEF ReferenceMissing, IInv, TypeOK, locks

LEMMA LockReferenceKeeps ==
  ASSUME RequestAssumption, NameAssumption, IInv, NEW p \in Procs, LockReference(p)
  PROVE IInv'
<1>0. pc[p] = "lock_ref" /\ UNCHANGED <<database, walletLock, deliveryVars, workerVars>>
  BY DEF LockReference
<1>1. draft[p] \in Rows
  BY <1>0, Working DEF IInv
<1>2. PICK r \in Deliveries : rowLock' = [rowLock EXCEPT ![r] = p] /\
        \E row \in Rows : \E step \in {"move", "finish"} :
          draft' = [draft EXCEPT ![p] = row] /\ Goto(p, step)
  <2>1. PICK r \in Referenced(p) :
          LET broken == CheckReferenceRules(RequestAt(p), RequestOf[r])
              resolved == [draft[p] EXCEPT !.ref = r]
          IN  /\ rowLock' = [rowLock EXCEPT ![r] = p]
              /\ \/ \E status \in Statuses : \E code \in FailureCodes \cup {None} :
                      /\ draft' = [draft EXCEPT ![p] = [resolved EXCEPT !.status = status, !.code = code]]
                      /\ Goto(p, "finish")
                 \/ draft' = [draft EXCEPT ![p] = resolved] /\ Goto(p, "move")
    BY RulesHaveCodes DEF LockReference, Statuses, FailureCodes
  <2>2. r \in Deliveries
    BY DEF Referenced
  <2>3. [draft[p] EXCEPT !.ref = r] \in Rows
    BY <1>1, <2>2 DEF Rows
  <2>4. \A status \in Statuses : \A code \in FailureCodes \cup {None} :
          [[draft[p] EXCEPT !.ref = r] EXCEPT !.status = status, !.code = code] \in Rows
    BY <2>3 DEF Rows
  <2> QED
    BY <2>1, <2>2, <2>3, <2>4
<1>3. rowLock' \in [Deliveries -> Procs \cup {None}]
  BY <1>2 DEF IInv, TypeOK
<1>4. PICK row \in Rows, step \in {"move", "finish"} :
        draft' = [draft EXCEPT ![p] = row] /\ Goto(p, step)
  BY <1>2
<1> QED
  BY ZenonT(30), <1>0, <1>3, <1>4, DecidingKeeps

LEMMA DebitRefusedKeeps ==
  ASSUME RequestAssumption, NameAssumption, IInv, NEW p \in Procs, DebitRefused(p)
  PROVE IInv'
<1> DEFINE row == [draft[p] EXCEPT !.status = "REJECTED", !.code = InsufficientCode(RequestAt(p).kind)]
<1>1. draft[p] \in Rows
  BY Working DEF DebitRefused, IInv
<1>2. row \in Rows
  BY <1>1 DEF Rows, Statuses, FailureCodes, InsufficientCode
<1>3. draft' = [draft EXCEPT ![p] = row]
  BY DEF DebitRefused, Reject, IInv, TypeOK
<1> HIDE DEF row
<1> QED
  BY <1>2, <1>3, DecidingKeeps DEF DebitRefused, IInv, TypeOK, locks

LEMMA MoveMoneyKeeps ==
  ASSUME RequestAssumption, NameAssumption, IInv, NEW p \in Procs, MoveMoney(p)
  PROVE IInv'
<1> USE DEF IInv
<1> DEFINE w == RequestAt(p).wallet
           after == BalanceAfter(Direction(p), wallets[w].balance, RequestAt(p).amount)
           row == [draft[p] EXCEPT !.status = "PROCESSED", !.result = after]
<1>0. /\ pc[p] = "move"
      /\ Goto(p, "finish")
      /\ walletLock[w] = None
      /\ walletLock' = [walletLock EXCEPT ![w] = p]
      /\ UNCHANGED <<database, rowLock, deliveryVars, workerVars>>
  BY DEF MoveMoney
<1>1. /\ draft[p] \in Rows
      /\ w \in Wallets
  BY <1>0, Working
<1>2. after \in Nat
  BY SufficientStaysNatural DEF MoveMoney
<1>3. row \in Rows /\ row.result = after /\ row.ref = draft[p].ref
  BY <1>1, <1>2 DEF Rows, Statuses
<1>4. draft' = [draft EXCEPT ![p] = row]
  BY DEF MoveMoney, TypeOK
<1> HIDE DEF row
<1>a. /\ pc' \in [Procs -> DeliverySteps \cup WorkerSteps]
      /\ \A e \in Deliveries : pc'[e] \in DeliverySteps
      /\ \A v \in Workers : pc'[v] \in WorkerSteps
      /\ pc'[p] = "finish"
      /\ \A q \in Procs \ {p} : pc'[q] = pc[q]
  BY <1>0, GotoType DEF DeliverySteps, WorkerSteps
<1>b. /\ draft' \in [Procs -> Rows \cup {None}]
      /\ draft'[p] = row
      /\ \A q \in Procs \ {p} : draft'[q] = draft[q]
  BY <1>3, <1>4, DraftType
<1>c. StepOf(p)
  BY <1>0, <1>a, <1>b DEF StepOf, workerVars
<1>5. TypeOK'
  <2>1. walletLock' \in [Wallets -> Procs \cup {None}]
    BY <1>0 DEF TypeOK
  <2> QED
    BY <1>0, <1>a, <1>b, <2>1 DEF TypeOK, database, deliveryVars, workerVars
<1>6. ProcessesOK'
  <2>1. p \in Deliveries => Inserted(p)
    BY <1>0 DEF Inserted
  <2>2. UNCHANGED <<wagers, claim, batch>>
    BY <1>0 DEF database, workerVars
  <2> QED
    BY <1>0, <1>3, <1>b, <1>c, <2>1, <2>2, ProcessesFrame DEF ProcessesOK, HasRow
<1>7. PresentAreUnique'
  BY <1>0, <1>a, UniqueFrame DEF Present, HasRow, Inserted, Procs, database
<1>8. MoneyInFlight'
  <2> SUFFICES ASSUME NEW v \in Wallets, NEW q \in Procs, walletLock'[v] = q
      PROVE  /\ pc'[q] = "finish"
             /\ RequestAt(q)'.wallet = v
             /\ draft'[q].result = BalanceAfter(Direction(q)', wallets'[v].balance, RequestAt(q)'.amount)
             /\ draft'[q].result \in Nat
    BY DEF MoneyInFlight
  <2>0. wallets' = wallets /\ claim' = claim
    BY <1>0 DEF database, workerVars
  <2>1. CASE v = w
    <3>1. q = p
      BY <1>0, <1>1, <2>1 DEF TypeOK
    <3>2. RequestAt(p)' = RequestAt(p)
      BY <2>0 DEF RequestAt, Own
    <3>3. RefKind(p)' = RefKind(p)
      BY <1>3, <1>b DEF RefKind
    <3>4. Direction(p)' = Direction(p)
      BY <3>2, <3>3 DEF Direction, MovementDirection, NeedsReference, IsReversal
    <3> QED
      BY <1>2, <1>3, <1>a, <1>b, <2>0, <2>1, <3>1, <3>2, <3>4
  <2>2. CASE v # w
    <3>1. walletLock[v] = q
      BY <1>0, <2>2 DEF TypeOK
    <3>2. q # p
      BY <1>0, <3>1 DEF MoneyInFlight
    <3> QED
      BY <1>a, <1>b, <2>0, <3>1, <3>2, MoneyOf
  <2> QED
    BY <2>1, <2>2
<1>9. LedgerIsHistory'
  BY <1>0, LedgerFrame DEF database
<1> QED
  BY <1>5, <1>6, <1>7, <1>8, <1>9

-----------------------------------------------------------------------------
(* The end of a transaction. *)

LEMMA ReleasedTypes ==
  ASSUME TypeOK, NEW p
  PROVE  /\ Released(p, rowLock) \in [Deliveries -> Procs \cup {None}]
         /\ Released(p, walletLock) \in [Wallets -> Procs \cup {None}]
  BY DEF Released, TypeOK

\* Whoever ends a transaction leaves the money in flight with the others alone.
LEMMA MoneyReleased ==
  ASSUME NameAssumption, TypeOK, MoneyInFlight, NEW p \in Procs, StepOf(p),
         walletLock' = Released(p, walletLock),
         \A w \in Wallets : walletLock[w] # p => wallets'[w] = wallets[w]
  PROVE  MoneyInFlight'
<1> SUFFICES ASSUME NEW w \in Wallets, NEW q \in Procs, walletLock'[w] = q
    PROVE  /\ pc'[q] = "finish"
           /\ RequestAt(q)'.wallet = w
           /\ draft'[q].result = BalanceAfter(Direction(q)', wallets'[w].balance, RequestAt(q)'.amount)
           /\ draft'[q].result \in Nat
  BY DEF MoneyInFlight
<1>1. walletLock[w] = q /\ q # p
  <2>1. walletLock'[w] = IF walletLock[w] = p THEN None ELSE walletLock[w]
    BY DEF Released, TypeOK
  <2> QED
    BY <2>1 DEF NameAssumption, Procs
<1>2. pc'[q] = pc[q] /\ draft'[q] = draft[q] /\ (q \in Workers => claim'[q] = claim[q])
  BY <1>1 DEF StepOf
<1> QED
  BY <1>1, <1>2, MoneyOf

\* The entry a transaction adds starts at the balance it found.
LEMMA NewEntryFits ==
  ASSUME RequestAssumption, NameAssumption, IInv, NEW p \in Procs, pc[p] = "finish", Moved(p)
  PROVE  LET w == RequestAt(p).wallet
         IN  /\ NewEntry(p) \in Entries
             /\ NewEntry(p).before = wallets[w].balance
             /\ NewEntry(p).after = draft[p].result
             /\ NewEntry(p).after =
                  BalanceAfter(NewEntry(p).direction, NewEntry(p).before, NewEntry(p).amount)
             /\ draft[p].result \in Nat
<1> DEFINE w == RequestAt(p).wallet
<1>1. w \in Wallets /\ Own(p) \in Deliveries /\ RequestAt(p).amount \in Nat
  BY Working DEF IInv, Requests
<1>2. wallets[w].balance \in Nat
  BY <1>1 DEF IInv, TypeOK
<1>3. /\ draft[p].result = BalanceAfter(Direction(p), wallets[w].balance, RequestAt(p).amount)
      /\ draft[p].result \in Nat
  BY <1>1 DEF Moved, IInv, MoneyInFlight
<1>4. Direction(p) \in Directions
  BY DEF Direction, MovementDirection, Directions
<1>5. BalanceBefore(Direction(p), draft[p].result, RequestAt(p).amount) = wallets[w].balance
  BY <1>1, <1>2, <1>3 DEF BalanceAfter, BalanceBefore
<1> DEFINE entry == NewEntry(p)
<1>6. /\ entry.wager = Own(p) /\ entry.direction = Direction(p)
      /\ entry.amount = RequestAt(p).amount
      /\ entry.before = wallets[w].balance /\ entry.after = draft[p].result
  BY <1>5 DEF NewEntry
<1>7. entry \in Entries
  BY <1>1, <1>2, <1>3, <1>4, <1>5 DEF NewEntry, Entries
<1> QED
  BY <1>3, <1>6, <1>7

LEMMA CommitLedger ==
  ASSUME RequestAssumption, NameAssumption, IInv, NEW p \in Procs, Commit(p)
  PROVE  LedgerIsHistory' /\ wallets' \in [Wallets -> [balance : Nat, version : Nat]]
         /\ ledger' \in [Wallets -> Seq(Entries)]
         /\ \A v \in Wallets : walletLock[v] # p => wallets'[v] = wallets[v]
<1> DEFINE w == RequestAt(p).wallet
<1>0. pc[p] = "finish" /\ w \in Wallets
  BY Working DEF Commit, IInv
<1>1. CASE ~Moved(p)
  <2>1. UNCHANGED <<wallets, ledger>>
    BY <1>1 DEF Commit
  <2> QED
    BY <2>1, LedgerFrame DEF IInv, TypeOK
<1>2. CASE Moved(p)
  <2> DEFINE entry == NewEntry(p)
             L == Len(ledger[w])
  <2>1. /\ wallets' = [wallets EXCEPT ![w] = [balance |-> draft[p].result, version |-> @.version + 1]]
        /\ ledger' = [ledger EXCEPT ![w] = Append(@, entry)]
    BY <1>2 DEF Commit
  <2>2. /\ entry \in Entries
        /\ entry.before = wallets[w].balance
        /\ entry.after = draft[p].result
        /\ entry.after = BalanceAfter(entry.direction, entry.before, entry.amount)
        /\ draft[p].result \in Nat
    BY <1>0, <1>2, NewEntryFits
  <2> HIDE DEF entry
  <2>3. wallets \in [Wallets -> [balance : Nat, version : Nat]] /\ ledger \in [Wallets -> Seq(Entries)]
    BY DEF IInv, TypeOK
  <2>4. wallets' \in [Wallets -> [balance : Nat, version : Nat]]
    BY <1>0, <2>1, <2>2, <2>3
  <2>5. ledger' \in [Wallets -> Seq(Entries)]
    BY <1>0, <2>1, <2>2, <2>3
  <2>6. \A v \in Wallets \ {w} : wallets'[v] = wallets[v] /\ ledger'[v] = ledger[v]
    BY <1>0, <2>1, <2>3
  <2>7. wallets'[w].balance = entry.after /\ ledger'[w] = Append(ledger[w], entry)
    BY <1>0, <2>1, <2>2, <2>3
  <2>8. walletLock[w] = p
    BY <1>2 DEF Moved
  <2>9. ledger[w] \in Seq(Entries) /\ L \in Nat
    BY <1>0, <2>3
  <2>10. /\ Len(ledger'[w]) = L + 1
         /\ \A i \in 1..L : ledger'[w][i] = ledger[w][i]
         /\ ledger'[w][L + 1] = entry
    BY <2>2, <2>7, <2>9
  <2>11. LedgerIsHistory'
    <3> SUFFICES ASSUME NEW v \in Wallets
        PROVE  LET entries == ledger'[v]
                   ended(i) == IF i = 0 THEN 0 ELSE entries[i].after
               IN  /\ \A i \in 1..Len(entries) :
                        /\ entries[i].before = ended(i - 1)
                        /\ entries[i].after =
                             BalanceAfter(entries[i].direction, entries[i].before, entries[i].amount)
                   /\ wallets'[v].balance = ended(Len(entries))
      BY DEF LedgerIsHistory
    <3>1. CASE v # w
      BY <2>6, <3>1 DEF IInv, LedgerIsHistory
    <3>2. CASE v = w
      <4>1. \A i \in 1..L :
              /\ ledger'[w][i].before = IF i - 1 = 0 THEN 0 ELSE ledger'[w][i - 1].after
              /\ ledger'[w][i].after =
                   BalanceAfter(ledger'[w][i].direction, ledger'[w][i].before, ledger'[w][i].amount)
        <5> TAKE i \in 1..L
        <5>1. ledger'[w][i] = ledger[w][i]
          BY <2>10
        <5>2. i - 1 # 0 => ledger'[w][i - 1] = ledger[w][i - 1]
          BY <2>9, <2>10
        <5>3. /\ ledger[w][i].before = IF i - 1 = 0 THEN 0 ELSE ledger[w][i - 1].after
              /\ ledger[w][i].after =
                   BalanceAfter(ledger[w][i].direction, ledger[w][i].before, ledger[w][i].amount)
          BY <1>0 DEF IInv, LedgerIsHistory
        <5> QED
          BY <5>1, <5>2, <5>3
      <4>2. /\ entry.before = IF L = 0 THEN 0 ELSE ledger'[w][L].after
        <5>1. wallets[w].balance = IF L = 0 THEN 0 ELSE ledger[w][L].after
          BY <1>0 DEF IInv, LedgerIsHistory
        <5> QED
          BY SMTT(30), <5>1, <2>2, <2>9, <2>10
      <4>3. 1..(L + 1) = 1..L \cup {L + 1} /\ L + 1 # 0 /\ (L + 1) - 1 = L
        BY <2>9
      <4>4. wallets'[w].balance = ledger'[w][L + 1].after
        BY <2>7, <2>10
      <4> HIDE DEF L
      <4>5. \A i \in 1..Len(ledger'[w]) :
              /\ ledger'[w][i].before = IF i - 1 = 0 THEN 0 ELSE ledger'[w][i - 1].after
              /\ ledger'[w][i].after =
                   BalanceAfter(ledger'[w][i].direction, ledger'[w][i].before, ledger'[w][i].amount)
        BY <2>2, <2>10, <4>1, <4>2, <4>3
      <4> QED
        BY <2>10, <3>2, <4>3, <4>4, <4>5
    <3> QED
      BY <3>1, <3>2
  <2> QED
    BY <2>4, <2>5, <2>6, <2>8, <2>11
<1> QED
  BY <1>1, <1>2

LEMMA CommitTypes ==
  ASSUME RequestAssumption, NameAssumption, IInv, NEW p \in Procs, Commit(p)
  PROVE  /\ wagers' = [wagers EXCEPT ![Own(p)] = draft[p]]
         /\ wagers' \in [Deliveries -> Rows \cup {None}]
         /\ wagerEvents' \in [Deliveries -> Seq(EventKinds)]
         /\ walletEvents' \in [Wallets -> Seq(Nat)]
         /\ schedule' \in [Deliveries -> Schedules]
         /\ rowLock' \in [Deliveries -> Procs \cup {None}]
         /\ walletLock' \in [Wallets -> Procs \cup {None}]
<1>1. /\ draft[p] \in Rows /\ Own(p) \in Deliveries /\ RequestAt(p).wallet \in Wallets
  BY Working DEF Commit, IInv
<1>2. wagers' = [wagers EXCEPT ![Own(p)] = draft[p]] /\ wagers' \in [Deliveries -> Rows \cup {None}]
  BY <1>1 DEF Commit, IInv, TypeOK
<1>3. wagerEvents' \in [Deliveries -> Seq(EventKinds)]
  <2>1. NewEvents(p) \in Seq(EventKinds)
    <3>1. <<"Processed">> \in Seq(EventKinds)
      BY DEF EventKinds
    <3>2. <<"Rejected">> \in Seq(EventKinds)
      BY DEF EventKinds
    <3>3. <<"PendingReference">> \in Seq(EventKinds)
      BY DEF EventKinds
    <3>4. <<>> \in Seq(EventKinds)
      OBVIOUS
    <3> QED
      BY <3>1, <3>2, <3>3, <3>4 DEF NewEvents
  <2>2. wagerEvents[Own(p)] \in Seq(EventKinds)
    BY <1>1 DEF IInv, TypeOK
  <2>3. wagerEvents[Own(p)] \o NewEvents(p) \in Seq(EventKinds)
    BY <2>1, <2>2
  <2>4. wagerEvents' = [wagerEvents EXCEPT ![Own(p)] = wagerEvents[Own(p)] \o NewEvents(p)]
    BY DEF Commit
  <2> QED
    BY <2>3, <2>4 DEF IInv, TypeOK
<1>4. walletEvents' \in [Wallets -> Seq(Nat)]
  <2> DEFINE w == RequestAt(p).wallet
  <2>1. wallets[w].version + 1 \in Nat
    BY <1>1 DEF IInv, TypeOK
  <2>2. Announced(p) \in Seq(Nat)
    BY <2>1 DEF Announced
  <2>3. walletEvents[w] \o Announced(p) \in Seq(Nat)
    BY <1>1, <2>2 DEF IInv, TypeOK
  <2>4. walletEvents' = [walletEvents EXCEPT ![w] = walletEvents[w] \o Announced(p)]
    BY DEF Commit
  <2> QED
    BY <2>3, <2>4 DEF IInv, TypeOK
<1>5. schedule' \in [Deliveries -> Schedules]
  <2>1. schedule[Own(p)] \in Schedules
    BY <1>1 DEF IInv, TypeOK
  <2>2. NextDue(p) \in BOOLEAN
    BY <2>1 DEF NextDue, Schedules
  <2>3. [schedule[Own(p)] EXCEPT !.due = NextDue(p)] \in Schedules
    BY <2>1, <2>2 DEF Schedules
  <2>4. schedule' = [schedule EXCEPT ![Own(p)] = [schedule[Own(p)] EXCEPT !.due = NextDue(p)]]
    BY DEF Commit
  <2> QED
    BY <2>3, <2>4 DEF IInv, TypeOK
<1>6. rowLock' \in [Deliveries -> Procs \cup {None}] /\ walletLock' \in [Wallets -> Procs \cup {None}]
  BY ReleasedTypes DEF Commit, IInv
<1> QED
  BY <1>2, <1>3, <1>4, <1>5, <1>6

\* Who commits had its operation among those present, so nothing new appears.
LEMMA CommitPresence ==
  ASSUME RequestAssumption, NameAssumption, AbsentAssumption, IInv, NEW p \in Procs, Commit(p),
         StepOf(p), pc'[p] \in {"done", "ack"}
  PROVE  /\ PresentAreUnique'
         /\ \A d \in Deliveries : HasRow(d)' <=> HasRow(d) \/ d = Own(p)
<1>1. draft[p] \in Rows /\ draft[p] # None /\ Own(p) \in Deliveries /\ Present(Own(p))
  BY Working DEF Commit, IInv, AbsentAssumption
<1>2. \A d \in Deliveries : HasRow(d)' <=> HasRow(d) \/ d = Own(p)
  BY <1>1, CommitTypes DEF HasRow, IInv, TypeOK
<1>3. \A d \in Deliveries : Inserted(d)' => Inserted(d)
  BY DEF StepOf, Inserted, Procs
<1>4. \A d \in Deliveries : Present(d)' => Present(d)
  BY <1>1, <1>2, <1>3 DEF Present
<1> QED
  BY <1>2, <1>4, UniqueFrame DEF IInv

LEMMA FinishDeliveryKeeps ==
  ASSUME RequestAssumption, NameAssumption, AbsentAssumption, IInv,
         NEW d \in Deliveries, FinishDelivery(d)
  PROVE IInv'
<1> USE DEF IInv
<1> d \in Procs
  BY DEF Procs
<1>0. /\ Commit(d) /\ CommitInbox(d) /\ Goto(d, "done")
      /\ Tell(d, "created", d, draft[d])
      /\ draft' = [draft EXCEPT ![d] = None]
      /\ UNCHANGED <<replaying, workerVars>>
  BY DEF FinishDelivery
<1>1. pc[d] = "finish" /\ walletLock' = Released(d, walletLock)
  BY <1>0 DEF Commit
<1>2. Own(d) = d /\ RequestOf[d].wallet \in Wallets /\ draft[d] \in Rows
  BY <1>1 DEF Own, ProcessesOK, Inserted
<1>3. /\ pc' \in [Procs -> DeliverySteps \cup WorkerSteps]
      /\ \A e \in Deliveries : pc'[e] \in DeliverySteps
      /\ \A w \in Workers : pc'[w] \in WorkerSteps
      /\ pc'[d] = "done"
      /\ \A q \in Procs \ {d} : pc'[q] = pc[q]
  BY <1>0, GotoType DEF DeliverySteps, NameAssumption
<1>4. /\ draft' \in [Procs -> Rows \cup {None}]
      /\ \A q \in Procs \ {d} : draft'[q] = draft[q]
  BY <1>0, DraftType
<1>5. StepOf(d)
  BY <1>0, <1>3, <1>4 DEF StepOf, workerVars
<1>6. /\ PresentAreUnique'
      /\ \A e \in Deliveries : HasRow(e)' <=> HasRow(e) \/ e = d
  BY <1>0, <1>2, <1>3, <1>5, CommitPresence
<1>7. TypeOK'
  <2>1. answer' \in [Deliveries -> Answers]
    BY <1>0, <1>2, TellType DEF AnswerKinds
  <2>2. inbox' \subseteq Messages
    BY <1>0, CommitInboxType
  <2> QED
    BY <1>0, <1>3, <1>4, <2>1, <2>2, CommitTypes, CommitLedger DEF TypeOK, workerVars
<1>8. ProcessesOK'
  <2>1. \A e \in Deliveries : HasRow(e)' => pc'[e] = "done" /\ RequestOf[e].wallet \in Wallets
    BY <1>2, <1>3, <1>6 DEF ProcessesOK, Procs
  <2>2. \A e \in Deliveries : Inserted(e)' => draft'[e] \in Rows /\ RequestOf[e].wallet \in Wallets
    BY <1>3, <1>4 DEF ProcessesOK, Inserted, Procs
  <2>3. \A w \in Workers :
          /\ pc'[w] # "idle" => claim'[w] \in Claims /\ HasRow(claim[w].wager)' /\ draft'[w] \in Rows
          /\ \A c \in batch'[w] : HasRow(c.wager)'
    <3> TAKE w \in Workers
    <3>1. pc'[w] = pc[w] /\ draft'[w] = draft[w] /\ claim' = claim /\ batch' = batch
      BY <1>0, <1>3, <1>4 DEF workerVars, NameAssumption, Procs
    <3>2. pc[w] # "idle" => claim[w].wager \in Deliveries
      BY DEF ProcessesOK, Claims
    <3>3. \A c \in batch[w] : c.wager \in Deliveries
      BY DEF TypeOK, Claims
    <3>4. \A e \in Deliveries : HasRow(e) => wagers'[e] # None
      BY <1>6 DEF HasRow
    <3> QED
      BY <3>1, <3>2, <3>3, <3>4 DEF ProcessesOK, HasRow
  <2> QED
    BY <2>1, <2>2, <2>3 DEF ProcessesOK
<1>9. MoneyInFlight'
  BY <1>0, <1>1, <1>5, MoneyReleased, CommitLedger
<1> QED
  BY <1>0, <1>6, <1>7, <1>8, <1>9, CommitLedger

LEMMA FinishRetryKeeps ==
  ASSUME RequestAssumption, NameAssumption, AbsentAssumption, IInv,
         NEW v \in Workers, FinishRetry(v)
  PROVE IInv'
<1> USE DEF IInv
<1> v \in Procs
  BY DEF Procs
<1>0. /\ Commit(v) /\ Goto(v, "ack")
      /\ UNCHANGED <<inbox, draft, deliveryVars, workerVars>>
  BY DEF FinishRetry
<1>1. pc[v] = "finish" /\ walletLock' = Released(v, walletLock)
  BY <1>0 DEF Commit
<1>2. Own(v) = claim[v].wager /\ claim[v] \in Claims /\ HasRow(Own(v)) /\ Own(v) \in Deliveries
  BY <1>1 DEF Own, ProcessesOK, NameAssumption, Claims
<1>3. /\ pc' \in [Procs -> DeliverySteps \cup WorkerSteps]
      /\ \A e \in Deliveries : pc'[e] \in DeliverySteps
      /\ \A w \in Workers : pc'[w] \in WorkerSteps
      /\ pc'[v] = "ack"
      /\ \A q \in Procs \ {v} : pc'[q] = pc[q]
  BY <1>0, GotoType DEF WorkerSteps, NameAssumption
<1>5. StepOf(v)
  BY <1>0, <1>3 DEF StepOf, workerVars
<1>6. /\ PresentAreUnique'
      /\ \A e \in Deliveries : HasRow(e)' <=> HasRow(e) \/ e = Own(v)
  BY <1>0, <1>3, <1>5, CommitPresence
<1>7. TypeOK'
  BY <1>0, <1>3, CommitTypes, CommitLedger DEF TypeOK, deliveryVars, workerVars
<1>8. ProcessesOK'
  <2>0. \A e \in Deliveries : HasRow(e)' <=> HasRow(e)
    BY <1>2, <1>6
  <2>1. \A e \in Deliveries : HasRow(e)' => pc'[e] = "done" /\ RequestOf[e].wallet \in Wallets
    BY <1>3, <2>0 DEF ProcessesOK, Procs, NameAssumption
  <2>2. \A e \in Deliveries : Inserted(e)' => draft'[e] \in Rows /\ RequestOf[e].wallet \in Wallets
    BY <1>0, <1>3 DEF ProcessesOK, Inserted, Procs, NameAssumption
  <2>3. \A w \in Workers :
          /\ pc'[w] # "idle" => claim'[w] \in Claims /\ HasRow(claim[w].wager)' /\ draft'[w] \in Rows
          /\ \A c \in batch'[w] : HasRow(c.wager)'
    <3> TAKE w \in Workers
    <3>1. draft' = draft /\ claim' = claim /\ batch' = batch /\ (pc'[w] # "idle" => pc[w] # "idle")
      BY <1>0, <1>1, <1>3 DEF workerVars, Procs
    <3>2. pc[w] # "idle" => claim[w].wager \in Deliveries
      BY DEF ProcessesOK, Claims
    <3>3. \A c \in batch[w] : c.wager \in Deliveries
      BY DEF TypeOK, Claims
    <3>4. \A e \in Deliveries : HasRow(e) => wagers'[e] # None
      BY <2>0 DEF HasRow
    <3> QED
      BY <3>1, <3>2, <3>3, <3>4 DEF ProcessesOK, HasRow
  <2> QED
    BY <2>1, <2>2, <2>3 DEF ProcessesOK
<1>9. MoneyInFlight'
  BY <1>0, <1>1, <1>5, MoneyReleased, CommitLedger
<1> QED
  BY <1>0, <1>6, <1>7, <1>8, <1>9, CommitLedger

LEMMA FailDeliveryKeeps ==
  ASSUME RequestAssumption, NameAssumption, IInv, NEW d \in Deliveries, FailDelivery(d)
  PROVE IInv'
<1> USE DEF IInv
<1> d \in Procs
  BY DEF Procs
<1>0. /\ pc[d] # "done" /\ Goto(d, "done") /\ Tell(d, "error", None, None)
      /\ draft' = [draft EXCEPT ![d] = None]
      /\ rowLock' = Released(d, rowLock) /\ walletLock' = Released(d, walletLock)
      /\ UNCHANGED <<database, replaying, workerVars>>
  BY DEF FailDelivery
<1>1. /\ pc' \in [Procs -> DeliverySteps \cup WorkerSteps]
      /\ \A e \in Deliveries : pc'[e] \in DeliverySteps
      /\ \A w \in Workers : pc'[w] \in WorkerSteps
      /\ pc'[d] = "done"
      /\ \A q \in Procs \ {d} : pc'[q] = pc[q]
  BY <1>0, GotoType DEF DeliverySteps, NameAssumption
<1>2. /\ draft' \in [Procs -> Rows \cup {None}]
      /\ \A q \in Procs \ {d} : draft'[q] = draft[q]
  BY <1>0, DraftType
<1>3. StepOf(d)
  BY <1>0, <1>1, <1>2 DEF StepOf, workerVars
<1>4. answer' \in [Deliveries -> Answers]
  BY <1>0, TellType DEF AnswerKinds
<1>5. TypeOK'
  BY <1>0, <1>1, <1>2, <1>4, ReleasedTypes DEF TypeOK, database, workerVars
<1>6. ProcessesOK'
  BY <1>0, <1>1, <1>3, ProcessesFrame DEF Inserted, NameAssumption, database
<1>7. PresentAreUnique'
  BY <1>0, <1>1, UniqueFrame DEF Present, HasRow, Inserted, Procs, database
<1>8. MoneyInFlight'
  BY <1>0, <1>3, MoneyReleased DEF database
<1>9. LedgerIsHistory'
  BY <1>0, LedgerFrame DEF database
<1> QED
  BY <1>5, <1>6, <1>7, <1>8, <1>9

-----------------------------------------------------------------------------
(* The workers. *)

LEMMA AbandonClaimKeeps ==
  ASSUME RequestAssumption, NameAssumption, IInv, NEW v \in Workers, AbandonClaim(v),
         failures' \in Nat
  PROVE IInv'
<1> USE DEF IInv
<1> v \in Procs
  BY DEF Procs
<1>0. /\ Goto(v, "idle")
      /\ draft' = [draft EXCEPT ![v] = None]
      /\ claim' = [claim EXCEPT ![v] = None]
      /\ rowLock' = Released(v, rowLock) /\ walletLock' = Released(v, walletLock)
      /\ UNCHANGED <<database, deliveryVars, batch>>
  BY DEF AbandonClaim
<1>1. /\ pc' \in [Procs -> DeliverySteps \cup WorkerSteps]
      /\ \A e \in Deliveries : pc'[e] \in DeliverySteps
      /\ \A w \in Workers : pc'[w] \in WorkerSteps
      /\ pc'[v] = "idle"
      /\ \A q \in Procs \ {v} : pc'[q] = pc[q]
  BY <1>0, GotoType DEF WorkerSteps, NameAssumption
<1>2. /\ draft' \in [Procs -> Rows \cup {None}]
      /\ \A q \in Procs \ {v} : draft'[q] = draft[q]
  BY <1>0, DraftType
<1>3. /\ claim' \in [Workers -> Claims \cup {None}]
      /\ \A w \in Workers \ {v} : claim'[w] = claim[w]
  BY <1>0 DEF TypeOK
<1>4. StepOf(v)
  BY <1>0, <1>1, <1>2, <1>3 DEF StepOf
<1>5. TypeOK'
  BY <1>0, <1>1, <1>2, <1>3, ReleasedTypes DEF TypeOK, database, deliveryVars
<1>6. ProcessesOK'
  <2>1. \A c \in batch'[v] : wagers[c.wager] # None
    BY <1>0 DEF ProcessesOK, HasRow
  <2> QED
    BY <1>0, <1>1, <1>4, <2>1, ProcessesFrame DEF NameAssumption, database
<1>7. PresentAreUnique'
  BY <1>0, <1>1, UniqueFrame DEF Present, HasRow, Inserted, Procs, database, NameAssumption
<1>8. MoneyInFlight'
  BY <1>0, <1>4, MoneyReleased DEF database
<1>9. LedgerIsHistory'
  BY <1>0, LedgerFrame DEF database
<1> QED
  BY <1>5, <1>6, <1>7, <1>8, <1>9

\* What a step does to one row's retry columns.
LEMMA ScheduleTypes ==
  ASSUME NEW s \in Schedules, NEW v \in Workers \cup {Gone, None}, NEW n \in Nat, NEW b \in BOOLEAN
  PROVE  /\ s.attempts \in Nat /\ s.due \in BOOLEAN
         /\ [s EXCEPT !.lockedBy = None, !.expired = FALSE, !.attempts = n, !.due = b] \in Schedules
         /\ [s EXCEPT !.lockedBy = v] \in Schedules
         /\ [s EXCEPT !.lockedBy = v, !.expired = FALSE] \in Schedules
         /\ [s EXCEPT !.due = TRUE] \in Schedules
         /\ [s EXCEPT !.overdue = TRUE] \in Schedules
         /\ [s EXCEPT !.expired = TRUE] \in Schedules
  BY DEF Schedules

LEMMA RestartWorkerKeeps ==
  ASSUME RequestAssumption, NameAssumption, IInv, NEW v \in Workers, RestartWorker(v)
  PROVE IInv'
<1> USE DEF IInv
<1> v \in Procs
  BY DEF Procs
<1>0. /\ Goto(v, "idle") /\ failures' = failures + 1
      /\ schedule' = [i \in Deliveries |->
           IF schedule[i].lockedBy = v THEN [schedule[i] EXCEPT !.lockedBy = Gone] ELSE schedule[i]]
      /\ draft' = [draft EXCEPT ![v] = None]
      /\ claim' = [claim EXCEPT ![v] = None]
      /\ batch' = [batch EXCEPT ![v] = {}]
      /\ rowLock' = Released(v, rowLock) /\ walletLock' = Released(v, walletLock)
      /\ UNCHANGED <<wallets, wagers, ledger, wagerEvents, walletEvents, inbox, deliveryVars>>
  BY DEF RestartWorker
<1>1. /\ pc' \in [Procs -> DeliverySteps \cup WorkerSteps]
      /\ \A e \in Deliveries : pc'[e] \in DeliverySteps
      /\ \A w \in Workers : pc'[w] \in WorkerSteps
      /\ pc'[v] = "idle"
      /\ \A q \in Procs \ {v} : pc'[q] = pc[q]
  BY <1>0, GotoType DEF WorkerSteps, NameAssumption
<1>2. /\ draft' \in [Procs -> Rows \cup {None}]
      /\ \A q \in Procs \ {v} : draft'[q] = draft[q]
  BY <1>0, DraftType
<1>3. /\ claim' \in [Workers -> Claims \cup {None}]
      /\ \A w \in Workers \ {v} : claim'[w] = claim[w] /\ batch'[w] = batch[w]
      /\ batch' \in [Workers -> SUBSET Claims]
      /\ batch'[v] = {}
  BY <1>0 DEF TypeOK
<1>4. StepOf(v)
  BY <1>1, <1>2, <1>3 DEF StepOf
<1>5. schedule' \in [Deliveries -> Schedules]
  <2>1. \A i \in Deliveries : schedule[i] \in Schedules
    BY DEF TypeOK
  <2>2. \A i \in Deliveries : [schedule[i] EXCEPT !.lockedBy = Gone] \in Schedules
    BY <2>1, ScheduleTypes
  <2>3. \A i \in Deliveries : schedule'[i] \in Schedules
    BY <1>0, <2>1, <2>2
  <2> QED
    BY <1>0, <2>3
<1>6. TypeOK'
  BY <1>0, <1>1, <1>2, <1>3, <1>5, ReleasedTypes DEF TypeOK, deliveryVars
<1>7. ProcessesOK'
  BY <1>0, <1>1, <1>3, <1>4, ProcessesFrame DEF NameAssumption
<1>8. PresentAreUnique'
  BY <1>0, <1>1, UniqueFrame DEF Present, HasRow, Inserted, Procs, NameAssumption
<1>9. MoneyInFlight'
  BY <1>0, <1>4, MoneyReleased
<1>10. LedgerIsHistory'
  BY <1>0, LedgerFrame
<1> QED
  BY <1>6, <1>7, <1>8, <1>9, <1>10

LEMMA ClaimBatchKeeps ==
  ASSUME RequestAssumption, NameAssumption, IInv, NEW v \in Workers, ClaimBatch(v)
  PROVE IInv'
<1> USE DEF IInv
<1> v \in Procs
  BY DEF Procs
<1>0. /\ pc[v] = "idle"
      /\ UNCHANGED <<wallets, wagers, ledger, wagerEvents, walletEvents, inbox, locks,
                     pc, draft, deliveryVars, claim, failures>>
  BY DEF ClaimBatch
<1>1. PICK S \in SUBSET Claimable :
        /\ batch' = [batch EXCEPT ![v] =
             {[wager |-> i, attempts |-> schedule[i].attempts] : i \in S}]
        /\ schedule' = [i \in Deliveries |->
             IF i \in S THEN [schedule[i] EXCEPT !.lockedBy = v, !.expired = FALSE]
                        ELSE schedule[i]]
  BY DEF ClaimBatch
<1> DEFINE taken == {[wager |-> i, attempts |-> schedule[i].attempts] : i \in S}
<1>2. \A i \in S : i \in Deliveries /\ wagers[i] # None
  BY DEF Claimable, IsPending
<1>3. \A i \in Deliveries :
        /\ schedule[i] \in Schedules
        /\ schedule[i].attempts \in Nat
        /\ [schedule[i] EXCEPT !.lockedBy = v, !.expired = FALSE] \in Schedules
  <2>1. \A i \in Deliveries : schedule[i] \in Schedules
    BY DEF TypeOK
  <2> QED
    BY <2>1, ScheduleTypes
<1>4. taken \subseteq Claims /\ \A c \in taken : wagers[c.wager] # None
  <2>1. SUFFICES ASSUME NEW c \in taken PROVE c \in Claims /\ wagers[c.wager] # None
    OBVIOUS
  <2>2. PICK i \in S : c = [wager |-> i, attempts |-> schedule[i].attempts]
    OBVIOUS
  <2>3. i \in Deliveries /\ wagers[i] # None /\ schedule[i].attempts \in Nat
    BY <1>2, <1>3
  <2> QED
    BY <2>2, <2>3 DEF Claims
<1>5. /\ batch' = [batch EXCEPT ![v] = taken]
      /\ batch \in [Workers -> SUBSET Claims]
  BY <1>1 DEF TypeOK
<1> HIDE DEF taken
<1>6. /\ batch' \in [Workers -> SUBSET Claims]
      /\ batch'[v] = taken
      /\ \A w \in Workers \ {v} : batch'[w] = batch[w]
  BY <1>4, <1>5
<1>7. schedule' \in [Deliveries -> Schedules]
  BY <1>1, <1>3
<1>8. StepOf(v)
  BY <1>0, <1>6 DEF StepOf
<1>9. TypeOK'
  BY <1>0, <1>6, <1>7 DEF TypeOK, locks, deliveryVars
<1>10. ProcessesOK'
  BY <1>0, <1>4, <1>6, <1>8, ProcessesFrame DEF NameAssumption
<1>11. PresentAreUnique'
  BY <1>0, UniqueFrame DEF Present, HasRow, Inserted
<1>12. MoneyInFlight'
  BY <1>0, <1>8, MoneyFrame DEF locks
<1>13. LedgerIsHistory'
  BY <1>0, LedgerFrame
<1> QED
  BY <1>9, <1>10, <1>11, <1>12, <1>13

\* A worker takes one of its candidates, with the row it has read or settled in memory.
LEMMA TakeKeeps ==
  ASSUME RequestAssumption, NameAssumption, IInv, NEW v \in Workers, NEW c \in batch[v],
         Take(v, c), NEW step \in {"finish", "lock_ref", "ack"}, Goto(v, step),
         NEW row \in Rows, draft' = [draft EXCEPT ![v] = row]
  PROVE IInv'
<1> USE DEF IInv
<1> v \in Procs
  BY DEF Procs
<1>0. /\ pc[v] = "idle"
      /\ claim' = [claim EXCEPT ![v] = c]
      /\ batch' = [batch EXCEPT ![v] = batch[v] \ {c}]
      /\ UNCHANGED <<database, locks, deliveryVars, failures>>
  BY DEF Take
<1>1. /\ pc' \in [Procs -> DeliverySteps \cup WorkerSteps]
      /\ \A e \in Deliveries : pc'[e] \in DeliverySteps
      /\ \A w \in Workers : pc'[w] \in WorkerSteps
      /\ pc'[v] = step
      /\ \A q \in Procs \ {v} : pc'[q] = pc[q]
  BY GotoType DEF WorkerSteps, NameAssumption
<1>2. /\ draft' \in [Procs -> Rows \cup {None}]
      /\ draft'[v] = row
      /\ \A q \in Procs \ {v} : draft'[q] = draft[q]
  BY DraftType
<1>3. c \in Claims /\ wagers[c.wager] # None /\ batch[v] \subseteq Claims
  BY DEF TypeOK, ProcessesOK, HasRow
<1>4. /\ claim' \in [Workers -> Claims \cup {None}]
      /\ claim'[v] = c
      /\ \A w \in Workers \ {v} : claim'[w] = claim[w]
  BY <1>0, <1>3 DEF TypeOK
<1>5. /\ batch' \in [Workers -> SUBSET Claims]
      /\ batch'[v] \subseteq batch[v]
      /\ \A w \in Workers \ {v} : batch'[w] = batch[w]
  BY <1>0, <1>3 DEF TypeOK
<1>6. StepOf(v)
  BY <1>1, <1>2, <1>4, <1>5 DEF StepOf
<1>7. TypeOK'
  BY <1>0, <1>1, <1>2, <1>4, <1>5 DEF TypeOK, database, locks, deliveryVars
<1>8. ProcessesOK'
  <2>1. \A b \in batch'[v] : wagers[b.wager] # None
    BY <1>5 DEF ProcessesOK, HasRow
  <2> QED
    BY <1>0, <1>2, <1>3, <1>4, <1>6, <2>1, ProcessesFrame DEF NameAssumption, database
<1>9. PresentAreUnique'
  BY <1>0, <1>1, UniqueFrame DEF Present, HasRow, Inserted, Procs, database, NameAssumption
<1>10. MoneyInFlight'
  BY <1>0, <1>6, MoneyFrame DEF database, locks
<1>11. LedgerIsHistory'
  BY <1>0, LedgerFrame DEF database
<1> QED
  BY <1>7, <1>8, <1>9, <1>10, <1>11

LEMMA TakesKeep ==
  ASSUME RequestAssumption, NameAssumption, AbsentAssumption, IInv, NEW v \in Workers,
         TakeSettled(v) \/ TakeToGiveUp(v) \/ TakeToReapply(v)
  PROVE IInv'
<1>1. \A c \in batch[v] : wagers[c.wager] \in Rows
  BY DEF IInv, TypeOK, ProcessesOK, HasRow, Claims
<1>2. CASE TakeSettled(v)
  <2>1. PICK c \in batch[v] : Take(v, c) /\ draft' = [draft EXCEPT ![v] = wagers[c.wager]] /\ Goto(v, "ack")
    BY <1>2 DEF TakeSettled
  <2> QED
    BY <1>1, <2>1, TakeKeeps
<1>3. CASE TakeToGiveUp(v)
  <2>1. PICK c \in batch[v] :
          /\ Take(v, c)
          /\ draft' = [draft EXCEPT ![v] =
               [wagers[c.wager] EXCEPT !.status = "REJECTED", !.code = "REFERENCE_NOT_FOUND"]]
          /\ Goto(v, "finish")
    BY <1>3 DEF TakeToGiveUp
  <2>2. [wagers[c.wager] EXCEPT !.status = "REJECTED", !.code = "REFERENCE_NOT_FOUND"] \in Rows
    BY ZenonT(30), <1>1 DEF Rows, Statuses, FailureCodes
  <2> QED
    BY <2>1, <2>2, TakeKeeps
<1>4. CASE TakeToReapply(v)
  <2>1. PICK c \in batch[v] :
          Take(v, c) /\ draft' = [draft EXCEPT ![v] = wagers[c.wager]] /\ Goto(v, "lock_ref")
    BY <1>4 DEF TakeToReapply
  <2> QED
    BY <1>1, <2>1, TakeKeeps
<1> QED
  BY <1>2, <1>3, <1>4

LEMMA AcknowledgeKeeps ==
  ASSUME RequestAssumption, NameAssumption, IInv, NEW v \in Workers, Acknowledge(v)
  PROVE IInv'
<1> USE DEF IInv
<1> v \in Procs
  BY DEF Procs
<1>0. /\ pc[v] = "ack" /\ Goto(v, "idle")
      /\ draft' = [draft EXCEPT ![v] = None]
      /\ claim' = [claim EXCEPT ![v] = None]
      /\ UNCHANGED <<wallets, wagers, ledger, wagerEvents, walletEvents, inbox, locks,
                     deliveryVars, batch, failures>>
  BY DEF Acknowledge
<1>1. /\ pc' \in [Procs -> DeliverySteps \cup WorkerSteps]
      /\ \A e \in Deliveries : pc'[e] \in DeliverySteps
      /\ \A w \in Workers : pc'[w] \in WorkerSteps
      /\ pc'[v] = "idle"
      /\ \A q \in Procs \ {v} : pc'[q] = pc[q]
  BY <1>0, GotoType DEF WorkerSteps, NameAssumption
<1>2. /\ draft' \in [Procs -> Rows \cup {None}]
      /\ \A q \in Procs \ {v} : draft'[q] = draft[q]
  BY <1>0, DraftType
<1>3. /\ claim' \in [Workers -> Claims \cup {None}]
      /\ \A w \in Workers \ {v} : claim'[w] = claim[w]
  BY <1>0 DEF TypeOK
<1>4. StepOf(v)
  BY <1>0, <1>1, <1>2, <1>3 DEF StepOf
<1>5. schedule' \in [Deliveries -> Schedules]
  <2> DEFINE i == Own(v)
             waits == draft[v].status = "PENDING_REFERENCE"
             attempts == IF waits THEN claim[v].attempts + 1 ELSE schedule[i].attempts
             due == IF waits THEN FALSE ELSE schedule[i].due
             after == [schedule[i] EXCEPT !.lockedBy = None, !.expired = FALSE,
                                          !.attempts = attempts, !.due = due]
  <2>1. claim[v] \in Claims /\ i = claim[v].wager
    BY <1>0 DEF ProcessesOK, Own, NameAssumption
  <2>2. i \in Deliveries /\ claim[v].attempts \in Nat
    BY <2>1 DEF Claims
  <2>3. schedule[i] \in Schedules
    BY <2>2 DEF TypeOK
  <2>4. schedule[i].attempts \in Nat /\ schedule[i].due \in BOOLEAN
    BY <2>3, ScheduleTypes
  <2>5. attempts \in Nat /\ due \in BOOLEAN
    <3>1. attempts \in Nat
      BY <2>2, <2>4
    <3>2. due \in BOOLEAN
      BY <2>4, Zenon
    <3> QED
      BY <3>1, <3>2, Zenon
  <2>6. after \in Schedules
    <3> HIDE DEF attempts, due
    <3> QED
      BY <2>3, <2>5, ScheduleTypes, Zenon
  <2>7. schedule' = IF schedule[i].lockedBy # v THEN schedule ELSE [schedule EXCEPT ![i] = after]
    BY DEF Acknowledge
  <2> HIDE DEF after, i
  <2> QED
    BY <2>6, <2>7 DEF TypeOK
<1>6. TypeOK'
  BY <1>0, <1>1, <1>2, <1>3, <1>5 DEF TypeOK, locks, deliveryVars
<1>7. ProcessesOK'
  <2>1. \A c \in batch'[v] : wagers[c.wager] # None
    BY <1>0 DEF ProcessesOK, HasRow
  <2> QED
    BY <1>0, <1>1, <1>4, <2>1, ProcessesFrame DEF NameAssumption
<1>8. PresentAreUnique'
  BY <1>0, <1>1, UniqueFrame DEF Present, HasRow, Inserted, Procs, NameAssumption
<1>9. MoneyInFlight'
  BY <1>0, <1>4, MoneyFrame DEF locks
<1>10. LedgerIsHistory'
  BY <1>0, LedgerFrame
<1> QED
  BY <1>6, <1>7, <1>8, <1>9, <1>10

-----------------------------------------------------------------------------
(* The clock, and steps in which nothing changes. *)

\* A step that changes retry columns at most.
LEMMA ClockKeeps ==
  ASSUME NameAssumption, IInv, ClockFrame, schedule' \in [Deliveries -> Schedules]
  PROVE IInv'
<1> USE DEF IInv
<1>0. UNCHANGED <<wallets, wagers, ledger, wagerEvents, walletEvents, inbox, rowLock, walletLock,
                  pc, draft, replaying, answer, batch, claim, failures>>
  BY DEF ClockFrame, locks, deliveryVars, workerVars
<1>1. TypeOK'
  BY <1>0 DEF TypeOK
<1>2. ProcessesOK'
  BY <1>0 DEF ProcessesOK, HasRow, Inserted
<1>3. PresentAreUnique'
  BY <1>0, UniqueFrame DEF Present, HasRow, Inserted
<1>4. MoneyInFlight'
  BY <1>0, MoneyOf DEF MoneyInFlight
<1>5. LedgerIsHistory'
  BY <1>0, LedgerFrame
<1> QED
  BY <1>1, <1>2, <1>3, <1>4, <1>5

LEMMA ClockStepsKeep ==
  ASSUME NameAssumption, IInv, NEW i \in Deliveries,
         BackoffElapses(i) \/ TTLElapses(i) \/ LeaseExpires(i)
  PROVE IInv'
<1>1. schedule[i] \in Schedules /\ schedule \in [Deliveries -> Schedules]
  BY DEF IInv, TypeOK
<1>2. CASE BackoffElapses(i)
  <2> DEFINE after == [schedule[i] EXCEPT !.due = TRUE]
  <2>1. after \in Schedules
    BY <1>1, ScheduleTypes
  <2>2. schedule' = [schedule EXCEPT ![i] = after] /\ ClockFrame
    BY <1>2 DEF BackoffElapses
  <2> HIDE DEF after
  <2> QED
    BY <1>1, <2>1, <2>2, ClockKeeps
<1>3. CASE TTLElapses(i)
  <2> DEFINE after == [schedule[i] EXCEPT !.overdue = TRUE]
  <2>1. after \in Schedules
    BY <1>1, ScheduleTypes
  <2>2. schedule' = [schedule EXCEPT ![i] = after] /\ ClockFrame
    BY <1>3 DEF TTLElapses
  <2> HIDE DEF after
  <2> QED
    BY <1>1, <2>1, <2>2, ClockKeeps
<1>4. CASE LeaseExpires(i)
  <2> DEFINE after == [schedule[i] EXCEPT !.expired = TRUE]
  <2>1. after \in Schedules
    BY <1>1, ScheduleTypes
  <2>2. schedule' = [schedule EXCEPT ![i] = after] /\ ClockFrame
    BY <1>4 DEF LeaseExpires
  <2> HIDE DEF after
  <2> QED
    BY <1>1, <2>1, <2>2, ClockKeeps
<1> QED
  BY <1>2, <1>3, <1>4

-----------------------------------------------------------------------------
(* The invariant holds at the start and is kept by every step. *)

LEMMA OpeningIsHistory ==
  ASSUME NEW b \in Nat
  PROVE  /\ OpeningEntries(b) \in Seq(Entries)
         /\ b = 0 => OpeningEntries(b) = <<>>
         /\ b # 0 => /\ Len(OpeningEntries(b)) = 1
                     /\ OpeningEntries(b)[1].before = 0
                     /\ OpeningEntries(b)[1].after = b
                     /\ OpeningEntries(b)[1].direction = "CREDIT"
                     /\ OpeningEntries(b)[1].amount = b
<1> DEFINE opening == [wager |-> None, direction |-> "CREDIT", amount |-> b, before |-> 0, after |-> b]
<1>1. opening \in Entries
  BY DEF Entries, Directions
<1>2. OpeningEntries(b) = IF b = 0 THEN <<>> ELSE <<opening>>
  BY DEF OpeningEntries
<1>3. /\ opening.before = 0 /\ opening.after = b
      /\ opening.direction = "CREDIT" /\ opening.amount = b
  OBVIOUS
<1> HIDE DEF opening
<1> QED
  BY <1>1, <1>2, <1>3

LEMMA InitIInv ==
  ASSUME RequestAssumption, SizeAssumption, NameAssumption, Init PROVE IInv
<1> USE DEF Init
<1>1. TypeOK
  <2>1. ledger \in [Wallets -> Seq(Entries)]
    BY OpeningIsHistory DEF SizeAssumption
  <2>2. walletEvents \in [Wallets -> Seq(Nat)]
    OBVIOUS
  <2>3. wallets \in [Wallets -> [balance : Nat, version : Nat]]
    BY DEF SizeAssumption
  <2>4. schedule \in [Deliveries -> Schedules]
    BY DEF NoSchedule, Schedules
  <2>5. answer \in [Deliveries -> Answers]
    BY DEF NoAnswer, Answers, AnswerKinds
  <2>6. /\ pc \in [Procs -> DeliverySteps \cup WorkerSteps]
        /\ \A d \in Deliveries : pc[d] \in DeliverySteps
        /\ \A w \in Workers : pc[w] \in WorkerSteps
    BY DEF Procs, DeliverySteps, WorkerSteps, NameAssumption
  <2> QED
    BY <2>1, <2>2, <2>3, <2>4, <2>5, <2>6 DEF TypeOK
<1>2. \A d \in Deliveries : ~HasRow(d) /\ ~Inserted(d)
  BY DEF HasRow, Inserted, Procs, NameAssumption
<1>3. ProcessesOK
  BY <1>2 DEF ProcessesOK, Procs
<1>4. PresentAreUnique
  BY <1>2 DEF PresentAreUnique, Present
<1>5. MoneyInFlight
  BY DEF MoneyInFlight, Procs, NameAssumption
<1>6. LedgerIsHistory
  <2> SUFFICES ASSUME NEW w \in Wallets
      PROVE  /\ \A i \in 1..Len(ledger[w]) :
                  /\ ledger[w][i].before = IF i - 1 = 0 THEN 0 ELSE ledger[w][i - 1].after
                  /\ ledger[w][i].after =
                       BalanceAfter(ledger[w][i].direction, ledger[w][i].before, ledger[w][i].amount)
             /\ wallets[w].balance = IF Len(ledger[w]) = 0 THEN 0 ELSE ledger[w][Len(ledger[w])].after
    BY DEF LedgerIsHistory
  <2> DEFINE b == OpeningBalance[w]
  <2>1. b \in Nat /\ ledger[w] = OpeningEntries(b) /\ wallets[w].balance = b
    BY DEF SizeAssumption
  <2>2. CASE b = 0
    BY <2>1, <2>2, OpeningIsHistory
  <2>3. CASE b # 0
    BY <2>1, <2>3, OpeningIsHistory DEF BalanceAfter
  <2> QED
    BY <2>2, <2>3
<1> QED
  BY <1>1, <1>3, <1>4, <1>5, <1>6 DEF IInv

LEMMA NextKeepsIInv ==
  ASSUME RequestAssumption, NameAssumption, AbsentAssumption, IInv, [Next]_vars PROVE IInv'
<1>1. ASSUME NEW d \in Deliveries, ApplyStep(d) PROVE IInv'
  <2> d \in Procs
    BY DEF Procs
  <2> QED
    BY <1>1, ReferenceMissingKeeps, LockReferenceKeeps, DebitRefusedKeeps, MoveMoneyKeeps DEF ApplyStep
<1>2. ASSUME NEW w \in Workers, ApplyStep(w) PROVE IInv'
  <2> w \in Procs
    BY DEF Procs
  <2> QED
    BY <1>2, ReferenceMissingKeeps, LockReferenceKeeps, DebitRefusedKeeps, MoveMoneyKeeps DEF ApplyStep
<1>3. ASSUME NEW d \in Deliveries, DeliveryStep(d) \/ FailDelivery(d) PROVE IInv'
  BY <1>1, <1>3, TryInsertInboxKeeps, FindByKeyKeeps, FindByExternalKeeps, RefuseWalletKeeps,
     CreateKeeps, LoseRaceKeeps, ApplyLossKeeps, FinishDeliveryKeeps, FailDeliveryKeeps
     DEF DeliveryStep
<1>4. ASSUME NEW w \in Workers, WorkerStep(w) PROVE IInv'
  <2>1. failures \in Nat
    BY DEF IInv, TypeOK
  <2>2. DeadlockVictim(w) \/ ConstraintViolation(w) => IInv'
    BY <2>1, AbandonClaimKeeps DEF DeadlockVictim, ConstraintViolation
  <2> QED
    BY <1>2, <1>4, <2>2, TakesKeep, FinishRetryKeeps, AcknowledgeKeeps DEF WorkerStep
<1>5. ASSUME NEW w \in Workers, FailRetry(w) PROVE IInv'
  BY <1>5, AbandonClaimKeeps DEF FailRetry, IInv, TypeOK
<1>6. ASSUME UNCHANGED vars PROVE IInv'
  <2>1. ClockFrame /\ schedule' = schedule
    BY <1>6 DEF vars, database, locks, deliveryVars, workerVars, ClockFrame
  <2> QED
    BY <2>1, ClockKeeps DEF IInv, TypeOK
<1> QED
  BY <1>3, <1>4, <1>5, <1>6, ClaimBatchKeeps, RestartWorkerKeeps, ClockStepsKeep DEF Next, Quiescent

THEOREM AlwaysIInv == Spec => []IInv
<1>1. Init => IInv
  BY InitIInv, RequestAssumption, SizeAssumption, NameAssumption
<1>2. IInv /\ [Next]_vars => IInv'
  BY NextKeepsIInv, RequestAssumption, NameAssumption, AbsentAssumption
<1> QED
  BY <1>1, <1>2, PTL DEF Spec

-----------------------------------------------------------------------------
(* What the theorems say. *)

\* Every variable keeps its type: no row, entry or event is ever malformed, and no balance
\* is ever negative, whatever the deliveries, workers, failures and restarts
\* (wager_applier.go, wallet_repository_postgres.go).
THEOREM TypeCorrect == Spec => []TypeOK
<1>1. IInv => TypeOK
  BY DEF IInv
<1> QED
  BY <1>1, AlwaysIInv, PTL

\* A wallet's ledger is its whole history and its balance the end of it, although the UPDATE
\* of the balance and the INSERT of the entry are two statements of transactions that
\* interleave with any others (wager_applier.go, wallet_repository_postgres.go).
THEOREM LedgerCorrect == Spec => []LedgerIsHistory
<1>1. IInv => LedgerIsHistory
  BY DEF IInv
<1> QED
  BY <1>1, AlwaysIInv, PTL

\* One idempotency key, one external id, one operation: the lookups of findExisting and the
\* unique indexes admit no second row (process_wager_transaction.go, migration 000002).
THEOREM UniqueCorrect == Spec => []UniqueOperations
<1>1. IInv => UniqueOperations
  BY DEF IInv, PresentAreUnique, UniqueOperations, Present
<1> QED
  BY <1>1, AlwaysIInv, PTL

-----------------------------------------------------------------------------
(* What the deliveries of one operation are told.  Their invariant is only *)
(* about who has a row, and rows stay.                                     *)

\* Only the commit of a transaction writes to the tables of operations and money.
LEMMA OnlyCommitsWrite ==
  ASSUME [Next]_vars
  PROVE  \/ UNCHANGED <<wallets, wagers, ledger, wagerEvents, walletEvents>>
         \/ \E d \in Deliveries : FinishDelivery(d)
         \/ \E w \in Workers : FinishRetry(w)
<1>1. ASSUME NEW p, ApplyStep(p)
      PROVE  UNCHANGED <<wallets, wagers, ledger, wagerEvents, walletEvents>>
  BY <1>1 DEF ApplyStep, ReferenceMissing, LockReference, DebitRefused, MoveMoney, database
<1>2. ASSUME NEW d \in Deliveries, DeliveryStep(d) \/ FailDelivery(d)
      PROVE  UNCHANGED <<wallets, wagers, ledger, wagerEvents, walletEvents>> \/ FinishDelivery(d)
  BY <1>1, <1>2 DEF DeliveryStep, TryInsertInbox, FindByKey, FindByExternal, RefuseWallet, Create,
     LoseRace, ApplyLoss, FailDelivery, database
<1>3. ASSUME NEW w \in Workers, ClaimBatch(w) \/ WorkerStep(w) \/ FailRetry(w) \/ RestartWorker(w)
      PROVE  UNCHANGED <<wallets, wagers, ledger, wagerEvents, walletEvents>> \/ FinishRetry(w)
  BY <1>1, <1>3 DEF ClaimBatch, WorkerStep, TakeSettled, TakeToGiveUp, TakeToReapply, Take,
     Acknowledge, DeadlockVictim, ConstraintViolation, FailRetry, RestartWorker, AbandonClaim, database
<1>4. ASSUME NEW i \in Deliveries, BackoffElapses(i) \/ TTLElapses(i) \/ LeaseExpires(i)
      PROVE  UNCHANGED <<wallets, wagers, ledger, wagerEvents, walletEvents>>
  BY <1>4 DEF BackoffElapses, TTLElapses, LeaseExpires, ClockFrame
<1>5. ASSUME UNCHANGED vars
      PROVE  UNCHANGED <<wallets, wagers, ledger, wagerEvents, walletEvents>>
  BY <1>5 DEF vars, database
<1> QED
  BY <1>2, <1>3, <1>4, <1>5 DEF Next, Quiescent

LEMMA RowsStay ==
  ASSUME RequestAssumption, NameAssumption, AbsentAssumption, IInv, [Next]_vars
  PROVE  \A d \in Deliveries : HasRow(d) => HasRow(d)'
<1>1. ASSUME NEW p \in Procs, Commit(p) PROVE \A d \in Deliveries : HasRow(d) => HasRow(d)'
  <2>1. draft[p] \in Rows /\ Own(p) \in Deliveries
    BY <1>1, Working DEF Commit, IInv
  <2>2. wagers' = [wagers EXCEPT ![Own(p)] = draft[p]] /\ draft[p] # None
    BY <1>1, <2>1 DEF Commit, AbsentAssumption
  <2> QED
    BY <2>1, <2>2 DEF HasRow, IInv, TypeOK
<1> QED
  BY <1>1, OnlyCommitsWrite DEF FinishDelivery, FinishRetry, Procs, HasRow

\* A delivery looks again only for an operation that is there, with its key or, once the
\* lookup by key has failed, with its external id.
LooksForARow(d) ==
  replaying[d] =>
    /\ pc[d] \in {"find_key", "find_external", "done"}
    /\ \E e \in Deliveries : HasRow(e) /\ SameIdentity(d, e)
    /\ pc[d] = "find_external" =>
         \E e \in Deliveries : HasRow(e) /\ RequestOf[e].external = RequestOf[d].external

\* What a delivery was told about a row is true of a row that is there.
ToldTheTruth(d) ==
  LET told == answer[d]
  IN  /\ told.kind = "created" => HasRow(d)
      /\ told.kind = "idempotency_conflict" =>
           \E e \in Deliveries : /\ HasRow(e) /\ SameIdentity(d, e)
                                 /\ PayloadHash(RequestOf[e]) # PayloadHash(RequestOf[d])
      /\ told.kind = "external_conflict" =>
           \E e \in Deliveries : /\ HasRow(e) /\ SameIdentity(d, e)
                                 /\ RequestOf[e].key # RequestOf[d].key
      /\ told.kind = "wallet_refused" => RequestOf[d].wallet = None
      /\ told.kind # "not_found_after_race"

DeliveryOK(d) == LooksForARow(d) /\ ToldTheTruth(d)
RaceInv == (\A d \in Deliveries : DeliveryOK(d)) /\ SeenMeansRecorded

LEMMA DeliveryFrame ==
  ASSUME NEW d \in Deliveries, DeliveryOK(d), pc'[d] = pc[d], replaying'[d] = replaying[d],
         answer'[d] = answer[d], \A e \in Deliveries : HasRow(e) => HasRow(e)'
  PROVE  DeliveryOK(d)'
<1>1. LooksForARow(d)'
  BY DEF DeliveryOK, LooksForARow, SameIdentity
<1>2. ToldTheTruth(d)'
  BY DEF DeliveryOK, ToldTheTruth, SameIdentity
<1> QED
  BY <1>1, <1>2 DEF DeliveryOK

LEMMA SeenFrame ==
  ASSUME SeenMeansRecorded, inbox' = inbox, \A e \in Deliveries : HasRow(e) => HasRow(e)'
  PROVE  SeenMeansRecorded'
  BY DEF SeenMeansRecorded

\* A message is recorded along with a row that has its content, its own or another's.
LEMMA SeenWithARow ==
  ASSUME RequestAssumption, MessageAssumption, NameAssumption, SeenMeansRecorded,
         NEW d \in Deliveries, CommitInbox(d), NEW e \in Deliveries, HasRow(e)',
         PayloadHash(RequestOf[e]) = PayloadHash(RequestOf[d]),
         \A x \in Deliveries : HasRow(x) => HasRow(x)'
  PROVE  SeenMeansRecorded'
<1> SUFFICES ASSUME NEW x \in Deliveries, MessageOf[x] \in inbox'
    PROVE  \E y \in Deliveries : HasRow(y)' /\ PayloadHash(RequestOf[y]) = PayloadHash(RequestOf[x])
  BY DEF SeenMeansRecorded
<1>1. CASE MessageOf[x] \in inbox
  BY <1>1 DEF SeenMeansRecorded
<1>2. CASE MessageOf[x] \notin inbox
  <2>1. MessageOf[d] # None /\ MessageOf[x] = MessageOf[d]
    BY <1>2 DEF CommitInbox, InInbox
  <2>2. RequestOf[x] = RequestOf[d]
    BY <2>1 DEF MessageAssumption
  <2> QED
    BY <2>2
<1> QED
  BY <1>1, <1>2

\* A step of one delivery is told of no other.
OnlyOf(d) ==
  \A e \in Deliveries \ {d} : pc'[e] = pc[e] /\ replaying'[e] = replaying[e] /\ answer'[e] = answer[e]

LEMMA TellGives ==
  ASSUME TypeOK, NEW d \in Deliveries, NEW kind, NEW e, NEW row, Tell(d, kind, e, row)
  PROVE  answer'[d].kind = kind /\ \A x \in Deliveries \ {d} : answer'[x] = answer[x]
  BY DEF Tell, TypeOK

LEMMA GotoGives ==
  ASSUME TypeOK, NEW p \in Procs, NEW step, Goto(p, step)
  PROVE  pc'[p] = step /\ \A q \in Procs \ {p} : pc'[q] = pc[q]
  BY DEF Goto, TypeOK

\* Told of a row with its own key, or its own external id, a delivery is told the truth.
LEMMA AnswerFromTrue ==
  ASSUME RequestAssumption, MessageAssumption, NameAssumption, IInv, RaceInv,
         NEW d \in Deliveries, NEW e \in Deliveries, HasRow(e), SameIdentity(d, e),
         AnswerFrom(d, e), UNCHANGED <<wagers, replaying>>
  PROVE  DeliveryOK(d)' /\ SeenMeansRecorded' /\ OnlyOf(d)
<1>1. d \in Procs /\ TypeOK
  BY DEF Procs, IInv
<1>2. pc'[d] = "done" /\ \A q \in Deliveries \ {d} : pc'[q] = pc[q]
  BY <1>1, GotoGives DEF AnswerFrom, Procs
<1>3. LooksForARow(d)'
  BY <1>2 DEF RaceInv, DeliveryOK, LooksForARow, SameIdentity, HasRow
<1>4. CASE PayloadHash(RequestOf[e]) = PayloadHash(RequestOf[d])
  <2>1. Tell(d, "replay", e, wagers[e]) /\ CommitInbox(d)
    BY <1>4 DEF AnswerFrom
  <2>2. answer'[d].kind = "replay" /\ \A x \in Deliveries \ {d} : answer'[x] = answer[x]
    BY <1>1, <2>1, TellGives
  <2>3. SeenMeansRecorded'
    BY <1>4, <2>1, SeenWithARow DEF RaceInv, HasRow
  <2> QED
    BY <1>2, <1>3, <2>2, <2>3 DEF DeliveryOK, ToldTheTruth, OnlyOf
<1>5. CASE PayloadHash(RequestOf[e]) # PayloadHash(RequestOf[d])
  <2>1. Tell(d, "idempotency_conflict", e, None) /\ inbox' = inbox
    BY <1>5 DEF AnswerFrom
  <2>2. answer'[d].kind = "idempotency_conflict" /\ \A x \in Deliveries \ {d} : answer'[x] = answer[x]
    BY <1>1, <2>1, TellGives
  <2>3. HasRow(e)' /\ SameIdentity(d, e)'
    BY DEF HasRow, SameIdentity
  <2>4. ToldTheTruth(d)'
    BY <1>5, <2>2, <2>3 DEF ToldTheTruth
  <2> QED
    BY <1>2, <1>3, <2>1, <2>2, <2>4, SeenFrame DEF DeliveryOK, OnlyOf, RaceInv, HasRow
<1> QED
  BY <1>4, <1>5

LEMMA FindsTrue ==
  ASSUME RequestAssumption, MessageAssumption, NameAssumption, IInv, RaceInv,
         NEW d \in Deliveries, FindByKey(d) \/ FindByExternal(d)
  PROVE  DeliveryOK(d)' /\ SeenMeansRecorded' /\ OnlyOf(d)
<1>0. d \in Procs /\ TypeOK /\ wagers' = wagers /\ replaying' = replaying
      /\ (\A e \in Deliveries : HasRow(e)' <=> HasRow(e))
  BY DEF Procs, IInv, FindByKey, FindByExternal, HasRow
<1>1. CASE /\ pc[d] = "find_key" /\ ByKey(RequestOf[d].key) = {}
           /\ Goto(d, "find_external") /\ UNCHANGED <<answer, inbox>>
  <2>1. pc'[d] = "find_external" /\ \A q \in Deliveries \ {d} : pc'[q] = pc[q]
    BY <1>0, <1>1, GotoGives DEF Procs
  <2>2. \A e \in Deliveries : HasRow(e) => RequestOf[e].key # RequestOf[d].key
    BY <1>1 DEF ByKey, HasRow
  <2>3. LooksForARow(d)'
    BY <1>0, <2>1, <2>2 DEF RaceInv, DeliveryOK, LooksForARow, SameIdentity
  <2>4. ToldTheTruth(d)'
    BY <1>0, <1>1 DEF RaceInv, DeliveryOK, ToldTheTruth, SameIdentity
  <2> QED
    BY <1>0, <1>1, <2>1, <2>3, <2>4, SeenFrame DEF DeliveryOK, OnlyOf, RaceInv
<1>2. CASE /\ pc[d] = "find_external" /\ ByExternal(RequestOf[d].external) = {}
           /\ Goto(d, IF replaying[d] THEN "done" ELSE "insert")
           /\ IF replaying[d] THEN Tell(d, "not_found_after_race", None, None) ELSE UNCHANGED answer
           /\ UNCHANGED inbox
  <2>1. \A e \in Deliveries : HasRow(e) => RequestOf[e].external # RequestOf[d].external
    BY <1>2 DEF ByExternal, HasRow
  <2>2. ~replaying[d]
    BY <1>2, <2>1 DEF RaceInv, DeliveryOK, LooksForARow
  <2>3. pc'[d] = "insert" /\ answer' = answer /\ \A q \in Deliveries \ {d} : pc'[q] = pc[q]
    BY <1>0, <1>2, <2>2, GotoGives DEF Procs
  <2>4. LooksForARow(d)' /\ ToldTheTruth(d)'
    BY <1>0, <2>2, <2>3 DEF RaceInv, DeliveryOK, LooksForARow, ToldTheTruth, SameIdentity
  <2> QED
    BY <1>0, <1>2, <2>3, <2>4, SeenFrame DEF DeliveryOK, OnlyOf, RaceInv
<1>3. CASE \E e \in Deliveries : HasRow(e) /\ SameIdentity(d, e) /\ AnswerFrom(d, e)
  BY <1>0, <1>3, AnswerFromTrue
<1>4. CASE \E e \in ByExternal(RequestOf[d].external) :
             /\ RequestOf[e].key # RequestOf[d].key
             /\ Goto(d, "done") /\ Tell(d, "external_conflict", e, None) /\ UNCHANGED inbox
  <2>1. PICK e \in Deliveries :
          /\ HasRow(e) /\ RequestOf[e].external = RequestOf[d].external
          /\ RequestOf[e].key # RequestOf[d].key
          /\ Goto(d, "done") /\ Tell(d, "external_conflict", e, None) /\ inbox' = inbox
    BY <1>4 DEF ByExternal, HasRow
  <2>2. /\ answer'[d].kind = "external_conflict" /\ pc'[d] = "done"
        /\ \A x \in Deliveries \ {d} : answer'[x] = answer[x] /\ pc'[x] = pc[x]
    BY <1>0, <2>1, TellGives, GotoGives DEF Procs
  <2>3. LooksForARow(d)'
    BY <1>0, <2>2 DEF RaceInv, DeliveryOK, LooksForARow, SameIdentity
  <2>4. HasRow(e)' /\ SameIdentity(d, e)'
    BY <1>0, <2>1 DEF SameIdentity
  <2>5. ToldTheTruth(d)'
    BY <2>1, <2>2, <2>4 DEF ToldTheTruth
  <2> QED
    BY <1>0, <2>1, <2>2, <2>3, <2>5, SeenFrame DEF DeliveryOK, OnlyOf, RaceInv
<1> QED
  BY <1>1, <1>2, <1>3, <1>4 DEF FindByKey, FindByExternal, ByKey, ByExternal, HasRow, SameIdentity

LEMMA InboxTrue ==
  ASSUME IInv, RaceInv, NEW d \in Deliveries, TryInsertInbox(d)
  PROVE  DeliveryOK(d)' /\ SeenMeansRecorded' /\ OnlyOf(d)
<1>0. d \in Procs /\ TypeOK /\ wagers' = wagers /\ inbox' = inbox /\ replaying' = replaying /\ pc[d] = "inbox"
      /\ (\A e \in Deliveries : HasRow(e)' <=> HasRow(e))
  BY DEF Procs, IInv, TryInsertInbox, HasRow, database
<1>1. ~replaying[d]
  BY <1>0 DEF RaceInv, DeliveryOK, LooksForARow
<1>2. (\A q \in Deliveries \ {d} : pc'[q] = pc[q])
  BY <1>0, GotoGives DEF Procs, TryInsertInbox
<1>3. \/ answer' = answer
      \/ answer'[d].kind = "already_seen" /\ \A x \in Deliveries \ {d} : answer'[x] = answer[x]
  BY <1>0, TellGives DEF TryInsertInbox
<1>4. DeliveryOK(d)'
  BY <1>0, <1>1, <1>3 DEF RaceInv, DeliveryOK, LooksForARow, ToldTheTruth, SameIdentity
<1> QED
  BY <1>0, <1>2, <1>3, <1>4, SeenFrame DEF OnlyOf, RaceInv

LEMMA RefusedTrue ==
  ASSUME IInv, RaceInv, NEW d \in Deliveries, RefuseWallet(d)
  PROVE  DeliveryOK(d)' /\ SeenMeansRecorded' /\ OnlyOf(d)
<1>0. /\ d \in Procs /\ TypeOK /\ wagers' = wagers /\ inbox' = inbox /\ replaying' = replaying
      /\ RequestOf[d].wallet = None
      /\ \A e \in Deliveries : HasRow(e)' <=> HasRow(e)
  BY DEF Procs, IInv, RefuseWallet, HasRow, database
<1>1. pc'[d] = "done" /\ \A q \in Deliveries \ {d} : pc'[q] = pc[q]
  BY <1>0, GotoGives DEF Procs, RefuseWallet
<1>2. answer'[d].kind = "wallet_refused" /\ \A x \in Deliveries \ {d} : answer'[x] = answer[x]
  BY <1>0, TellGives DEF RefuseWallet
<1>3. DeliveryOK(d)'
  BY <1>0, <1>1, <1>2 DEF RaceInv, DeliveryOK, LooksForARow, ToldTheTruth, SameIdentity
<1> QED
  BY <1>0, <1>1, <1>2, <1>3, SeenFrame DEF OnlyOf, RaceInv

\* Whoever loses the race for a key or an external id does so to a row that is there.
LEMMA LoserTrue ==
  ASSUME IInv, RaceInv, NEW d \in Deliveries, LoseRace(d)
  PROVE  DeliveryOK(d)' /\ SeenMeansRecorded' /\ OnlyOf(d)
<1>0. /\ d \in Procs /\ TypeOK /\ wagers' = wagers /\ inbox' = inbox /\ answer' = answer
      /\ \E e \in Deliveries : HasRow(e) /\ SameIdentity(d, e)
      /\ \A e \in Deliveries : HasRow(e)' <=> HasRow(e)
  BY DEF Procs, IInv, LoseRace, IdentityTaken, HasRow, database
<1>1. pc'[d] = "find_key" /\ \A q \in Deliveries \ {d} : pc'[q] = pc[q]
  BY <1>0, GotoGives DEF Procs, LoseRace
<1>2. \A q \in Deliveries \ {d} : replaying'[q] = replaying[q]
  BY <1>0 DEF LoseRace, TypeOK
<1>3. DeliveryOK(d)'
  BY <1>0, <1>1 DEF RaceInv, DeliveryOK, LooksForARow, ToldTheTruth, SameIdentity
<1> QED
  BY <1>0, <1>1, <1>2, <1>3, SeenFrame DEF OnlyOf, RaceInv

\* The steps of the transaction itself: nobody is told anything, and none is a second look.
LEMMA ApplyingTrue ==
  ASSUME IInv, RaceInv, NEW d \in Deliveries, Create(d) \/ ApplyLoss(d) \/ ApplyStep(d)
  PROVE  DeliveryOK(d)' /\ SeenMeansRecorded' /\ OnlyOf(d)
<1>0. /\ d \in Procs /\ TypeOK /\ pc[d] \in {"insert", "loss", "lock_ref", "move"}
      /\ wagers' = wagers /\ inbox' = inbox /\ answer' = answer /\ replaying' = replaying
      /\ \E step : Goto(d, step)
  BY DEF Procs, IInv, Create, MayInsert, ApplyLoss, ApplyStep, ReferenceMissing, LockReference,
     DebitRefused, MoveMoney, database, deliveryVars
<1>1. \A q \in Deliveries \ {d} : pc'[q] = pc[q]
  BY <1>0, GotoGives DEF Procs
<1>2. ~replaying[d]
  BY <1>0 DEF RaceInv, DeliveryOK, LooksForARow
<1>3. \A e \in Deliveries : HasRow(e)' <=> HasRow(e)
  BY <1>0 DEF HasRow
<1>4. DeliveryOK(d)'
  BY <1>0, <1>2, <1>3 DEF RaceInv, DeliveryOK, LooksForARow, ToldTheTruth, SameIdentity
<1> QED
  BY <1>0, <1>1, <1>3, <1>4, SeenFrame DEF OnlyOf, RaceInv

LEMMA EndsTrue ==
  ASSUME RequestAssumption, MessageAssumption, NameAssumption, AbsentAssumption, IInv, RaceInv,
         NEW d \in Deliveries, FinishDelivery(d) \/ FailDelivery(d),
         \A e \in Deliveries : HasRow(e) => HasRow(e)'
  PROVE  DeliveryOK(d)' /\ SeenMeansRecorded' /\ OnlyOf(d)
<1>0. d \in Procs /\ TypeOK /\ Goto(d, "done") /\ replaying' = replaying
  BY DEF Procs, IInv, FinishDelivery, FailDelivery
<1>1. pc'[d] = "done" /\ \A q \in Deliveries \ {d} : pc'[q] = pc[q]
  BY <1>0, GotoGives DEF Procs
<1>2. LooksForARow(d)'
  BY <1>0, <1>1 DEF RaceInv, DeliveryOK, LooksForARow, SameIdentity
<1>3. CASE FinishDelivery(d)
  <2>1. Commit(d) /\ CommitInbox(d) /\ Tell(d, "created", d, draft[d])
    BY <1>3 DEF FinishDelivery
  <2>2. answer'[d].kind = "created" /\ \A x \in Deliveries \ {d} : answer'[x] = answer[x]
    BY <1>0, <2>1, TellGives
  <2>3. draft[d] # None /\ wagers' = [wagers EXCEPT ![d] = draft[d]]
    BY <1>0, <2>1, Working DEF Commit, Own, IInv, AbsentAssumption
  <2>4. HasRow(d)'
    BY <1>0, <2>3 DEF HasRow, TypeOK
  <2>5. SeenMeansRecorded'
    BY <2>1, <2>4, SeenWithARow DEF RaceInv
  <2> QED
    BY <1>0, <1>1, <1>2, <2>2, <2>4, <2>5 DEF DeliveryOK, ToldTheTruth, OnlyOf
<1>4. CASE FailDelivery(d)
  <2>1. Tell(d, "error", None, None) /\ inbox' = inbox
    BY <1>4 DEF FailDelivery, database
  <2>2. answer'[d].kind = "error" /\ \A x \in Deliveries \ {d} : answer'[x] = answer[x]
    BY <1>0, <2>1, TellGives
  <2> QED
    BY <1>0, <1>1, <1>2, <2>1, <2>2, SeenFrame DEF DeliveryOK, ToldTheTruth, OnlyOf, RaceInv
<1> QED
  BY <1>3, <1>4

\* The workers, the clock and the database tell the deliveries nothing.
LEMMA OthersTellNothing ==
  ASSUME NameAssumption, IInv, [Next]_vars,
         ~\E d \in Deliveries : DeliveryStep(d) \/ FailDelivery(d)
  PROVE  inbox' = inbox /\ \A d \in Deliveries :
           pc'[d] = pc[d] /\ replaying'[d] = replaying[d] /\ answer'[d] = answer[d]
<1>1. ASSUME NEW w \in Workers, ClaimBatch(w) \/ WorkerStep(w) \/ FailRetry(w) \/ RestartWorker(w)
      PROVE  /\ UNCHANGED <<inbox, replaying, answer>>
             /\ pc' = pc \/ \E step : Goto(w, step)
  BY <1>1 DEF ClaimBatch, WorkerStep, TakeSettled, TakeToGiveUp, TakeToReapply, Take, ApplyStep,
     ReferenceMissing, LockReference, DebitRefused, MoveMoney, FinishRetry, Acknowledge,
     DeadlockVictim, ConstraintViolation, FailRetry, RestartWorker, AbandonClaim,
     database, deliveryVars
<1>2. ASSUME NEW w \in Workers, NEW step, Goto(w, step)
      PROVE  \A d \in Deliveries : pc'[d] = pc[d]
  BY <1>2 DEF Goto, IInv, TypeOK, Procs, NameAssumption
<1>3. ASSUME NEW i \in Deliveries, BackoffElapses(i) \/ TTLElapses(i) \/ LeaseExpires(i)
      PROVE  UNCHANGED <<inbox, pc, replaying, answer>>
  BY <1>3 DEF BackoffElapses, TTLElapses, LeaseExpires, ClockFrame, deliveryVars
<1>4. ASSUME UNCHANGED vars PROVE UNCHANGED <<inbox, pc, replaying, answer>>
  BY <1>4 DEF vars, database, deliveryVars
<1> QED
  BY <1>1, <1>2, <1>3, <1>4 DEF Next, Quiescent

LEMMA NextKeepsRaceInv ==
  ASSUME RequestAssumption, MessageAssumption, NameAssumption, AbsentAssumption, IInv, RaceInv,
         [Next]_vars
  PROVE  RaceInv'
<1>1. \A e \in Deliveries : HasRow(e) => HasRow(e)'
  BY RowsStay
<1>2. ASSUME NEW d \in Deliveries, DeliveryStep(d) \/ FailDelivery(d) PROVE RaceInv'
  <2>1. DeliveryOK(d)' /\ SeenMeansRecorded' /\ OnlyOf(d)
    BY <1>1, <1>2, InboxTrue, FindsTrue, RefusedTrue, LoserTrue, ApplyingTrue, EndsTrue
       DEF DeliveryStep
  <2>2. \A e \in Deliveries \ {d} : DeliveryOK(e)'
    BY <1>1, <2>1, DeliveryFrame DEF OnlyOf, RaceInv
  <2> QED
    BY <2>1, <2>2 DEF RaceInv
<1>3. ASSUME ~\E d \in Deliveries : DeliveryStep(d) \/ FailDelivery(d) PROVE RaceInv'
  BY <1>1, <1>3, OthersTellNothing, DeliveryFrame, SeenFrame DEF RaceInv
<1> QED
  BY <1>2, <1>3

LEMMA AlwaysRaceInv == Spec => []RaceInv
<1>1. Init => RaceInv
  <2> SUFFICES ASSUME Init PROVE RaceInv
    OBVIOUS
  <2>1. \A d \in Deliveries : replaying[d] = FALSE /\ answer[d].kind = "none"
    BY DEF Init, NoAnswer
  <2> QED
    BY <2>1 DEF Init, RaceInv, DeliveryOK, LooksForARow, ToldTheTruth, SeenMeansRecorded
<1>2. IInv /\ RaceInv /\ [Next]_vars => RaceInv'
  BY NextKeepsRaceInv, RequestAssumption, MessageAssumption, NameAssumption, AbsentAssumption
<1> QED
  BY <1>1, <1>2, AlwaysIInv, PTL DEF Spec

\* The loser of a race always finds the winner, by its key or by its external id: the error
\* replayInTransaction would return otherwise is dead code (process_wager_transaction.go).
THEOREM LoserCorrect == Spec => []LoserFindsWinner
<1>1. RaceInv => LoserFindsWinner
  BY DEF RaceInv, DeliveryOK, ToldTheTruth, LoserFindsWinner
<1> QED
  BY <1>1, AlwaysRaceInv, PTL

\* A message counts as seen only if its operation has a row, so dropping a redelivery loses
\* nothing: the inbox row commits in the transaction of the operation, or of the replay that
\* found it (consume_wager_transaction.go).
THEOREM SeenCorrect == Spec => []SeenMeansRecorded
<1>1. RaceInv => SeenMeansRecorded
  BY DEF RaceInv
<1> QED
  BY <1>1, AlwaysRaceInv, PTL

\* The twin of a recorded delivery is never told of a conflict or a refusal, wherever the
\* winner's commit falls between its lookups and its INSERT (process_wager_transaction.go).
THEOREM TwinCorrect == Spec => []TwinNeverConflicts
<1>1. IInv /\ RaceInv => TwinNeverConflicts
  <2> SUFFICES ASSUME IInv, RaceInv, NEW d \in Deliveries, NEW e \in Deliveries,
                      RequestOf[d] = RequestOf[e], answer[e].kind = "created", d # e
      PROVE  answer[d].kind \in {"none", "replay", "already_seen", "error"}
    BY DEF TwinNeverConflicts
  <2>1. HasRow(e)
    BY DEF RaceInv, DeliveryOK, ToldTheTruth
  <2>2. \A x \in Deliveries : HasRow(x) /\ SameIdentity(d, x) => x = e
    BY <2>1 DEF IInv, PresentAreUnique, Present, SameIdentity
  <2>3. answer[d].kind \in AnswerKinds
    BY DEF IInv, TypeOK, Answers
  <2>4. answer[d].kind # "created"
    BY <2>1, <2>2 DEF RaceInv, DeliveryOK, ToldTheTruth, SameIdentity
  <2>5. answer[d].kind \notin {"idempotency_conflict", "external_conflict", "not_found_after_race"}
    BY <2>2 DEF RaceInv, DeliveryOK, ToldTheTruth
  <2>6. answer[d].kind # "wallet_refused"
    BY <2>1, NameAssumption DEF RaceInv, DeliveryOK, ToldTheTruth, IInv, ProcessesOK, NameAssumption
  <2> QED
    BY <2>3, <2>4, <2>5, <2>6 DEF AnswerKinds
<1> QED
  BY <1>1, AlwaysIInv, AlwaysRaceInv, PTL
=============================================================================
