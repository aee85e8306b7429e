-------------------------- MODULE WagerInvariants --------------------------
(***************************************************************************)
(* What the processing of wagering operations promises, over the state of  *)
(* WagerService.                                                           *)
(***************************************************************************)
EXTENDS WagerService

HasRow(d) == wagers[d] # None
Settled(row) == row # None /\ row.status \in Terminal
EntriesOf(d) == {i \in 1..Len(ledger[RequestOf[d].wallet]) :
                   ledger[RequestOf[d].wallet][i].wager = d}

\* The ledger of a wallet is its whole history: every entry starts where the one
\* before it ended, the first at zero, and the wallet's balance is where the last
\* one ended.  The balance is updated in place and the entry written beside it
\* (wager_applier.go), by concurrent transactions of any process.
LedgerIsHistory ==
  \A w \in Wallets :
    LET entries == ledger[w]
        ended(i) == IF i = 0 THEN 0 ELSE entries[i].after
    IN  /\ \A i \in 1..Len(entries) :
             /\ entries[i].before = ended(i - 1)
             /\ entries[i].after =
                  BalanceAfter(entries[i].direction, entries[i].before, entries[i].amount)
        /\ wallets[w].balance = ended(Len(entries))

\* Every version of a wallet is announced by one balance event, in order: a consumer
\* that orders the events by walletVersion misses nothing (outbox_events.go).
VersionsAnnounced ==
  \A w \in Wallets :
    LET announced == walletEvents[w]
        first == IF OpeningBalance[w] = 0 THEN 2 ELSE 1
    IN  /\ Len(announced) = Len(ledger[w])
        /\ \A i \in 1..Len(announced) : announced[i] = first + i - 1
        /\ wallets[w].version = first + Len(announced) - 1

\* An operation never has two ledger entries, whatever happens to its status.
AtMostOneEntry ==
  \A d \in Deliveries : RequestOf[d].wallet # None => Cardinality(EntriesOf(d)) <= 1

\* An idempotency key, and an external id, belongs to one operation for ever, whatever
\* the order in which rival deliveries check, insert, fail and retry.
UniqueOperations ==
  \A d, e \in Deliveries : HasRow(d) /\ HasRow(e) /\ SameIdentity(d, e) => d = e

\* A delivery whose twin, the very same request, was the one recorded is never told
\* that it conflicts, even when the winner's row became visible between the two
\* statements of findExisting or while its own INSERT waited.
TwinNeverConflicts ==
  \A d, e \in Deliveries :
    (RequestOf[d] = RequestOf[e] /\ answer[e].kind = "created" /\ d # e) =>
      answer[d].kind \in {"none", "replay", "already_seen", "error"}

\* The loser of a race finds the winner when it looks again: the error
\* replayInTransaction returns otherwise is never returned.
LoserFindsWinner == \A d \in Deliveries : answer[d].kind # "not_found_after_race"

\* A message is recorded as seen only along with its operation: a redelivery that is
\* dropped for having been seen loses nothing.
SeenMeansRecorded ==
  \A d \in Deliveries : MessageOf[d] \in inbox =>
    \E e \in Deliveries : HasRow(e) /\ PayloadHash(RequestOf[e]) = PayloadHash(RequestOf[d])

\* What a PROCESSED reversal moved is the mirror image of what its reference moved
\* before it, in the same wallet.
ReversalMirrorsReference ==
  \A d \in Deliveries :
    (HasRow(d) /\ wagers[d].status = "PROCESSED" /\ IsReversal(RequestOf[d].kind)) =>
      \E w \in Wallets : \E i, j \in 1..Len(ledger[w]) :
        /\ i < j
        /\ ledger[w][j].wager = d
        /\ ledger[w][i].wager = wagers[d].ref
        /\ ledger[w][i].amount = ledger[w][j].amount
        /\ ledger[w][i].direction # ledger[w][j].direction

\* The ledger holds one reversal of an operation at the most: no two REFUND or ROLLBACK
\* operations give the same money back, in whatever order they arrive and are retried.
ReversedAtMostOnce ==
  \A d, e \in Deliveries :
    ( /\ HasRow(d) /\ HasRow(e)
      /\ IsReversal(RequestOf[d].kind) /\ IsReversal(RequestOf[e].kind)
      /\ RequestOf[d].ref = RequestOf[e].ref
      /\ EntriesOf(d) # {} /\ EntriesOf(e) # {} ) => d = e

\* The lock on the reference and the check made under it are enough: the unique index on
\* processed reversals (migration 000005) never has to refuse an update.
BackstopNeverFires == \A p \in Procs : pc[p] = "finish" => OnlyReversal(p)

\* A settled operation is never rewritten: "uma transacao terminal nunca muda".
TerminalIsFinal ==
  [][\A d \in Deliveries : Settled(wagers[d]) => wagers'[d] = wagers[d]]_vars

\* What the events of an operation have told so far is its status: the waiting notice
\* at most once, then one outcome and nothing after it.
EventsTellStatus ==
  \A d \in Deliveries :
    LET outcome == IF ~HasRow(d) THEN <<>>
                   ELSE IF wagers[d].status = "PROCESSED" THEN <<"Processed">>
                   ELSE IF wagers[d].status = "REJECTED" THEN <<"Rejected">> ELSE <<>>
        notice == <<"PendingReference">>
    IN  IF HasRow(d) /\ IsPending(d) THEN wagerEvents[d] = notice
        ELSE wagerEvents[d] \in {outcome, notice \o outcome} /\ (HasRow(d) \/ wagerEvents[d] = <<>>)

\* Transactions wait for one another in a circle only when two workers reapply rows that
\* refer to each other: no delivery is ever part of it and no wallet is locked meanwhile.
DeadlockOnlyBetweenWaitingRows ==
  \A p \in Procs : InDeadlock(p) =>
    /\ p \in Workers
    /\ draft[p].status = "PENDING_REFERENCE"
    /\ \A w \in Wallets : walletLock[w] # p

\* Every operation that waits for its reference is settled in the end, although its
\* reference may never arrive, workers fail and leases are left behind.
PendingIsSettled == \A d \in Deliveries : IsPending(d) ~> ~IsPending(d)

\* Every delivery gets an answer: no lock, unique key or message is waited for for ever.
EveryDeliveryEnds == \A d \in Deliveries : <>(pc[d] = "done")

\* The service, whatever its processes do, does what one clerk with a book would: each
\* commit records or settles one operation along with the money it moves, by the rules,
\* and every other step changes nothing anyone can see.
Book == INSTANCE WagerBook WITH
  Wagers <- Deliveries,
  status <- [d \in Deliveries |-> IF HasRow(d) THEN wagers[d].status ELSE "UNKNOWN"],
  balance <- [w \in Wallets |-> wallets[w].balance]
ImplementsBook == Book!Spec
=============================================================================
