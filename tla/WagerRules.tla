----------------------------- MODULE WagerRules -----------------------------
(***************************************************************************)
(* The business rules of a wagering operation, as pure operators: the      *)
(* kinds and statuses of a transaction, the checks its constructor makes,  *)
(* the payload hash that decides whether two requests are the same         *)
(* operation, and what an operation may refer to.                          *)
(*                                                                         *)
(* Identity is always per provider in the code, (provider, key) and        *)
(* (provider, external id), so a member of Keys or Externals here stands   *)
(* for such a pair.  Player and currency are functions of the wallet once  *)
(* a request has been accepted, so a request carries its wallet only.      *)
(***************************************************************************)
EXTENDS Integers

CONSTANTS
  Wallets,    \* the wallets that are open
  Keys,       \* idempotency keys, each with its provider
  Externals,  \* external transaction ids, each with its provider
  Rounds,     \* game rounds
  None        \* the absent value: SQL NULL, Go nil, an empty string

Kinds == {"BET", "WIN", "LOSS", "REFUND", "ROLLBACK"}

\* MarkFailed exists in the domain, but nothing calls it; a row is PENDING only
\* inside the database transaction that inserts it.
Statuses == {"PENDING", "PENDING_REFERENCE", "PROCESSED", "REJECTED", "FAILED"}

Terminal == {"PROCESSED", "REJECTED", "FAILED"}

FailureCodes ==
  { "INSUFFICIENT_BALANCE", "REFERENCE_NOT_FOUND", "REFERENCE_NOT_PROCESSED",
    "REFERENCE_MISMATCH", "REFERENCE_INVALID_KIND", "REFERENCE_ALREADY_REVERSED",
    "REVERSAL_AMOUNT_MISMATCH", "REVERSAL_INSUFFICIENT_BALANCE" }

\* wallet = None: the request names a wallet that does not exist, or disagrees
\* with it about the player or the currency.
Requests ==
  [ key : Keys, external : Externals, kind : Kinds, wallet : Wallets \cup {None},
    round : Rounds, amount : Nat, ref : Externals \cup {None} ]

IsReversal(kind) == kind \in {"REFUND", "ROLLBACK"}

\* What NewExternalWagerTransaction accepts.
ValidRequest(q) ==
  /\ q.kind = "LOSS" => q.amount = 0
  /\ q.kind # "LOSS" => q.amount > 0
  /\ IsReversal(q.kind) => q.ref # None

\* Every business field takes part in the hash; the key does not.
PayloadHash(q) ==
  <<q.external, q.kind, q.wallet, q.round, q.amount, q.ref>>

NeedsReference(q) == IsReversal(q.kind) \/ (q.kind = "WIN" /\ q.ref # None)

MovesMoney(q) == q.kind # "LOSS"

\* Which kinds of operation an operation of this kind may refer to.
ReferableKinds(kind) ==
  IF kind = "ROLLBACK" THEN {"BET", "WIN", "REFUND"} ELSE {"BET"}

\* The failure code of the first rule that q and its reference r break, or None.
CheckReferenceRules(q, r) ==
  IF r.wallet # q.wallet \/ r.round # q.round THEN "REFERENCE_MISMATCH"
  ELSE IF r.kind \notin ReferableKinds(q.kind) THEN "REFERENCE_INVALID_KIND"
  ELSE IF IsReversal(q.kind) /\ q.amount # r.amount THEN "REVERSAL_AMOUNT_MISMATCH"
  ELSE None

\* Mutation: a reversal always gives money back.
ReversalCredits(kind, refKind) == IF kind = "BET" THEN "DEBIT" ELSE "CREDIT"

\* refKind = None for an operation that moves money on its own account.
MovementDirection(kind, refKind) ==
  IF kind = "BET" \/ (kind = "ROLLBACK" /\ refKind # "BET") THEN "DEBIT" ELSE "CREDIT"

\* The balance after a movement, and the balance before it as the code
\* reconstructs it from the balance the UPDATE returned.
BalanceAfter(direction, balance, amount) ==
  IF direction = "DEBIT" THEN balance - amount ELSE balance + amount

\* Mutation: the direction is forgotten.
BeforeCredit(direction, after, amount) == after - amount
BalanceBefore(direction, after, amount) ==
  IF direction = "DEBIT" THEN after + amount ELSE after - amount

InsufficientCode(kind) ==
  IF kind = "BET" THEN "INSUFFICIENT_BALANCE" ELSE "REVERSAL_INSUFFICIENT_BALANCE"
=============================================================================
