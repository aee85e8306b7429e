--------------------------- MODULE WalletOpening ---------------------------
(***************************************************************************)
(* POST /wallets: concurrent calls that open a wallet, each with one SQL   *)
(* transaction that inserts the wallet and, for a positive balance, its    *)
(* OPENING operation, the first ledger entry and the events of both.       *)
(*                                                                         *)
(* The INSERT of the wallet waits for a rival that has inserted the same   *)
(* player and currency and not committed yet; what follows it writes rows  *)
(* nobody else can see and takes effect with the commit.  A wallet is      *)
(* named by the call that opened it.                                       *)
(***************************************************************************)
EXTENDS Money, Sequences, FiniteSets

CONSTANTS
  Openers,      \* calls of POST /wallets, the retries of a client among them
  Players,
  OpeningOf,    \* the player and the text of the initial balance each call carries
  Movements,    \* operations that move money, accepted at most once each
  Lags,         \* how late a process's clock may be (see Stamp)
  MaxFailures,  \* bound: transactions that fail, answers that are lost
  None

ASSUME OpeningAssumption ==
  /\ OpeningOf \in [Openers -> [player : Players, balance : Texts]]
  /\ Openers \cap Movements = {}
  /\ Lags \subseteq Nat
  /\ MaxFailures \in Nat

VARIABLES
  wallet,     \* the committed row of each call's wallet, None if there is none
  ledger,     \* the committed entries of each wallet, in commit order
  announced,  \* the versions its WalletBalanceChanged events carry, in commit order
  opening,    \* the next step of each call: "create", "commit" or "done"
  reply,      \* what each call was told
  failures    \* failed transactions and lost answers so far

openingVars == <<opening, reply, failures>>
bookVars == <<wallet, ledger, announced>>

Replies ==
  { "none", "created", "ErrInvalidAmount", "ErrNegativeAmount", "ErrAmountOverflow",
    "ErrWalletAlreadyExists", "error" }

\* The status code a call is answered with: an error that is not listed is a failure that
\* is said to be temporary.
mapError(answer) ==
  CASE answer = "created" -> 201
    [] answer \in {"ErrInvalidAmount", "ErrNegativeAmount"} -> 400
    [] answer = "ErrWalletAlreadyExists" -> 409
    [] OTHER -> 503

WalletRows == [ player : Players, balance : Moneys, version : Nat ]
Directions == {"DEBIT", "CREDIT"}
LedgerEntries ==
  [ source : Openers \cup Movements, direction : Directions, amount : Moneys,
    before : Moneys, after : Moneys, stamp : Int ]

ASSUME RowAssumption == None \notin WalletRows \cup Int

OpeningTypeOK ==
  /\ wallet \in [Openers -> WalletRows \cup {None}]
  /\ ledger \in [Openers -> Seq(LedgerEntries)]
  /\ announced \in [Openers -> Seq(Nat)]
  /\ opening \in [Openers -> {"create", "commit", "done"}]
  /\ reply \in [Openers -> Replies]
  /\ failures \in Nat

OpeningInit ==
  /\ wallet = [o \in Openers |-> None]
  /\ ledger = [o \in Openers |-> <<>>]
  /\ announced = [o \in Openers |-> <<>>]
  /\ opening = [o \in Openers |-> "create"]
  /\ reply = [o \in Openers |-> "none"]
  /\ failures = 0

-----------------------------------------------------------------------------
Open(o) == wallet[o] # None
Initial(o) == NewMoneyFromString(OpeningOf[o].balance)
NewBalance(o) == Initial(o).money

\* Mutation: the currency is compared as it was written.
SameSpelling(o, p) ==
  /\ OpeningOf[o].player = OpeningOf[p].player
  /\ OpeningOf[o].balance.currency = OpeningOf[p].balance.currency

\* uq_wallets_player_currency.
SameHolder(o, p) ==
  /\ OpeningOf[o].player = OpeningOf[p].player
  /\ NewBalance(o).currency = NewBalance(p).currency

Tell(o, what) ==
  /\ opening' = [opening EXCEPT ![o] = "done"]
  /\ reply' = [reply EXCEPT ![o] = what]

\* Entries of one wallet are two ticks apart on a good clock.  A lag that is odd and
\* longer puts an entry before some that were committed earlier; created_at and id are
\* one number here.
Stamp(w, lag) == 2 * Len(ledger[w]) + 2 - lag

Movement(source, direction, amount, before, after, stamp) ==
  [ source |-> source, direction |-> direction, amount |-> amount,
    before |-> before, after |-> after, stamp |-> stamp ]

\* What NewWalletLedgerEntry expects the balance to be after a movement.
Expected(direction, amount, before) ==
  IF direction = "CREDIT" THEN Add(before, amount) ELSE Subtract(before, amount)

\* It refuses an entry whose balances do not agree with its amount.
NewWalletLedgerEntryOK(direction, amount, before, after) ==
  LET expected == Expected(direction, amount, before)
  IN  expected.error = "none" /\ String(expected.money) = String(after)

-----------------------------------------------------------------------------
\* The handler parses the balance and NewWallet refuses a negative one.
Accepted(o) == Initial(o).error = "none" /\ ~IsNegative(NewBalance(o))

Refuse(o) ==
  /\ opening[o] = "create"
  /\ ~Accepted(o)
  /\ Tell(o, IF Initial(o).error # "none" THEN Initial(o).error ELSE "ErrNegativeAmount")
  /\ UNCHANGED <<bookVars, failures>>

Taken(o) == \E p \in Openers \ {o} : SameHolder(o, p) /\ Open(p)

\* Mutation: a call waits for whoever opened the wallet, for ever.
BlockedForEver(o) ==
  \E p \in Openers \ {o} : SameHolder(o, p) /\ (Open(p) \/ opening[p] = "commit")
Blocked(o) == \E p \in Openers \ {o} : SameHolder(o, p) /\ opening[p] = "commit"

\* Mutation: a rival that has not committed is a conflict already.
CreateWithoutWaiting(o) ==
  /\ opening[o] = "create"
  /\ Accepted(o)
  /\ \/ (Taken(o) \/ Blocked(o)) /\ Tell(o, "ErrWalletAlreadyExists")
     \/ ~(Taken(o) \/ Blocked(o)) /\ opening' = [opening EXCEPT ![o] = "commit"] /\ UNCHANGED reply
  /\ UNCHANGED <<bookVars, failures>>

\* INSERT INTO wallets, once no rival's transaction is open.
Create(o) ==
  /\ opening[o] = "create"
  /\ Accepted(o)
  /\ ~Blocked(o)
  /\ \/ Taken(o) /\ Tell(o, "ErrWalletAlreadyExists")
     \/ ~Taken(o) /\ opening' = [opening EXCEPT ![o] = "commit"] /\ UNCHANGED reply
  /\ UNCHANGED <<bookVars, failures>>

Zero(o) == MoneyFromCents(0, NewBalance(o).currency)

\* A positive balance comes with an entry from zero and its events, which announce
\* version 1; a wallet opened with nothing has neither.
OpeningEntry(o, lag) ==
  Movement(o, "CREDIT", NewBalance(o), Zero(o), NewBalance(o), Stamp(o, lag))
Record(o) ==
  /\ wallet' = [wallet EXCEPT ![o] =
       [player |-> OpeningOf[o].player, balance |-> NewBalance(o), version |-> 1]]
  /\ IF IsZero(NewBalance(o)) THEN UNCHANGED <<ledger, announced>>
     ELSE /\ NewWalletLedgerEntryOK("CREDIT", NewBalance(o), Zero(o), NewBalance(o))
          /\ \E lag \in Lags : ledger' = [ledger EXCEPT ![o] = Append(@, OpeningEntry(o, lag))]
          /\ announced' = [announced EXCEPT ![o] = Append(@, 1)]

\* The commit, and its answer.
CommitOpening(o) ==
  /\ opening[o] = "commit"
  /\ Record(o)
  /\ Tell(o, "created")
  /\ UNCHANGED failures

\* The commit goes through and the answer is lost.
LoseAnswer(o) ==
  /\ opening[o] = "commit"
  /\ failures < MaxFailures
  /\ failures' = failures + 1
  /\ Record(o)
  /\ Tell(o, "error")

\* A statement fails, the client goes away or the process dies: everything is rolled back.
FailOpening(o) ==
  /\ opening[o] = "commit"
  /\ failures < MaxFailures
  /\ failures' = failures + 1
  /\ Tell(o, "error")
  /\ UNCHANGED bookVars

OpeningNext ==
  \E o \in Openers :
    Refuse(o) \/ Create(o) \/ CommitOpening(o) \/ LoseAnswer(o) \/ FailOpening(o)
=============================================================================
