----------------------------- MODULE WalletDesk -----------------------------
(***************************************************************************)
(* A player's wallet as its owner and the back office see it: wallets are  *)
(* opened, operations move their money, and meanwhile clients read the     *)
(* ledger page by page and reconciliations compare it with the balance.    *)
(*                                                                         *)
(* The database transaction of a movement updates the wallet's row first   *)
(* and keeps it until the commit, so each movement is one step here; what  *)
(* WagerService says of deliveries, references and retries is left out.    *)
(* A client's request for a page and each SELECT of a reconciliation are   *)
(* steps of their own, READ COMMITTED giving each its own snapshot.        *)
(***************************************************************************)
EXTENDS WalletOpening

CONSTANTS
  MovementOf,  \* the direction and the text of the amount each movement carries
  Auditors,    \* callers of POST /wallets/:walletId/reconciliation
  Clients,     \* readers of GET /wallets/:walletId/ledger
  PageLimit    \* the limit they ask for: the handler refuses one that is not positive

ASSUME DeskAssumption ==
  /\ MovementOf \in [Movements -> [direction : Directions, amount : Texts]]
  /\ PageLimit \in Nat \ {0}

VARIABLES
  settled,  \* movements that have been recorded, whether they moved money or were rejected
  audit,    \* what each reconciliation has read
  reading   \* the pages each client has been given

deskVars == <<settled, audit, reading>>
vars == <<bookVars, openingVars, deskVars>>

Audits ==
  [ step : {"sum", "done", "error"}, wallet : Openers, stored : Moneys, version : Nat,
    calculated : Int, difference : Int, checked : Nat ]
Readings ==
  [ wallet : Openers, pages : Seq(SUBSET (Nat \ {0})), cursors : Seq(Int), more : BOOLEAN ]

ASSUME ReadAssumption == None \notin Audits \cup Readings

TypeOK ==
  /\ OpeningTypeOK
  /\ settled \subseteq Movements
  /\ audit \in [Auditors -> Audits \cup {None}]
  /\ reading \in [Clients -> Readings \cup {None}]

Init ==
  /\ OpeningInit
  /\ settled = {}
  /\ audit = [a \in Auditors |-> None]
  /\ reading = [c \in Clients |-> None]

-----------------------------------------------------------------------------
(* Movements. *)

Amount(m) == NewMoneyFromString(MovementOf[m].amount).money
Direction(m) == MovementOf[m].direction
Balance(w) == wallet[w].balance

\* Mutation: only zero is refused.
NotZero(m, w) ==
  /\ NewMoneyFromString(MovementOf[m].amount).error = "none"
  /\ ~IsZero(Amount(m))
  /\ Amount(m).currency = Balance(w).currency

\* NewExternalWagerTransaction takes a positive amount, the use case one in the wallet's
\* currency.
AmountOK(m, w) ==
  /\ NewMoneyFromString(MovementOf[m].amount).error = "none"
  /\ ~IsNegative(Amount(m)) /\ ~IsZero(Amount(m))
  /\ Amount(m).currency = Balance(w).currency

Updated(m, w) ==
  IF Direction(m) = "DEBIT" THEN Balance(w).cents - Amount(m).cents
                            ELSE Balance(w).cents + Amount(m).cents

\* A debit is conditional on the balance; the column takes no negative balance and none
\* that does not fit in a BIGINT, and either makes the whole transaction fail.
Covered(m, w) == Balance(w).cents >= Amount(m).cents
ColumnTakes(m, w) == Updated(m, w) \in 0..MaxInt

After(m, w) == MoneyFromCents(Updated(m, w), Balance(w).currency)

\* The balance before is reconstructed from the one the UPDATE returned.
Before(m, w) ==
  IF Direction(m) = "DEBIT" THEN Add(After(m, w), Amount(m)) ELSE Subtract(After(m, w), Amount(m))

\* Mutation: the version is the one before the UPDATE.
VersionRead(w) == wallet[w].version
VersionAfter(w) == wallet[w].version + 1

\* The UPDATE, the entry, the operation and its events, in one commit.
Move(m, w) ==
  /\ m \notin settled
  /\ Open(w)
  /\ AmountOK(m, w)
  /\ Direction(m) = "DEBIT" => Covered(m, w)
  /\ ColumnTakes(m, w)
  /\ Before(m, w).error = "none"
  /\ NewWalletLedgerEntryOK(Direction(m), Amount(m), Before(m, w).money, After(m, w))
  /\ settled' = settled \cup {m}
  /\ wallet' = [wallet EXCEPT ![w].balance = After(m, w), ![w].version = @ + 1]
  /\ \E lag \in Lags :
       ledger' = [ledger EXCEPT ![w] = Append(@,
         Movement(m, Direction(m), Amount(m), Before(m, w).money, After(m, w), Stamp(w, lag)))]
  /\ announced' = [announced EXCEPT ![w] = Append(@, VersionAfter(w))]
  /\ UNCHANGED <<openingVars, audit, reading>>

\* A debit the balance does not cover is recorded as rejected.
Reject(m, w) ==
  /\ m \notin settled
  /\ Open(w)
  /\ AmountOK(m, w)
  /\ Direction(m) = "DEBIT" /\ ~Covered(m, w)
  /\ settled' = settled \cup {m}
  /\ UNCHANGED <<bookVars, openingVars, audit, reading>>

-----------------------------------------------------------------------------
(* Reconciliation. *)

\* Mutation: every entry adds to the balance.
Unsigned(entry) == entry.amount.cents
Signed(entry) == IF entry.direction = "CREDIT" THEN entry.amount.cents ELSE -entry.amount.cents

Total(amounts) ==
  LET sum[i \in 0..Len(amounts)] == IF i = 0 THEN 0 ELSE sum[i - 1] + amounts[i]
  IN  sum[Len(amounts)]

\* SumByWallet.
Net(entries) == Total([i \in 1..Len(entries) |-> Signed(entries[i])])

Busy(a) == audit[a] # None /\ audit[a].step = "sum"

\* FindByID; a wallet that does not exist is a 404.
ReadWallet(a, w) ==
  /\ ~Busy(a)
  /\ Open(w)
  /\ audit' = [audit EXCEPT ![a] =
       [ step |-> "sum", wallet |-> w, stored |-> Balance(w), version |-> wallet[w].version,
         calculated |-> 0, difference |-> 0, checked |-> 0 ]]
  /\ UNCHANGED <<bookVars, openingVars, settled, reading>>

\* SumByWallet, in the same database transaction, and the comparison of what was read.
SumLedger(a) ==
  /\ Busy(a)
  /\ LET entries == ledger[audit[a].wallet]
         calculated == MoneyFromCents(Net(entries), audit[a].stored.currency)
         difference == Subtract(audit[a].stored, calculated)
     IN  audit' = [audit EXCEPT
           ![a].step = IF difference.error = "none" THEN "done" ELSE "error",
           ![a].calculated = calculated.cents,
           ![a].difference = difference.money.cents,
           ![a].checked = Len(entries)]
  /\ UNCHANGED <<bookVars, openingVars, settled, reading>>

-----------------------------------------------------------------------------
(* The pages of the ledger. *)

Key(w, i) == ledger[w][i].stamp

\* Mutation: the condition on the cursor is left out.
AllRows(w, cursor) == 1..Len(ledger[w])
RowsAfter(w, cursor) == {i \in 1..Len(ledger[w]) : cursor = None \/ Key(w, i) > cursor}

Rank(w, rows, i) == Cardinality({j \in rows : Key(w, j) < Key(w, i)})

\* The first rows after the cursor: as many as the limit are the page, one more is
\* only looked at.
Page(w, rows) == {i \in rows : Rank(w, rows, i) < PageLimit}
LookAhead(w, rows) == {i \in rows : Rank(w, rows, i) = PageLimit}

\* Mutation: the cursor names the row after the one that was looked at, if there is one.
CursorTooFar(w, rows) ==
  {Key(w, i) : i \in {i \in rows : Rank(w, rows, i) > PageLimit \/ Cardinality(rows) = PageLimit + 1}}
\* The cursor names the row that was looked at.
NextCursor(w, rows) == {Key(w, i) : i \in LookAhead(w, rows)}

ListByWallet(c, w, cursor, pages, cursors) ==
  LET rows == RowsAfter(w, cursor)
  IN  reading' = [reading EXCEPT ![c] =
        [ wallet |-> w,
          pages |-> Append(pages, Page(w, rows)),
          cursors |-> IF LookAhead(w, rows) = {} THEN cursors
                      ELSE Append(cursors, CHOOSE k \in NextCursor(w, rows) : TRUE),
          more |-> LookAhead(w, rows) # {} ]]

\* A client asks for the first page of an open wallet.
FirstPage(c, w) ==
  /\ reading[c] = None
  /\ Open(w)
  /\ ListByWallet(c, w, None, <<>>, <<>>)
  /\ UNCHANGED <<bookVars, openingVars, settled, audit>>

\* It follows the cursor it was given.
NextPage(c) ==
  /\ reading[c] # None /\ reading[c].more
  /\ LET cursors == reading[c].cursors
     IN  ListByWallet(c, reading[c].wallet, cursors[Len(cursors)], reading[c].pages, cursors)
  /\ UNCHANGED <<bookVars, openingVars, settled, audit>>

-----------------------------------------------------------------------------
OpenerStep == OpeningNext /\ UNCHANGED deskVars

Next ==
  \/ OpenerStep
  \/ \E m \in Movements, w \in Openers : Move(m, w) \/ Reject(m, w)
  \/ \E a \in Auditors : SumLedger(a) \/ \E w \in Openers : ReadWallet(a, w)
  \/ \E c \in Clients : NextPage(c) \/ \E w \in Openers : FirstPage(c, w)

Spec == Init /\ [][Next]_vars

\* The database goes on with some call that can go on; nothing obliges a caller to move
\* money or to read.
Serve == \E o \in Openers : (Refuse(o) \/ Create(o) \/ CommitOpening(o)) /\ UNCHANGED deskVars
FairSpec == Spec /\ WF_vars(Serve)
=============================================================================
