---------------------------- MODULE AccountBook ----------------------------
(***************************************************************************)
(* What the wallets promise: one account for a player and a currency,      *)
(* opened once with the amount that was asked for, and moved by each       *)
(* operation once, by exactly its amount, within the limits or not at all. *)
(* Amounts are plain numbers here and every step is one of a clerk's.      *)
(***************************************************************************)
EXTENDS Integers

CONSTANTS
  Holders,        \* a player and a currency
  Limit,          \* the largest balance
  Closed,         \* the balance of an account that is not open
  OpeningsFor,    \* the amounts asked for when opening each account
  Operations,
  IsDebit,        \* whether an operation takes money
  AmountOf,       \* the amount it moves
  MayMove         \* the accounts it may be about

VARIABLES account, settled

vars == <<account, settled>>

Init ==
  /\ account = [h \in Holders |-> Closed]
  /\ settled = {}

OpenAccount(h) ==
  /\ account[h] = Closed
  /\ \E amount \in OpeningsFor[h] : amount <= Limit /\ account' = [account EXCEPT ![h] = amount]
  /\ UNCHANGED settled

Credit(m, h) ==
  /\ m \notin settled
  /\ account[h] # Closed /\ h \in MayMove[m] /\ ~IsDebit[m]
  /\ account[h] + AmountOf[m] <= Limit
  /\ account' = [account EXCEPT ![h] = @ + AmountOf[m]]
  /\ settled' = settled \cup {m}

Debit(m, h) ==
  /\ m \notin settled
  /\ account[h] # Closed /\ h \in MayMove[m] /\ IsDebit[m]
  /\ IF account[h] >= AmountOf[m] THEN account' = [account EXCEPT ![h] = @ - AmountOf[m]]
                                  ELSE UNCHANGED account
  /\ settled' = settled \cup {m}

Next ==
  \E h \in Holders : OpenAccount(h) \/ \E m \in Operations : Credit(m, h) \/ Debit(m, h)

Spec == Init /\ [][Next]_vars
=============================================================================
