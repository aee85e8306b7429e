---------------------------- MODULE MCWalletDesk ----------------------------
(***************************************************************************)
(* WalletDesk with integers of eight bits and ten cents in a unit: 12.7 is *)
(* the largest amount and, as in the code, a whole part of 12 with more    *)
(* than 7 cents wraps around.                                              *)
(***************************************************************************)
EXTENDS WalletInvariants, TLC

Amt(whole, cents, currency) ==
  [wellFormed |-> TRUE, negative |-> FALSE, whole |-> whole, cents |-> cents, currency |-> currency]
Opening(balance) == [player |-> "alice", balance |-> balance]
Moved(direction, amount) == [direction |-> direction, amount |-> amount]

Codes == "BRL" :> "BRL" @@ "brl" :> "BRL"
OnGoodClocks == {0}
OneLateClock == {0, 3}

\* One player's wallet is opened with a text that wraps around, with nothing and, in
\* another spelling, with the largest balance but one.
RivalOpenings ==
  "o1" :> Opening(Amt(12, 9, "BRL")) @@ "o2" :> Opening(Amt(0, 0, "BRL"))
    @@ "o3" :> Opening(Amt(12, 6, "brl"))

\* Amounts that wrap around, reach the limit and take it all.
LimitMovements ==
  "m1" :> Moved("CREDIT", Amt(12, 9, "BRL")) @@ "m2" :> Moved("CREDIT", Amt(0, 1, "brl"))
    @@ "m3" :> Moved("DEBIT", Amt(12, 6, "BRL")) @@ "m4" :> Moved("CREDIT", Amt(12, 6, "BRL"))

\* A wallet opened with something, and three movements.
OneOpening == "o1" :> Opening(Amt(1, 0, "BRL"))
FewMovements ==
  "m1" :> Moved("CREDIT", Amt(0, 1, "BRL")) @@ "m2" :> Moved("DEBIT", Amt(0, 2, "BRL"))
    @@ "m3" :> Moved("CREDIT", Amt(0, 4, "BRL"))
=============================================================================
