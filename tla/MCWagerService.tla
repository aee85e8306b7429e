--------------------------- MODULE MCWagerService ---------------------------
(***************************************************************************)
(* Small instances of WagerService: each scenario is a table of the        *)
(* requests its deliveries carry.                                          *)
(***************************************************************************)
EXTENDS WagerInvariants, TLC

Wager(key, external, kind, amount, ref) ==
  [ key |-> key, external |-> external, kind |-> kind, wallet |-> "alice",
    round |-> "r1", amount |-> amount, ref |-> ref ]

Opened == [w \in Wallets |-> 3]
OpenedWithOne == [w \in Wallets |-> 1]
OpenedWithTwo == [w \in Wallets |-> 2]
OverHttp == [d \in Deliveries |-> None]

\* The same BET, which the balance may not cover, over HTTP, once as a message and once
\* as its redelivery; a request that reuses its key for a wallet that does not exist;
\* and a LOSS that reuses its external id.
IdempotencyRequests ==
  [d \in {"d1", "d2", "d3"} |-> Wager("k1", "e1", "BET", 2, None)]
    @@ "d4" :> [Wager("k1", "e2", "BET", 2, None) EXCEPT !.wallet = None]
    @@ "d5" :> Wager("k2", "e1", "LOSS", 0, None)
IdempotencyMessages ==
  [d \in {"d1", "d4", "d5"} |-> None] @@ [d \in {"d2", "d3"} |-> "m1"]

\* A bet and two reversals of it.
ReversalRequests ==
  "d1" :> Wager("k1", "e1", "BET", 2, None) @@ "d2" :> Wager("k2", "e2", "REFUND", 2, "e1")
    @@ "d3" :> Wager("k3", "e3", "ROLLBACK", 2, "e1")

\* A chain of references, the rollback of a win that pays a bet, and another bet: by the
\* order of arrival the first bet finds no balance, or the rollback does not.
ChainRequests ==
  "d1" :> Wager("k1", "e1", "BET", 2, None) @@ "d2" :> Wager("k2", "e2", "WIN", 1, "e1")
    @@ "d3" :> Wager("k3", "e3", "ROLLBACK", 1, "e2") @@ "d4" :> Wager("k4", "e4", "BET", 1, None)

\* Two reversals that refer to each other.
CircleRequests ==
  "d1" :> Wager("k1", "e1", "ROLLBACK", 1, "e2") @@ "d2" :> Wager("k2", "e2", "ROLLBACK", 1, "e1")

\* A bet and one reversal of it.
PairRequests ==
  "d1" :> Wager("k1", "e1", "BET", 2, None) @@ "d2" :> Wager("k2", "e2", "REFUND", 2, "e1")
=============================================================================
