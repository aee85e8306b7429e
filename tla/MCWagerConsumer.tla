--------------------------- MODULE MCWagerConsumer ---------------------------
(***************************************************************************)
(* WagerConsumer over three messages of one group: one that can be         *)
(* processed, one that makes every attempt fail and one that is refused.   *)
(***************************************************************************)
EXTENDS ConsumerInvariants

CONSTANTS bet, broken, refused, player

OneGroup == [m \in Messages |-> player]
Outcomes ==
  [m \in Messages |-> IF m = broken THEN "poison" ELSE IF m = refused THEN "permanent" ELSE "good"]
=============================================================================
