-------------------------- MODULE MCOutboxPublisher --------------------------
(***************************************************************************)
(* OutboxPublisher over two balance changes of one wallet, in milliseconds *)
(* of their own.                                                           *)
(***************************************************************************)
EXTENDS OutboxInvariants

CONSTANTS b1, b2, wallet

OneWallet == [e \in Events |-> wallet]
Instants == [e \in Events |-> IF e = b1 THEN 1 ELSE 2]
=============================================================================
