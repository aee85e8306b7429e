---------------------------- MODULE EventDelivery ----------------------------
(***************************************************************************)
(* What the outbox promises: every event is delivered at least once and    *)
(* then, and only then, confirmed.  How many publishers there are, what    *)
(* they fail at and who holds which lease is none of a reader's business.  *)
(***************************************************************************)
EXTENDS Naturals

CONSTANT Events

VARIABLES
  state,   \* "unborn", "pending" or "confirmed"
  copies   \* how often each event was delivered

vars == <<state, copies>>

Init ==
  /\ state = [e \in Events |-> "unborn"]
  /\ copies = [e \in Events |-> 0]

Append(e) ==
  /\ state[e] = "unborn"
  /\ state' = [state EXCEPT ![e] = "pending"]
  /\ UNCHANGED copies

\* A confirmed event too, by a publisher that does not know yet.
Deliver(e) ==
  /\ state[e] # "unborn"
  /\ copies' = [copies EXCEPT ![e] = @ + 1]
  /\ UNCHANGED state

Confirm(e) ==
  /\ state[e] = "pending"
  /\ copies[e] > 0
  /\ state' = [state EXCEPT ![e] = "confirmed"]
  /\ UNCHANGED copies

Next == \E e \in Events : Append(e) \/ Deliver(e) \/ Confirm(e)

Spec == Init /\ [][Next]_vars

LiveSpec ==
  /\ Spec
  /\ \A e \in Events : state[e] = "pending" ~> state[e] = "confirmed"
=============================================================================
