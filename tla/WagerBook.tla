------------------------------ MODULE WagerBook ------------------------------
(***************************************************************************)
(* What the service promises about wagering operations, as if one clerk    *)
(* kept a book: an operation is recorded once, all at once with the money  *)
(* it moves; it may wait for its reference; once settled it stays as it    *)
(* is.  WagerService is shown to implement this.                           *)
(***************************************************************************)
EXTENDS WagerRules

CONSTANTS Wagers, RequestOf, OpeningBalance

VARIABLES
  status,   \* of each operation, "UNKNOWN" until it is recorded
  balance   \* of each wallet

vars == <<status, balance>>

Recorded(d) == status[d] # "UNKNOWN"

\* No recorded operation has this one's key or its external id.
Fresh(d) ==
  \A e \in Wagers : Recorded(e) =>
    RequestOf[e].key # RequestOf[d].key /\ RequestOf[e].external # RequestOf[d].external

\* r is what d refers to, it is PROCESSED and the rules allow it; a reversal is the
\* first of its reference.
GoodReference(d, r) ==
  /\ RequestOf[r].external = RequestOf[d].ref
  /\ status[r] = "PROCESSED"
  /\ CheckReferenceRules(RequestOf[d], RequestOf[r]) = None
  /\ IsReversal(RequestOf[d].kind) =>
       \A e \in Wagers : ~( /\ status[e] = "PROCESSED"
                            /\ IsReversal(RequestOf[e].kind)
                            /\ RequestOf[e].ref = RequestOf[d].ref )

Move(d, direction) ==
  LET q == RequestOf[d]
  IN  /\ direction = "DEBIT" => balance[q.wallet] >= q.amount
      /\ balance' = [balance EXCEPT ![q.wallet] = BalanceAfter(direction, @, q.amount)]

Process(d) ==
  /\ status' = [status EXCEPT ![d] = "PROCESSED"]
  /\ IF ~MovesMoney(RequestOf[d]) THEN UNCHANGED balance
     ELSE IF NeedsReference(RequestOf[d])
       THEN \E r \in Wagers :
              /\ GoodReference(d, r)
              /\ Move(d, MovementDirection(RequestOf[d].kind, RequestOf[r].kind))
       ELSE Move(d, MovementDirection(RequestOf[d].kind, None))

\* Only an operation that debits or refers to another can be refused.
Refuse(d) ==
  /\ RequestOf[d].kind = "BET" \/ NeedsReference(RequestOf[d])
  /\ status' = [status EXCEPT ![d] = "REJECTED"]
  /\ UNCHANGED balance

Wait(d) ==
  /\ NeedsReference(RequestOf[d])
  /\ status' = [status EXCEPT ![d] = "PENDING_REFERENCE"]
  /\ UNCHANGED balance

Record(d) ==
  /\ ~Recorded(d)
  /\ Fresh(d)
  /\ RequestOf[d].wallet \in Wallets
  /\ Process(d) \/ Refuse(d) \/ Wait(d)

Settle(d) ==
  /\ status[d] = "PENDING_REFERENCE"
  /\ Process(d) \/ Refuse(d)

Init ==
  /\ status = [d \in Wagers |-> "UNKNOWN"]
  /\ balance = OpeningBalance

Next == \E d \in Wagers : Record(d) \/ Settle(d)

Spec == Init /\ [][Next]_vars
=============================================================================
