---------------------------- MODULE MoneyProofs ----------------------------
(***************************************************************************)
(* The arithmetic of Money is exact for every width of the machine integer *)
(* and every scale: an operation that returns no error returns what        *)
(* unbounded integers would give, and it returns one only if it must.      *)
(***************************************************************************)
EXTENDS Money, TLAPS

LEMMA WrapExact == ASSUME NEW n \in Ints PROVE Wrap(n) = n
BY MoneyAssumption DEF Ints, MinInt, Wrap

\* Add (money.go:147-160) looks at the wrapped sum only, and yet it finds exactly the sums
\* that do not fit: between amounts of one currency it returns the sum or ErrAmountOverflow.
THEOREM AddIsExact ==
  ASSUME NEW m \in Moneys, NEW other \in Moneys, m.currency = other.currency
  PROVE  Add(m, other) = IF m.cents + other.cents \in Ints
                           THEN Value(MoneyFromCents(m.cents + other.cents, m.currency))
                           ELSE Failed("ErrAmountOverflow")
<1> DEFINE sum == Wrap(m.cents + other.cents)
<1>1. m.cents \in Ints /\ other.cents \in Ints /\ MaxInt \in Nat
  BY MoneyAssumption DEF Moneys
<1>2. CASE m.cents + other.cents \in Ints
  <2>1. sum = m.cents + other.cents
    BY <1>2, WrapExact
  <2>2. ~((other.cents > 0 /\ sum < m.cents) \/ (other.cents < 0 /\ sum > m.cents))
    BY <1>1, <2>1 DEF Ints, MinInt
  <2> QED
    BY <1>2, <2>1, <2>2 DEF Add
<1>3. CASE m.cents + other.cents \notin Ints
  <2>1. (other.cents > 0 /\ sum < m.cents) \/ (other.cents < 0 /\ sum > m.cents)
    BY <1>1, <1>3 DEF Ints, MinInt, Wrap
  <2> QED
    BY <1>3, <2>1 DEF Add
<1> QED
  BY <1>2, <1>3

\* Subtract (money.go:165-174) finds exactly the differences that do not fit, the negation
\* of the least integer among them.
THEOREM SubtractIsExact ==
  ASSUME NEW m \in Moneys, NEW other \in Moneys, m.currency = other.currency
  PROVE  Subtract(m, other) = IF m.cents - other.cents \in Ints
                                THEN Value(MoneyFromCents(m.cents - other.cents, m.currency))
                                ELSE Failed("ErrAmountOverflow")
<1> DEFINE diff == Wrap(m.cents - other.cents)
<1>1. m.cents \in Ints /\ other.cents \in Ints /\ MaxInt \in Nat
  BY MoneyAssumption DEF Moneys
<1>2. CASE m.cents - other.cents \in Ints
  <2>1. diff = m.cents - other.cents
    BY <1>2, WrapExact
  <2>2. ~((other.cents < 0 /\ diff < m.cents) \/ (other.cents > 0 /\ diff > m.cents))
    BY <1>1, <2>1 DEF Ints, MinInt
  <2> QED
    BY <1>2, <2>1, <2>2 DEF Subtract
<1>3. CASE m.cents - other.cents \notin Ints
  <2>1. (other.cents < 0 /\ diff < m.cents) \/ (other.cents > 0 /\ diff > m.cents)
    BY <1>1, <1>3 DEF Ints, MinInt, Wrap
  <2> QED
    BY <1>3, <2>1 DEF Subtract
<1> QED
  BY <1>2, <1>3

\* Negate (money.go:179-181) is exact but for the least integer, which it returns unchanged.
THEOREM NegateIsExactButOnce ==
  ASSUME NEW m \in Moneys
  PROVE  Negate(m) = IF m.cents = MinInt THEN m ELSE MoneyFromCents(-m.cents, m.currency)
<1>1. m.cents \in Ints /\ MaxInt \in Nat /\ m = MoneyFromCents(m.cents, m.currency)
  BY MoneyAssumption DEF Moneys, MoneyFromCents
<1>2. Wrap(-m.cents) = IF m.cents = MinInt THEN m.cents ELSE -m.cents
  BY <1>1 DEF Ints, MinInt, Wrap
<1> QED
  BY <1>1, <1>2 DEF Negate

LEMMA ScaledFits ==
  ASSUME NEW whole \in Nat, whole <= MaxSafeWhole
  PROVE  whole * Scale \in Nat /\ whole * Scale <= MaxInt
<1>1. MaxSafeWhole \in Nat /\ MaxSafeWhole * Scale <= MaxInt
  BY MoneyAssumption DEF MaxSafeWhole
<1>2. whole * Scale <= MaxSafeWhole * Scale
  BY <1>1, MoneyAssumption
<1> QED
  BY <1>1, <1>2, MoneyAssumption

\* What NewMoneyFromString (money.go:54-122) makes of a text without returning an error is
\* the amount the text writes or, close to the limit, a negative one: never another amount
\* a wallet or an operation would take.
THEOREM ParsedIsExactOrNegative ==
  ASSUME NEW text \in Texts, NewMoneyFromString(text).error = "none"
  PROVE  LET cents == NewMoneyFromString(text).money.cents
         IN  cents = Exact(text) \/ (cents < 0 /\ Exact(text) > MaxInt)
<1>1. text.whole \in Nat /\ text.cents \in Nat /\ text.cents < Scale
  BY MoneyAssumption DEF Texts
<1>2. text.whole <= MaxSafeWhole
  BY <1>1, MoneyAssumption DEF NewMoneyFromString, Failed, Returned, MaxSafeWhole
<1>3. NewMoneyFromString(text).money.cents = Wrap(Exact(text))
  BY DEF NewMoneyFromString, Failed, Returned, Value, MoneyFromCents
<1>4. Exact(text) \in Nat /\ Exact(text) <= MaxInt + Scale
  BY <1>1, <1>2, ScaledFits, MoneyAssumption DEF Exact
<1>5. Wrap(Exact(text)) = Exact(text) \/ (Wrap(Exact(text)) < 0 /\ Exact(text) > MaxInt)
  BY <1>4, MoneyAssumption DEF Wrap, MinInt
<1> QED
  BY <1>3, <1>5

\* NewWalletLedgerEntry compares amounts by what String writes of them (wallet_ledger_entry.go:64),
\* which tells any two amounts of one currency apart, although it is wrong for the least integer.
THEOREM StringTellsAmounts ==
  ASSUME NEW m \in Moneys, NEW other \in Moneys, String(m) = String(other)
  PROVE  m.cents = other.cents
<1> DEFINE magnitude(n) == IF n < 0 THEN Wrap(-n) ELSE n
<1> DEFINE quotient(n) == IF n < 0 THEN -((-n) \div Scale) ELSE n \div Scale
<1>1. m.cents \in Ints /\ other.cents \in Ints /\ MaxInt \in Nat
  BY MoneyAssumption DEF Moneys
<1>2. (m.cents < 0) = (other.cents < 0)
  BY DEF String
<1>3. \A n \in Ints : magnitude(n) \in Ints /\ quotient(n) * Scale \in Int
  BY MoneyAssumption DEF Ints, MinInt, Wrap
<1>4. magnitude(m.cents) = magnitude(other.cents)
  <2>1. quotient(magnitude(m.cents)) = quotient(magnitude(other.cents))
    BY DEF String
  <2>2. magnitude(m.cents) - quotient(magnitude(m.cents)) * Scale
          = magnitude(other.cents) - quotient(magnitude(other.cents)) * Scale
    BY DEF String
  <2> QED
    BY <1>1, <1>3, <2>1, <2>2 DEF Ints, MinInt
<1> QED
  BY <1>1, <1>2, <1>4 DEF Ints, MinInt, Wrap
=============================================================================
