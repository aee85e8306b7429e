------------------------------- MODULE Money -------------------------------
(***************************************************************************)
(* domain.Money: an amount of cents in a machine integer, and a currency.  *)
(*                                                                         *)
(* A sum or a difference that leaves the range of the integer wraps around *)
(* once, as Go's does; the code looks for that afterwards.  Operations     *)
(* that may fail return an error, "none" if there is none, beside a value. *)
(***************************************************************************)
EXTENDS Integers

CONSTANTS
  MaxInt,      \* the largest integer: 2^63 - 1 in the code
  Scale,       \* cents in a unit: 100 in the code
  Spellings,   \* what callers write for a currency
  Currencies,  \* currency codes, in upper case and trimmed
  CodeOf,      \* the code each spelling stands for
  NoCurrency   \* the currency of Money{}

ASSUME MoneyAssumption ==
  /\ MaxInt \in Nat
  /\ Scale \in Nat \ {0}
  /\ Scale <= MaxInt
  /\ CodeOf \in [Spellings -> Currencies]
  /\ NoCurrency \notin Currencies

MinInt == -MaxInt - 1
Ints == MinInt..MaxInt
Moneys == [cents : Ints, currency : Currencies \cup {NoCurrency}]

\* The machine's result of a sum or a difference of two integers.
Wrap(n) ==
  IF n > MaxInt THEN n - 2 * MaxInt - 2
  ELSE IF n < MinInt THEN n + 2 * MaxInt + 2
  ELSE n

MoneyFromCents(cents, currency) == [cents |-> cents, currency |-> currency]

Errors ==
  {"none", "ErrInvalidAmount", "ErrNegativeAmount", "ErrCurrencyMismatch", "ErrAmountOverflow"}
Returned(error, money) == [error |-> error, money |-> money]
Value(money) == Returned("none", money)
Failed(error) == Returned(error, MoneyFromCents(0, NoCurrency))

\* An amount as it is written: wellFormed says whether it is digits, a point and as many
\* digits as the scale has, after a sign or none, with nothing else but blanks around it.
Texts ==
  [ wellFormed : BOOLEAN, negative : BOOLEAN, whole : Nat, cents : 0..(Scale - 1),
    currency : Spellings ]

\* The amount a text writes.
Exact(text) == text.whole * Scale + text.cents

MaxSafeWhole == MaxInt \div Scale

\* Mutation: a currency is left as it was written.
AsWritten(spelling) == spelling
normalizeCurrency(spelling) == CodeOf[spelling]

\* Mutation: the digits that do not fit are dropped.
TruncatingParse(text) ==
  IF ~text.wellFormed THEN Failed("ErrInvalidAmount")
  ELSE IF text.negative THEN Failed("ErrNegativeAmount")
  ELSE Value(MoneyFromCents(Exact(text) % (MaxInt + 1), normalizeCurrency(text.currency)))

\* The cents are added after the check, which does not leave room for them all.
NewMoneyFromString(text) ==
  IF ~text.wellFormed \/ text.whole > MaxInt THEN Failed("ErrInvalidAmount")
  ELSE IF text.whole > MaxSafeWhole THEN Failed("ErrAmountOverflow")
  ELSE IF text.negative THEN Failed("ErrNegativeAmount")
  ELSE Value(MoneyFromCents(Wrap(Exact(text)), normalizeCurrency(text.currency)))

Add(m, other) ==
  LET sum == Wrap(m.cents + other.cents)
  IN  IF m.currency # other.currency THEN Failed("ErrCurrencyMismatch")
      ELSE IF (other.cents > 0 /\ sum < m.cents) \/ (other.cents < 0 /\ sum > m.cents)
        THEN Failed("ErrAmountOverflow")
      ELSE Value(MoneyFromCents(sum, m.currency))

Subtract(m, other) ==
  LET diff == Wrap(m.cents - other.cents)
  IN  IF m.currency # other.currency THEN Failed("ErrCurrencyMismatch")
      ELSE IF (other.cents < 0 /\ diff < m.cents) \/ (other.cents > 0 /\ diff > m.cents)
        THEN Failed("ErrAmountOverflow")
      ELSE Value(MoneyFromCents(diff, m.currency))

\* Nothing is checked: the least integer is its own negation.
Negate(m) == MoneyFromCents(Wrap(-m.cents), m.currency)

IsNegative(m) == m.cents < 0
IsZero(m) == m.cents = 0

\* What String writes, digits left out: a sign, and the magnitude split as Go divides,
\* towards zero.
String(m) ==
  LET magnitude == IF m.cents < 0 THEN Wrap(-m.cents) ELSE m.cents
      quotient == IF magnitude < 0 THEN -((-magnitude) \div Scale) ELSE magnitude \div Scale
  IN  [ sign |-> m.cents < 0, whole |-> quotient, frac |-> magnitude - quotient * Scale ]
=============================================================================
