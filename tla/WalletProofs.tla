---------------------------- MODULE WalletProofs ----------------------------
(***************************************************************************)
(* Theorems about WalletDesk for every value of its constants: any calls,  *)
(* texts, movements and clocks, and any width of the machine integer.      *)
(***************************************************************************)
EXTENDS WalletInvariants, MoneyProofs, WellFoundedInduction

-----------------------------------------------------------------------------
(* Totals.  A total is a recursive function over the positions of a        *)
(* sequence; the least position at which something fails stands in for     *)
(* induction.                                                              *)

LEMMA LeastNatural ==
  ASSUME NEW S \in SUBSET Nat, S # {}
  PROVE  \E n \in S : \A m \in S : n <= m
<1> DEFINE R == OpToRel(<, Nat)
<1>1. IsWellFoundedOn(R, Nat)
  BY NatLessThanWellFounded
<1>2. \E n \in S : \A m \in S : ~(<<m, n>> \in R)
  <2> HIDE DEF R
  <2> QED
    BY <1>1, WFMin
<1>3. \A m, n \in Nat : m < n => <<m, n>> \in R
  BY DEF OpToRel
<1> HIDE DEF R
<1>4. PICK n \in S : \A m \in S : ~(m < n)
  BY <1>2, <1>3, Zenon
<1>5. \A m \in S : n <= m
  BY <1>4
<1> QED
  BY <1>5

\* f is the running total of s up to position n.
Running(f, s, n) == \A i \in 0..n : f[i] = IF i = 0 THEN 0 ELSE f[i - 1] + s[i]

LEMMA RunningExists ==
  ASSUME NEW s \in Seq(Int)
  PROVE  \E f \in [0..Len(s) -> Int] : Running(f, s, Len(s))
<1> DEFINE Bad == {n \in 0..Len(s) : ~ \E f \in [0..n -> Int] : Running(f, s, n)}
<1>1. Bad = {}
  <2> SUFFICES ASSUME Bad # {} PROVE FALSE
    OBVIOUS
  <2>1. PICK n \in Bad : \A m \in Bad : n <= m
    <3>1. Bad \in SUBSET Nat
      OBVIOUS
    <3> HIDE DEF Bad
    <3> QED
      BY <3>1, LeastNatural
  <2>2. n # 0
    <3>1. Running([i \in 0..0 |-> 0], s, 0) /\ [i \in 0..0 |-> 0] \in [0..0 -> Int]
      BY DEF Running
    <3> QED
      BY <2>1, <3>1
  <2>3. PICK f \in [0..(n - 1) -> Int] : Running(f, s, n - 1)
    <3>1. n \in 0..Len(s) /\ Len(s) \in Nat
      BY <2>1
    <3>2. n - 1 \in 0..Len(s) /\ ~(n <= n - 1)
      BY <3>1, <2>2
    <3>3. n - 1 \notin Bad
      <4> HIDE DEF Bad
      <4> QED
        BY <2>1, <3>2
    <3> QED
      BY <3>2, <3>3
  <2> DEFINE g == [i \in 0..n |-> IF i = n THEN f[n - 1] + s[n] ELSE f[i]]
  <2>4. n \in 1..Len(s) /\ s[n] \in Int
    BY <2>1, <2>2
  <2>5. g \in [0..n -> Int]
    BY <2>3, <2>4
  <2>6. Running(g, s, n)
    BY SMTT(30), <2>3, <2>4 DEF Running
  <2> QED
    BY <2>1, <2>5, <2>6
<1> QED
  BY <1>1

LEMMA RunningIsUnique ==
  ASSUME NEW n \in Nat, NEW s, NEW f, NEW g, Running(f, s, n), Running(g, s, n)
  PROVE  f[n] = g[n]
<1> DEFINE Bad == {i \in 0..n : f[i] # g[i]}
<1>1. Bad = {}
  <2> SUFFICES ASSUME Bad # {} PROVE FALSE
    OBVIOUS
  <2>1. PICK i \in Bad : \A m \in Bad : i <= m
    <3>1. Bad \in SUBSET Nat
      OBVIOUS
    <3> HIDE DEF Bad
    <3> QED
      BY <3>1, LeastNatural
  <2>2. i # 0
    BY DEF Running
  <2>3. i - 1 \in 0..n /\ i - 1 \notin Bad
    BY <2>1, <2>2
  <2> QED
    BY <2>2, <2>3 DEF Running
<1> QED
  BY <1>1

\* A total is wherever something that moves by the amounts ends.
LEMMA TotalIs ==
  ASSUME NEW s \in Seq(Int), NEW g, Running(g, s, Len(s))
  PROVE  Total(s) = g[Len(s)] /\ Total(s) \in Int
<1> DEFINE IsTotal(f) == f = [i \in 0..Len(s) |-> IF i = 0 THEN 0 ELSE f[i - 1] + s[i]]
<1> DEFINE sum == CHOOSE f : IsTotal(f)
<1>1. Total(s) = sum[Len(s)]
  BY DEF Total
<1>2. PICK f \in [0..Len(s) -> Int] : Running(f, s, Len(s))
  BY RunningExists
<1>3. IsTotal(f)
  BY <1>2 DEF Running
<1>4. IsTotal(sum)
  BY <1>3, Zenon
<1>5. Running(sum, s, Len(s))
  <2> HIDE DEF sum
  <2> QED
    BY <1>4 DEF Running
<1>6. Len(s) \in Nat
  OBVIOUS
<1>7. sum[Len(s)] = g[Len(s)] /\ sum[Len(s)] = f[Len(s)]
  <2> HIDE DEF sum
  <2> QED
    BY <1>2, <1>5, <1>6, RunningIsUnique
<1> QED
  BY <1>1, <1>2, <1>6, <1>7

-----------------------------------------------------------------------------
(* Amounts. *)

LEMMA WrapFits == ASSUME NEW n \in Int, -2 * MaxInt - 2 <= n, n <= 2 * MaxInt PROVE Wrap(n) \in Ints
BY MoneyAssumption DEF Ints, MinInt, Wrap

\* A text that is taken is taken for an amount in the currency it names.
LEMMA ParsedMoney ==
  ASSUME NEW text \in Texts, NewMoneyFromString(text).error = "none"
  PROVE  LET money == NewMoneyFromString(text).money
         IN  /\ money \in Moneys
             /\ money.currency = CodeOf[text.currency]
             /\ money.cents >= 0 => money.cents = Exact(text)
<1>1. NewMoneyFromString(text).money
        = MoneyFromCents(Wrap(Exact(text)), normalizeCurrency(text.currency))
  BY DEF NewMoneyFromString, Failed, Returned, Value, MoneyFromCents
<1>2. text.whole \in Nat /\ text.cents \in Nat /\ text.cents < Scale /\ text.currency \in Spellings
  BY MoneyAssumption DEF Texts
<1>3. text.whole <= MaxSafeWhole
  BY <1>2, MoneyAssumption DEF NewMoneyFromString, Failed, Returned, MaxSafeWhole
<1>4. Exact(text) \in Nat /\ Exact(text) <= MaxInt + Scale
  BY <1>2, <1>3, ScaledFits, MoneyAssumption DEF Exact
<1>5. Wrap(Exact(text)) \in Ints
  BY <1>4, WrapFits, MoneyAssumption
<1>6. CodeOf[text.currency] \in Currencies
  BY <1>2, MoneyAssumption
<1>7. NewMoneyFromString(text).money \in Moneys
  BY <1>1, <1>5, <1>6 DEF MoneyFromCents, Moneys, normalizeCurrency
<1>8. Wrap(Exact(text)) \in Int
  BY <1>5, MoneyAssumption DEF Ints, MinInt
<1>9. Wrap(Exact(text)) >= 0 => Wrap(Exact(text)) = Exact(text)
  BY <1>1, <1>8, ParsedIsExactOrNegative DEF MoneyFromCents
<1> QED
  BY <1>1, <1>7, <1>9 DEF MoneyFromCents, normalizeCurrency

LEMMA CentsAreIntegers == ASSUME NEW money \in Moneys PROVE money.cents \in Int
BY MoneyAssumption DEF Moneys, Ints, MinInt

LEMMA OpeningTexts ==
  ASSUME NEW o \in Openers
  PROVE  OpeningOf[o].balance \in Texts /\ OpeningOf[o].player \in Players
BY OpeningAssumption

LEMMA OpeningIsExact ==
  ASSUME NEW o \in Openers, Accepted(o)
  PROVE  /\ NewBalance(o) \in Moneys /\ NewBalance(o).cents >= 0
         /\ NewBalance(o).cents = Exact(OpeningOf[o].balance)
         /\ NewBalance(o).currency = CodeOf[OpeningOf[o].balance.currency]
<1>1. ~(NewBalance(o).cents < 0) /\ Initial(o).error = "none"
  BY DEF Accepted, IsNegative
<1>2. NewBalance(o) \in Moneys /\ NewBalance(o).currency = CodeOf[OpeningOf[o].balance.currency]
      /\ (NewBalance(o).cents >= 0 => NewBalance(o).cents = Exact(OpeningOf[o].balance))
  BY <1>1, OpeningTexts, ParsedMoney DEF NewBalance, Initial
<1> QED
  BY <1>1, <1>2, MoneyAssumption DEF Moneys, Ints, MinInt

LEMMA AmountIsExact ==
  ASSUME NEW m \in Movements, NEW w, AmountOK(m, w)
  PROVE  /\ Amount(m) \in Moneys /\ Amount(m).cents > 0
         /\ Amount(m).cents = Exact(MovementOf[m].amount)
         /\ Amount(m).currency = CodeOf[MovementOf[m].amount.currency]
         /\ Amount(m).currency = Balance(w).currency
<1>1. MovementOf[m].amount \in Texts
  BY DeskAssumption
<1>2. ~(Amount(m).cents < 0) /\ Amount(m).cents # 0 /\ NewMoneyFromString(MovementOf[m].amount).error = "none"
      /\ Amount(m).currency = Balance(w).currency
  BY DEF AmountOK, IsNegative, IsZero
<1>3. Amount(m) \in Moneys /\ Amount(m).currency = CodeOf[MovementOf[m].amount.currency]
      /\ (Amount(m).cents >= 0 => Amount(m).cents = Exact(MovementOf[m].amount))
  BY <1>1, <1>2, ParsedMoney DEF Amount
<1> QED
  BY <1>2, <1>3, MoneyAssumption DEF Moneys, Ints, MinInt

LEMMA OpenRow ==
  ASSUME OpeningTypeOK, NEW w \in Openers, Open(w)
  PROVE  /\ wallet[w] \in WalletRows /\ Balance(w) \in Moneys /\ wallet[w].version \in Nat
         /\ wallet[w] = [player |-> wallet[w].player, balance |-> Balance(w), version |-> wallet[w].version]
BY DEF OpeningTypeOK, Open, WalletRows, Balance

\* What a movement finds and leaves: the balance before it, reconstructed from the one after
\* it, is the balance it found.
LEMMA MoveFacts ==
  ASSUME OpeningTypeOK, NEW m \in Movements, NEW w \in Openers, Open(w), AmountOK(m, w),
         Balance(w).cents >= 0, ColumnTakes(m, w)
  PROVE  /\ After(m, w) \in Moneys /\ After(m, w).cents >= 0
         /\ Before(m, w) = Value(Balance(w))
         /\ Direction(m) \in Directions
         /\ After(m, w).cents = Updated(m, w) /\ After(m, w).currency = Balance(w).currency
         /\ Direction(m) = "CREDIT" => After(m, w).cents = Balance(w).cents + Amount(m).cents
         /\ Direction(m) = "DEBIT" => After(m, w).cents = Balance(w).cents - Amount(m).cents
<1>1. Balance(w) \in Moneys /\ Balance(w) = MoneyFromCents(Balance(w).cents, Balance(w).currency)
  BY OpenRow DEF Moneys, MoneyFromCents
<1>2. Amount(m) \in Moneys /\ Amount(m).currency = Balance(w).currency
  BY AmountIsExact
<1>3. Balance(w).cents \in Ints /\ Amount(m).cents \in Ints
  BY <1>1, <1>2 DEF Moneys
<1>4. Updated(m, w) \in Ints /\ Updated(m, w) >= 0
  BY <1>3, MoneyAssumption DEF ColumnTakes, Ints, MinInt
<1>5. After(m, w) \in Moneys /\ After(m, w).cents = Updated(m, w) /\ After(m, w).currency = Balance(w).currency
  BY <1>1, <1>4 DEF After, MoneyFromCents, Moneys
<1>6. Direction(m) \in Directions
  BY DeskAssumption DEF Direction
<1>7. CASE Direction(m) = "DEBIT"
  <2>1. Updated(m, w) = Balance(w).cents - Amount(m).cents
    BY <1>7 DEF Updated
  <2>2. Updated(m, w) + Amount(m).cents = Balance(w).cents
    BY <2>1, <1>3, MoneyAssumption DEF Ints, MinInt
  <2>3. Before(m, w) = Value(Balance(w))
    BY <1>1, <1>2, <1>3, <1>5, <1>7, <2>2, AddIsExact DEF Before
  <2> QED
    BY <1>4, <1>5, <1>6, <1>7, <2>1, <2>3
<1>8. CASE Direction(m) = "CREDIT"
  <2>1. Updated(m, w) = Balance(w).cents + Amount(m).cents
    BY <1>8 DEF Updated
  <2>2. Updated(m, w) - Amount(m).cents = Balance(w).cents
    BY <2>1, <1>3, MoneyAssumption DEF Ints, MinInt
  <2>3. Before(m, w) = Value(Balance(w))
    BY <1>1, <1>2, <1>3, <1>5, <1>8, <2>2, SubtractIsExact DEF Before
  <2> QED
    BY <1>4, <1>5, <1>6, <1>8, <2>1, <2>3
<1> QED
  BY <1>6, <1>7, <1>8 DEF Directions

-----------------------------------------------------------------------------
(* The inductive invariant. *)

\* A call has opened its wallet or is about to.
Claims(o) == Open(o) \/ opening[o] = "commit"

\* A call that is not answered has no wallet yet, and only an accepted one goes on.
CallsOK ==
  \A o \in Openers :
    /\ opening[o] # "done" => ~Open(o) /\ reply[o] = "none"
    /\ Claims(o) => Accepted(o)

\* Nobody else has the wallet a call is about to open.
ClaimsAreUnique == \A o, p \in Openers : Claims(o) /\ Claims(p) /\ Holder(o) = Holder(p) => o = p

\* A wallet's row is in the currency of the call that opened it, and not below zero.
BalancesOK ==
  \A w \in Openers : Open(w) =>
    Balance(w).cents >= 0 /\ Balance(w).currency = CodeOf[OpeningOf[w].balance.currency]

\* An entry is about the amount the call or the movement it comes from has written.
EntriesExact ==
  \A w \in Openers : \A i \in 1..Len(ledger[w]) :
    ledger[w][i].amount.cents = Exact(TextOf(ledger[w][i].source))

\* The balance after the first i entries.
Ended(entries, i) == IF i = 0 THEN 0 ELSE entries[i].after.cents

\* What a reconciliation has read is the balance at the version it read and, in the end,
\* the sum of as many entries as it counted.
AuditOK(a) ==
  LET w == audit[a].wallet
      read == EntriesAt(w, audit[a].version)
  IN  /\ Open(w)
      /\ read \in 0..Len(ledger[w])
      /\ audit[a].stored.cents >= 0
      /\ audit[a].stored.cents = Ended(ledger[w], read)
      /\ audit[a].step # "sum" =>
           /\ audit[a].step = "done"
           /\ read <= audit[a].checked /\ audit[a].checked <= Len(ledger[w])
           /\ audit[a].difference = Ended(ledger[w], read) - Ended(ledger[w], audit[a].checked)
AuditsOK == \A a \in Auditors : audit[a] # None => AuditOK(a)

\* RepliesAreTrue by the errors the status codes stand for.
RepliesOK ==
  \A o \in Openers :
    /\ reply[o] = "created" => Open(o)
    /\ reply[o] \in {"ErrInvalidAmount", "ErrNegativeAmount"} => ~Open(o)
    /\ reply[o] = "ErrWalletAlreadyExists" =>
         ~Open(o) /\ \E p \in Openers : Open(p) /\ Holder(p) = Holder(o)

CallInv == CallsOK /\ ClaimsAreUnique /\ RepliesOK
BookInv == BalancesOK /\ EntriesExact /\ BookIsChained
IInv == TypeOK /\ CallInv /\ BookInv /\ AuditsOK

-----------------------------------------------------------------------------
(* Calls that open a wallet. *)

LEMMA SameHolders ==
  ASSUME NEW o \in Openers, NEW p \in Openers, Accepted(o), Accepted(p)
  PROVE  SameHolder(o, p) <=> Holder(o) = Holder(p)
BY OpeningIsExact DEF SameHolder, Holder

\* Whatever a call is told, it stays typed.
LEMMA TellTypes ==
  ASSUME OpeningTypeOK, NEW o \in Openers, NEW what \in Replies, Tell(o, what),
         UNCHANGED bookVars, failures' \in Nat
  PROVE  OpeningTypeOK'
BY DEF OpeningTypeOK, Tell, bookVars

\* A call that is answered without a wallet disturbs no other.
LEMMA TellKeepsCalls ==
  ASSUME OpeningTypeOK, CallInv, NEW o \in Openers, opening[o] # "done", UNCHANGED wallet,
         NEW what \in Replies \ {"created"}, Tell(o, what),
         what = "ErrWalletAlreadyExists" => \E p \in Openers : Open(p) /\ Holder(p) = Holder(o)
  PROVE  CallInv'
<1>1. \A q \in Openers : Open(q)' = Open(q)
  BY DEF Open
<1>2. \A q \in Openers \ {o} : opening'[q] = opening[q] /\ reply'[q] = reply[q]
  BY DEF Tell, OpeningTypeOK
<1>3. opening'[o] = "done" /\ reply'[o] = what /\ ~Open(o)
  BY DEF Tell, OpeningTypeOK, CallInv, CallsOK
<1>4. CallsOK'
  BY <1>1, <1>2, <1>3 DEF CallInv, CallsOK, Claims, Accepted, Initial, NewBalance
<1>5. ClaimsAreUnique'
  BY <1>1, <1>2, <1>3 DEF CallInv, ClaimsAreUnique, Claims, Holder
<1>6. RepliesOK'
  BY <1>1, <1>2, <1>3 DEF CallInv, RepliesOK, Holder
<1> QED
  BY <1>4, <1>5, <1>6 DEF CallInv

\* A call claims a wallet nobody has or is about to have.
LEMMA ClaimKeepsCalls ==
  ASSUME OpeningTypeOK, CallInv, NEW o \in Openers, opening[o] = "create", Accepted(o),
         ~Blocked(o), ~Taken(o), opening' = [opening EXCEPT ![o] = "commit"],
         UNCHANGED <<wallet, reply>>
  PROVE  CallInv'
<1>1. \A q \in Openers : Open(q)' = Open(q) /\ reply'[q] = reply[q]
  BY DEF Open
<1>2. \A q \in Openers \ {o} : opening'[q] = opening[q]
  BY DEF OpeningTypeOK
<1>3. opening'[o] = "commit" /\ ~Open(o) /\ reply[o] = "none"
  BY DEF OpeningTypeOK, CallInv, CallsOK
<1>4. CallsOK'
  BY <1>1, <1>2, <1>3 DEF CallInv, CallsOK, Claims, Accepted, Initial, NewBalance
<1>5. \A p \in Openers \ {o} : Claims(p) => Holder(p) # Holder(o)
  <2> SUFFICES ASSUME NEW p \in Openers \ {o}, Claims(p), Holder(p) = Holder(o) PROVE FALSE
    OBVIOUS
  <2>1. SameHolder(o, p)
    BY SameHolders DEF CallInv, CallsOK
  <2> QED
    BY <2>1 DEF Claims, Blocked, Taken
<1>6. ClaimsAreUnique'
  <2>1. \A p \in Openers \ {o} : Claims(p)' => Claims(p)
    BY <1>1, <1>2 DEF Claims
  <2> QED
    BY <1>5, <2>1 DEF CallInv, ClaimsAreUnique, Holder
<1>7. RepliesOK'
  BY <1>1 DEF CallInv, RepliesOK, Holder
<1> QED
  BY <1>4, <1>6, <1>7 DEF CallInv

\* A call opens the wallet it has claimed.
LEMMA RecordKeepsCalls ==
  ASSUME OpeningTypeOK, RowAssumption, CallInv, NEW o \in Openers, opening[o] = "commit",
         Record(o), NEW what \in {"created", "error"}, Tell(o, what)
  PROVE  CallInv'
<1>1. \A q \in Openers \ {o} : opening'[q] = opening[q] /\ reply'[q] = reply[q] /\ Open(q)' = Open(q)
  BY DEF Tell, OpeningTypeOK, Record, Open
<1>2. opening'[o] = "done" /\ reply'[o] = what /\ Accepted(o)
  BY DEF Tell, OpeningTypeOK, CallInv, CallsOK, Claims
<1>3. Open(o)'
  <2>1. wallet'[o] = [player |-> OpeningOf[o].player, balance |-> NewBalance(o), version |-> 1]
    BY DEF Record, OpeningTypeOK
  <2>2. wallet'[o] \in WalletRows
    BY <1>2, <2>1, OpeningIsExact, OpeningTexts DEF WalletRows
  <2> QED
    BY <2>2, RowAssumption DEF Open
<1>4. \A q \in Openers : Claims(q)' <=> Claims(q)
  BY <1>1, <1>2, <1>3 DEF Claims
<1>5. CallsOK'
  BY <1>1, <1>2, <1>4 DEF CallInv, CallsOK, Accepted, Initial, NewBalance
<1>6. ClaimsAreUnique'
  BY <1>4 DEF CallInv, ClaimsAreUnique, Holder
<1>7. RepliesOK'
  BY <1>1, <1>2, <1>3 DEF CallInv, RepliesOK, Holder
<1> QED
  BY <1>5, <1>6, <1>7 DEF CallInv

-----------------------------------------------------------------------------
(* The book. *)

\* Each entry starts where the one before it ended and announces the next version.
Chained(entries, versions, first) ==
  /\ \A i \in 1..Len(entries) :
       /\ entries[i].before.cents = Ended(entries, i - 1)
       /\ entries[i].after.cents = entries[i].before.cents + Signed(entries[i])
  /\ versions = [i \in 1..Len(entries) |-> first + i - 1]

\* The version the first entry announces.
First(entries, w) == IF entries # <<>> /\ entries[1].source = w THEN 1 ELSE 2

BookOf(row, entries, versions, w) ==
  /\ Chained(entries, versions, First(entries, w))
  /\ row # None => /\ row.balance.cents = Ended(entries, Len(entries))
                   /\ row.version = First(entries, w) + Len(entries) - 1
  /\ row = None => entries = <<>>

LEMMA BookIs ==
  /\ BookIsChained <=> \A w \in Openers : BookOf(wallet[w], ledger[w], announced[w], w)
  /\ BookIsChained' <=> \A w \in Openers : BookOf(wallet'[w], ledger'[w], announced'[w], w)
BY DEF BookIsChained, BookOf, Chained, Ended, First, Open

\* One more entry that starts where the last one ended.
LEMMA ChainGrows ==
  ASSUME NEW entries \in Seq(LedgerEntries), NEW versions, NEW first \in Nat,
         Chained(entries, versions, first), NEW entry \in LedgerEntries,
         entry.before.cents = Ended(entries, Len(entries)),
         entry.after.cents = entry.before.cents + Signed(entry),
         NEW v, v = first + Len(entries)
  PROVE  Chained(Append(entries, entry), Append(versions, v), first)
<1> DEFINE longer == Append(entries, entry)
<1>1. Len(longer) = Len(entries) + 1 /\ Len(entries) \in Nat /\ longer[Len(entries) + 1] = entry
      /\ \A i \in 1..Len(entries) : longer[i] = entries[i]
  OBVIOUS
<1>2. \A i \in 0..Len(entries) : Ended(longer, i) = Ended(entries, i)
  BY <1>1 DEF Ended
<1>3. \A i \in 1..Len(longer) :
        /\ longer[i].before.cents = Ended(longer, i - 1)
        /\ longer[i].after.cents = longer[i].before.cents + Signed(longer[i])
  BY <1>1, <1>2 DEF Chained
<1>4. versions = [i \in 1..Len(entries) |-> first + i - 1]
  BY DEF Chained
<1>5. first + Len(entries) = v
  OBVIOUS
<1>6. Append(versions, v) = [i \in 1..Len(longer) |-> first + i - 1]
  <2>1. versions \in Seq(Nat) /\ Len(versions) = Len(entries)
    BY <1>1, <1>4, <1>5
  <2>2. Append(versions, v) \in Seq(Nat) /\ Len(Append(versions, v)) = Len(longer)
    BY <1>1, <1>5, <2>1
  <2>3. \A i \in 1..Len(longer) : Append(versions, v)[i] = first + i - 1
    BY <1>1, <1>4, <1>5, <2>1
  <2> QED
    BY <2>2, <2>3
<1> QED
  BY <1>3, <1>6 DEF Chained

LEMMA MovementParts ==
  ASSUME NEW source, NEW direction, NEW amount, NEW before, NEW after, NEW stamp
  PROVE  LET e == Movement(source, direction, amount, before, after, stamp)
         IN  /\ e.source = source /\ e.direction = direction /\ e.amount = amount
             /\ e.before = before /\ e.after = after /\ e.stamp = stamp
             /\ (source \in Openers \cup Movements /\ direction \in Directions /\ amount \in Moneys
                 /\ before \in Moneys /\ after \in Moneys /\ stamp \in Int) => e \in LedgerEntries
BY DEF Movement, LedgerEntries

LEMMA StampTypes ==
  ASSUME OpeningTypeOK, NEW w \in Openers, NEW lag \in Lags PROVE Stamp(w, lag) \in Int
BY OpeningAssumption DEF OpeningTypeOK, Stamp

\* What opening a wallet writes.
LEMMA RecordFacts ==
  ASSUME OpeningTypeOK, NEW o \in Openers, Accepted(o), Record(o), ledger[o] = <<>>, announced[o] = <<>>
  PROVE  /\ NewBalance(o) \in Moneys /\ NewBalance(o).cents >= 0
         /\ wallet' = [wallet EXCEPT ![o] = wallet'[o]]
         /\ wallet'[o] = [player |-> OpeningOf[o].player, balance |-> NewBalance(o), version |-> 1]
         /\ wallet'[o] \in WalletRows
         /\ \/ NewBalance(o).cents = 0 /\ UNCHANGED <<ledger, announced>>
            \/ \E lag \in Lags :
                 /\ OpeningEntry(o, lag) \in LedgerEntries
                 /\ ledger' = [ledger EXCEPT ![o] = <<OpeningEntry(o, lag)>>]
                 /\ announced' = [announced EXCEPT ![o] = <<1>>]
<1>1. NewBalance(o) \in Moneys /\ NewBalance(o).cents >= 0
  BY OpeningIsExact
<1>2. wallet' = [wallet EXCEPT ![o] =
        [player |-> OpeningOf[o].player, balance |-> NewBalance(o), version |-> 1]]
  BY DEF Record
<1>3. wallet'[o] = [player |-> OpeningOf[o].player, balance |-> NewBalance(o), version |-> 1]
  BY <1>2 DEF OpeningTypeOK
<1>4. wallet'[o] \in WalletRows
  BY <1>1, <1>3, OpeningTexts DEF WalletRows
<1>5. CASE IsZero(NewBalance(o))
  BY <1>1, <1>2, <1>3, <1>4, <1>5 DEF Record, IsZero
<1>6. CASE ~IsZero(NewBalance(o))
  <2>1. PICK lag \in Lags : ledger' = [ledger EXCEPT ![o] = Append(@, OpeningEntry(o, lag))]
    BY <1>6 DEF Record
  <2>2. announced' = [announced EXCEPT ![o] = Append(@, 1)]
    BY <1>6 DEF Record
  <2>3. Zero(o) \in Moneys
    BY <1>1, MoneyAssumption DEF Zero, MoneyFromCents, Moneys, Ints, MinInt
  <2>4. OpeningEntry(o, lag) \in LedgerEntries
    BY <1>1, <2>3, StampTypes, MovementParts DEF OpeningEntry, Directions
  <2>5. ledger' = [ledger EXCEPT ![o] = <<OpeningEntry(o, lag)>>]
    BY <2>1
  <2>6. announced' = [announced EXCEPT ![o] = <<1>>]
    BY <2>2
  <2> QED
    BY <1>1, <1>2, <1>3, <1>4, <2>4, <2>5, <2>6
<1> QED
  BY <1>5, <1>6

LEMMA NoBookYet ==
  ASSUME OpeningTypeOK, BookInv, NEW o \in Openers, ~Open(o)
  PROVE  ledger[o] = <<>> /\ announced[o] = <<>>
<1>1. BookOf(wallet[o], ledger[o], announced[o], o)
  BY BookIs DEF BookInv
<1>2. ledger[o] = <<>> /\ announced[o] = [i \in 1..Len(ledger[o]) |-> First(ledger[o], o) + i - 1]
  BY <1>1 DEF BookOf, Chained, Open
<1>3. announced[o] \in Seq(Nat) /\ DOMAIN announced[o] = 1..0
  BY <1>2 DEF OpeningTypeOK
<1> QED
  BY <1>2, <1>3

LEMMA RecordKeepsTypes ==
  ASSUME OpeningTypeOK, CallInv, BookInv, NEW o \in Openers, opening[o] = "commit",
         Record(o), NEW what \in {"created", "error"}, Tell(o, what), failures' \in Nat
  PROVE  OpeningTypeOK'
<1>1. Accepted(o) /\ ~Open(o)
  BY DEF CallInv, CallsOK, Claims
<1>2. ledger[o] = <<>> /\ announced[o] = <<>>
  BY <1>1, NoBookYet
<1>3. /\ wallet' = [wallet EXCEPT ![o] = wallet'[o]] /\ wallet'[o] \in WalletRows
      /\ \/ UNCHANGED <<ledger, announced>>
         \/ \E e \in LedgerEntries : /\ ledger' = [ledger EXCEPT ![o] = <<e>>]
                                   /\ announced' = [announced EXCEPT ![o] = <<1>>]
  BY <1>1, <1>2, RecordFacts
<1>4. wallet' \in [Openers -> WalletRows \cup {None}]
  BY <1>3 DEF OpeningTypeOK
<1>5. ledger' \in [Openers -> Seq(LedgerEntries)] /\ announced' \in [Openers -> Seq(Nat)]
  <2>1. \A e \in LedgerEntries : <<e>> \in Seq(LedgerEntries)
    OBVIOUS
  <2>2. <<1>> \in Seq(Nat)
    OBVIOUS
  <2> QED
    BY ZenonT(30), <1>3, <2>1, <2>2 DEF OpeningTypeOK
<1> QED
  BY <1>4, <1>5 DEF OpeningTypeOK, Tell, Replies

LEMMA RecordKeepsBook ==
  ASSUME OpeningTypeOK, RowAssumption, CallInv, BookInv, NEW o \in Openers, opening[o] = "commit",
         Record(o)
  PROVE  BookInv'
<1>1. Accepted(o) /\ ~Open(o)
  BY DEF CallInv, CallsOK, Claims
<1>2. ledger[o] = <<>> /\ announced[o] = <<>>
  BY <1>1, NoBookYet
<1>3. \A w \in Openers \ {o} :
        wallet'[w] = wallet[w] /\ ledger'[w] = ledger[w] /\ announced'[w] = announced[w]
  BY DEF OpeningTypeOK, Record
<1>4. /\ wallet'[o] # None
      /\ wallet'[o].balance = NewBalance(o) /\ wallet'[o].version = 1
      /\ NewBalance(o).cents = Exact(OpeningOf[o].balance) /\ NewBalance(o).cents >= 0
      /\ NewBalance(o).currency = CodeOf[OpeningOf[o].balance.currency]
      /\ NewBalance(o).cents \in Int
  <2>1. /\ wallet'[o] = [player |-> OpeningOf[o].player, balance |-> NewBalance(o), version |-> 1]
        /\ wallet'[o] \in WalletRows
    BY <1>1, <1>2, RecordFacts
  <2>2. wallet'[o] # None
    BY <2>1, RowAssumption
  <2>3. NewBalance(o).cents \in Int
    BY <1>1, OpeningIsExact, MoneyAssumption DEF Moneys, Ints, MinInt
  <2> QED
    BY <1>1, <2>1, <2>2, <2>3, OpeningIsExact
<1>5. BalancesOK'
  BY <1>3, <1>4 DEF BookInv, BalancesOK, Open, Balance
<1>6. CASE NewBalance(o).cents = 0 /\ UNCHANGED <<ledger, announced>>
  <2>1. EntriesExact'
    BY <1>6 DEF BookInv, EntriesExact
  <2>2. BookOf(wallet'[o], <<>>, <<>>, o)
    BY <1>4, <1>6 DEF BookOf, Chained, First, Ended
  <2> QED
    BY <1>2, <1>3, <1>5, <1>6, <2>1, <2>2, BookIs DEF BookInv
<1>7. ASSUME NEW lag \in Lags, OpeningEntry(o, lag) \in LedgerEntries,
             ledger' = [ledger EXCEPT ![o] = <<OpeningEntry(o, lag)>>],
             announced' = [announced EXCEPT ![o] = << 1 >>]
      PROVE  BookInv'
  <2> DEFINE e == OpeningEntry(o, lag)
  <2>1. /\ e.source = o /\ e.direction = "CREDIT" /\ e.amount = NewBalance(o)
        /\ e.before.cents = 0 /\ e.after = NewBalance(o)
    BY MovementParts DEF OpeningEntry, Zero, MoneyFromCents
  <2>2. ledger'[o] = <<e>> /\ announced'[o] = <<1>>
    BY <1>7 DEF OpeningTypeOK
  <2> HIDE DEF e
  <2>3. EntriesExact'
    <3>1. TextOf(o) = OpeningOf[o].balance
      BY DEF TextOf
    <3>2. \A i \in 1..Len(ledger'[o]) : ledger'[o][i] = e
      BY <2>2
    <3> QED
      BY <1>3, <1>4, <2>1, <3>1, <3>2 DEF BookInv, EntriesExact, TextOf
  <2>4. BookOf(wallet'[o], <<e>>, <<1>>, o)
    <3>1. First(<<e>>, o) = 1 /\ Len(<<e>>) = 1 /\ <<e>>[1] = e
      BY <2>1 DEF First
    <3>2. Signed(e) = NewBalance(o).cents
      BY <2>1 DEF Signed
    <3>3. <<1>> = [i \in 1..1 |-> 1 + i - 1]
      OBVIOUS
    <3> QED
      BY <1>4, <2>1, <3>1, <3>2, <3>3 DEF BookOf, Chained, Ended
  <2> QED
    BY <1>3, <1>5, <2>2, <2>3, <2>4, BookIs DEF BookInv
<1> QED
  BY <1>1, <1>2, <1>6, <1>7, RecordFacts

-----------------------------------------------------------------------------
(* Movements. *)

\* The entry a movement writes, whatever the clock: it starts at the balance of the wallet
\* and ends at the one the UPDATE has left.
EntryOf(m, w, e) ==
  /\ e \in LedgerEntries
  /\ e.source = m /\ e.direction = Direction(m) /\ e.amount = Amount(m)
  /\ e.before = Balance(w) /\ e.after = After(m, w)

LEMMA MoveParts ==
  ASSUME OpeningTypeOK, BalancesOK, NEW m \in Movements, NEW w \in Openers, Move(m, w)
  PROVE  /\ Open(w) /\ AmountOK(m, w) /\ ColumnTakes(m, w) /\ Balance(w).cents >= 0
         /\ wallet' = [wallet EXCEPT ![w] =
              [player |-> wallet[w].player, balance |-> After(m, w), version |-> wallet[w].version + 1]]
         /\ wallet'[w] \in WalletRows
         /\ announced' = [announced EXCEPT ![w] = Append(@, wallet[w].version + 1)]
         /\ \E e : EntryOf(m, w, e) /\ ledger' = [ledger EXCEPT ![w] = Append(@, e)]
<1>1. Open(w) /\ AmountOK(m, w) /\ ColumnTakes(m, w) /\ Balance(w).cents >= 0
  BY DEF Move, BalancesOK
<1>2. wallet' = [wallet EXCEPT ![w] =
        [player |-> wallet[w].player, balance |-> After(m, w), version |-> wallet[w].version + 1]]
  <2>1. wallet' = [wallet EXCEPT ![w].balance = After(m, w), ![w].version = @ + 1]
    BY DEF Move
  <2>2. wallet[w] \in WalletRows /\ wallet \in [Openers -> WalletRows \cup {None}]
    BY <1>1, OpenRow DEF OpeningTypeOK
  <2> QED
    BY <2>1, <2>2 DEF WalletRows
<1>3. announced' = [announced EXCEPT ![w] = Append(@, wallet[w].version + 1)]
  BY DEF Move, VersionAfter
<1>4. PICK lag \in Lags : ledger' = [ledger EXCEPT ![w] = Append(@,
        Movement(m, Direction(m), Amount(m), Before(m, w).money, After(m, w), Stamp(w, lag)))]
  BY DEF Move
<1>5. Before(m, w).money = Balance(w) /\ After(m, w) \in Moneys /\ Direction(m) \in Directions
  BY <1>1, MoveFacts DEF Value, Returned
<1>6. Balance(w) \in Moneys /\ Amount(m) \in Moneys /\ Stamp(w, lag) \in Int
  BY <1>1, OpenRow, AmountIsExact, StampTypes
<1>7. EntryOf(m, w, Movement(m, Direction(m), Amount(m), Before(m, w).money, After(m, w), Stamp(w, lag)))
  BY <1>5, <1>6, MovementParts DEF EntryOf
<1>8. wallet'[w] \in WalletRows
  <2>1. wallet'[w] =
          [player |-> wallet[w].player, balance |-> After(m, w), version |-> wallet[w].version + 1]
    BY <1>2 DEF OpeningTypeOK
  <2>2. wallet[w].player \in Players /\ wallet[w].version \in Nat
    BY <1>1, OpenRow DEF WalletRows
  <2> QED
    BY <1>5, <2>1, <2>2 DEF WalletRows
<1> QED
  BY <1>1, <1>2, <1>3, <1>4, <1>7, <1>8

LEMMA MoveKeepsTypes ==
  ASSUME OpeningTypeOK, BalancesOK, NEW m \in Movements, NEW w \in Openers, Move(m, w)
  PROVE  OpeningTypeOK'
<1>1. PICK e : EntryOf(m, w, e) /\ ledger' = [ledger EXCEPT ![w] = Append(@, e)]
  BY MoveParts
<1>2. wallet[w].version \in Nat
  BY MoveParts, OpenRow
<1>3. wallet' \in [Openers -> WalletRows \cup {None}]
  <2>1. wallet'[w] \in WalletRows /\ wallet' = [wallet EXCEPT ![w] = wallet'[w]]
    <3>1. wallet' = [wallet EXCEPT ![w] =
            [player |-> wallet[w].player, balance |-> After(m, w), version |-> wallet[w].version + 1]]
      BY MoveParts
    <3> QED
      BY <3>1, MoveParts DEF OpeningTypeOK
  <2> QED
    BY <2>1 DEF OpeningTypeOK
<1>4. ledger' \in [Openers -> Seq(LedgerEntries)]
  BY <1>1 DEF OpeningTypeOK, EntryOf
<1>5. announced' \in [Openers -> Seq(Nat)]
  <2>1. announced' = [announced EXCEPT ![w] = Append(@, wallet[w].version + 1)]
    BY MoveParts
  <2> QED
    BY <1>2, <2>1 DEF OpeningTypeOK
<1> QED
  BY <1>3, <1>4, <1>5 DEF Move, OpeningTypeOK, openingVars

\* Rows and replies are about who opened what: a movement does not disturb them.
LEMMA MoveKeepsCalls ==
  ASSUME OpeningTypeOK, RowAssumption, BalancesOK, CallInv,
         NEW m \in Movements, NEW w \in Openers, Move(m, w)
  PROVE  CallInv' /\ \A o \in Openers : Open(o)' = Open(o)
<1>1. \A o \in Openers : Open(o)' = Open(o)
  <2>1. wallet' = [wallet EXCEPT ![w] =
          [player |-> wallet[w].player, balance |-> After(m, w), version |-> wallet[w].version + 1]]
    BY MoveParts
  <2>2. wallet'[w] \in WalletRows
    BY MoveParts
  <2>3. Open(w)
    BY MoveParts
  <2> QED
    BY <2>1, <2>2, <2>3, RowAssumption DEF Open, OpeningTypeOK
<1>2. UNCHANGED <<opening, reply>>
  BY DEF Move, openingVars
<1>3. CallsOK' /\ ClaimsAreUnique' /\ RepliesOK'
  BY <1>1, <1>2 DEF CallInv, CallsOK, ClaimsAreUnique, RepliesOK, Claims, Accepted, Initial,
     NewBalance, Holder
<1> QED
  BY <1>1, <1>3 DEF CallInv

LEMMA MoveKeepsBook ==
  ASSUME OpeningTypeOK, RowAssumption, OpeningAssumption, BookInv,
         NEW m \in Movements, NEW w \in Openers, Move(m, w)
  PROVE  BookInv'
<1> USE DEF BookInv
<1>1. /\ Open(w) /\ AmountOK(m, w) /\ Balance(w).cents >= 0
      /\ wallet' = [wallet EXCEPT ![w] =
           [player |-> wallet[w].player, balance |-> After(m, w), version |-> wallet[w].version + 1]]
      /\ announced' = [announced EXCEPT ![w] = Append(@, wallet[w].version + 1)]
  BY MoveParts
<1>2. PICK e : EntryOf(m, w, e) /\ ledger' = [ledger EXCEPT ![w] = Append(@, e)]
  BY MoveParts
<1>3. \A o \in Openers \ {w} :
        wallet'[o] = wallet[o] /\ ledger'[o] = ledger[o] /\ announced'[o] = announced[o]
  BY <1>1, <1>2 DEF OpeningTypeOK
<1>4. /\ wallet'[w].balance = After(m, w) /\ wallet'[w].version = wallet[w].version + 1
      /\ ledger'[w] = Append(ledger[w], e) /\ ledger[w] \in Seq(LedgerEntries)
      /\ announced'[w] = Append(announced[w], wallet[w].version + 1)
  BY <1>1, <1>2 DEF OpeningTypeOK
<1>5. /\ After(m, w).cents >= 0 /\ After(m, w).currency = Balance(w).currency
      /\ Direction(m) = "CREDIT" => After(m, w).cents = Balance(w).cents + Amount(m).cents
      /\ Direction(m) = "DEBIT" => After(m, w).cents = Balance(w).cents - Amount(m).cents
      /\ Direction(m) \in Directions
  BY <1>1, MoveParts, MoveFacts
<1>6. BalancesOK'
  <2>1. Balance(w)' = After(m, w) /\ \A o \in Openers \ {w} : Balance(o)' = Balance(o) /\ Open(o)' = Open(o)
    BY <1>3, <1>4 DEF Balance, Open
  <2> QED
    BY <1>1, <1>5, <2>1 DEF BalancesOK
<1>7. EntriesExact'
  <2>1. e.amount.cents = Exact(TextOf(e.source))
    <3>1. m \notin Openers
      BY OpeningAssumption
    <3> QED
      BY <1>1, <1>2, <3>1, AmountIsExact DEF EntryOf, TextOf
  <2>2. \A i \in 1..Len(ledger'[w]) : ledger'[w][i] = e \/ (i \in 1..Len(ledger[w]) /\ ledger'[w][i] = ledger[w][i])
    BY <1>4
  <2>3. \A i \in 1..Len(ledger'[w]) : ledger'[w][i].amount.cents = Exact(TextOf(ledger'[w][i].source))
    BY <2>1, <2>2 DEF EntriesExact
  <2> QED
    BY <1>3, <2>3 DEF EntriesExact, TextOf
<1>8. BookOf(wallet'[w], ledger'[w], announced'[w], w)
  <2> DEFINE n == Len(ledger[w])
             first == First(ledger[w], w)
  <2>1. /\ Chained(ledger[w], announced[w], first)
        /\ Balance(w).cents = Ended(ledger[w], n)
        /\ wallet[w].version = first + n - 1 /\ first \in Nat /\ n \in Nat
    <3>1. BookOf(wallet[w], ledger[w], announced[w], w)
      BY BookIs
    <3>2. first \in Nat /\ n \in Nat
      BY <1>4 DEF First
    <3> HIDE DEF first, n
    <3> QED
      BY <1>1, <3>1, <3>2 DEF BookOf, Open, Balance, n, first
  <2>2. e \in LedgerEntries /\ e.before.cents = Ended(ledger[w], n) /\ e.after.cents = e.before.cents + Signed(e)
    <3>1. Balance(w).cents \in Int /\ Amount(m).cents \in Int
      BY <1>1, OpenRow, AmountIsExact, CentsAreIntegers
    <3> QED
      BY <1>2, <1>5, <2>1, <3>1 DEF EntryOf, Signed, Directions
  <2>3. wallet[w].version + 1 = first + n
    BY <2>1
  <2>4. Chained(Append(ledger[w], e), Append(announced[w], wallet[w].version + 1), first)
    <3> HIDE DEF first, n
    <3> QED
      BY <1>4, <2>1, <2>2, <2>3, ChainGrows DEF n
  <2>5. First(Append(ledger[w], e), w) = first
    <3>1. e.source # w
      BY <1>2, OpeningAssumption DEF EntryOf
    <3>2. Append(ledger[w], e)[1] = IF n = 0 THEN e ELSE ledger[w][1]
      BY <1>4
    <3>3. Append(ledger[w], e) # <<>> /\ (n = 0 <=> ledger[w] = <<>>)
      <4>1. n \in Nat /\ Len(Append(ledger[w], e)) = n + 1 /\ Len(<<>>) = 0
        BY <1>4
      <4>2. n = 0 => ledger[w] = <<>>
        BY <1>4
      <4> QED
        BY <4>1, <4>2
    <3> QED
      BY <3>1, <3>2, <3>3 DEF First
  <2>6. Len(Append(ledger[w], e)) = n + 1 /\ Ended(Append(ledger[w], e), n + 1) = After(m, w).cents
    BY <1>2, <1>4, <2>1 DEF Ended, EntryOf
  <2>7. Append(ledger[w], e) # <<>> /\ wallet'[w] # None
    <3>1. wallet'[w] \in WalletRows
      BY MoveParts
    <3>2. n \in Nat /\ Len(Append(ledger[w], e)) = n + 1 /\ Len(<<>>) = 0
      BY <1>4
    <3> QED
      BY <3>1, <3>2, RowAssumption
  <2> HIDE DEF first, n
  <2> QED
    BY <1>4, <2>1, <2>3, <2>4, <2>5, <2>6, <2>7 DEF BookOf
<1> QED
  BY <1>3, <1>6, <1>7, <1>8, BookIs

-----------------------------------------------------------------------------
(* Reconciliations. *)

LEMMA SignedIsInteger ==
  ASSUME NEW e \in LedgerEntries
  PROVE  Signed(e) \in Int /\ e.after.cents \in Int /\ e.before.cents \in Int
BY CentsAreIntegers DEF Signed, LedgerEntries

\* Chained entries add up to what they move the balance by.
LEMMA NetOfSlice ==
  ASSUME NEW entries \in Seq(LedgerEntries), NEW versions, NEW first,
         Chained(entries, versions, first),
         NEW from \in 0..Len(entries), NEW to \in from..Len(entries)
  PROVE  Net(SubSeq(entries, from + 1, to)) = Ended(entries, to) - Ended(entries, from)
<1> DEFINE slice == SubSeq(entries, from + 1, to)
           amounts == [i \in 1..Len(slice) |-> Signed(slice[i])]
           g == [i \in 0..(to - from) |-> Ended(entries, from + i) - Ended(entries, from)]
<1>1. from \in Nat /\ to \in Nat /\ Len(entries) \in Nat
  OBVIOUS
<1>2. Len(slice) = to - from /\ \A i \in 1..(to - from) : slice[i] = entries[from + i]
  BY <1>1
<1>3. \A i \in 0..Len(entries) : Ended(entries, i) \in Int
  BY SignedIsInteger DEF Ended
<1>4. \A i \in 1..(to - from) :
        Signed(slice[i]) \in Int /\ Ended(entries, from + i) = Ended(entries, from + i - 1) + Signed(slice[i])
  <2> SUFFICES ASSUME NEW i \in 1..(to - from)
               PROVE  Signed(slice[i]) \in Int
                      /\ Ended(entries, from + i) = Ended(entries, from + i - 1) + Signed(slice[i])
    OBVIOUS
  <2>1. from + i \in 1..Len(entries) /\ slice[i] = entries[from + i]
    BY <1>1, <1>2
  <2>2. entries[from + i] \in LedgerEntries
    BY <2>1
  <2> HIDE DEF slice
  <2> QED
    BY <1>1, <2>1, <2>2, SignedIsInteger DEF Chained, Ended
<1>5. amounts \in Seq(Int) /\ Len(amounts) = to - from
  <2> HIDE DEF slice
  <2> QED
    BY <1>1, <1>2, <1>4
<1>6. Running(g, amounts, Len(amounts))
  <2> SUFFICES ASSUME NEW i \in 0..(to - from)
               PROVE  g[i] = IF i = 0 THEN 0 ELSE g[i - 1] + amounts[i]
    BY <1>5 DEF Running
  <2>1. CASE i = 0
    BY <1>1, <1>3, <2>1
  <2>2. CASE i # 0
    <3>1. i \in 1..(to - from) /\ i - 1 \in 0..(to - from) /\ from + i - 1 \in 0..Len(entries)
      BY <1>1, <2>2
    <3>2. amounts[i] = Signed(slice[i])
      <4> HIDE DEF slice
      <4> QED
        BY <1>2, <3>1
    <3>3. g[i] = Ended(entries, from + i) - Ended(entries, from)
          /\ g[i - 1] = Ended(entries, from + i - 1) - Ended(entries, from)
      <4>1. from + (i - 1) = from + i - 1
        BY <1>1, <3>1
      <4> QED
        BY <3>1, <4>1
    <3>4. Ended(entries, from + i) \in Int /\ Ended(entries, from + i - 1) \in Int
          /\ Ended(entries, from) \in Int
      BY <1>1, <1>3, <3>1
    <3>5. Ended(entries, from + i) = Ended(entries, from + i - 1) + amounts[i] /\ amounts[i] \in Int
      BY <1>4, <3>1, <3>2
    <3> HIDE DEF g, amounts, slice
    <3> QED
      BY <2>2, <3>3, <3>4, <3>5
  <2> QED
    BY <2>1, <2>2
<1>7. Total(amounts) = g[to - from]
  <2> HIDE DEF g, amounts
  <2> QED
    BY <1>5, <1>6, TotalIs
<1>8. Net(slice) = Total(amounts)
  BY Zenon DEF Net
<1>9. to - from \in 0..(to - from) /\ from + (to - from) = to
  BY <1>1
<1>10. g[to - from] = Ended(entries, from + (to - from)) - Ended(entries, from)
  BY <1>9, Zenon
<1> HIDE DEF g, amounts
<1>11. g[to - from] = Ended(entries, to) - Ended(entries, from)
  BY <1>9, <1>10, Zenon
<1> QED
  BY <1>7, <1>8, <1>11, Zenon

LEMMA NetOfAll ==
  ASSUME NEW entries \in Seq(LedgerEntries), NEW versions, NEW first,
         Chained(entries, versions, first)
  PROVE  Net(entries) = Ended(entries, Len(entries))
<1>1. Len(entries) \in Nat /\ SubSeq(entries, 0 + 1, Len(entries)) = entries
  OBVIOUS
<1>2. Net(SubSeq(entries, 0 + 1, Len(entries))) = Ended(entries, Len(entries)) - Ended(entries, 0)
  BY <1>1, NetOfSlice
<1>3. Ended(entries, 0) = 0 /\ Ended(entries, Len(entries)) \in Int
  BY <1>1, SignedIsInteger DEF Ended
<1>4. Ended(entries, Len(entries)) - Ended(entries, 0) = Ended(entries, Len(entries))
  BY <1>3
<1> QED
  BY <1>1, <1>2, <1>4, Zenon

LEMMA AuditTypes ==
  ASSUME TypeOK, NEW a \in Auditors, audit[a] # None
  PROVE  audit[a] \in Audits /\ audit[a].wallet \in Openers
BY DEF TypeOK, Audits

\* Entries may be added to a ledger after what a reconciliation has read.
LEMMA AuditStays ==
  ASSUME TypeOK, NEW a \in Auditors, audit[a] # None, AuditOK(a), audit'[a] = audit[a],
         Open(audit[a].wallet)',
         LET w == audit[a].wallet
         IN  \/ ledger'[w] = ledger[w]
             \/ \E e : e.source # w /\ ledger'[w] = Append(ledger[w], e)
  PROVE  AuditOK(a)'
<1> DEFINE w == audit[a].wallet
<1>1. w \in Openers /\ ledger[w] \in Seq(LedgerEntries)
  BY AuditTypes DEF TypeOK, OpeningTypeOK
<1>2. CASE ledger'[w] = ledger[w]
  <2>1. \A version : EntriesAt(w, version)' = EntriesAt(w, version)
    BY <1>2 DEF EntriesAt
  <2> QED
    BY <1>2, <2>1 DEF AuditOK
<1>3. ASSUME NEW e, e.source # w, ledger'[w] = Append(ledger[w], e)
      PROVE  AuditOK(a)'
  <2>1. Len(ledger'[w]) = Len(ledger[w]) + 1 /\ Len(ledger[w]) \in Nat
        /\ (\A i \in 1..Len(ledger[w]) : ledger'[w][i] = ledger[w][i])
        /\ (ledger[w] = <<>> => ledger'[w][1] = e) /\ ledger'[w] # <<>>
        /\ (ledger[w] # <<>> => ledger'[w][1] = ledger[w][1])
    <3>1. ledger'[w] = Append(ledger[w], e) /\ ledger[w] \in Seq(LedgerEntries)
      BY <1>1, <1>3
    <3>2. ledger[w] = <<>> <=> Len(ledger[w]) = 0
      BY <1>1
    <3>3. \A s : s = Append(ledger[w], e) =>
            /\ Len(s) = Len(ledger[w]) + 1 /\ s # <<>>
            /\ s[Len(ledger[w]) + 1] = e
            /\ \A i \in 1..Len(ledger[w]) : s[i] = ledger[w][i]
      BY Z3T(30), <1>1
    <3>4. ledger[w] = <<>> => Len(ledger[w]) + 1 = 1
      BY <3>2
    <3>5. ledger[w] # <<>> => 1 \in 1..Len(ledger[w])
      BY <1>1, <3>2
    <3>6. /\ Len(ledger'[w]) = Len(ledger[w]) + 1 /\ ledger'[w] # <<>>
          /\ ledger'[w][Len(ledger[w]) + 1] = e
          /\ \A i \in 1..Len(ledger[w]) : ledger'[w][i] = ledger[w][i]
      BY <3>1, <3>3
    <3>7. Len(ledger[w]) \in Nat
      BY <1>1
    <3> QED
      BY <3>4, <3>5, <3>6, <3>7
  <2>2. \A version : EntriesAt(w, version)' = EntriesAt(w, version)
    BY <1>3, <2>1 DEF EntriesAt
  <2>3. \A i \in 0..Len(ledger[w]) : Ended(ledger'[w], i) = Ended(ledger[w], i)
    BY Z3T(30), <2>1 DEF Ended
  <2> DEFINE read == EntriesAt(w, audit[a].version)
  <2>4. read' = read /\ read \in 0..Len(ledger[w])
    BY <2>2 DEF AuditOK
  <2>5. audit[a].step # "sum" => audit[a].checked \in 0..Len(ledger[w])
    BY Z3T(30), <2>1, <2>4, AuditTypes DEF AuditOK, Audits
  <2> HIDE DEF read
  <2> QED
    BY Z3T(30), <2>1, <2>3, <2>4, <2>5 DEF AuditOK, read
<1> QED
  BY <1>2, <1>3

LEMMA RecordKeepsAudits ==
  ASSUME TypeOK, CallInv, AuditsOK, NEW o \in Openers, opening[o] = "commit", Record(o),
         UNCHANGED audit
  PROVE  AuditsOK'
<1> SUFFICES ASSUME NEW a \in Auditors, audit[a] # None PROVE AuditOK(a)'
  BY DEF AuditsOK
<1>1. AuditOK(a) /\ Open(audit[a].wallet) /\ audit[a].wallet \in Openers
  BY AuditTypes DEF AuditsOK, AuditOK
<1>2. audit[a].wallet # o
  BY <1>1 DEF CallInv, CallsOK
<1>3. ledger'[audit[a].wallet] = ledger[audit[a].wallet] /\ wallet'[audit[a].wallet] = wallet[audit[a].wallet]
  BY <1>1, <1>2 DEF Record, TypeOK, OpeningTypeOK
<1> QED
  BY <1>1, <1>3, AuditStays DEF Open

LEMMA MoveKeepsAudits ==
  ASSUME TypeOK, RowAssumption, OpeningAssumption, CallInv, BookInv, AuditsOK,
         NEW m \in Movements, NEW w \in Openers, Move(m, w)
  PROVE  AuditsOK'
<1> SUFFICES ASSUME NEW a \in Auditors, audit[a] # None PROVE AuditOK(a)'
  BY DEF AuditsOK, Move
<1>1. AuditOK(a) /\ Open(audit[a].wallet) /\ audit[a].wallet \in Openers /\ audit'[a] = audit[a]
  BY AuditTypes DEF AuditsOK, AuditOK, Move
<1>2. Open(audit[a].wallet)'
  BY <1>1, MoveKeepsCalls DEF TypeOK, BookInv
<1>3. PICK e : EntryOf(m, w, e) /\ ledger' = [ledger EXCEPT ![w] = Append(@, e)]
  BY MoveParts DEF TypeOK, BookInv
<1>4. e.source \notin Openers
  BY <1>3, OpeningAssumption DEF EntryOf
<1>5. CASE audit[a].wallet = w
  <2>1. ledger'[w] = Append(ledger[w], e) /\ e.source # w
    BY <1>3, <1>4 DEF TypeOK, OpeningTypeOK
  <2> QED
    BY <1>1, <1>2, <1>5, <2>1, AuditStays
<1>6. CASE audit[a].wallet # w
  <2>1. ledger'[audit[a].wallet] = ledger[audit[a].wallet]
    BY <1>1, <1>3, <1>6 DEF TypeOK, OpeningTypeOK
  <2> QED
    BY <1>1, <1>2, <2>1, AuditStays
<1> QED
  BY <1>5, <1>6

\* The balance of a wallet is the end of its ledger.
LEMMA BalanceIsEnd ==
  ASSUME TypeOK, BookInv, NEW w \in Openers, Open(w)
  PROVE  /\ ledger[w] \in Seq(LedgerEntries)
         /\ Balance(w).cents = Ended(ledger[w], Len(ledger[w]))
         /\ EntriesAt(w, wallet[w].version) = Len(ledger[w])
         /\ Net(ledger[w]) = Balance(w).cents
         /\ Chained(ledger[w], announced[w], First(ledger[w], w))
<1>1. BookOf(wallet[w], ledger[w], announced[w], w)
  BY BookIs DEF BookInv
<1>2. ledger[w] \in Seq(LedgerEntries) /\ Len(ledger[w]) \in Nat
  BY DEF TypeOK, OpeningTypeOK
<1>3. Balance(w).cents = Ended(ledger[w], Len(ledger[w])) /\ Chained(ledger[w], announced[w], First(ledger[w], w))
      /\ wallet[w].version = First(ledger[w], w) + Len(ledger[w]) - 1
  BY <1>1 DEF BookOf, Open, Balance
<1>4. EntriesAt(w, wallet[w].version) = Len(ledger[w])
  <2>1. CASE ledger[w] # <<>> /\ ledger[w][1].source = w
    BY <1>2, <1>3, <2>1 DEF EntriesAt, First
  <2>2. CASE ~(ledger[w] # <<>> /\ ledger[w][1].source = w)
    <3>1. First(ledger[w], w) = 2 /\ EntriesAt(w, wallet[w].version) = wallet[w].version - 1
      BY <2>2 DEF EntriesAt, First
    <3> QED
      BY <1>2, <1>3, <3>1
  <2> QED
    BY <2>1, <2>2
<1> QED
  BY <1>2, <1>3, <1>4, NetOfAll

LEMMA ReadWalletKeeps ==
  ASSUME TypeOK, ReadAssumption, BookInv, AuditsOK,
         NEW a \in Auditors, NEW w \in Openers, ReadWallet(a, w)
  PROVE  TypeOK' /\ AuditsOK'
<1> DEFINE new == [ step |-> "sum", wallet |-> w, stored |-> Balance(w), version |-> wallet[w].version,
                    calculated |-> 0, difference |-> 0, checked |-> 0 ]
<1>1. Open(w) /\ audit' = [audit EXCEPT ![a] = new] /\ UNCHANGED <<wallet, ledger>>
  BY DEF ReadWallet, bookVars
<1>2. Balance(w) \in Moneys /\ wallet[w].version \in Nat
  BY <1>1, OpenRow DEF TypeOK
<1>3. new \in Audits
  BY <1>2 DEF Audits
<1>4. TypeOK'
  BY <1>1, <1>3 DEF TypeOK, OpeningTypeOK, ReadWallet, bookVars, openingVars
<1>5. audit'[a] = new
  BY <1>1 DEF TypeOK
<1>6. AuditOK(a)'
  <2>1. Balance(w).cents >= 0 /\ Len(ledger[w]) \in Nat
    BY <1>1 DEF BookInv, BalancesOK, TypeOK, OpeningTypeOK
  <2>2. Balance(w).cents = Ended(ledger[w], Len(ledger[w])) /\ EntriesAt(w, wallet[w].version) = Len(ledger[w])
    BY <1>1, BalanceIsEnd
  <2>3. EntriesAt(w, wallet[w].version)' = EntriesAt(w, wallet[w].version)
    BY <1>1 DEF EntriesAt
  <2>4. audit'[a].wallet = w /\ audit'[a].version = wallet[w].version /\ audit'[a].stored = Balance(w)
        /\ audit'[a].step = "sum"
    BY <1>5
  <2> QED
    BY <1>1, <2>1, <2>2, <2>3, <2>4 DEF AuditOK, Open, EntriesAt
<1>7. \A b \in Auditors \ {a} : audit'[b] = audit[b]
  BY <1>1 DEF TypeOK
<1>8. ASSUME NEW b \in Auditors \ {a}, audit[b] # None PROVE AuditOK(b)'
  BY <1>1, <1>7, <1>8, AuditStays DEF AuditsOK, AuditOK, Open
<1> QED
  BY <1>4, <1>6, <1>7, <1>8 DEF AuditsOK

LEMMA SumLedgerKeeps ==
  ASSUME TypeOK, ReadAssumption, BookInv, AuditsOK, NEW a \in Auditors, SumLedger(a)
  PROVE  TypeOK' /\ AuditsOK'
<1> DEFINE w == audit[a].wallet
           stored == audit[a].stored
           calculated == MoneyFromCents(Net(ledger[w]), stored.currency)
           difference == Subtract(stored, calculated)
<1>1. /\ audit[a] \in Audits /\ audit[a] # None /\ w \in Openers /\ stored \in Moneys
      /\ AuditOK(a) /\ Open(w) /\ stored.cents >= 0
  BY AuditTypes DEF SumLedger, Busy, Audits, AuditsOK, AuditOK
<1>2. Net(ledger[w]) = Balance(w).cents /\ Balance(w).cents >= 0 /\ Balance(w) \in Moneys
      /\ ledger[w] \in Seq(LedgerEntries) /\ Balance(w).cents = Ended(ledger[w], Len(ledger[w]))
  BY <1>1, BalanceIsEnd, OpenRow DEF TypeOK, BookInv, BalancesOK
<1>3. stored.cents \in Ints /\ Balance(w).cents \in Ints /\ stored.currency \in Currencies \cup {NoCurrency}
  BY <1>1, <1>2 DEF Moneys
<1>4. calculated \in Moneys /\ calculated.cents = Balance(w).cents /\ calculated.currency = stored.currency
  BY <1>2, <1>3 DEF MoneyFromCents, Moneys
<1>5. stored.cents - Balance(w).cents \in Ints
  BY <1>1, <1>2, <1>3, MoneyAssumption DEF Ints, MinInt
<1>6. difference = Value(MoneyFromCents(stored.cents - Balance(w).cents, stored.currency))
  <2> HIDE DEF calculated, stored, w
  <2> QED
    BY <1>1, <1>4, <1>5, SubtractIsExact
<1>7. difference.error = "none" /\ difference.money.cents = stored.cents - Balance(w).cents
  BY <1>6 DEF Value, Returned, MoneyFromCents
<1>8. UNCHANGED <<wallet, ledger>>
  BY DEF SumLedger, bookVars
<1> DEFINE new == [audit[a] EXCEPT !.step = "done", !.calculated = Balance(w).cents,
                                   !.difference = stored.cents - Balance(w).cents,
                                   !.checked = Len(ledger[w])]
<1>9. audit' = [audit EXCEPT ![a] = new]
  <2>1. audit' = [audit EXCEPT
           ![a].step = IF difference.error = "none" THEN "done" ELSE "error",
           ![a].calculated = calculated.cents,
           ![a].difference = difference.money.cents,
           ![a].checked = Len(ledger[w])]
    BY DEF SumLedger
  <2> HIDE DEF calculated, difference, stored, w
  <2> QED
    BY <1>1, <1>4, <1>7, <2>1 DEF TypeOK, w, stored
<1>10. new \in Audits
  <2>1. Balance(w).cents \in Int /\ stored.cents - Balance(w).cents \in Int /\ Len(ledger[w]) \in Nat
    BY <1>1, <1>2, CentsAreIntegers
  <2> HIDE DEF w, stored
  <2> QED
    BY <1>1, <2>1 DEF Audits
<1>11. audit'[a] = new
  BY <1>9 DEF TypeOK
<1>12. TypeOK'
  <2>1. audit' \in [Auditors -> Audits \cup {None}]
    <3> HIDE DEF new
    <3> QED
      BY <1>9, <1>10 DEF TypeOK
  <2>2. UNCHANGED <<bookVars, openingVars, settled, reading>>
    BY DEF SumLedger
  <2> QED
    BY <2>1, <2>2 DEF TypeOK, OpeningTypeOK, bookVars, openingVars
<1>13. AuditOK(a)'
  <2> DEFINE read == EntriesAt(w, audit[a].version)
  <2>1. /\ audit'[a].wallet = w /\ audit'[a].version = audit[a].version /\ audit'[a].stored = stored
        /\ audit'[a].step = "done" /\ audit'[a].difference = stored.cents - Balance(w).cents
        /\ audit'[a].checked = Len(ledger[w])
    BY <1>1, <1>11 DEF Audits
  <2>2. read \in 0..Len(ledger[w]) /\ stored.cents = Ended(ledger[w], read)
    BY <1>1 DEF AuditOK
  <2>3. Len(ledger[w]) \in Nat
    BY <1>2
  <2> HIDE DEF w, stored, new
  <2> QED
    BY <1>1, <1>2, <1>8, <2>1, <2>2, <2>3 DEF AuditOK, Open, EntriesAt
<1>14. \A b \in Auditors \ {a} : audit'[b] = audit[b]
  BY <1>9 DEF TypeOK
<1>15. ASSUME NEW b \in Auditors \ {a}, audit[b] # None PROVE AuditOK(b)'
  BY <1>8, <1>14, <1>15, AuditStays DEF AuditsOK, AuditOK, Open
<1> QED
  BY <1>12, <1>13, <1>14, <1>15 DEF AuditsOK

-----------------------------------------------------------------------------
(* Pages. *)

LEMMA KeysAreIntegers ==
  ASSUME TypeOK, NEW w \in Openers, NEW i \in 1..Len(ledger[w]) PROVE Key(w, i) \in Int
<1>1. ledger[w][i] \in LedgerEntries
  BY DEF TypeOK, OpeningTypeOK
<1> QED
  BY <1>1 DEF LedgerEntries, Key

LEMMA ListKeepsTypes ==
  ASSUME TypeOK, NEW c \in Clients, NEW w \in Openers, NEW cursor,
         NEW pages \in Seq(SUBSET (Nat \ {0})), NEW cursors \in Seq(Int),
         ListByWallet(c, w, cursor, pages, cursors),
         UNCHANGED <<bookVars, openingVars, settled, audit>>
  PROVE  TypeOK'
<1> DEFINE rows == RowsAfter(w, cursor)
           newPages == Append(pages, Page(w, rows))
           newCursors == IF LookAhead(w, rows) = {} THEN cursors
                         ELSE Append(cursors, CHOOSE k \in NextCursor(w, rows) : TRUE)
           new == [wallet |-> w, pages |-> newPages, cursors |-> newCursors,
                   more |-> LookAhead(w, rows) # {}]
<1>1. reading' = [reading EXCEPT ![c] = new]
  BY DEF ListByWallet
<1>2. rows \subseteq 1..Len(ledger[w]) /\ Len(ledger[w]) \in Nat
  BY DEF RowsAfter, TypeOK, OpeningTypeOK
<1>3. newPages \in Seq(SUBSET (Nat \ {0}))
  <2>1. Page(w, rows) \in SUBSET (Nat \ {0})
    BY <1>2 DEF Page
  <2> HIDE DEF rows
  <2> QED
    BY <2>1
<1>4. newCursors \in Seq(Int)
  <2>1. NextCursor(w, rows) \subseteq Int
    BY <1>2, KeysAreIntegers DEF NextCursor, LookAhead
  <2>2. LookAhead(w, rows) # {} => NextCursor(w, rows) # {}
    BY DEF NextCursor
  <2>3. LookAhead(w, rows) # {} => (CHOOSE k \in NextCursor(w, rows) : TRUE) \in Int
    BY <2>1, <2>2
  <2> HIDE DEF rows
  <2> QED
    BY <2>3
<1>5. new \in Readings
  <2> HIDE DEF newPages, newCursors, rows
  <2> QED
    BY <1>3, <1>4 DEF Readings
<1> QED
  <2> HIDE DEF new
  <2> QED
    BY <1>1, <1>5 DEF TypeOK, OpeningTypeOK, bookVars, openingVars

LEMMA PagesKeepTypes ==
  ASSUME TypeOK, NEW c \in Clients,
         (\E w \in Openers : FirstPage(c, w)) \/ NextPage(c)
  PROVE  TypeOK'
<1>1. ASSUME NEW w \in Openers, FirstPage(c, w) PROVE TypeOK'
  <2>1. <<>> \in Seq(SUBSET (Nat \ {0})) /\ <<>> \in Seq(Int)
    OBVIOUS
  <2> QED
    BY <1>1, <2>1, ListKeepsTypes DEF FirstPage
<1>2. ASSUME NextPage(c) PROVE TypeOK'
  <2>1. reading[c] \in Readings
    BY <1>2 DEF NextPage, TypeOK
  <2>2. reading[c].wallet \in Openers /\ reading[c].pages \in Seq(SUBSET (Nat \ {0}))
        /\ reading[c].cursors \in Seq(Int)
    BY <2>1 DEF Readings
  <2> QED
    BY <1>2, <2>2, ListKeepsTypes DEF NextPage
<1> QED
  BY <1>1, <1>2

-----------------------------------------------------------------------------
(* Every step keeps the invariant. *)

LEMMA InitIInv == RowAssumption /\ Init => IInv
<1> SUFFICES ASSUME RowAssumption, Init PROVE IInv
  OBVIOUS
<1>1. TypeOK
  <2>1. <<>> \in Seq(LedgerEntries) /\ <<>> \in Seq(Nat)
    OBVIOUS
  <2> QED
    BY <2>1 DEF Init, OpeningInit, TypeOK, OpeningTypeOK, Replies
<1>2. \A o \in Openers : ~Open(o) /\ ~Claims(o) /\ reply[o] = "none"
  BY DEF Init, OpeningInit, Open, Claims
<1>3. CallInv
  BY <1>2 DEF CallInv, CallsOK, ClaimsAreUnique, RepliesOK
<1>4. BookIsChained
  <2>1. \A w \in Openers : BookOf(None, <<>>, <<>>, w)
    <3>1. <<>> = [i \in 1..0 |-> 2 + i - 1] /\ Len(<<>>) = 0
      OBVIOUS
    <3> QED
      BY <3>1 DEF BookOf, Chained, First
  <2> QED
    BY <2>1, BookIs DEF Init, OpeningInit
<1>5. BookInv
  <2>1. \A w \in Openers : ledger[w] = <<>>
    BY DEF Init, OpeningInit
  <2> QED
    BY <1>2, <1>4, <2>1 DEF BookInv, BalancesOK, EntriesExact
<1>6. AuditsOK
  BY DEF Init, AuditsOK
<1> QED
  BY <1>1, <1>3, <1>5, <1>6 DEF IInv

LEMMA SameBook ==
  ASSUME BookInv, UNCHANGED bookVars
  PROVE  BookInv'
BY BookIs DEF BookInv, bookVars, BalancesOK, EntriesExact, Open, Balance

LEMMA SameCalls ==
  ASSUME CallInv, UNCHANGED <<wallet, opening, reply>>
  PROVE  CallInv'
BY DEF CallInv, CallsOK, ClaimsAreUnique, RepliesOK, Claims, Open, Accepted, Initial,
   NewBalance, Holder

LEMMA SameAudits ==
  ASSUME TypeOK, AuditsOK, UNCHANGED <<wallet, ledger, audit>>
  PROVE  AuditsOK'
<1> SUFFICES ASSUME NEW a \in Auditors, audit[a] # None PROVE AuditOK(a)'
  BY DEF AuditsOK
<1> QED
  BY AuditStays DEF AuditsOK, AuditOK, Open

LEMMA OpenerKeeps ==
  ASSUME IInv, RowAssumption, NEW o \in Openers, UNCHANGED deskVars,
         Refuse(o) \/ Create(o) \/ CommitOpening(o) \/ LoseAnswer(o) \/ FailOpening(o)
  PROVE  IInv'
<1> USE DEF IInv
<1>0. OpeningTypeOK /\ failures \in Nat
  BY DEF TypeOK, OpeningTypeOK
<1>1. ASSUME opening[o] # "done", UNCHANGED bookVars, failures' \in Nat,
             NEW what \in Replies \ {"created"}, Tell(o, what),
             what = "ErrWalletAlreadyExists" => \E p \in Openers : Open(p) /\ Holder(p) = Holder(o)
      PROVE  IInv'
  <2>1. OpeningTypeOK'
    BY <1>0, <1>1, TellTypes
  <2>2. TypeOK'
    BY <2>1 DEF TypeOK, deskVars
  <2>3. UNCHANGED <<wallet, ledger, audit>>
    BY <1>1 DEF bookVars, deskVars
  <2>4. CallInv'
    BY <1>0, <1>1, <2>3, TellKeepsCalls
  <2> QED
    BY <1>1, <2>2, <2>3, <2>4, SameBook, SameAudits
<1>2. CASE Refuse(o)
  <2>1. opening[o] # "done" /\ UNCHANGED <<bookVars, failures>>
        /\ \/ Tell(o, "ErrInvalidAmount") \/ Tell(o, "ErrNegativeAmount")
           \/ Tell(o, "ErrAmountOverflow")
    <3>1. Initial(o).error \in {"none", "ErrInvalidAmount", "ErrNegativeAmount", "ErrAmountOverflow"}
      BY DEF Initial, NewMoneyFromString, Failed, Value, Returned
    <3> QED
      BY <1>2, <3>1 DEF Refuse
  <2> QED
    BY <1>0, <1>1, <2>1 DEF Replies
<1>3. CASE Create(o) /\ Taken(o)
  <2>1. opening[o] # "done" /\ UNCHANGED <<bookVars, failures>> /\ Accepted(o)
        /\ Tell(o, "ErrWalletAlreadyExists")
    BY <1>3 DEF Create
  <2>2. \E p \in Openers : Open(p) /\ Holder(p) = Holder(o)
    BY <1>3, <2>1, SameHolders DEF Taken, CallInv, CallsOK, Claims
  <2> QED
    BY <1>0, <1>1, <2>1, <2>2 DEF Replies
<1>4. CASE Create(o) /\ ~Taken(o)
  <2>1. opening[o] = "create" /\ Accepted(o) /\ ~Blocked(o) /\ UNCHANGED <<bookVars, failures, reply>>
        /\ opening' = [opening EXCEPT ![o] = "commit"]
    BY <1>4 DEF Create
  <2>2. UNCHANGED <<wallet, ledger, audit>>
    BY <2>1 DEF bookVars, deskVars
  <2>3. TypeOK'
    BY <1>0, <2>1 DEF TypeOK, OpeningTypeOK, bookVars, deskVars
  <2>4. CallInv'
    BY <1>0, <1>4, <2>1, <2>2, ClaimKeepsCalls
  <2> QED
    BY <2>1, <2>2, <2>3, <2>4, SameBook, SameAudits
<1>5. CASE CommitOpening(o) \/ LoseAnswer(o)
  <2>1. PICK what \in {"created", "error"} : Tell(o, what) /\ Record(o) /\ opening[o] = "commit"
    BY <1>5 DEF CommitOpening, LoseAnswer
  <2>2. failures' \in Nat
    BY <1>0, <1>5 DEF CommitOpening, LoseAnswer
  <2>3. OpeningTypeOK'
    BY <1>0, <2>1, <2>2, RecordKeepsTypes
  <2>4. TypeOK'
    BY <2>3 DEF TypeOK, deskVars
  <2>5. CallInv'
    BY <1>0, <2>1, RecordKeepsCalls
  <2>6. BookInv'
    BY <1>0, <2>1, RecordKeepsBook
  <2>7. AuditsOK'
    BY <2>1, RecordKeepsAudits DEF deskVars
  <2> QED
    BY <2>4, <2>5, <2>6, <2>7
<1>6. CASE FailOpening(o)
  <2>1. opening[o] # "done" /\ UNCHANGED bookVars /\ failures' \in Nat /\ Tell(o, "error")
    BY <1>0, <1>6 DEF FailOpening
  <2> QED
    BY <1>1, <2>1 DEF Replies
<1> QED
  BY <1>2, <1>3, <1>4, <1>5, <1>6

LEMMA MoveKeeps ==
  ASSUME IInv, RowAssumption, OpeningAssumption, NEW m \in Movements, NEW w \in Openers, Move(m, w)
  PROVE  IInv'
<1> USE DEF IInv
<1>1. OpeningTypeOK /\ BalancesOK
  BY DEF TypeOK, BookInv
<1>2. OpeningTypeOK'
  BY <1>1, MoveKeepsTypes
<1>3. TypeOK'
  BY <1>2 DEF TypeOK, Move
<1> QED
  BY <1>1, <1>3, MoveKeepsCalls, MoveKeepsBook, MoveKeepsAudits

LEMMA NextKeepsIInv ==
  ASSUME IInv, [Next]_vars, RowAssumption, ReadAssumption, OpeningAssumption
  PROVE  IInv'
<1> USE DEF IInv
<1>0. ASSUME UNCHANGED <<bookVars, openingVars, audit>>, TypeOK' PROVE IInv'
  <2>1. UNCHANGED <<wallet, ledger, audit, opening, reply>>
    BY <1>0 DEF bookVars, openingVars
  <2> QED
    BY <1>0, <2>1, SameBook, SameCalls, SameAudits
<1>1. CASE OpenerStep
  BY <1>1, OpenerKeeps DEF OpenerStep, OpeningNext
<1>2. ASSUME NEW m \in Movements, NEW w \in Openers, Move(m, w) PROVE IInv'
  BY <1>2, MoveKeeps
<1>3. ASSUME NEW m \in Movements, NEW w \in Openers, Reject(m, w) PROVE IInv'
  BY <1>0, <1>3 DEF Reject, TypeOK, OpeningTypeOK, bookVars, openingVars
<1>4. ASSUME NEW a \in Auditors, SumLedger(a) \/ \E w \in Openers : ReadWallet(a, w) PROVE IInv'
  <2>1. TypeOK' /\ AuditsOK'
    BY <1>4, SumLedgerKeeps, ReadWalletKeeps
  <2>2. UNCHANGED bookVars /\ UNCHANGED <<wallet, opening, reply>>
    BY <1>4 DEF SumLedger, ReadWallet, bookVars, openingVars
  <2> QED
    BY <2>1, <2>2, SameBook, SameCalls
<1>5. ASSUME NEW c \in Clients, NextPage(c) \/ \E w \in Openers : FirstPage(c, w) PROVE IInv'
  <2>1. TypeOK'
    BY <1>5, PagesKeepTypes
  <2>2. UNCHANGED <<bookVars, openingVars, audit>>
    BY <1>5 DEF NextPage, FirstPage
  <2> QED
    BY <1>0, <2>1, <2>2
<1>6. CASE UNCHANGED vars
  BY <1>0, <1>6 DEF vars, deskVars, TypeOK, OpeningTypeOK, bookVars, openingVars
<1> QED
  BY <1>1, <1>2, <1>3, <1>4, <1>5, <1>6 DEF Next

THEOREM AlwaysIInv == Spec => []IInv
<1>1. Init => IInv
  BY RowAssumption, InitIInv
<1>2. IInv /\ [Next]_vars => IInv'
  BY RowAssumption, ReadAssumption, OpeningAssumption, NextKeepsIInv
<1> QED
  BY <1>1, <1>2, PTL DEF Spec

-----------------------------------------------------------------------------
(* What it promises. *)

\* Every variable keeps its type; in particular no amount ever leaves the machine integer.
THEOREM TypeCorrect == Spec => []TypeOK
<1>1. IInv => TypeOK
  BY DEF IInv
<1> QED
  BY <1>1, AlwaysIInv, PTL

\* However many calls race, fail and are retried, a player has one wallet in a currency.
THEOREM OneWalletCorrect == Spec => []OneWalletPerHolder
<1>1. IInv => OneWalletPerHolder
  BY DEF IInv, CallInv, ClaimsAreUnique, Claims, OneWalletPerHolder
<1> QED
  BY <1>1, AlwaysIInv, PTL

\* What a caller of POST /wallets is told is so, and stays so.
THEOREM RepliesCorrect == Spec => []RepliesAreTrue
<1>1. RepliesOK => RepliesAreTrue
  BY DEF RepliesOK, RepliesAreTrue, mapError
<1>2. IInv => RepliesAreTrue
  BY <1>1 DEF IInv, CallInv
<1> QED
  BY <1>2, AlwaysIInv, PTL

\* Entries, versions and balances fit together, for any movements.
THEOREM ChainCorrect == Spec => []BookIsChained
<1>1. IInv => BookIsChained
  BY DEF IInv, BookInv
<1> QED
  BY <1>1, AlwaysIInv, PTL

\* No arithmetic of any width makes or loses money: the balance is what was written.
THEOREM BalanceCorrect == Spec => []BalanceIsExact
<1>1. IInv => BalanceIsExact
  <2> SUFFICES ASSUME IInv, NEW w \in Openers, Open(w)
               PROVE  Balance(w).cents = ExactNet(ledger[w]) /\ Balance(w).cents \in 0..MaxInt
    BY DEF BalanceIsExact, Balance
  <2>1. ledger[w] \in Seq(LedgerEntries) /\ Net(ledger[w]) = Balance(w).cents
    BY BalanceIsEnd DEF IInv
  <2>2. ASSUME NEW i \in 1..Len(ledger[w]) PROVE Written(ledger[w][i]) = Signed(ledger[w][i])
    <3>1. ledger[w][i].amount.cents = Exact(TextOf(ledger[w][i].source))
      BY DEF IInv, BookInv, EntriesExact
    <3> QED
      BY <3>1 DEF Written, Signed
  <2>3. ExactNet(ledger[w]) = Net(ledger[w])
    BY <2>2 DEF ExactNet, Net
  <2>4. Balance(w).cents >= 0 /\ Balance(w) \in Moneys
    BY OpenRow DEF IInv, TypeOK, BookInv, BalancesOK
  <2>5. Balance(w).cents \in 0..MaxInt
    BY <2>4, MoneyAssumption DEF Moneys, Ints, MinInt
  <2> QED
    BY <2>1, <2>3, <2>5
<1> QED
  BY <1>1, AlwaysIInv, PTL

\* A reconciliation is never in error, and what it reports moved between its two reads.
THEOREM DifferenceCorrect == Spec => []DifferenceIsExplained
<1>1. IInv => DifferenceIsExplained
  <2> SUFFICES ASSUME IInv, NEW a \in Auditors, audit[a] # None, audit[a].step # "sum"
               PROVE  LET w == audit[a].wallet
                          read == EntriesAt(w, audit[a].version)
                      IN  /\ audit[a].step = "done"
                          /\ read <= audit[a].checked
                          /\ audit[a].difference = -Net(SubSeq(ledger[w], read + 1, audit[a].checked))
    BY DEF DifferenceIsExplained
  <2> DEFINE w == audit[a].wallet
             read == EntriesAt(w, audit[a].version)
             checked == audit[a].checked
  <2>1. AuditOK(a) /\ w \in Openers /\ checked \in Nat
    BY AuditTypes DEF IInv, AuditsOK, Audits
  <2>2. /\ audit[a].step = "done" /\ read <= checked /\ checked <= Len(ledger[w])
        /\ read \in 0..Len(ledger[w]) /\ Open(w)
        /\ audit[a].difference = Ended(ledger[w], read) - Ended(ledger[w], checked)
    BY <2>1 DEF AuditOK
  <2>3. ledger[w] \in Seq(LedgerEntries) /\ Chained(ledger[w], announced[w], First(ledger[w], w))
    BY <2>1, <2>2, BalanceIsEnd DEF IInv
  <2>4. Net(SubSeq(ledger[w], read + 1, checked)) = Ended(ledger[w], checked) - Ended(ledger[w], read)
    <3>1. checked \in read..Len(ledger[w])
      BY <2>1, <2>2, <2>3
    <3> HIDE DEF w, read, checked
    <3> QED
      BY <2>2, <2>3, <3>1, NetOfSlice
  <2>5. Ended(ledger[w], checked) \in Int /\ Ended(ledger[w], read) \in Int
    BY Z3T(30), <2>1, <2>2, <2>3, SignedIsInteger DEF Ended
  <2> HIDE DEF w, read, checked
  <2> QED
    BY <2>2, <2>4, <2>5 DEF w, read, checked
<1> QED
  BY <1>1, AlwaysIInv, PTL

-----------------------------------------------------------------------------
(* The wallets implement the accounts of AccountBook, for every value of   *)
(* the constants: the step refinement of ImplementsAccounts.               *)

\* The refinement mapping, of any table of wallets.
AccountIn(rows, h) ==
  IF \E o \in Openers : rows[o] # None /\ Holder(o) = h
  THEN rows[CHOOSE o \in Openers : rows[o] # None /\ Holder(o) = h].balance.cents
  ELSE None
account == [h \in Holders |-> AccountIn(wallet, h)]

\* The constants of the accounts.
AskedFor(h) == {Exact(OpeningOf[o].balance) : o \in {o \in Openers : Holder(o) = h}}
Asked(m) == Exact(MovementOf[m].amount)
InCurrencyOf(m, h) == h[2] = CodeOf[MovementOf[m].amount.currency]

AbstractOpen(h) ==
  /\ account[h] = None
  /\ \E amount \in AskedFor(h) : amount <= MaxInt /\ account' = [account EXCEPT ![h] = amount]
  /\ UNCHANGED settled
AbstractCredit(m, h) ==
  /\ m \notin settled
  /\ account[h] # None /\ InCurrencyOf(m, h) /\ Direction(m) # "DEBIT"
  /\ account[h] + Asked(m) <= MaxInt
  /\ account' = [account EXCEPT ![h] = @ + Asked(m)]
  /\ settled' = settled \cup {m}
AbstractDebit(m, h) ==
  /\ m \notin settled
  /\ account[h] # None /\ InCurrencyOf(m, h) /\ Direction(m) = "DEBIT"
  /\ IF account[h] >= Asked(m) THEN account' = [account EXCEPT ![h] = @ - Asked(m)]
                               ELSE UNCHANGED account
  /\ settled' = settled \cup {m}

LEMMA Refines ==
  /\ Accounts!Init <=> account = [h \in Holders |-> None] /\ settled = {}
  /\ \A h \in Holders : AbstractOpen(h) => Accounts!Next
  /\ \A h \in Holders, m \in Movements : AbstractCredit(m, h) \/ AbstractDebit(m, h) => Accounts!Next
  /\ UNCHANGED <<account, settled>> => UNCHANGED Accounts!vars
<1>1. account = [h \in Holders |-> IF HolderOpen(h) THEN wallet[OpenedBy(h)].balance.cents ELSE None]
  BY DEF account, AccountIn, HolderOpen, OpenedBy, Open
<1>2. account' = [h \in Holders |-> IF HolderOpen(h) THEN wallet[OpenedBy(h)].balance.cents ELSE None]'
  BY DEF account, AccountIn, HolderOpen, OpenedBy, Open
<1>3. Accounts!Init <=> account = [h \in Holders |-> None] /\ settled = {}
  BY <1>1 DEF Accounts!Init
<1>4. ASSUME NEW h \in Holders, AbstractOpen(h) PROVE Accounts!Next
  <2>1. Accounts!OpenAccount(h)
    BY <1>1, <1>2, <1>4 DEF Accounts!OpenAccount, AbstractOpen, AskedFor
  <2> QED
    BY <2>1 DEF Accounts!Next
<1>5. ASSUME NEW h \in Holders, NEW m \in Movements, AbstractCredit(m, h) PROVE Accounts!Next
  <2>1. Accounts!Credit(m, h)
    BY <1>1, <1>2, <1>5 DEF Accounts!Credit, AbstractCredit, Asked, InCurrencyOf
  <2> QED
    BY <2>1 DEF Accounts!Next
<1>6. ASSUME NEW h \in Holders, NEW m \in Movements, AbstractDebit(m, h) PROVE Accounts!Next
  <2>1. Accounts!Debit(m, h)
    BY <1>1, <1>2, <1>6 DEF Accounts!Debit, AbstractDebit, Asked, InCurrencyOf
  <2> QED
    BY <2>1 DEF Accounts!Next
<1>7. UNCHANGED <<account, settled>> => UNCHANGED Accounts!vars
  BY <1>1, <1>2 DEF Accounts!vars
<1> QED
  BY <1>3, <1>4, <1>5, <1>6, <1>7

-----------------------------------------------------------------------------
(* The mapping, where a holder has one wallet. *)

OneRowEach(rows) ==
  \A o, p \in Openers : rows[o] # None /\ rows[p] # None /\ Holder(o) = Holder(p) => o = p

LEMMA AccountOf ==
  ASSUME NEW rows, OneRowEach(rows), NEW o \in Openers, rows[o] # None
  PROVE  AccountIn(rows, Holder(o)) = rows[o].balance.cents
<1> DEFINE IsTheOne(p) == rows[p] # None /\ Holder(p) = Holder(o)
           one == CHOOSE p \in Openers : IsTheOne(p)
<1>1. one \in Openers /\ IsTheOne(one)
  OBVIOUS
<1>2. one = o
  <2> HIDE DEF one
  <2> QED
    BY <1>1 DEF OneRowEach
<1> QED
  BY <1>2 DEF AccountIn

LEMMA NoAccount ==
  ASSUME NEW rows, NEW h, \A o \in Openers : Holder(o) = h => rows[o] = None
  PROVE  AccountIn(rows, h) = None
BY DEF AccountIn

\* A step that changes the row of one wallet changes the account of its holder.
LEMMA OneAccountChanges ==
  ASSUME NEW w \in Openers, wallet'[w] # None, OneRowEach(wallet), OneRowEach(wallet'),
         \A o \in Openers \ {w} : wallet'[o] = wallet[o]
  PROVE  account' = [account EXCEPT ![Holder(w)] = wallet'[w].balance.cents]
<1>1. account = [h \in Holders |-> AccountIn(wallet, h)] /\ account' = [h \in Holders |-> AccountIn(wallet', h)]
  BY DEF account, AccountIn
<1>2. AccountIn(wallet', Holder(w)) = wallet'[w].balance.cents
  BY AccountOf
<1>3. ASSUME NEW h \in Holders, h # Holder(w) PROVE AccountIn(wallet', h) = AccountIn(wallet, h)
  <2>1. CASE \E o \in Openers : Holder(o) = h /\ wallet[o] # None
    <3>1. PICK o \in Openers : Holder(o) = h /\ wallet[o] # None
      BY <2>1
    <3>2. o # w /\ wallet'[o] = wallet[o]
      BY <1>3, <3>1
    <3>3. AccountIn(wallet, h) = wallet[o].balance.cents /\ AccountIn(wallet', h) = wallet'[o].balance.cents
      BY <3>1, <3>2, AccountOf
    <3> QED
      BY <3>2, <3>3
  <2>2. CASE \A o \in Openers : Holder(o) = h => wallet[o] = None
    <3>1. \A o \in Openers : Holder(o) = h => wallet'[o] = None
      BY <1>3, <2>2
    <3> QED
      BY <2>2, <3>1, NoAccount
  <2> QED
    BY <2>1, <2>2
<1> QED
  BY <1>1, <1>2, <1>3

LEMMA HoldersOf == ASSUME NEW o \in Openers PROVE Holder(o) \in Holders
BY DEF Holders

LEMMA OneRowNow == ASSUME IInv PROVE OneRowEach(wallet)
BY DEF IInv, CallInv, ClaimsAreUnique, Claims, Open, OneRowEach

LEMMA OneRowNext == ASSUME IInv' PROVE OneRowEach(wallet')
BY DEF IInv, CallInv, ClaimsAreUnique, Claims, Open, OneRowEach

-----------------------------------------------------------------------------
(* Every step is one of the clerk's, or none. *)

\* A commit of POST /wallets opens the account, whether its answer is lost or not.
LEMMA RecordRefines ==
  ASSUME IInv, IInv', RowAssumption, NEW o \in Openers, opening[o] = "commit", Record(o),
         UNCHANGED settled
  PROVE  AbstractOpen(Holder(o))
<1>1. Accepted(o) /\ ~Open(o) /\ \A p \in Openers \ {o} : Open(p) => Holder(p) # Holder(o)
  BY DEF IInv, CallInv, CallsOK, ClaimsAreUnique, Claims
<1>2. wallet'[o] = [player |-> OpeningOf[o].player, balance |-> NewBalance(o), version |-> 1]
      /\ wallet'[o] \in WalletRows /\ \A p \in Openers \ {o} : wallet'[p] = wallet[p]
  BY <1>1, NoBookYet, RecordFacts DEF IInv, TypeOK, Record, OpeningTypeOK
<1>3. account[Holder(o)] = None
  <2>1. \A p \in Openers : Holder(p) = Holder(o) => wallet[p] = None
    BY <1>1 DEF Open
  <2> QED
    BY <2>1, NoAccount, HoldersOf DEF account
<1>4. account' = [account EXCEPT ![Holder(o)] = NewBalance(o).cents]
  BY <1>2, OneAccountChanges, OneRowNow, OneRowNext, RowAssumption
<1>5. NewBalance(o).cents = Exact(OpeningOf[o].balance) /\ NewBalance(o) \in Moneys
  BY <1>1, OpeningIsExact
<1>6. NewBalance(o).cents \in AskedFor(Holder(o)) /\ NewBalance(o).cents <= MaxInt
  BY <1>5, MoneyAssumption DEF AskedFor, Moneys, Ints, MinInt
<1> QED
  BY <1>3, <1>4, <1>6 DEF AbstractOpen

\* What both outcomes of a movement have in common.
LEMMA MovementMayMove ==
  ASSUME IInv, RowAssumption, NEW m \in Movements, NEW w \in Openers, Open(w), AmountOK(m, w)
  PROVE  /\ account[Holder(w)] = Balance(w).cents /\ account[Holder(w)] # None
         /\ InCurrencyOf(m, Holder(w)) /\ Asked(m) = Amount(m).cents
         /\ Balance(w).cents \in Int /\ Amount(m).cents \in Int
<1>1. account[Holder(w)] = Balance(w).cents
  BY AccountOf, OneRowNow, HoldersOf DEF account, Open, Balance
<1>2. Balance(w).cents \in Int /\ Amount(m).cents \in Int
  BY OpenRow, AmountIsExact, CentsAreIntegers DEF IInv, TypeOK
<1>3. InCurrencyOf(m, Holder(w))
  <2>1. Balance(w).currency = CodeOf[OpeningOf[w].balance.currency]
    BY DEF IInv, BookInv, BalancesOK
  <2> QED
    BY <2>1, AmountIsExact DEF InCurrencyOf, Holder
<1> QED
  BY <1>1, <1>2, <1>3, AmountIsExact, RowAssumption DEF Asked

LEMMA MoveRefines ==
  ASSUME IInv, IInv', RowAssumption, NEW m \in Movements, NEW w \in Openers, Move(m, w)
  PROVE  AbstractCredit(m, Holder(w)) \/ AbstractDebit(m, Holder(w))
<1>1. /\ Open(w) /\ AmountOK(m, w) /\ ColumnTakes(m, w) /\ Balance(w).cents >= 0
      /\ m \notin settled /\ settled' = settled \cup {m}
      /\ Direction(m) = "DEBIT" => Covered(m, w)
  BY MoveParts DEF Move, IInv, TypeOK, BookInv
<1>2. /\ account[Holder(w)] = Balance(w).cents /\ account[Holder(w)] # None
      /\ InCurrencyOf(m, Holder(w)) /\ Asked(m) = Amount(m).cents
      /\ Balance(w).cents \in Int /\ Amount(m).cents \in Int
  BY <1>1, MovementMayMove
<1>3. wallet'[w].balance = After(m, w) /\ wallet'[w] # None
      /\ \A o \in Openers \ {w} : wallet'[o] = wallet[o]
  <2>1. /\ wallet' = [wallet EXCEPT ![w] =
             [player |-> wallet[w].player, balance |-> After(m, w), version |-> wallet[w].version + 1]]
        /\ wallet'[w] \in WalletRows
    BY MoveParts DEF IInv, TypeOK, BookInv
  <2> QED
    BY <2>1, RowAssumption DEF IInv, TypeOK, OpeningTypeOK
<1>4. account' = [account EXCEPT ![Holder(w)] = After(m, w).cents]
  BY <1>3, OneAccountChanges, OneRowNow, OneRowNext
<1>5. /\ After(m, w).cents = Updated(m, w) /\ Direction(m) \in Directions
      /\ Direction(m) = "CREDIT" => After(m, w).cents = Balance(w).cents + Amount(m).cents
      /\ Direction(m) = "DEBIT" => After(m, w).cents = Balance(w).cents - Amount(m).cents
  BY <1>1, MoveFacts DEF IInv, TypeOK
<1>6. CASE Direction(m) = "CREDIT"
  <2>1. account[Holder(w)] + Asked(m) <= MaxInt
    BY <1>1, <1>2, <1>5, <1>6, MoneyAssumption DEF ColumnTakes
  <2>2. account' = [account EXCEPT ![Holder(w)] = @ + Asked(m)]
    BY <1>2, <1>4, <1>5, <1>6 DEF account
  <2> QED
    BY <1>1, <1>2, <1>6, <2>1, <2>2 DEF AbstractCredit
<1>7. CASE Direction(m) = "DEBIT"
  <2>1. account[Holder(w)] >= Asked(m)
    BY <1>1, <1>2, <1>7 DEF Covered
  <2>2. account' = [account EXCEPT ![Holder(w)] = @ - Asked(m)]
    BY <1>2, <1>4, <1>5, <1>7 DEF account
  <2> QED
    BY <1>1, <1>2, <1>7, <2>1, <2>2 DEF AbstractDebit
<1> QED
  BY <1>5, <1>6, <1>7 DEF Directions

LEMMA RejectRefines ==
  ASSUME IInv, RowAssumption, NEW m \in Movements, NEW w \in Openers, Reject(m, w)
  PROVE  AbstractDebit(m, Holder(w))
<1>1. /\ Open(w) /\ AmountOK(m, w) /\ Direction(m) = "DEBIT" /\ ~Covered(m, w)
      /\ m \notin settled /\ settled' = settled \cup {m} /\ UNCHANGED wallet
  BY DEF Reject, bookVars
<1>2. account' = account
  BY <1>1 DEF account, AccountIn
<1>3. ~(account[Holder(w)] >= Asked(m))
  BY <1>1, MovementMayMove DEF Covered
<1> QED
  BY <1>1, <1>2, <1>3, MovementMayMove DEF AbstractDebit

LEMMA OtherStepsRefine ==
  ASSUME UNCHANGED <<wallet, settled>>
  PROVE  UNCHANGED <<account, settled>>
BY DEF account, AccountIn

LEMMA StepRefines ==
  ASSUME IInv, IInv', [Next]_vars, RowAssumption
  PROVE  [Accounts!Next]_(Accounts!vars)
<1>1. ASSUME NEW o \in Openers, opening[o] = "commit", Record(o), UNCHANGED settled
      PROVE  Accounts!Next
  BY <1>1, RecordRefines, Refines, HoldersOf
<1>2. ASSUME NEW m \in Movements, NEW w \in Openers, Move(m, w) \/ Reject(m, w)
      PROVE  Accounts!Next
  BY <1>2, MoveRefines, RejectRefines, Refines, HoldersOf
<1>3. CASE UNCHANGED <<wallet, settled>>
  BY <1>3, OtherStepsRefine, Refines
<1>4. \/ \E o \in Openers : opening[o] = "commit" /\ Record(o) /\ UNCHANGED settled
      \/ \E m \in Movements, w \in Openers : Move(m, w) \/ Reject(m, w)
      \/ UNCHANGED <<wallet, settled>>
  BY DEF Next, OpenerStep, OpeningNext, Refuse, Create, CommitOpening, LoseAnswer, FailOpening,
     ReadWallet, SumLedger, FirstPage, NextPage, vars, bookVars, deskVars
<1> QED
  BY <1>1, <1>2, <1>3, <1>4

\* Races, failed and lost commits, retries, the width of the integers, reconciliations and
\* clients are nothing an account's holder can see.
THEOREM AccountsImplemented == Spec => ImplementsAccounts
<1>1. RowAssumption /\ Init => Accounts!Init
  <2> SUFFICES ASSUME Init PROVE account = [h \in Holders |-> None] /\ settled = {}
    BY Refines
  <2>1. \A o \in Openers : wallet[o] = None
    BY DEF Init, OpeningInit
  <2> QED
    BY <2>1, NoAccount DEF account, Init
<1>2. IInv /\ IInv' /\ [Next]_vars => [Accounts!Next]_(Accounts!vars)
  BY RowAssumption, StepRefines
<1> QED
  BY <1>1, <1>2, RowAssumption, AlwaysIInv, PTL DEF Spec, ImplementsAccounts, Accounts!Spec
=============================================================================
