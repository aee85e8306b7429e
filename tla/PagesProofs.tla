----------------------------- MODULE PagesProofs -----------------------------
(***************************************************************************)
(* Theorems about the pages of a ledger, for any limit, any clocks and any *)
(* movements committed while it is read.                                   *)
(***************************************************************************)
EXTENDS WalletProofs, FiniteSetTheorems

-----------------------------------------------------------------------------
(* The inductive invariant. *)

LastCursor(c) == reading[c].cursors[Len(reading[c].cursors)]

PagesAreEntries(c) ==
  LET w == reading[c].wallet
      cursors == reading[c].cursors
  IN  /\ Given(c) \subseteq 1..Len(ledger[w])
      /\ \A n \in 1..Len(cursors) : \E l \in 1..Len(ledger[w]) : Key(w, l) = cursors[n]

\* The cursor a client is about to follow is behind everything it was given.
CursorIsAhead(c) ==
  reading[c].more =>
    /\ Len(reading[c].cursors) > 0
    /\ \A k \in Given(c) : Key(reading[c].wallet, k) < LastCursor(c)

InOrder(c) ==
  \A i, j \in 1..Len(reading[c].pages) : i < j =>
    \A k \in reading[c].pages[i], l \in reading[c].pages[j] :
      Key(reading[c].wallet, k) < Key(reading[c].wallet, l)

\* Nothing is missing before an entry a client has seen but what came late.
NothingMissing(c) ==
  LET w == reading[c].wallet
  IN  \A i \in 1..Len(ledger[w]), j \in Seen(c) :
        (Key(w, i) < Key(w, j) /\ i \notin Seen(c)) =>
          \E k \in Seen(c) : k < i /\ Key(w, i) < Key(w, k)

ReaderOK(c) == PagesAreEntries(c) /\ CursorIsAhead(c) /\ InOrder(c) /\ NothingMissing(c)
ReadersOK == \A c \in Clients : reading[c] # None => ReaderOK(c)

-----------------------------------------------------------------------------
(* Ledgers only grow. *)

LEMMA LedgerGrows ==
  ASSUME TypeOK, [Next]_vars, NEW w \in Openers
  PROVE  ledger'[w] = ledger[w] \/ \E e : ledger'[w] = Append(ledger[w], e)
<1>1. ASSUME NEW o \in Openers, Record(o)
      PROVE  ledger'[w] = ledger[w] \/ \E e : ledger'[w] = Append(ledger[w], e)
  <2>1. ledger' = ledger \/ \E e : ledger' = [ledger EXCEPT ![o] = Append(@, e)]
    BY <1>1 DEF Record
  <2> QED
    BY <2>1 DEF TypeOK, OpeningTypeOK
<1>2. ASSUME NEW m \in Movements, NEW o \in Openers, Move(m, o)
      PROVE  ledger'[w] = ledger[w] \/ \E e : ledger'[w] = Append(ledger[w], e)
  <2>1. PICK e : ledger' = [ledger EXCEPT ![o] = Append(@, e)]
    BY <1>2 DEF Move
  <2> QED
    BY <2>1 DEF TypeOK, OpeningTypeOK
<1>3. \/ \E o \in Openers : Record(o)
      \/ \E m \in Movements, o \in Openers : Move(m, o)
      \/ UNCHANGED ledger
  BY DEF Next, OpenerStep, OpeningNext, Refuse, Create, CommitOpening, LoseAnswer, FailOpening,
     Reject, ReadWallet, SumLedger, FirstPage, NextPage, vars, bookVars, deskVars
<1> QED
  BY <1>1, <1>2, <1>3

LEMMA ReaderTypes ==
  ASSUME TypeOK, NEW c \in Clients, reading[c] # None
  PROVE  /\ reading[c] \in Readings /\ reading[c].wallet \in Openers
         /\ reading[c].pages \in Seq(SUBSET (Nat \ {0})) /\ reading[c].cursors \in Seq(Int)
         /\ ledger[reading[c].wallet] \in Seq(LedgerEntries)
BY DEF TypeOK, OpeningTypeOK, Readings

\* A client that waits is not disturbed by an entry more.
LEMMA ReaderStays ==
  ASSUME TypeOK, TypeOK', NEW c \in Clients, reading[c] # None, ReaderOK(c), reading'[c] = reading[c],
         LET w == reading[c].wallet
         IN  ledger'[w] = ledger[w] \/ \E e : ledger'[w] = Append(ledger[w], e)
  PROVE  ReaderOK(c)'
<1> DEFINE w == reading[c].wallet
           n == Len(ledger[w])
<1>1. w \in Openers /\ n \in Nat /\ ledger[w] \in Seq(LedgerEntries) /\ ledger'[w] \in Seq(LedgerEntries)
      /\ reading[c].cursors \in Seq(Int)
  BY ReaderTypes DEF TypeOK, OpeningTypeOK
<1>2. /\ Len(ledger'[w]) \in {n, n + 1}
      /\ \A i \in 1..n : ledger'[w][i] = ledger[w][i]
  BY <1>1
<1>3. \A i \in 1..n : Key(w, i)' = Key(w, i)
  BY <1>2 DEF Key
<1>4. Given(c)' = Given(c) /\ Given(c) \subseteq 1..n
  BY DEF Given, ReaderOK, PagesAreEntries
<1>5. PagesAreEntries(c)'
  BY SMTT(30), <1>1, <1>2, <1>3, <1>4 DEF ReaderOK, PagesAreEntries
<1>6. CursorIsAhead(c)'
  BY <1>3, <1>4 DEF ReaderOK, CursorIsAhead, LastCursor
<1>7. InOrder(c)'
  <2>1. \A i \in 1..Len(reading[c].pages) : reading[c].pages[i] \subseteq 1..n
    BY <1>4 DEF Given
  <2> QED
    BY <1>3, <2>1 DEF ReaderOK, InOrder
<1>8. \A i \in 1..n : i \in Seen(c)' <=> i \in Seen(c)
  BY SMTT(30), <1>2, <1>3, <1>4 DEF Seen
<1>9. Seen(c) \subseteq 1..n /\ Seen(c)' \subseteq 1..Len(ledger'[w])
  BY SMTT(30), <1>1, <1>2, <1>4 DEF Seen
<1>10. \A j \in Seen(c)' : \E l \in Seen(c) : Key(w, l) = Key(w, j)'
  <2> SUFFICES ASSUME NEW j \in Seen(c)' PROVE \E l \in Seen(c) : Key(w, l) = Key(w, j)'
    OBVIOUS
  <2>1. CASE j \in 1..n
    BY <1>3, <1>8, <2>1
  <2>2. CASE j \notin 1..n
    <3>1. PICK m \in 1..Len(reading[c].cursors) : reading[c].cursors[m] = Key(w, j)'
      BY <1>4, <2>2 DEF Seen
    <3>2. PICK l \in 1..n : Key(w, l) = reading[c].cursors[m]
      BY DEF ReaderOK, PagesAreEntries
    <3> QED
      BY <3>1, <3>2 DEF Seen
  <2> QED
    BY <2>1, <2>2
<1>11. ASSUME NEW i \in 1..Len(ledger'[w]), NEW j \in Seen(c)', Key(w, i)' < Key(w, j)', i \notin Seen(c)'
       PROVE  \E k \in Seen(c)' : k < i /\ Key(w, i)' < Key(w, k)'
  <2>1. PICK l \in Seen(c) : Key(w, l) = Key(w, j)'
    BY <1>10
  <2>2. l \in Seen(c)' /\ Key(w, l)' = Key(w, j)' /\ l \in 1..n
    BY <1>3, <1>8, <1>9, <2>1
  <2>3. CASE i \in 1..n
    <3>1. Key(w, i) < Key(w, l) /\ i \notin Seen(c)
      BY <1>3, <1>8, <1>11, <2>1, <2>3
    <3>2. PICK k \in Seen(c) : k < i /\ Key(w, i) < Key(w, k)
      BY <2>3, <3>1 DEF ReaderOK, NothingMissing
    <3> QED
      BY <1>3, <1>8, <1>9, <2>3, <3>2
  <2>4. CASE i \notin 1..n
    <3>1. l < i
      BY <1>1, <1>2, <2>2, <2>4
    <3> QED
      BY <1>11, <2>2, <3>1
  <2> QED
    BY <2>3, <2>4
<1>12. NothingMissing(c)'
  BY <1>11 DEF NothingMissing
<1> QED
  BY <1>5, <1>6, <1>7, <1>12 DEF ReaderOK

-----------------------------------------------------------------------------
(* A page. *)

\* The order of the keys is the order of the ranks.
LEMMA RankOrder ==
  ASSUME TypeOK, NEW w \in Openers, NEW rows \in SUBSET (1..Len(ledger[w])),
         NEW i \in rows, NEW j \in rows
  PROVE  /\ Rank(w, rows, i) \in Nat
         /\ Key(w, i) <= Key(w, j) => Rank(w, rows, i) <= Rank(w, rows, j)
         /\ Key(w, i) < Key(w, j) => Rank(w, rows, i) < Rank(w, rows, j)
<1> DEFINE under(k) == {l \in rows : Key(w, l) < Key(w, k)}
<1>1. \A l \in rows : Key(w, l) \in Int
  BY KeysAreIntegers
<1>2. IsFiniteSet(rows)
  <2>1. Len(ledger[w]) \in Nat
    BY DEF TypeOK, OpeningTypeOK
  <2> QED
    <3>1. IsFiniteSet(1..Len(ledger[w]))
      BY <2>1, FS_Interval
    <3> QED
      BY <3>1, FS_Subset
<1>3. \A k : IsFiniteSet(under(k)) /\ Cardinality(under(k)) \in Nat /\ Rank(w, rows, k) = Cardinality(under(k))
  <2> TAKE k
  <2>1. IsFiniteSet(under(k))
    BY <1>2, FS_Subset
  <2>2. Cardinality(under(k)) \in Nat
    <3> HIDE DEF under
    <3> QED
      BY <2>1, FS_CardinalityType
  <2> QED
    BY <2>1, <2>2 DEF Rank
<1>4. Key(w, i) <= Key(w, j) => Cardinality(under(i)) <= Cardinality(under(j))
  <2> SUFFICES ASSUME Key(w, i) <= Key(w, j) PROVE Cardinality(under(i)) <= Cardinality(under(j))
    OBVIOUS
  <2>1. under(i) \subseteq under(j)
    <3>1. ASSUME NEW l \in rows, Key(w, l) < Key(w, i) PROVE Key(w, l) < Key(w, j)
      <4>1. Key(w, l) \in Int /\ Key(w, i) \in Int /\ Key(w, j) \in Int
        BY <1>1
      <4> QED
        BY <3>1, <4>1
    <3> QED
      BY <3>1
  <2> HIDE DEF under
  <2> QED
    BY <1>3, <2>1, FS_Subset
<1>5. Key(w, i) < Key(w, j) => Cardinality(under(i)) < Cardinality(under(j))
  <2> SUFFICES ASSUME Key(w, i) < Key(w, j) PROVE Cardinality(under(i)) < Cardinality(under(j))
    OBVIOUS
  <2>1. under(i) \subseteq under(j) /\ i \in under(j) /\ i \notin under(i)
    <3>1. Key(w, i) \in Int /\ Key(w, j) \in Int
      BY <1>1
    <3>2. ASSUME NEW l \in rows, Key(w, l) < Key(w, i) PROVE Key(w, l) < Key(w, j)
      <4>1. Key(w, l) \in Int
        BY <1>1
      <4> QED
        BY <3>1, <3>2, <4>1
    <3>3. ~(Key(w, i) < Key(w, i))
      BY <3>1
    <3> QED
      BY <3>2, <3>3
  <2> HIDE DEF under
  <2>2. under(i) # under(j)
    BY <2>1
  <2>3. Cardinality(under(i)) <= Cardinality(under(j)) /\ Cardinality(under(i)) # Cardinality(under(j))
    BY <1>3, <2>1, <2>2, FS_Subset
  <2> QED
    BY <1>3, <2>3
<1> HIDE DEF under
<1> QED
  BY <1>3, <1>4, <1>5

\* What one page holds: everything after the cursor up to the entry that is looked at, if
\* there is one.
LEMMA PageFacts ==
  ASSUME TypeOK, DeskAssumption, NEW w \in Openers, NEW rows \in SUBSET (1..Len(ledger[w]))
  PROVE  /\ Page(w, rows) \subseteq rows /\ LookAhead(w, rows) \subseteq rows
         /\ \A i \in rows, j \in Page(w, rows) : Key(w, i) < Key(w, j) => i \in Page(w, rows)
         /\ \A i \in rows, l \in LookAhead(w, rows) : Key(w, i) < Key(w, l) => i \in Page(w, rows)
         /\ \A k \in Page(w, rows), l \in LookAhead(w, rows) : Key(w, k) < Key(w, l)
<1>1. PageLimit \in Nat
  BY DeskAssumption
<1>2. \A i \in rows : Key(w, i) \in Int /\ Rank(w, rows, i) \in Nat
  BY RankOrder, KeysAreIntegers
<1>3. ASSUME NEW i \in rows, NEW j \in rows
      PROVE  (Key(w, i) <= Key(w, j) => Rank(w, rows, i) <= Rank(w, rows, j))
             /\ (Key(w, i) < Key(w, j) => Rank(w, rows, i) < Rank(w, rows, j))
  BY <1>3, RankOrder
<1>4. ASSUME NEW i \in rows, NEW j \in Page(w, rows), Key(w, i) < Key(w, j) PROVE i \in Page(w, rows)
  BY <1>1, <1>2, <1>3, <1>4 DEF Page
<1>5. ASSUME NEW i \in rows, NEW l \in LookAhead(w, rows), Key(w, i) < Key(w, l) PROVE i \in Page(w, rows)
  BY <1>1, <1>2, <1>3, <1>5 DEF Page, LookAhead
<1>6. ASSUME NEW k \in Page(w, rows), NEW l \in LookAhead(w, rows) PROVE Key(w, k) < Key(w, l)
  <2>1. k \in rows /\ l \in rows /\ Rank(w, rows, k) < PageLimit /\ Rank(w, rows, l) = PageLimit
    BY DEF Page, LookAhead
  <2>2. ~(Key(w, l) <= Key(w, k))
    BY <1>1, <1>2, <1>3, <2>1
  <2> QED
    BY <1>2, <2>1, <2>2
<1> QED
  BY <1>4, <1>5, <1>6 DEF Page, LookAhead

\* What a client has when it asks for the next page, or for the first.
AsksAfter(w, cursor, pages, cursors) ==
  LET given == UNION {pages[i] : i \in 1..Len(pages)}
      seen == given \cup {i \in 1..Len(ledger[w]) : \E n \in 1..Len(cursors) : cursors[n] = Key(w, i)}
  IN  /\ pages \in Seq(SUBSET (Nat \ {0})) /\ cursors \in Seq(Int)
      /\ given \subseteq 1..Len(ledger[w])
      /\ \A n \in 1..Len(cursors) : \E l \in 1..Len(ledger[w]) : Key(w, l) = cursors[n]
      /\ IF cursor = None THEN given = {}
         ELSE /\ cursor \in Int
              /\ \E n \in 1..Len(cursors) : cursors[n] = cursor
              /\ \A k \in given : Key(w, k) < cursor
      /\ \A i, j \in 1..Len(pages) : i < j =>
           \A k \in pages[i], l \in pages[j] : Key(w, k) < Key(w, l)
      /\ \A i \in 1..Len(ledger[w]), j \in seen :
           (Key(w, i) < Key(w, j) /\ i \notin seen) => \E k \in seen : k < i /\ Key(w, i) < Key(w, k)

\* One page more and everything is as it should be.
LEMMA PageIsRead ==
  ASSUME TypeOK, DeskAssumption, NEW c \in Clients, NEW w \in Openers,
         NEW cursor, NEW pages, NEW cursors,
         AsksAfter(w, cursor, pages, cursors),
         ListByWallet(c, w, cursor, pages, cursors), ledger' = ledger
  PROVE  ReaderOK(c)'
<1> DEFINE n == Len(ledger[w])
           given == UNION {pages[i] : i \in 1..Len(pages)}
           seen == given \cup {i \in 1..n : \E m \in 1..Len(cursors) : cursors[m] = Key(w, i)}
           rows == RowsAfter(w, cursor)
           page == Page(w, rows)
           ahead == LookAhead(w, rows)
           next == CHOOSE k \in NextCursor(w, rows) : TRUE
           after == IF ahead = {} THEN cursors ELSE Append(cursors, next)
<1>1. /\ pages \in Seq(SUBSET (Nat \ {0})) /\ cursors \in Seq(Int)
      /\ given \subseteq 1..n
      /\ \A m \in 1..Len(cursors) : \E l \in 1..n : Key(w, l) = cursors[m]
      /\ cursor = None => given = {}
      /\ cursor # None => /\ cursor \in Int
                          /\ \E m \in 1..Len(cursors) : cursors[m] = cursor
                          /\ \A k \in given : Key(w, k) < cursor
  BY DEF AsksAfter
<1>2. \A i, j \in 1..Len(pages) : i < j => \A k \in pages[i], l \in pages[j] : Key(w, k) < Key(w, l)
  BY DEF AsksAfter
<1>3. \A i \in 1..n, j \in seen :
        (Key(w, i) < Key(w, j) /\ i \notin seen) => \E k \in seen : k < i /\ Key(w, i) < Key(w, k)
  BY DEF AsksAfter
<1>4. \A i \in 1..n : Key(w, i) \in Int
  BY KeysAreIntegers
<1>5. rows \subseteq 1..n /\ \A i \in 1..n : i \in rows <=> (cursor = None \/ Key(w, i) > cursor)
  BY DEF RowsAfter
<1>6. \A k \in given, i \in rows : Key(w, k) < Key(w, i)
  <2> SUFFICES ASSUME NEW k \in given, NEW i \in rows PROVE Key(w, k) < Key(w, i)
    OBVIOUS
  <2> HIDE DEF given, rows
  <2>1. cursor # None /\ cursor \in Int /\ Key(w, k) < cursor
    BY <1>1
  <2>2. Key(w, i) > cursor /\ Key(w, i) \in Int /\ Key(w, k) \in Int
    BY <1>1, <1>4, <1>5, <2>1
  <2> QED
    BY <2>1, <2>2
<1>7. /\ page \subseteq rows /\ ahead \subseteq rows
      /\ \A i \in rows, j \in page : Key(w, i) < Key(w, j) => i \in page
      /\ \A i \in rows, l \in ahead : Key(w, i) < Key(w, l) => i \in page
      /\ \A k \in page, l \in ahead : Key(w, k) < Key(w, l)
  BY <1>5, PageFacts
<1>8. ahead # {} => \E l \in ahead : next = Key(w, l)
  BY DEF NextCursor
<1>9. reading'[c] = [wallet |-> w, pages |-> Append(pages, page), cursors |-> after, more |-> ahead # {}]
  BY DEF ListByWallet, TypeOK
<1>10. \A i : Key(w, i)' = Key(w, i)
  BY DEF Key
<1> HIDE DEF page, ahead, next, rows
<1>11. after \in Seq(Int) /\ (ahead # {} => Len(after) = Len(cursors) + 1 /\ after[Len(after)] = next)
       /\ \A m \in 1..Len(cursors) : after[m] = cursors[m]
       /\ Len(after) >= Len(cursors)
  <2>1. ahead # {} => next \in Int
    BY <1>4, <1>5, <1>7, <1>8
  <2> QED
    BY <1>1, <2>1
<1>12. /\ Len(Append(pages, page)) = Len(pages) + 1
       /\ \A i \in 1..Len(pages) : Append(pages, page)[i] = pages[i]
       /\ Append(pages, page)[Len(pages) + 1] = page
       /\ Len(pages) \in Nat
  BY <1>1
<1>13. Given(c)' = given \cup page
  <2>1. Given(c)' = UNION {Append(pages, page)[i] : i \in 1..Len(Append(pages, page))}
    BY <1>9 DEF Given
  <2> QED
    BY <1>12, <2>1
<1> HIDE DEF given
<1>14. \A j : j \in Seen(c)' <=>
         \/ j \in given \cup page
         \/ j \in 1..n /\ \E m \in 1..Len(after) : after[m] = Key(w, j)
  <2>1. Seen(c)' = Given(c)' \cup {i \in 1..n : \E m \in 1..Len(after) : after[m] = Key(w, i)'}
    BY <1>9 DEF Seen
  <2> QED
    BY <1>10, <1>13, <2>1
<1> HIDE DEF after
<1>15. seen \subseteq Seen(c)' /\ page \subseteq Seen(c)' /\ seen \subseteq 1..n
  <2>1. ASSUME NEW i \in seen PROVE i \in Seen(c)'
    <3>1. CASE i \in given
      BY <1>14, <3>1
    <3>2. CASE i \notin given
      <4>1. PICK m \in 1..Len(cursors) : cursors[m] = Key(w, i)
        BY <3>2
      <4>2. m \in 1..Len(after) /\ after[m] = Key(w, i) /\ i \in 1..n
        BY SMTT(30), <1>1, <1>11, <3>2, <4>1
      <4> QED
        BY <1>14, <4>2
    <3> QED
      BY <3>1, <3>2
  <2> QED
    BY <1>1, <1>14, <2>1
<1>16. \A j \in Seen(c)' : j \in seen \/ j \in page \/ (\E l \in ahead : Key(w, j) = Key(w, l) /\ j \in 1..n)
  <2> SUFFICES ASSUME NEW j \in 1..n, NEW m \in 1..Len(after), after[m] = Key(w, j)
               PROVE  j \in seen \/ \E l \in ahead : Key(w, j) = Key(w, l)
    BY <1>14
  <2>1. CASE m \in 1..Len(cursors)
    BY <1>11, <2>1
  <2>2. CASE m \notin 1..Len(cursors)
    <3>1. ahead # {}
      BY <2>2 DEF after
    <3>2. m = Len(after)
      BY <1>1, <1>11, <2>2, <3>1
    <3> QED
      BY <1>8, <1>11, <3>1, <3>2
  <2> QED
    BY <2>1, <2>2
<1>17. PagesAreEntries(c)'
  <2>1. given \cup page \subseteq 1..n
    BY <1>1, <1>5, <1>7
  <2>2. \A m \in 1..Len(after) : \E l \in 1..n : Key(w, l) = after[m]
    <3> SUFFICES ASSUME NEW m \in 1..Len(after) PROVE \E l \in 1..n : Key(w, l) = after[m]
      OBVIOUS
    <3>1. CASE m \in 1..Len(cursors)
      BY <1>1, <1>11, <3>1
    <3>2. CASE m \notin 1..Len(cursors)
      <4>1. ahead # {}
        BY <3>2 DEF after
      <4>2. m = Len(after)
        BY <1>1, <1>11, <3>2, <4>1
      <4> QED
        BY <1>5, <1>7, <1>8, <1>11, <4>1, <4>2
    <3> QED
      BY <3>1, <3>2
  <2> QED
    BY <1>9, <1>10, <1>13, <2>1, <2>2 DEF PagesAreEntries
<1>18. CursorIsAhead(c)'
  <2> SUFFICES ASSUME ahead # {}
               PROVE  Len(after) > 0 /\ \A k \in given \cup page : Key(w, k) < after[Len(after)]
    <3>1. LastCursor(c)' = after[Len(after)] /\ Len(reading[c].cursors)' = Len(after)
      BY <1>9 DEF LastCursor
    <3>2. reading[c].wallet' = w /\ (reading[c].more' => ahead # {})
      <4>1. reading'[c].wallet = w
        BY <1>9
      <4>2. reading'[c].more = (ahead # {})
        BY <1>9
      <4> QED
        BY <4>1, <4>2
    <3>3. \A k : Key(reading[c].wallet, k)' = Key(w, k)
      BY <3>2 DEF Key
    <3>4. (ahead # {} => Len(after) > 0 /\ \A k \in given \cup page : Key(w, k) < after[Len(after)])
            => CursorIsAhead(c)'
      <4> HIDE DEF given, LastCursor
      <4> QED
        BY <1>13, <3>1, <3>2, <3>3 DEF CursorIsAhead
    <3> QED
      BY <3>4
  <2>1. PICK l \in ahead : next = Key(w, l)
    BY <1>8
  <2>2. l \in rows
    BY <1>7
  <2> QED
    BY <1>1, <1>6, <1>7, <1>11, <2>1, <2>2
<1>19. InOrder(c)'
  <2>1. ASSUME NEW i \in 1..(Len(pages) + 1), NEW j \in 1..(Len(pages) + 1), i < j,
               NEW k \in Append(pages, page)[i], NEW l \in Append(pages, page)[j]
        PROVE  Key(w, k) < Key(w, l)
    <3>1. i \in 1..Len(pages) /\ k \in pages[i] /\ k \in given
      BY <1>12, <2>1 DEF given
    <3>2. CASE j \in 1..Len(pages)
      BY <1>2, <1>12, <2>1, <3>1, <3>2
    <3>3. CASE j \notin 1..Len(pages)
      <4>1. l \in rows
        BY <1>7, <1>12, <3>3
      <4> QED
        BY <1>6, <3>1, <4>1
    <3> QED
      BY <3>2, <3>3
  <2> QED
    BY <1>9, <1>10, <1>12, <2>1 DEF InOrder
<1>20. ASSUME NEW i \in 1..n, NEW j \in Seen(c)', Key(w, i) < Key(w, j), i \notin Seen(c)'
       PROVE  \E k \in Seen(c)' : k < i /\ Key(w, i) < Key(w, k)
  <2>1. i \notin seen /\ i \notin page
    BY <1>15, <1>20
  <2>2. ASSUME NEW s \in seen, Key(w, i) < Key(w, s)
        PROVE  \E k \in Seen(c)' : k < i /\ Key(w, i) < Key(w, k)
    BY <1>3, <1>15, <2>1, <2>2
  <2>3. CASE i \in rows
    <3>1. ~(j \in page) /\ ~(\E l \in ahead : Key(w, j) = Key(w, l))
      BY <1>7, <1>20, <2>1, <2>3
    <3> QED
      BY <1>16, <1>20, <2>2, <3>1
  <2>4. CASE i \notin rows
    <3>1. cursor # None /\ ~(Key(w, i) > cursor)
      BY <1>5, <2>4
    <3>2. PICK m \in 1..Len(cursors) : cursors[m] = cursor
      BY <1>1, <3>1
    <3>3. PICK s \in 1..n : Key(w, s) = cursor
      BY <1>1, <3>2
    <3>4. s \in seen
      BY <3>2, <3>3
    <3>5. Key(w, i) # cursor
      BY <2>1, <3>2
    <3>6. Key(w, i) < Key(w, s)
      BY <1>1, <1>4, <3>1, <3>3, <3>5
    <3> QED
      BY <2>2, <3>4, <3>6
  <2> QED
    BY <2>3, <2>4
<1>21. NothingMissing(c)'
  BY <1>9, <1>10, <1>20 DEF NothingMissing
<1> QED
  BY <1>17, <1>18, <1>19, <1>21 DEF ReaderOK

\* Before the first page there is nothing.
LEMMA FirstAsks ==
  ASSUME NEW w
  PROVE  AsksAfter(w, None, <<>>, <<>>)
<1>1. UNION {<<>>[i] : i \in 1..Len(<<>>)} = {} /\ 1..Len(<<>>) = {}
  OBVIOUS
<1> QED
  BY <1>1 DEF AsksAfter

\* Afterwards there is what earlier pages left.
LEMMA NextAsks ==
  ASSUME TypeOK, NEW c \in Clients, reading[c] # None, reading[c].more, ReaderOK(c)
  PROVE  AsksAfter(reading[c].wallet, LastCursor(c), reading[c].pages, reading[c].cursors)
<1>1. reading[c].pages \in Seq(SUBSET (Nat \ {0})) /\ reading[c].cursors \in Seq(Int)
  BY ReaderTypes
<1>2. /\ Len(reading[c].cursors) \in 1..Len(reading[c].cursors)
      /\ LastCursor(c) \in Int
      /\ \A k \in Given(c) : Key(reading[c].wallet, k) < LastCursor(c)
  BY <1>1 DEF ReaderOK, CursorIsAhead, LastCursor
<1>3. LastCursor(c) # None
  BY <1>2, RowAssumption
<1> QED
  BY <1>1, <1>2, <1>3
     DEF AsksAfter, ReaderOK, PagesAreEntries, InOrder, NothingMissing, Given, Seen, LastCursor

-----------------------------------------------------------------------------
(* The theorems. *)

LEMMA ReadersStep ==
  ASSUME TypeOK, TypeOK', [Next]_vars, ReadersOK
  PROVE  ReadersOK'
<1> SUFFICES ASSUME NEW c \in Clients, reading'[c] # None PROVE ReaderOK(c)'
  BY DEF ReadersOK
<1>1. CASE reading'[c] = reading[c]
  <2>1. reading[c].wallet \in Openers
    BY <1>1, ReaderTypes
  <2> QED
    BY <1>1, <2>1, LedgerGrows, ReaderStays DEF ReadersOK
<1>2. CASE reading'[c] # reading[c]
  <2>1. \E d \in Clients : NextPage(d) \/ \E w \in Openers : FirstPage(d, w)
    BY <1>2 DEF Next, OpenerStep, Move, Reject, SumLedger, ReadWallet, vars, deskVars
  <2>2. ASSUME NEW d \in Clients, NextPage(d) PROVE ReaderOK(c)'
    <3>1. d = c
      BY <1>2, <2>2 DEF NextPage, ListByWallet, TypeOK
    <3>2. reading[c].wallet \in Openers /\ ReaderOK(c)
      BY <2>2, <3>1, ReaderTypes DEF ReadersOK, NextPage
    <3>3. AsksAfter(reading[c].wallet, LastCursor(c), reading[c].pages, reading[c].cursors)
      BY <2>2, <3>1, <3>2, NextAsks DEF NextPage
    <3>4. ListByWallet(c, reading[c].wallet, LastCursor(c), reading[c].pages, reading[c].cursors)
          /\ ledger' = ledger
      BY <2>2, <3>1 DEF NextPage, LastCursor, bookVars
    <3> QED
      BY <3>2, <3>3, <3>4, PageIsRead, DeskAssumption
  <2>3. ASSUME NEW d \in Clients, NEW w \in Openers, FirstPage(d, w) PROVE ReaderOK(c)'
    <3>1. d = c
      BY <1>2, <2>3 DEF FirstPage, ListByWallet, TypeOK
    <3>2. ListByWallet(c, w, None, <<>>, <<>>) /\ ledger' = ledger
      BY <2>3, <3>1 DEF FirstPage, bookVars
    <3> QED
      BY <3>2, FirstAsks, PageIsRead, DeskAssumption
  <2> QED
    BY <2>1, <2>2, <2>3
<1> QED
  BY <1>1, <1>2

LEMMA AlwaysReadersOK == Spec => []ReadersOK
<1>1. Init => ReadersOK
  BY DEF Init, ReadersOK
<1>2. TypeOK /\ TypeOK' /\ ReadersOK /\ [Next]_vars => ReadersOK'
  BY ReadersStep
<1> QED
  BY <1>1, <1>2, TypeCorrect, PTL DEF Spec

\* The pages a client is given follow one another in the order of the ledger, whatever is
\* committed while it reads and whichever clocks stamp it.
THEOREM PagesCorrect == Spec => []PagesInOrder
<1>1. ReadersOK => PagesInOrder
  BY DEF ReadersOK, ReaderOK, InOrder, PagesInOrder
<1> QED
  BY <1>1, AlwaysReadersOK, PTL

\* An entry left out before one that was given is named by a cursor or came late.
THEOREM MissedCorrect == Spec => []MissedIsExplained
<1>1. \A c : Given(c) \subseteq Seen(c)
  BY DEF Seen
<1>2. ReadersOK => MissedIsExplained
  BY <1>1 DEF ReadersOK, ReaderOK, NothingMissing, MissedIsExplained
<1> QED
  BY <1>2, AlwaysReadersOK, PTL
=============================================================================
