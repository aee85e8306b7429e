-------------------------- MODULE WalletInvariants --------------------------
(***************************************************************************)
(* What opening, moving and reading wallets promise, over the state of     *)
(* WalletDesk.                                                             *)
(***************************************************************************)
EXTENDS WalletDesk

Holder(o) == <<OpeningOf[o].player, CodeOf[OpeningOf[o].balance.currency]>>

\* A player has one wallet in a currency at the most, however many calls open it at once,
\* fail or are retried, and however they spell the currency (wallets.go, migration 000001).
OneWalletPerHolder == \A o, p \in Openers : Open(o) /\ Open(p) /\ Holder(o) = Holder(p) => o = p

\* What a call is told is so: a wallet it created is there, there is none after a refusal,
\* and one it conflicts with is there too, also when the rival it waited for was rolled back
\* in the end.  After a 503 the wallet may be there (errors.go:91-97 says nothing was kept).
RepliesAreTrue ==
  \A o \in Openers :
    /\ mapError(reply[o]) = 201 => Open(o)
    /\ mapError(reply[o]) = 400 => ~Open(o)
    /\ mapError(reply[o]) = 409 =>
         ~Open(o) /\ \E p \in Openers : Open(p) /\ Holder(p) = Holder(o)

TextOf(source) == IF source \in Openers THEN OpeningOf[source].balance ELSE MovementOf[source].amount

\* The exact amounts a sequence of entries stands for, by what their callers wrote.
Written(entry) ==
  IF entry.direction = "CREDIT" THEN Exact(TextOf(entry.source)) ELSE -Exact(TextOf(entry.source))
ExactNet(entries) == Total([i \in 1..Len(entries) |-> Written(entries[i])])

\* The balance is, to the cent, what the callers' texts add up to, within the range of the
\* integer: no text that wraps around, sum or difference at the limit makes or loses money.
BalanceIsExact ==
  \A w \in Openers : Open(w) =>
    /\ wallet[w].balance.cents = ExactNet(ledger[w])
    /\ wallet[w].balance.cents \in 0..MaxInt

\* Every entry starts where the one committed before it ended, the first at zero, and its
\* event announces the next version; the last ones are the wallet's own.  A wallet opened
\* with nothing is at version 1 although nothing announced it (open_wallet.go:49-51).
BookIsChained ==
  \A w \in Openers :
    LET entries == ledger[w]
        ended(i) == IF i = 0 THEN 0 ELSE entries[i].after.cents
        first == IF entries # <<>> /\ entries[1].source = w THEN 1 ELSE 2
    IN  /\ \A i \in 1..Len(entries) :
             /\ entries[i].before.cents = ended(i - 1)
             /\ entries[i].after.cents = entries[i].before.cents + Signed(entries[i])
        /\ announced[w] = [i \in 1..Len(entries) |-> first + i - 1]
        /\ Open(w) => /\ wallet[w].balance.cents = ended(Len(entries))
                      /\ wallet[w].version = first + Len(entries) - 1
        /\ ~Open(w) => entries = <<>>

\* How many entries a wallet had at a version.
EntriesAt(w, version) ==
  IF ledger[w] # <<>> /\ ledger[w][1].source = w THEN version ELSE version - 1

\* The difference a reconciliation reports is what movements committed between its two
\* reads have moved, and nothing else: it is never in error, and it tells of a divergence
\* only if money moved meanwhile.
DifferenceIsExplained ==
  \A a \in Auditors : (audit[a] # None /\ audit[a].step # "sum") =>
    LET w == audit[a].wallet
        read == EntriesAt(w, audit[a].version)
    IN  /\ audit[a].step = "done"
        /\ read <= audit[a].checked
        /\ audit[a].difference = -Net(SubSeq(ledger[w], read + 1, audit[a].checked))

\* reconciliation.go:13-17, "leitura da carteira e a soma do ledger acontecam na MESMA
\* transacao (mesma foto do banco)": a reconciliation never sees a difference.
ReconciliationSeesOneMoment ==
  \A a \in Auditors : (audit[a] # None /\ audit[a].step = "done") => audit[a].difference = 0

\* The entries a client was given so far.
Given(c) == UNION {reading[c].pages[i] : i \in 1..Len(reading[c].pages)}

\* Pages follow one another in the order of the ledger, so that no entry is given twice,
\* although entries are added, some with an older stamp, while they are read.
PagesInOrder ==
  \A c \in Clients : reading[c] # None =>
    \A i, j \in 1..Len(reading[c].pages) : i < j =>
      \A k \in reading[c].pages[i], l \in reading[c].pages[j] :
        Key(reading[c].wallet, k) < Key(reading[c].wallet, l)

\* The entries whose keys a client has seen: those it was given and those a cursor names.
Seen(c) ==
  LET w == reading[c].wallet
      cursors == reading[c].cursors
  IN  Given(c) \cup {i \in 1..Len(ledger[w]) : \E n \in 1..Len(cursors) : cursors[n] = Key(w, i)}

\* An entry that was left out although a later one was given is the one a cursor names, or
\* it was committed by a process whose clock is late, after one that follows it was seen.
MissedIsExplained ==
  \A c \in Clients : reading[c] # None =>
    LET w == reading[c].wallet
    IN  \A i \in 1..Len(ledger[w]), j \in Given(c) :
          (Key(w, i) < Key(w, j) /\ i \notin Seen(c)) =>
            \E k \in Seen(c) : k < i /\ Key(w, i) < Key(w, k)

\* "ListByWallet pagina o ledger em ordem estavel" (wallet_ledger_entry_repository_postgres.go:
\* 72-75): a client that follows the cursors is given every entry on its way.
PagesMissNothing ==
  \A c \in Clients : reading[c] # None =>
    LET w == reading[c].wallet
    IN  \A i \in 1..Len(ledger[w]), j \in Given(c) : Key(w, i) < Key(w, j) => i \in Given(c)

\* A call that opens a wallet is answered, whichever rivals it has to wait for.
EveryOpeningEnds == <>(\A o \in Openers : opening[o] = "done")

\* The wallets are the accounts of AccountBook: races, failed and lost commits, the width
\* of the integers and the rows themselves are not to be seen.
Holders == {Holder(o) : o \in Openers}
OpenedBy(h) == CHOOSE o \in Openers : Open(o) /\ Holder(o) = h
HolderOpen(h) == \E o \in Openers : Open(o) /\ Holder(o) = h
Accounts == INSTANCE AccountBook WITH
  Limit <- MaxInt,
  Closed <- None,
  OpeningsFor <- [h \in Holders |-> {Exact(OpeningOf[o].balance) : o \in {o \in Openers : Holder(o) = h}}],
  Operations <- Movements,
  IsDebit <- [m \in Movements |-> Direction(m) = "DEBIT"],
  AmountOf <- [m \in Movements |-> Exact(MovementOf[m].amount)],
  MayMove <- [m \in Movements |-> {h \in Holders : h[2] = CodeOf[MovementOf[m].amount.currency]}],
  account <- [h \in Holders |-> IF HolderOpen(h) THEN wallet[OpenedBy(h)].balance.cents ELSE None]
ImplementsAccounts == Accounts!Spec
=============================================================================
