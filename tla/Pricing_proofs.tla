---------------------------- MODULE Pricing_proofs ----------------------------
(***************************************************************************)
(* Proofs about Pricing for any sizes of the two tables, any horizon and any *)
(* number of transactions: which card may price, that quoting never lacks    *)
(* parameters, and that their closed windows are final.                      *)
(***************************************************************************)
EXTENDS Pricing, Integers, SequenceTheorems, WellFoundedInduction, TLAPS

-----------------------------------------------------------------------------
(* Types.                                                                    *)

End == Time \cup {Never}
Window == [from : Time, to : End]
Transaction == [op : {"none", "create", "set", "closed"}, from : Time,
                to : End, seen : SUBSET Nat, waits : SUBSET Tx]

PricingTypes ==
  /\ room \in Room /\ now \in Time
  /\ cards \in Seq(Window) /\ params \in Seq(Window)
  /\ tx \in [Tx -> Transaction]
  /\ ended \in Seq(End) /\ Len(ended) = Len(cards)
  /\ loose \subseteq rows(cards) /\ reopened \subseteq rows(cards)
  /\ overlapped \in BOOLEAN

\* Instants are naturals, and an open end lies after every one of them.
LEMMA TimeFacts ==
  /\ Horizon \in Nat /\ Never = Horizon + 1 /\ Never \in Nat
  /\ \A x : x \in Time <=> x \in Nat /\ x <= Horizon
  /\ \A x : x \in End <=> x \in Nat /\ x <= Horizon + 1
  /\ Time \subseteq End /\ Never \in End
BY PricingAssumption DEF Time, Never, End

\* The rows of a table are numbered from one.
LEMMA RowsOf ==
  ASSUME NEW S, NEW s \in Seq(S)
  PROVE  /\ Len(s) \in Nat /\ rows(s) = 1..Len(s)
         /\ \A c \in rows(s) : s[c] \in S
BY LenProperties, ElementOfSeq DEF rows

\* What a table, and the list of ends, holds once a row has been appended to it.
LEMMA AppendingWindow ==
  \A s \in Seq(Window), e \in Window :
    /\ Append(s, e) \in Seq(Window) /\ Len(Append(s, e)) = Len(s) + 1
    /\ rows(Append(s, e)) = rows(s) \cup {Len(s) + 1} /\ Len(s) + 1 \notin rows(s)
    /\ \A c \in rows(s) : Append(s, e)[c] = s[c]
    /\ Append(s, e)[Len(s) + 1] = e
<1> SUFFICES ASSUME NEW s \in Seq(Window), NEW e \in Window
             PROVE  /\ Append(s, e) \in Seq(Window) /\ Len(Append(s, e)) = Len(s) + 1
                    /\ rows(Append(s, e)) = rows(s) \cup {Len(s) + 1} /\ Len(s) + 1 \notin rows(s)
                    /\ \A c \in rows(s) : Append(s, e)[c] = s[c]
                    /\ Append(s, e)[Len(s) + 1] = e
  OBVIOUS
<1>1. Len(s) \in Nat /\ rows(s) = 1..Len(s)
  BY RowsOf
<1>2. /\ Append(s, e) \in Seq(Window) /\ Len(Append(s, e)) = Len(s) + 1
      /\ \A c \in 1..Len(s) : Append(s, e)[c] = s[c]
      /\ Append(s, e)[Len(s) + 1] = e
  BY AppendProperties
<1>3. rows(Append(s, e)) = 1..(Len(s) + 1)
  BY <1>2, RowsOf
<1> QED BY <1>1, <1>2, <1>3

LEMMA AppendingEnd ==
  \A s \in Seq(End), e \in End :
    /\ Append(s, e) \in Seq(End) /\ Len(Append(s, e)) = Len(s) + 1
    /\ rows(Append(s, e)) = rows(s) \cup {Len(s) + 1} /\ Len(s) + 1 \notin rows(s)
    /\ \A c \in rows(s) : Append(s, e)[c] = s[c]
    /\ Append(s, e)[Len(s) + 1] = e
<1> SUFFICES ASSUME NEW s \in Seq(End), NEW e \in End
             PROVE  /\ Append(s, e) \in Seq(End) /\ Len(Append(s, e)) = Len(s) + 1
                    /\ rows(Append(s, e)) = rows(s) \cup {Len(s) + 1} /\ Len(s) + 1 \notin rows(s)
                    /\ \A c \in rows(s) : Append(s, e)[c] = s[c]
                    /\ Append(s, e)[Len(s) + 1] = e
  OBVIOUS
<1>1. Len(s) \in Nat /\ rows(s) = 1..Len(s)
  BY RowsOf
<1>2. /\ Append(s, e) \in Seq(End) /\ Len(Append(s, e)) = Len(s) + 1
      /\ \A c \in 1..Len(s) : Append(s, e)[c] = s[c]
      /\ Append(s, e)[Len(s) + 1] = e
  BY AppendProperties
<1>3. rows(Append(s, e)) = 1..(Len(s) + 1)
  BY <1>2, RowsOf
<1> QED BY <1>1, <1>2, <1>3

\* What a table holds once a row of it has been written.
LEMMA Writing ==
  ASSUME NEW S, NEW s \in Seq(S), NEW c \in rows(s), NEW e \in S
  PROVE  /\ [s EXCEPT ![c] = e] \in Seq(S)
         /\ Len([s EXCEPT ![c] = e]) = Len(s)
         /\ rows([s EXCEPT ![c] = e]) = rows(s)
         /\ \A d \in rows(s) : [s EXCEPT ![c] = e][d] = IF d = c THEN e ELSE s[d]
<1>1. rows(s) = 1..Len(s)
  BY RowsOf
<1>2. /\ [s EXCEPT ![c] = e] \in Seq(S) /\ Len([s EXCEPT ![c] = e]) = Len(s)
      /\ \A d \in 1..Len(s) : [s EXCEPT ![c] = e][d] = IF d = c THEN e ELSE s[d]
  BY <1>1, ExceptSeq
<1> QED BY <1>1, <1>2, RowsOf

\* Closing a card at an instant changes its end and nothing else.
LEMMA Closing ==
  ASSUME PricingTypes, NEW c \in rows(cards), NEW x \in Time
  PROVE  /\ closedAt(c, x) \in Seq(Window)
         /\ Len(closedAt(c, x)) = Len(cards)
         /\ rows(closedAt(c, x)) = rows(cards)
         /\ \A d \in rows(cards) \ {c} : closedAt(c, x)[d] = cards[d]
         /\ closedAt(c, x)[c] = [from |-> cards[c].from, to |-> x]
<1> DEFINE e == [from |-> cards[c].from, to |-> x]
<1>1. cards \in Seq(Window) /\ cards[c] \in Window
  BY RowsOf DEF PricingTypes
<1>2. e \in Window
  BY <1>1, TimeFacts DEF Window
<1>3. closedAt(c, x) = [cards EXCEPT ![c] = e]
  <2>1. [cards[c] EXCEPT !.to = x] = e
    BY <1>1 DEF Window
  <2> QED BY <2>1 DEF closedAt
<1> HIDE DEF e
<1>4. closedAt(c, x)[c] = e
  BY <1>1, <1>2, <1>3, Writing
<1> DEFINE s == [cards EXCEPT ![c] = e]
<1>5. /\ s \in Seq(Window) /\ Len(s) = Len(cards) /\ rows(s) = rows(cards)
      /\ \A d \in rows(cards) : s[d] = IF d = c THEN e ELSE cards[d]
  BY <1>1, <1>2, Writing
<1> HIDE DEF s
<1>6. closedAt(c, x) = s
  BY <1>3 DEF s
<1> QED BY <1>4, <1>5, <1>6 DEF e

\* Opening and closing a transaction leave the others as they are.
LEMMA Opening ==
  ASSUME PricingTypes, NEW t \in Tx, NEW op \in {"create", "set"},
         NEW from \in Time, NEW to \in End, opens(t, op, from, to)
  PROVE  /\ tx' \in [Tx -> Transaction]
         /\ tx'[t] = [op |-> op, from |-> from, to |-> to, seen |-> {}, waits |-> {}]
         /\ \A u \in Tx \ {t} : tx'[u] = tx[u]
<1> DEFINE q == [op |-> op, from |-> from, to |-> to, seen |-> {}, waits |-> {}]
<1>1. q \in Transaction
  BY DEF Transaction
<1>2. tx' = [tx EXCEPT ![t] = q]
  <2>1. [Idle EXCEPT !.op = op, !.from = from, !.to = to] = q
    <3> DEFINE i1 == [op |-> op, from |-> 0, to |-> 0, seen |-> {}, waits |-> {}]
               i2 == [op |-> op, from |-> from, to |-> 0, seen |-> {}, waits |-> {}]
    <3>1. [Idle EXCEPT !.op = op] = i1
      BY DEF Idle
    <3>2. [i1 EXCEPT !.from = from] = i2
      OBVIOUS
    <3>3. [i2 EXCEPT !.to = to] = q
      OBVIOUS
    <3> HIDE DEF i1, i2
    <3> QED BY <3>1, <3>2, <3>3
  <2> QED BY <2>1 DEF opens
<1> HIDE DEF q
<1>3. tx' \in [Tx -> Transaction] /\ tx'[t] = q /\ \A u \in Tx \ {t} : tx'[u] = tx[u]
  BY <1>1, <1>2 DEF PricingTypes
<1> QED BY <1>3 DEF q

LEMMA ClosingTx ==
  ASSUME PricingTypes, NEW t \in Tx, closes(t)
  PROVE  /\ tx' \in [Tx -> Transaction]
         /\ tx'[t].op = "none"
         /\ \A u \in Tx \ {t} :
              /\ tx'[u].op = tx[u].op /\ tx'[u].from = tx[u].from
              /\ tx'[u].to = tx[u].to /\ tx'[u].seen = tx[u].seen
<1>1. tx' = [x \in Tx |-> IF x = t THEN Idle ELSE [tx[x] EXCEPT !.waits = @ \ {t}]]
  BY DEF closes
<1>2. Idle \in Transaction /\ Idle.op = "none"
  BY TimeFacts DEF Idle, Transaction
<1>3. \A x \in Tx : tx[x] \in Transaction
  BY DEF PricingTypes
<1>4. ASSUME NEW x \in Tx
      PROVE  /\ [tx[x] EXCEPT !.waits = @ \ {t}] \in Transaction
             /\ [tx[x] EXCEPT !.waits = @ \ {t}].op = tx[x].op
             /\ [tx[x] EXCEPT !.waits = @ \ {t}].from = tx[x].from
             /\ [tx[x] EXCEPT !.waits = @ \ {t}].to = tx[x].to
             /\ [tx[x] EXCEPT !.waits = @ \ {t}].seen = tx[x].seen
  BY <1>3 DEF Transaction
<1>5. tx'[t] = Idle
  BY <1>1
<1>6. \A u \in Tx \ {t} : tx'[u] = [tx[u] EXCEPT !.waits = @ \ {t}]
  BY <1>1
<1>7. tx' \in [Tx -> Transaction]
  BY <1>1, <1>2, <1>4
<1> QED BY <1>2, <1>4, <1>5, <1>6, <1>7

-----------------------------------------------------------------------------
(* Which card may price.                                                     *)

hold(w, x) == w.from <= x /\ x < w.to

\* From now on, no instant lies in both windows.
apart(v, w) == \A x \in Nat : x >= now => ~(hold(v, x) /\ hold(w, x))

\* Two cards, or a card and one about to be inserted, stay apart unless one of
\* them is on record as inserted beside another or superseded out of order.
ApartInv ==
  /\ \A a, b \in rows(cards) \ loose : a # b => apart(cards[a], cards[b])
  /\ \A t \in Tx : tx[t].op = "create" =>
       \A c \in rows(cards) \ loose : apart(cards[c], tx[t])

\* A card ends no later than it was told to, or is over by now; only a card that
\* was reopened is left out.
StopInv ==
  \A c \in rows(cards) \ reopened : cards[c].to <= ended[c] \/ cards[c].to <= now

CardInv == PricingTypes /\ ApartInv /\ StopInv

\* A step that inserts and closes nothing, and opens no card's transaction.
LEMMA CardsUntouched ==
  ASSUME CardInv, PricingTypes',
         UNCHANGED <<cards, ended, loose, reopened>>,
         now' \in {now, now + 1},
         \A t \in Tx : tx'[t].op = "create" =>
           tx[t].op = "create" /\ tx'[t].from = tx[t].from /\ tx'[t].to = tx[t].to
  PROVE  CardInv'
<1>1. now \in Nat /\ now' >= now
  BY TimeFacts DEF CardInv, PricingTypes
<1>2. ApartInv'
  <2>1. ASSUME NEW a \in rows(cards) \ loose, NEW b \in rows(cards) \ loose, a # b
        PROVE  apart(cards[a], cards[b])'
    BY <1>1, <2>1 DEF CardInv, ApartInv, apart, hold
  <2>2. ASSUME NEW t \in Tx, tx'[t].op = "create", NEW c \in rows(cards) \ loose
        PROVE  apart(cards[c], tx[t])'
    BY <1>1, <2>2 DEF CardInv, ApartInv, apart, hold
  <2> QED BY <2>1, <2>2 DEF ApartInv
<1>3. StopInv'
  <2> SUFFICES ASSUME NEW c \in rows(cards) \ reopened
               PROVE  cards[c].to <= ended[c] \/ cards[c].to <= now'
    BY DEF StopInv
  <2>1. cards[c].to \in Nat
    <3>1. cards[c] \in Window
      BY RowsOf DEF CardInv, PricingTypes
    <3> QED BY <3>1, TimeFacts DEF Window
  <2> QED BY <1>1, <2>1 DEF CardInv, StopInv
<1> QED BY <1>2, <1>3 DEF CardInv

\* Inserting a card that is apart from the others, or on record.
LEMMA CardInserted ==
  ASSUME CardInv, NEW s \in Seq(Window), NEW e \in Window, NEW wasEnded \in Seq(End),
         NEW n, n = Len(cards) + 1,
         Len(s) = Len(cards), Len(wasEnded) = Len(cards),
         cards' = Append(s, e), ended' = Append(wasEnded, Never),
         now' = now,
         loose \subseteq loose', loose' \subseteq rows(cards) \cup {n},
         reopened \subseteq reopened', reopened' \subseteq rows(cards),
         \A a, b \in rows(cards) \ loose' : a # b => apart(s[a], s[b]),
         n \notin loose' => \A a \in rows(cards) \ loose' : apart(s[a], e),
         \A c \in rows(cards) \ reopened' : s[c].to <= wasEnded[c] \/ s[c].to <= now,
         \A t \in Tx : tx'[t].op = "create" =>
           \A a \in rows(cards) \ loose' : apart(s[a], tx'[t]),
         \A t \in Tx : tx'[t].op = "create" /\ n \notin loose' => apart(e, tx'[t])
  PROVE  /\ cards' \in Seq(Window) /\ ended' \in Seq(End)
         /\ Len(ended') = Len(cards')
         /\ loose' \subseteq rows(cards') /\ reopened' \subseteq rows(cards')
         /\ ApartInv' /\ StopInv'
<1>1. /\ cards' \in Seq(Window) /\ Len(cards') = Len(cards) + 1
      /\ rows(cards') = rows(s) \cup {n} /\ n \notin rows(s)
      /\ \A c \in rows(s) : cards'[c] = s[c]
      /\ cards'[n] = e
  <2> DEFINE k == Append(s, e)
  <2>1. /\ k \in Seq(Window) /\ Len(k) = Len(s) + 1
        /\ rows(k) = rows(s) \cup {Len(s) + 1} /\ Len(s) + 1 \notin rows(s)
        /\ \A c \in rows(s) : k[c] = s[c]
        /\ k[Len(s) + 1] = e
    BY AppendingWindow
  <2>2. cards' = k /\ n = Len(s) + 1
    OBVIOUS
  <2> HIDE DEF k
  <2> QED BY <2>1, <2>2
<1>2. rows(s) = rows(cards) /\ rows(wasEnded) = rows(cards)
  <2>1. rows(s) = 1..Len(s) /\ rows(wasEnded) = 1..Len(wasEnded)
    BY RowsOf
  <2>2. rows(cards) = 1..Len(cards)
    BY RowsOf DEF CardInv, PricingTypes
  <2> QED BY <2>1, <2>2
<1>3. /\ ended' \in Seq(End) /\ Len(ended') = Len(cards) + 1
      /\ \A c \in rows(cards) : ended'[c] = wasEnded[c]
      /\ ended'[n] = Never
  <2>1. Never \in End
    BY DEF End
  <2> DEFINE k == Append(wasEnded, Never)
             m == Len(wasEnded) + 1
  <2>2. /\ k \in Seq(End) /\ Len(k) = Len(wasEnded) + 1
        /\ \A c \in rows(wasEnded) : k[c] = wasEnded[c]
        /\ k[m] = Never
    BY <2>1, AppendingEnd
  <2>3. ended' = k /\ n = m
    OBVIOUS
  <2> HIDE DEF k, m
  <2> QED BY <1>2, <2>2, <2>3
<1>5. ApartInv'
  <2>1. ASSUME NEW a \in rows(cards') \ loose', NEW b \in rows(cards') \ loose', a # b
        PROVE  apart(cards[a], cards[b])'
    <3>1. CASE a # n /\ b # n
      <4>1. apart(s[a], s[b])
        BY <1>1, <1>2, <2>1, <3>1
      <4>2. cards'[a] = s[a] /\ cards'[b] = s[b]
        BY <1>1, <1>2, <3>1
      <4> QED BY <4>1, <4>2 DEF apart, hold
    <3>2. CASE a # n /\ b = n
      <4>1. apart(s[a], e)
        BY <1>1, <1>2, <3>2
      <4>2. cards'[a] = s[a] /\ cards'[b] = e
        BY <1>1, <1>2, <3>2
      <4> QED BY <4>1, <4>2 DEF apart, hold
    <3>3. CASE a = n /\ b # n
      <4>1. apart(s[b], e)
        BY <1>1, <1>2, <3>3
      <4>2. cards'[b] = s[b] /\ cards'[a] = e
        BY <1>1, <1>2, <3>3
      <4> QED BY <4>1, <4>2 DEF apart, hold
    <3> QED BY <2>1, <3>1, <3>2, <3>3
  <2>2. ASSUME NEW t \in Tx, tx'[t].op = "create", NEW c \in rows(cards') \ loose'
        PROVE  apart(cards[c], tx[t])'
    <3>1. CASE c # n
      <4>1. apart(s[c], tx'[t]) /\ cards'[c] = s[c]
        BY <1>1, <1>2, <2>2, <3>1
      <4> QED BY <4>1 DEF apart, hold
    <3>2. CASE c = n
      <4>1. apart(e, tx'[t]) /\ cards'[c] = e
        BY <1>1, <2>2, <3>2
      <4> QED BY <4>1 DEF apart, hold
    <3> QED BY <3>1, <3>2
  <2> QED BY <2>1, <2>2 DEF ApartInv
<1>6. StopInv'
  <2> SUFFICES ASSUME NEW c \in rows(cards') \ reopened'
               PROVE  cards'[c].to <= ended'[c] \/ cards'[c].to <= now
    BY DEF StopInv
  <2>1. CASE c # n
    BY <1>1, <1>2, <1>3, <2>1
  <2>2. CASE c = n
    BY <1>1, <1>3, <2>2, TimeFacts DEF Window
  <2> QED BY <2>1, <2>2
<1> QED BY <1>1, <1>2, <1>3, <1>5, <1>6

\* createRateCard's check holds the new window apart from every card there is.
LEMMA CheckStep ==
  ASSUME CardInv, NEW t \in Tx, NEW from \in Time, NEW to \in End,
         checkOverlap(t, from, to)
  PROVE  CardInv'
<1>1. UNCHANGED <<room, now, cards, params, ended, loose, reopened, overlapped>>
  BY DEF checkOverlap
<1>2. /\ tx' \in [Tx -> Transaction]
      /\ tx'[t] = [op |-> "create", from |-> from, to |-> to, seen |-> {}, waits |-> {}]
      /\ \A u \in Tx \ {t} : tx'[u] = tx[u]
  BY Opening DEF checkOverlap, CardInv
<1>3. PricingTypes'
  BY <1>1, <1>2 DEF CardInv, PricingTypes
<1>4. ASSUME NEW c \in rows(cards)
      PROVE  apart(cards[c], tx'[t])
  <2>1. ~overlaps(cards[c], from, to)
    BY DEF checkOverlap
  <2>2. cards[c].from \in Nat /\ cards[c].to \in Nat /\ from \in Nat /\ to \in Nat
    <3>1. cards[c] \in Window
      BY RowsOf DEF CardInv, PricingTypes
    <3> QED BY <3>1, TimeFacts DEF Window
  <2>3. tx'[t].from = from /\ tx'[t].to = to
    BY <1>2
  <2> QED BY <2>1, <2>2, <2>3 DEF overlaps, apart, hold
<1>5. ApartInv'
  <2>1. ASSUME NEW a \in rows(cards) \ loose, NEW b \in rows(cards) \ loose, a # b
        PROVE  apart(cards[a], cards[b])'
    BY <1>1, <2>1 DEF CardInv, ApartInv, apart, hold
  <2>2. ASSUME NEW u \in Tx, tx'[u].op = "create", NEW c \in rows(cards) \ loose
        PROVE  apart(cards[c], tx[u])'
    <3>1. CASE u = t
      BY <1>1, <1>4, <3>1 DEF apart, hold
    <3>2. CASE u # t
      BY <1>1, <1>2, <2>2, <3>2 DEF CardInv, ApartInv, apart, hold
    <3> QED BY <3>1, <3>2
  <2> QED BY <1>1, <2>1, <2>2 DEF ApartInv
<1>6. StopInv'
  BY <1>1 DEF CardInv, StopInv
<1> QED BY <1>3, <1>5, <1>6 DEF CardInv

\* The card is inserted as it was checked; if another create is open it goes on record.
LEMMA InsertStep ==
  ASSUME CardInv, NEW t \in Tx, insertCard(t)
  PROVE  CardInv'
<1> DEFINE e == [from |-> tx[t].from, to |-> tx[t].to]
           n == Len(cards) + 1
<1>1. /\ UNCHANGED <<room, now, params, reopened, overlapped>> /\ tx[t].op = "create"
      /\ cards' = Append(cards, e) /\ ended' = Append(ended, Never)
      /\ loose' = IF others(t, {"create"}) = {} THEN loose ELSE loose \cup {n}
  BY DEF insertCard
<1>2. /\ tx' \in [Tx -> Transaction] /\ tx'[t].op = "none"
      /\ \A u \in Tx \ {t} :
           /\ tx'[u].op = tx[u].op /\ tx'[u].from = tx[u].from /\ tx'[u].to = tx[u].to
  BY ClosingTx DEF insertCard, CardInv
<1>3. e \in Window /\ e.from = tx[t].from /\ e.to = tx[t].to
  BY DEF CardInv, PricingTypes, Transaction, Window
<1>4. \A a \in rows(cards) \ loose : apart(cards[a], e)
  BY <1>1, <1>3 DEF CardInv, ApartInv, apart, hold
<1>5. n \notin loose' => \A u \in Tx : tx'[u].op # "create"
  BY <1>1, <1>2 DEF others
<1>6. \A u \in Tx : tx'[u].op = "create" => \A a \in rows(cards) \ loose : apart(cards[a], tx'[u])
  BY <1>2 DEF CardInv, ApartInv, apart, hold
<1> HIDE DEF e
<1>7. /\ cards \in Seq(Window) /\ ended \in Seq(End) /\ Len(ended) = Len(cards)
      /\ loose \subseteq rows(cards) /\ reopened \subseteq rows(cards)
      /\ \A a, b \in rows(cards) \ loose : a # b => apart(cards[a], cards[b])
      /\ \A c \in rows(cards) \ reopened : cards[c].to <= ended[c] \/ cards[c].to <= now
  BY DEF CardInv, PricingTypes, ApartInv, StopInv
<1>8. loose \subseteq loose' /\ loose' \subseteq rows(cards) \cup {n}
  BY <1>1, <1>7
<1> HIDE DEF n
<1>9. /\ cards' \in Seq(Window) /\ ended' \in Seq(End)
      /\ Len(ended') = Len(cards')
      /\ loose' \subseteq rows(cards') /\ reopened' \subseteq rows(cards')
      /\ ApartInv' /\ StopInv'
  BY <1>1, <1>3, <1>4, <1>5, <1>6, <1>7, <1>8, CardInserted DEF n
<1> QED BY <1>1, <1>2, <1>9 DEF CardInv, PricingTypes

\* The successor of an open-ended card lies in what that card leaves; anything
\* else that supersede may do goes on record.
LEMMA SupersedeStep ==
  ASSUME CardInv, NEW c \in rows(cards), NEW from \in Time, supersedeRateCard(c, from)
  PROVE  CardInv'
<1> DEFINE s == closedAt(c, from)
           e == [from |-> from, to |-> Never]
           n == Len(cards) + 1
           ends == [ended EXCEPT ![c] = lower(@, from)]
           irregular == cards[c].to # Never \/ from < cards[c].from \/ c \in loose
<1>1. /\ UNCHANGED <<room, now, params, tx, overlapped>>
      /\ cards' = Append(s, e) /\ ended' = Append(ends, Never)
      /\ loose' = IF irregular THEN loose \cup {c, n} ELSE loose
      /\ reopened' = IF from > cards[c].to THEN reopened \cup {c} ELSE reopened
  BY DEF supersedeRateCard
<1>2. /\ s \in Seq(Window) /\ Len(s) = Len(cards)
      /\ \A d \in rows(cards) \ {c} : s[d] = cards[d]
      /\ s[c] = [from |-> cards[c].from, to |-> from]
  BY Closing DEF CardInv
<1>3. e \in Window
  BY TimeFacts DEF Window
<1>4. /\ cards \in Seq(Window) /\ ended \in Seq(End) /\ Len(ended) = Len(cards)
      /\ loose \subseteq rows(cards) /\ reopened \subseteq rows(cards)
      /\ now \in Nat /\ from \in Nat /\ from < Never /\ Never \in Nat
      /\ cards[c].from \in Nat /\ cards[c].to \in Nat /\ cards[c].to <= Never
      /\ rows(ended) = rows(cards) /\ ended[c] \in Nat /\ ended[c] \in End
  <2>1. cards[c] \in Window /\ cards[c].from \in Time /\ cards[c].to \in End
    <3>1. cards[c] \in Window
      BY RowsOf DEF CardInv, PricingTypes
    <3> QED BY <3>1 DEF Window
  <2>2. rows(ended) = rows(cards) /\ ended[c] \in End
    <3>1. /\ rows(ended) = 1..Len(ended) /\ rows(cards) = 1..Len(cards)
          /\ Len(ended) = Len(cards) /\ \A d \in rows(ended) : ended[d] \in End
      BY RowsOf DEF CardInv, PricingTypes
    <3> QED BY <3>1
  <2>3. now \in Time /\ \A x : x \in Time => x \in Nat /\ x < Never
    BY TimeFacts DEF CardInv, PricingTypes
  <2>4. \A x : x \in End => x \in Nat /\ x <= Never
    BY TimeFacts
  <2>5. /\ now \in Nat /\ from \in Nat /\ from < Never /\ Never \in Nat
        /\ cards[c].from \in Nat /\ cards[c].to \in Nat /\ cards[c].to <= Never
    BY <2>1, <2>3, <2>4, TimeFacts
  <2> QED BY <2>2, <2>4, <2>5 DEF CardInv, PricingTypes
<1>5. /\ ends \in Seq(End) /\ Len(ends) = Len(cards)
      /\ ends[c] = lower(ended[c], from)
      /\ \A d \in rows(cards) \ {c} : ends[d] = ended[d]
  <2>1. lower(ended[c], from) \in End
    BY <1>4, TimeFacts DEF lower
  <2>2. ends = [ended EXCEPT ![c] = lower(ended[c], from)]
    OBVIOUS
  <2> QED BY <1>4, <2>1, <2>2, Writing
<1>6. /\ s[c].from = cards[c].from /\ s[c].to = from /\ e.from = from /\ e.to = Never
  BY <1>2
<1> HIDE DEF s, e, ends
<1>7. ASSUME ~irregular
      PROVE  /\ c \notin loose /\ cards[c].to = Never /\ cards[c].from <= from
             /\ \A x \in Nat : hold(s[c], x) \/ hold(e, x) => hold(cards[c], x)
             /\ apart(s[c], e)
  BY <1>4, <1>6, <1>7 DEF hold, apart
<1>8. \A a, b \in rows(cards) \ loose' : a # b => apart(s[a], s[b])
  <2> SUFFICES ASSUME NEW a \in rows(cards) \ loose', NEW b \in rows(cards) \ loose', a # b
               PROVE  apart(s[a], s[b])
    OBVIOUS
  <2>1. a \notin loose /\ b \notin loose /\ apart(cards[a], cards[b])
    BY <1>1 DEF CardInv, ApartInv
  <2>2. CASE a # c /\ b # c
    BY <1>2, <2>1, <2>2
  <2>3. CASE a = c \/ b = c
    <3>1. ~irregular
      BY <1>1, <2>3
    <3>2. \A x \in Nat : hold(s[c], x) => hold(cards[c], x)
      BY <1>7, <3>1
    <3> QED BY <1>2, <2>1, <2>3, <3>2 DEF apart
  <2> QED BY <2>2, <2>3
<1>9. n \notin loose' => \A a \in rows(cards) \ loose' : apart(s[a], e)
  <2> SUFFICES ASSUME n \notin loose', NEW a \in rows(cards) \ loose'
               PROVE  apart(s[a], e)
    OBVIOUS
  <2>1. ~irregular
    BY <1>1
  <2>2. CASE a = c
    BY <1>7, <2>1, <2>2
  <2>3. CASE a # c
    <3>1. apart(cards[a], cards[c]) /\ s[a] = cards[a]
      BY <1>1, <1>2, <1>7, <2>1, <2>3 DEF CardInv, ApartInv
    <3>2. \A x \in Nat : hold(e, x) => hold(cards[c], x)
      BY <1>7, <2>1
    <3> QED BY <3>1, <3>2 DEF apart
  <2> QED BY <2>2, <2>3
<1>10. ASSUME NEW t \in Tx, tx[t].op = "create"
       PROVE  /\ \A a \in rows(cards) \ loose' : apart(s[a], tx[t])
              /\ n \notin loose' => apart(e, tx[t])
  <2>1. \A a \in rows(cards) \ loose : apart(cards[a], tx[t])
    BY <1>10 DEF CardInv, ApartInv
  <2>2. ASSUME NEW a \in rows(cards) \ loose'
        PROVE  apart(s[a], tx[t])
    <3>1. CASE a # c
      BY <1>1, <1>2, <2>1, <3>1
    <3>2. CASE a = c
      <4>1. ~irregular
        BY <1>1, <3>2
      <4>2. \A x \in Nat : hold(s[c], x) => hold(cards[c], x)
        BY <1>7, <4>1
      <4> QED BY <1>1, <2>1, <3>2, <4>2 DEF apart
    <3> QED BY <3>1, <3>2
  <2>3. ASSUME n \notin loose'
        PROVE  apart(e, tx[t])
    <3>1. ~irregular
      BY <1>1, <2>3
    <3>2. c \notin loose /\ \A x \in Nat : hold(e, x) => hold(cards[c], x)
      BY <1>7, <3>1
    <3> QED BY <2>1, <3>2 DEF apart
  <2> QED BY <2>2, <2>3
<1>11. \A d \in rows(cards) \ reopened' : s[d].to <= ends[d] \/ s[d].to <= now
  <2> SUFFICES ASSUME NEW d \in rows(cards) \ reopened'
               PROVE  s[d].to <= ends[d] \/ s[d].to <= now
    OBVIOUS
  <2>1. d \notin reopened /\ (cards[d].to <= ended[d] \/ cards[d].to <= now)
    BY <1>1 DEF CardInv, StopInv
  <2>2. CASE d # c
    BY <1>2, <1>5, <2>1, <2>2
  <2>3. CASE d = c
    <3>1. from <= cards[c].to
      BY <1>1, <1>4, <2>3
    <3> QED BY <1>4, <1>5, <1>6, <2>1, <2>3, <3>1 DEF lower
  <2> QED BY <2>2, <2>3
<1>12. loose \subseteq loose' /\ loose' \subseteq rows(cards) \cup {n}
       /\ reopened \subseteq reopened' /\ reopened' \subseteq rows(cards)
  BY <1>1, <1>4
<1> HIDE DEF irregular
<1>13. /\ \A u \in Tx : tx'[u].op = "create" =>
            \A a \in rows(cards) \ loose' : apart(s[a], tx'[u])
       /\ \A u \in Tx : tx'[u].op = "create" /\ n \notin loose' => apart(e, tx'[u])
  <2>1. tx' = tx
    BY <1>1
  <2> QED BY <1>10, <2>1
<1>14. s \in Seq(Window) /\ Len(s) = Len(cards) /\ e \in Window
  BY <1>2, <1>3
<1>15. ends \in Seq(End) /\ Len(ends) = Len(cards) /\ n = Len(cards) + 1
  BY <1>5
<1>16. cards' = Append(s, e) /\ ended' = Append(ends, Never) /\ now' = now
  BY <1>1
<1> HIDE DEF n
<1>17. /\ cards' \in Seq(Window) /\ ended' \in Seq(End)
       /\ Len(ended') = Len(cards')
       /\ loose' \subseteq rows(cards') /\ reopened' \subseteq rows(cards')
       /\ ApartInv' /\ StopInv'
  BY <1>8, <1>9, <1>11, <1>12, <1>13, <1>14, <1>15, <1>16, CardInserted
<1> QED BY <1>1, <1>17 DEF CardInv, PricingTypes

\* A retired card prices nothing from now on.
LEMMA RetireStep ==
  ASSUME CardInv, NEW c \in rows(cards), retireRateCard(c)
  PROVE  CardInv'
<1>1. /\ UNCHANGED <<room, now, params, tx, loose, reopened, overlapped>>
      /\ cards' = closedAt(c, now) /\ ended' = [ended EXCEPT ![c] = lower(@, now)]
  BY DEF retireRateCard, closedAt
<1>2. now \in Time /\ now \in Nat
  BY TimeFacts DEF CardInv, PricingTypes
<1>3. /\ cards' \in Seq(Window) /\ Len(cards') = Len(cards) /\ rows(cards') = rows(cards)
      /\ \A d \in rows(cards) \ {c} : cards'[d] = cards[d]
      /\ cards'[c].from = cards[c].from /\ cards'[c].to = now
  <2> DEFINE s == closedAt(c, now)
  <2>1. /\ s \in Seq(Window) /\ Len(s) = Len(cards) /\ rows(s) = rows(cards)
        /\ \A d \in rows(cards) \ {c} : s[d] = cards[d]
        /\ s[c] = [from |-> cards[c].from, to |-> now]
    BY <1>2, Closing DEF CardInv
  <2>2. cards' = s
    BY <1>1
  <2> HIDE DEF s
  <2> QED BY <2>1, <2>2
<1>4. /\ ended' \in Seq(End) /\ Len(ended') = Len(cards)
      /\ \A d \in rows(cards) \ {c} : ended'[d] = ended[d]
  <2>1. rows(ended) = rows(cards) /\ ended[c] \in End /\ ended \in Seq(End)
        /\ Len(ended) = Len(cards)
    BY RowsOf DEF CardInv, PricingTypes
  <2>2. lower(ended[c], now) \in End
    BY <1>2, <2>1, TimeFacts DEF lower
  <2>3. ended' = [ended EXCEPT ![c] = lower(ended[c], now)]
    BY <1>1
  <2> QED BY <2>1, <2>2, <2>3, Writing
<1>5. PricingTypes'
  BY <1>1, <1>3, <1>4 DEF CardInv, PricingTypes
<1>6. \A x \in Nat : x >= now => ~hold(cards'[c], x)
  BY <1>2, <1>3 DEF hold
<1>7. ApartInv'
  <2>1. ASSUME NEW a \in rows(cards) \ loose, NEW b \in rows(cards) \ loose, a # b
        PROVE  apart(cards[a], cards[b])'
    <3>1. apart(cards[a], cards[b])
      BY <2>1 DEF CardInv, ApartInv
    <3>2. apart(cards'[a], cards'[b])
      BY <1>3, <1>6, <3>1 DEF apart
    <3> QED BY <1>1, <3>2 DEF apart, hold
  <2>2. ASSUME NEW t \in Tx, tx[t].op = "create", NEW d \in rows(cards) \ loose
        PROVE  apart(cards[d], tx[t])'
    <3>1. apart(cards[d], tx[t])
      BY <2>2 DEF CardInv, ApartInv
    <3>2. apart(cards'[d], tx[t])
      BY <1>3, <1>6, <3>1 DEF apart
    <3> QED BY <1>1, <3>2 DEF apart, hold
  <2> QED BY <1>1, <1>3, <2>1, <2>2 DEF ApartInv
<1>8. StopInv'
  <2> SUFFICES ASSUME NEW d \in rows(cards) \ reopened
               PROVE  cards'[d].to <= ended'[d] \/ cards'[d].to <= now
    BY <1>1, <1>3 DEF StopInv
  <2> QED BY <1>2, <1>3, <1>4 DEF CardInv, StopInv
<1> QED BY <1>5, <1>7, <1>8 DEF CardInv

-----------------------------------------------------------------------------
(* The parameters in force.                                                  *)

sets(t) == tx[t].op \in {"set", "closed"}

\* Rows start when they are stamped and the newest is open.  While no two
\* transactions have met, every older row has ended by the time the newest began,
\* and the one that is open has seen all there is to close.
ParamInv ==
  /\ \A p \in rows(params) : params[p].from <= now
  /\ params # << >> => params[Len(params)].to = Never
  /\ \A t \in Tx : sets(t) => tx[t].from <= now
  /\ ~overlapped =>
       /\ \A t, u \in Tx : sets(t) /\ sets(u) => t = u
       /\ \A p \in rows(params) : p < Len(params) => params[p].to <= params[Len(params)].from
       /\ \A t \in Tx : sets(t) => \A p \in rows(params) : params[p].from <= tx[t].from
       /\ \A t \in Tx : tx[t].op = "closed" => tx[t].seen = openParams

Inv == CardInv /\ ParamInv

\* What a set of naturals holds least.
LEMMA LeastNat ==
  ASSUME NEW S, S \subseteq Nat, S # {}
  PROVE  \E x \in S : \A y \in S : x <= y
<1>1. \E R : IsWellFoundedOn(R, Nat) /\ \A x, y \in Nat : y < x => <<y, x>> \in R
  <2> DEFINE R == OpToRel(<, Nat)
  <2>1. IsWellFoundedOn(R, Nat)
    BY NatLessThanWellFounded
  <2>2. \A x, y \in Nat : y < x => <<y, x>> \in R
    BY DEF OpToRel
  <2> HIDE DEF R
  <2> QED BY <2>1, <2>2
<1>2. PICK R : IsWellFoundedOn(R, Nat) /\ \A x, y \in Nat : y < x => <<y, x>> \in R
  BY <1>1
<1>3. \E x \in S : \A y \in S : ~(<<y, x>> \in R)
  BY <1>2, WFMin
<1>4. \E x \in S : \A y \in S : ~(y < x)
  BY <1>2, <1>3
<1> QED BY <1>4

\* Of any rows there is one that started last.
LEMMA LatestFound ==
  ASSUME PricingTypes, NEW found, found \subseteq rows(params), found # {}
  PROVE  latest(found) # {}
<1>1. \A p \in found : params[p].from \in Nat /\ params[p].from <= Horizon
  <2>1. \A p \in rows(params) : params[p] \in Window
    BY RowsOf DEF PricingTypes
  <2> QED BY <2>1, TimeFacts DEF Window
<1> DEFINE S == {Horizon - params[p].from : p \in found}
<1>2. S \subseteq Nat /\ S # {}
  BY <1>1, TimeFacts
<1>3. PICK x \in S : \A y \in S : x <= y
  BY <1>2, LeastNat
<1>4. PICK p \in found : x = Horizon - params[p].from
  BY <1>3
<1>5. \A q \in found : params[q].from <= params[p].from
  <2> SUFFICES ASSUME NEW q \in found PROVE params[q].from <= params[p].from
    OBVIOUS
  <2>1. x <= Horizon - params[q].from
    BY <1>3
  <2> QED BY <1>1, <1>4, <2>1, TimeFacts
<1> QED BY <1>5 DEF latest

\* What the invariant promises a quote.
LEMMA InForce == ASSUME Inv PROVE ParametersInForce
<1> SUFFICES ASSUME params # << >>
             PROVE  /\ resolved # {}
                    /\ \A p \in resolved : p = Len(params) \/ overlapped \/ params[p].from = now
  BY DEF ParametersInForce
<1> DEFINE n == Len(params)
<1>1. n \in Nat /\ rows(params) = 1..n /\ n \in rows(params)
  <2>1. params \in Seq(Window)
    BY DEF Inv, CardInv, PricingTypes
  <2>2. n \in Nat /\ rows(params) = 1..n
    BY <2>1, RowsOf
  <2>3. n # 0
    BY <2>1, EmptySeq
  <2> QED BY <2>2, <2>3
<1>2. now \in Nat /\ now < Never /\ Never \in Nat
  BY TimeFacts DEF Inv, CardInv, PricingTypes
<1>3. \A p \in rows(params) : params[p].from \in Nat /\ params[p].to \in Nat
  <2>1. \A p \in rows(params) : params[p] \in Window
    BY RowsOf DEF Inv, CardInv, PricingTypes
  <2> QED BY <2>1, TimeFacts DEF Window
<1>4. n \in live
  BY <1>1, <1>2, <1>3 DEF live, Inv, ParamInv
<1>5. resolved # {}
  BY <1>4, LatestFound DEF resolved, live, Inv, CardInv
<1>6. ASSUME NEW p \in resolved, p # n, ~overlapped
      PROVE  params[p].from = now
  <2>1. /\ p \in rows(params) /\ params[p].from <= now /\ params[p].to >= now
        /\ params[n].from <= params[p].from
    BY <1>4 DEF resolved, latest, live
  <2>2. params[p].to <= params[n].from
    BY <1>1, <1>6, <2>1 DEF Inv, ParamInv
  <2> QED BY <1>1, <1>2, <1>3, <2>1, <2>2
<1> QED BY <1>5, <1>6

\* An UPDATE changes the ends of the rows it has found, and appending adds the
\* newest.
LEMMA Appended ==
  ASSUME PricingTypes, NEW seen, NEW from \in Time
  PROVE  LET s == closedParams(seen, from)
             k == appended(seen, from)
             n == Len(params) + 1
         IN /\ k \in Seq(Window) /\ Len(k) = n /\ rows(k) = rows(params) \cup {n}
            /\ \A p \in rows(params) :
                 /\ k[p].from = params[p].from
                 /\ k[p].to = IF p \in seen THEN from ELSE params[p].to
            /\ k[n].from = from /\ k[n].to = Never
            /\ Len(params) \in Nat /\ rows(params) = 1..Len(params)
<1> DEFINE s == closedParams(seen, from)
           k == appended(seen, from)
           n == Len(params) + 1
           e == [from |-> from, to |-> Never]
<1>1. /\ params \in Seq(Window) /\ Len(params) \in Nat /\ rows(params) = 1..Len(params)
      /\ \A p \in rows(params) : params[p] \in Window
  BY RowsOf DEF PricingTypes
<1>2. ASSUME NEW p \in rows(params)
      PROVE  /\ s[p] \in Window /\ s[p].from = params[p].from
             /\ s[p].to = IF p \in seen THEN from ELSE params[p].to
  <2>1. s[p] = IF p \in seen THEN [params[p] EXCEPT !.to = from] ELSE params[p]
    BY DEF closedParams
  <2>2. params[p].from \in Time /\ params[p].to \in End /\ from \in End
    BY <1>1, TimeFacts DEF Window
  <2>3. [params[p] EXCEPT !.to = from] = [from |-> params[p].from, to |-> from]
    BY <1>1 DEF Window
  <2>4. CASE p \in seen
    BY <2>1, <2>2, <2>3, <2>4 DEF Window
  <2>5. CASE p \notin seen
    BY <1>1, <2>1, <2>5
  <2> QED BY <2>4, <2>5
<1>3. s \in [1..Len(params) -> Window]
  <2>1. s = [p \in rows(params) |->
               IF p \in seen THEN [params[p] EXCEPT !.to = from] ELSE params[p]]
    BY DEF closedParams
  <2>2. \A p \in rows(params) :
          (IF p \in seen THEN [params[p] EXCEPT !.to = from] ELSE params[p]) \in Window
    BY <1>2, <2>1
  <2> QED BY <1>1, <2>1, <2>2
<1> HIDE DEF s
<1>4. s \in Seq(Window) /\ Len(s) = Len(params) /\ rows(s) = rows(params)
  <2>1. s \in Seq(Window)
    BY <1>1, <1>3, SeqDef
  <2>2. DOMAIN s = 1..Len(params) /\ DOMAIN s = 1..Len(s) /\ Len(s) \in Nat
    BY <1>3, <2>1, LenProperties
  <2> QED BY <1>1, <2>1, <2>2, RowsOf
<1>5. e \in Window /\ e.from = from /\ e.to = Never
  BY TimeFacts DEF Window
<1> HIDE DEF e
<1>6. /\ k \in Seq(Window) /\ Len(k) = Len(s) + 1
      /\ rows(k) = rows(s) \cup {Len(s) + 1} /\ Len(s) + 1 \notin rows(s)
      /\ \A c \in rows(s) : k[c] = s[c]
      /\ k[Len(s) + 1] = e
  <2>1. k = Append(s, e)
    BY DEF appended, s, e
  <2> DEFINE j == Append(s, e)
  <2>2. /\ j \in Seq(Window) /\ Len(j) = Len(s) + 1
        /\ rows(j) = rows(s) \cup {Len(s) + 1} /\ Len(s) + 1 \notin rows(s)
        /\ \A c \in rows(s) : j[c] = s[c]
        /\ j[Len(s) + 1] = e
    BY <1>4, <1>5, AppendingWindow
  <2>3. k = j
    BY <2>1
  <2> HIDE DEF j, k
  <2> QED BY <2>2, <2>3
<1> HIDE DEF k
<1>7. /\ k \in Seq(Window) /\ Len(k) = n /\ rows(k) = rows(params) \cup {n}
      /\ \A p \in rows(params) :
           /\ k[p].from = params[p].from
           /\ k[p].to = IF p \in seen THEN from ELSE params[p].to
      /\ k[n].from = from /\ k[n].to = Never
  BY <1>2, <1>4, <1>5, <1>6
<1> QED BY <1>1, <1>7 DEF k

\* A step on the rate cards, or the clock, leaves the parameters settled.
LEMMA ParamsUntouched ==
  ASSUME Inv, PricingTypes', UNCHANGED <<params, overlapped>>,
         now' \in {now, now + 1},
         \A t \in Tx : sets(t)' =>
           /\ sets(t) /\ tx'[t].op = tx[t].op
           /\ tx'[t].from = tx[t].from /\ tx'[t].seen = tx[t].seen
  PROVE  ParamInv'
<1>1. now \in Nat /\ now' \in Nat /\ now <= now'
  BY TimeFacts DEF Inv, CardInv, PricingTypes
<1>2. \A p \in rows(params) : params[p].from \in Nat
  <2>1. \A p \in rows(params) : params[p] \in Window
    BY RowsOf DEF Inv, CardInv, PricingTypes
  <2> QED BY <2>1, TimeFacts DEF Window
<1>3. \A t \in Tx : tx[t].from \in Nat
  BY TimeFacts DEF Inv, CardInv, PricingTypes, Transaction
<1>4. openParams' = openParams
  BY DEF openParams, rows
<1>5. \A p \in rows(params) : params[p].from <= now'
  BY <1>1, <1>2 DEF Inv, ParamInv
<1>6. \A t \in Tx : sets(t)' => tx'[t].from <= now'
  BY <1>1, <1>3 DEF Inv, ParamInv
<1>7. ASSUME ~overlapped
      PROVE  /\ \A t, u \in Tx : sets(t)' /\ sets(u)' => t = u
             /\ \A p \in rows(params) : p < Len(params) => params[p].to <= params[Len(params)].from
             /\ \A t \in Tx : sets(t)' => \A p \in rows(params) : params[p].from <= tx'[t].from
             /\ \A t \in Tx : tx'[t].op = "closed" => tx'[t].seen = openParams
  <2>1. \A t \in Tx : tx'[t].op = "closed" => sets(t)'
    BY DEF sets
  <2> QED BY <1>7, <2>1 DEF Inv, ParamInv
<1>8. params # << >> => params[Len(params)].to = Never
  BY DEF Inv, ParamInv
<1> QED BY <1>4, <1>5, <1>6, <1>7, <1>8 DEF ParamInv, rows

\* A transaction starts now, after every row there is.
LEMMA BeginStep ==
  ASSUME Inv, NEW t \in Tx, beginSet(t)
  PROVE  Inv'
<1>1. /\ UNCHANGED <<room, now, cards, params, ended, loose, reopened>>
      /\ opens(t, "set", now, Never) /\ tx[t] = Idle
      /\ overlapped' = (overlapped \/ others(t, {"set", "closed"}) # {})
  BY DEF beginSet, opens
<1>2. /\ tx' \in [Tx -> Transaction]
      /\ tx'[t] = [op |-> "set", from |-> now, to |-> Never, seen |-> {}, waits |-> {}]
      /\ \A u \in Tx \ {t} : tx'[u] = tx[u]
  BY <1>1, Opening, TimeFacts DEF Inv, CardInv, PricingTypes
<1>3. PricingTypes'
  BY <1>1, <1>2 DEF Inv, CardInv, PricingTypes
<1>4. CardInv'
  <2>1. \A u \in Tx : tx'[u].op = "create" =>
          tx[u].op = "create" /\ tx'[u].from = tx[u].from /\ tx'[u].to = tx[u].to
    BY <1>2
  <2> QED BY <1>1, <1>3, <2>1, CardsUntouched DEF Inv
<1>5. \A u \in Tx : sets(u)' => tx'[u].from <= now
  <2>1. now \in Nat
    BY TimeFacts DEF Inv, CardInv, PricingTypes
  <2> QED BY <1>2, <2>1 DEF Inv, ParamInv, sets
<1>6. ASSUME ~overlapped'
      PROVE  /\ \A x, u \in Tx : sets(x)' /\ sets(u)' => x = u
             /\ \A u \in Tx : sets(u)' => \A p \in rows(params) : params[p].from <= tx'[u].from
             /\ \A u \in Tx : tx'[u].op = "closed" => tx'[u].seen = openParams
  <2>1. ~overlapped /\ \A u \in Tx \ {t} : ~sets(u)
    BY <1>1, <1>6 DEF others, sets
  <2>2. \A u \in Tx : sets(u)' => u = t
    BY <1>2, <2>1 DEF sets
  <2>3. \A u \in Tx : tx'[u].op = "closed" => FALSE
    BY <1>2, <2>1 DEF sets
  <2> QED BY <1>2, <2>2, <2>3 DEF Inv, ParamInv
<1>7. ParamInv'
  <2>1. openParams' = openParams /\ rows(params)' = rows(params)
    BY <1>1 DEF openParams, rows
  <2>2. ~overlapped' => ~overlapped
    BY <1>1
  <2> QED BY <1>1, <1>5, <1>6, <2>1, <2>2 DEF Inv, ParamInv, rows
<1> QED BY <1>4, <1>7 DEF Inv

\* The UPDATE of the only transaction open sees every open row.
LEMMA CloseStep ==
  ASSUME Inv, NEW t \in Tx, closeParams(t)
  PROVE  Inv'
<1> DEFINE holders == {x \in others(t, {"closed"}) : tx[x].seen # {}}
           locked == UNION {tx[x].seen : x \in holders}
           q == [tx[t] EXCEPT !.op = "closed", !.seen = openParams \ locked, !.waits = holders]
<1>1. /\ UNCHANGED <<room, now, cards, params, ended, loose, reopened, overlapped>>
      /\ tx[t].op = "set"
      /\ tx' = [tx EXCEPT ![t] = q]
  BY DEF closeParams
<1>2. openParams \subseteq Nat /\ holders \subseteq Tx
  <2>1. rows(params) \subseteq Nat
    BY RowsOf DEF Inv, CardInv, PricingTypes
  <2> QED BY <2>1 DEF openParams, others
<1>3. /\ q \in Transaction /\ q.op = "closed" /\ q.seen = openParams \ locked
      /\ q.from = tx[t].from
  <2>1. tx[t] \in Transaction
    BY DEF Inv, CardInv, PricingTypes
  <2> QED BY <1>2, <2>1 DEF Transaction
<1>4. (\A u \in Tx : tx[u].op # "closed" \/ u = t) => openParams \ locked = openParams
  BY DEF others
<1> HIDE DEF q, holders, locked
<1>5. /\ tx' \in [Tx -> Transaction] /\ tx'[t] = q
      /\ \A u \in Tx \ {t} : tx'[u] = tx[u]
  BY <1>1, <1>3 DEF Inv, CardInv, PricingTypes
<1>6. PricingTypes'
  BY <1>1, <1>5 DEF Inv, CardInv, PricingTypes
<1>7. CardInv'
  <2>1. \A u \in Tx : tx'[u].op = "create" =>
          tx[u].op = "create" /\ tx'[u].from = tx[u].from /\ tx'[u].to = tx[u].to
    BY <1>3, <1>5
  <2> QED BY <1>1, <1>6, <2>1, CardsUntouched DEF Inv
<1>8. \A u \in Tx : /\ sets(u)' <=> sets(u)
                    /\ tx'[u].from = tx[u].from
  BY <1>1, <1>3, <1>5 DEF sets
<1>9. ASSUME ~overlapped, NEW u \in Tx, tx'[u].op = "closed"
      PROVE  tx'[u].seen = openParams
  <2>1. \A x \in Tx : tx[x].op # "closed" \/ x = t
    BY <1>1, <1>9 DEF Inv, ParamInv, sets
  <2>2. u = t
    BY <1>5, <1>9, <2>1
  <2> QED BY <1>3, <1>4, <1>5, <2>1, <2>2
<1>10. ParamInv'
  <2>1. openParams' = openParams /\ rows(params)' = rows(params)
    BY <1>1 DEF openParams, rows
  <2> QED BY <1>1, <1>8, <1>9, <2>1 DEF Inv, ParamInv, rows
<1> QED BY <1>7, <1>10 DEF Inv

\* The transaction inserts its row: all there was has ended when it began.
LEMMA InsertParamsStep ==
  ASSUME Inv, NEW t \in Tx, insertParams(t)
  PROVE  Inv'
<1> DEFINE seen == tx[t].seen
           from == tx[t].from
           k == appended(seen, from)
           n == Len(params) + 1
<1>1. /\ UNCHANGED <<room, now, cards, ended, loose, reopened, overlapped>>
      /\ tx[t].op = "closed" /\ params' = k
  BY DEF insertParams
<1>2. /\ tx' \in [Tx -> Transaction] /\ tx'[t].op = "none"
      /\ \A u \in Tx \ {t} :
           /\ tx'[u].op = tx[u].op /\ tx'[u].from = tx[u].from
           /\ tx'[u].to = tx[u].to /\ tx'[u].seen = tx[u].seen
  BY ClosingTx DEF insertParams, Inv, CardInv
<1>3. from \in Time /\ from \in Nat /\ now \in Nat
  BY TimeFacts DEF Inv, CardInv, PricingTypes, Transaction
<1>4. /\ k \in Seq(Window) /\ Len(k) = n /\ rows(k) = rows(params) \cup {n}
      /\ \A p \in rows(params) :
           /\ k[p].from = params[p].from
           /\ k[p].to = IF p \in seen THEN from ELSE params[p].to
      /\ k[n].from = from /\ k[n].to = Never
      /\ Len(params) \in Nat /\ rows(params) = 1..Len(params)
  BY <1>3, Appended DEF Inv, CardInv
<1> HIDE DEF k
<1>5. PricingTypes'
  BY <1>1, <1>2, <1>4 DEF Inv, CardInv, PricingTypes
<1>6. CardInv'
  <2>1. \A u \in Tx : tx'[u].op = "create" =>
          tx[u].op = "create" /\ tx'[u].from = tx[u].from /\ tx'[u].to = tx[u].to
    BY <1>2
  <2> QED BY <1>1, <1>5, <2>1, CardsUntouched DEF Inv
<1>7. \A p \in rows(k) : k[p].from <= now
  BY <1>1, <1>4 DEF Inv, ParamInv, sets
<1>8. \A u \in Tx : sets(u)' => u # t /\ sets(u) /\ tx'[u].from = tx[u].from
  BY <1>2 DEF sets
<1>9. ASSUME ~overlapped
      PROVE  /\ \A u \in Tx : ~sets(u)'
             /\ \A p \in rows(k) : p < n => k[p].to <= k[n].from
  <2>1. \A u \in Tx : ~sets(u)'
    BY <1>1, <1>8, <1>9 DEF Inv, ParamInv, sets
  <2>2. seen = openParams /\ \A p \in rows(params) : params[p].from <= from
    BY <1>1, <1>9 DEF Inv, ParamInv, sets
  <2>3. ASSUME NEW p \in rows(params), p \notin seen
        PROVE  params[p].to <= from
    <3>1. params[p].to # Never /\ Len(params) \in rows(params)
      BY <1>4, <2>2, <2>3 DEF openParams
    <3>2. params # << >>
      BY <1>4, <3>1, EmptySeq
    <3>3. p # Len(params)
      BY <3>1, <3>2 DEF Inv, ParamInv
    <3>4. params[p].to <= params[Len(params)].from /\ params[Len(params)].from <= from
      BY <1>4, <1>9, <2>2, <3>1, <3>3 DEF Inv, ParamInv
    <3>5. params[p].to \in Nat /\ params[Len(params)].from \in Nat
      <4>1. \A r \in rows(params) : params[r] \in Window
        BY RowsOf DEF Inv, CardInv, PricingTypes
      <4> QED BY <3>1, <4>1, TimeFacts DEF Window
    <3> QED BY <1>3, <3>4, <3>5
  <2>4. \A p \in rows(params) : k[p].to <= from
    BY <1>3, <1>4, <2>3
  <2> QED BY <1>4, <2>1, <2>4
<1>10. ParamInv'
  <2>1. \A u \in Tx : tx'[u].op = "closed" => sets(u)'
    BY DEF sets
  <2>2. \A u \in Tx : sets(u)' => tx'[u].from <= now
    BY <1>8 DEF Inv, ParamInv
  <2>3. ~overlapped => \A x, u \in Tx : sets(x)' /\ sets(u)' => x = u
    BY <1>9
  <2> QED BY <1>1, <1>4, <1>7, <1>9, <2>1, <2>2, <2>3 DEF ParamInv, rows
<1> QED BY <1>6, <1>10 DEF Inv

\* The clock.
LEMMA TickStep == ASSUME Inv, tick PROVE Inv'
<1>1. /\ UNCHANGED <<room, cards, params, tx, ended, loose, reopened, overlapped>>
      /\ now' = now + 1 /\ now' \in Time
  <2>1. now \in Nat /\ now < Horizon /\ Horizon \in Nat
    BY TimeFacts DEF tick, Inv, CardInv, PricingTypes
  <2>2. now + 1 \in Time
    BY <2>1 DEF Time
  <2> QED BY <2>2 DEF tick
<1>2. PricingTypes'
  BY <1>1 DEF Inv, CardInv, PricingTypes
<1>3. CardInv'
  BY <1>1, <1>2, CardsUntouched DEF Inv
<1>4. ParamInv'
  BY <1>1, <1>2, ParamsUntouched DEF sets
<1> QED BY <1>3, <1>4 DEF Inv

\* The steps on rate cards concern no transaction that sets parameters.
LEMMA CardSteps ==
  ASSUME Inv,
         \/ \E t \in Tx, from \in Time, to \in Time \cup {Never} : checkOverlap(t, from, to)
         \/ \E t \in Tx : insertCard(t)
         \/ \E c \in rows(cards), from \in Time : supersedeRateCard(c, from)
         \/ \E c \in rows(cards) : retireRateCard(c)
  PROVE  Inv'
<1>1. ASSUME NEW t \in Tx, NEW from \in Time, NEW to \in Time \cup {Never},
             checkOverlap(t, from, to)
      PROVE  Inv'
  <2>1. CardInv'
    BY <1>1, CheckStep DEF Inv, End
  <2>2. \A u \in Tx \ {t} : tx'[u] = tx[u]
    BY <1>1, Opening DEF checkOverlap, Inv, CardInv, End
  <2>3. tx'[t].op = "create"
    <3>1. tx'[t] = [op |-> "create", from |-> from, to |-> to, seen |-> {}, waits |-> {}]
      BY <1>1, Opening DEF checkOverlap, Inv, CardInv, End
    <3> QED BY <3>1
  <2>4. ParamInv'
    BY <1>1, <2>1, <2>2, <2>3, ParamsUntouched DEF checkOverlap, CardInv, sets
  <2> QED BY <2>1, <2>4 DEF Inv
<1>2. ASSUME NEW t \in Tx, insertCard(t)
      PROVE  Inv'
  <2>1. CardInv'
    BY <1>2, InsertStep DEF Inv
  <2>2. /\ tx'[t].op = "none"
        /\ \A u \in Tx \ {t} : /\ tx'[u].op = tx[u].op /\ tx'[u].from = tx[u].from
                               /\ tx'[u].seen = tx[u].seen
    BY <1>2, ClosingTx DEF insertCard, Inv, CardInv
  <2>3. ParamInv'
    BY <1>2, <2>1, <2>2, ParamsUntouched DEF insertCard, CardInv, sets
  <2> QED BY <2>1, <2>3 DEF Inv
<1>3. ASSUME NEW c \in rows(cards), NEW from \in Time, supersedeRateCard(c, from)
      PROVE  Inv'
  <2>1. CardInv'
    BY <1>3, SupersedeStep DEF Inv
  <2>2. ParamInv'
    BY <1>3, <2>1, ParamsUntouched DEF supersedeRateCard, CardInv, sets
  <2> QED BY <2>1, <2>2 DEF Inv
<1>4. ASSUME NEW c \in rows(cards), retireRateCard(c)
      PROVE  Inv'
  <2>1. CardInv'
    BY <1>4, RetireStep DEF Inv
  <2>2. ParamInv'
    BY <1>4, <2>1, ParamsUntouched DEF retireRateCard, CardInv, sets
  <2> QED BY <2>1, <2>2 DEF Inv
<1> QED BY <1>1, <1>2, <1>3, <1>4

-----------------------------------------------------------------------------
(* The invariant and what it implies.                                        *)

\* Everything above is preserved by every step.
THEOREM Invariance == Spec => []Inv
<1>1. Init => Inv
  <2> SUFFICES ASSUME Init PROVE Inv
    OBVIOUS
  <2>1. /\ << >> \in Seq(Window) /\ << >> \in Seq(End) /\ Len(<< >>) = 0
    BY EmptySeq
  <2>2. rows(cards) = {} /\ rows(params) = {}
    BY DEF Init, rows
  <2>3. Idle \in Transaction /\ Idle.op = "none"
    BY TimeFacts DEF Idle, Transaction
  <2>4. now \in Time
    BY TimeFacts DEF Init
  <2>5. PricingTypes
    BY <2>1, <2>2, <2>3, <2>4 DEF Init, PricingTypes
  <2>6. \A t \in Tx : tx[t].op = "none"
    BY <2>3 DEF Init
  <2>7. CardInv
    BY <2>2, <2>5, <2>6 DEF CardInv, ApartInv, StopInv
  <2>8. ParamInv
    BY <2>2, <2>6 DEF Init, ParamInv, sets
  <2> QED BY <2>7, <2>8 DEF Inv
<1>2. Inv /\ [Next]_vars => Inv'
  <2> SUFFICES ASSUME Inv, [Next]_vars PROVE Inv'
    OBVIOUS
  <2>1. ASSUME NEW t \in Tx, beginSet(t) PROVE Inv'
    BY <2>1, BeginStep
  <2>2. ASSUME NEW t \in Tx, closeParams(t) PROVE Inv'
    BY <2>2, CloseStep
  <2>3. ASSUME NEW t \in Tx, insertParams(t) PROVE Inv'
    BY <2>3, InsertParamsStep
  <2>4. CASE tick
    BY <2>4, TickStep
  <2>5. CASE UNCHANGED vars
    <3>1. PricingTypes'
      BY <2>5 DEF vars, Inv, CardInv, PricingTypes
    <3>2. CardInv'
      BY <2>5, <3>1, CardsUntouched DEF vars, Inv
    <3>3. ParamInv'
      BY <2>5, <3>1, ParamsUntouched DEF vars, sets
    <3> QED BY <3>2, <3>3 DEF Inv
  <2> QED BY <2>1, <2>2, <2>3, <2>4, <2>5, CardSteps DEF Next
<1> QED BY <1>1, <1>2, PTL DEF Spec

\* Two cards that could both price a quote now are on record: one was inserted
\* beside another create or superseded out of order (createRateCard,
\* supersedeRateCard).
THEOREM PricedByOne == Spec => []OnePriceAtATime
<1>1. Inv => OnePriceAtATime
  <2> SUFFICES ASSUME Inv, NEW a \in rows(cards), NEW b \in rows(cards), a < b,
                      inForce(cards[a]), inForce(cards[b]), a \notin loose, b \notin loose
               PROVE  FALSE
    BY DEF OnePriceAtATime
  <2>1. a # b
    <3>1. a \in Nat /\ b \in Nat
      BY RowsOf DEF Inv, CardInv, PricingTypes
    <3> QED BY <3>1
  <2>2. now \in Nat /\ apart(cards[a], cards[b])
    BY <2>1, TimeFacts DEF Inv, CardInv, PricingTypes, ApartInv
  <2>3. cards[a].to > now /\ cards[b].to > now /\ cards[a].from <= now /\ cards[b].from <= now
    BY DEF inForce
  <2> QED BY <2>2, <2>3 DEF apart, hold
<1> QED BY <1>1, Invariance, PTL

\* A card told to stop prices nothing from then on, unless it was superseded
\* again as of later when already closed (supersedeRateCard, retireRateCard).
THEOREM SupersededStops == Spec => []SupersededNeverPrices
<1>1. Inv => SupersededNeverPrices
  <2> SUFFICES ASSUME Inv, NEW c \in rows(cards), ended[c] <= now, inForce(cards[c]),
                      c \notin reopened
               PROVE  FALSE
    BY DEF SupersededNeverPrices
  <2>1. cards[c].to <= ended[c] \/ cards[c].to <= now
    BY DEF Inv, CardInv, StopInv
  <2>2. cards[c] \in Window /\ ended[c] \in End /\ now \in Nat
    <3>1. cards[c] \in Window
      BY RowsOf DEF Inv, CardInv, PricingTypes
    <3>2. rows(cards) = 1..Len(cards) /\ rows(ended) = 1..Len(ended)
      BY RowsOf DEF Inv, CardInv, PricingTypes
    <3>3. ended[c] \in End
      BY <3>2, RowsOf DEF Inv, CardInv, PricingTypes
    <3> QED BY <3>1, <3>3, TimeFacts DEF Inv, CardInv, PricingTypes
  <2>3. cards[c].to \in Nat /\ ended[c] \in Nat
    BY <2>2, TimeFacts DEF Window
  <2> QED BY <2>1, <2>2, <2>3 DEF inForce
<1> QED BY <1>1, Invariance, PTL

\* Once parameters are set a quote always finds some, and the newest ones unless
\* two were being set at once (setPricingParameters, resolveDieselAndParams).
THEOREM AlwaysParameters == Spec => []ParametersInForce
<1> QED BY InForce, Invariance, PTL

-----------------------------------------------------------------------------
(* Windows of parameters are closed once.                                    *)

\* Who has found a row open has it locked, so it stays open and is in nobody
\* else's UPDATE.
FoundInv ==
  \A t \in Tx : tx[t].op = "closed" =>
    /\ tx[t].seen \subseteq openParams
    /\ \A u \in Tx \ {t} : tx[u].op = "closed" => tx[t].seen \cap tx[u].seen = {}

\* A row of parameters is never removed, keeps its start, and keeps its end too
\* once it has one.
keepsWindows ==
  \A p \in rows(params) :
    /\ p \in rows(params') /\ params'[p].from = params[p].from
    /\ params[p].to # Never => params'[p].to = params[p].to
WindowsFinal == [][keepsWindows]_vars

\* The UPDATE finds what is open and not locked.
LEMMA FoundByUpdate ==
  ASSUME Inv, FoundInv, NEW t \in Tx, closeParams(t)
  PROVE  FoundInv'
<1> DEFINE holders == {x \in others(t, {"closed"}) : tx[x].seen # {}}
           locked == UNION {tx[x].seen : x \in holders}
           q == [tx[t] EXCEPT !.op = "closed", !.seen = openParams \ locked, !.waits = holders]
<1>1. params' = params /\ tx' = [tx EXCEPT ![t] = q]
  BY DEF closeParams
<1>2. tx \in [Tx -> Transaction] /\ tx[t] \in Transaction
  BY DEF Inv, CardInv, PricingTypes
<1>3. \A u \in Tx \ {t} : tx[u].op = "closed" => tx[u].seen \subseteq locked
  BY DEF others
<1> HIDE DEF holders, locked
<1>4. q.seen = openParams \ locked
  BY <1>2 DEF Transaction
<1> HIDE DEF q
<1>5. tx'[t] = q /\ \A u \in Tx \ {t} : tx'[u] = tx[u]
  BY <1>1, <1>2
<1>6. openParams' = openParams
  BY <1>1 DEF openParams, rows
<1>7. \A u \in Tx \ {t} : tx[u].op = "closed" => tx'[t].seen \cap tx'[u].seen = {}
  BY <1>3, <1>4, <1>5
<1> QED BY <1>4, <1>5, <1>6, <1>7 DEF FoundInv

\* The insertion closes what its transaction has found, which nobody else has.
LEMMA FoundByInsert ==
  ASSUME Inv, FoundInv, NEW t \in Tx, insertParams(t)
  PROVE  FoundInv' /\ keepsWindows
<1> DEFINE k == appended(tx[t].seen, tx[t].from)
           n == Len(params) + 1
<1>1. tx[t].op = "closed" /\ params' = k /\ closes(t)
  BY DEF insertParams
<1>2. /\ tx'[t].op = "none"
      /\ \A u \in Tx \ {t} : tx'[u].op = tx[u].op /\ tx'[u].seen = tx[u].seen
  BY <1>1, ClosingTx DEF Inv, CardInv
<1>3. tx[t].from \in Time
  BY DEF Inv, CardInv, PricingTypes, Transaction
<1>4. /\ rows(k) = rows(params) \cup {n}
      /\ \A p \in rows(params) :
           /\ k[p].from = params[p].from
           /\ k[p].to = IF p \in tx[t].seen THEN tx[t].from ELSE params[p].to
  BY <1>3, Appended DEF Inv, CardInv
<1> HIDE DEF k
<1>5. tx[t].seen \subseteq openParams
  BY <1>1 DEF FoundInv
<1>6. keepsWindows
  BY <1>1, <1>4, <1>5 DEF keepsWindows, openParams
<1>7. openParams \ tx[t].seen \subseteq openParams'
  BY <1>1, <1>4 DEF openParams
<1>8. \A u \in Tx \ {t} : tx[u].op = "closed" => tx[u].seen \subseteq openParams \ tx[t].seen
  BY <1>1 DEF FoundInv
<1> QED BY <1>2, <1>6, <1>7, <1>8 DEF FoundInv

\* Every other step leaves the parameters, and what an UPDATE has found, alone.
LEMMA FoundElsewhere ==
  ASSUME FoundInv, params' = params,
         \A t \in Tx : tx'[t].op = "closed" => tx[t].op = "closed" /\ tx'[t].seen = tx[t].seen
  PROVE  FoundInv' /\ keepsWindows
<1>1. openParams' = openParams
  BY DEF openParams, rows
<1>2. FoundInv'
  BY <1>1 DEF FoundInv
<1> QED BY <1>2 DEF keepsWindows

\* Every step, and what it may do to the table.
LEMMA FoundNext ==
  ASSUME Inv, FoundInv, [Next]_vars
  PROVE  FoundInv' /\ keepsWindows
<1>1. ASSUME NEW t \in Tx, insertCard(t)
      PROVE  FoundInv' /\ keepsWindows
  <2>1. closes(t) /\ params' = params
    BY <1>1 DEF insertCard
  <2>2. \A u \in Tx : tx'[u].op = "closed" => tx[u].op = "closed" /\ tx'[u].seen = tx[u].seen
    BY <2>1, ClosingTx DEF Inv, CardInv
  <2> QED BY <2>1, <2>2, FoundElsewhere
<1>2. ASSUME NEW t \in Tx, NEW op \in {"create", "set"}, NEW from \in Time, NEW to \in End,
             opens(t, op, from, to), params' = params
      PROVE  FoundInv' /\ keepsWindows
  <2>1. /\ tx'[t] = [op |-> op, from |-> from, to |-> to, seen |-> {}, waits |-> {}]
        /\ \A u \in Tx \ {t} : tx'[u] = tx[u]
    BY <1>2, Opening DEF Inv, CardInv
  <2>2. tx'[t].op # "closed"
    BY <2>1
  <2> QED BY <1>2, <2>1, <2>2, FoundElsewhere
<1>3. ASSUME NEW t \in Tx, NEW from \in Time, NEW to \in Time \cup {Never},
             checkOverlap(t, from, to)
      PROVE  FoundInv' /\ keepsWindows
  BY <1>2, <1>3 DEF checkOverlap, End
<1>4. ASSUME NEW t \in Tx, beginSet(t)
      PROVE  FoundInv' /\ keepsWindows
  BY <1>2, <1>4, TimeFacts DEF beginSet, Inv, CardInv, PricingTypes
<1>5. ASSUME NEW t \in Tx, closeParams(t)
      PROVE  FoundInv' /\ keepsWindows
  BY <1>5, FoundByUpdate DEF closeParams, keepsWindows
<1>6. ASSUME params' = params, tx' = tx
      PROVE  FoundInv' /\ keepsWindows
  BY <1>6, FoundElsewhere
<1>7. ASSUME NEW c \in rows(cards), NEW from \in Time, supersedeRateCard(c, from)
      PROVE  FoundInv' /\ keepsWindows
  BY <1>6, <1>7 DEF supersedeRateCard
<1>8. ASSUME NEW c \in rows(cards), retireRateCard(c)
      PROVE  FoundInv' /\ keepsWindows
  BY <1>6, <1>8 DEF retireRateCard
<1>9. CASE tick \/ UNCHANGED vars
  BY <1>6, <1>9 DEF tick, vars
<1> QED
  BY <1>1, <1>3, <1>4, <1>5, <1>7, <1>8, <1>9, FoundByInsert DEF Next

\* However many requests set parameters at once, a window that has been closed is
\* never written again, unlike a rate card's: what was in force at a past instant
\* stays on the record (setPricingParameters' UPDATE of the rows with no end).
THEOREM ParametersKept == Spec => WindowsFinal
<1>1. Init => FoundInv
  <2>1. Idle.op = "none"
    BY DEF Idle
  <2> QED BY <2>1 DEF Init, FoundInv
<1>2. Inv /\ Inv' /\ FoundInv /\ [Next]_vars => FoundInv'
  BY FoundNext
<1>3. Spec => []FoundInv
  BY <1>1, <1>2, Invariance, PTL DEF Spec
<1>4. Inv /\ FoundInv /\ [Next]_vars => [keepsWindows]_vars
  BY FoundNext
<1> QED BY <1>3, <1>4, Invariance, PTL DEF Spec, WindowsFinal
===============================================================================
