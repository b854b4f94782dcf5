-------------------------------- MODULE Pricing --------------------------------
(***************************************************************************)
(* What a quote is priced with: the rate cards of one machine, unit and rate  *)
(* type, and the tenant's pricing parameters of one region.  Both are tables  *)
(* of windows of time that are only ever appended to and closed, and the      *)
(* engine reads the rows whose window holds the present.                      *)
(*                                                                           *)
(* createRateCard checks for an overlap and inserts, setPricingParameters     *)
(* closes what it sees and inserts: each is two steps, for nothing is locked. *)
(* supersedeRateCard and retireRateCard write by id whatever they have read,  *)
(* at a date that may be any: one step.                                       *)
(***************************************************************************)
EXTENDS Naturals, Sequences

CONSTANTS
  Room,       \* [cards, params]: the rows ever inserted, one size a behaviour (bound)
  Horizon,    \* the last instant of the clock (bound)
  Tx          \* transactions open at once (bound)

ASSUME PricingAssumption == Room \subseteq [cards : Nat, params : Nat] /\ Horizon \in Nat

Time == 0..Horizon
Never == Horizon + 1            \* effective_to is null

VARIABLES
  room,       \* the size this behaviour has
  now,
  cards,      \* the windows inserted into rate_cards, in order
  params,     \* the windows inserted into pricing_parameters, in order
  tx,         \* the transactions that have read and not yet written
  ended,      \* history: the first instant a card was told to stop pricing at
  loose,      \* history: cards that a second create, or a supersede of a card
              \*   that was not open-ended or began later, may have doubled
  reopened,   \* history: cards that were closed and given a later end
  overlapped  \* history: two setPricingParameters were open at once

vars == <<room, now, cards, params, tx, ended, loose, reopened, overlapped>>

Idle == [op |-> "none", from |-> 0, to |-> 0, seen |-> {}, waits |-> {}]

rows(table) == DOMAIN table

\* PricingEngineService.priceItem: the card may price a quote now.
inForce(w) == w.from <= now /\ w.to > now

\* Mutant of overlaps: only a card that holds the new one's first instant is found.
overlapsAtStart(w, from, to) == w.from <= from /\ w.to > from

\* createRateCard's query for a card whose window meets the new one.
overlaps(w, from, to) == w.from <= to /\ w.to > from

Init ==
  /\ room \in Room
  /\ now = 0
  /\ cards = << >> /\ params = << >>
  /\ tx = [t \in Tx |-> Idle]
  /\ ended = << >>
  /\ loose = {} /\ reopened = {}
  /\ overlapped = FALSE

\* A transaction starts, with what it is to insert; it commits, and those that
\* wait for a row it has locked go on.
opens(t, op, from, to) ==
  /\ tx[t] = Idle
  /\ tx' = [tx EXCEPT ![t] = [Idle EXCEPT !.op = op, !.from = from, !.to = to]]
closes(t) ==
  tx' = [x \in Tx |-> IF x = t THEN Idle ELSE [tx[x] EXCEPT !.waits = @ \ {t}]]
others(t, ops) == {x \in Tx \ {t} : tx[x].op \in ops}
lower(a, b) == IF a < b THEN a ELSE b

-----------------------------------------------------------------------------
(* Rate cards.                                                               *)

\* An end without a start may lie before it: the schema compares them only
\* when both are given.
checkOverlap(t, from, to) ==
  /\ \/ from < to
     \/ from = now
  /\ \A c \in rows(cards) : ~overlaps(cards[c], from, to)
  /\ Len(cards) < room.cards
  /\ opens(t, "create", from, to)
  /\ UNCHANGED <<room, now, cards, params, ended, loose, reopened, overlapped>>

insertCard(t) ==
  /\ tx[t].op = "create" /\ Len(cards) < room.cards
  /\ cards' = Append(cards, [from |-> tx[t].from, to |-> tx[t].to])
  /\ closes(t)
  /\ loose' = IF others(t, {"create"}) = {} THEN loose ELSE loose \union {Len(cards) + 1}
  /\ ended' = Append(ended, Never)
  /\ UNCHANGED <<room, now, params, reopened, overlapped>>

\* Mutant of closedAt: a card that has an end keeps it.
openClosedAt(c, from) == [cards EXCEPT ![c].to = IF @ = Never THEN from ELSE @]

\* What supersedeRateCard leaves of the card it closes.
closedAt(c, from) == [cards EXCEPT ![c].to = from]

supersedeRateCard(c, from) ==
  /\ Len(cards) < room.cards
  /\ cards' = Append(closedAt(c, from), [from |-> from, to |-> Never])
  /\ ended' = Append([ended EXCEPT ![c] = lower(@, from)], Never)
  /\ LET irregular == cards[c].to # Never \/ from < cards[c].from \/ c \in loose
     IN loose' = IF irregular THEN loose \union {c, Len(cards) + 1} ELSE loose
  /\ reopened' = IF from > cards[c].to THEN reopened \union {c} ELSE reopened
  /\ UNCHANGED <<room, now, params, tx, overlapped>>

retireRateCard(c) ==
  /\ cards' = [cards EXCEPT ![c].to = now]
  /\ ended' = [ended EXCEPT ![c] = lower(@, now)]
  /\ UNCHANGED <<room, now, params, tx, loose, reopened, overlapped>>

-----------------------------------------------------------------------------
(* Pricing parameters.                                                       *)

openParams == {p \in rows(params) : params[p].to = Never}

\* The transaction stamps its rows with the time it starts at.
beginSet(t) ==
  /\ Len(params) < room.params
  /\ opens(t, "set", now, Never)
  /\ overlapped' = (overlapped \/ others(t, {"set", "closed"}) # {})
  /\ UNCHANGED <<room, now, cards, params, ended, loose, reopened>>

\* Its UPDATE closes every open row committed by then.  The rows it finds are
\* locked until it commits; it waits for those another has locked, which are
\* closed when it gets them, and what is inserted meanwhile it does not see.
closeParams(t) ==
  /\ tx[t].op = "set"
  /\ LET holders == {x \in others(t, {"closed"}) : tx[x].seen # {}}
         locked == UNION {tx[x].seen : x \in holders}
     IN tx' = [tx EXCEPT ![t].op = "closed", ![t].seen = openParams \ locked, ![t].waits = holders]
  /\ UNCHANGED <<room, now, cards, params, ended, loose, reopened, overlapped>>

\* The rows an UPDATE at `from` has closed.
closedParams(seen, from) ==
  [p \in rows(params) |-> IF p \in seen THEN [params[p] EXCEPT !.to = from] ELSE params[p]]

\* Mutant of appended: inserted first, and closed with the others.
insertedThenClosed(seen, from) == Append(closedParams(seen, from), [from |-> from, to |-> from])

appended(seen, from) == Append(closedParams(seen, from), [from |-> from, to |-> Never])

insertParams(t) ==
  /\ tx[t].op = "closed" /\ tx[t].waits = {} /\ Len(params) < room.params
  /\ params' = appended(tx[t].seen, tx[t].from)
  /\ closes(t)
  /\ UNCHANGED <<room, now, cards, ended, loose, reopened, overlapped>>

\* resolveDieselAndParams: the rows in force, the one that started last first.
\* A row that closes at this very instant still counts.
live == {p \in rows(params) : params[p].from <= now /\ params[p].to >= now}
latest(found) == {p \in found : \A q \in found : params[q].from <= params[p].from}
resolved == latest(live)

tick ==
  /\ now < Horizon /\ now' = now + 1
  /\ UNCHANGED <<room, cards, params, tx, ended, loose, reopened, overlapped>>

-----------------------------------------------------------------------------
Next ==
  \/ \E t \in Tx, from \in Time, to \in Time \union {Never} : checkOverlap(t, from, to)
  \/ \E t \in Tx : insertCard(t)
  \/ \E c \in rows(cards), from \in Time : supersedeRateCard(c, from)
  \/ \E c \in rows(cards) : retireRateCard(c)
  \/ \E t \in Tx : beginSet(t) \/ closeParams(t) \/ insertParams(t)
  \/ tick

Spec == Init /\ [][Next]_vars

-----------------------------------------------------------------------------
\* One card prices at a time: of two that a quote could be priced with now, one
\* was inserted while another create was between its check and its insert, or
\* comes of superseding a card that was closed already, had an end, or began
\* after its successor (createRateCard's rate_card_window_overlap, which
\* supersedeRateCard does not repeat).
OnePriceAtATime ==
  \A a, b \in rows(cards) :
    a < b /\ inForce(cards[a]) /\ inForce(cards[b]) => {a, b} \cap loose # {}

\* A card told to stop at some instant prices nothing from then on, however
\* often it is superseded and retired, unless it is superseded once more, as of
\* later, when it has already closed (priceItem: "once superseded, its id must
\* never be able to price a NEW quote at the old value").
SupersededNeverPrices ==
  \A c \in rows(cards) : ended[c] <= now /\ inForce(cards[c]) => c \in reopened

\* Once a tenant has set the parameters, quoting is never refused for want of
\* them, and it uses the row committed last, but where two were being set at
\* once or at the very instant that row was stamped (setPricingParameters: "so
\* the latest effective_from lookup stays correct").
ParametersInForce ==
  params # << >> =>
    /\ resolved # {}
    /\ \A p \in resolved : p = Len(params) \/ overlapped \/ params[p].from = now
=============================================================================
