-------------------------------- MODULE Quotes --------------------------------
(***************************************************************************)
(* The quotes of a booking: staff create and revise them, approve one to   *)
(* send it, and the customer accepts or declines.  Accepting opens the     *)
(* rental contract, whose deposit caps every later deduction.              *)
(*                                                                         *)
(* A handler is one READ COMMITTED transaction that reads a quote without  *)
(* locking it and later updates it by id.  It is split into its reads and  *)
(* its commit.  Two updates of one row are ordered by its row lock, which  *)
(* here is the order of the commits; only an UPDATE with a condition on    *)
(* the row evaluates it again.                                             *)
(***************************************************************************)
EXTENDS Integers

CONSTANTS
  Booking,      \* rentals that are quoted
  NQuote,       \* how many quotes are ever begun (bound)
  Seat,         \* open transactions on quotes: staff or the customer
  None          \* SQL NULL

ASSUME NQuoteAssumption == NQuote \in Nat
ASSUME BookingAssumption == None \notin Booking

\* created_at is the start of the inserting transaction: a quote's id is its
\* place in that order.
Quote == 1..NQuote
NoQuote == 0

VARIABLES
  quote,        \* [status, booking] of each quotation
  contracts,    \* how many rental contracts acceptances of it have opened
  seat          \* the quote transaction open at each seat

quoteVars == <<quote, contracts, seat>>

QuoteStatus == {"absent", "draft", "approved", "accepted", "rejected", "superseded"}
AbsentQuote == [status |-> "absent", booking |-> None]
NoSeat == [step |-> "idle", booking |-> None, fresh |-> NoQuote, target |-> NoQuote,
           victims |-> {}]

QuotesInit ==
  /\ quote = [q \in Quote |-> AbsentQuote]
  /\ contracts = [q \in Quote |-> 0]
  /\ seat = [s \in Seat |-> NoSeat]

begun == {q \in Quote : quote[q].status # "absent" \/ \E s \in Seat : seat[s].fresh = q}
\* The id of the quote of a transaction that begins now: one past the latest.
isNextQuote(q) == (\A p \in begun : p < q) /\ q - 1 \in begun \cup {NoQuote}

quotesOf(b) == {q \in Quote : quote[q].booking = b}
\* orderBy(desc(createdAt)).limit(1); NoQuote if the booking has none.
isLatest(b, q) == /\ q \in quotesOf(b) \cup {NoQuote}
                  /\ \A p \in quotesOf(b) : p <= q

-----------------------------------------------------------------------------
(* POST /quotes.                                                            *)

\* The reads: the booking's latest quote must not have been accepted.
createRead(s) ==
  /\ seat[s] = NoSeat
  /\ \E b \in Booking, q \in Quote, latest \in Quote \cup {NoQuote} :
       /\ isNextQuote(q) /\ isLatest(b, latest)
       /\ latest # NoQuote => quote[latest].status # "accepted"
       /\ seat' = [seat EXCEPT ![s] =
            [NoSeat EXCEPT !.step = "create", !.booking = b, !.fresh = q, !.target = latest]]
  /\ UNCHANGED <<quote, contracts>>

openStatuses == {"draft", "approved", "rejected"}

\* UPDATE ... SET status = 'superseded' begins: the open quotes it finds.
createSupersede(s) ==
  /\ seat[s].step = "create"
  /\ seat' = [seat EXCEPT ![s].step = "insert",
       ![s].victims = IF seat[s].target = NoQuote THEN {}
                      ELSE {q \in quotesOf(seat[s].booking) : quote[q].status \in openStatuses}]
  /\ UNCHANGED <<quote, contracts>>

\* Mutant of superseded: every quote found is superseded, whatever it has
\* become since.
supersededAnyway(s, q) == q \in seat[s].victims

\* A row that another transaction changed while the UPDATE waited for it is
\* tested again.
superseded(s, q) == q \in seat[s].victims /\ quote[q].status \in openStatuses

\* The new revision is inserted; COMMIT.
createCommit(s) ==
  /\ seat[s].step = "insert"
  /\ quote' = [q \in Quote |->
       IF q = seat[s].fresh THEN [status |-> "draft", booking |-> seat[s].booking]
       ELSE IF superseded(s, q) THEN [quote[q] EXCEPT !.status = "superseded"] ELSE quote[q]]
  /\ seat' = [seat EXCEPT ![s] = NoSeat]
  /\ UNCHANGED contracts

-----------------------------------------------------------------------------
(* POST /quotes/:id/revise.                                                 *)

\* Any quote may be the parent, whatever its status.
reviseRead(s) ==
  /\ seat[s] = NoSeat
  /\ \E p, q \in Quote :
       /\ quote[p].status # "absent" /\ isNextQuote(q)
       /\ seat' = [seat EXCEPT ![s] =
            [NoSeat EXCEPT !.step = "revise", !.booking = quote[p].booking,
                           !.fresh = q, !.target = p]]
  /\ UNCHANGED <<quote, contracts>>

reviseCommit(s) ==
  /\ seat[s].step = "revise"
  /\ quote' = [quote EXCEPT ![seat[s].fresh] = [status |-> "draft", booking |-> seat[s].booking],
                            ![seat[s].target].status = "superseded"]
  /\ seat' = [seat EXCEPT ![s] = NoSeat]
  /\ UNCHANGED contracts

-----------------------------------------------------------------------------
(* Approve, accept, decline: a status is read, then written by id.          *)

\* The read and the check of the status it must find.
statusRead(s, step, required) ==
  /\ seat[s] = NoSeat
  /\ \E q \in Quote :
       /\ quote[q].status = required
       /\ seat' = [seat EXCEPT ![s] = [NoSeat EXCEPT !.step = step, !.target = q]]
  /\ UNCHANGED <<quote, contracts>>

statusCommit(s, step, status) ==
  /\ seat[s].step = step
  /\ quote' = [quote EXCEPT ![seat[s].target].status = status]
  /\ seat' = [seat EXCEPT ![s] = NoSeat]

approveQuoteRead(s) == statusRead(s, "approve", "draft")
approveQuoteCommit(s) == statusCommit(s, "approve", "approved") /\ UNCHANGED contracts

\* An expired quote is refused here; expiry only takes acceptances away.
acceptRead(s) == statusRead(s, "accept", "approved")

\* Mutant of acceptCommit: the contract is left to a later transaction.
acceptWithoutContract(s) == statusCommit(s, "accept", "accepted") /\ UNCHANGED contracts

acceptCommit(s) ==
  /\ statusCommit(s, "accept", "accepted")
  /\ contracts' = [contracts EXCEPT ![seat[s].target] = @ + 1]

declineRead(s) == statusRead(s, "decline", "approved")
declineCommit(s) == statusCommit(s, "decline", "rejected") /\ UNCHANGED contracts

-----------------------------------------------------------------------------
\* The quote is settled between the parties: no transaction is open.
quotesRest == /\ \A s \in Seat : seat[s] = NoSeat
              /\ UNCHANGED quoteVars

QuoteStep ==
  \E s \in Seat :
    \/ createRead(s) \/ createSupersede(s) \/ createCommit(s)
    \/ reviseRead(s) \/ reviseCommit(s)
    \/ approveQuoteRead(s) \/ approveQuoteCommit(s)
    \/ acceptRead(s) \/ acceptCommit(s)
    \/ declineRead(s) \/ declineCommit(s)

QuotesNext == QuoteStep \/ quotesRest
QuotesSpec == QuotesInit /\ [][QuotesNext]_quoteVars

-----------------------------------------------------------------------------
SeatRow == [step : {"idle", "create", "insert", "revise", "approve", "accept", "decline"},
            booking : Booking \cup {None}, fresh : Quote \cup {NoQuote},
            target : Quote \cup {NoQuote}, victims : SUBSET Quote]

\* Every variable has its type.
QuotesTypeOK ==
  /\ quote \in [Quote -> [status : QuoteStatus, booking : Booking \cup {None}]]
  /\ contracts \in [Quote -> Nat]
  /\ seat \in [Seat -> SeatRow]

\* Requoting a booking never withdraws a price the customer has accepted, even
\* one accepted after the requote looked (quotes.service.ts:139-147).
AcceptedKept ==
  [][\A s \in Seat, q \in Quote :
       createCommit(s) /\ quote[q].status = "accepted" => quote'[q].status = "accepted"
    ]_quoteVars
=============================================================================
