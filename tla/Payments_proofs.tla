---------------------------- MODULE Payments_proofs ----------------------------
(***************************************************************************)
(* Proofs about Quotes and Payments for any bookings, quotes, payments,    *)
(* invoices and open transactions: rent is charged at an agreed price,     *)
(* invoices are paid by money and change once, a booking is confirmed      *)
(* exactly when its deposit is held, refunds are of money collected, and   *)
(* the deposits are those of DepositAccount.                               *)
(***************************************************************************)
EXTENDS Payments, TLAPS

-----------------------------------------------------------------------------
(* The inductive invariant of the quotes.                                   *)

Inserting == {"create", "insert", "revise"}

\* A quote that a transaction is to insert is nobody else's; one that it is to
\* update exists.
SeatInv ==
  \A s \in Seat :
    /\ seat[s].step \in Inserting =>
         /\ seat[s].fresh \in Quote /\ quote[seat[s].fresh].status = "absent"
         /\ \A r \in Seat \ {s} : seat[r].fresh # seat[s].fresh
    /\ seat[s].step \notin Inserting => seat[s].fresh = NoQuote
    /\ seat[s].step \in {"revise", "approve", "accept", "decline"} =>
         seat[s].target \in Quote /\ quote[seat[s].target].status # "absent"

\* A price the customer accepted has a contract, and keeps it.
AcceptedInv == \A q \in Quote : quote[q].status = "accepted" => contracts[q] > 0

QuotesInv == QuotesTypeOK /\ SeatInv /\ AcceptedInv

-----------------------------------------------------------------------------
LEMMA InitQuotes == QuotesInit => QuotesInv
<1> SUFFICES ASSUME QuotesInit PROVE QuotesInv
  OBVIOUS
<1>1. QuotesTypeOK
  BY DEF QuotesInit, QuotesTypeOK, AbsentQuote, NoSeat, QuoteStatus, SeatRow
<1>2. SeatInv /\ AcceptedInv
  BY DEF QuotesInit, SeatInv, AcceptedInv, AbsentQuote, NoSeat, Inserting
<1> QED BY <1>1, <1>2 DEF QuotesInv

\* A new quote's id has not been used, nor given to another transaction.
LEMMA FreshQuote ==
  ASSUME QuotesTypeOK, NEW q \in Quote, isNextQuote(q)
  PROVE  quote[q].status = "absent" /\ \A s \in Seat : seat[s].fresh # q
<1>1. q \notin begun
  BY DEF isNextQuote, Quote
<1> QED BY <1>1 DEF begun

\* Only the seat that moves has its record changed.
LEMMA SeatMoves ==
  ASSUME QuotesTypeOK, NEW s \in Seat, NEW row \in SeatRow, seat' = [seat EXCEPT ![s] = row]
  PROVE  /\ seat' \in [Seat -> SeatRow] /\ seat'[s] = row
         /\ \A r \in Seat \ {s} : seat'[r] = seat[r]
BY DEF QuotesTypeOK

LEMMA EmptySeat ==
  NoSeat \in SeatRow /\ NoSeat.step = "idle" /\ NoSeat.fresh = NoQuote
BY DEF NoSeat, SeatRow

\* A transaction that begins.
LEMMA SeatBegins ==
  ASSUME QuotesInv, NEW s \in Seat, NEW row \in SeatRow, seat' = [seat EXCEPT ![s] = row],
         UNCHANGED <<quote, contracts>>,
         row.step \in {"create", "revise"} => isNextQuote(row.fresh) /\ row.fresh \in Quote,
         row.step \notin {"create", "revise"} => row.step \notin Inserting /\ row.fresh = NoQuote,
         row.step \in {"revise", "approve", "accept", "decline"} =>
           row.target \in Quote /\ quote[row.target].status # "absent"
  PROVE  QuotesInv'
<1> USE DEF QuotesInv
<1>1. /\ seat' \in [Seat -> SeatRow] /\ seat'[s] = row
      /\ \A r \in Seat \ {s} : seat'[r] = seat[r]
  BY SeatMoves
<1>2. QuotesTypeOK' /\ AcceptedInv'
  BY <1>1 DEF QuotesTypeOK, AcceptedInv
<1>3. row.step \in {"create", "revise"} =>
        /\ quote[row.fresh].status = "absent" /\ \A r \in Seat : seat[r].fresh # row.fresh
  BY FreshQuote
<1>4. NoQuote \notin Quote
  BY DEF Quote, NoQuote
<1>5. SeatInv'
  <2>1. ASSUME NEW r \in Seat \ {s} PROVE
          /\ seat'[r].step \in Inserting =>
               /\ seat'[r].fresh \in Quote /\ quote'[seat'[r].fresh].status = "absent"
               /\ \A x \in Seat \ {r} : seat'[x].fresh # seat'[r].fresh
          /\ seat'[r].step \notin Inserting => seat'[r].fresh = NoQuote
          /\ seat'[r].step \in {"revise", "approve", "accept", "decline"} =>
               seat'[r].target \in Quote /\ quote'[seat'[r].target].status # "absent"
    BY <1>1, <1>3, <1>4 DEF SeatInv
  <2>2. /\ seat'[s].step \in Inserting =>
             /\ seat'[s].fresh \in Quote /\ quote'[seat'[s].fresh].status = "absent"
             /\ \A x \in Seat \ {s} : seat'[x].fresh # seat'[s].fresh
        /\ seat'[s].step \notin Inserting => seat'[s].fresh = NoQuote
        /\ seat'[s].step \in {"revise", "approve", "accept", "decline"} =>
             seat'[s].target \in Quote /\ quote'[seat'[s].target].status # "absent"
    BY <1>1, <1>3 DEF Inserting
  <2> QED BY <2>1, <2>2 DEF SeatInv
<1> QED BY <1>2, <1>5

\* A transaction that commits: it makes quotes, and never unmakes one.
LEMMA SeatEnds ==
  ASSUME QuotesInv, NEW s \in Seat, seat' = [seat EXCEPT ![s] = NoSeat],
         quote' \in [Quote -> [status : QuoteStatus, booking : Booking \cup {None}]],
         contracts' \in [Quote -> Nat], AcceptedInv',
         \A q \in Quote : quote'[q].status = "absent" <=> quote[q].status = "absent" /\ ~(seat[s].step \in Inserting /\ q = seat[s].fresh)
  PROVE  QuotesInv'
<1> USE DEF QuotesInv
<1>1. /\ seat' \in [Seat -> SeatRow] /\ seat'[s] = NoSeat
      /\ \A r \in Seat \ {s} : seat'[r] = seat[r]
  BY SeatMoves, EmptySeat
<1>2. QuotesTypeOK'
  BY <1>1 DEF QuotesTypeOK
<1>3. NoQuote \notin Quote
  BY DEF Quote, NoQuote
<1>4. SeatInv'
  <2>1. ASSUME NEW r \in Seat \ {s} PROVE
          /\ seat'[r].step \in Inserting =>
               /\ seat'[r].fresh \in Quote /\ quote'[seat'[r].fresh].status = "absent"
               /\ \A x \in Seat \ {r} : seat'[x].fresh # seat'[r].fresh
          /\ seat'[r].step \notin Inserting => seat'[r].fresh = NoQuote
          /\ seat'[r].step \in {"revise", "approve", "accept", "decline"} =>
               seat'[r].target \in Quote /\ quote'[seat'[r].target].status # "absent"
    BY <1>1, <1>3, EmptySeat DEF SeatInv
  <2>2. seat'[s].step = "idle" /\ seat'[s].fresh = NoQuote
    BY <1>1, EmptySeat
  <2> QED BY <2>1, <2>2 DEF SeatInv, Inserting
<1> QED BY <1>2, <1>4

LEMMA CreateReadStep ==
  ASSUME QuotesInv, NEW s \in Seat, createRead(s)
  PROVE  QuotesInv'
<1>1. PICK b \in Booking, q \in Quote, latest \in Quote \cup {NoQuote} :
        /\ isNextQuote(q)
        /\ seat' = [seat EXCEPT ![s] =
             [NoSeat EXCEPT !.step = "create", !.booking = b, !.fresh = q, !.target = latest]]
  BY DEF createRead
<1> DEFINE row == [NoSeat EXCEPT !.step = "create", !.booking = b, !.fresh = q, !.target = latest]
<1>2. row \in SeatRow /\ row.step = "create" /\ row.fresh = q
  BY DEF NoSeat, SeatRow
<1>3. UNCHANGED <<quote, contracts>>
  BY DEF createRead
<1> HIDE DEF row
<1>4. seat' = [seat EXCEPT ![s] = row]
  BY <1>1 DEF row
<1> QED BY <1>1, <1>2, <1>3, <1>4, SeatBegins DEF Inserting

LEMMA ReviseReadStep ==
  ASSUME QuotesInv, NEW s \in Seat, reviseRead(s)
  PROVE  QuotesInv'
<1>1. PICK p \in Quote, q \in Quote :
        /\ quote[p].status # "absent" /\ isNextQuote(q)
        /\ seat' = [seat EXCEPT ![s] =
             [NoSeat EXCEPT !.step = "revise", !.booking = quote[p].booking, !.fresh = q, !.target = p]]
  BY DEF reviseRead
<1> DEFINE row == [NoSeat EXCEPT !.step = "revise", !.booking = quote[p].booking, !.fresh = q, !.target = p]
<1>2. row \in SeatRow /\ row.step = "revise" /\ row.fresh = q /\ row.target = p
  BY DEF NoSeat, SeatRow, QuotesInv, QuotesTypeOK
<1>3. UNCHANGED <<quote, contracts>>
  BY DEF reviseRead
<1> HIDE DEF row
<1>4. seat' = [seat EXCEPT ![s] = row]
  BY <1>1 DEF row
<1> QED BY <1>1, <1>2, <1>3, <1>4, SeatBegins DEF Inserting

LEMMA StatusReadStep ==
  ASSUME QuotesInv, NEW s \in Seat, NEW step \in {"approve", "accept", "decline"},
         NEW required \in {"draft", "approved"}, statusRead(s, step, required)
  PROVE  QuotesInv'
<1>1. PICK q \in Quote :
        /\ quote[q].status = required
        /\ seat' = [seat EXCEPT ![s] = [NoSeat EXCEPT !.step = step, !.target = q]]
  BY DEF statusRead
<1> DEFINE row == [NoSeat EXCEPT !.step = step, !.target = q]
<1>2. row \in SeatRow /\ row.step = step /\ row.fresh = NoQuote /\ row.target = q
  BY DEF NoSeat, SeatRow
<1>3. UNCHANGED <<quote, contracts>>
  BY DEF statusRead
<1> HIDE DEF row
<1>4. seat' = [seat EXCEPT ![s] = row]
  BY <1>1 DEF row
<1> QED BY <1>1, <1>2, <1>3, <1>4, SeatBegins DEF Inserting

LEMMA SupersedeStep ==
  ASSUME QuotesInv, NEW s \in Seat, createSupersede(s)
  PROVE  QuotesInv'
<1> USE DEF QuotesInv
<1>1. PICK V \in SUBSET Quote :
        seat' = [seat EXCEPT ![s].step = "insert", ![s].victims = V]
  BY DEF createSupersede, quotesOf
<1>2. seat[s].step = "create" /\ UNCHANGED <<quote, contracts>>
  BY DEF createSupersede
<1>3. /\ seat' \in [Seat -> SeatRow]
      /\ seat'[s].step = "insert" /\ seat'[s].fresh = seat[s].fresh
      /\ \A r \in Seat \ {s} : seat'[r] = seat[r]
  BY <1>1 DEF QuotesTypeOK, SeatRow
<1>4. QuotesTypeOK' /\ AcceptedInv'
  BY <1>2, <1>3 DEF QuotesTypeOK, AcceptedInv
<1>5. SeatInv'
  <2>1. \A r \in Seat : seat'[r].fresh = seat[r].fresh
    BY <1>3
  <2> QED BY <1>2, <1>3, <2>1 DEF SeatInv, Inserting
<1> QED BY <1>4, <1>5

LEMMA CreateCommitStep ==
  ASSUME QuotesInv, NEW s \in Seat, createCommit(s)
  PROVE  QuotesInv'
<1> USE DEF QuotesInv
<1>1. /\ seat[s].step = "insert" /\ seat' = [seat EXCEPT ![s] = NoSeat] /\ UNCHANGED contracts
      /\ quote' = [q \in Quote |->
           IF q = seat[s].fresh THEN [status |-> "draft", booking |-> seat[s].booking]
           ELSE IF superseded(s, q) THEN [quote[q] EXCEPT !.status = "superseded"] ELSE quote[q]]
  BY DEF createCommit
<1>2. seat[s] \in SeatRow /\ \A q \in Quote : quote[q] \in [status : QuoteStatus, booking : Booking \cup {None}]
  BY DEF QuotesTypeOK
<1>3. quote' \in [Quote -> [status : QuoteStatus, booking : Booking \cup {None}]]
  BY <1>1, <1>2 DEF SeatRow, QuoteStatus
<1>4. \A q \in Quote : \/ q = seat[s].fresh /\ quote'[q].status = "draft"
                       \/ q # seat[s].fresh /\ quote'[q] = quote[q]
                       \/ q # seat[s].fresh /\ quote'[q].status = "superseded" /\ quote[q].status # "absent"
  BY <1>1, <1>2 DEF superseded, openStatuses
<1>5. AcceptedInv'
  BY <1>1, <1>4 DEF AcceptedInv
<1> QED BY <1>1, <1>3, <1>4, <1>5, SeatEnds DEF Inserting, QuotesTypeOK

LEMMA ReviseCommitStep ==
  ASSUME QuotesInv, NEW s \in Seat, reviseCommit(s)
  PROVE  QuotesInv'
<1> USE DEF QuotesInv
<1>1. /\ seat[s].step = "revise" /\ seat' = [seat EXCEPT ![s] = NoSeat] /\ UNCHANGED contracts
      /\ quote' = [quote EXCEPT ![seat[s].fresh] = [status |-> "draft", booking |-> seat[s].booking],
                                ![seat[s].target].status = "superseded"]
  BY DEF reviseCommit
<1>2. /\ seat[s].booking \in Booking \cup {None}
      /\ seat[s].fresh \in Quote /\ quote[seat[s].fresh].status = "absent"
      /\ seat[s].target \in Quote /\ quote[seat[s].target].status # "absent"
  BY <1>1 DEF QuotesTypeOK, SeatRow, SeatInv, Inserting
<1>3. \A q \in Quote : \/ q = seat[s].fresh /\ quote'[q].status = "draft"
                       \/ q = seat[s].target /\ quote'[q].status = "superseded"
                       \/ q # seat[s].fresh /\ q # seat[s].target /\ quote'[q] = quote[q]
  BY <1>1, <1>2 DEF QuotesTypeOK
<1>4. quote' \in [Quote -> [status : QuoteStatus, booking : Booking \cup {None}]]
  BY <1>1, <1>2 DEF QuotesTypeOK, QuoteStatus
<1>5. AcceptedInv'
  BY <1>1, <1>3 DEF AcceptedInv, QuotesTypeOK
<1>6. \A q \in Quote : quote'[q].status = "absent" <=> quote[q].status = "absent" /\ q # seat[s].fresh
  BY <1>2, <1>3 DEF QuotesTypeOK
<1> QED BY <1>1, <1>4, <1>5, <1>6, SeatEnds DEF Inserting, QuotesTypeOK

LEMMA StatusCommitStep ==
  ASSUME QuotesInv, NEW s \in Seat,
         \/ approveQuoteCommit(s) \/ acceptCommit(s) \/ declineCommit(s)
  PROVE  QuotesInv'
<1> USE DEF QuotesInv
<1>1. PICK step \in {"approve", "accept", "decline"}, status \in QuoteStatus :
        /\ statusCommit(s, step, status) /\ status # "absent"
        /\ status = "accepted" => contracts' = [contracts EXCEPT ![seat[s].target] = contracts[seat[s].target] + 1]
        /\ status # "accepted" => UNCHANGED contracts
  BY DEF approveQuoteCommit, acceptCommit, declineCommit, QuoteStatus, statusCommit
<1>2. /\ seat[s].step = step /\ seat' = [seat EXCEPT ![s] = NoSeat]
      /\ quote' = [quote EXCEPT ![seat[s].target].status = status]
  BY <1>1 DEF statusCommit
<1>3. seat[s].target \in Quote /\ quote[seat[s].target].status # "absent" /\ seat[s].step \notin Inserting
  BY <1>2 DEF SeatInv, Inserting
<1>4. /\ quote' \in [Quote -> [status : QuoteStatus, booking : Booking \cup {None}]]
      /\ quote'[seat[s].target].status = status
      /\ \A q \in Quote : q # seat[s].target => quote'[q] = quote[q]
  BY <1>2, <1>3 DEF QuotesTypeOK
<1>5. /\ contracts' \in [Quote -> Nat]
      /\ \A q \in Quote : contracts'[q] >= contracts[q]
      /\ status = "accepted" => contracts'[seat[s].target] > 0
  BY <1>1, <1>3 DEF QuotesTypeOK
<1>6. AcceptedInv'
  BY <1>4, <1>5 DEF AcceptedInv, QuotesTypeOK
<1>7. \A q \in Quote : quote'[q].status = "absent" <=> quote[q].status = "absent"
  BY <1>1, <1>3, <1>4
<1> QED BY <1>2, <1>3, <1>4, <1>5, <1>6, <1>7, SeatEnds

LEMMA QuoteStepInv ==
  ASSUME QuotesInv, QuoteStep
  PROVE  QuotesInv'
<1>1. PICK s \in Seat :
    \/ createRead(s) \/ createSupersede(s) \/ createCommit(s)
    \/ reviseRead(s) \/ reviseCommit(s)
    \/ approveQuoteRead(s) \/ approveQuoteCommit(s)
    \/ acceptRead(s) \/ acceptCommit(s)
    \/ declineRead(s) \/ declineCommit(s)
  BY DEF QuoteStep
<1>2. CASE approveQuoteRead(s) \/ acceptRead(s) \/ declineRead(s)
  BY <1>2, StatusReadStep DEF approveQuoteRead, acceptRead, declineRead
<1> QED BY <1>1, <1>2, CreateReadStep, SupersedeStep, CreateCommitStep, ReviseReadStep, ReviseCommitStep,
           StatusCommitStep

\* No contract is withdrawn.
LEMMA ContractsGrow ==
  ASSUME QuotesInv, QuoteStep
  PROVE  \A q \in Quote : contracts'[q] >= contracts[q]
<1>1. contracts \in [Quote -> Nat]
  BY DEF QuotesInv, QuotesTypeOK
<1>2. PICK s \in Seat : UNCHANGED contracts \/ acceptCommit(s)
  BY DEF QuoteStep, createRead, createSupersede, createCommit, reviseRead, reviseCommit, approveQuoteRead,
         acceptRead, declineRead, statusRead, approveQuoteCommit, declineCommit
<1>3. CASE acceptCommit(s)
  <2>1. PICK target : contracts' = [contracts EXCEPT ![target] = contracts[target] + 1]
    BY <1>3 DEF acceptCommit
  <2> QED BY <1>1, <2>1
<1> QED BY <1>1, <1>2, <1>3

-----------------------------------------------------------------------------
(* The inductive invariant of the payments.                                 *)

\* The payments row x will insert is nobody else's.
reserved(t, x) ==
  \A r \in Till \ {t} : ~(till[r].step \in inserting /\ till[r].payment = x.payment)

\* What an open transaction x of till t has read and is still true.
tillOK(t, x) ==
  /\ x.step \in inserting =>
       /\ x.payment \in Payment
       /\ \/ payment[x.payment] = AbsentPayment /\ reserved(t, x)
          \/ /\ x.step = "receipt" /\ payment[x.payment].status # "absent"
             /\ payment[x.payment].invoice = x.invoice
  /\ x.step \in {"settle", "fail"} => x.payment \in Payment /\ payment[x.payment].status # "absent"
  /\ x.step = "settle" => session[x.payment] = "collected"
  /\ x.step = "receipt" => x.invoice \in Invoice /\ invoice[x.invoice].status # "absent"
  /\ x.step = "found" /\ x.invoice # NoInvoice => invoice[x.invoice].status # "absent"
  /\ x.step \in {"quoted", "priced"} \/ (x.step = "found" /\ x.invoice = NoInvoice) =>
       x.booking \in called /\ (x.quote # NoQuote => contracts[x.quote] > 0)

TillInv == \A t \in Till : tillOK(t, till[t])

\* A payments row that exists is of an invoice that exists.
LedgerInv ==
  \A p \in Payment :
    /\ payment[p].status = "absent" => payment[p] = AbsentPayment
    /\ payment[p].status # "absent" =>
         payment[p].invoice \in Invoice /\ invoice[payment[p].invoice].status # "absent"

PaymentsInv == /\ QuotesInv /\ PaymentsTypeOK /\ TillInv /\ LedgerInv
               /\ ChargedPriceAgreed /\ PaidByMoney

LEMMA EmptyTill == NoTill \in TillRow /\ NoTill.step = "idle"
BY DEF NoTill, TillRow

LEMMA InitPayments == PaymentsInit => PaymentsInv
<1> SUFFICES ASSUME PaymentsInit PROVE PaymentsInv
  OBVIOUS
<1>1. QuotesInv
  BY InitQuotes DEF PaymentsInit
<1>2. AbsentInvoice \in InvoiceRow /\ AbsentPayment \in PaymentRow
  BY DEF AbsentInvoice, AbsentPayment, InvoiceRow, InvoiceType, PaymentRow
<1>3. PaymentsTypeOK
  BY <1>1, <1>2, EmptyTill DEF QuotesInv, PaymentsInit, PaymentsTypeOK
<1>4. TillInv
  BY DEF PaymentsInit, TillInv, tillOK, NoTill, inserting
<1>5. LedgerInv /\ ChargedPriceAgreed /\ PaidByMoney
  BY DEF PaymentsInit, LedgerInv, ChargedPriceAgreed, PaidByMoney, AbsentPayment, AbsentInvoice
<1> QED BY <1>1, <1>3, <1>4, <1>5 DEF PaymentsInv

\* The quotes move on: no contract is withdrawn from under a checkout.
LEMMA QuotesMoveStep ==
  ASSUME PaymentsInv, QuoteStep, UNCHANGED payVars
  PROVE  PaymentsInv'
<1> USE DEF PaymentsInv
<1>1. QuotesInv'
  BY QuoteStepInv
<1>2. /\ UNCHANGED <<called, confirmed, invoice, payment, session, attemptFailed, refund, refundRows, till>>
      /\ \A q \in Quote : contracts[q] > 0 => contracts'[q] > 0
  BY <1>1, ContractsGrow DEF payVars, QuotesInv, QuotesTypeOK
<1>3. PaymentsTypeOK'
  BY <1>1, <1>2 DEF PaymentsTypeOK, QuotesInv
<1>4. TillInv'
  BY <1>2 DEF TillInv, tillOK, reserved, PaymentsTypeOK, TillRow
<1>5. LedgerInv' /\ PaidByMoney'
  BY <1>2 DEF LedgerInv, PaidByMoney, backed
<1>6. ChargedPriceAgreed'
  BY <1>2 DEF ChargedPriceAgreed, PaymentsTypeOK, InvoiceRow
<1> QED BY <1>1, <1>3, <1>4, <1>5, <1>6

\* A transaction reads on, and nothing is written.
LEMMA TillReads ==
  ASSUME PaymentsInv, UNCHANGED quoteVars, NEW t \in Till, NEW row \in TillRow,
         goes(t, row), UNCHANGED <<cashVars, providerVars, refundRows>>, tillOK(t, row)
  PROVE  PaymentsInv'
<1> USE DEF PaymentsInv
<1>1. /\ till' \in [Till -> TillRow] /\ till'[t] = row
      /\ \A r \in Till \ {t} : till'[r] = till[r]
  BY DEF goes, PaymentsTypeOK
<1>2. UNCHANGED <<quote, contracts, seat, called, confirmed, invoice, payment, session, attemptFailed,
                  refund, refundRows>>
  BY DEF quoteVars, cashVars, providerVars
<1>3. QuotesInv' /\ PaymentsTypeOK'
  BY <1>1, <1>2 DEF PaymentsTypeOK, QuotesInv, QuotesTypeOK, SeatInv, AcceptedInv
<1>4. LedgerInv' /\ PaidByMoney' /\ ChargedPriceAgreed'
  BY <1>2 DEF LedgerInv, PaidByMoney, backed, ChargedPriceAgreed
<1>5. TillInv'
  <2>1. \A r \in Till \ {t} : /\ tillOK(r, till[r])
                              /\ payment[till[r].payment] = AbsentPayment /\ till[r].step \in inserting /\ row.step \in inserting
                                   => till[r].payment # row.payment
    BY DEF TillInv, tillOK, reserved, AbsentPayment
  <2>2. \A r \in Till \ {t} : tillOK(r, till[r])'
    BY <1>1, <1>2, <2>1 DEF tillOK, reserved
  <2>3. tillOK(t, row)'
    BY <1>1, <1>2 DEF tillOK, reserved
  <2> QED BY <1>1, <2>2, <2>3 DEF TillInv
<1> QED BY <1>3, <1>4, <1>5

-----------------------------------------------------------------------------
(* The steps of a transaction before its commit.                            *)

\* A new payment's id has not been used, nor given to another transaction.
LEMMA FreshPayment ==
  ASSUME PaymentsInv, NEW p \in Payment, isNextPayment(p)
  PROVE  /\ payment[p] = AbsentPayment
         /\ \A t \in Till : ~(till[t].step \in inserting /\ till[t].payment = p)
<1>1. p \notin paymentsBegun
  BY DEF isNextPayment, Payment
<1>2. payment[p].status = "absent" /\ \A t \in Till : ~(till[t].step \in inserting /\ till[t].payment = p)
  BY <1>1 DEF paymentsBegun
<1> QED BY <1>2 DEF PaymentsInv, LedgerInv

LEMMA CheckoutReadStep ==
  ASSUME PaymentsInv, UNCHANGED quoteVars, NEW t \in Till, checkoutRead(t)
  PROVE  PaymentsInv'
<1>1. PICK b \in called, q \in Quote \cup {NoQuote}, p \in Payment :
        /\ agreedPrice(q) /\ isNextPayment(p)
        /\ goes(t, [NoTill EXCEPT !.step = "quoted", !.booking = b, !.quote = q, !.payment = p])
  BY DEF checkoutRead
<1> DEFINE row == [NoTill EXCEPT !.step = "quoted", !.booking = b, !.quote = q, !.payment = p]
<1>2. row \in TillRow /\ row.step = "quoted" /\ row.booking = b /\ row.quote = q /\ row.payment = p
  BY DEF NoTill, TillRow, PaymentsInv, PaymentsTypeOK
<1>3. UNCHANGED <<cashVars, providerVars, refundRows>>
  BY DEF checkoutRead
<1> HIDE DEF row
<1>4. goes(t, row)
  BY <1>1 DEF row
<1>5. q # NoQuote => contracts[q] > 0
  BY <1>1 DEF agreedPrice, PaymentsInv, QuotesInv, AcceptedInv
<1>6. tillOK(t, row)
  BY <1>1, <1>2, <1>5, FreshPayment DEF tillOK, reserved
<1> QED BY <1>2, <1>3, <1>4, <1>6, TillReads

LEMMA CheckoutPriceStep ==
  ASSUME PaymentsInv, UNCHANGED quoteVars, NEW t \in Till, checkoutPrice(t)
  PROVE  PaymentsInv'
<1>1. PICK d \in BOOLEAN : goes(t, [till[t] EXCEPT !.step = "priced", !.deposit = d])
  BY DEF checkoutPrice
<1> DEFINE row == [till[t] EXCEPT !.step = "priced", !.deposit = d]
<1>2. till[t] \in TillRow /\ till[t].step = "quoted" /\ tillOK(t, till[t])
  BY DEF checkoutPrice, PaymentsInv, PaymentsTypeOK, TillInv
<1>3. /\ row \in TillRow /\ row.step = "priced" /\ row.booking = till[t].booking
      /\ row.quote = till[t].quote /\ row.payment = till[t].payment
  BY <1>2 DEF TillRow
<1>4. UNCHANGED <<cashVars, providerVars, refundRows>>
  BY DEF checkoutPrice
<1> HIDE DEF row
<1>5. goes(t, row)
  BY <1>1 DEF row
<1>6. tillOK(t, row)
  BY <1>2, <1>3 DEF tillOK, reserved, inserting
<1> QED BY <1>3, <1>4, <1>5, <1>6, TillReads

LEMMA CheckoutFindStep ==
  ASSUME PaymentsInv, UNCHANGED quoteVars, NEW t \in Till, checkoutFind(t)
  PROVE  PaymentsInv'
<1>1. PICK i \in Invoice \cup {NoInvoice} :
        /\ i = NoInvoice \/ invoice[i].status = "issued"
        /\ goes(t, [till[t] EXCEPT !.step = "found", !.invoice = i])
  BY DEF checkoutFind, invoicesOf
<1> DEFINE row == [till[t] EXCEPT !.step = "found", !.invoice = i]
<1>2. till[t] \in TillRow /\ till[t].step = "priced" /\ tillOK(t, till[t])
  BY DEF checkoutFind, PaymentsInv, PaymentsTypeOK, TillInv
<1>3. /\ row \in TillRow /\ row.step = "found" /\ row.booking = till[t].booking
      /\ row.quote = till[t].quote /\ row.payment = till[t].payment /\ row.invoice = i
  BY <1>2 DEF TillRow
<1>4. UNCHANGED <<cashVars, providerVars, refundRows>>
  BY DEF checkoutFind
<1> HIDE DEF row
<1>5. goes(t, row)
  BY <1>1 DEF row
<1>6. tillOK(t, row)
  BY <1>1, <1>2, <1>3 DEF tillOK, reserved, inserting
<1> QED BY <1>3, <1>4, <1>5, <1>6, TillReads

LEMMA CheckoutInvoiceStep ==
  ASSUME PaymentsInv, UNCHANGED quoteVars, NEW t \in Till, checkoutInvoice(t)
  PROVE  PaymentsInv'
<1>1. PICK i \in Invoice, p \in Payment :
        /\ invoice[i].status = "issued" /\ isNextPayment(p)
        /\ goes(t, [NoTill EXCEPT !.step = "found", !.invoice = i, !.payment = p])
  BY DEF checkoutInvoice
<1> DEFINE row == [NoTill EXCEPT !.step = "found", !.invoice = i, !.payment = p]
<1>2. row \in TillRow /\ row.step = "found" /\ row.invoice = i /\ row.payment = p
  BY DEF NoTill, TillRow
<1>3. UNCHANGED <<cashVars, providerVars, refundRows>>
  BY DEF checkoutInvoice
<1> HIDE DEF row
<1>4. goes(t, row)
  BY <1>1 DEF row
<1>5. i # NoInvoice
  BY DEF Invoice, NoInvoice
<1>6. tillOK(t, row)
  BY <1>1, <1>2, <1>5, FreshPayment DEF tillOK, reserved
<1> QED BY <1>2, <1>3, <1>4, <1>6, TillReads

\* A refused checkout leaves nothing behind.
LEMMA CheckoutRefusedStep ==
  ASSUME PaymentsInv, UNCHANGED quoteVars, NEW t \in Till, checkoutRefused(t)
  PROVE  PaymentsInv'
<1>1. goes(t, NoTill) /\ UNCHANGED <<cashVars, providerVars, refundRows>>
  BY DEF checkoutRefused
<1>2. tillOK(t, NoTill)
  BY EmptyTill DEF tillOK, inserting
<1> QED BY <1>1, <1>2, EmptyTill, TillReads

\* PayMongo's webhook and the return check find a session that was paid.
LEMMA SettleReadStep ==
  ASSUME PaymentsInv, UNCHANGED quoteVars, NEW t \in Till,
         confirmPayment(t) \/ \E p \in Payment : webhookPaid(t, p)
  PROVE  PaymentsInv'
<1>1. PICK p \in Payment :
        /\ payment[p].status # "absent" /\ session[p] = "collected"
        /\ goes(t, [NoTill EXCEPT !.step = "settle", !.payment = p])
        /\ UNCHANGED <<cashVars, providerVars, refundRows>>
  BY DEF confirmPayment, webhookPaid, settles, isLatestIn, pendingOf
<1> DEFINE row == [NoTill EXCEPT !.step = "settle", !.payment = p]
<1>2. row \in TillRow /\ row.step = "settle" /\ row.payment = p
  BY DEF NoTill, TillRow
<1> HIDE DEF row
<1>3. goes(t, row)
  BY <1>1 DEF row
<1>4. tillOK(t, row)
  BY <1>1, <1>2 DEF tillOK, inserting
<1> QED BY <1>1, <1>2, <1>3, <1>4, TillReads

LEMMA WebhookFailedStep ==
  ASSUME PaymentsInv, UNCHANGED quoteVars, NEW t \in Till, webhookFailed(t)
  PROVE  PaymentsInv'
<1>1. PICK p \in Payment :
        /\ payment[p].status # "absent"
        /\ goes(t, [NoTill EXCEPT !.step = "fail", !.payment = p])
        /\ UNCHANGED <<cashVars, providerVars, refundRows>>
  BY DEF webhookFailed, isLatestIn, pendingOf
<1> DEFINE row == [NoTill EXCEPT !.step = "fail", !.payment = p]
<1>2. row \in TillRow /\ row.step = "fail" /\ row.payment = p
  BY DEF NoTill, TillRow
<1> HIDE DEF row
<1>3. goes(t, row)
  BY <1>1 DEF row
<1>4. tillOK(t, row)
  BY <1>1, <1>2 DEF tillOK, inserting
<1> QED BY <1>1, <1>2, <1>3, <1>4, TillReads

LEMMA RecordCashReadStep ==
  ASSUME PaymentsInv, UNCHANGED quoteVars, NEW t \in Till, recordCashRead(t)
  PROVE  PaymentsInv'
<1>1. PICK i \in Invoice, p \in Payment :
        /\ invoice[i].status = "issued"
        /\ isNextPayment(p) \/ (payment[p].status # "absent" /\ payment[p].invoice = i)
        /\ goes(t, [NoTill EXCEPT !.step = "receipt", !.invoice = i, !.payment = p])
  BY DEF recordCashRead, pendingCash, pendingOf
<1> DEFINE row == [NoTill EXCEPT !.step = "receipt", !.invoice = i, !.payment = p]
<1>2. row \in TillRow /\ row.step = "receipt" /\ row.invoice = i /\ row.payment = p
  BY DEF NoTill, TillRow
<1>3. UNCHANGED <<cashVars, providerVars, refundRows>>
  BY DEF recordCashRead
<1> HIDE DEF row
<1>4. goes(t, row)
  BY <1>1 DEF row
<1>5. tillOK(t, row)
  BY <1>1, <1>2, FreshPayment DEF tillOK, reserved
<1> QED BY <1>2, <1>3, <1>4, <1>5, TillReads

-----------------------------------------------------------------------------
(* The commits.                                                             *)

\* Till t commits: it writes the payments row p, which it reserved or which
\* exists, and takes no invoice back.
LEMMA CommitTill ==
  ASSUME PaymentsInv, UNCHANGED <<contracts, called>>, NEW t \in Till, goes(t, NoTill), NEW p \in Payment,
         \A x \in Payment \ {p} : payment'[x] = payment[x] /\ session'[x] = session[x],
         payment'[p].status # "absent",
         payment[p].status # "absent" =>
           payment'[p].invoice = payment[p].invoice /\ (session[p] = "collected" => session'[p] = "collected"),
         payment[p].status = "absent" => till[t].step \in inserting /\ till[t].payment = p,
         \A i \in Invoice : invoice[i].status # "absent" => invoice'[i].status # "absent"
  PROVE  till' \in [Till -> TillRow] /\ TillInv'
<1>1. /\ till' \in [Till -> TillRow] /\ till'[t] = NoTill
      /\ \A r \in Till \ {t} : till'[r] = till[r]
  BY EmptyTill DEF goes, PaymentsInv, PaymentsTypeOK
<1>2. ASSUME NEW r \in Till \ {t} PROVE tillOK(r, till[r])'
  <2>1. tillOK(r, till[r]) /\ till'[r] = till[r] /\ till[r] \in TillRow
    BY <1>1 DEF PaymentsInv, TillInv, PaymentsTypeOK
  <2>2. payment[p].status = "absent" => ~(till[r].step \in inserting /\ till[r].payment = p)
    <3> SUFFICES ASSUME payment[p].status = "absent", till[r].step \in inserting, till[r].payment = p PROVE FALSE
      OBVIOUS
    <3>1. reserved(r, till[r])
      BY <2>1 DEF tillOK
    <3> QED BY <3>1 DEF reserved
  <2>3. till[r].step \in inserting =>
          /\ till[r].payment \in Payment
          /\ \/ payment'[till[r].payment] = AbsentPayment /\ reserved(r, till[r])'
             \/ /\ till[r].step = "receipt" /\ payment'[till[r].payment].status # "absent"
                /\ payment'[till[r].payment].invoice = till[r].invoice
    <3>1. reserved(r, till[r]) => reserved(r, till[r])'
      BY <1>1, EmptyTill DEF reserved, inserting
    <3>2. CASE till[r].payment = p
      BY <2>1, <2>2, <3>2 DEF tillOK, AbsentPayment
    <3>3. CASE till[r].payment # p
      BY <2>1, <3>1, <3>3 DEF tillOK
    <3> QED BY <3>2, <3>3
  <2>4. /\ till[r].step \in {"settle", "fail"} =>
             till[r].payment \in Payment /\ payment'[till[r].payment].status # "absent"
        /\ till[r].step = "settle" => session'[till[r].payment] = "collected"
    BY <2>1 DEF tillOK
  <2>5. /\ till[r].step = "receipt" => till[r].invoice \in Invoice /\ invoice'[till[r].invoice].status # "absent"
        /\ till[r].step = "found" /\ till[r].invoice # NoInvoice => invoice'[till[r].invoice].status # "absent"
    BY <2>1 DEF tillOK, TillRow
  <2>6. till[r].step \in {"quoted", "priced"} \/ (till[r].step = "found" /\ till[r].invoice = NoInvoice) =>
          till[r].booking \in called' /\ (till[r].quote # NoQuote => contracts'[till[r].quote] > 0)
    BY <2>1 DEF tillOK
  <2> QED BY <2>1, <2>3, <2>4, <2>5, <2>6 DEF tillOK
<1>3. tillOK(t, NoTill)'
  BY EmptyTill DEF tillOK, inserting
<1> QED BY <1>1, <1>2, <1>3 DEF TillInv

\* The rows that commit keep the ledger: p is of an invoice that exists.
LEMMA CommitLedger ==
  ASSUME PaymentsInv, NEW p \in Payment,
         \A x \in Payment \ {p} : payment'[x] = payment[x],
         payment'[p].status # "absent",
         payment'[p].invoice \in Invoice /\ invoice'[payment'[p].invoice].status # "absent",
         \A i \in Invoice : invoice[i].status # "absent" => invoice'[i].status # "absent"
  PROVE  LedgerInv'
BY DEF PaymentsInv, LedgerInv

\* What backs an invoice is never taken from it, and only an invoice that is
\* backed becomes paid.
LEMMA CommitPaid ==
  ASSUME PaymentsInv, NEW p \in Payment,
         \A x \in Payment \ {p} : payment'[x] = payment[x] /\ session'[x] = session[x],
         \A i \in Invoice : payment[p].invoice = i => backed(i)',
         \A i \in Invoice : invoice[i].status = "paid" =>
           invoice'[i].status = "paid" /\ invoice'[i].booking = invoice[i].booking /\ invoice'[i].type = invoice[i].type,
         \A i \in Invoice : invoice'[i].status = "paid" => invoice[i].status = "paid" \/ backed(i)',
         \A b \in confirmed' : b \in confirmed \/ \E i \in Invoice :
           invoice'[i].booking = b /\ invoice'[i].status = "paid" /\ invoice'[i].type # "weekly"
  PROVE  PaidByMoney'
<1>1. ASSUME NEW i \in Invoice, invoice[i].status = "paid" PROVE backed(i)'
  <2>1. PICK x \in Payment : /\ payment[x].invoice = i
                            /\ \/ payment[x].proof = "provider" /\ session[x] = "collected"
                               \/ payment[x].proof = "staff"
    BY <1>1 DEF PaymentsInv, PaidByMoney, backed
  <2> QED BY <2>1 DEF backed
<1>2. \A i \in Invoice : invoice'[i].status = "paid" => backed(i)'
  BY <1>1
<1>3. ASSUME NEW b \in confirmed' PROVE \E i \in Invoice :
        invoice'[i].booking = b /\ invoice'[i].status = "paid" /\ invoice'[i].type # "weekly"
  BY <1>3 DEF PaymentsInv, PaidByMoney
<1> QED BY <1>2, <1>3 DEF PaidByMoney

LEMMA QuotesStay ==
  ASSUME QuotesInv, UNCHANGED quoteVars
  PROVE  QuotesInv'
BY DEF quoteVars, QuotesInv, QuotesTypeOK, SeatInv, AcceptedInv

LEMMA CheckoutCommitStep ==
  ASSUME PaymentsInv, UNCHANGED quoteVars, NEW t \in Till, checkoutCommit(t)
  PROVE  PaymentsInv'
<1> USE DEF PaymentsInv
<1> DEFINE issued == [status |-> "issued", booking |-> till[t].booking, type |-> typeFor(till[t].quote),
                      quote |-> till[t].quote, deposit |-> till[t].deposit]
<1>1. PICK i \in Invoice, method \in {"online", "cash"} :
        /\ \/ till[t].invoice # NoInvoice /\ i = till[t].invoice /\ UNCHANGED invoice
           \/ till[t].invoice = NoInvoice /\ isNextInvoice(i) /\ invoice' = [invoice EXCEPT ![i] = issued]
        /\ payment' = [payment EXCEPT ![till[t].payment] = [status |-> "pending", invoice |-> i, method |-> method, proof |-> "none"]]
        /\ session' = IF method = "cash" THEN session ELSE [session EXCEPT ![till[t].payment] = "open"]
  BY DEF checkoutCommit
<1>2. /\ till[t].step = "found" /\ goes(t, NoTill)
      /\ UNCHANGED <<quote, contracts, seat, called, confirmed, attemptFailed, refund, refundRows>>
  BY DEF checkoutCommit, quoteVars
<1>3. till[t] \in TillRow /\ tillOK(t, till[t])
  BY DEF PaymentsTypeOK, TillInv
<1>4. PICK p \in Payment : p = till[t].payment
  BY <1>2, <1>3 DEF tillOK, inserting
<1>5. till[t].step \in inserting
  BY <1>2 DEF inserting
<1>6. payment[p].status = "absent" /\ payment[p].invoice \notin Invoice
  <2>1. payment[p] = AbsentPayment
    BY <1>2, <1>3, <1>4 DEF tillOK, inserting
  <2> QED BY <2>1 DEF AbsentPayment, NoInvoice, Invoice
<1>7. till[t].invoice # NoInvoice => invoice[till[t].invoice].status # "absent"
  BY <1>2, <1>3 DEF tillOK
<1>8. till[t].invoice = NoInvoice =>
        till[t].booking \in called /\ (till[t].quote # NoQuote => contracts[till[t].quote] > 0)
  BY <1>2, <1>3 DEF tillOK
<1>9. issued \in InvoiceRow /\ issued.status = "issued" /\ issued.booking = till[t].booking
      /\ issued.type = typeFor(till[t].quote) /\ issued.quote = till[t].quote
  BY <1>3 DEF InvoiceRow, InvoiceType, TillRow, typeFor
<1> HIDE DEF issued
<1>10. /\ payment' \in [Payment -> PaymentRow] /\ session' \in [Payment -> {"none", "open", "collected", "mismatch"}]
       /\ payment'[p].status # "absent" /\ payment'[p].invoice = i
       /\ \A x \in Payment \ {p} : payment'[x] = payment[x] /\ session'[x] = session[x]
  BY <1>1, <1>4 DEF PaymentsTypeOK, PaymentRow
<1>11. \/ i = till[t].invoice /\ invoice[i].status # "absent" /\ invoice' = invoice
       \/ /\ till[t].invoice = NoInvoice /\ invoice[i].status = "absent"
          /\ invoice' = [invoice EXCEPT ![i] = issued]
  <2>1. isNextInvoice(i) => invoice[i].status = "absent"
    BY DEF isNextInvoice, Invoice
  <2>2. CASE till[t].invoice # NoInvoice
    <3>1. i = till[t].invoice /\ invoice' = invoice
      BY <1>1, <2>2
    <3> QED BY <1>7, <2>2, <3>1
  <2>3. CASE till[t].invoice = NoInvoice
    <3>1. isNextInvoice(i) /\ invoice' = [invoice EXCEPT ![i] = issued]
      BY <1>1, <2>3
    <3> QED BY <2>1, <2>3, <3>1
  <2> QED BY <2>2, <2>3
<1> DEFINE kept(j) == /\ invoice'[j].status = invoice[j].status /\ invoice'[j].booking = invoice[j].booking
                      /\ invoice'[j].type = invoice[j].type /\ invoice'[j].quote = invoice[j].quote
           made(j) == /\ till[t].invoice = NoInvoice /\ invoice[j].status = "absent" /\ invoice'[j].status = "issued"
                      /\ invoice'[j].booking = till[t].booking /\ invoice'[j].type = typeFor(till[t].quote)
                      /\ invoice'[j].quote = till[t].quote
<1>12. /\ invoice' \in [Invoice -> InvoiceRow]
       /\ invoice'[i].status # "absent"
       /\ \A j \in Invoice : kept(j) \/ made(j)
  <2>1. CASE invoice' = invoice /\ invoice[i].status # "absent"
    BY <2>1 DEF PaymentsTypeOK
  <2>2. CASE /\ till[t].invoice = NoInvoice /\ invoice[i].status = "absent"
             /\ invoice' = [invoice EXCEPT ![i] = issued]
    <3>1. /\ invoice' \in [Invoice -> InvoiceRow] /\ invoice'[i] = issued
          /\ \A j \in Invoice \ {i} : invoice'[j] = invoice[j]
      BY <1>9, <2>2 DEF PaymentsTypeOK
    <3>2. made(i)
      <4>1. invoice'[i].status = issued.status /\ invoice'[i].booking = issued.booking
            /\ invoice'[i].type = issued.type /\ invoice'[i].quote = issued.quote
        BY <3>1
      <4> QED BY <1>9, <2>2, <4>1
    <3>3. \A j \in Invoice \ {i} : kept(j)
      BY <3>1
    <3>4. invoice'[i].status # "absent"
      BY <3>2
    <3> QED BY <3>1, <3>2, <3>3, <3>4
  <2> QED BY <1>11, <2>1, <2>2
<1>13. /\ \A j \in Invoice : invoice[j].status # "absent" => invoice'[j].status # "absent"
       /\ \A j \in Invoice : invoice'[j].status = "paid" => invoice[j].status = "paid"
       /\ \A j \in Invoice : invoice[j].status = "paid" =>
            invoice'[j].status = "paid" /\ invoice'[j].booking = invoice[j].booking /\ invoice'[j].type = invoice[j].type
  BY <1>12
<1>14. till' \in [Till -> TillRow] /\ TillInv'
  <2>1. contracts' = contracts /\ called' = called
    BY <1>2
  <2> QED BY <1>2, <1>4, <1>5, <1>6, <1>10, <1>13, <2>1, CommitTill
<1>15. LedgerInv'
  BY <1>10, <1>12, <1>13, CommitLedger
<1>16. PaidByMoney'
  <2>1. \A j \in Invoice : payment[p].invoice # j
    BY <1>6
  <2>2. confirmed' = confirmed
    BY <1>2
  <2> QED BY <1>10, <1>13, <2>1, <2>2, CommitPaid
<1>17. ChargedPriceAgreed'
  <2> SUFFICES ASSUME NEW j \in Invoice, invoice'[j].type \in {"booking", "deposit"}
               PROVE  /\ invoice'[j].booking \in called
                      /\ invoice'[j].type = "booking" =>
                           invoice'[j].quote # NoQuote /\ contracts[invoice'[j].quote] > 0
    BY <1>2 DEF ChargedPriceAgreed
  <2>1. CASE kept(j)
    BY <2>1 DEF ChargedPriceAgreed
  <2>2. CASE made(j)
    <3>1. typeFor(till[t].quote) = "booking" => till[t].quote # NoQuote
      BY DEF typeFor
    <3> QED BY <1>8, <2>2, <3>1
  <2> QED BY <1>12, <2>1, <2>2
<1>18. QuotesInv' /\ PaymentsTypeOK'
  BY <1>2, <1>10, <1>12, <1>14, QuotesStay DEF PaymentsTypeOK, QuotesInv
<1> QED BY <1>14, <1>15, <1>16, <1>17, <1>18

\* A settled invoice: it is paid, and only its status has changed.
LEMMA SettledInvoice ==
  ASSUME PaymentsInv, NEW i \in Invoice, settled(i), invoice[i].status # "absent", UNCHANGED <<called, contracts>>
  PROVE  /\ invoice' \in [Invoice -> InvoiceRow] /\ confirmed' \subseteq Booking
         /\ invoice'[i].status = "paid"
         /\ \A j \in Invoice : invoice'[j].booking = invoice[j].booking /\ invoice'[j].type = invoice[j].type
         /\ \A j \in Invoice \ {i} : invoice'[j].status = invoice[j].status
         /\ \A b \in confirmed' : b \in confirmed \/ \E j \in Invoice :
              invoice'[j].booking = b /\ invoice'[j].status = "paid" /\ invoice'[j].type # "weekly"
         /\ ChargedPriceAgreed'
<1>1. PaymentsTypeOK /\ ChargedPriceAgreed
  BY DEF PaymentsInv
<1>2. invoice' = [invoice EXCEPT ![i].status = "paid"]
  BY DEF settled
<1>3. invoice' \in [Invoice -> InvoiceRow] /\ invoice'[i].status = "paid"
  BY <1>1, <1>2 DEF PaymentsTypeOK, InvoiceRow
<1>4. \A j \in Invoice : invoice'[j].booking = invoice[j].booking /\ invoice'[j].type = invoice[j].type
  BY <1>1, <1>2 DEF PaymentsTypeOK, InvoiceRow
<1>5. \A j \in Invoice : invoice'[j].quote = invoice[j].quote
  BY <1>1, <1>2 DEF PaymentsTypeOK, InvoiceRow
<1>6. \A j \in Invoice \ {i} : invoice'[j].status = invoice[j].status
  BY <1>1, <1>2 DEF PaymentsTypeOK, InvoiceRow
<1>7. called' = called /\ contracts' = contracts
  OBVIOUS
<1>8. ChargedPriceAgreed'
  BY <1>1, <1>4, <1>5, <1>7 DEF ChargedPriceAgreed
<1>9. CASE invoice[i].type \notin {"booking", "deposit"}
  <2>1. confirmed' = confirmed
    BY <1>9 DEF settled
  <2> QED BY <1>1, <1>3, <1>4, <1>6, <1>8, <2>1 DEF PaymentsTypeOK
<1>10. CASE invoice[i].type \in {"booking", "deposit"}
  <2>1. confirmed' = confirmed \cup {invoice[i].booking}
    BY <1>10 DEF settled
  <2>2. invoice[i].booking \in Booking
    BY <1>1, <1>10 DEF ChargedPriceAgreed, PaymentsTypeOK
  <2>3. confirmed' \subseteq Booking
    BY <1>1, <2>1, <2>2 DEF PaymentsTypeOK
  <2>4. invoice'[i].type # "weekly" /\ invoice'[i].booking = invoice[i].booking
    BY <1>4, <1>10
  <2>5. \A b \in confirmed' : b \in confirmed \/ \E j \in Invoice :
          invoice'[j].booking = b /\ invoice'[j].status = "paid" /\ invoice'[j].type # "weekly"
    BY <1>3, <2>1, <2>4
  <2> QED BY <1>3, <1>4, <1>6, <1>8, <2>3, <2>5
<1> QED BY <1>9, <1>10

LEMMA SettleCommitStep ==
  ASSUME PaymentsInv, UNCHANGED quoteVars, NEW t \in Till, settleCommit(t)
  PROVE  PaymentsInv'
<1> USE DEF PaymentsInv
<1>1. /\ till[t].step = "settle" /\ goes(t, NoTill)
      /\ payment' = [payment EXCEPT ![till[t].payment].status = "paid", ![till[t].payment].proof = "provider"]
      /\ settled(payment[till[t].payment].invoice)
      /\ UNCHANGED <<quote, contracts, seat, called, session, attemptFailed, refund, refundRows>>
  BY DEF settleCommit, quoteVars, providerVars
<1>2. PICK p \in Payment : p = till[t].payment /\ payment[p].status # "absent" /\ session[p] = "collected"
  BY <1>1 DEF TillInv, tillOK
<1>3. PICK i \in Invoice : i = payment[p].invoice /\ invoice[i].status # "absent"
  BY <1>2 DEF LedgerInv
<1>4. /\ payment' \in [Payment -> PaymentRow]
      /\ payment'[p].status = "paid" /\ payment'[p].invoice = i /\ payment'[p].proof = "provider"
      /\ \A x \in Payment \ {p} : payment'[x] = payment[x]
  BY <1>1, <1>2, <1>3 DEF PaymentsTypeOK, PaymentRow
<1>5. /\ invoice' \in [Invoice -> InvoiceRow] /\ confirmed' \subseteq Booking
      /\ invoice'[i].status = "paid"
      /\ \A j \in Invoice : invoice'[j].booking = invoice[j].booking /\ invoice'[j].type = invoice[j].type
      /\ \A j \in Invoice \ {i} : invoice'[j].status = invoice[j].status
      /\ \A b \in confirmed' : b \in confirmed \/ \E j \in Invoice :
           invoice'[j].booking = b /\ invoice'[j].status = "paid" /\ invoice'[j].type # "weekly"
      /\ ChargedPriceAgreed'
  BY <1>1, <1>2, <1>3, SettledInvoice
<1>6. till' \in [Till -> TillRow] /\ TillInv'
  BY <1>1, <1>2, <1>3, <1>4, <1>5, CommitTill
<1>7. LedgerInv'
  BY <1>2, <1>3, <1>4, <1>5, CommitLedger
<1>8. backed(i)'
  BY <1>1, <1>2, <1>4 DEF backed
<1>9. PaidByMoney'
  <2>1. \A j \in Invoice : payment[p].invoice = j => backed(j)'
    BY <1>2, <1>3, <1>8
  <2>2. /\ \A j \in Invoice : invoice[j].status = "paid" => invoice'[j].status = "paid"
        /\ \A j \in Invoice : invoice'[j].status = "paid" => invoice[j].status = "paid" \/ backed(j)'
    BY <1>5, <1>8
  <2>3. \A x \in Payment \ {p} : payment'[x] = payment[x] /\ session'[x] = session[x]
    BY <1>1, <1>4
  <2>4. \A j \in Invoice : invoice[j].status = "paid" =>
          invoice'[j].status = "paid" /\ invoice'[j].booking = invoice[j].booking /\ invoice'[j].type = invoice[j].type
    BY <1>5, <2>2
  <2>5. \A b \in confirmed' : b \in confirmed \/ \E j \in Invoice :
          invoice'[j].booking = b /\ invoice'[j].status = "paid" /\ invoice'[j].type # "weekly"
    BY <1>5
  <2> QED BY <2>1, <2>2, <2>3, <2>4, <2>5, CommitPaid
<1>10. QuotesInv' /\ PaymentsTypeOK'
  BY <1>1, <1>4, <1>5, <1>6, QuotesStay DEF PaymentsTypeOK, QuotesInv
<1> QED BY <1>5, <1>6, <1>7, <1>9, <1>10

LEMMA RecordCashCommitStep ==
  ASSUME PaymentsInv, UNCHANGED quoteVars, NEW t \in Till, recordCashCommit(t)
  PROVE  PaymentsInv'
<1> USE DEF PaymentsInv
<1>1. /\ till[t].step = "receipt" /\ goes(t, NoTill)
      /\ payment' = [payment EXCEPT ![till[t].payment] = [status |-> "paid", invoice |-> till[t].invoice, method |-> "cash", proof |-> "staff"]]
      /\ settled(till[t].invoice)
      /\ UNCHANGED <<quote, contracts, seat, called, session, attemptFailed, refund, refundRows>>
  BY DEF recordCashCommit, quoteVars, providerVars
<1>2. PICK p \in Payment, i \in Invoice :
      /\ p = till[t].payment /\ i = till[t].invoice /\ invoice[i].status # "absent" /\ till[t].step \in inserting
      /\ \/ payment[p] = AbsentPayment
         \/ payment[p].status # "absent" /\ payment[p].invoice = i
  BY <1>1 DEF TillInv, tillOK, inserting
<1>3. AbsentPayment.status = "absent" /\ AbsentPayment.invoice \notin Invoice
  BY DEF AbsentPayment, NoInvoice, Invoice
<1>4. /\ payment' \in [Payment -> PaymentRow]
      /\ payment'[p].status = "paid" /\ payment'[p].invoice = i /\ payment'[p].proof = "staff"
      /\ \A x \in Payment \ {p} : payment'[x] = payment[x]
  BY <1>1, <1>2 DEF PaymentsTypeOK, PaymentRow
<1>5. /\ invoice' \in [Invoice -> InvoiceRow] /\ confirmed' \subseteq Booking
      /\ invoice'[i].status = "paid"
      /\ \A j \in Invoice : invoice'[j].booking = invoice[j].booking /\ invoice'[j].type = invoice[j].type
      /\ \A j \in Invoice \ {i} : invoice'[j].status = invoice[j].status
      /\ \A b \in confirmed' : b \in confirmed \/ \E j \in Invoice :
           invoice'[j].booking = b /\ invoice'[j].status = "paid" /\ invoice'[j].type # "weekly"
      /\ ChargedPriceAgreed'
  BY <1>1, <1>2, SettledInvoice
<1>6. till' \in [Till -> TillRow] /\ TillInv'
  BY <1>1, <1>2, <1>3, <1>4, <1>5, CommitTill
<1>7. LedgerInv'
  BY <1>2, <1>4, <1>5, CommitLedger
<1>8. backed(i)'
  BY <1>2, <1>4 DEF backed
<1>9. PaidByMoney'
  <2>1. \A j \in Invoice : payment[p].invoice = j => backed(j)'
    BY <1>2, <1>3, <1>8
  <2>2. /\ \A j \in Invoice : invoice[j].status = "paid" => invoice'[j].status = "paid"
        /\ \A j \in Invoice : invoice'[j].status = "paid" => invoice[j].status = "paid" \/ backed(j)'
    BY <1>5, <1>8
  <2>3. \A x \in Payment \ {p} : payment'[x] = payment[x] /\ session'[x] = session[x]
    BY <1>1, <1>4
  <2>4. \A j \in Invoice : invoice[j].status = "paid" =>
          invoice'[j].status = "paid" /\ invoice'[j].booking = invoice[j].booking /\ invoice'[j].type = invoice[j].type
    BY <1>5, <2>2
  <2>5. \A b \in confirmed' : b \in confirmed \/ \E j \in Invoice :
          invoice'[j].booking = b /\ invoice'[j].status = "paid" /\ invoice'[j].type # "weekly"
    BY <1>5
  <2> QED BY <2>1, <2>2, <2>3, <2>4, <2>5, CommitPaid
<1>10. QuotesInv' /\ PaymentsTypeOK'
  BY <1>1, <1>4, <1>5, <1>6, QuotesStay DEF PaymentsTypeOK, QuotesInv
<1> QED BY <1>5, <1>6, <1>7, <1>9, <1>10

LEMMA FailCommitStep ==
  ASSUME PaymentsInv, UNCHANGED quoteVars, NEW t \in Till, failCommit(t)
  PROVE  PaymentsInv'
<1> USE DEF PaymentsInv
<1>1. /\ till[t].step = "fail" /\ goes(t, NoTill)
      /\ payment' = [payment EXCEPT ![till[t].payment].status = "failed"]
      /\ UNCHANGED <<quote, contracts, seat, called, confirmed, invoice, session, attemptFailed, refund, refundRows>>
  BY DEF failCommit, quoteVars, providerVars
<1>2. PICK p \in Payment : p = till[t].payment /\ payment[p].status # "absent"
  BY <1>1 DEF TillInv, tillOK
<1>3. /\ payment' \in [Payment -> PaymentRow]
      /\ payment'[p].status = "failed" /\ payment'[p].invoice = payment[p].invoice
      /\ payment'[p].proof = payment[p].proof
      /\ \A x \in Payment \ {p} : payment'[x] = payment[x]
  BY <1>1, <1>2 DEF PaymentsTypeOK, PaymentRow
<1>4. till' \in [Till -> TillRow] /\ TillInv'
  BY <1>1, <1>2, <1>3, CommitTill
<1>5. LedgerInv'
  BY <1>1, <1>2, <1>3 DEF LedgerInv
<1>6. PaidByMoney'
  BY <1>1, <1>2, <1>3 DEF PaidByMoney, backed
<1>7. QuotesInv' /\ PaymentsTypeOK' /\ ChargedPriceAgreed'
  BY <1>1, <1>3, <1>4, QuotesStay DEF PaymentsTypeOK, QuotesInv, ChargedPriceAgreed
<1> QED BY <1>4, <1>5, <1>6, <1>7

-----------------------------------------------------------------------------
(* The customer, PayMongo, staff and the billing job.                       *)

\* A step of theirs writes no payments row, and takes back no call, contract,
\* invoice or collected session.
LEMMA OthersMove ==
  ASSUME PaymentsInv, UNCHANGED <<quoteVars, payment, till, confirmed>>,
         called \subseteq called',
         \A p \in Payment : session[p] = "collected" => session'[p] = "collected",
         \A i \in Invoice : invoice[i].status = "absent" \/ invoice'[i] = invoice[i],
         \A i \in Invoice : invoice[i].status = "absent" => invoice'[i].status # "paid"
  PROVE  QuotesInv' /\ TillInv' /\ LedgerInv' /\ PaidByMoney'
<1> USE DEF PaymentsInv
<1>1. QuotesInv' /\ UNCHANGED <<contracts, payment, till, confirmed>>
  BY QuotesStay DEF quoteVars
<1>2. TillInv'
  <2> SUFFICES ASSUME NEW t \in Till PROVE tillOK(t, till[t])'
    BY DEF TillInv
  <2>1. tillOK(t, till[t]) /\ till[t] \in TillRow
    BY DEF TillInv, PaymentsTypeOK
  <2> QED BY <1>1, <2>1 DEF tillOK, reserved, TillRow
<1>3. LedgerInv'
  BY <1>1 DEF LedgerInv
<1>4. PaidByMoney'
  BY <1>1 DEF PaidByMoney, backed
<1> QED BY <1>1, <1>2, <1>3, <1>4

LEMMA ConfirmCallStep ==
  ASSUME PaymentsInv, UNCHANGED quoteVars, NEW b \in Booking, confirmCall(b)
  PROVE  PaymentsInv'
<1> USE DEF PaymentsInv
<1>1. /\ called' = called \cup {b}
      /\ UNCHANGED <<contracts, confirmed, invoice, payment, session, attemptFailed, refund, refundRows, till>>
  BY DEF confirmCall, providerVars, quoteVars
<1>2. QuotesInv' /\ TillInv' /\ LedgerInv' /\ PaidByMoney'
  BY <1>1, OthersMove
<1>3. PaymentsTypeOK' /\ ChargedPriceAgreed'
  BY <1>1, <1>2 DEF PaymentsTypeOK, QuotesInv, ChargedPriceAgreed
<1> QED BY <1>2, <1>3

LEMMA IssueWeeklyStep ==
  ASSUME PaymentsInv, UNCHANGED quoteVars, NEW b \in Booking, issueWeekly(b)
  PROVE  PaymentsInv'
<1> USE DEF PaymentsInv
<1> DEFINE weekly == [AbsentInvoice EXCEPT !.status = "issued", !.booking = b]
<1>1. PICK i \in Invoice : isNextInvoice(i) /\ invoice' = [invoice EXCEPT ![i] = weekly]
  BY DEF issueWeekly
<1>2. UNCHANGED <<contracts, called, confirmed, payment, session, attemptFailed, refund, refundRows, till>>
  BY DEF issueWeekly, providerVars, quoteVars
<1>3. weekly \in InvoiceRow /\ weekly.status = "issued" /\ weekly.type = "weekly"
  BY DEF AbsentInvoice, InvoiceRow, InvoiceType
<1> HIDE DEF weekly
<1>4. invoice[i].status = "absent"
  BY <1>1 DEF isNextInvoice, Invoice
<1>5. /\ invoice' \in [Invoice -> InvoiceRow] /\ invoice'[i] = weekly
      /\ \A j \in Invoice \ {i} : invoice'[j] = invoice[j]
  BY <1>1, <1>3 DEF PaymentsTypeOK
<1>6. /\ \A j \in Invoice : invoice[j].status = "absent" \/ invoice'[j] = invoice[j]
      /\ \A j \in Invoice : invoice[j].status = "absent" => invoice'[j].status # "paid"
  BY <1>3, <1>4, <1>5
<1>7. QuotesInv' /\ TillInv' /\ LedgerInv' /\ PaidByMoney'
  BY <1>2, <1>6, OthersMove
<1>8. PaymentsTypeOK'
  BY <1>2, <1>5, <1>7 DEF PaymentsTypeOK, QuotesInv
<1>9. ChargedPriceAgreed'
  BY <1>2, <1>3, <1>5 DEF ChargedPriceAgreed
<1> QED BY <1>7, <1>8, <1>9

LEMMA ProviderStep ==
  ASSUME PaymentsInv, UNCHANGED quoteVars, NEW p \in Payment,
         \/ customerPays(p) \/ attemptFails(p) \/ providerRefunds(p) \/ webhookRefund(p)
  PROVE  PaymentsInv'
<1> USE DEF PaymentsInv
<1>1. /\ UNCHANGED <<contracts, called, confirmed, invoice, payment, till>>
      /\ UNCHANGED session \/ \E s \in {"collected", "mismatch"} : session[p] = "open" /\ session' = [session EXCEPT ![p] = s]
  BY DEF customerPays, attemptFails, providerRefunds, webhookRefund, providerVars, cashVars, quoteVars
<1>2. /\ session' \in [Payment -> {"none", "open", "collected", "mismatch"}]
      /\ \A x \in Payment : session[x] = "collected" => session'[x] = "collected"
  BY <1>1 DEF PaymentsTypeOK
<1>3. QuotesInv' /\ TillInv' /\ LedgerInv' /\ PaidByMoney'
  BY <1>1, <1>2, OthersMove
<1>4. attemptFailed' \subseteq Payment /\ refund' \in [Payment -> {"none", "requested", "succeeded"}]
      /\ refundRows' \in [Payment -> {0, 1}]
  BY DEF PaymentsTypeOK, customerPays, attemptFails, providerRefunds, webhookRefund, providerVars
<1>5. PaymentsTypeOK' /\ ChargedPriceAgreed'
  BY <1>1, <1>2, <1>3, <1>4 DEF PaymentsTypeOK, QuotesInv, ChargedPriceAgreed
<1> QED BY <1>3, <1>5

LEMMA AskRefundStep ==
  ASSUME PaymentsInv, UNCHANGED quoteVars, NEW i \in Invoice, askRefund(i)
  PROVE  PaymentsInv'
<1> USE DEF PaymentsInv
<1>1. PICK p \in Payment : refund' = [refund EXCEPT ![p] = "requested"]
  BY DEF askRefund
<1>2. UNCHANGED <<contracts, called, confirmed, invoice, payment, session, attemptFailed, refundRows, till>>
  BY DEF askRefund, cashVars, quoteVars
<1>3. QuotesInv' /\ TillInv' /\ LedgerInv' /\ PaidByMoney'
  BY <1>2, OthersMove
<1>4. PaymentsTypeOK' /\ ChargedPriceAgreed'
  BY <1>1, <1>2, <1>3 DEF PaymentsTypeOK, QuotesInv, ChargedPriceAgreed
<1> QED BY <1>3, <1>4

LEMMA PaymentsStutter ==
  ASSUME PaymentsInv, UNCHANGED allVars
  PROVE  PaymentsInv'
<1> USE DEF PaymentsInv
<1>1. UNCHANGED quoteVars /\ UNCHANGED <<contracts, called, confirmed, invoice, payment, session, attemptFailed,
                                          refund, refundRows, till>>
  BY DEF allVars, payVars, quoteVars
<1>2. QuotesInv' /\ TillInv' /\ LedgerInv' /\ PaidByMoney'
  BY <1>1, OthersMove
<1>3. PaymentsTypeOK' /\ ChargedPriceAgreed'
  BY <1>1, <1>2 DEF PaymentsTypeOK, QuotesInv, ChargedPriceAgreed
<1> QED BY <1>2, <1>3

LEMMA TillStepInv ==
  ASSUME PaymentsInv, UNCHANGED quoteVars, NEW t \in Till, TillStep(t)
  PROVE  PaymentsInv'
BY CheckoutReadStep, CheckoutPriceStep, CheckoutRefusedStep, CheckoutFindStep, CheckoutInvoiceStep,
   CheckoutCommitStep, SettleReadStep, SettleCommitStep, WebhookFailedStep, FailCommitStep,
   RecordCashReadStep, RecordCashCommitStep DEF TillStep

-----------------------------------------------------------------------------
(* The theorems.                                                            *)

\* The inductive invariant holds in every state of the rentals, quotes and
\* payments, however their transactions interleave.
THEOREM PaymentsInvHolds == PaymentsSpec => []PaymentsInv
<1>1. PaymentsInv /\ [PaymentsNext]_allVars => PaymentsInv'
  <2> SUFFICES ASSUME PaymentsInv, [PaymentsNext]_allVars PROVE PaymentsInv'
    OBVIOUS
  <2>1. CASE QuoteStep /\ UNCHANGED payVars
    BY <2>1, QuotesMoveStep
  <2>2. CASE PaymentStep /\ UNCHANGED quoteVars
    BY <2>2, TillStepInv, ConfirmCallStep, IssueWeeklyStep, ProviderStep, AskRefundStep DEF PaymentStep
  <2>3. CASE UNCHANGED allVars
    BY <2>3, PaymentsStutter
  <2> QED BY <2>1, <2>2, <2>3 DEF PaymentsNext, atRest
<1> QED BY InitPayments, <1>1, PTL DEF PaymentsSpec

\* Every variable of the quotes and of the payments has its type.
THEOREM PaymentsTypeCorrect == PaymentsSpec => []PaymentsTypeOK
<1>1. PaymentsInv => PaymentsTypeOK
  BY DEF PaymentsInv
<1> QED BY PaymentsInvHolds, <1>1, PTL

\* Rent is charged only at a price the customer accepted, and nobody is
\* charged before the confirming call (payments.service.ts checkout).
THEOREM RentAgreed == PaymentsSpec => []ChargedPriceAgreed
<1>1. PaymentsInv => ChargedPriceAgreed
  BY DEF PaymentsInv
<1> QED BY PaymentsInvHolds, <1>1, PTL

\* An invoice becomes paid, and a booking confirmed, only by money PayMongo
\* collected in full or staff took in hand (settleOnlinePayment,
\* recordCashPayment).
THEOREM OnlyByMoney == PaymentsSpec => []PaidByMoney
<1>1. PaymentsInv => PaidByMoney
  BY DEF PaymentsInv
<1> QED BY PaymentsInvHolds, <1>1, PTL

\* A requote that commits leaves every accepted quote accepted, the one that
\* was accepted while the requote waited included (quotes.service.ts create).
THEOREM RequoteKeepsAccepted == PaymentsSpec => AcceptedKept
<1>1. ASSUME QuotesInv, NEW s \in Seat, NEW q \in Quote, createCommit(s), quote[q].status = "accepted"
      PROVE  quote'[q].status = "accepted"
  <2>1. /\ seat[s].step = "insert"
        /\ quote' = [x \in Quote |->
             IF x = seat[s].fresh THEN [status |-> "draft", booking |-> seat[s].booking]
             ELSE IF superseded(s, x) THEN [quote[x] EXCEPT !.status = "superseded"] ELSE quote[x]]
    BY <1>1 DEF createCommit
  <2>2. q # seat[s].fresh
    BY <1>1, <2>1 DEF QuotesInv, SeatInv, Inserting
  <2>3. ~superseded(s, q)
    BY <1>1 DEF superseded, openStatuses
  <2> QED BY <1>1, <2>1, <2>2, <2>3
<1>2. PaymentsInv => [\A s \in Seat, q \in Quote :
                        createCommit(s) /\ quote[q].status = "accepted" => quote'[q].status = "accepted"]_quoteVars
  BY <1>1 DEF PaymentsInv
<1> QED BY PaymentsInvHolds, <1>2, PTL DEF AcceptedKept

-----------------------------------------------------------------------------
(* What becomes of an invoice.                                              *)

\* The ways a step may change the invoices: one is issued, or one that exists is
\* paid, and nothing else about any of them moves.
issues(i) == \E row \in InvoiceRow :
  invoice[i].status = "absent" /\ row.status = "issued" /\ invoice' = [invoice EXCEPT ![i] = row]
pays(i) == invoice[i].status # "absent" /\ invoice' = [invoice EXCEPT ![i].status = "paid"]

LEMMA CheckoutIssues ==
  ASSUME PaymentsInv, NEW t \in Till, checkoutCommit(t)
  PROVE  UNCHANGED invoice \/ \E i \in Invoice : issues(i)
<1> DEFINE row == [status |-> "issued", booking |-> till[t].booking, type |-> typeFor(till[t].quote),
                   quote |-> till[t].quote, deposit |-> till[t].deposit]
<1>1. PICK i \in Invoice :
        \/ UNCHANGED invoice
        \/ isNextInvoice(i) /\ invoice' = [invoice EXCEPT ![i] = row]
  BY DEF checkoutCommit
<1>2. row \in InvoiceRow /\ row.status = "issued"
  BY DEF PaymentsInv, PaymentsTypeOK, TillRow, InvoiceRow, InvoiceType, typeFor
<1>3. isNextInvoice(i) => invoice[i].status = "absent"
  BY DEF isNextInvoice, Invoice
<1> HIDE DEF row
<1> QED BY <1>1, <1>2, <1>3 DEF issues

LEMMA WeeklyIssues ==
  ASSUME NEW b \in Booking, issueWeekly(b)
  PROVE  \E i \in Invoice : issues(i)
<1> DEFINE row == [AbsentInvoice EXCEPT !.status = "issued", !.booking = b]
<1>1. PICK i \in Invoice : isNextInvoice(i) /\ invoice' = [invoice EXCEPT ![i] = row]
  BY DEF issueWeekly
<1>2. row \in InvoiceRow /\ row.status = "issued"
  BY DEF AbsentInvoice, InvoiceRow, InvoiceType
<1>3. invoice[i].status = "absent"
  BY <1>1 DEF isNextInvoice, Invoice
<1> HIDE DEF row
<1> QED BY <1>1, <1>2, <1>3 DEF issues

\* A settlement pays one invoice that exists, whoever else has paid it by then.
LEMMA SettlementPays ==
  ASSUME PaymentsInv, NEW t \in Till, settleCommit(t) \/ recordCashCommit(t)
  PROVE  \E i \in Invoice : settled(i) /\ pays(i)
<1>1. tillOK(t, till[t])
  BY DEF PaymentsInv, TillInv
<1>2. CASE settleCommit(t)
  <2>1. till[t].payment \in Payment /\ payment[till[t].payment].status # "absent"
    BY <1>1, <1>2 DEF settleCommit, tillOK
  <2> QED BY <1>2, <2>1 DEF settleCommit, settled, pays, PaymentsInv, LedgerInv
<1>3. CASE recordCashCommit(t)
  BY <1>1, <1>3 DEF recordCashCommit, tillOK, settled, pays
<1> QED BY <1>2, <1>3

LEMMA InvoiceMoves ==
  ASSUME PaymentsInv, [PaymentsNext]_allVars
  PROVE  \/ UNCHANGED <<invoice, confirmed>>
         \/ UNCHANGED confirmed /\ \E i \in Invoice : issues(i)
         \/ \E i \in Invoice : settled(i) /\ pays(i)
<1>1. ASSUME NEW t \in Till, TillStep(t)
      PROVE  \/ UNCHANGED <<invoice, confirmed>>
             \/ UNCHANGED confirmed /\ \E i \in Invoice : issues(i)
             \/ \E i \in Invoice : settled(i) /\ pays(i)
  <2>1. CASE checkoutCommit(t)
    BY <2>1, CheckoutIssues DEF checkoutCommit
  <2>2. CASE settleCommit(t) \/ recordCashCommit(t)
    BY <2>2, SettlementPays
  <2>3. CASE \/ checkoutRead(t) \/ checkoutPrice(t) \/ checkoutRefused(t) \/ checkoutFind(t)
             \/ checkoutInvoice(t) \/ \E p \in Payment : webhookPaid(t, p)
             \/ confirmPayment(t) \/ webhookFailed(t) \/ failCommit(t) \/ recordCashRead(t)
    BY <2>3 DEF checkoutRead, checkoutPrice, checkoutRefused, checkoutFind, checkoutInvoice,
                webhookPaid, confirmPayment, webhookFailed, failCommit, recordCashRead, cashVars
  <2> QED BY <1>1, <2>1, <2>2, <2>3 DEF TillStep
<1>2. ASSUME NEW b \in Booking, issueWeekly(b)
      PROVE  UNCHANGED confirmed /\ \E i \in Invoice : issues(i)
  BY <1>2, WeeklyIssues DEF issueWeekly
<1>3. ASSUME NEW b \in Booking, confirmCall(b) PROVE UNCHANGED <<invoice, confirmed>>
  BY <1>3 DEF confirmCall
<1>4. ASSUME NEW p \in Payment,
             customerPays(p) \/ attemptFails(p) \/ providerRefunds(p) \/ webhookRefund(p)
      PROVE  UNCHANGED <<invoice, confirmed>>
  BY <1>4 DEF customerPays, attemptFails, providerRefunds, webhookRefund, cashVars
<1>5. ASSUME NEW i \in Invoice, askRefund(i) PROVE UNCHANGED <<invoice, confirmed>>
  BY <1>5 DEF askRefund, cashVars
<1>6. CASE PaymentStep
  BY <1>1, <1>2, <1>3, <1>4, <1>5, <1>6 DEF PaymentStep
<1>7. CASE UNCHANGED payVars
  BY <1>7 DEF payVars
<1> QED BY <1>6, <1>7 DEF PaymentsNext, atRest, allVars

\* What a customer was invoiced for is not rewritten, and a paid invoice is paid
\* for good: a replayed webhook, a second settlement or a refund changes nothing
\* about it, and a requote after the checkout never reaches the issued invoice.
keepsInvoices ==
  \A i \in Invoice : invoice[i].status # "absent" =>
    \/ invoice'[i] = invoice[i]
    \/ invoice[i].status = "issued" /\ invoice'[i] = [invoice[i] EXCEPT !.status = "paid"]
InvoicesFinal == [][keepsInvoices]_allVars

\* An issued invoice changes once, when it is settled (payments.service.ts
\* settleInvoice).
THEOREM InvoicesStay == PaymentsSpec => InvoicesFinal
<1>1. ASSUME PaymentsInv, [PaymentsNext]_allVars PROVE keepsInvoices
  <2>1. invoice \in [Invoice -> InvoiceRow]
    BY <1>1 DEF PaymentsInv, PaymentsTypeOK
  <2>2. CASE \E i \in Invoice : issues(i)
    BY <2>1, <2>2 DEF issues, keepsInvoices
  <2>3. CASE \E i \in Invoice : pays(i)
    BY <2>1, <2>3 DEF pays, InvoiceRow, keepsInvoices
  <2> QED BY <1>1, <2>2, <2>3, InvoiceMoves DEF keepsInvoices
<1>2. PaymentsInv /\ [PaymentsNext]_allVars => [keepsInvoices]_allVars
  BY <1>1
<1> QED BY <1>2, PaymentsInvHolds, PTL DEF PaymentsSpec, InvoicesFinal

-----------------------------------------------------------------------------
(* The payments as the deposit account sees them.                           *)

\* What edtr approve looks for before it draws on a rental's deposit: a paid
\* deposit or booking invoice.
heldFor(b) == \E i \in Invoice : /\ invoice[i].booking = b /\ invoice[i].status = "paid"
                                 /\ invoice[i].type \in {"deposit", "booking"}
held == [b \in Booking |-> heldFor(b)]

\* The payments draw nothing: the other balances of DepositAccount stand still.
zero == [b \in Booking |-> 0]

Deposits == INSTANCE DepositAccount WITH
  Rental <- Booking, Deposit <- zero, paid <- held, drawn <- zero, open <- zero, invoiced <- zero

\* A booking is confirmed exactly when its deposit is held: what the customer is
\* told and what an approval may draw on never disagree.
ConfirmedHeld == \A b \in Booking : b \in confirmed <=> heldFor(b)

\* Issuing an invoice holds nothing; settling one holds its own booking's deposit.
LEMMA HoldingMoves ==
  ASSUME PaymentsInv, NEW i \in Invoice
  PROVE  /\ issues(i) => \A b : heldFor(b)' <=> heldFor(b)
         /\ pays(i) => \A b : heldFor(b)' <=>
              \/ heldFor(b)
              \/ invoice[i].type \in {"deposit", "booking"} /\ invoice[i].booking = b
<1>1. invoice \in [Invoice -> InvoiceRow]
  BY DEF PaymentsInv, PaymentsTypeOK
<1>2. ASSUME issues(i), NEW b PROVE heldFor(b)' <=> heldFor(b)
  <2>1. /\ invoice[i].status # "paid" /\ invoice'[i].status # "paid"
        /\ \A j \in Invoice \ {i} : invoice'[j] = invoice[j]
    BY <1>1, <1>2 DEF issues
  <2> QED BY <2>1 DEF heldFor
<1>3. ASSUME pays(i), NEW b
      PROVE  heldFor(b)' <=> \/ heldFor(b)
                             \/ invoice[i].type \in {"deposit", "booking"} /\ invoice[i].booking = b
  <2>1. /\ invoice'[i].status = "paid" /\ invoice'[i].type = invoice[i].type
        /\ invoice'[i].booking = invoice[i].booking
        /\ \A j \in Invoice \ {i} : invoice'[j] = invoice[j]
    BY <1>1, <1>3 DEF pays, InvoiceRow
  <2> QED BY <2>1 DEF heldFor
<1> QED BY <1>2, <1>3

LEMMA PaymentStepPays ==
  ASSUME PaymentsInv, [PaymentsNext]_allVars
  PROVE  UNCHANGED held \/ \E b \in Booking : Deposits!Pay(b)
<1>1. CASE UNCHANGED invoice
  BY <1>1 DEF held, heldFor
<1>2. ASSUME NEW i \in Invoice, issues(i) PROVE UNCHANGED held
  <2>1. \A b \in Booking : heldFor(b)' <=> heldFor(b)
    BY <1>2, HoldingMoves
  <2>2. \A b \in Booking : heldFor(b)' = heldFor(b)
    BY <2>1, Zenon DEF heldFor
  <2> QED BY <2>2 DEF held
<1>3. ASSUME NEW i \in Invoice, pays(i)
      PROVE  UNCHANGED held \/ \E b \in Booking : Deposits!Pay(b)
  <2> DEFINE b == invoice[i].booking
  <2>1. CASE invoice[i].type \notin {"deposit", "booking"} \/ heldFor(b)
    <3>1. \A c \in Booking : heldFor(c)' <=> heldFor(c)
      BY <1>3, <2>1, HoldingMoves
    <3>2. \A c \in Booking : heldFor(c)' = heldFor(c)
      BY <3>1, Zenon DEF heldFor
    <3> QED BY <3>2 DEF held
  <2>2. CASE invoice[i].type \in {"deposit", "booking"} /\ ~heldFor(b)
    <3>1. b \in Booking
      BY <2>2 DEF PaymentsInv, PaymentsTypeOK, ChargedPriceAgreed
    <3>2. ~held[b] /\ \A c \in Booking : held'[c] <=> held[c] \/ c = b
      BY <1>3, <2>2, <3>1, HoldingMoves DEF held
    <3>3. held' = [held EXCEPT ![b] = TRUE]
      <4>1. \A c \in Booking : held[c] \in BOOLEAN /\ held'[c] \in BOOLEAN
        BY DEF held, heldFor
      <4>2. held = [c \in Booking |-> held[c]] /\ held' = [c \in Booking |-> held'[c]]
        BY DEF held
      <4> QED BY <3>1, <3>2, <4>1, <4>2
    <3>4. zero' = zero
      BY DEF zero
    <3> QED BY <3>1, <3>2, <3>3, <3>4 DEF Deposits!Pay
  <2> QED BY <2>1, <2>2
<1> QED BY <1>1, <1>2, <1>3, InvoiceMoves

\* Bookings are confirmed by the settlements that hold their deposits.
LEMMA ConfirmedHeldNext ==
  PaymentsInv /\ ConfirmedHeld /\ [PaymentsNext]_allVars => ConfirmedHeld'
<1> SUFFICES ASSUME PaymentsInv, ConfirmedHeld, [PaymentsNext]_allVars PROVE ConfirmedHeld'
  OBVIOUS
<1>1. CASE UNCHANGED <<invoice, confirmed>>
  BY <1>1 DEF ConfirmedHeld, heldFor
<1>2. ASSUME UNCHANGED confirmed, NEW i \in Invoice, issues(i) PROVE ConfirmedHeld'
  BY <1>2, HoldingMoves DEF ConfirmedHeld
<1>3. ASSUME NEW i \in Invoice, settled(i), pays(i) PROVE ConfirmedHeld'
  BY <1>3, HoldingMoves DEF ConfirmedHeld, settled
<1> QED BY <1>1, <1>2, <1>3, InvoiceMoves

\* A booking is confirmed exactly when a deposit or booking invoice of it has been
\* paid, however webhook, return check and cash at the desk race.
THEOREM ConfirmedWhenHeld == PaymentsSpec => []ConfirmedHeld
<1>1. PaymentsInit => ConfirmedHeld
  BY DEF PaymentsInit, ConfirmedHeld, heldFor, AbsentInvoice
<1> QED BY <1>1, PaymentsInvHolds, ConfirmedHeldNext, PTL DEF PaymentsSpec

\* The payments implement the account EdtrApproval draws on: no deposit is held
\* at first, and every step holds one booking's that was not held, or none.  So
\* settleDeposit of EdtrApproval is all it needs to know of this module.
THEOREM DepositsRefined ==
  PaymentsSpec => Deposits!Init /\ [][\E b \in Booking : Deposits!Pay(b)]_held
<1>1. PaymentsInit => Deposits!Init
  BY DEF PaymentsInit, Deposits!Init, held, heldFor, zero, AbsentInvoice
<1>2. PaymentsInv /\ [PaymentsNext]_allVars => [\E b \in Booking : Deposits!Pay(b)]_held
  BY PaymentStepPays
<1> QED BY <1>1, <1>2, PaymentsInvHolds, PTL DEF PaymentsSpec

-----------------------------------------------------------------------------
(* Refunds.                                                                 *)

\* A refund is asked for, and shown on the ledger, only for money PayMongo
\* collected: no race of cash at the desk with the webhook, and no failed attempt,
\* turns a refunded payment into another kind of payment.
RefundsBacked == \A p \in Payment :
  /\ refund[p] # "none" => payment[p].proof = "provider" /\ session[p] = "collected"
  /\ refundRows[p] = 1 => refund[p] = "succeeded"

\* Only an online payment ever has a session, and cash is only ever recorded on
\* a row that was to be cash.
MethodInv ==
  /\ \A p \in Payment :
       payment[p].status = "absent" \/ payment[p].method = "cash" => session[p] = "none"
  /\ \A p \in Payment : payment[p].proof = "provider" => session[p] = "collected"
  /\ \A t \in Till : till[t].step = "receipt" /\ payment[till[t].payment].status # "absent" =>
       payment[till[t].payment].method = "cash"

RefundInv == MethodInv /\ RefundsBacked

\* A till that is to record cash and the row it is to write.
LEMMA ReceiptRow ==
  ASSUME PaymentsInv, NEW t \in Till, till[t].step = "receipt"
  PROVE  /\ till[t].payment \in Payment
         /\ payment[till[t].payment].status = "absent" =>
              \A r \in Till \ {t} : ~(till[r].step \in inserting /\ till[r].payment = till[t].payment)
<1>1. tillOK(t, till[t]) /\ till[t].step \in inserting
  BY DEF PaymentsInv, TillInv, inserting
<1> QED BY <1>1 DEF tillOK, reserved

LEMMA RefundCheckout ==
  ASSUME PaymentsInv, RefundInv, NEW t \in Till, checkoutCommit(t)
  PROVE  RefundInv'
<1> DEFINE p == till[t].payment
<1>1. till[t].step = "found" /\ till[t].step \in inserting /\ p \in Payment /\ payment[p] = AbsentPayment
  BY DEF checkoutCommit, PaymentsInv, TillInv, tillOK, inserting
<1>2. PICK i \in Invoice, method \in {"online", "cash"} :
        /\ payment' = [payment EXCEPT ![p] =
             [status |-> "pending", invoice |-> i, method |-> method, proof |-> "none"]]
        /\ session' = IF method = "cash" THEN session ELSE [session EXCEPT ![p] = "open"]
  BY DEF checkoutCommit
<1>3. /\ till' = [till EXCEPT ![t] = NoTill] /\ UNCHANGED <<refund, refundRows>>
      /\ till \in [Till -> TillRow] /\ payment \in [Payment -> PaymentRow]
      /\ session \in [Payment -> {"none", "open", "collected", "mismatch"}]
  BY DEF checkoutCommit, goes, PaymentsInv, PaymentsTypeOK
<1>4. session[p] = "none" /\ refund[p] = "none"
  BY <1>1 DEF RefundInv, MethodInv, RefundsBacked, AbsentPayment
<1>5. \A r \in Till \ {t} : till[r].step = "receipt" =>
        till[r].payment \in Payment /\ till[r].payment # p
  BY <1>1, ReceiptRow DEF AbsentPayment
<1> HIDE DEF p
<1>6. /\ \A x \in Payment \ {p} : payment'[x] = payment[x] /\ session'[x] = session[x]
      /\ payment'[p].status = "pending" /\ payment'[p].method = method /\ payment'[p].proof = "none"
      /\ method = "cash" => session'[p] = "none"
  BY <1>1, <1>2, <1>3, <1>4
<1>7. till'[t].step = "idle" /\ \A r \in Till \ {t} : till'[r] = till[r]
  BY <1>3 DEF NoTill
<1>8. MethodInv'
  BY <1>1, <1>5, <1>6, <1>7 DEF RefundInv, MethodInv
<1>9. RefundsBacked'
  BY <1>3, <1>4, <1>6 DEF RefundInv, RefundsBacked
<1> QED BY <1>8, <1>9 DEF RefundInv

\* A settlement marks a payment whose session has collected.
LEMMA RefundSettle ==
  ASSUME PaymentsInv, RefundInv, NEW t \in Till, settleCommit(t) \/ failCommit(t)
  PROVE  RefundInv'
<1> DEFINE p == till[t].payment
<1>1. /\ p \in Payment /\ payment[p].status # "absent"
      /\ settleCommit(t) => session[p] = "collected"
  BY DEF settleCommit, failCommit, PaymentsInv, TillInv, tillOK
<1>2. /\ till' = [till EXCEPT ![t] = NoTill] /\ UNCHANGED <<session, refund, refundRows>>
      /\ till \in [Till -> TillRow] /\ payment \in [Payment -> PaymentRow]
  BY DEF settleCommit, failCommit, goes, providerVars, PaymentsInv, PaymentsTypeOK
<1>3. \/ settleCommit(t) /\ payment' = [payment EXCEPT ![p].status = "paid", ![p].proof = "provider"]
      \/ payment' = [payment EXCEPT ![p].status = "failed"]
  BY DEF settleCommit, failCommit
<1> HIDE DEF p
<1>4. /\ \A x \in Payment \ {p} : payment'[x] = payment[x]
      /\ payment'[p].status # "absent" /\ payment'[p].method = payment[p].method
      /\ \/ payment'[p].proof = payment[p].proof
         \/ payment'[p].proof = "provider" /\ session[p] = "collected"
  BY <1>1, <1>2, <1>3 DEF PaymentRow
<1>5. till'[t].step = "idle" /\ \A r \in Till \ {t} : till'[r] = till[r]
  BY <1>2 DEF NoTill
<1>6. \A r \in Till : till[r].step = "receipt" => till[r].payment \in Payment
  BY ReceiptRow
<1>7. MethodInv'
  BY <1>1, <1>2, <1>4, <1>5, <1>6 DEF RefundInv, MethodInv
<1>8. RefundsBacked'
  BY <1>1, <1>2, <1>4 DEF RefundInv, RefundsBacked
<1> QED BY <1>7, <1>8 DEF RefundInv

\* Cash is recorded on a row that has no session, and so no refund.
LEMMA RefundCash ==
  ASSUME PaymentsInv, RefundInv, NEW t \in Till, recordCashCommit(t)
  PROVE  RefundInv'
<1> DEFINE p == till[t].payment
<1>1. till[t].step = "receipt" /\ p \in Payment
  BY ReceiptRow DEF recordCashCommit
<1>2. session[p] = "none" /\ refund[p] = "none"
  BY <1>1 DEF RefundInv, MethodInv, RefundsBacked
<1>3. /\ till' = [till EXCEPT ![t] = NoTill] /\ UNCHANGED <<session, refund, refundRows>>
      /\ till \in [Till -> TillRow] /\ payment \in [Payment -> PaymentRow]
      /\ payment' = [payment EXCEPT ![p] =
           [status |-> "paid", invoice |-> till[t].invoice, method |-> "cash", proof |-> "staff"]]
  BY DEF recordCashCommit, goes, providerVars, PaymentsInv, PaymentsTypeOK
<1> HIDE DEF p
<1>4. /\ \A x \in Payment \ {p} : payment'[x] = payment[x]
      /\ payment'[p].status = "paid" /\ payment'[p].method = "cash" /\ payment'[p].proof = "staff"
  BY <1>1, <1>3
<1>5. till'[t].step = "idle" /\ \A r \in Till \ {t} : till'[r] = till[r]
  BY <1>3 DEF NoTill
<1>6. \A r \in Till : till[r].step = "receipt" => till[r].payment \in Payment
  BY ReceiptRow
<1>7. MethodInv'
  BY <1>2, <1>3, <1>4, <1>5, <1>6 DEF RefundInv, MethodInv
<1>8. RefundsBacked'
  BY <1>2, <1>3, <1>4 DEF RefundInv, RefundsBacked
<1> QED BY <1>7, <1>8 DEF RefundInv

\* A transaction reads on; only the cash desk's reads matter here.
LEMMA RefundTillReads ==
  ASSUME PaymentsInv, RefundInv, NEW t \in Till,
         \/ checkoutRead(t) \/ checkoutPrice(t) \/ checkoutRefused(t) \/ checkoutFind(t)
         \/ checkoutInvoice(t) \/ \E p \in Payment : webhookPaid(t, p)
         \/ confirmPayment(t) \/ webhookFailed(t) \/ recordCashRead(t)
  PROVE  RefundInv'
<1>1. UNCHANGED <<payment, session, refund, refundRows>> /\ till \in [Till -> TillRow]
  BY DEF checkoutRead, checkoutPrice, checkoutRefused, checkoutFind, checkoutInvoice, webhookPaid,
         confirmPayment, webhookFailed, recordCashRead, cashVars, providerVars, PaymentsInv, PaymentsTypeOK
<1>2. \A r \in Till \ {t} : till'[r] = till[r]
  BY <1>1 DEF checkoutRead, checkoutPrice, checkoutRefused, checkoutFind, checkoutInvoice, webhookPaid,
              confirmPayment, webhookFailed, recordCashRead, goes
<1>3. till'[t].step = "receipt" /\ payment[till'[t].payment].status # "absent" =>
        payment[till'[t].payment].method = "cash"
  <2>1. CASE recordCashRead(t)
    <3>1. PICK i \in Invoice, p \in Payment :
            /\ IF pendingCash(i) = {} THEN isNextPayment(p) ELSE p \in pendingCash(i)
            /\ till' = [till EXCEPT ![t] =
                 [NoTill EXCEPT !.step = "receipt", !.invoice = i, !.payment = p]]
      BY <2>1 DEF recordCashRead, goes
    <3>2. till'[t].payment = p
      BY <1>1, <3>1 DEF NoTill
    <3>3. payment[p] = AbsentPayment \/ payment[p].method = "cash"
      BY <3>1, FreshPayment DEF pendingCash
    <3> QED BY <3>2, <3>3 DEF AbsentPayment
  <2>2. CASE checkoutRead(t) \/ checkoutPrice(t) \/ checkoutRefused(t) \/ checkoutFind(t)
    <3>1. till[t] \in TillRow
      BY <1>1
    <3>2. checkoutRead(t) => till'[t].step # "receipt"
      <4>1. ASSUME NEW b, NEW q, NEW p,
                   goes(t, [NoTill EXCEPT !.step = "quoted", !.booking = b, !.quote = q, !.payment = p])
            PROVE  till'[t].step # "receipt"
        BY <1>1, <4>1 DEF goes, NoTill
      <4> QED BY <4>1 DEF checkoutRead
    <3>3. checkoutRefused(t) => till'[t].step # "receipt"
      BY <1>1 DEF checkoutRefused, goes, NoTill
    <3>4. checkoutPrice(t) => till'[t].step # "receipt"
      BY <1>1, <3>1 DEF checkoutPrice, goes, TillRow
    <3>5. checkoutFind(t) => till'[t].step # "receipt"
      BY <1>1, <3>1 DEF checkoutFind, goes, TillRow
    <3> QED BY <2>2, <3>2, <3>3, <3>4, <3>5
  <2>3. CASE \/ checkoutInvoice(t) \/ \E p \in Payment : webhookPaid(t, p)
             \/ confirmPayment(t) \/ webhookFailed(t)
    <3>1. till'[t].step # "receipt"
      BY <1>1, <2>3 DEF checkoutInvoice, webhookPaid, confirmPayment, webhookFailed, goes, NoTill
    <3> QED BY <3>1
  <2> QED BY <2>1, <2>2, <2>3
<1> QED BY <1>1, <1>2, <1>3 DEF RefundInv, MethodInv, RefundsBacked

\* PayMongo collects on open sessions, and refunds what was asked for.
LEMMA RefundProvider ==
  ASSUME PaymentsInv, RefundInv, NEW p \in Payment,
         customerPays(p) \/ attemptFails(p) \/ providerRefunds(p) \/ webhookRefund(p)
  PROVE  RefundInv'
<1>1. /\ UNCHANGED <<payment, till>>
      /\ session \in [Payment -> {"none", "open", "collected", "mismatch"}]
      /\ refund \in [Payment -> {"none", "requested", "succeeded"}]
      /\ refundRows \in [Payment -> {0, 1}]
  BY DEF customerPays, attemptFails, providerRefunds, webhookRefund, cashVars,
         PaymentsInv, PaymentsTypeOK
<1>2. CASE customerPays(p)
  <2>1. /\ session[p] = "open" /\ \A x \in Payment \ {p} : session'[x] = session[x]
        /\ UNCHANGED <<refund, refundRows>>
    BY <1>1, <1>2 DEF customerPays
  <2> QED BY <1>1, <2>1 DEF RefundInv, MethodInv, RefundsBacked
<1>3. CASE attemptFails(p)
  BY <1>1, <1>3 DEF attemptFails, RefundInv, MethodInv, RefundsBacked
<1>4. CASE providerRefunds(p)
  BY <1>1, <1>4 DEF providerRefunds, RefundInv, MethodInv, RefundsBacked
<1>5. CASE webhookRefund(p)
  BY <1>1, <1>5 DEF webhookRefund, providerVars, RefundInv, MethodInv, RefundsBacked
<1> QED BY <1>2, <1>3, <1>4, <1>5

LEMMA RefundAsked ==
  ASSUME PaymentsInv, RefundInv, NEW i \in Invoice, askRefund(i)
  PROVE  RefundInv'
<1>1. PICK p \in Payment : /\ payment[p].proof = "provider"
                           /\ refund[p] = "none" /\ refund' = [refund EXCEPT ![p] = "requested"]
  BY DEF askRefund
<1>2. UNCHANGED <<payment, session, refundRows, till>>
      /\ refund \in [Payment -> {"none", "requested", "succeeded"}]
  BY DEF askRefund, cashVars, PaymentsInv, PaymentsTypeOK
<1> QED BY <1>1, <1>2 DEF RefundInv, MethodInv, RefundsBacked

LEMMA RefundNext == PaymentsInv /\ RefundInv /\ [PaymentsNext]_allVars => RefundInv'
<1> SUFFICES ASSUME PaymentsInv, RefundInv, [PaymentsNext]_allVars PROVE RefundInv'
  OBVIOUS
<1>1. ASSUME UNCHANGED <<payment, session, refund, refundRows, till>> PROVE RefundInv'
  BY <1>1 DEF RefundInv, MethodInv, RefundsBacked
<1>2. CASE UNCHANGED payVars
  BY <1>1, <1>2 DEF payVars
<1>3. CASE PaymentStep
  <2>1. ASSUME NEW t \in Till, TillStep(t) PROVE RefundInv'
    BY <2>1, RefundCheckout, RefundSettle, RefundCash, RefundTillReads DEF TillStep
  <2>2. ASSUME NEW b \in Booking, confirmCall(b) \/ issueWeekly(b) PROVE RefundInv'
    BY <1>1, <2>2 DEF confirmCall, issueWeekly, providerVars
  <2> QED BY <1>3, <2>1, <2>2, RefundProvider, RefundAsked DEF PaymentStep
<1> QED BY <1>2, <1>3 DEF PaymentsNext, atRest, allVars

\* A refund is only of money PayMongo collected, and the ledger shows only those
\* that succeeded (payments.service.ts refund, webhook payment.refund.updated).
THEOREM RefundsOfMoney == PaymentsSpec => []RefundsBacked
<1>1. PaymentsInit => RefundInv
  BY DEF PaymentsInit, RefundInv, MethodInv, RefundsBacked, NoTill, AbsentPayment
<1>2. PaymentsSpec => []RefundInv
  BY <1>1, PaymentsInvHolds, RefundNext, PTL DEF PaymentsSpec
<1>3. RefundInv => RefundsBacked
  BY DEF RefundInv
<1> QED BY <1>2, <1>3, PTL
=============================================================================
