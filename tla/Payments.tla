------------------------------- MODULE Payments -------------------------------
(***************************************************************************)
(* From an agreed quote to a settled invoice: the customer checks a        *)
(* booking out, PayMongo collects the money and reports it by webhook, or  *)
(* staff record cash; a settled invoice confirms the booking; refunds are  *)
(* recorded when PayMongo reports them.  The quotes themselves, which      *)
(* checkout reads, move on in module Quotes.                               *)
(*                                                                         *)
(* PayMongo is external: a session it has open may be paid or may fail any *)
(* number of attempts, its events are delivered late, out of order and     *)
(* more than once, and it is asked for a refund synchronously.             *)
(***************************************************************************)
EXTENDS Quotes, FiniteSets

CONSTANTS
  NPayment,     \* how many payments rows are ever begun (bound)
  NWeekly,      \* how many weekly invoices are issued (bound)
  Till          \* payment transactions open at once

ASSUME NPaymentAssumption == NPayment \in Nat
ASSUME NWeeklyAssumption == NWeekly \in Nat

Payment == 1..NPayment             \* in the order of created_at
Invoice == 1..(NPayment + NWeekly) \* a checkout makes at most one
NoInvoice == 0
NoPayment == 0

VARIABLES
  called,       \* bookings whose confirming call staff have logged
  confirmed,    \* bookings a settled invoice has confirmed
  invoice,      \* [status, booking, type, quote, deposit] of each invoice
  payment,      \* [status, invoice, method, proof] of each payments row; the proof
                \*   is PayMongo's payment id or the staff member who took cash
  session,      \* PayMongo: the state of each online payment's session
  attemptFailed,\* PayMongo: sessions a payment.failed event reports
  refund,       \* PayMongo: the refund of each payment
  refundRows,   \* payments rows with status 'refunded', by payment
  till          \* the payment transactions open

payVars == <<called, confirmed, invoice, payment, session, attemptFailed,
             refund, refundRows, till>>
cashVars == <<called, confirmed, invoice, payment>>
providerVars == <<session, attemptFailed, refund>>
allVars == <<quoteVars, payVars>>

InvoiceType == {"deposit", "booking", "weekly"}
AbsentInvoice == [status |-> "absent", booking |-> None, type |-> "weekly",
                  quote |-> NoQuote, deposit |-> FALSE]
AbsentPayment == [status |-> "absent", invoice |-> NoInvoice, method |-> "online",
                  proof |-> "none"]
NoTill == [step |-> "idle", booking |-> None, quote |-> NoQuote, deposit |-> FALSE,
           invoice |-> NoInvoice, payment |-> NoPayment]

PaymentsInit ==
  /\ QuotesInit
  /\ called = {} /\ confirmed = {} /\ attemptFailed = {}
  /\ invoice = [i \in Invoice |-> AbsentInvoice]
  /\ payment = [p \in Payment |-> AbsentPayment]
  /\ session = [p \in Payment |-> "none"]
  /\ refund = [p \in Payment |-> "none"]
  /\ refundRows = [p \in Payment |-> 0]
  /\ till = [t \in Till |-> NoTill]

\* Transactions that will insert a payments row.
inserting == {"quoted", "priced", "found", "receipt"}
paymentsBegun == {p \in Payment :
  payment[p].status # "absent" \/ \E t \in Till : till[t].step \in inserting /\ till[t].payment = p}
isNextPayment(p) ==
  (\A x \in paymentsBegun : x < p) /\ p - 1 \in paymentsBegun \cup {NoPayment}
isNextInvoice(i) ==
  \A x \in Invoice : invoice[x].status = "absent" <=> x >= i

invoicesOf(b, type, status) ==
  {i \in Invoice : invoice[i].booking = b /\ invoice[i].type = type /\ invoice[i].status = status}
pendingOf(i) == {p \in Payment : payment[p].invoice = i /\ payment[p].status = "pending"}
isLatestIn(p, S) == p \in S /\ \A x \in S : x <= p

goes(t, row) == till' = [till EXCEPT ![t] = row]

-----------------------------------------------------------------------------
(* POST /bookings/:id/checkout.                                             *)

\* Staff log the call that confirms the booking.
confirmCall(b) ==
  /\ b \notin called
  /\ called' = called \cup {b}
  /\ UNCHANGED <<confirmed, invoice, payment, providerVars, refundRows, till>>

\* Mutant of agreedPrice: a quote that has been sent is enough.
sentPrice(q) == q # NoQuote => quote[q].status \in {"approved", "accepted"}

\* A booking without a quote pays its deposit only; one whose latest quote is
\* not accepted cannot pay at all.
agreedPrice(q) == q # NoQuote => quote[q].status = "accepted"

\* The gates of checkout and its read of the latest quote.  Ownership, the
\* company's verification and the rate limit only refuse.
checkoutRead(t) ==
  /\ till[t] = NoTill
  /\ \E b \in called, q \in Quote \cup {NoQuote}, p \in Payment :
       /\ isLatest(b, q) /\ agreedPrice(q) /\ isNextPayment(p)
       /\ goes(t, [NoTill EXCEPT !.step = "quoted", !.booking = b, !.quote = q, !.payment = p])
  /\ UNCHANGED <<cashVars, providerVars, refundRows>>

typeFor(q) == IF q = NoQuote THEN "deposit" ELSE "booking"

\* Is a deposit already held, is this invoice already paid?
checkoutPrice(t) ==
  LET b == till[t].booking
      q == till[t].quote
  IN  /\ till[t].step = "quoted"
      /\ invoicesOf(b, typeFor(q), "paid") = {}
      /\ goes(t, [till[t] EXCEPT !.step = "priced",
                    !.deposit = (q = NoQuote \/ invoicesOf(b, "deposit", "paid") = {})])
      /\ UNCHANGED <<cashVars, providerVars, refundRows>>

checkoutRefused(t) ==
  /\ till[t].step = "quoted"
  /\ invoicesOf(till[t].booking, typeFor(till[t].quote), "paid") # {}
  /\ goes(t, NoTill)
  /\ UNCHANGED <<cashVars, providerVars, refundRows>>

\* Look for an issued invoice to reuse.
checkoutFind(t) ==
  LET open == invoicesOf(till[t].booking, typeFor(till[t].quote), "issued") IN
  /\ till[t].step = "priced"
  /\ \E i \in IF open = {} THEN {NoInvoice} ELSE open :
       goes(t, [till[t] EXCEPT !.step = "found", !.invoice = i])
  /\ UNCHANGED <<cashVars, providerVars, refundRows>>

\* POST /me/invoices/:id/checkout pays an issued weekly invoice.
checkoutInvoice(t) ==
  /\ till[t] = NoTill
  /\ \E i \in Invoice, p \in Payment :
       /\ invoice[i].type = "weekly" /\ invoice[i].status = "issued" /\ isNextPayment(p)
       /\ goes(t, [NoTill EXCEPT !.step = "found", !.invoice = i, !.payment = p])
  /\ UNCHANGED <<cashVars, providerVars, refundRows>>

\* Insert the invoice if none was found, then start an online session or note
\* that the customer will pay cash; COMMIT.
checkoutCommit(t) ==
  /\ till[t].step = "found"
  /\ \E i \in Invoice :
       /\ IF till[t].invoice # NoInvoice
            THEN i = till[t].invoice /\ UNCHANGED invoice
            ELSE /\ isNextInvoice(i)
                 /\ invoice' = [invoice EXCEPT ![i] =
                      [status |-> "issued", booking |-> till[t].booking,
                       type |-> typeFor(till[t].quote), quote |-> till[t].quote,
                       deposit |-> till[t].deposit]]
       /\ \E method \in {"online", "cash"} :
            /\ payment' = [payment EXCEPT ![till[t].payment] =
                 [status |-> "pending", invoice |-> i, method |-> method, proof |-> "none"]]
            /\ session' = IF method = "cash" THEN session
                          ELSE [session EXCEPT ![till[t].payment] = "open"]
  /\ goes(t, NoTill)
  /\ UNCHANGED <<called, confirmed, attemptFailed, refund, refundRows>>

\* The weekly billing job invoices a rental that is under way.
issueWeekly(b) ==
  /\ b \in confirmed
  /\ Cardinality({i \in Invoice : invoice[i].status # "absent" /\ invoice[i].type = "weekly"}) < NWeekly
  /\ \E i \in Invoice :
       /\ isNextInvoice(i)
       /\ invoice' = [invoice EXCEPT ![i] =
            [AbsentInvoice EXCEPT !.status = "issued", !.booking = b]]
  /\ UNCHANGED <<called, confirmed, payment, providerVars, refundRows, till>>

-----------------------------------------------------------------------------
(* PayMongo.                                                                *)

\* The customer pays an open session: what the invoice says, or not.
customerPays(p) ==
  /\ session[p] = "open"
  /\ \E s \in {"collected", "mismatch"} : session' = [session EXCEPT ![p] = s]
  /\ UNCHANGED <<cashVars, attemptFailed, refund, refundRows, till>>

\* An attempt on an open session fails; the session can still be paid.
attemptFails(p) ==
  /\ session[p] = "open" /\ p \notin attemptFailed
  /\ attemptFailed' = attemptFailed \cup {p}
  /\ UNCHANGED <<cashVars, session, refund, refundRows, till>>

-----------------------------------------------------------------------------
(* Settling.                                                                *)

\* settleInvoice: the invoice is paid, and its booking confirmed.
settled(i) ==
  /\ invoice' = [invoice EXCEPT ![i].status = "paid"]
  /\ confirmed' = IF invoice[i].type \in {"booking", "deposit"}
                    THEN confirmed \cup {invoice[i].booking} ELSE confirmed

\* Mutants of settles: the amount collected is not compared; only a payments
\* row still pending is settled.
settlesAnyAmount(p) == /\ invoice[payment[p].invoice].status = "issued"
                       /\ session[p] \in {"collected", "mismatch"}
settlesPending(p) == /\ invoice[payment[p].invoice].status = "issued"
                     /\ session[p] = "collected" /\ payment[p].status = "pending"

\* settleOnlinePayment's checks on a paid session of ours; a mismatch only
\* alerts staff.
settles(p) == /\ invoice[payment[p].invoice].status = "issued"
              /\ session[p] = "collected"

\* The webhook checkout_session.payment.paid, first delivery or any later one.
webhookPaid(t, p) ==
  /\ till[t] = NoTill
  /\ payment[p].status # "absent" /\ settles(p)
  /\ goes(t, [NoTill EXCEPT !.step = "settle", !.payment = p])
  /\ UNCHANGED <<cashVars, providerVars, refundRows>>

\* POST /me/invoices/:id/confirm-payment: the return check asks PayMongo about
\* the invoice's latest pending payment.
confirmPayment(t) ==
  /\ till[t] = NoTill
  /\ \E i \in Invoice, p \in Payment :
       /\ isLatestIn(p, pendingOf(i)) /\ payment[p].method = "online"
       /\ settles(p)
       /\ goes(t, [NoTill EXCEPT !.step = "settle", !.payment = p])
  /\ UNCHANGED <<cashVars, providerVars, refundRows>>

\* Both end alike: the payments row is paid and its invoice settled; COMMIT.
settleCommit(t) ==
  LET p == till[t].payment IN
  /\ till[t].step = "settle"
  /\ payment' = [payment EXCEPT ![p].status = "paid", ![p].proof = "provider"]
  /\ settled(payment[p].invoice)
  /\ goes(t, NoTill)
  /\ UNCHANGED <<called, providerVars, refundRows>>

\* The webhook payment.failed marks the invoice's latest pending payment,
\* whichever session the attempt was made in.
webhookFailed(t) ==
  /\ till[t] = NoTill
  /\ \E f \in attemptFailed, p \in Payment :
       /\ isLatestIn(p, pendingOf(payment[f].invoice))
       /\ goes(t, [NoTill EXCEPT !.step = "fail", !.payment = p])
  /\ UNCHANGED <<cashVars, providerVars, refundRows>>

failCommit(t) ==
  /\ till[t].step = "fail"
  /\ payment' = [payment EXCEPT ![till[t].payment].status = "failed"]
  /\ goes(t, NoTill)
  /\ UNCHANGED <<called, confirmed, invoice, providerVars, refundRows>>

-----------------------------------------------------------------------------
(* POST /invoices/:id/cash-payment: staff record cash in hand.              *)

pendingCash(i) == {p \in pendingOf(i) : payment[p].method = "cash"}

recordCashRead(t) ==
  /\ till[t] = NoTill
  /\ \E i \in Invoice, p \in Payment :
       /\ invoice[i].status = "issued"
       /\ IF pendingCash(i) = {} THEN isNextPayment(p) ELSE p \in pendingCash(i)
       /\ goes(t, [NoTill EXCEPT !.step = "receipt", !.invoice = i, !.payment = p])
  /\ UNCHANGED <<cashVars, providerVars, refundRows>>

recordCashCommit(t) ==
  LET i == till[t].invoice IN
  /\ till[t].step = "receipt"
  /\ payment' = [payment EXCEPT ![till[t].payment] =
       [status |-> "paid", invoice |-> i, method |-> "cash", proof |-> "staff"]]
  /\ settled(i)
  /\ goes(t, NoTill)
  /\ UNCHANGED <<called, providerVars, refundRows>>

-----------------------------------------------------------------------------
(* Refunds.                                                                 *)

paidOf(i) == {p \in Payment : payment[p].invoice = i /\ payment[p].status = "paid"}

\* POST /invoices/:id/refund of the latest paid payment.  PayMongo refuses to
\* give back more than it collected: one full refund a payment stands for all.
askRefund(i) ==
  /\ \E p \in Payment :
       /\ isLatestIn(p, paidOf(i)) /\ payment[p].proof = "provider"
       /\ refund[p] = "none"
       /\ refund' = [refund EXCEPT ![p] = "requested"]
  /\ UNCHANGED <<cashVars, session, attemptFailed, refundRows, till>>

providerRefunds(p) ==
  /\ refund[p] = "requested"
  /\ refund' = [refund EXCEPT ![p] = "succeeded"]
  /\ UNCHANGED <<cashVars, session, attemptFailed, refundRows, till>>

\* Mutant of refundedPayment: the payment must still be marked paid.
stillPaid(p) == payment[p].status = "paid"

\* The payment a refund event is about, found by PayMongo's id of it.
refundedPayment(p) == payment[p].proof = "provider"

\* The webhook payment.refund.updated: a row keyed on the refund's id, ON
\* CONFLICT DO NOTHING.
webhookRefund(p) ==
  /\ refund[p] = "succeeded"
  /\ refundedPayment(p)
  /\ refundRows' = [refundRows EXCEPT ![p] = 1]
  /\ UNCHANGED <<cashVars, providerVars, till>>

-----------------------------------------------------------------------------
TillStep(t) ==
  \/ checkoutRead(t) \/ checkoutPrice(t) \/ checkoutRefused(t) \/ checkoutFind(t)
  \/ checkoutInvoice(t) \/ checkoutCommit(t)
  \/ \E p \in Payment : webhookPaid(t, p)
  \/ confirmPayment(t) \/ settleCommit(t)
  \/ webhookFailed(t) \/ failCommit(t)
  \/ recordCashRead(t) \/ recordCashCommit(t)

PaymentStep ==
  \/ \E t \in Till : TillStep(t)
  \/ \E b \in Booking : confirmCall(b) \/ issueWeekly(b)
  \/ \E p \in Payment : \/ customerPays(p) \/ attemptFails(p)
                         \/ providerRefunds(p) \/ webhookRefund(p)
  \/ \E i \in Invoice : askRefund(i)

\* Nothing is open; the parties may leave it at that.
atRest == /\ \A t \in Till : till[t] = NoTill
          /\ \A s \in Seat : seat[s] = NoSeat
          /\ UNCHANGED allVars

PaymentsNext ==
  \/ QuoteStep /\ UNCHANGED payVars
  \/ PaymentStep /\ UNCHANGED quoteVars
  \/ atRest

PaymentsSpec == PaymentsInit /\ [][PaymentsNext]_allVars

\* An open transaction ends, and PayMongo delivers an event again until it has
\* been answered, however busy the server is.
PaymentsFairness ==
  /\ \A t \in Till : WF_allVars(/\ till[t] # NoTill /\ TillStep(t)
                                /\ UNCHANGED quoteVars)
  /\ \A p \in Payment :
       /\ SF_allVars((\E t \in Till : webhookPaid(t, p)) /\ UNCHANGED quoteVars)
       /\ WF_allVars(webhookRefund(p) /\ UNCHANGED quoteVars)

PaymentsFairSpec == PaymentsSpec /\ PaymentsFairness

-----------------------------------------------------------------------------
(* Properties.                                                              *)

InvoiceRow == [status : {"absent", "issued", "paid"}, booking : Booking \cup {None},
               type : InvoiceType, quote : Quote \cup {NoQuote}, deposit : BOOLEAN]
PaymentRow == [status : {"absent", "pending", "paid", "failed"},
               invoice : Invoice \cup {NoInvoice}, method : {"online", "cash"},
               proof : {"none", "provider", "staff"}]
TillRow == [step : {"idle", "quoted", "priced", "found", "settle", "fail", "receipt"},
            booking : Booking \cup {None}, quote : Quote \cup {NoQuote}, deposit : BOOLEAN,
            invoice : Invoice \cup {NoInvoice}, payment : Payment \cup {NoPayment}]

\* Every variable has its type.
PaymentsTypeOK ==
  /\ QuotesTypeOK
  /\ called \subseteq Booking /\ confirmed \subseteq Booking
  /\ invoice \in [Invoice -> InvoiceRow]
  /\ payment \in [Payment -> PaymentRow]
  /\ session \in [Payment -> {"none", "open", "collected", "mismatch"}]
  /\ attemptFailed \subseteq Payment
  /\ refund \in [Payment -> {"none", "requested", "succeeded"}]
  /\ refundRows \in [Payment -> {0, 1}]
  /\ till \in [Till -> TillRow]

\* Rent is charged only at the total of a quote the customer accepted, whose
\* contract fixes the deposit, however the quotes move on while the checkout
\* runs ("paying before the price is agreed is how a customer ends up charged
\* for a number they never saw"); nobody pays before the confirming call.
ChargedPriceAgreed ==
  \A i \in Invoice : invoice[i].type \in {"booking", "deposit"} =>
    /\ invoice[i].booking \in called
    /\ invoice[i].type = "booking" => invoice[i].quote # NoQuote /\ contracts[invoice[i].quote] > 0

\* An invoice is paid, and a booking confirmed, only by money: PayMongo
\* collected exactly the invoice's amount, or staff recorded cash in hand.
backed(i) == \E p \in Payment :
  /\ payment[p].invoice = i
  /\ \/ payment[p].proof = "provider" /\ session[p] = "collected"
     \/ payment[p].proof = "staff"
PaidByMoney ==
  /\ \A i \in Invoice : invoice[i].status = "paid" => backed(i)
  /\ \A b \in confirmed : \E i \in Invoice :
       invoice[i].booking = b /\ invoice[i].status = "paid" /\ invoice[i].type # "weekly"

\* Money PayMongo collected for an invoice settles it, though the attempt was
\* marked failed before, the customer never came back, or events were late.
isSettled(p) == \E i \in Invoice : payment[p].invoice = i /\ invoice[i].status = "paid"
CollectedSettles == \A p \in Payment : session[p] = "collected" ~> isSettled(p)

\* A refund that succeeded is on the ledger in the end, whatever has happened to
\* the payment's status in between.
RefundShown == \A p \in Payment : refund[p] = "succeeded" ~> refundRows[p] = 1
=============================================================================
