-------------------------------- MODULE Trucks --------------------------------
(***************************************************************************)
(* One request for the self-loading truck, from its estimate to its payment.  *)
(* Staff confirm the distance, agree on a price and call back; the customer   *)
(* may be charged the agreed price up to a cap, the high end of the estimate, *)
(* and above it only once they have approved it.                              *)
(*                                                                           *)
(* A transaction whose check of the row can be stale by the time it writes    *)
(* the row by id is two steps here; the others are one.                       *)
(***************************************************************************)
EXTENDS Naturals, FiniteSets

CONSTANTS
  Price,      \* what is estimated, agreed and charged
  Tx,         \* transactions open at once (bound)
  NInvoice    \* invoices ever issued for the request (bound)

ASSUME PriceAssumption == Price \subseteq Nat \ {0} /\ NInvoice \in Nat

Invoice == 1..NInvoice
NoPrice == 0

VARIABLES
  request,    \* [status, agreed, cap, called]: the truck_requests row
  invoice,    \* [status, amount] of each invoice of the request
  verified,   \* the customer has a company that staff approved
  page,       \* [price, cap] that the customer's page shows
  tx,         \* [op, status, price] of each transaction: what it read, and will write
  okayed,     \* history: the prices the customer has accepted: the estimate's high
              \*   end, and each one shown on a button they pressed
  outdated,   \* history: such a button was pressed on a page that was out of date
  raced       \* history: the request was paid or cancelled under an open
              \*   transaction, or two checkouts were open at once

vars == <<request, invoice, verified, page, tx, okayed, outdated, raced>>
history == <<okayed, outdated, raced>>

Idle == [op |-> "none", status |-> "none", price |-> NoPrice]

\* A new request, its price computed and its cap locked (create).
Init ==
  /\ \E cap \in Price :
       /\ request = [status |-> "estimated", agreed |-> NoPrice, cap |-> cap, called |-> FALSE]
       /\ okayed = {cap}
  /\ invoice = [i \in Invoice |-> [status |-> "absent", amount |-> NoPrice]]
  /\ verified \in BOOLEAN
  /\ page = [price |-> NoPrice, cap |-> NoPrice]
  /\ tx = [t \in Tx |-> Idle]
  /\ outdated = FALSE /\ raced = FALSE

issued == {i \in Invoice : invoice[i].status = "issued"}
paid == {i \in Invoice : invoice[i].status = "paid"}
isNext(i) ==
  /\ invoice[i].status = "absent"
  /\ \A x \in Invoice : x < i => invoice[x].status # "absent"

\* Transactions that have read the row and not yet written.
pending(ops) == {t \in Tx : tx[t].op \in ops}

opens(t, row) == tx[t] = Idle /\ tx' = [tx EXCEPT ![t] = row]
closes(t) == tx' = [tx EXCEPT ![t] = Idle]

\* Mutants of closed: only a payment ends it; only cancelling does.
closedByPayment == request.status = "paid"
closedByCancel == request.status = "cancelled"

\* A negotiation that is over.
closed == request.status \in {"cancelled", "paid"}

-----------------------------------------------------------------------------
(* Staff.                                                                    *)

\* The distance is confirmed, and the price is computed anew: the agreed price and
\* the status of a request that has one stay as they were read.
confirmKm(t) ==
  /\ request.status # "cancelled"
  /\ opens(t, [op |-> "km", price |-> NoPrice,
               status |-> IF request.status = "estimated" THEN "km_confirmed"
                          ELSE request.status])
  /\ UNCHANGED <<request, invoice, verified, page, history>>

writeKm(t) ==
  /\ tx[t].op = "km"
  /\ request' = [request EXCEPT !.status = tx[t].status]
  /\ closes(t)
  /\ UNCHANGED <<invoice, verified, page, history>>

\* A price is agreed, or agreed again.
agree(t, p) ==
  /\ ~closed
  /\ opens(t, [op |-> "agree", price |-> p, status |-> "agreed"])
  /\ UNCHANGED <<request, invoice, verified, page, history>>

writeAgreed(t) ==
  /\ tx[t].op = "agree"
  /\ request' = [request EXCEPT !.status = "agreed", !.agreed = tx[t].price]
  /\ closes(t)
  /\ UNCHANGED <<invoice, verified, page, history>>

confirmCall ==
  /\ request' = [request EXCEPT !.called = TRUE]
  /\ UNCHANGED <<invoice, verified, page, tx, history>>

\* A review of the customer's companies, elsewhere.
review ==
  /\ verified' = ~verified
  /\ UNCHANGED <<request, invoice, page, tx, history>>

-----------------------------------------------------------------------------
(* The customer.                                                             *)

\* The page is loaded, or loaded again.
look ==
  /\ page' = [price |-> IF request.status = "agreed" THEN request.agreed ELSE NoPrice,
              cap |-> request.cap]
  /\ UNCHANGED <<request, invoice, verified, tx, history>>

\* "Approve" and the price shown: the API takes the price of the row it reads.
approveOverCap(t) ==
  /\ page.price > page.cap
  /\ request.status = "agreed" /\ request.agreed # NoPrice
  /\ opens(t, [op |-> "approve", price |-> request.agreed, status |-> "agreed"])
  /\ okayed' = okayed \cup {page.price}
  /\ outdated' = (outdated \/ page.price # request.agreed)
  /\ UNCHANGED <<request, invoice, verified, page, raced>>

writeCap(t) ==
  /\ tx[t].op = "approve"
  /\ request' = [request EXCEPT !.cap = tx[t].price]
  /\ closes(t)
  /\ UNCHANGED <<invoice, verified, page, history>>

\* One update, whatever the request is by now.
cancelOwn ==
  /\ request' = [request EXCEPT !.status = "cancelled"]
  /\ raced' = (raced \/ pending({"km", "agree"}) # {})
  /\ UNCHANGED <<invoice, verified, page, tx, okayed, outdated>>

\* Mutant of withinCap: the cap is only advice.
anyPrice == TRUE

withinCap == request.agreed <= request.cap

\* The gates of a checkout: an agreed price within the cap, a company that was
\* approved, a call that was confirmed.
chargeable ==
  /\ request.status = "agreed" /\ request.agreed # NoPrice
  /\ verified /\ request.called /\ withinCap

checkoutTruck(t) ==
  /\ chargeable
  /\ opens(t, [op |-> "checkout", price |-> request.agreed, status |-> "agreed"])
  /\ raced' = (raced \/ pending({"checkout"}) # {})
  /\ UNCHANGED <<request, invoice, verified, page, okayed, outdated>>

\* An issued invoice is used again as it is; otherwise one is issued.
issueTruck(t) ==
  /\ tx[t].op = "checkout"
  /\ \/ /\ issued # {}
        /\ UNCHANGED invoice
     \/ /\ issued = {}
        /\ \E i \in Invoice :
             /\ isNext(i)
             /\ invoice' = [invoice EXCEPT ![i] = [status |-> "issued", amount |-> tx[t].price]]
  /\ closes(t)
  /\ UNCHANGED <<request, verified, page, history>>

\* Money for an issued invoice: by the webhook, the return check or in cash.
settleInvoice(i) ==
  /\ invoice[i].status = "issued"
  /\ invoice' = [invoice EXCEPT ![i].status = "paid"]
  /\ request' = [request EXCEPT !.status = "paid"]
  /\ raced' = (raced \/ pending({"km", "agree", "checkout"}) # {})
  /\ UNCHANGED <<verified, page, tx, okayed, outdated>>

-----------------------------------------------------------------------------
Next ==
  \/ \E t \in Tx :
       \/ confirmKm(t) \/ writeKm(t) \/ writeAgreed(t) \/ \E p \in Price : agree(t, p)
       \/ approveOverCap(t) \/ writeCap(t) \/ checkoutTruck(t) \/ issueTruck(t)
  \/ confirmCall \/ review \/ look \/ cancelOwn
  \/ \E i \in Invoice : settleInvoice(i)

Spec == Init /\ [][Next]_vars

-----------------------------------------------------------------------------
(* Properties.                                                               *)

\* The variables have their types, and the invoices are numbered as they come.
TypeOK ==
  /\ request \in [status : {"estimated", "km_confirmed", "agreed", "paid", "cancelled"},
                  agreed : Price \cup {NoPrice}, cap : Price, called : BOOLEAN]
  /\ invoice \in [Invoice -> [status : {"absent", "issued", "paid"},
                              amount : Price \cup {NoPrice}]]
  /\ verified \in BOOLEAN
  /\ page \in [price : Price \cup {NoPrice}, cap : Price \cup {NoPrice}]
  /\ tx \in [Tx -> [op : {"none", "km", "agree", "approve", "checkout"},
                    status : {"none", "km_confirmed", "agreed", "paid"},
                    price : Price \cup {NoPrice}]]
  /\ okayed \subseteq Price /\ outdated \in BOOLEAN /\ raced \in BOOLEAN
  /\ \A i \in issued \cup paid : invoice[i].amount # NoPrice

\* "only the customer's OK lifts the cap to that price": nothing is charged above
\* every price the customer has accepted, however often the price was agreed
\* anew; unless they accepted on a page that showed an older one.
ChargedWithinOk ==
  outdated \/ \A i \in issued \cup paid : \E p \in okayed : invoice[i].amount <= p

\* A request is charged once, unless a price, a distance or a checkout was being
\* written while it was paid or cancelled.
PaidOnce == raced \/ Cardinality(issued \cup paid) <= 1

\* A cancelled request stays cancelled, but for the payment of an invoice that was
\* out already; under the same exception.
CancelledStays ==
  [][request.status = "cancelled" /\ request'.status # "cancelled" =>
       raced \/ request'.status = "paid"]_vars
=============================================================================
