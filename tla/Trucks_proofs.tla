----------------------------- MODULE Trucks_proofs -----------------------------
(***************************************************************************)
(* The charge of a truck request, for any prices, any number of invoices and  *)
(* of transactions open at once: it is within what the customer accepted, it  *)
(* is made once, and a cancelled request stays cancelled; each under the       *)
(* exception that the property states.                                        *)
(***************************************************************************)
EXTENDS Trucks, FiniteSetTheorems, TLAPS

\* The cap, and what an open transaction is going to write, are prices.
Priced ==
  \A t \in Tx : /\ tx[t].op \in {"approve", "checkout"} => tx[t].price \in Price
                /\ tx[t].op = "km" => tx[t].status # "none"

accepted(p) == \E q \in okayed : p <= q

\* The cap, and all that is about to be the cap or to be charged, was accepted.
CapAccepted ==
  outdated \/ /\ accepted(request.cap)
              /\ \A t \in Tx : tx[t].op \in {"approve", "checkout"} => accepted(tx[t].price)

\* A request that was paid is over, and nothing that is open brings it back; one
\* that was cancelled has nothing open that would.
OverOnce ==
  raced \/
    /\ \A i, j \in issued \cup paid : i = j
    /\ paid # {} =>
         /\ request.status \in {"paid", "cancelled"}
         /\ \A t \in Tx : tx[t].op \notin {"agree", "checkout"}
         /\ \A t \in Tx : tx[t].op = "km" => tx[t].status = "paid"
    /\ request.status = "cancelled" => pending({"km", "agree"}) = {}

IInv == TypeOK /\ Priced /\ CapAccepted /\ ChargedWithinOk /\ OverOnce

Txs == [op : {"none", "km", "agree", "approve", "checkout"},
        status : {"none", "km_confirmed", "agreed", "paid"}, price : Price \cup {NoPrice}]
Requests == [status : {"estimated", "km_confirmed", "agreed", "paid", "cancelled"},
             agreed : Price \cup {NoPrice}, cap : Price, called : BOOLEAN]

LEMMA InitIInv == Init => IInv
<1> SUFFICES ASSUME Init PROVE IInv
  OBVIOUS
<1> PICK cap \in Price :
      /\ request = [status |-> "estimated", agreed |-> NoPrice, cap |-> cap, called |-> FALSE]
      /\ okayed = {cap}
  BY DEF Init
<1>1. issued = {} /\ paid = {}
  BY DEF Init, issued, paid
<1>2. TypeOK
  BY <1>1 DEF Init, TypeOK, Idle
<1>3. Priced /\ OverOnce
  BY <1>1 DEF Init, Priced, OverOnce, Idle
<1>4. CapAccepted /\ ChargedWithinOk
  BY <1>1, PriceAssumption DEF Init, CapAccepted, ChargedWithinOk, accepted, Idle
<1> QED
  BY <1>2, <1>3, <1>4 DEF IInv

-----------------------------------------------------------------------------
\* What a transaction that opens or closes does to the others.
LEMMA OpensTx ==
  ASSUME TypeOK, NEW t \in Tx, NEW row \in Txs, opens(t, row)
  PROVE  /\ tx' \in [Tx -> Txs] /\ tx'[t] = row /\ tx[t].op = "none"
         /\ \A x \in Tx \ {t} : tx'[x] = tx[x]
BY DEF TypeOK, opens, Txs, Idle

LEMMA ClosesTx ==
  ASSUME TypeOK, NEW t \in Tx, closes(t)
  PROVE  /\ tx' \in [Tx -> Txs] /\ tx'[t].op = "none"
         /\ \A x \in Tx : tx'[x].op # "none" => tx'[x] = tx[x] /\ x # t
<1>1. Idle \in Txs /\ Idle.op = "none"
  BY DEF Idle, Txs
<1> QED
  BY <1>1 DEF TypeOK, closes, Txs

\* The parts of the invariant that read the invoices hold if they are left alone.
LEMMA SameInvoices ==
  ASSUME TypeOK, invoice' = invoice
  PROVE  /\ issued' = issued /\ paid' = paid
         /\ ChargedWithinOk /\ okayed \subseteq okayed' /\ (outdated => outdated')
              => ChargedWithinOk'
BY DEF issued, paid, ChargedWithinOk

LEMMA ConfirmKmIInv == ASSUME IInv, NEW t \in Tx, confirmKm(t) PROVE IInv'
<1> USE DEF IInv
<1> DEFINE row == [op |-> "km", price |-> NoPrice,
                   status |-> IF request.status = "estimated" THEN "km_confirmed"
                              ELSE request.status]
<1>1. opens(t, row) /\ request.status # "cancelled"
      /\ UNCHANGED <<request, invoice, verified, page, okayed, outdated, raced>>
  BY DEF confirmKm, history
<1>2. row \in Txs
  BY <1>1 DEF TypeOK, Txs
<1>3. row.op = "km" /\ row.status # "none" /\ (request.status = "paid" => row.status = "paid")
  BY <1>1 DEF TypeOK
<1> HIDE DEF row
<1>4. TypeOK'
  BY <1>1, <1>2, OpensTx, SameInvoices DEF TypeOK, Txs
<1>5. Priced' /\ CapAccepted'
  BY <1>1, <1>2, <1>3, OpensTx DEF Priced, CapAccepted, accepted
<1>6. ChargedWithinOk'
  BY <1>1, SameInvoices
<1>7. OverOnce'
  BY <1>1, <1>2, <1>3, OpensTx, SameInvoices DEF OverOnce, pending
<1> QED
  BY <1>4, <1>5, <1>6, <1>7

LEMMA AgreeIInv == ASSUME IInv, NEW t \in Tx, NEW p \in Price, agree(t, p) PROVE IInv'
<1> USE DEF IInv
<1> DEFINE row == [op |-> "agree", price |-> p, status |-> "agreed"]
<1>1. opens(t, row) /\ ~closed
      /\ UNCHANGED <<request, invoice, verified, page, okayed, outdated, raced>>
  BY DEF agree, history
<1>2. row \in Txs /\ row.op = "agree"
  BY DEF Txs
<1> HIDE DEF row
<1>3. TypeOK'
  BY <1>1, <1>2, OpensTx, SameInvoices DEF TypeOK, Txs
<1>4. Priced' /\ CapAccepted'
  BY <1>1, <1>2, OpensTx DEF Priced, CapAccepted, accepted
<1>5. ChargedWithinOk'
  BY <1>1, SameInvoices
<1>6. OverOnce'
  BY <1>1, <1>2, OpensTx, SameInvoices DEF OverOnce, pending, closed
<1> QED
  BY <1>3, <1>4, <1>5, <1>6

LEMMA ApproveIInv == ASSUME IInv, NEW t \in Tx, approveOverCap(t) PROVE IInv'
<1> USE DEF IInv
<1> DEFINE row == [op |-> "approve", price |-> request.agreed, status |-> "agreed"]
<1>1. opens(t, row) /\ request.agreed \in Price /\ page.price \in Price
      /\ UNCHANGED <<request, invoice, verified, page, raced>>
      /\ okayed' = okayed \cup {page.price}
      /\ outdated' = (outdated \/ page.price # request.agreed)
  <2>1. page.cap \in Price \cup {NoPrice} /\ page.price \in Price \cup {NoPrice}
    BY DEF TypeOK
  <2>2. page.cap \in Nat
    <3>1. \A p \in Price \cup {NoPrice} : p \in Nat
      BY PriceAssumption DEF NoPrice
    <3> QED
      BY <2>1, <3>1
  <2> QED
    BY <2>1, <2>2 DEF approveOverCap, TypeOK, NoPrice
<1>2. row \in Txs /\ row.op = "approve" /\ row.price = request.agreed
  BY <1>1 DEF Txs
<1> HIDE DEF row
<1>3. TypeOK'
  BY <1>1, <1>2, OpensTx, SameInvoices DEF TypeOK, Txs
<1>4. Priced'
  BY <1>1, <1>2, OpensTx DEF Priced
<1>5. outdated' \/ (accepted(request.agreed)' /\ \A q \in Price : accepted(q) => accepted(q)')
  <2>1. \A q \in Price : accepted(q) => accepted(q)'
    BY <1>1 DEF accepted
  <2>2. ~outdated' => page.price = request.agreed /\ request'.agreed = request.agreed
    BY <1>1
  <2>3. page.price \in okayed' /\ page.price <= page.price
    <3>1. \A p \in Price : p <= p
      BY PriceAssumption
    <3> QED
      BY <1>1, <3>1
  <2> QED
    BY <2>1, <2>2, <2>3 DEF accepted
<1>6. CapAccepted'
  BY <1>1, <1>2, <1>5, OpensTx DEF CapAccepted, Priced, TypeOK
<1>7. ChargedWithinOk'
  BY <1>1, SameInvoices
<1>8. OverOnce'
  BY <1>1, <1>2, OpensTx, SameInvoices DEF OverOnce, pending
<1> QED
  BY <1>3, <1>4, <1>6, <1>7, <1>8

LEMMA CheckoutIInv == ASSUME IInv, NEW t \in Tx, checkoutTruck(t) PROVE IInv'
<1> USE DEF IInv
<1> DEFINE row == [op |-> "checkout", price |-> request.agreed, status |-> "agreed"]
<1>1. opens(t, row) /\ chargeable
      /\ UNCHANGED <<request, invoice, verified, page, okayed, outdated>>
      /\ raced' = (raced \/ pending({"checkout"}) # {})
  BY DEF checkoutTruck
<1>2. request.agreed \in Price /\ request.agreed <= request.cap /\ request.status = "agreed"
  BY <1>1 DEF chargeable, withinCap, TypeOK, NoPrice
<1>3. row \in Txs /\ row.op = "checkout" /\ row.price = request.agreed
  BY <1>2 DEF Txs
<1> HIDE DEF row
<1>4. TypeOK'
  BY <1>1, <1>3, OpensTx, SameInvoices DEF TypeOK, Txs
<1>5. Priced'
  BY <1>2, <1>3, <1>1, OpensTx DEF Priced
<1>6. outdated \/ accepted(request.agreed)
  <2> SUFFICES ASSUME ~outdated PROVE accepted(request.agreed)
    OBVIOUS
  <2>1. PICK q \in okayed : request.cap <= q
    BY DEF CapAccepted, accepted
  <2>2. request.cap \in Nat /\ q \in Nat /\ request.agreed \in Nat
    BY <1>2, PriceAssumption DEF TypeOK
  <2>3. request.agreed <= q
    BY <1>2, <2>1, <2>2
  <2> QED
    BY <2>3 DEF accepted
<1>7. CapAccepted'
  BY <1>1, <1>3, <1>6, OpensTx DEF CapAccepted, accepted
<1>8. ChargedWithinOk'
  BY <1>1, SameInvoices
<1>9. OverOnce'
  BY <1>1, <1>2, <1>3, OpensTx, SameInvoices DEF OverOnce, pending
<1> QED
  BY <1>4, <1>5, <1>7, <1>8, <1>9

-----------------------------------------------------------------------------
\* A distance, a price or a cap is written by id.
LEMMA WriteKmIInv == ASSUME IInv, NEW t \in Tx, writeKm(t) PROVE IInv'
<1> USE DEF IInv
<1>1. closes(t) /\ tx[t].op = "km"
      /\ UNCHANGED <<invoice, verified, page, okayed, outdated, raced>>
  BY DEF writeKm, history
<1>2. /\ request'.status = tx[t].status /\ request'.cap = request.cap
      /\ request' \in Requests
  BY DEF writeKm, TypeOK, Priced, Requests
<1>3. tx[t].status # "none" /\ tx[t].status # "cancelled"
  BY <1>1 DEF Priced, TypeOK
<1>4. TypeOK'
  BY <1>1, <1>2, ClosesTx, SameInvoices DEF TypeOK, Txs, Requests
<1>5. Priced' /\ CapAccepted'
  BY <1>1, <1>2, ClosesTx DEF Priced, CapAccepted, accepted
<1>6. ChargedWithinOk'
  BY <1>1, SameInvoices
<1>7. OverOnce'
  BY <1>1, <1>2, <1>3, ClosesTx, SameInvoices DEF OverOnce
<1> QED
  BY <1>4, <1>5, <1>6, <1>7

LEMMA WriteAgreedIInv == ASSUME IInv, NEW t \in Tx, writeAgreed(t) PROVE IInv'
<1> USE DEF IInv
<1>1. closes(t) /\ tx[t].op = "agree"
      /\ UNCHANGED <<invoice, verified, page, okayed, outdated, raced>>
  BY DEF writeAgreed, history
<1>2. /\ request'.status = "agreed" /\ request'.cap = request.cap
      /\ request' \in Requests
  BY DEF writeAgreed, TypeOK, Requests
<1>3. TypeOK'
  BY <1>1, <1>2, ClosesTx, SameInvoices DEF TypeOK, Txs, Requests
<1>4. Priced' /\ CapAccepted'
  BY <1>1, <1>2, ClosesTx DEF Priced, CapAccepted, accepted
<1>5. ChargedWithinOk'
  BY <1>1, SameInvoices
<1>6. OverOnce'
  BY <1>1, <1>2, ClosesTx, SameInvoices DEF OverOnce
<1> QED
  BY <1>3, <1>4, <1>5, <1>6

LEMMA WriteCapIInv == ASSUME IInv, NEW t \in Tx, writeCap(t) PROVE IInv'
<1> USE DEF IInv
<1>1. closes(t) /\ tx[t].op = "approve" /\ tx[t].price \in Price
      /\ UNCHANGED <<invoice, verified, page, okayed, outdated, raced>>
  BY DEF writeCap, history, Priced
<1>2. /\ request'.status = request.status /\ request'.cap = tx[t].price
      /\ request' \in Requests
  BY <1>1 DEF writeCap, TypeOK, Requests
<1>3. TypeOK'
  BY <1>1, <1>2, ClosesTx, SameInvoices DEF TypeOK, Txs, Requests
<1>4. Priced' /\ CapAccepted'
  BY <1>1, <1>2, ClosesTx DEF Priced, CapAccepted, accepted
<1>5. ChargedWithinOk'
  BY <1>1, SameInvoices
<1>6. OverOnce'
  BY <1>1, <1>2, ClosesTx, SameInvoices DEF OverOnce, pending
<1> QED
  BY <1>3, <1>4, <1>5, <1>6

LEMMA ConfirmCallIInv == IInv /\ confirmCall => IInv'
<1> SUFFICES ASSUME IInv, confirmCall PROVE IInv'
  OBVIOUS
<1> USE DEF IInv
<1>1. UNCHANGED <<invoice, verified, page, tx, okayed, outdated, raced>>
  BY DEF confirmCall, history
<1>2. request'.status = request.status /\ request'.cap = request.cap /\ request' \in Requests
  BY DEF confirmCall, TypeOK, Requests
<1>3. TypeOK'
  BY <1>1, <1>2, SameInvoices DEF TypeOK, Requests
<1>4. Priced' /\ CapAccepted' /\ ChargedWithinOk'
  BY <1>1, <1>2, SameInvoices DEF Priced, CapAccepted, accepted
<1>5. OverOnce'
  BY <1>1, <1>2, SameInvoices DEF OverOnce, pending
<1> QED
  BY <1>3, <1>4, <1>5

LEMMA ElsewhereIInv == IInv /\ (review \/ look) => IInv'
<1> SUFFICES ASSUME IInv, review \/ look PROVE IInv'
  OBVIOUS
<1> USE DEF IInv
<1>1. UNCHANGED <<request, invoice, tx, okayed, outdated, raced>>
  BY DEF review, look, history
<1>2. verified' \in BOOLEAN
  BY DEF review, look, TypeOK
<1>3. page' \in [price : Price \cup {NoPrice}, cap : Price \cup {NoPrice}]
  BY DEF review, look, TypeOK
<1>4. TypeOK'
  BY <1>1, <1>2, <1>3, SameInvoices DEF TypeOK
<1>5. Priced' /\ CapAccepted' /\ ChargedWithinOk'
  BY <1>1, SameInvoices DEF Priced, CapAccepted, accepted
<1>6. OverOnce'
  BY <1>1, SameInvoices DEF OverOnce, pending
<1> QED
  BY <1>4, <1>5, <1>6

LEMMA CancelIInv == IInv /\ cancelOwn => IInv'
<1> SUFFICES ASSUME IInv, cancelOwn PROVE IInv'
  OBVIOUS
<1> USE DEF IInv
<1>1. UNCHANGED <<invoice, verified, page, tx, okayed, outdated>>
      /\ raced' = (raced \/ pending({"km", "agree"}) # {})
  BY DEF cancelOwn
<1>2. request'.status = "cancelled" /\ request'.cap = request.cap /\ request' \in Requests
  BY DEF cancelOwn, TypeOK, Requests
<1>3. TypeOK'
  BY <1>1, <1>2, SameInvoices DEF TypeOK, Requests
<1>4. Priced' /\ CapAccepted' /\ ChargedWithinOk'
  BY <1>1, <1>2, SameInvoices DEF Priced, CapAccepted, accepted
<1>5. OverOnce'
  BY <1>1, <1>2, SameInvoices DEF OverOnce, pending
<1> QED
  BY <1>3, <1>4, <1>5

-----------------------------------------------------------------------------
\* The invoice of a checkout is issued at a price that was accepted, and beside no
\* other that is to be paid.
LEMMA IssueIInv == ASSUME IInv, NEW t \in Tx, issueTruck(t) PROVE IInv'
<1> USE DEF IInv
<1>1. closes(t) /\ tx[t].op = "checkout" /\ tx[t].price \in Price
      /\ UNCHANGED <<request, verified, page, okayed, outdated, raced>>
  BY DEF issueTruck, history, Priced
<1>2. Priced' /\ CapAccepted'
  BY <1>1, ClosesTx DEF Priced, CapAccepted, accepted
<1>3. CASE invoice' = invoice
  <2>1. TypeOK'
    BY <1>1, <1>3, ClosesTx, SameInvoices DEF TypeOK, Txs
  <2>2. ChargedWithinOk'
    BY <1>1, <1>3, SameInvoices
  <2>3. OverOnce'
    BY <1>1, <1>3, ClosesTx, SameInvoices DEF OverOnce, pending
  <2> QED
    BY <1>2, <2>1, <2>2, <2>3
<1>4. ASSUME NEW i \in Invoice, isNext(i), issued = {},
             invoice' = [invoice EXCEPT ![i] = [status |-> "issued", amount |-> tx[t].price]]
      PROVE  IInv'
  <2>1. /\ invoice'[i].status = "issued" /\ invoice'[i].amount = tx[t].price
        /\ \A x \in Invoice \ {i} : invoice'[x] = invoice[x]
    BY <1>4 DEF TypeOK
  <2>2. issued' = {i} /\ paid' = paid
    BY <1>4, <2>1 DEF issued, paid, isNext
  <2>3. TypeOK'
    <3>1. invoice' \in [Invoice -> [status : {"absent", "issued", "paid"},
                                    amount : Price \cup {NoPrice}]]
      BY <1>1, <1>4 DEF TypeOK
    <3>2. \A x \in issued' \cup paid' : invoice'[x].amount # NoPrice
      BY <1>1, <2>1, <2>2, PriceAssumption DEF TypeOK, NoPrice, paid
    <3> QED
      BY <1>1, <3>1, <3>2, ClosesTx DEF TypeOK, Txs
  <2>4. ChargedWithinOk'
    <3> SUFFICES ASSUME ~outdated, NEW x \in issued' \cup paid'
                 PROVE  \E p \in okayed : invoice'[x].amount <= p
      BY <1>1 DEF ChargedWithinOk
    <3>1. CASE x = i
      BY <3>1, <1>1, <2>1 DEF CapAccepted, accepted
    <3>2. CASE x # i
      BY <3>2, <2>1, <2>2 DEF ChargedWithinOk, paid
    <3> QED
      BY <3>1, <3>2
  <2>5. OverOnce'
    <3>1. ~raced => paid = {}
      BY <1>1 DEF OverOnce
    <3> QED
      BY <1>1, <2>2, <3>1, ClosesTx DEF OverOnce, pending
  <2> QED
    BY <1>2, <2>3, <2>4, <2>5
<1> QED
  BY <1>3, <1>4 DEF issueTruck

LEMMA SettleIInv == ASSUME IInv, NEW i \in Invoice, settleInvoice(i) PROVE IInv'
<1> USE DEF IInv
<1>1. UNCHANGED <<verified, page, tx, okayed, outdated>> /\ i \in issued
      /\ raced' = (raced \/ pending({"km", "agree", "checkout"}) # {})
  BY DEF settleInvoice, issued
<1>2. /\ invoice'[i].status = "paid" /\ invoice'[i].amount = invoice[i].amount
      /\ \A x \in Invoice \ {i} : invoice'[x] = invoice[x]
      /\ invoice' \in [Invoice -> [status : {"absent", "issued", "paid"},
                                   amount : Price \cup {NoPrice}]]
  BY DEF settleInvoice, TypeOK
<1>3. request'.status = "paid" /\ request'.cap = request.cap /\ request' \in Requests
  BY DEF settleInvoice, TypeOK, Requests
<1>4. issued' = issued \ {i} /\ paid' = paid \cup {i}
  BY <1>2 DEF issued, paid
<1>5. \A x \in issued' \cup paid' : x \in issued \cup paid /\ invoice'[x].amount = invoice[x].amount
  BY <1>1, <1>2, <1>4 DEF issued, paid
<1>6. TypeOK'
  BY <1>1, <1>2, <1>3, <1>5 DEF TypeOK, Requests
<1>7. Priced' /\ CapAccepted' /\ ChargedWithinOk'
  BY <1>1, <1>3, <1>5 DEF Priced, CapAccepted, accepted, ChargedWithinOk
<1>8. OverOnce'
  <2>1. ~raced' => \A t \in Tx : tx[t].op \notin {"km", "agree", "checkout"}
    BY <1>1 DEF pending
  <2> QED
    BY <1>1, <1>3, <1>5, <2>1 DEF OverOnce
<1> QED
  BY <1>6, <1>7, <1>8

LEMMA NextIInv == IInv /\ [Next]_vars => IInv'
<1> SUFFICES ASSUME IInv, [Next]_vars PROVE IInv'
  OBVIOUS
<1>1. CASE UNCHANGED vars
  BY <1>1 DEF vars, IInv, TypeOK, Priced, CapAccepted, accepted, ChargedWithinOk, OverOnce,
              issued, paid, pending
<1> QED
  BY <1>1, ConfirmKmIInv, AgreeIInv, ApproveIInv, CheckoutIInv, WriteKmIInv, WriteAgreedIInv,
     WriteCapIInv, ConfirmCallIInv, ElsewhereIInv, CancelIInv, IssueIInv, SettleIInv DEF Next

\* Of the invoices that are out or paid, at most one: a set with at most one
\* element.
LEMMA AtMostOne ==
  ASSUME NEW S, \A x, y \in S : x = y
  PROVE  Cardinality(S) <= 1
<1>1. CASE S = {}
  BY <1>1, FS_EmptySet
<1>2. CASE S # {}
  <2>1. PICK x : S = {x}
    BY <1>2
  <2> QED
    BY <2>1, FS_Singleton
<1> QED
  BY <1>1, <1>2

-----------------------------------------------------------------------------
\* The strengthening: what open transactions are about to write was accepted, and
\* a request that is over has none that would bring it back (trucks.service.ts:
\* read, check, write by id).
THEOREM TrucksInductive == Spec => []IInv
BY InitIInv, NextIInv, PTL DEF Spec

\* The types of the request, its invoices and the transactions about it.
THEOREM TrucksTypes == Spec => []TypeOK
BY TrucksInductive, PTL DEF IInv

\* For any prices, and however often one is agreed anew: nothing is charged above
\* every price the customer accepted, on a page that was up to date.
THEOREM WithinOk == Spec => []ChargedWithinOk
BY TrucksInductive, PTL DEF IInv

\* For any number of checkouts: a request is charged once, unless something was
\* being written while it was paid or cancelled.
THEOREM ChargedOnce == Spec => []PaidOnce
<1>1. IInv => PaidOnce
  BY AtMostOne DEF IInv, OverOnce, PaidOnce
<1> QED
  BY <1>1, TrucksInductive, PTL

\* A cancelled request is brought back by nothing but a payment, under the same
\* exception.
THEOREM StaysCancelled == Spec => CancelledStays
<1>1. IInv /\ [Next]_vars => 
        [request.status = "cancelled" /\ request'.status # "cancelled" =>
           raced \/ request'.status = "paid"]_vars
  <2> SUFFICES ASSUME IInv, Next, request.status = "cancelled", request'.status # "cancelled",
                      ~raced
               PROVE  request'.status = "paid"
    OBVIOUS
  <2>1. \A t \in Tx : ~writeKm(t) /\ ~writeAgreed(t)
    BY DEF IInv, OverOnce, pending, writeKm, writeAgreed
  <2>2. ASSUME NEW t \in Tx,
               confirmKm(t) \/ (\E p \in Price : agree(t, p)) \/ approveOverCap(t)
                 \/ checkoutTruck(t) \/ issueTruck(t)
        PROVE  request' = request
    BY <2>2 DEF confirmKm, agree, approveOverCap, checkoutTruck, issueTruck, history
  <2>3. ASSUME NEW t \in Tx, writeCap(t) PROVE request'.status = request.status
    BY <2>3 DEF writeCap, IInv, TypeOK
  <2>4. ASSUME confirmCall PROVE request'.status = request.status
    BY <2>4 DEF confirmCall, IInv, TypeOK
  <2>5. ASSUME review \/ look PROVE request' = request
    BY <2>5 DEF review, look
  <2>6. ASSUME cancelOwn PROVE request'.status = "cancelled"
    BY <2>6 DEF cancelOwn, IInv, TypeOK
  <2>7. ASSUME NEW i \in Invoice, settleInvoice(i) PROVE request'.status = "paid"
    BY <2>7 DEF settleInvoice, IInv, TypeOK
  <2> QED
    BY <2>1, <2>2, <2>3, <2>4, <2>5, <2>6, <2>7 DEF Next
<1> QED
  BY <1>1, TrucksInductive, PTL DEF Spec, CancelledStays
=============================================================================
