-------------------------- MODULE EdtrApproval_proofs --------------------------
(***************************************************************************)
(* Proofs about EdtrApproval for any logs, rentals, clerks, billing runs,  *)
(* readings, rates and deposits: the rows and requests fit together, the   *)
(* deposit is safe, nothing is charged or invoiced twice (what the row     *)
(* locks on both sides of a pair, and on the unbilled accruals, protect),  *)
(* requests never wait in a circle nor all get stuck, what a charge was    *)
(* made from stays as it was, a charge nobody corrected is what two        *)
(* independent logs agree on, and the whole implements DepositAccount and, *)
(* seen from a photographed sheet, SheetCapture.                           *)
(***************************************************************************)
EXTENDS EdtrAccount, FiniteSetTheorems, WellFoundedInduction, TLAPS

-----------------------------------------------------------------------------
(* The inductive invariant, one named part per piece of state.              *)

\* Steps at which a request has passed approve's reads.
Approving == {"read", "own", "pair", "priced"}
OwnLocked == {"own", "pair", "priced"}
PairLocked == {"pair", "priced"}

\* A reconciliation row exists only for a log with line items; it names an
\* older log, which does not name it back.
RowInv ==
  \A l \in Log :
    /\ recon[l].status # "absent" => /\ edtr[l].items \in Reading
                                     /\ edtr[l].status \in pairableStatuses
    /\ recon[l].status = "absent" => recon[l].counterpart = None /\ approvals[l] = 0
    /\ recon[l].status \in {"matched", "discrepancy"} => recon[l].counterpart \in Log
    /\ recon[l].counterpart \in Log =>
         /\ edtr[recon[l].counterpart].status \in pairableStatuses
         /\ recon[l].counterpart # l
         /\ recon[recon[l].counterpart].counterpart # l

\* An open capture is of a log nobody else can see yet, and pairs it with a
\* log that everybody can.
IntakeInv ==
  \A l \in Log :
    intake[l].step = "reconciled" =>
      /\ edtr[l].status \in {"absent", "queued"}
      /\ intake[l].items \in Reading
      /\ intake[l].verdict # "pending" => intake[l].counterpart \in Log
      /\ intake[l].counterpart \in Log =>
           /\ edtr[intake[l].counterpart].status \in pairableStatuses
           /\ intake[l].counterpart # l

\* An open request names a row that exists, and the counterpart that row names.
DeskInv ==
  \A c \in Clerk :
    /\ desk[c].step \in Approving =>
         /\ desk[c].log \in Log /\ desk[c].counterpart \in Log
         /\ recon[desk[c].log].counterpart = desk[c].counterpart
         /\ recon[desk[c].log].status # "absent"
    /\ desk[c].step = "rejecting" =>
         /\ desk[c].log \in Log
         /\ recon[desk[c].log].status # "absent"

IInv == TypeOK /\ RowInv /\ IntakeInv /\ DeskInv

-----------------------------------------------------------------------------
(* What the arithmetic returns.                                             *)

\* The balance read under the rental's lock is an amount (edtr.service.ts:652).
LEMMA BalanceType ==
  ASSUME NEW d \in Nat, NEW x \in Nat
  PROVE  balanceOf(d, x) \in Nat /\ (x <= d => balanceOf(d, x) = d - x)
BY DEF balanceOf, Greater

\* splitDeduction takes no more than the balance and accounts for the whole
\* amount; it accrues only what an emptied balance leaves (deposit-ledger.ts:75).
LEMMA SplitExact ==
  ASSUME NEW b \in Nat, NEW a \in Nat
  PROVE  LET s == splitDeduction(b, a) IN
         /\ s.deducted \in Nat /\ s.accrued \in Nat /\ s.balanceAfter \in Nat
         /\ s.deducted + s.accrued = a
         /\ s.balanceAfter = b - s.deducted
         /\ s.accrued > 0 => s.balanceAfter = 0
BY DEF splitDeduction, Greater, Lesser

\* The product of two amounts is an amount.
LEMMA ProductType == ASSUME NEW x \in Nat, NEW y \in Nat PROVE x * y \in Nat
OBVIOUS

\* A priced request bills a natural number of hours at a natural price.
LEMMA ChargeType ==
  ASSUME TypeOK, RowInv, DeskInv, NEW c \in Clerk, desk[c].step = "priced"
  PROVE  billableHours(c) \in Nat /\ charge(c) \in Nat
<1>1. desk[c].log \in Log /\ edtr[desk[c].log].items \in Reading
  BY DEF DeskInv, RowInv, Approving
<1>2. billableHours(c) \in Nat
  BY <1>1, ColumnAssumption DEF billableHours, TypeOK, Request
<1>3. Rate[desk[c].log] \in Nat
  BY <1>1, ColumnAssumption
<1> QED BY <1>2, <1>3, ProductType DEF charge

-----------------------------------------------------------------------------
(* Types and row structure.                                                 *)

LEMMA InitIInv == Init => IInv
<1> SUFFICES ASSUME Init PROVE IInv
  OBVIOUS
<1>1. TypeOK
  BY NoneAssumption, ColumnAssumption
  DEF Init, TypeOK, EdtrRow, ReconRow, IntakeRow, Request, AccrualRow, Billing, NoRecon, NoIntake, NoRequest, NoAccrual, NoBilling,
      EdtrStatus, ReconStatus, Payload
<1>2. RowInv /\ IntakeInv /\ DeskInv
  BY NoneAssumption
  DEF Init, RowInv, IntakeInv, DeskInv, NoRecon, NoIntake, NoRequest, Approving
<1> QED BY <1>1, <1>2 DEF IInv

-----------------------------------------------------------------------------
(* Every action preserves IInv.                                             *)

\* Setting one row's status, or one request's step, keeps the table's type.
LEMMA StatusUpdate ==
  ASSUME NEW f \in [Log -> EdtrRow], NEW l \in Log, NEW s \in EdtrStatus
  PROVE  [f EXCEPT ![l].status = s] \in [Log -> EdtrRow]
BY DEF EdtrRow

LEMMA StepUpdate ==
  ASSUME NEW f \in [Clerk -> Request], NEW c \in Clerk,
         NEW s \in {"idle", "read", "own", "pair", "priced", "rejecting"}
  PROVE  [f EXCEPT ![c].step = s] \in [Clerk -> Request]
BY DEF Request

\* The outcome of a reconciliation is a status.
LEMMA VerdictType ==
  ASSUME NEW l, NEW items, NEW confidence, NEW m
  PROVE  verdict(l, items, confidence, m) \in {"matched", "discrepancy"}
BY DEF verdict

\* reconcileRead opens a capture of l with the given line items.
LEMMA ReconcileReadOpens ==
  ASSUME TypeOK, NEW l \in Log, NEW items \in Reading, NEW p \in Payload,
         NEW conf \in Confidence \cup {100}, NEW held \in BOOLEAN,
         reconcileRead(l, items, p, conf, held)
  PROVE  \E t \in IntakeRow :
           /\ intake' = [intake EXCEPT ![l] = t]
           /\ t.items = items
           /\ t.verdict # "pending" => t.counterpart \in Log
           /\ t.counterpart \in Log => t.counterpart \in candidates(l)
<1>1. PICK m \in IF candidates(l) = {} THEN {None} ELSE candidates(l) :
        intake' = [intake EXCEPT ![l] =
          [step |-> "reconciled", items |-> items, payload |-> p,
           confidence |-> conf, held |-> held, counterpart |-> m,
           verdict |-> IF m = None THEN "pending" ELSE verdict(l, items, conf, m)]]
  BY DEF reconcileRead
<1>2. m \in Log \cup {None} /\ (m \in Log => m \in candidates(l) /\ m # None)
  BY NoneAssumption DEF candidates
<1> DEFINE v == IF m = None THEN "pending" ELSE verdict(l, items, conf, m)
           t == [step |-> "reconciled", items |-> items, payload |-> p,
                 confidence |-> conf, held |-> held, counterpart |-> m, verdict |-> v]
<1>3. v \in {"pending", "matched", "discrepancy"} /\ (v # "pending" => m \in Log)
  BY <1>2, VerdictType
<1>4. intake' = [intake EXCEPT ![l] = t]
  BY <1>1
<1> HIDE DEF v
<1>5. t \in IntakeRow /\ t.items = items /\ t.verdict = v /\ t.counterpart = m
  BY <1>2, <1>3 DEF IntakeRow
<1> HIDE DEF t
<1> QED BY <1>2, <1>3, <1>4, <1>5

\* Opening a capture disturbs only that log's transaction.
LEMMA OpenCapture ==
  ASSUME IInv, NEW l \in Log, NEW t \in IntakeRow,
         edtr[l].status \in {"absent", "queued"},
         t.items \in Reading,
         t.verdict # "pending" => t.counterpart \in Log,
         t.counterpart \in Log => t.counterpart \in candidates(l),
         intake' = [intake EXCEPT ![l] = t],
         UNCHANGED <<flags, edtr, recon, desk, depositPaid, moneyVars, rejections, billVars>>
  PROVE  IInv'
<1>1. TypeOK'
  BY DEF IInv, TypeOK, moneyVars, billVars
<1>2. RowInv' /\ DeskInv'
  BY DEF IInv, RowInv, DeskInv, moneyVars
<1>3. IntakeInv'
  BY DEF IInv, TypeOK, IntakeInv, candidates
<1> QED BY <1>1, <1>2, <1>3 DEF IInv

LEMMA CaptureWithItemsStep ==
  ASSUME IInv, NEW l \in Log, captureWithItems(l)
  PROVE  IInv'
<1>1. PICK items \in Reading :
        reconcileRead(l, items, IF Source[l] = "paper_ocr" THEN "manual" ELSE "none", 100, FALSE)
  BY DEF captureWithItems, TypedReading
<1> DEFINE p == IF Source[l] = "paper_ocr" THEN "manual" ELSE "none"
<1>2. p \in Payload
  BY DEF Payload
<1> HIDE DEF p
<1>3. PICK t \in IntakeRow :
        /\ intake' = [intake EXCEPT ![l] = t]
        /\ t.items = items
        /\ t.verdict # "pending" => t.counterpart \in Log
        /\ t.counterpart \in Log => t.counterpart \in candidates(l)
  BY <1>1, <1>2, ReconcileReadOpens DEF IInv, p
<1> QED BY <1>3, OpenCapture DEF captureWithItems

LEMMA ExtractSheetStep ==
  ASSUME IInv, NEW l \in Log, extractSheet(l)
  PROVE  IInv'
<1>1. PICK items \in Reading, conf \in Confidence, held \in BOOLEAN :
        reconcileRead(l, items, "model", conf, held)
  BY DEF extractSheet, SheetReading
<1>2. "model" \in Payload
  BY DEF Payload
<1>3. PICK t \in IntakeRow :
        /\ intake' = [intake EXCEPT ![l] = t]
        /\ t.items = items
        /\ t.verdict # "pending" => t.counterpart \in Log
        /\ t.counterpart \in Log => t.counterpart \in candidates(l)
  BY <1>1, <1>2, ReconcileReadOpens DEF IInv
<1> QED BY <1>3, OpenCapture DEF extractSheet

LEMMA CaptureSheetStep ==
  ASSUME IInv, NEW l \in Log, captureSheet(l)
  PROVE  IInv'
<1>1. edtr' \in [Log -> EdtrRow]
  <2>1. "queued" \in EdtrStatus
    BY DEF EdtrStatus
  <2> QED BY <2>1, StatusUpdate DEF captureSheet, IInv, TypeOK
<1>2. TypeOK'
  BY <1>1 DEF captureSheet, IInv, TypeOK, moneyVars, billVars
<1>3. RowInv' /\ IntakeInv' /\ DeskInv'
  BY DEF captureSheet, IInv, TypeOK, RowInv, IntakeInv, DeskInv, moneyVars, pairableStatuses
<1> QED BY <1>2, <1>3 DEF IInv

LEMMA ExtractionFailsStep ==
  ASSUME IInv, NEW l \in Log, extractionFails(l)
  PROVE  IInv'
<1>1. PICK s \in {"hard_failed", "review"} : edtr' = [edtr EXCEPT ![l].status = s]
  BY DEF extractionFails
<1>2. edtr' \in [Log -> EdtrRow]
  <2>1. s \in EdtrStatus
    BY DEF EdtrStatus
  <2> QED BY <1>1, <2>1, StatusUpdate DEF IInv, TypeOK
<1>3. TypeOK'
  BY <1>2 DEF extractionFails, IInv, TypeOK, moneyVars, billVars
<1>4. RowInv' /\ IntakeInv' /\ DeskInv'
  BY <1>1 DEF extractionFails, IInv, TypeOK, RowInv, IntakeInv, DeskInv, moneyVars, pairableStatuses
<1> QED BY <1>3, <1>4 DEF IInv

\* Committing a capture publishes the log, its row, and the counterpart's status.
LEMMA ReconcileCommitStep ==
  ASSUME IInv, NEW l \in Log, reconcileCommit(l)
  PROVE  IInv'
<1> DEFINE t == intake[l]
           row == [status |-> IF t.held THEN "review" ELSE edtrStatusFor(t.verdict),
                   items |-> t.items, payload |-> t.payload,
                   confidence |-> t.confidence, held |-> t.held]
<1>1. /\ t \in IntakeRow /\ t.step = "reconciled" /\ t.items \in Reading
      /\ t.verdict # "pending" => t.counterpart \in Log
      /\ t.counterpart \in Log => /\ edtr[t.counterpart].status \in pairableStatuses
                                  /\ t.counterpart # l
      /\ edtr[l].status \in {"absent", "queued"}
  BY DEF reconcileCommit, IInv, TypeOK, IntakeInv
<1>2. recon[l].status = "absent" /\ recon[l].counterpart = None /\ approvals[l] = 0
  BY <1>1 DEF IInv, TypeOK, RowInv, pairableStatuses, ReconRow
<1>3. edtrStatusFor(t.verdict) \in {"reconciled", "review"}
  BY DEF edtrStatusFor
<1>4. row \in EdtrRow /\ row.status \in {"reconciled", "review"} /\ row.items = t.items
  BY <1>1, <1>3 DEF EdtrRow, IntakeRow, EdtrStatus
<1>5. /\ recon' = [recon EXCEPT ![l] = [status |-> t.verdict, counterpart |-> t.counterpart]]
      /\ intake' = [intake EXCEPT ![l] = NoIntake]
      /\ edtr' \in [Log -> EdtrRow]
      /\ edtr'[l] = row
      /\ \A m \in Log \ {l} :
           /\ edtr'[m].items = edtr[m].items
           /\ m # t.counterpart => edtr'[m] = edtr[m]
           /\ m = t.counterpart => edtr'[m].status \in {"reconciled", "review"}
  <2>1. \A m \in Log :
          [edtr[m] EXCEPT !.status = edtrStatusFor(t.verdict)] \in EdtrRow
    <3>1. edtrStatusFor(t.verdict) \in EdtrStatus
      BY <1>3 DEF EdtrStatus
    <3>2. \A m \in Log : edtr[m] \in EdtrRow
      BY DEF IInv, TypeOK
    <3> HIDE DEF t
    <3> QED BY <3>1, <3>2 DEF EdtrRow
  <2>2. edtr' = [m \in Log |->
          CASE m = l -> row
            [] m = t.counterpart -> [edtr[m] EXCEPT !.status = edtrStatusFor(t.verdict)]
            [] OTHER -> edtr[m]]
    BY DEF reconcileCommit
  <2> HIDE DEF row
  <2>3. edtr' \in [Log -> EdtrRow]
    BY <2>1, <2>2, <1>4 DEF IInv, TypeOK
  <2>4. edtr'[l] = row
    <3>1. (CASE l = l -> row
             [] l = t.counterpart -> [edtr[l] EXCEPT !.status = edtrStatusFor(t.verdict)]
             [] OTHER -> edtr[l]) = row
      BY <1>1
    <3> QED BY <2>2, <3>1
  <2>5. ASSUME NEW m \in Log \ {l}
        PROVE  /\ edtr'[m].items = edtr[m].items
               /\ m # t.counterpart => edtr'[m] = edtr[m]
               /\ m = t.counterpart => edtr'[m].status \in {"reconciled", "review"}
    <3>1. CASE m = t.counterpart
      <4>1. edtr'[m] = [edtr[m] EXCEPT !.status = edtrStatusFor(t.verdict)]
        BY <2>2, <3>1
      <4>2. edtr[m] \in EdtrRow
        BY DEF IInv, TypeOK
      <4> QED BY <4>1, <4>2, <3>1, <1>3 DEF EdtrRow
    <3>2. CASE m # t.counterpart
      BY <2>2, <3>2
    <3> QED BY <3>1, <3>2
  <2> QED BY <2>3, <2>4, <2>5 DEF reconcileCommit
<1> HIDE DEF t, row
<1>6. recon' \in [Log -> ReconRow] /\ intake' \in [Log -> IntakeRow]
  BY <1>1, <1>5 DEF IInv, TypeOK, ReconRow, IntakeRow, ReconStatus, NoIntake, Payload
<1>7. TypeOK'
  BY <1>5, <1>6 DEF reconcileCommit, IInv, TypeOK, moneyVars, billVars
<1>8. RowInv'
  <2>1. \A m \in Log \ {l} : recon'[m] = recon[m] /\ recon[m].counterpart # l
    BY <1>1, <1>5 DEF IInv, TypeOK, RowInv, pairableStatuses
  <2>2. recon'[l].status = t.verdict /\ recon'[l].counterpart = t.counterpart
    BY <1>5 DEF IInv, TypeOK
  <2>3. approvals' = approvals
    BY DEF reconcileCommit, moneyVars
  <2>4. \A m \in Log : edtr[m].status \in pairableStatuses => edtr'[m].status \in pairableStatuses
    BY <1>1, <1>5 DEF pairableStatuses
  <2> SUFFICES ASSUME NEW m \in Log
               PROVE  /\ recon'[m].status # "absent" =>
                           edtr'[m].items \in Reading /\ edtr'[m].status \in pairableStatuses
                      /\ recon'[m].status = "absent" =>
                           recon'[m].counterpart = None /\ approvals'[m] = 0
                      /\ recon'[m].status \in {"matched", "discrepancy"} =>
                           recon'[m].counterpart \in Log
                      /\ recon'[m].counterpart \in Log =>
                           /\ edtr'[recon'[m].counterpart].status \in pairableStatuses
                           /\ recon'[m].counterpart # m
                           /\ recon'[recon'[m].counterpart].counterpart # m
    BY DEF RowInv
  <2>5. CASE m = l
    BY <1>1, <1>4, <1>5, <2>1, <2>2, <2>4, <2>5 DEF IntakeRow, pairableStatuses
  <2>6. CASE m # l
    BY <1>5, <2>1, <2>3, <2>4, <2>6 DEF IInv, RowInv
  <2> QED BY <2>5, <2>6
<1>9. IntakeInv'
  BY <1>1, <1>5 DEF IInv, TypeOK, IntakeInv, pairableStatuses, NoIntake
<1>10. DeskInv'
  <2>1. \A m \in Log : recon[m].status # "absent" => recon'[m] = recon[m]
    BY <1>2, <1>5 DEF IInv, TypeOK
  <2>2. desk' = desk
    BY DEF reconcileCommit
  <2> QED BY <2>1, <2>2 DEF IInv, DeskInv, Approving
<1> QED BY <1>7, <1>8, <1>9, <1>10 DEF IInv

\* A request that only moves on disturbs nothing but itself, and keeps the
\* invariant when it names an existing row and that row's counterpart.
LEMMA RequestMoves ==
  ASSUME IInv, NEW c \in Clerk, NEW q \in Request,
         q.step \in Approving => /\ q.log \in Log /\ q.counterpart \in Log
                                 /\ recon[q.log].counterpart = q.counterpart
                                 /\ recon[q.log].status # "absent",
         q.step = "rejecting" => q.log \in Log /\ recon[q.log].status # "absent",
         desk' = [desk EXCEPT ![c] = q],
         UNCHANGED <<logVars, depositPaid, moneyVars, rejections, billVars>>
  PROVE  IInv'
<1>1. TypeOK'
  BY DEF IInv, TypeOK, logVars, moneyVars, billVars
<1>2. RowInv' /\ IntakeInv'
  BY DEF IInv, RowInv, IntakeInv, logVars, moneyVars
<1>3. DeskInv'
  BY DEF IInv, TypeOK, DeskInv, logVars
<1> QED BY <1>1, <1>2, <1>3 DEF IInv

\* A request that ends releases its row.
LEMMA RequestEnds ==
  ASSUME IInv, NEW c \in Clerk, desk' = [desk EXCEPT ![c] = NoRequest],
         UNCHANGED <<logVars, depositPaid, moneyVars, rejections, billVars>>
  PROVE  IInv'
<1>1. NoRequest \in Request /\ NoRequest.step = "idle"
  BY DEF NoRequest, Request
<1> QED BY <1>1, RequestMoves DEF Approving

LEMMA ApproveReadStep ==
  ASSUME IInv, NEW c \in Clerk, approveRead(c)
  PROVE  IInv'
<1>1. PICK l \in Log, adj \in TypedReading \cup {None} :
        /\ recon[l].status \in {"matched", "discrepancy"}
        /\ desk' = [desk EXCEPT ![c] =
             [step |-> "read", log |-> l, counterpart |-> recon[l].counterpart,
              adjustments |-> adj, balance |-> 0]]
  BY DEF approveRead
<1>2. recon[l].counterpart \in Log
  BY <1>1 DEF IInv, RowInv
<1> DEFINE q == [step |-> "read", log |-> l, counterpart |-> recon[l].counterpart,
                 adjustments |-> adj, balance |-> 0]
<1>3. q \in Request /\ q.step = "read" /\ q.log = l /\ q.counterpart = recon[l].counterpart
  BY <1>2 DEF Request, TypedReading
<1>4. desk' = [desk EXCEPT ![c] = q]
  BY <1>1
<1> HIDE DEF q
<1> QED BY <1>1, <1>2, <1>3, <1>4, RequestMoves DEF approveRead

\* Taking the next lock: the request keeps its row and counterpart.
LEMMA LockStep ==
  ASSUME IInv, NEW c \in Clerk,
         approveLockOwn(c) \/ approveLockCounterpart(c) \/ approveLockRental(c)
  PROVE  IInv'
<1>1. desk[c] \in Request
  BY DEF IInv, TypeOK
<1>2. desk[c].step \in {"read", "own", "pair"}
  BY DEF approveLockOwn, approveLockCounterpart, approveLockRental
<1>3. /\ desk[c].log \in Log /\ desk[c].counterpart \in Log
      /\ recon[desk[c].log].counterpart = desk[c].counterpart
      /\ recon[desk[c].log].status # "absent"
  BY <1>2 DEF IInv, DeskInv, Approving
<1>4. PICK s \in {"own", "pair", "priced"}, b \in Nat :
        desk' = [desk EXCEPT ![c] = [desk[c] EXCEPT !.step = s, !.balance = b]]
  <2>1. CASE approveLockOwn(c)
    <3>1. [desk[c] EXCEPT !.step = "own"] =
            [desk[c] EXCEPT !.step = "own", !.balance = desk[c].balance]
      BY <1>1 DEF Request
    <3>2. desk' = [desk EXCEPT ![c] = [desk[c] EXCEPT !.step = "own"]]
      BY <2>1 DEF approveLockOwn, IInv, TypeOK
    <3> QED BY <1>1, <3>1, <3>2 DEF Request
  <2>2. CASE approveLockCounterpart(c)
    <3>1. [desk[c] EXCEPT !.step = "pair"] =
            [desk[c] EXCEPT !.step = "pair", !.balance = desk[c].balance]
      BY <1>1 DEF Request
    <3>2. desk' = [desk EXCEPT ![c] = [desk[c] EXCEPT !.step = "pair"]]
      BY <2>2 DEF approveLockCounterpart, IInv, TypeOK
    <3> QED BY <1>1, <3>1, <3>2 DEF Request
  <2>3. CASE approveLockRental(c)
    <3> DEFINE r == RentalOf[desk[c].log]
               b == balanceOf(Deposit[r], deducted[r])
    <3>1. r \in Rental
      BY <1>3, ColumnAssumption
    <3>2. b \in Nat
      BY <3>1, ColumnAssumption, BalanceType DEF IInv, TypeOK
    <3>3. desk' = [desk EXCEPT ![c] = [desk[c] EXCEPT !.step = "priced", !.balance = b]]
      BY <2>3 DEF approveLockRental, IInv, TypeOK
    <3> QED BY <3>2, <3>3
  <2> QED BY <2>1, <2>2, <2>3
<1> DEFINE q == [desk[c] EXCEPT !.step = s, !.balance = b]
<1>5. /\ q \in Request /\ q.step = s /\ q.log = desk[c].log
      /\ q.counterpart = desk[c].counterpart
  BY <1>1 DEF Request
<1>6. desk' = [desk EXCEPT ![c] = q]
  BY <1>4
<1>7. UNCHANGED <<logVars, depositPaid, moneyVars, rejections, billVars>>
  BY DEF approveLockOwn, approveLockCounterpart, approveLockRental
<1> HIDE DEF q
<1> QED BY <1>3, <1>5, <1>6, <1>7, RequestMoves

LEMMA RejectReadStep ==
  ASSUME IInv, NEW c \in Clerk, rejectRead(c)
  PROVE  IInv'
<1>1. PICK l \in Log :
        /\ recon[l].status \in {"pending", "matched", "discrepancy"}
        /\ desk' = [desk EXCEPT ![c] = [NoRequest EXCEPT !.step = "rejecting", !.log = l]]
  BY DEF rejectRead
<1> DEFINE q == [NoRequest EXCEPT !.step = "rejecting", !.log = l]
<1>2. q \in Request /\ q.step = "rejecting" /\ q.log = l
  BY DEF Request, NoRequest
<1>3. desk' = [desk EXCEPT ![c] = q]
  BY <1>1
<1> HIDE DEF q
<1> QED BY <1>1, <1>2, <1>3, RequestMoves DEF rejectRead, Approving

\* Approving or rejecting flips statuses of rows that exist; it moves no
\* counterpart and makes no row disappear.
LEMMA StatusFlips ==
  ASSUME IInv, NEW c \in Clerk,
         recon' \in [Log -> ReconRow], edtr' \in [Log -> EdtrRow],
         approvals' \in [Log -> Nat],
         \A l \in Log : /\ recon'[l].counterpart = recon[l].counterpart
                        /\ recon'[l].status = "absent" <=> recon[l].status = "absent"
                        /\ recon'[l].status \in {"matched", "discrepancy"} =>
                             recon'[l].status = recon[l].status
                        /\ edtr'[l].status = edtr[l].status
                        /\ edtr'[l].items # edtr[l].items => edtr'[l].items \in Reading
                        /\ recon[l].status = "absent" => approvals'[l] = approvals[l],
         desk' = [desk EXCEPT ![c] = NoRequest],
         intake' = intake
  PROVE  RowInv' /\ IntakeInv' /\ DeskInv'
<1>1. RowInv'
  <2> SUFFICES ASSUME NEW l \in Log
               PROVE  /\ recon'[l].status # "absent" =>
                           edtr'[l].items \in Reading /\ edtr'[l].status \in pairableStatuses
                      /\ recon'[l].status = "absent" =>
                           recon'[l].counterpart = None /\ approvals'[l] = 0
                      /\ recon'[l].status \in {"matched", "discrepancy"} =>
                           recon'[l].counterpart \in Log
                      /\ recon'[l].counterpart \in Log =>
                           /\ edtr'[recon'[l].counterpart].status \in pairableStatuses
                           /\ recon'[l].counterpart # l
                           /\ recon'[recon'[l].counterpart].counterpart # l
    BY DEF RowInv
  <2> QED BY DEF IInv, RowInv
<1>2. IntakeInv'
  BY DEF IInv, IntakeInv
<1>3. DeskInv'
  BY NoneAssumption DEF IInv, TypeOK, DeskInv, NoRequest, Approving
<1> QED BY <1>1, <1>2, <1>3

LEMMA RejectCommitStep ==
  ASSUME IInv, NEW c \in Clerk, rejectCommit(c)
  PROVE  IInv'
<1> DEFINE l == desk[c].log
<1>1. l \in Log /\ recon[l].status # "absent"
  BY DEF rejectCommit, IInv, DeskInv
<1>2. recon' = [recon EXCEPT ![l].status = "rejected"]
  BY DEF rejectCommit
<1> HIDE DEF l
<1>3. recon' \in [Log -> ReconRow]
  BY <1>1, <1>2 DEF IInv, TypeOK, ReconRow, ReconStatus
<1>4. \A m \in Log : recon[m] \in ReconRow
  BY DEF IInv, TypeOK
<1>5. \A m \in Log : recon'[m] = IF m = l THEN [recon[m] EXCEPT !.status = "rejected"]
                                          ELSE recon[m]
  BY <1>2 DEF IInv, TypeOK
<1>6. \A m \in Log : /\ recon'[m].counterpart = recon[m].counterpart
                     /\ recon'[m].status = IF m = l THEN "rejected" ELSE recon[m].status
  BY <1>4, <1>5 DEF ReconRow
<1>7. NoRequest \in Request
  BY DEF NoRequest, Request
<1>8. TypeOK'
  BY <1>1, <1>3, <1>7 DEF rejectCommit, IInv, TypeOK, moneyVars, billVars, l
<1>9. desk' = [desk EXCEPT ![c] = NoRequest] /\ UNCHANGED <<edtr, intake, approvals>>
  BY DEF rejectCommit, moneyVars
<1>10. edtr' \in [Log -> EdtrRow] /\ approvals' \in [Log -> Nat]
  BY <1>9 DEF IInv, TypeOK
<1>11. RowInv' /\ IntakeInv' /\ DeskInv'
  BY <1>1, <1>3, <1>6, <1>9, <1>10, StatusFlips
<1> QED BY <1>8, <1>11 DEF IInv

\* The commit of an approval: what it leaves in each piece of state.
LEMMA ApproveCommitEffect ==
  ASSUME IInv, NEW c \in Clerk, approveCommit(c)
  PROVE  LET l == desk[c].log
             m == desk[c].counterpart
             r == RentalOf[l]
         IN  /\ l \in Log /\ m \in Log /\ r \in Rental
             /\ splitOf(c).deducted \in Nat /\ splitOf(c).accrued \in Nat
             /\ splitOf(c).balanceAfter \in Nat
             /\ splitOf(c).balanceAfter = desk[c].balance - splitOf(c).deducted
             /\ splitOf(c).accrued > 0 => splitOf(c).balanceAfter = 0
             /\ billableHours(c) \in Nat
             /\ \A x \in Log :
                  /\ recon'[x].counterpart = recon[x].counterpart
                  /\ recon'[x].status =
                       IF x = l \/ (x = m /\ recon[x].status # "absent")
                         THEN "approved" ELSE recon[x].status
                  /\ edtr'[x].status = edtr[x].status
                  /\ edtr'[x].items # edtr[x].items => edtr'[x].items \in Reading
             /\ recon' \in [Log -> ReconRow] /\ edtr' \in [Log -> EdtrRow]
<1> DEFINE l == desk[c].log
           m == desk[c].counterpart
           r == RentalOf[l]
           adj == desk[c].adjustments
<1>1. desk[c] \in Request /\ desk[c].step = "priced"
  BY DEF approveCommit, IInv, TypeOK
<1>2. l \in Log /\ m \in Log /\ r \in Rental /\ adj \in Reading \cup {None} /\ desk[c].balance \in Nat
  BY <1>1, ColumnAssumption DEF IInv, DeskInv, Approving, Request
<1>3. billableHours(c) \in Nat /\ charge(c) \in Nat
  BY <1>1, ChargeType DEF IInv
<1>4. /\ splitOf(c).deducted \in Nat /\ splitOf(c).accrued \in Nat
      /\ splitOf(c).balanceAfter \in Nat
      /\ splitOf(c).balanceAfter = desk[c].balance - splitOf(c).deducted
      /\ splitOf(c).accrued > 0 => splitOf(c).balanceAfter = 0
  BY <1>2, <1>3, SplitExact DEF splitOf
<1>5. recon' = [x \in Log |-> IF x = l \/ (x = m /\ recon[x].status # "absent")
                                THEN [recon[x] EXCEPT !.status = "approved"]
                                ELSE recon[x]]
  BY DEF approveCommit
<1>6. edtr' = IF adj # None THEN [edtr EXCEPT ![l].items = adj] ELSE edtr
  BY DEF approveCommit
<1>7. edtr \in [Log -> EdtrRow] /\ recon \in [Log -> ReconRow]
  BY DEF IInv, TypeOK
<1> HIDE DEF l, m, r, adj
<1>8. ASSUME NEW x \in Log
      PROVE  /\ recon'[x] \in ReconRow
             /\ recon'[x].counterpart = recon[x].counterpart
             /\ recon'[x].status =
                  IF x = l \/ (x = m /\ recon[x].status # "absent")
                    THEN "approved" ELSE recon[x].status
  <2>1. recon[x] \in ReconRow
    BY <1>7
  <2>2. [recon[x] EXCEPT !.status = "approved"] \in ReconRow
    BY <2>1 DEF ReconRow, ReconStatus
  <2>3. recon'[x] = IF x = l \/ (x = m /\ recon[x].status # "absent")
                      THEN [recon[x] EXCEPT !.status = "approved"]
                      ELSE recon[x]
    BY <1>5
  <2> QED BY <2>1, <2>2, <2>3 DEF ReconRow
<1>9. recon' \in [Log -> ReconRow]
  BY <1>5, <1>8
<1>10. edtr' \in [Log -> EdtrRow]
  BY <1>2, <1>6, <1>7, NoneAssumption DEF EdtrRow
<1>11. ASSUME NEW x \in Log
       PROVE  /\ edtr'[x].status = edtr[x].status
              /\ edtr'[x].items # edtr[x].items => edtr'[x].items \in Reading
  <2>1. CASE adj # None /\ x = l
    <3>1. edtr'[x] = [edtr[x] EXCEPT !.items = adj]
      BY <1>6, <1>7, <2>1
    <3>2. edtr[x] \in EdtrRow
      BY <1>7
    <3> QED BY <1>2, <2>1, <3>1, <3>2 DEF EdtrRow
  <2>2. CASE ~(adj # None /\ x = l)
    BY <1>6, <1>7, <2>2
  <2> QED BY <2>1, <2>2
<1> QED BY <1>2, <1>3, <1>4, <1>8, <1>9, <1>10, <1>11 DEF l, m, r

LEMMA ApproveCommitStep ==
  ASSUME IInv, NEW c \in Clerk, approveCommit(c)
  PROVE  IInv'
<1> DEFINE l == desk[c].log
           m == desk[c].counterpart
           r == RentalOf[l]
<1>1. /\ l \in Log /\ m \in Log /\ r \in Rental
      /\ splitOf(c).deducted \in Nat /\ splitOf(c).accrued \in Nat
      /\ billableHours(c) \in Nat
      /\ \A x \in Log :
           /\ recon'[x].counterpart = recon[x].counterpart
           /\ recon'[x].status =
                IF x = l \/ (x = m /\ recon[x].status # "absent")
                  THEN "approved" ELSE recon[x].status
           /\ edtr'[x].status = edtr[x].status
           /\ edtr'[x].items # edtr[x].items => edtr'[x].items \in Reading
      /\ recon' \in [Log -> ReconRow] /\ edtr' \in [Log -> EdtrRow]
  BY ApproveCommitEffect
<1>2. recon[l].status # "absent"
  BY DEF approveCommit, IInv, DeskInv, Approving
<1>3. /\ deducted' = [deducted EXCEPT ![r] = @ + splitOf(c).deducted]
      /\ accruals' = IF splitOf(c).accrued > 0
                       THEN [accruals EXCEPT ![l] = [amount |-> splitOf(c).accrued, billed |-> FALSE]]
                       ELSE accruals
      /\ lowWarnings' = [lowWarnings EXCEPT ![r] = @ + 1] \/ lowWarnings' = lowWarnings
      /\ approvals' = [approvals EXCEPT ![l] = @ + 1]
      /\ runtime' = [runtime EXCEPT ![UnitOf[l]] = @ + billableHours(c)]
      /\ desk' = [desk EXCEPT ![c] = NoRequest]
      /\ UNCHANGED <<flags, intake, depositPaid, rejections, billVars>>
  BY DEF approveCommit
<1> HIDE DEF l, m, r
<1>4. deducted' \in [Rental -> Nat] /\ lowWarnings' \in [Rental -> Nat]
  BY <1>1, <1>3 DEF IInv, TypeOK
<1>5. accruals' \in [Log -> AccrualRow]
  BY <1>1, <1>3 DEF IInv, TypeOK, AccrualRow
<1>6. approvals' \in [Log -> Nat]
  BY <1>1, <1>3 DEF IInv, TypeOK
<1>7. runtime' \in [Unit -> Nat]
  <2> DEFINE h == billableHours(c)
             u == UnitOf[l]
  <2>1. u \in Unit /\ h \in Nat
    BY <1>1, ColumnAssumption
  <2>2. runtime' = [runtime EXCEPT ![u] = runtime[u] + h]
    BY <1>3
  <2>3. runtime \in [Unit -> Nat]
    BY DEF IInv, TypeOK
  <2> HIDE DEF h, u
  <2> QED BY <2>1, <2>2, <2>3
<1>8. desk' \in [Clerk -> Request]
  <2>1. NoRequest \in Request
    BY DEF NoRequest, Request
  <2> QED BY <1>3, <2>1 DEF IInv, TypeOK
<1>9. TypeOK'
  BY <1>1, <1>3, <1>4, <1>5, <1>6, <1>7, <1>8 DEF IInv, TypeOK, billVars
<1>10. \A x \in Log : recon[x].status = "absent" => approvals'[x] = approvals[x]
  BY <1>1, <1>2, <1>3 DEF IInv, TypeOK
<1>11. RowInv' /\ IntakeInv' /\ DeskInv'
  BY <1>1, <1>2, <1>3, <1>6, <1>10, StatusFlips
<1> QED BY <1>9, <1>11 DEF IInv

LEMMA SettleDepositStep ==
  ASSUME IInv, NEW r \in Rental, settleDeposit(r)
  PROVE  IInv'
<1>1. TypeOK'
  BY DEF settleDeposit, IInv, TypeOK, logVars, moneyVars, billVars
<1>2. RowInv' /\ IntakeInv' /\ DeskInv'
  BY DEF settleDeposit, IInv, RowInv, IntakeInv, DeskInv, logVars, moneyVars
<1> QED BY <1>1, <1>2 DEF IInv

LEMMA BillingStep ==
  ASSUME IInv, NEW b \in BillingRun, billLock(b) \/ billCommit(b)
  PROVE  IInv'
<1>1. UNCHANGED <<logVars, desk, depositPaid, deducted, approvals, lowWarnings, runtime, rejections>>
  BY DEF billLock, billCommit, logVars, moneyVars
<1>2. accruals' \in [Log -> AccrualRow] /\ weekly' \in [Log -> Nat]
        /\ billing' \in [BillingRun -> Billing]
  <2>1. CASE billLock(b)
    <3>1. accruals' = accruals /\ weekly' = weekly
      BY <2>1 DEF billLock, moneyVars
    <3>2. PICK r \in Rental :
            billing' = [billing EXCEPT ![b] = [rental |-> r, rows |-> unbilled(r)]]
      BY <2>1 DEF billLock
    <3>3. [rental |-> r, rows |-> unbilled(r)] \in Billing
      BY DEF Billing, unbilled
    <3> QED BY <3>1, <3>2, <3>3 DEF IInv, TypeOK
  <2>2. CASE billCommit(b)
    <3>1. accruals' \in [Log -> AccrualRow]
      <4>1. \A l \in Log : [accruals[l] EXCEPT !.billed = TRUE] \in AccrualRow
        BY DEF IInv, TypeOK, AccrualRow
      <4> QED BY <2>2, <4>1 DEF billCommit, IInv, TypeOK
    <3>2. weekly' \in [Log -> Nat]
      BY <2>2 DEF billCommit, IInv, TypeOK
    <3>3. NoBilling \in Billing
      BY DEF NoBilling, Billing
    <3>4. billing' \in [BillingRun -> Billing]
      BY <2>2, <3>3 DEF billCommit, IInv, TypeOK
    <3> QED BY <3>1, <3>2, <3>4
  <2> QED BY <2>1, <2>2
<1>3. TypeOK'
  BY <1>1, <1>2 DEF IInv, TypeOK, logVars
<1>4. RowInv' /\ IntakeInv' /\ DeskInv'
  BY <1>1 DEF IInv, RowInv, IntakeInv, DeskInv, logVars
<1> QED BY <1>3, <1>4 DEF IInv

LEMMA StutterStep ==
  ASSUME IInv, UNCHANGED vars
  PROVE  IInv'
BY DEF vars, IInv, TypeOK, RowInv, IntakeInv, DeskInv

\* Every step of the system keeps the invariant.
LEMMA NextIInv == IInv /\ [Next]_vars => IInv'
<1> SUFFICES ASSUME IInv, [Next]_vars PROVE IInv'
  OBVIOUS
<1>1. ASSUME NEW l \in Log,
             \/ captureWithItems(l) \/ captureSheet(l)
             \/ extractSheet(l) \/ extractionFails(l) \/ reconcileCommit(l)
      PROVE  IInv'
  BY <1>1, CaptureWithItemsStep, CaptureSheetStep, ExtractSheetStep, ExtractionFailsStep,
     ReconcileCommitStep
<1>2. ASSUME NEW c \in Clerk,
             \/ approveRead(c) \/ approveLockOwn(c) \/ approveLockCounterpart(c)
             \/ approveLockRental(c) \/ approveRefused(c)
             \/ approveRolledBack(c) \/ approveCommit(c)
             \/ rejectRead(c) \/ rejectCommit(c)
      PROVE  IInv'
  <2>1. CASE approveRefused(c) \/ approveRolledBack(c)
    BY <2>1, RequestEnds DEF approveRefused, approveRolledBack
  <2>2. CASE approveLockOwn(c) \/ approveLockCounterpart(c) \/ approveLockRental(c)
    BY <2>2, LockStep
  <2> QED BY <1>2, <2>1, <2>2, ApproveReadStep, ApproveCommitStep, RejectReadStep, RejectCommitStep
<1>3. ASSUME NEW r \in Rental, settleDeposit(r) PROVE IInv'
  BY <1>3, SettleDepositStep
<1>4. ASSUME NEW b \in BillingRun, billLock(b) \/ billCommit(b) PROVE IInv'
  BY <1>4, BillingStep
<1>5. CASE finished
  BY <1>5, StutterStep DEF finished
<1>6. CASE UNCHANGED vars
  BY <1>6, StutterStep
<1> QED BY <1>1, <1>2, <1>3, <1>4, <1>5, <1>6 DEF Next

\* In every reachable state the rows, the open captures and the open requests
\* fit together: the frame the money theorems below stand on.
THEOREM StructureHolds == Spec => []IInv
<1> QED BY InitIInv, NextIInv, PTL DEF Spec

\* Every variable keeps its type, for any number of logs, rentals, clerks and
\* billing runs, and a reconciliation never writes anything but a status.
THEOREM TypeCorrect == Spec => []TypeOK
<1>1. IInv => TypeOK
  BY DEF IInv
<1> QED BY <1>1, StructureHolds, PTL

-----------------------------------------------------------------------------
(* The deposit.                                                             *)

\* Between the rental's lock and the commit, the balance a request has read is
\* the balance: the deposit is paid and nobody else can be in that window.
PricedInv ==
  /\ \A c \in Clerk : desk[c].step = "priced" =>
       LET r == RentalOf[desk[c].log] IN
       depositPaid[r] /\ desk[c].balance = Deposit[r] - deducted[r]
  /\ \A c, d \in Clerk :
       c # d /\ desk[c].step = "priced" /\ desk[d].step = "priced" =>
         RentalOf[desk[c].log] # RentalOf[desk[d].log]

\* A rental that has been warned is below the threshold for good.
WarnedInv ==
  \A r \in Rental :
    /\ lowWarnings[r] <= 1
    /\ lowWarnings[r] > 0 => (Deposit[r] - deducted[r]) * 100 <= Deposit[r] * LowBalancePct

MoneyInv ==
  /\ DepositNotOverdrawn /\ AccrualOnlyPastDeposit /\ NoChargeBeforeDeposit
  /\ PricedInv /\ WarnedInv

\* A step that touches neither money nor the request keeps MoneyInv.
LEMMA MoneyUntouched ==
  ASSUME IInv, MoneyInv, UNCHANGED <<desk, depositPaid, moneyVars>>
  PROVE  MoneyInv'
BY DEF MoneyInv, DepositNotOverdrawn, AccrualOnlyPastDeposit, NoChargeBeforeDeposit,
       PricedInv, WarnedInv, moneyVars

\* So does a request that moves to a step other than "priced".
LEMMA MoneyRequestMoves ==
  ASSUME IInv, MoneyInv, NEW c \in Clerk,
         desk'[c].step # "priced",
         \A d \in Clerk \ {c} : desk'[d] = desk[d],
         UNCHANGED <<depositPaid, moneyVars>>
  PROVE  MoneyInv'
<1>1. PricedInv'
  BY DEF MoneyInv, PricedInv, moneyVars
<1>2. (DepositNotOverdrawn /\ AccrualOnlyPastDeposit /\ NoChargeBeforeDeposit /\ WarnedInv)'
  BY DEF MoneyInv, DepositNotOverdrawn, AccrualOnlyPastDeposit, NoChargeBeforeDeposit,
         WarnedInv, moneyVars
<1> QED BY <1>1, <1>2 DEF MoneyInv

\* The lock on the rental is taken only when no other request holds it, so the
\* balance read under it stays true.
LEMMA MoneyLockRental ==
  ASSUME IInv, MoneyInv, NEW c \in Clerk, approveLockRental(c)
  PROVE  MoneyInv'
<1> DEFINE r == RentalOf[desk[c].log]
<1>1. desk[c] \in Request /\ desk[c].log \in Log
  BY DEF approveLockRental, IInv, TypeOK, DeskInv, Approving
<1>2. r \in Rental /\ Deposit[r] \in Nat /\ deducted[r] \in Nat /\ deducted[r] <= Deposit[r]
  BY <1>1, ColumnAssumption DEF IInv, TypeOK, MoneyInv, DepositNotOverdrawn
<1>3. balanceOf(Deposit[r], deducted[r]) = Deposit[r] - deducted[r]
  BY <1>2, BalanceType
<1>4. /\ desk'[c].log = desk[c].log /\ desk'[c].balance = Deposit[r] - deducted[r]
      /\ \A d \in Clerk \ {c} : desk'[d] = desk[d]
  BY <1>1, <1>3 DEF approveLockRental, IInv, TypeOK, Request
<1>5. depositPaid[r] /\ \A d \in Clerk : desk[d].step = "priced" => RentalOf[desk[d].log] # r
  BY DEF approveLockRental, depositHeld, rentalFree, holdsRental
<1>6. UNCHANGED <<depositPaid, moneyVars>>
  BY DEF approveLockRental
<1> HIDE DEF r
<1>7. PricedInv'
  <2>1. ASSUME NEW d \in Clerk, desk'[d].step = "priced"
        PROVE  depositPaid'[RentalOf[desk'[d].log]]
               /\ desk'[d].balance = Deposit[RentalOf[desk'[d].log]] - deducted'[RentalOf[desk'[d].log]]
    <3>1. CASE d = c
      BY <3>1, <1>4, <1>5, <1>6 DEF r, moneyVars
    <3>2. CASE d # c
      BY <3>2, <2>1, <1>4, <1>6 DEF MoneyInv, PricedInv, moneyVars
    <3> QED BY <3>1, <3>2
  <2>2. ASSUME NEW d \in Clerk, NEW e \in Clerk, d # e,
               desk'[d].step = "priced", desk'[e].step = "priced"
        PROVE  RentalOf[desk'[d].log] # RentalOf[desk'[e].log]
    BY <2>2, <1>4, <1>5 DEF MoneyInv, PricedInv, r
  <2> QED BY <2>1, <2>2 DEF PricedInv
<1>8. (DepositNotOverdrawn /\ AccrualOnlyPastDeposit /\ NoChargeBeforeDeposit /\ WarnedInv)'
  BY <1>6 DEF MoneyInv, DepositNotOverdrawn, AccrualOnlyPastDeposit, NoChargeBeforeDeposit,
              WarnedInv, moneyVars
<1> QED BY <1>7, <1>8 DEF MoneyInv

\* The commit draws no more than the balance read under the lock, accrues only
\* what an emptied deposit leaves, and warns on the crossing alone.
LEMMA MoneyCommit ==
  ASSUME IInv, MoneyInv, NEW c \in Clerk, approveCommit(c)
  PROVE  MoneyInv'
<1> DEFINE l == desk[c].log
           r == RentalOf[l]
           b == desk[c].balance
           s == splitOf(c)
<1>1. /\ l \in Log /\ r \in Rental /\ s.deducted \in Nat /\ s.accrued \in Nat
      /\ s.balanceAfter \in Nat /\ s.balanceAfter = b - s.deducted
      /\ s.accrued > 0 => s.balanceAfter = 0
  BY ApproveCommitEffect
<1>2. depositPaid[r] /\ b = Deposit[r] - deducted[r] /\ desk[c].step = "priced"
  BY DEF approveCommit, MoneyInv, PricedInv
<1>3. /\ deducted' = [deducted EXCEPT ![r] = @ + s.deducted]
      /\ accruals' = IF s.accrued > 0
                       THEN [accruals EXCEPT ![l] = [amount |-> s.accrued, billed |-> FALSE]]
                       ELSE accruals
      /\ lowWarnings' = IF crossesLowBalance(Deposit[r], b, s.balanceAfter, LowBalancePct)
                          THEN [lowWarnings EXCEPT ![r] = @ + 1]
                          ELSE lowWarnings
      /\ approvals' = [approvals EXCEPT ![l] = @ + 1]
      /\ desk' = [desk EXCEPT ![c] = NoRequest]
      /\ depositPaid' = depositPaid
  BY DEF approveCommit
<1>4. \A d \in Clerk \ {c} : desk[d].step = "priced" => RentalOf[desk[d].log] # r
  BY <1>2 DEF MoneyInv, PricedInv
<1>5. /\ deducted \in [Rental -> Nat] /\ lowWarnings \in [Rental -> Nat]
      /\ accruals \in [Log -> AccrualRow] /\ approvals \in [Log -> Nat]
      /\ desk \in [Clerk -> Request] /\ Deposit \in [Rental -> Nat] /\ LowBalancePct \in Nat
      /\ RentalOf \in [Log -> Rental]
  BY ColumnAssumption DEF IInv, TypeOK
<1> HIDE DEF l, r, b, s
<1>6. /\ deducted'[r] = Deposit[r] - s.balanceAfter
      /\ deducted'[r] >= deducted[r] /\ deducted'[r] <= Deposit[r]
      /\ \A q \in Rental \ {r} : deducted'[q] = deducted[q]
  BY <1>1, <1>2, <1>3, <1>5
<1>7. DepositNotOverdrawn'
  BY <1>6, <1>5 DEF MoneyInv, DepositNotOverdrawn
<1>8. AccrualOnlyPastDeposit'
  <2> SUFFICES ASSUME NEW k \in Log, accruals'[k].amount > 0
               PROVE  deducted'[RentalOf[k]] = Deposit[RentalOf[k]]
    BY DEF AccrualOnlyPastDeposit
  <2>1. CASE accruals[k].amount > 0
    <3>1. deducted[RentalOf[k]] = Deposit[RentalOf[k]] /\ RentalOf[k] \in Rental
      BY <2>1, <1>5 DEF MoneyInv, AccrualOnlyPastDeposit
    <3>2. Deposit[r] \in Nat /\ deducted'[r] \in Int /\ deducted[r] \in Nat
      BY <1>1, <1>5, <1>6
    <3> QED BY <3>1, <3>2, <1>6
  <2>2. CASE ~(accruals[k].amount > 0)
    <3>1. k = l /\ s.accrued > 0
      BY <2>2, <1>1, <1>3, <1>5 DEF AccrualRow
    <3>2. RentalOf[k] = r
      BY <3>1 DEF r
    <3> QED BY <3>1, <3>2, <1>1, <1>5, <1>6
  <2> QED BY <2>1, <2>2
<1>9. NoChargeBeforeDeposit'
  <2> SUFFICES ASSUME NEW k \in Log, approvals'[k] > 0
               PROVE  depositPaid'[RentalOf[k]]
    BY DEF NoChargeBeforeDeposit
  <2>1. CASE k = l
    BY <2>1, <1>2, <1>3 DEF r
  <2>2. CASE k # l
    BY <2>2, <1>3, <1>5 DEF MoneyInv, NoChargeBeforeDeposit
  <2> QED BY <2>1, <2>2
<1>10. PricedInv'
  <2>1. desk'[c].step = "idle" /\ \A d \in Clerk \ {c} : desk'[d] = desk[d]
    BY <1>3, <1>5 DEF NoRequest
  <2>2. \A d \in Clerk \ {c} :
          desk[d].step = "priced" => deducted'[RentalOf[desk[d].log]] = deducted[RentalOf[desk[d].log]]
    <3> TAKE d \in Clerk \ {c}
    <3> HAVE desk[d].step = "priced"
    <3>1. RentalOf[desk[d].log] \in Rental
      BY <1>5 DEF IInv, DeskInv, Approving
    <3> QED BY <3>1, <1>4, <1>6
  <2> QED BY <2>1, <2>2, <1>3 DEF MoneyInv, PricedInv
<1>11. WarnedInv'
  <2> SUFFICES ASSUME NEW q \in Rental
               PROVE  /\ lowWarnings'[q] <= 1
                      /\ lowWarnings'[q] > 0 =>
                           (Deposit[q] - deducted'[q]) * 100 <= Deposit[q] * LowBalancePct
    BY DEF WarnedInv
  <2> DEFINE t == Deposit[q] * LowBalancePct
  <2>1. t \in Nat
    BY <1>5, ProductType
  <2>2. /\ lowWarnings[q] <= 1
        /\ lowWarnings[q] > 0 => (Deposit[q] - deducted[q]) * 100 <= t
    BY DEF MoneyInv, WarnedInv
  <2>3. CASE q # r
    BY <2>2, <2>3, <1>3, <1>5, <1>6
  <2>4. CASE q = r
    <3>1. crossesLowBalance(Deposit[r], b, s.balanceAfter, LowBalancePct) =>
            (Deposit[q] - deducted[q]) * 100 > t /\ s.balanceAfter * 100 <= t
      BY <2>4, <1>2 DEF crossesLowBalance
    <3>2. s.balanceAfter = Deposit[q] - deducted'[q]
      BY <2>4, <1>1, <1>5, <1>6
    <3>3. lowWarnings'[q] = IF crossesLowBalance(Deposit[r], b, s.balanceAfter, LowBalancePct)
                              THEN lowWarnings[q] + 1 ELSE lowWarnings[q]
      BY <2>4, <1>3, <1>5
    <3>4. /\ lowWarnings[q] \in Nat /\ Deposit[q] \in Nat /\ deducted[q] \in Nat
          /\ deducted'[q] >= deducted[q] /\ deducted'[q] \in Int /\ s.balanceAfter \in Nat
      BY <2>4, <1>1, <1>5, <1>6
    <3> HIDE DEF t
    <3> QED BY <2>1, <2>2, <3>1, <3>2, <3>3, <3>4 DEF t
  <2> QED BY <2>3, <2>4
<1> QED BY <1>7, <1>8, <1>9, <1>10, <1>11 DEF MoneyInv

\* Billing stamps rows; it changes no amount.
LEMMA MoneyBilling ==
  ASSUME IInv, MoneyInv, NEW b \in BillingRun, billLock(b) \/ billCommit(b)
  PROVE  MoneyInv'
<1>1. CASE billLock(b)
  BY <1>1, MoneyUntouched DEF billLock
<1>2. CASE billCommit(b)
  <2>1. UNCHANGED <<desk, depositPaid, deducted, approvals, lowWarnings>>
    BY <1>2 DEF billCommit
  <2>2. \A l \in Log : accruals'[l].amount = accruals[l].amount
    BY <1>2 DEF billCommit, IInv, TypeOK, AccrualRow
  <2> QED BY <2>1, <2>2 DEF MoneyInv, DepositNotOverdrawn, AccrualOnlyPastDeposit,
                            NoChargeBeforeDeposit, PricedInv, WarnedInv
<1> QED BY <1>1, <1>2

LEMMA MoneyNext == IInv /\ MoneyInv /\ [Next]_vars => MoneyInv'
<1> SUFFICES ASSUME IInv, MoneyInv, [Next]_vars PROVE MoneyInv'
  OBVIOUS
<1>1. ASSUME NEW l \in Log,
             \/ captureWithItems(l) \/ captureSheet(l)
             \/ extractSheet(l) \/ extractionFails(l) \/ reconcileCommit(l)
      PROVE  MoneyInv'
  BY <1>1, MoneyUntouched
  DEF captureWithItems, captureSheet, extractSheet, extractionFails, reconcileCommit
<1>2. ASSUME NEW c \in Clerk,
             \/ approveRead(c) \/ approveLockOwn(c) \/ approveLockCounterpart(c)
             \/ approveRefused(c) \/ approveRolledBack(c)
             \/ rejectRead(c) \/ rejectCommit(c)
      PROVE  MoneyInv'
  <2>1. UNCHANGED <<depositPaid, moneyVars>>
    BY <1>2 DEF approveRead, approveLockOwn, approveLockCounterpart, approveRefused,
                approveRolledBack, rejectRead, rejectCommit
  <2>2. desk'[c].step # "priced"
    <3>1. desk \in [Clerk -> Request] /\ desk[c] \in Request
      BY DEF IInv, TypeOK
    <3>2. CASE approveRead(c)
      BY <3>1, <3>2 DEF approveRead
    <3>3. CASE approveLockOwn(c)
      BY <3>1, <3>3 DEF approveLockOwn, Request
    <3>4. CASE approveLockCounterpart(c)
      BY <3>1, <3>4 DEF approveLockCounterpart, Request
    <3>5. CASE approveRefused(c) \/ approveRolledBack(c) \/ rejectCommit(c)
      BY <3>1, <3>5 DEF approveRefused, approveRolledBack, rejectCommit, NoRequest
    <3>6. CASE rejectRead(c)
      BY <3>1, <3>6 DEF rejectRead, NoRequest
    <3> QED BY <1>2, <3>2, <3>3, <3>4, <3>5, <3>6
  <2>3. \A d \in Clerk \ {c} : desk'[d] = desk[d]
    BY <1>2 DEF approveRead, approveLockOwn, approveLockCounterpart, approveRefused,
                approveRolledBack, rejectRead, rejectCommit, IInv, TypeOK
  <2> QED BY <2>1, <2>2, <2>3, MoneyRequestMoves
<1>3. ASSUME NEW r \in Rental, settleDeposit(r) PROVE MoneyInv'
  <2>1. /\ UNCHANGED <<desk, moneyVars>>
        /\ \A q \in Rental : depositPaid[q] => depositPaid'[q]
    BY <1>3 DEF settleDeposit, IInv, TypeOK
  <2>2. PricedInv'
    BY <2>1, ColumnAssumption DEF IInv, DeskInv, Approving, MoneyInv, PricedInv, moneyVars
  <2>3. NoChargeBeforeDeposit'
    BY <2>1, ColumnAssumption DEF MoneyInv, NoChargeBeforeDeposit, moneyVars
  <2> QED BY <2>1, <2>2, <2>3
          DEF MoneyInv, DepositNotOverdrawn, AccrualOnlyPastDeposit, WarnedInv, moneyVars
<1>4. ASSUME NEW b \in BillingRun, billLock(b) \/ billCommit(b) PROVE MoneyInv'
  BY <1>4, MoneyBilling
<1>5. CASE finished \/ UNCHANGED vars
  BY <1>5, MoneyUntouched DEF finished, vars, moneyVars
<1> QED BY <1>1, <1>2, <1>3, <1>4, <1>5, MoneyLockRental, MoneyCommit DEF Next

LEMMA MoneyInit == Init => MoneyInv
<1> SUFFICES ASSUME Init PROVE MoneyInv
  OBVIOUS
<1>1. DepositNotOverdrawn /\ AccrualOnlyPastDeposit /\ NoChargeBeforeDeposit
  BY ColumnAssumption
  DEF Init, DepositNotOverdrawn, AccrualOnlyPastDeposit, NoChargeBeforeDeposit, NoAccrual
<1>2. PricedInv /\ WarnedInv
  BY DEF Init, PricedInv, WarnedInv, NoRequest
<1> QED BY <1>1, <1>2 DEF MoneyInv

LEMMA MoneyHolds == Spec => []MoneyInv
<1> QED BY StructureHolds, MoneyInit, MoneyNext, PTL DEF Spec

\* However many approvals of a rental's logs race, no more is drawn than the
\* deposit that was paid (edtr.service.ts:632, FOR UPDATE on the rental).
THEOREM DepositSafe == Spec => []DepositNotOverdrawn
<1>1. MoneyInv => DepositNotOverdrawn
  BY DEF MoneyInv
<1> QED BY <1>1, MoneyHolds, PTL

\* The customer is charged past the deposit only when it is used up.
THEOREM DepositFirst == Spec => []AccrualOnlyPastDeposit
<1>1. MoneyInv => AccrualOnlyPastDeposit
  BY DEF MoneyInv
<1> QED BY <1>1, MoneyHolds, PTL

\* No approval moves money of a rental whose deposit has not been paid.
THEOREM PaidBeforeCharged == Spec => []NoChargeBeforeDeposit
<1>1. MoneyInv => NoChargeBeforeDeposit
  BY DEF MoneyInv
<1> QED BY <1>1, MoneyHolds, PTL

\* Each rental is warned of a low deposit at most once.
THEOREM WarnsOnce == Spec => []WarnedOnce
<1>1. MoneyInv => WarnedOnce
  BY DEF MoneyInv, WarnedInv, WarnedOnce
<1> QED BY <1>1, MoneyHolds, PTL

-----------------------------------------------------------------------------
(* One charge a pair.                                                       *)

\* No reconciliation row is locked by two requests.
LockInv ==
  \A c, d \in Clerk : c # d => \A l \in Log : ~(holdsRecon(c, l) /\ holdsRecon(d, l))

\* A row that has been locked and re-checked stays unapproved until the commit.
UnapprovedInv ==
  \A c \in Clerk :
    /\ desk[c].step \in OwnLocked => unapproved(desk[c].log)
    /\ desk[c].step \in PairLocked => unapproved(desk[c].counterpart)

\* Every row a charge rests on was flipped by that charge; only a rejection
\* can have moved it since.
ChargedInv ==
  \A l \in Log : approvals[l] > 0 =>
    \A x \in evidence(l) :
      recon[x].status # "absent" /\ x \notin rejections => recon[x].status = "approved"

OnceInv == LockInv /\ UnapprovedInv /\ ChargedInv /\ RowChargedOnce /\ EvidenceChargedOnce

\* The logs a charge rests on are logs.
LEMMA EvidenceLogs == ASSUME IInv, NEW l \in Log PROVE evidence(l) \subseteq Log
BY DEF evidence, IInv, TypeOK, ReconRow

\* A step that touches neither rows nor requests.
LEMMA OnceUntouched ==
  ASSUME OnceInv, UNCHANGED <<recon, desk, approvals, rejections>>
  PROVE  OnceInv'
BY DEF OnceInv, LockInv, UnapprovedInv, ChargedInv, RowChargedOnce, EvidenceChargedOnce,
       evidence, holdsRecon, unapproved

\* A request that moves on may gain only locks that were free, and only on rows
\* it has re-checked.
LEMMA OnceRequestMoves ==
  ASSUME OnceInv, NEW c \in Clerk,
         UNCHANGED <<recon, approvals, rejections>>,
         \A d \in Clerk \ {c} : desk'[d] = desk[d],
         \A l \in Log : holdsRecon(c, l)' => holdsRecon(c, l) \/ reconFree(l),
         desk'[c].step \in OwnLocked => unapproved(desk'[c].log),
         desk'[c].step \in PairLocked => unapproved(desk'[c].counterpart)
  PROVE  OnceInv'
<1>1. \A d \in Clerk \ {c}, l \in Log : holdsRecon(d, l)' <=> holdsRecon(d, l)
  BY DEF holdsRecon
<1>2. LockInv'
  BY <1>1 DEF OnceInv, LockInv, reconFree
<1>3. UnapprovedInv'
  BY DEF OnceInv, UnapprovedInv, unapproved
<1>4. (ChargedInv /\ RowChargedOnce /\ EvidenceChargedOnce)'
  BY DEF OnceInv, ChargedInv, RowChargedOnce, EvidenceChargedOnce, evidence
<1> QED BY <1>2, <1>3, <1>4 DEF OnceInv

\* Each step of a request short of a commit satisfies that.
LEMMA OnceRequest ==
  ASSUME IInv, OnceInv, NEW c \in Clerk,
         \/ approveRead(c) \/ approveLockOwn(c) \/ approveLockCounterpart(c)
         \/ approveLockRental(c) \/ approveRefused(c)
         \/ approveRolledBack(c) \/ rejectRead(c)
  PROVE  OnceInv'
<1>1. desk \in [Clerk -> Request] /\ desk[c] \in Request
  BY DEF IInv, TypeOK
<1>2. UNCHANGED <<recon, approvals, rejections>>
  BY DEF approveRead, approveLockOwn, approveLockCounterpart, approveLockRental,
         approveRefused, approveRolledBack, rejectRead, logVars, moneyVars
<1>3. \A d \in Clerk \ {c} : desk'[d] = desk[d]
  BY <1>1 DEF approveRead, approveLockOwn, approveLockCounterpart, approveLockRental,
         approveRefused, approveRolledBack, rejectRead
<1>4. CASE approveLockOwn(c)
  <2>1. desk'[c].step = "own" /\ desk'[c].log = desk[c].log
    BY <1>1, <1>4 DEF approveLockOwn, Request
  <2>2. \A l \in Log : holdsRecon(c, l)' => l = desk[c].log
    BY <2>1 DEF holdsRecon
  <2>3. reconFree(desk[c].log) /\ unapproved(desk[c].log)
    BY <1>4 DEF approveLockOwn
  <2> QED BY <1>2, <1>3, <2>1, <2>2, <2>3, OnceRequestMoves DEF PairLocked
<1>5. CASE approveLockCounterpart(c)
  <2>1. /\ desk'[c].step = "pair" /\ desk'[c].log = desk[c].log
        /\ desk'[c].counterpart = desk[c].counterpart /\ desk[c].step = "own"
    BY <1>1, <1>5 DEF approveLockCounterpart, Request
  <2>2. \A l \in Log : holdsRecon(c, l)' => holdsRecon(c, l) \/ l = desk[c].counterpart
    BY <2>1 DEF holdsRecon
  <2>3. /\ reconFree(desk[c].counterpart) /\ unapproved(desk[c].counterpart)
        /\ unapproved(desk[c].log)
    BY <1>5, <2>1 DEF approveLockCounterpart, OnceInv, UnapprovedInv, OwnLocked
  <2> QED BY <1>2, <1>3, <2>1, <2>2, <2>3, OnceRequestMoves
<1>6. CASE approveLockRental(c)
  <2>1. /\ desk'[c].step = "priced" /\ desk'[c].log = desk[c].log
        /\ desk'[c].counterpart = desk[c].counterpart /\ desk[c].step = "pair"
    BY <1>1, <1>6 DEF approveLockRental, Request
  <2>2. \A l \in Log : holdsRecon(c, l)' => holdsRecon(c, l)
    BY <1>2, <2>1 DEF holdsRecon
  <2>3. unapproved(desk[c].counterpart) /\ unapproved(desk[c].log)
    BY <2>1 DEF OnceInv, UnapprovedInv, OwnLocked, PairLocked
  <2> QED BY <1>2, <1>3, <2>1, <2>2, <2>3, OnceRequestMoves
<1>7. CASE approveRead(c) \/ approveRefused(c) \/ approveRolledBack(c) \/ rejectRead(c)
  <2>1. desk'[c].step \notin OwnLocked
    <3>1. CASE approveRead(c)
      BY <1>1, <3>1 DEF approveRead, OwnLocked
    <3>2. CASE approveRefused(c) \/ approveRolledBack(c)
      BY <1>1, <3>2 DEF approveRefused, approveRolledBack, OwnLocked, NoRequest
    <3>3. CASE rejectRead(c)
      BY <1>1, <3>3 DEF rejectRead, OwnLocked, NoRequest
    <3> QED BY <1>7, <3>1, <3>2, <3>3
  <2>2. \A l \in Log : ~holdsRecon(c, l)'
    BY <2>1 DEF holdsRecon, OwnLocked
  <2>3. desk'[c].step \notin PairLocked
    BY <2>1 DEF OwnLocked, PairLocked
  <2> QED BY <1>2, <1>3, <2>1, <2>2, <2>3, OnceRequestMoves
<1> QED BY <1>4, <1>5, <1>6, <1>7

\* A log reconciled for the first time is in nobody's hands: no request names
\* it and no row has it as its counterpart.
LEMMA FreshLog ==
  ASSUME IInv, NEW l \in Log, reconcileCommit(l)
  PROVE  /\ edtr[l].status \notin pairableStatuses
         /\ recon[l].status = "absent" /\ approvals[l] = 0
         /\ \A k \in Log : recon[k].counterpart # l
         /\ \A c \in Clerk : desk[c].step \in Approving \cup {"rejecting"} => desk[c].log # l
         /\ \A c \in Clerk : desk[c].step \in Approving => desk[c].counterpart # l
         /\ \A k \in Log \ {l} : recon'[k] = recon[k]
<1>1. intake[l].step = "reconciled"
  BY DEF reconcileCommit
<1>2. edtr[l].status \in {"absent", "queued"}
  BY <1>1 DEF IInv, IntakeInv
<1>3. edtr[l].status \notin pairableStatuses
  BY <1>2 DEF pairableStatuses
<1>4. recon[l].status = "absent" /\ approvals[l] = 0
  BY <1>3 DEF IInv, RowInv
<1>5. \A k \in Log : recon[k].counterpart # l
  BY <1>3 DEF IInv, RowInv
<1>6. \A c \in Clerk : desk[c].step \in Approving \cup {"rejecting"} => desk[c].log # l
  BY <1>4 DEF IInv, DeskInv
<1>7. \A c \in Clerk : desk[c].step \in Approving => desk[c].counterpart # l
  BY <1>5 DEF IInv, DeskInv
<1>8. \A k \in Log \ {l} : recon'[k] = recon[k]
  BY DEF reconcileCommit, IInv, TypeOK
<1> QED BY <1>3, <1>4, <1>5, <1>6, <1>7, <1>8

LEMMA OnceReconcile ==
  ASSUME IInv, OnceInv, NEW l \in Log, reconcileCommit(l)
  PROVE  OnceInv'
<1>1. /\ recon[l].status = "absent" /\ approvals[l] = 0
      /\ \A k \in Log : recon[k].counterpart # l
      /\ \A c \in Clerk : desk[c].step \in Approving => desk[c].log # l /\ desk[c].counterpart # l
      /\ \A k \in Log \ {l} : recon'[k] = recon[k]
  BY FreshLog
<1>2. UNCHANGED <<desk, approvals, rejections>>
  BY DEF reconcileCommit, moneyVars
<1>3. \A c \in Clerk, k \in Log : holdsRecon(c, k)' => k # l /\ holdsRecon(c, k)
  BY <1>1, <1>2 DEF holdsRecon, Approving
<1>4. LockInv'
  BY <1>3 DEF OnceInv, LockInv
<1>5. UnapprovedInv'
  BY <1>1, <1>2 DEF IInv, DeskInv, OnceInv, UnapprovedInv, unapproved, Approving, OwnLocked, PairLocked
<1>6. \A k \in Log : approvals[k] > 0 =>
        /\ k # l /\ evidence(k)' = evidence(k) /\ evidence(k) \subseteq Log \ {l}
  BY <1>1, EvidenceLogs DEF evidence
<1>7. ChargedInv'
  BY <1>1, <1>2, <1>6 DEF OnceInv, ChargedInv
<1>8. RowChargedOnce' /\ EvidenceChargedOnce'
  <2>1. RowChargedOnce'
    BY <1>2 DEF OnceInv, RowChargedOnce
  <2>2. EvidenceChargedOnce'
    BY <1>1, <1>2, <1>6 DEF OnceInv, EvidenceChargedOnce
  <2> QED BY <2>1, <2>2
<1> QED BY <1>4, <1>5, <1>7, <1>8 DEF OnceInv

LEMMA OnceReject ==
  ASSUME IInv, OnceInv, NEW c \in Clerk, rejectCommit(c)
  PROVE  OnceInv'
<1> DEFINE l == desk[c].log
<1>1. l \in Log /\ recon[l].status # "absent"
  BY DEF rejectCommit, IInv, DeskInv
<1>2. /\ recon \in [Log -> ReconRow] /\ recon' = [recon EXCEPT ![l].status = "rejected"]
      /\ rejections' = rejections \cup {l} /\ approvals' = approvals
      /\ desk' = [desk EXCEPT ![c] = NoRequest] /\ desk \in [Clerk -> Request]
  BY DEF rejectCommit, IInv, TypeOK, moneyVars
<1> HIDE DEF l
<1>3. /\ \A k \in Log \ {l} : recon'[k] = recon[k]
      /\ recon'[l].status = "rejected" /\ recon'[l].counterpart = recon[l].counterpart
  BY <1>1, <1>2 DEF ReconRow
<1>4. desk'[c].step = "idle" /\ \A d \in Clerk \ {c} : desk'[d] = desk[d]
  BY <1>2 DEF NoRequest
<1>5. \A d \in Clerk, k \in Log : holdsRecon(d, k)' => holdsRecon(d, k)
  BY <1>1, <1>3, <1>4 DEF holdsRecon
<1>6. LockInv'
  BY <1>5 DEF OnceInv, LockInv
<1>7. UnapprovedInv'
  <2>1. \A k \in Log : unapproved(k) => unapproved(k)'
    BY <1>3 DEF unapproved
  <2>2. \A d \in Clerk : desk[d].step \in OwnLocked => desk[d].log \in Log /\ desk[d].counterpart \in Log
    BY DEF IInv, DeskInv, Approving, OwnLocked
  <2> QED BY <2>1, <2>2, <1>4 DEF OnceInv, UnapprovedInv, OwnLocked, PairLocked
<1>8. \A k \in Log : evidence(k)' = evidence(k) /\ evidence(k) \subseteq Log
  BY <1>3, EvidenceLogs DEF evidence
<1>9. ChargedInv'
  BY <1>2, <1>3, <1>8 DEF OnceInv, ChargedInv
<1>10. RowChargedOnce'
  BY <1>2 DEF OnceInv, RowChargedOnce
<1>11. EvidenceChargedOnce'
  BY <1>1, <1>2, <1>3, <1>8 DEF OnceInv, EvidenceChargedOnce
<1> QED BY <1>6, <1>7, <1>9, <1>10, <1>11 DEF OnceInv

\* The commit charges a row only while both sides are locked and unapproved,
\* and flips both sides with the charge.
LEMMA OnceCommit ==
  ASSUME IInv, OnceInv, NEW c \in Clerk, approveCommit(c)
  PROVE  OnceInv'
<1> DEFINE l == desk[c].log
           m == desk[c].counterpart
<1>1. /\ l \in Log /\ m \in Log
      /\ \A x \in Log :
           /\ recon'[x].counterpart = recon[x].counterpart
           /\ recon'[x].status =
                IF x = l \/ (x = m /\ recon[x].status # "absent")
                  THEN "approved" ELSE recon[x].status
  BY ApproveCommitEffect
<1>2. /\ desk[c].step = "priced" /\ recon[l].status # "absent" /\ recon[l].counterpart = m
  BY DEF approveCommit, IInv, DeskInv, Approving
<1>3. unapproved(l) /\ unapproved(m)
  BY <1>2 DEF OnceInv, UnapprovedInv, OwnLocked, PairLocked
<1>4. holdsRecon(c, l) /\ (recon[m].status # "absent" => holdsRecon(c, m))
  BY <1>2 DEF holdsRecon
<1>5. /\ approvals \in [Log -> Nat] /\ approvals' = [approvals EXCEPT ![l] = @ + 1]
      /\ desk' = [desk EXCEPT ![c] = NoRequest] /\ desk \in [Clerk -> Request]
      /\ rejections' = rejections
  BY DEF approveCommit, IInv, TypeOK
<1>6. \A x \in evidence(l) : x = l \/ x = m
  BY <1>2 DEF evidence
<1> HIDE DEF l, m
<1>7. desk'[c].step = "idle" /\ \A d \in Clerk \ {c} : desk'[d] = desk[d]
  BY <1>5 DEF NoRequest
<1>8. \A k \in Log : evidence(k)' = evidence(k) /\ evidence(k) \subseteq Log
  BY <1>1, EvidenceLogs DEF evidence
<1>9. approvals'[l] = approvals[l] + 1 /\ \A k \in Log \ {l} : approvals'[k] = approvals[k]
  BY <1>1, <1>5
<1>10. LockInv'
  <2>1. \A d \in Clerk, k \in Log : holdsRecon(d, k)' => holdsRecon(d, k)
    BY <1>1, <1>2, <1>7 DEF holdsRecon
  <2> QED BY <2>1 DEF OnceInv, LockInv
<1>11. UnapprovedInv'
  <2> SUFFICES ASSUME NEW d \in Clerk \ {c}
               PROVE  /\ desk[d].step \in OwnLocked => recon'[desk[d].log].status # "approved"
                      /\ desk[d].step \in PairLocked => recon'[desk[d].counterpart].status # "approved"
    BY <1>7 DEF UnapprovedInv, unapproved, OwnLocked, PairLocked
  <2>1. \A k \in Log : holdsRecon(d, k) => k # l /\ ~(k = m /\ recon[k].status # "absent")
    BY <1>1, <1>4 DEF OnceInv, LockInv
  <2>2. ASSUME desk[d].step \in OwnLocked
        PROVE  recon'[desk[d].log].status # "approved"
    <3>1. desk[d].log \in Log /\ holdsRecon(d, desk[d].log)
      BY <2>2 DEF holdsRecon, OwnLocked, IInv, DeskInv, Approving
    <3>2. recon[desk[d].log].status # "approved"
      BY <2>2 DEF OnceInv, UnapprovedInv, unapproved
    <3> QED BY <3>1, <3>2, <2>1, <1>1
  <2>3. ASSUME desk[d].step \in PairLocked
        PROVE  recon'[desk[d].counterpart].status # "approved"
    <3> DEFINE k == desk[d].counterpart
    <3>1. k \in Log /\ (recon[k].status # "absent" => holdsRecon(d, k))
      BY <2>3 DEF holdsRecon, PairLocked, IInv, DeskInv, Approving
    <3>2. recon[k].status # "approved"
      BY <2>3 DEF OnceInv, UnapprovedInv, unapproved
    <3> HIDE DEF k
    <3>3. ~(k = l \/ (k = m /\ recon[k].status # "absent"))
      BY <3>1, <2>1, <1>2
    <3> QED BY <3>1, <3>2, <3>3, <1>1 DEF k
  <2> QED BY <2>2, <2>3
<1>12. ChargedInv'
  <2> SUFFICES ASSUME NEW k \in Log, approvals'[k] > 0, NEW x \in evidence(k),
                      recon'[x].status # "absent", x \notin rejections
               PROVE  recon'[x].status = "approved"
    BY <1>5, <1>8 DEF ChargedInv
  <2>1. x \in Log
    BY <1>8
  <2>2. CASE k = l
    BY <2>1, <2>2, <1>1, <1>6
  <2>3. CASE k # l
    <3>1. approvals[k] > 0
      BY <2>3, <1>9
    <3> QED BY <2>1, <3>1, <1>1 DEF OnceInv, ChargedInv
  <2> QED BY <2>2, <2>3
<1>13. RowChargedOnce'
  <2> SUFFICES ASSUME NEW k \in Log \ rejections
               PROVE  approvals'[k] <= 1
    BY <1>5 DEF RowChargedOnce
  <2>1. CASE k # l
    BY <2>1, <1>9 DEF OnceInv, RowChargedOnce
  <2>2. CASE k = l
    <3>1. l \in evidence(l)
      BY <1>1, NoneAssumption DEF evidence
    <3>2. ~(approvals[l] > 0)
      BY <2>2, <3>1, <1>1, <1>2, <1>3 DEF OnceInv, ChargedInv, unapproved
    <3> QED BY <2>2, <3>2, <1>1, <1>5, <1>9
  <2> QED BY <2>1, <2>2
<1>14. EvidenceChargedOnce'
  <2>1. \A k \in Log \ {l} : \A x \in evidence(k) \cap evidence(l) :
          ~(approvals[k] > 0 /\ recon[x].status # "absent" /\ x \notin rejections)
    <3> SUFFICES ASSUME NEW k \in Log \ {l}, NEW x \in evidence(k) \cap evidence(l),
                        approvals[k] > 0, recon[x].status # "absent", x \notin rejections
                 PROVE  FALSE
      OBVIOUS
    <3>1. recon[x].status = "approved"
      BY DEF OnceInv, ChargedInv
    <3> QED BY <3>1, <1>3, <1>6 DEF unapproved
  <2>2. \A x \in Log : recon'[x].status # "absent" => recon[x].status # "absent"
    BY <1>1, <1>2
  <2> SUFFICES ASSUME NEW j \in Log, NEW k \in Log, NEW x \in evidence(j) \cap evidence(k),
                      recon[x].status # "absent", x \notin rejections,
                      approvals'[j] > 0, approvals'[k] > 0
               PROVE  j = k
    BY <1>5, <1>8, <2>2 DEF EvidenceChargedOnce
  <2>3. CASE j # l /\ k # l
    <3>1. approvals[j] > 0 /\ approvals[k] > 0
      BY <2>3, <1>9
    <3> QED BY <3>1 DEF OnceInv, EvidenceChargedOnce
  <2>4. CASE j = l /\ k # l
    BY <2>1, <2>4, <1>9
  <2>5. CASE j # l /\ k = l
    BY <2>1, <2>5, <1>9
  <2> QED BY <2>3, <2>4, <2>5
<1> QED BY <1>10, <1>11, <1>12, <1>13, <1>14 DEF OnceInv

LEMMA OnceNext == IInv /\ OnceInv /\ [Next]_vars => OnceInv'
<1> SUFFICES ASSUME IInv, OnceInv, [Next]_vars PROVE OnceInv'
  OBVIOUS
<1>1. ASSUME NEW l \in Log,
             captureWithItems(l) \/ captureSheet(l) \/ extractSheet(l) \/ extractionFails(l)
      PROVE  OnceInv'
  BY <1>1, OnceUntouched
  DEF captureWithItems, captureSheet, extractSheet, extractionFails, moneyVars
<1>2. ASSUME NEW r \in Rental, settleDeposit(r) PROVE OnceInv'
  BY <1>2, OnceUntouched DEF settleDeposit, logVars, moneyVars
<1>3. ASSUME NEW b \in BillingRun, billLock(b) \/ billCommit(b) PROVE OnceInv'
  BY <1>3, OnceUntouched DEF billLock, billCommit, logVars, moneyVars
<1>4. CASE finished \/ UNCHANGED vars
  BY <1>4, OnceUntouched DEF finished, vars
<1> QED BY <1>1, <1>2, <1>3, <1>4, OnceReconcile, OnceRequest, OnceReject, OnceCommit DEF Next

LEMMA OnceInit == Init => OnceInv
<1> SUFFICES ASSUME Init PROVE OnceInv
  OBVIOUS
<1>1. LockInv /\ UnapprovedInv
  BY DEF Init, LockInv, UnapprovedInv, holdsRecon, NoRequest, OwnLocked, PairLocked
<1>2. ChargedInv /\ RowChargedOnce /\ EvidenceChargedOnce
  BY DEF Init, ChargedInv, RowChargedOnce, EvidenceChargedOnce
<1> QED BY <1>1, <1>2 DEF OnceInv

LEMMA OnceHolds == Spec => []OnceInv
<1> QED BY StructureHolds, OnceInit, OnceNext, PTL DEF Spec

\* A row nobody rejected is charged at most once, under any race of approvals.
THEOREM ChargedOncePerRow == Spec => []RowChargedOnce
<1>1. OnceInv => RowChargedOnce
  BY DEF OnceInv
<1> QED BY <1>1, OnceHolds, PTL

\* A log never rejected backs at most one charge, whichever side of its pair,
\* or of a later log's pair, is approved (edtr.service.ts:421-427).
THEOREM ChargedOncePerLog == Spec => []EvidenceChargedOnce
<1>1. OnceInv => EvidenceChargedOnce
  BY DEF OnceInv
<1> QED BY <1>1, OnceHolds, PTL

-----------------------------------------------------------------------------
(* The order in which rows are locked.                                      *)

\* Of any rows one names no other of them: they can be put in the order in
\* which they were written, in whatever number.
ChainInv ==
  \A X \in (SUBSET Log) \ {{}} : \E x \in X : recon[x].counterpart \notin X

\* Nothing but a reconciliation writes the name of a counterpart.
LEMMA NamesKept ==
  ASSUME IInv, [Next]_vars, ~ \E l \in Log : reconcileCommit(l)
  PROVE  \A x \in Log : recon'[x].counterpart = recon[x].counterpart
<1>1. CASE UNCHANGED recon
  BY <1>1
<1>2. ASSUME NEW c \in Clerk, rejectCommit(c)
      PROVE  \A x \in Log : recon'[x].counterpart = recon[x].counterpart
  <2>1. recon' = [recon EXCEPT ![desk[c].log].status = "rejected"]
    BY <1>2 DEF rejectCommit
  <2>2. recon \in [Log -> ReconRow]
    BY DEF IInv, TypeOK
  <2> QED BY <2>1, <2>2 DEF ReconRow
<1>3. ASSUME NEW c \in Clerk, approveCommit(c)
      PROVE  \A x \in Log : recon'[x].counterpart = recon[x].counterpart
  <2>1. \A x \in Log : recon'[x] = recon[x] \/ recon'[x] = [recon[x] EXCEPT !.status = "approved"]
    BY <1>3 DEF approveCommit
  <2>2. \A x \in Log : recon[x] \in ReconRow
    BY DEF IInv, TypeOK
  <2>3. \A row \in ReconRow : [row EXCEPT !.status = "approved"].counterpart = row.counterpart
    BY DEF ReconRow
  <2> QED BY <2>1, <2>2, <2>3
<1>4. ASSUME NEW l \in Log,
             captureWithItems(l) \/ captureSheet(l) \/ extractSheet(l) \/ extractionFails(l)
      PROVE  UNCHANGED recon
  BY <1>4 DEF captureWithItems, captureSheet, extractSheet, extractionFails
<1>5. ASSUME NEW c \in Clerk,
             \/ approveRead(c) \/ approveLockOwn(c) \/ approveLockCounterpart(c)
             \/ approveLockRental(c) \/ approveRefused(c)
             \/ approveRolledBack(c) \/ rejectRead(c)
      PROVE  UNCHANGED recon
  BY <1>5 DEF approveRead, approveLockOwn, approveLockCounterpart, approveLockRental,
              approveRefused, approveRolledBack, rejectRead, logVars
<1>6. ASSUME NEW r \in Rental, settleDeposit(r) PROVE UNCHANGED recon
  BY <1>6 DEF settleDeposit, logVars
<1>7. ASSUME NEW b \in BillingRun, billLock(b) \/ billCommit(b) PROVE UNCHANGED recon
  BY <1>7 DEF billLock, billCommit, logVars
<1>8. CASE finished \/ UNCHANGED vars
  BY <1>8 DEF finished, vars
<1> QED BY <1>1, <1>2, <1>3, <1>4, <1>5, <1>6, <1>7, <1>8 DEF Next

LEMMA ChainNext == IInv /\ ChainInv /\ [Next]_vars => ChainInv'
<1> SUFFICES ASSUME IInv, ChainInv, [Next]_vars,
                    NEW X \in (SUBSET Log) \ {{}}
             PROVE  \E x \in X : recon'[x].counterpart \notin X
  BY DEF ChainInv
<1>1. CASE ~ \E l \in Log : reconcileCommit(l)
  BY <1>1, NamesKept DEF ChainInv
<1>2. ASSUME NEW l \in Log, reconcileCommit(l)
      PROVE  \E x \in X : recon'[x].counterpart \notin X
  <2>1. /\ edtr[l].status \in {"absent", "queued"} /\ intake[l].counterpart # l
        /\ recon' = [recon EXCEPT ![l] =
             [status |-> intake[l].verdict, counterpart |-> intake[l].counterpart]]
    BY <1>2, NoneAssumption DEF reconcileCommit, IInv, TypeOK, IntakeInv, IntakeRow
  <2>2. /\ recon'[l].counterpart # l
        /\ \A x \in Log \ {l} : recon'[x] = recon[x] /\ recon[x].counterpart # l
    BY <2>1 DEF IInv, TypeOK, RowInv, pairableStatuses
  <2>3. CASE X \ {l} = {}
    BY <2>2, <2>3
  <2>4. CASE X \ {l} # {}
    <3>1. PICK x \in X \ {l} : recon[x].counterpart \notin X \ {l}
      BY <2>4 DEF ChainInv
    <3> QED BY <2>2, <3>1
  <2> QED BY <2>3, <2>4
<1> QED BY <1>1, <1>2

LEMMA ChainHolds == Spec => []ChainInv
<1>1. Init => ChainInv
  BY NoneAssumption DEF Init, ChainInv, NoRecon
<1> QED BY <1>1, StructureHolds, ChainNext, PTL DEF Spec

\* Requests never wait for one another in a circle, however many there are. The
\* last lock, the rental's, is held only by one that waits for nothing; those
\* that hold rows and wait for one name rows of which each names the next.
THEOREM LocksAcyclic == Spec => []NoLockCycle
<1>1. IInv /\ ChainInv => NoLockCycle
  <2> SUFFICES ASSUME IInv, ChainInv, NEW S \in (SUBSET Clerk) \ {{}},
                      \A c \in S : \E d \in S : waitsOn(c, d)
               PROVE  FALSE
    BY DEF NoLockCycle
  <2>1. \A c \in S : desk[c].step \in {"read", "rejecting", "own"}
    <3>1. \A c \in S : desk[c].step \in {"read", "rejecting", "own", "pair"}
      BY DEF waitsOn
    <3>2. \A c, d \in S : desk[c].step = "pair" /\ waitsOn(c, d) => desk[d].step = "priced"
      BY DEF waitsOn, holdsRental
    <3> QED BY <3>1, <3>2
  <2>2. \A c, d \in S : waitsOn(c, d) =>
          /\ desk[d].step = "own"
          /\ desk[c].step = "own" => desk[d].log = desk[c].counterpart
    BY <2>1 DEF waitsOn, holdsRecon
  <2> DEFINE owners == {c \in S : desk[c].step = "own"}
             X == {desk[c].log : c \in owners}
  <2>3. owners # {}
    BY <2>2
  <2>4. \A c \in owners : desk[c].log \in Log /\ recon[desk[c].log].counterpart = desk[c].counterpart
    BY DEF IInv, DeskInv, Approving
  <2>5. X \in (SUBSET Log) \ {{}}
    BY <2>3, <2>4
  <2>6. PICK x \in X : recon[x].counterpart \notin X
    BY <2>5 DEF ChainInv
  <2>7. PICK c \in owners : x = desk[c].log
    BY <2>6
  <2>8. PICK d \in S : waitsOn(c, d)
    BY <2>7
  <2>9. d \in owners /\ desk[d].log = desk[c].counterpart
    BY <2>2, <2>7, <2>8
  <2> QED BY <2>4, <2>6, <2>7, <2>9
<1> QED BY <1>1, StructureHolds, ChainHolds, PTL

\* The guards of the steps a request may take next: the locks it is given, the
\* checks that refuse it, its commit or rollback.
granted(c) ==
  LET l == desk[c].log
      m == desk[c].counterpart
  IN  \/ desk[c].step = "read" /\ reconFree(l) /\ unapproved(l)
      \/ /\ desk[c].step = "own" /\ reconFree(m) /\ unapproved(m)
         /\ modelSourced(l, m) => flags.attested
         /\ l \notin Unpriced
      \/ desk[c].step = "pair" /\ rentalFree(RentalOf[l]) /\ depositHeld(RentalOf[l])
      \/ desk[c].step = "priced"
      \/ desk[c].step = "rejecting" /\ reconFree(l)
refused(c) ==
  LET l == desk[c].log
      m == desk[c].counterpart
  IN  \/ desk[c].step = "read" /\ reconFree(l) /\ ~unapproved(l)
      \/ /\ desk[c].step = "own" /\ reconFree(m)
         /\ \/ ~unapproved(m)
            \/ modelSourced(l, m) /\ ~flags.attested
            \/ l \in Unpriced
      \/ desk[c].step = "pair" /\ rentalFree(RentalOf[l]) /\ ~depositHeld(RentalOf[l])

\* While a request is open some open request is granted its next step or refused.
NeverStuck ==
  (\E c \in Clerk : desk[c].step # "idle") => \E c \in Clerk : granted(c) \/ refused(c)

\* The desk never comes to a stop: of the requests that are open, however many and
\* on whatever pairs and rentals, one waits for none of the others, and every
\* check it then meets lets it go on or ends it (edtr.service.ts:463-660).
THEOREM DeskNeverStuck == Spec => []NeverStuck
<1>1. IInv /\ NoLockCycle => NeverStuck
  <2> SUFFICES ASSUME IInv, NoLockCycle, NEW o \in Clerk, desk[o].step # "idle"
               PROVE  \E c \in Clerk : granted(c) \/ refused(c)
    BY DEF NeverStuck
  <2> DEFINE S == {c \in Clerk : desk[c].step # "idle"}
  <2>1. PICK c \in S : \A d \in S : ~waitsOn(c, d)
    BY DEF NoLockCycle
  <2>2. /\ \A d \in Clerk : \A x : holdsRecon(d, x) => d \in S
        /\ \A d \in Clerk : \A x : holdsRental(d, x) => d \in S
    BY DEF holdsRecon, holdsRental
  <2>3. /\ desk[c].step \in {"read", "rejecting"} => reconFree(desk[c].log)
        /\ desk[c].step = "own" => reconFree(desk[c].counterpart)
        /\ desk[c].step = "pair" => rentalFree(RentalOf[desk[c].log])
    BY <2>1, <2>2 DEF waitsOn, reconFree, rentalFree
  <2>4. desk[c].step \in {"read", "own", "pair", "priced", "rejecting"}
    BY DEF IInv, TypeOK, Request
  <2> QED BY <2>3, <2>4 DEF granted, refused
<1> QED BY <1>1, StructureHolds, LocksAcyclic, PTL

-----------------------------------------------------------------------------
(* What a charge rests on is not rewritten.                                 *)

\* A step leaves what a log records as it was; its status may move.
SameReading(x) ==
  /\ edtr'[x].items = edtr[x].items /\ edtr'[x].payload = edtr[x].payload
  /\ edtr'[x].confidence = edtr[x].confidence /\ edtr'[x].held = edtr[x].held

\* Once a row has been charged, the rows that carry the charge are the same for
\* ever, and no step changes what an unrejected one of them records: a correction
\* overwrites the line items of a row not yet flipped (edtr.service.ts:531-538).
EvidenceKept ==
  [][\A l \in Log : approvals[l] > 0 =>
       /\ evidence(l)' = evidence(l)
       /\ \A x \in evidence(l) \ rejections : SameReading(x)]_vars

\* Only a capture's commit and an approval's write what a log records.
LEMMA ReadingsKept ==
  ASSUME IInv, [Next]_vars,
         ~ \E l \in Log : reconcileCommit(l), ~ \E c \in Clerk : approveCommit(c)
  PROVE  \A x \in Log : SameReading(x)
<1>1. CASE UNCHANGED edtr
  BY <1>1 DEF SameReading
<1>2. ASSUME NEW l \in Log, NEW s, edtr' = [edtr EXCEPT ![l].status = s]
      PROVE  \A x \in Log : SameReading(x)
  <2>1. edtr \in [Log -> EdtrRow]
    BY DEF IInv, TypeOK
  <2> QED BY <1>2, <2>1 DEF EdtrRow, SameReading
<1>3. ASSUME NEW l \in Log, captureSheet(l) \/ extractionFails(l)
      PROVE  \E s : edtr' = [edtr EXCEPT ![l].status = s]
  BY <1>3 DEF captureSheet, extractionFails
<1>4. ASSUME NEW l \in Log, captureWithItems(l) \/ extractSheet(l)
      PROVE  UNCHANGED edtr
  BY <1>4 DEF captureWithItems, extractSheet
<1>5. ASSUME NEW c \in Clerk,
             \/ approveRead(c) \/ approveLockOwn(c) \/ approveLockCounterpart(c)
             \/ approveLockRental(c) \/ approveRefused(c)
             \/ approveRolledBack(c) \/ rejectRead(c) \/ rejectCommit(c)
      PROVE  UNCHANGED edtr
  BY <1>5 DEF approveRead, approveLockOwn, approveLockCounterpart, approveLockRental,
              approveRefused, approveRolledBack, rejectRead, rejectCommit, logVars
<1>6. ASSUME NEW r \in Rental, settleDeposit(r) PROVE UNCHANGED edtr
  BY <1>6 DEF settleDeposit, logVars
<1>7. ASSUME NEW b \in BillingRun, billLock(b) \/ billCommit(b) PROVE UNCHANGED edtr
  BY <1>7 DEF billLock, billCommit, logVars
<1>8. ASSUME finished \/ UNCHANGED vars PROVE UNCHANGED edtr
  BY <1>8 DEF finished, vars
<1> QED BY <1>1, <1>2, <1>3, <1>4, <1>5, <1>6, <1>7, <1>8 DEF Next

\* The log an approval is about to charge carries no earlier charge, and only
\* its line items are overwritten.
LEMMA CommitKeepsEvidence ==
  ASSUME IInv, OnceInv, NEW c \in Clerk, approveCommit(c),
         NEW l \in Log, approvals[l] > 0, NEW x \in evidence(l) \ rejections
  PROVE  SameReading(x)
<1>1. desk[c].log \in Log /\ recon[desk[c].log].status # "absent" /\ unapproved(desk[c].log)
  BY DEF approveCommit, IInv, DeskInv, Approving, OnceInv, UnapprovedInv, OwnLocked
<1>2. x \in Log /\ x # desk[c].log
  BY <1>1, EvidenceLogs DEF OnceInv, ChargedInv, unapproved
<1>3. edtr'[x] = edtr[x]
  BY <1>1, <1>2 DEF approveCommit, IInv, TypeOK
<1> QED BY <1>3 DEF SameReading

\* A log that is captured carries no charge; its counterpart gets a new status.
LEMMA CaptureKeepsEvidence ==
  ASSUME IInv, NEW k \in Log, reconcileCommit(k),
         NEW l \in Log, approvals[l] > 0
  PROVE  evidence(l)' = evidence(l) /\ \A x \in evidence(l) : SameReading(x)
<1>1. /\ approvals[k] = 0 /\ recon[l].counterpart # k /\ \A j \in Log \ {k} : recon'[j] = recon[j]
  BY FreshLog
<1>2. k # l /\ evidence(l)' = evidence(l) /\ evidence(l) \subseteq Log \ {k}
  BY <1>1, EvidenceLogs DEF evidence
<1>3. ASSUME NEW x \in Log \ {k} PROVE SameReading(x)
  <2>1. edtr[x] \in EdtrRow
    BY DEF IInv, TypeOK
  <2>2. edtr'[x] = IF x = intake[k].counterpart
                     THEN [edtr[x] EXCEPT !.status = edtrStatusFor(intake[k].verdict)]
                     ELSE edtr[x]
    BY DEF reconcileCommit
  <2> QED BY <2>1, <2>2 DEF EdtrRow, SameReading
<1> QED BY <1>2, <1>3

\* What a charge rests on stays as it was when the charge was made: the record a
\* disputed deduction is checked against (under any race of approvals, later
\* captures of the same day, and rejections of other rows).
THEOREM EvidenceStays == Spec => EvidenceKept
<1> DEFINE Kept == \A l \in Log : approvals[l] > 0 =>
                     /\ evidence(l)' = evidence(l)
                     /\ \A x \in evidence(l) \ rejections : SameReading(x)
<1>1. ASSUME IInv, OnceInv, [Next]_vars PROVE Kept
  <2>1. CASE \E k \in Log : reconcileCommit(k)
    BY <1>1, <2>1, CaptureKeepsEvidence
  <2>2. CASE ~ \E k \in Log : reconcileCommit(k)
    <3>1. \A l \in Log : evidence(l)' = evidence(l) /\ evidence(l) \subseteq Log
      BY <1>1, <2>2, NamesKept, EvidenceLogs DEF evidence
    <3>2. CASE \E c \in Clerk : approveCommit(c)
      BY <1>1, <3>1, <3>2, CommitKeepsEvidence
    <3>3. CASE ~ \E c \in Clerk : approveCommit(c)
      BY <1>1, <2>2, <3>1, <3>3, ReadingsKept
    <3> QED BY <3>2, <3>3
  <2> QED BY <2>1, <2>2
<1>2. IInv /\ OnceInv /\ [Next]_vars => [Kept]_vars
  BY <1>1
<1> HIDE DEF Kept
<1>3. Spec => [][Kept]_vars
  BY <1>2, StructureHolds, OnceHolds, PTL DEF Spec
<1> QED BY <1>3 DEF EvidenceKept, Kept

-----------------------------------------------------------------------------
(* A photographed sheet, whichever way its hours come in.                   *)

\* To whoever captured it a sheet waits until it is typed, read or given up;
\* what the money path does with it afterwards does not change the outcome.
SheetLog == {l \in Log : Source[l] = "paper_ocr"}
outcomeOf(l) ==
  CASE edtr[l].status \in {"absent", "queued"} -> "waiting"
    [] edtr[l].status = "hard_failed" -> "refused"
    [] OTHER -> IF edtr[l].items = None THEN "handed over" ELSE "read"

outcomes == [l \in SheetLog |-> outcomeOf(l)]
entries == [l \in SheetLog |-> IF edtr[l].items = None THEN 0 ELSE 1]

Sheets == INSTANCE SheetCapture WITH Sheet <- SheetLog, outcome <- outcomes, hours <- entries

\* A sheet that waits has no line items.
UnreadInv == \A l \in Log : edtr[l].status \in {"absent", "queued"} => edtr[l].items = None

\* What a step may do to an EDTR row: a capture's commit gives a waiting log its
\* line items and ends the wait; the OCR worker queues a sheet or gives it up;
\* nothing else starts or ends a wait, enters line items or clears them.
LEMMA RowMoves ==
  ASSUME IInv, UnreadInv, [Next]_vars
  PROVE  \/ \E l \in Log :
              /\ edtr[l].status \in {"absent", "queued"} /\ edtr'[l].status \in pairableStatuses
              /\ edtr'[l].items \in Reading
              /\ \A x \in Log \ {l} :
                   /\ \/ edtr'[x].status = edtr[x].status
                      \/ edtr[x].status \in pairableStatuses /\ edtr'[x].status \in pairableStatuses
                   /\ edtr'[x].items = edtr[x].items
         \/ \E l \in Log :
              /\ edtr[l].status \in {"absent", "queued"}
              /\ edtr'[l].status \in {"queued", "hard_failed", "review"}
              /\ \A x \in Log : edtr'[x].items = edtr[x].items
              /\ \A x \in Log \ {l} : edtr'[x].status = edtr[x].status
         \/ \A x \in Log : /\ edtr'[x].status = edtr[x].status
                           /\ edtr'[x].items = None <=> edtr[x].items = None
<1>1. ASSUME NEW l \in Log, reconcileCommit(l)
      PROVE  /\ edtr[l].status \in {"absent", "queued"} /\ edtr'[l].status \in pairableStatuses
             /\ edtr'[l].items \in Reading
             /\ \A x \in Log \ {l} :
                  /\ \/ edtr'[x].status = edtr[x].status
                     \/ edtr[x].status \in pairableStatuses /\ edtr'[x].status \in pairableStatuses
                  /\ edtr'[x].items = edtr[x].items
  <2> DEFINE t == intake[l]
             s == edtrStatusFor(t.verdict)
             row == [status |-> IF t.held THEN "review" ELSE s, items |-> t.items,
                     payload |-> t.payload, confidence |-> t.confidence, held |-> t.held]
  <2>1. /\ edtr[l].status \in {"absent", "queued"} /\ t.items \in Reading /\ t.counterpart # l
        /\ t.counterpart \in Log => edtr[t.counterpart].status \in pairableStatuses
    BY <1>1, NoneAssumption DEF reconcileCommit, IInv, TypeOK, IntakeInv, IntakeRow
  <2>2. s \in pairableStatuses /\ "review" \in pairableStatuses
    BY DEF edtrStatusFor, pairableStatuses
  <2>3. edtr' = [m \in Log |-> CASE m = l -> row
                                [] m = t.counterpart -> [edtr[m] EXCEPT !.status = s]
                                [] OTHER -> edtr[m]]
    BY <1>1 DEF reconcileCommit
  <2>4. row.status \in pairableStatuses /\ row.items = t.items
    BY <2>2
  <2>5. \A x \in Log : edtr[x] \in EdtrRow
    BY DEF IInv, TypeOK
  <2> HIDE DEF t, s, row
  <2>6. edtr'[l] = row
    BY <2>1, <2>3
  <2>7. \A x \in Log \ {l} :
          edtr'[x] = IF x = t.counterpart THEN [edtr[x] EXCEPT !.status = s] ELSE edtr[x]
    BY <2>3
  <2>8. \A x \in Log : /\ [edtr[x] EXCEPT !.status = s].status = s
                       /\ [edtr[x] EXCEPT !.status = s].items = edtr[x].items
    BY <2>5 DEF EdtrRow
  <2>9. \A x \in Log \ {l} :
          /\ \/ edtr'[x].status = edtr[x].status
             \/ edtr[x].status \in pairableStatuses /\ edtr'[x].status \in pairableStatuses
          /\ edtr'[x].items = edtr[x].items
    BY <2>1, <2>2, <2>7, <2>8
  <2> QED BY <2>1, <2>4, <2>6, <2>9
<1>2. ASSUME NEW l \in Log, captureSheet(l) \/ extractionFails(l)
      PROVE  /\ edtr[l].status \in {"absent", "queued"}
             /\ edtr'[l].status \in {"queued", "hard_failed", "review"}
             /\ \A x \in Log : edtr'[x].items = edtr[x].items
             /\ \A x \in Log \ {l} : edtr'[x].status = edtr[x].status
  <2>1. edtr \in [Log -> EdtrRow]
    BY DEF IInv, TypeOK
  <2>2. PICK s \in {"queued", "hard_failed", "review"} : edtr' = [edtr EXCEPT ![l].status = s]
    BY <1>2 DEF captureSheet, extractionFails
  <2> QED BY <1>2, <2>1, <2>2 DEF captureSheet, extractionFails, EdtrRow
<1>3. ASSUME NEW c \in Clerk, approveCommit(c)
      PROVE  \A x \in Log : /\ edtr'[x].status = edtr[x].status
                            /\ edtr'[x].items = None <=> edtr[x].items = None
  <2>1. \A x \in Log : /\ edtr'[x].status = edtr[x].status
                       /\ edtr'[x].items # edtr[x].items => edtr'[x].items \in Reading
    BY <1>3, ApproveCommitEffect
  <2>2. desk[c].log \in Log /\ edtr[desk[c].log].items \in Reading
    BY <1>3 DEF approveCommit, IInv, DeskInv, Approving, RowInv
  <2>3. \A x \in Log \ {desk[c].log} : edtr'[x] = edtr[x]
    BY <1>3 DEF approveCommit, IInv, TypeOK
  <2> QED BY <2>1, <2>2, <2>3, NoneAssumption
<1>4. CASE UNCHANGED edtr
  BY <1>4
<1>5. ASSUME NEW l \in Log, captureWithItems(l) \/ extractSheet(l)
      PROVE  UNCHANGED edtr
  BY <1>5 DEF captureWithItems, extractSheet
<1>6. ASSUME NEW c \in Clerk,
             \/ approveRead(c) \/ approveLockOwn(c) \/ approveLockCounterpart(c)
             \/ approveLockRental(c) \/ approveRefused(c)
             \/ approveRolledBack(c) \/ rejectRead(c) \/ rejectCommit(c)
      PROVE  UNCHANGED edtr
  BY <1>6 DEF approveRead, approveLockOwn, approveLockCounterpart, approveLockRental,
              approveRefused, approveRolledBack, rejectRead, rejectCommit, logVars
<1>7. ASSUME NEW r \in Rental, settleDeposit(r) PROVE UNCHANGED edtr
  BY <1>7 DEF settleDeposit, logVars
<1>8. ASSUME NEW b \in BillingRun, billLock(b) \/ billCommit(b) PROVE UNCHANGED edtr
  BY <1>8 DEF billLock, billCommit, logVars
<1>9. ASSUME finished \/ UNCHANGED vars PROVE UNCHANGED edtr
  BY <1>9 DEF finished, vars
<1> HIDE DEF Next
<1>10. \/ \E l \in Log : \/ captureWithItems(l) \/ captureSheet(l)
                         \/ extractSheet(l) \/ extractionFails(l) \/ reconcileCommit(l)
       \/ \E c \in Clerk : \/ approveRead(c) \/ approveLockOwn(c) \/ approveLockCounterpart(c)
                           \/ approveLockRental(c) \/ approveRefused(c)
                           \/ approveRolledBack(c) \/ approveCommit(c)
                           \/ rejectRead(c) \/ rejectCommit(c)
       \/ \E r \in Rental : settleDeposit(r)
       \/ \E b \in BillingRun : billLock(b) \/ billCommit(b)
       \/ finished \/ UNCHANGED vars
  BY DEF Next
<1>11. \/ \E l \in Log : reconcileCommit(l)
       \/ \E l \in Log : captureSheet(l) \/ extractionFails(l)
       \/ \E c \in Clerk : approveCommit(c)
       \/ UNCHANGED edtr
  BY <1>5, <1>6, <1>7, <1>8, <1>9, <1>10
<1>12. CASE \E l \in Log : reconcileCommit(l)
  BY <1>1, <1>12
<1>13. CASE \E l \in Log : captureSheet(l) \/ extractionFails(l)
  BY <1>2, <1>13
<1>14. CASE \E c \in Clerk : approveCommit(c)
  BY <1>3, <1>14
<1> QED BY <1>4, <1>11, <1>12, <1>13, <1>14

LEMMA UnreadNext == IInv /\ UnreadInv /\ [Next]_vars => UnreadInv'
BY RowMoves DEF UnreadInv, pairableStatuses

\* A log whose wait and line items a step leaves alone keeps its outcome.
LEMMA OutcomeStays ==
  ASSUME NEW x,
         \/ edtr'[x].status = edtr[x].status
         \/ edtr[x].status \in pairableStatuses /\ edtr'[x].status \in pairableStatuses
         \/ {edtr[x].status, edtr'[x].status} \subseteq {"absent", "queued"},
         edtr'[x].items = None <=> edtr[x].items = None
  PROVE  /\ outcomeOf(x)' = outcomeOf(x)
         /\ (IF edtr[x].items = None THEN 0 ELSE 1)' = IF edtr[x].items = None THEN 0 ELSE 1
BY DEF outcomeOf, pairableStatuses

\* One log leaves the wait, and nothing else changes: a step of SheetCapture if
\* the log is a sheet, and none if it is not.
LEMMA OneSettles ==
  ASSUME NEW l \in Log, NEW o \in Sheets!Outcome,
         outcomeOf(l) = "waiting", outcomeOf(l)' = o,
         edtr[l].items = None, edtr'[l].items = None <=> o # "read",
         \A x \in Log \ {l} :
           /\ outcomeOf(x)' = outcomeOf(x)
           /\ (IF edtr[x].items = None THEN 0 ELSE 1)' = IF edtr[x].items = None THEN 0 ELSE 1
  PROVE  [Sheets!Next]_<<outcomes, entries>>
<1>1. CASE l \notin SheetLog
  BY <1>1 DEF SheetLog, outcomes, entries
<1>2. CASE l \in SheetLog
  <2>1. outcomes[l] = "waiting" /\ outcomes' = [outcomes EXCEPT ![l] = o]
    BY <1>2 DEF SheetLog, outcomes
  <2>2. entries' = IF o = "read" THEN [entries EXCEPT ![l] = 1] ELSE entries
    <3>1. entries[l] = 0 /\ entries'[l] = IF o = "read" THEN 1 ELSE 0
      BY <1>2 DEF SheetLog, entries
    <3>2. \A x \in SheetLog \ {l} : entries'[x] = entries[x]
      BY DEF SheetLog, entries
    <3>3. entries = [x \in SheetLog |-> entries[x]] /\ entries' = [x \in SheetLog |-> entries'[x]]
      BY DEF SheetLog, entries
    <3> QED BY <1>2, <3>1, <3>2, <3>3
  <2> QED BY <1>2, <2>1, <2>2 DEF Sheets!Next, Sheets!Settle
<1> QED BY <1>1, <1>2

LEMMA SheetStep ==
  ASSUME IInv, UnreadInv, [Next]_vars
  PROVE  [Sheets!Next]_<<outcomes, entries>>
<1>1. ASSUME NEW l \in Log,
             edtr[l].status \in {"absent", "queued"}, edtr'[l].status \in pairableStatuses,
             edtr'[l].items \in Reading,
             \A x \in Log \ {l} :
               /\ \/ edtr'[x].status = edtr[x].status
                  \/ edtr[x].status \in pairableStatuses /\ edtr'[x].status \in pairableStatuses
               /\ edtr'[x].items = edtr[x].items
      PROVE  [Sheets!Next]_<<outcomes, entries>>
  <2>1. outcomeOf(l) = "waiting" /\ outcomeOf(l)' = "read"
    BY <1>1, NoneAssumption DEF outcomeOf, pairableStatuses
  <2>2. edtr[l].items = None /\ edtr'[l].items # None
    BY <1>1, NoneAssumption DEF UnreadInv
  <2>3. "read" \in Sheets!Outcome
    BY DEF Sheets!Outcome
  <2> QED BY <1>1, <2>1, <2>2, <2>3, OutcomeStays, OneSettles
<1>2. ASSUME NEW l \in Log,
             edtr[l].status \in {"absent", "queued"},
             edtr'[l].status \in {"queued", "hard_failed", "review"},
             \A x \in Log : edtr'[x].items = edtr[x].items,
             \A x \in Log \ {l} : edtr'[x].status = edtr[x].status
      PROVE  [Sheets!Next]_<<outcomes, entries>>
  <2>1. edtr[l].items = None /\ edtr'[l].items = None
    BY <1>2 DEF UnreadInv
  <2>2. outcomeOf(l) = "waiting"
    BY <1>2 DEF outcomeOf
  <2>3. CASE edtr'[l].status = "queued"
    <3>1. \A x \in Log :
            /\ outcomeOf(x)' = outcomeOf(x)
            /\ (IF edtr[x].items = None THEN 0 ELSE 1)' = IF edtr[x].items = None THEN 0 ELSE 1
      BY <1>2, <2>3, OutcomeStays
    <3> QED BY <3>1 DEF SheetLog, outcomes, entries
  <2>4. CASE edtr'[l].status \in {"hard_failed", "review"}
    <3> DEFINE o == IF edtr'[l].status = "review" THEN "handed over" ELSE "refused"
    <3>1. outcomeOf(l)' = o /\ o # "read" /\ o \in Sheets!Outcome
      BY <2>1, <2>4 DEF outcomeOf, Sheets!Outcome
    <3> QED BY <1>2, <2>1, <2>2, <3>1, OutcomeStays, OneSettles
  <2> QED BY <1>2, <2>3, <2>4
<1>3. ASSUME \A x \in Log : /\ edtr'[x].status = edtr[x].status
                            /\ edtr'[x].items = None <=> edtr[x].items = None
      PROVE  UNCHANGED <<outcomes, entries>>
  <2>1. \A x \in Log :
          /\ outcomeOf(x)' = outcomeOf(x)
          /\ (IF edtr[x].items = None THEN 0 ELSE 1)' = IF edtr[x].items = None THEN 0 ELSE 1
    BY <1>3, OutcomeStays
  <2> QED BY <2>1 DEF SheetLog, outcomes, entries
<1> QED BY <1>1, <1>2, <1>3, RowMoves

\* The money path keeps the promise the OCR worker makes (WorkerRefines): a sheet
\* gets one outcome, once, and its hours are entered exactly if it was read, though
\* its row is still written by the counterpart's capture and by a reviewer's
\* correction (reconciliation.ts:131-215, edtr.service.ts:531-538).
THEOREM SheetsRefined == Spec => Sheets!Spec
<1>1. Init => Sheets!Init /\ UnreadInv
  BY DEF Init, Sheets!Init, UnreadInv, SheetLog, outcomes, entries, outcomeOf
<1>2. Spec => []UnreadInv
  BY <1>1, StructureHolds, UnreadNext, PTL DEF Spec
<1> QED BY <1>1, <1>2, StructureHolds, SheetStep, PTL DEF Spec, Sheets!Spec

-----------------------------------------------------------------------------
(* Model output moves money only under an attested accuracy.                *)

\* A request that has locked the pair has passed the accuracy gate, and the
\* payloads it looked at cannot change afterwards.
AttestedInv ==
  /\ ModelChargeAttested
  /\ \A c \in Clerk : desk[c].step \in PairLocked =>
       (modelSourced(desk[c].log, desk[c].counterpart) => flags.attested)

LEMMA AttestedNext == IInv /\ AttestedInv /\ [Next]_vars => AttestedInv'
<1> SUFFICES ASSUME IInv, AttestedInv, [Next]_vars PROVE AttestedInv'
  OBVIOUS
<1>0. /\ edtr \in [Log -> EdtrRow] /\ desk \in [Clerk -> Request] /\ approvals \in [Log -> Nat]
      /\ \A c \in Clerk : desk[c].step \in PairLocked => desk[c].log \in Log /\ desk[c].counterpart \in Log
  BY DEF IInv, TypeOK, DeskInv, Approving, PairLocked
\* A step that keeps the payloads, counterparts, charges and requests.
<1>1. ASSUME UNCHANGED <<flags, recon, desk, approvals>>,
             \A k \in Log : edtr'[k].payload = edtr[k].payload
      PROVE  AttestedInv'
  <2>1. \A k \in Log : evidence(k)' = evidence(k) /\ evidence(k) \subseteq Log
    BY <1>1, EvidenceLogs DEF evidence
  <2> QED BY <1>0, <1>1, <2>1 DEF AttestedInv, ModelChargeAttested, modelSourced
<1>2. ASSUME NEW l \in Log,
             captureWithItems(l) \/ captureSheet(l) \/ extractSheet(l) \/ extractionFails(l)
      PROVE  AttestedInv'
  <2>1. UNCHANGED <<flags, recon, desk, approvals>>
    BY <1>2 DEF captureWithItems, captureSheet, extractSheet, extractionFails, moneyVars
  <2>2. \A k \in Log : edtr'[k].payload = edtr[k].payload
    <3>1. CASE captureWithItems(l) \/ extractSheet(l)
      BY <3>1 DEF captureWithItems, extractSheet
    <3>2. CASE captureSheet(l)
      BY <3>2, <1>0 DEF captureSheet, EdtrRow
    <3>3. CASE extractionFails(l)
      BY <3>3, <1>0 DEF extractionFails, EdtrRow
    <3> QED BY <1>2, <3>1, <3>2, <3>3
  <2> QED BY <2>1, <2>2, <1>1
<1>3. ASSUME NEW l \in Log, reconcileCommit(l) PROVE AttestedInv'
  <2>1. /\ approvals[l] = 0 /\ \A k \in Log : recon[k].counterpart # l
        /\ \A c \in Clerk : desk[c].step \in Approving => desk[c].log # l /\ desk[c].counterpart # l
        /\ \A k \in Log \ {l} : recon'[k] = recon[k]
    BY <1>3, FreshLog
  <2>2. UNCHANGED <<flags, desk, approvals>>
    BY <1>3 DEF reconcileCommit, moneyVars
  <2>3. \A k \in Log \ {l} : edtr'[k].payload = edtr[k].payload
    <3>1. \A k \in Log \ {l} :
            edtr'[k] = IF k = intake[l].counterpart
                         THEN [edtr[k] EXCEPT !.status = edtrStatusFor(intake[l].verdict)]
                         ELSE edtr[k]
      BY <1>3 DEF reconcileCommit
    <3> QED BY <3>1, <1>0 DEF EdtrRow
  <2>4. \A k \in Log : approvals[k] > 0 =>
          /\ k # l /\ evidence(k)' = evidence(k) /\ evidence(k) \subseteq Log \ {l}
    BY <2>1, EvidenceLogs DEF evidence
  <2>5. ModelChargeAttested'
    BY <2>2, <2>3, <2>4 DEF AttestedInv, ModelChargeAttested
  <2>6. \A c \in Clerk : desk[c].step \in PairLocked =>
          desk[c].log \in Log \ {l} /\ desk[c].counterpart \in Log \ {l}
    BY <2>1, <1>0 DEF Approving, PairLocked
  <2> QED BY <2>2, <2>3, <2>5, <2>6 DEF AttestedInv, modelSourced
<1>4. ASSUME NEW c \in Clerk,
             \/ approveRead(c) \/ approveLockOwn(c) \/ approveLockCounterpart(c)
             \/ approveLockRental(c) \/ approveRefused(c)
             \/ approveRolledBack(c) \/ rejectRead(c)
      PROVE  AttestedInv'
  <2>1. UNCHANGED <<flags, edtr, recon, approvals>>
    BY <1>4 DEF approveRead, approveLockOwn, approveLockCounterpart, approveLockRental,
                approveRefused, approveRolledBack, rejectRead, logVars, moneyVars
  <2>2. \A d \in Clerk \ {c} : desk'[d] = desk[d]
    BY <1>0, <1>4 DEF approveRead, approveLockOwn, approveLockCounterpart, approveLockRental,
                approveRefused, approveRolledBack, rejectRead
  <2>3. desk'[c].step \in PairLocked =>
          (modelSourced(desk'[c].log, desk'[c].counterpart) => flags.attested)
    <3>1. desk[c] \in Request
      BY <1>0
    <3>2. CASE approveLockCounterpart(c)
      BY <3>1, <3>2, <1>0 DEF approveLockCounterpart, Request
    <3>3. CASE approveLockRental(c)
      <4>1. /\ desk'[c].log = desk[c].log /\ desk'[c].counterpart = desk[c].counterpart
            /\ desk[c].step = "pair"
        BY <3>1, <3>3, <1>0 DEF approveLockRental, Request
      <4> QED BY <4>1 DEF AttestedInv, PairLocked
    <3>4. CASE approveLockOwn(c)
      BY <3>1, <3>4, <1>0 DEF approveLockOwn, Request, PairLocked
    <3>5. CASE approveRead(c)
      BY <3>5, <1>0 DEF approveRead, PairLocked
    <3>6. CASE approveRefused(c) \/ approveRolledBack(c)
      BY <3>6, <1>0 DEF approveRefused, approveRolledBack, NoRequest, PairLocked
    <3>7. CASE rejectRead(c)
      BY <3>7, <1>0 DEF rejectRead, NoRequest, PairLocked
    <3> QED BY <1>4, <3>2, <3>3, <3>4, <3>5, <3>6, <3>7
  <2> QED BY <2>1, <2>2, <2>3 DEF AttestedInv, ModelChargeAttested, evidence, modelSourced
<1>5. ASSUME NEW c \in Clerk, rejectCommit(c) PROVE AttestedInv'
  <2>1. UNCHANGED <<flags, edtr, approvals>> /\ desk' = [desk EXCEPT ![c] = NoRequest]
    BY <1>5 DEF rejectCommit, moneyVars
  <2>2. \A k \in Log : recon'[k].counterpart = recon[k].counterpart
    BY <1>5 DEF rejectCommit, IInv, TypeOK, ReconRow
  <2>3. desk'[c].step = "idle" /\ \A d \in Clerk \ {c} : desk'[d] = desk[d]
    BY <2>1, <1>0 DEF NoRequest
  <2>4. ModelChargeAttested'
    BY <2>1, <2>2 DEF AttestedInv, ModelChargeAttested, evidence
  <2> QED BY <2>1, <2>3, <2>4 DEF AttestedInv, modelSourced, PairLocked
<1>6. ASSUME NEW c \in Clerk, approveCommit(c) PROVE AttestedInv'
  <2> DEFINE l == desk[c].log
             m == desk[c].counterpart
  <2>1. l \in Log /\ \A k \in Log : recon'[k].counterpart = recon[k].counterpart
    BY <1>6, ApproveCommitEffect
  <2>2. /\ approvals' = [approvals EXCEPT ![l] = @ + 1] /\ flags' = flags
        /\ desk' = [desk EXCEPT ![c] = NoRequest] /\ desk[c].step = "priced"
    BY <1>6 DEF approveCommit
  <2>3. \A k \in Log : edtr'[k].payload = edtr[k].payload
    <3>1. edtr' = edtr \/ \E adj : edtr' = [edtr EXCEPT ![l].items = adj]
      BY <1>6 DEF approveCommit
    <3> HIDE DEF l
    <3> QED BY <3>1, <1>0 DEF EdtrRow
  <2>4. recon[l].counterpart = m /\ (modelSourced(l, m) => flags.attested)
    BY <2>2 DEF IInv, DeskInv, Approving, PairLocked, AttestedInv
  <2>5. \A k \in Log : evidence(k)' = evidence(k) /\ evidence(k) \subseteq Log
    BY <2>1, EvidenceLogs DEF evidence
  <2>6. \A x \in evidence(l) : edtr[x].payload = "model" => flags.attested
    BY <2>4 DEF evidence, modelSourced
  <2> HIDE DEF l, m
  <2>7. ModelChargeAttested'
    <3> SUFFICES ASSUME NEW k \in Log, approvals'[k] > 0, NEW x \in evidence(k),
                        edtr[x].payload = "model"
                 PROVE  flags.attested
      BY <2>2, <2>3, <2>5 DEF ModelChargeAttested
    <3>1. CASE k = l
      BY <3>1, <2>6
    <3>2. CASE k # l
      BY <3>2, <2>2, <1>0 DEF AttestedInv, ModelChargeAttested
    <3> QED BY <3>1, <3>2
  <2>8. desk'[c].step = "idle" /\ \A d \in Clerk \ {c} : desk'[d] = desk[d]
    BY <2>2, <1>0 DEF NoRequest
  <2> QED BY <2>2, <2>3, <2>7, <2>8, <1>0 DEF AttestedInv, modelSourced, PairLocked
<1>7. ASSUME NEW r \in Rental, settleDeposit(r) PROVE AttestedInv'
  BY <1>7, <1>1 DEF settleDeposit, logVars, moneyVars
<1>8. ASSUME NEW b \in BillingRun, billLock(b) \/ billCommit(b) PROVE AttestedInv'
  BY <1>8, <1>1 DEF billLock, billCommit, logVars, moneyVars
<1>9. CASE finished \/ UNCHANGED vars
  BY <1>9, <1>1 DEF finished, vars
<1> QED BY <1>2, <1>3, <1>4, <1>5, <1>6, <1>7, <1>8, <1>9 DEF Next

\* No charge rests on model-extracted hours, on either side of the pair, unless
\* the deployment attests the accuracy of the extraction (edtr.service.ts:489-507).
THEOREM ChargesAttested == Spec => []ModelChargeAttested
<1>1. Init => AttestedInv
  BY DEF Init, AttestedInv, ModelChargeAttested, NoRequest, PairLocked
<1>2. AttestedInv => ModelChargeAttested
  BY DEF AttestedInv
<1> QED BY <1>1, <1>2, AttestedNext, StructureHolds, PTL DEF Spec

-----------------------------------------------------------------------------
(* One weekly invoice line an accrual.                                      *)

\* The rows a billing run has locked are accrued, unbilled and its own.
BillInv ==
  /\ AccrualsBilledExactly
  /\ \A l \in Log : accruals[l].billed => accruals[l].amount > 0
  /\ \A b \in BillingRun : \A l \in billing[b].rows : accruals[l].amount > 0 /\ ~accruals[l].billed
  /\ \A b, d \in BillingRun : b # d => billing[b].rows \cap billing[d].rows = {}

LEMMA BillNext == IInv /\ BillInv /\ [Next]_vars => BillInv'
<1> SUFFICES ASSUME IInv, BillInv, [Next]_vars PROVE BillInv'
  OBVIOUS
<1>0. /\ accruals \in [Log -> AccrualRow] /\ weekly \in [Log -> Nat]
      /\ billing \in [BillingRun -> Billing]
      /\ \A b \in BillingRun : billing[b].rows \subseteq Log
  BY DEF IInv, TypeOK, Billing
<1>1. ASSUME UNCHANGED <<accruals, weekly, billing>> PROVE BillInv'
  BY <1>1 DEF BillInv, AccrualsBilledExactly
<1>2. ASSUME NEW b \in BillingRun, billLock(b) PROVE BillInv'
  <2>1. PICK r \in Rental :
          rowsFree(r) /\ billing' = [billing EXCEPT ![b] = [rental |-> r, rows |-> unbilled(r)]]
    BY <1>2 DEF billLock
  <2>2. UNCHANGED <<accruals, weekly>>
    BY <1>2 DEF billLock, moneyVars
  <2>3. /\ billing'[b].rows = unbilled(r)
        /\ \A d \in BillingRun \ {b} : billing'[d] = billing[d]
    BY <2>1, <1>0
  <2>4. \A d \in BillingRun : billing[d].rows \cap unbilled(r) = {}
    BY <2>1 DEF rowsFree
  <2>5. \A l \in unbilled(r) : accruals[l].amount > 0 /\ ~accruals[l].billed
    BY DEF unbilled
  <2>6. \A d, e \in BillingRun : d # e => billing'[d].rows \cap billing'[e].rows = {}
    BY <2>3, <2>4 DEF BillInv
  <2>7. \A d \in BillingRun : \A l \in billing'[d].rows : accruals[l].amount > 0 /\ ~accruals[l].billed
    BY <2>3, <2>5 DEF BillInv
  <2> QED BY <2>2, <2>6, <2>7 DEF BillInv, AccrualsBilledExactly
<1>3. ASSUME NEW b \in BillingRun, billCommit(b) PROVE BillInv'
  <2> DEFINE R == billing[b].rows
  <2>1. \A l \in Log :
          /\ weekly'[l] = IF l \in R THEN weekly[l] + 1 ELSE weekly[l]
          /\ accruals'[l].amount = accruals[l].amount
          /\ accruals'[l].billed = IF l \in R THEN TRUE ELSE accruals[l].billed
    BY <1>3, <1>0 DEF billCommit, AccrualRow
  <2>2. billing'[b].rows = {} /\ \A d \in BillingRun \ {b} : billing'[d] = billing[d]
    BY <1>3, <1>0 DEF billCommit, NoBilling
  <2>3. \A l \in R : l \in Log /\ accruals[l].amount > 0 /\ ~accruals[l].billed
    BY <1>0 DEF BillInv
  <2>4. \A d \in BillingRun \ {b} : billing[d].rows \cap R = {}
    BY DEF BillInv
  <2> HIDE DEF R
  <2>5. AccrualsBilledExactly'
    <3> SUFFICES ASSUME NEW l \in Log
                 PROVE  weekly'[l] = IF accruals'[l].billed THEN 1 ELSE 0
      BY DEF AccrualsBilledExactly
    <3>1. weekly[l] = IF accruals[l].billed THEN 1 ELSE 0
      BY DEF BillInv, AccrualsBilledExactly
    <3>2. CASE l \in R
      <4>1. weekly[l] = 0
        BY <3>1, <3>2, <2>3
      <4>2. weekly'[l] = weekly[l] + 1
        BY <3>2, <2>1, Zenon
      <4>3. accruals'[l].billed = TRUE
        BY <3>2, <2>1
      <4> QED BY <4>1, <4>2, <4>3
    <3>3. CASE l \notin R
      <4>1. weekly'[l] = weekly[l] /\ accruals'[l].billed = accruals[l].billed
        BY <3>3, <2>1
      <4> QED BY <3>1, <4>1
    <3> QED BY <3>2, <3>3
  <2>6. \A l \in Log : accruals'[l].billed => accruals'[l].amount > 0
    BY <2>1, <2>3 DEF BillInv
  <2>7. \A d \in BillingRun : \A l \in billing'[d].rows : accruals'[l].amount > 0 /\ ~accruals'[l].billed
    <3> SUFFICES ASSUME NEW d \in BillingRun \ {b}, NEW l \in billing[d].rows
                 PROVE  accruals'[l].amount > 0 /\ ~accruals'[l].billed
      BY <2>2
    <3>1. l \in Log /\ l \notin R /\ accruals[l].amount > 0 /\ ~accruals[l].billed
      BY <1>0, <2>4 DEF BillInv
    <3> QED BY <3>1, <2>1
  <2>8. \A d, e \in BillingRun : d # e => billing'[d].rows \cap billing'[e].rows = {}
    BY <2>2 DEF BillInv
  <2> QED BY <2>5, <2>6, <2>7, <2>8 DEF BillInv
<1>4. ASSUME NEW c \in Clerk, approveCommit(c) PROVE BillInv'
  <2> DEFINE l == desk[c].log
             a == splitOf(c).accrued
  <2>1. l \in Log /\ a \in Nat
    BY <1>4, ApproveCommitEffect
  <2>2. /\ UNCHANGED <<weekly, billing>>
        /\ accruals' = IF a > 0 THEN [accruals EXCEPT ![l] = [amount |-> a, billed |-> FALSE]]
                                ELSE accruals
        /\ a > 0 => accruals[l] = NoAccrual
    BY <1>4 DEF approveCommit, accrualClashes, billVars
  <2> HIDE DEF l, a
  <2>3. CASE a > 0
    <3>1. accruals[l].amount = 0 /\ ~accruals[l].billed
      BY <2>2, <2>3 DEF NoAccrual
    <3>2. accruals'[l].amount = a /\ ~accruals'[l].billed
            /\ \A k \in Log \ {l} : accruals'[k] = accruals[k]
      BY <2>1, <2>2, <2>3, <1>0
    <3>3. \A b \in BillingRun : l \notin billing[b].rows
      BY <3>1 DEF BillInv
    <3>4. AccrualsBilledExactly'
      BY <2>1, <2>2, <3>1, <3>2 DEF BillInv, AccrualsBilledExactly
    <3>5. \A b \in BillingRun : \A k \in billing[b].rows : accruals'[k].amount > 0 /\ ~accruals'[k].billed
      BY <1>0, <3>2, <3>3 DEF BillInv
    <3>6. \A k \in Log : accruals'[k].billed => accruals'[k].amount > 0
      BY <3>2 DEF BillInv
    <3> QED BY <2>2, <3>4, <3>5, <3>6 DEF BillInv
  <2>4. CASE ~(a > 0)
    BY <2>2, <2>4, <1>1
  <2> QED BY <2>3, <2>4
<1>5. ASSUME NEW l \in Log,
             \/ captureWithItems(l) \/ captureSheet(l)
             \/ extractSheet(l) \/ extractionFails(l) \/ reconcileCommit(l)
      PROVE  BillInv'
  BY <1>5, <1>1
  DEF captureWithItems, captureSheet, extractSheet, extractionFails, reconcileCommit,
      moneyVars, billVars
<1>6. ASSUME NEW c \in Clerk,
             \/ approveRead(c) \/ approveLockOwn(c) \/ approveLockCounterpart(c)
             \/ approveLockRental(c) \/ approveRefused(c)
             \/ approveRolledBack(c) \/ rejectRead(c) \/ rejectCommit(c)
      PROVE  BillInv'
  BY <1>6, <1>1
  DEF approveRead, approveLockOwn, approveLockCounterpart, approveLockRental,
      approveRefused, approveRolledBack, rejectRead, rejectCommit, moneyVars, billVars
<1>7. ASSUME NEW r \in Rental, settleDeposit(r) PROVE BillInv'
  BY <1>7, <1>1 DEF settleDeposit, moneyVars, billVars
<1>8. CASE finished \/ UNCHANGED vars
  BY <1>8, <1>1 DEF finished, vars
<1> QED BY <1>2, <1>3, <1>4, <1>5, <1>6, <1>7, <1>8 DEF Next

LEMMA BillHolds == Spec => []BillInv
<1>1. Init => BillInv
  BY DEF Init, BillInv, AccrualsBilledExactly, NoAccrual, NoBilling
<1> QED BY <1>1, BillNext, StructureHolds, PTL DEF Spec

\* Overlapping billing runs neither bill an accrual twice nor stamp one that is
\* on no invoice (weekly-billing.ts:33-88).
THEOREM BilledExactly == Spec => []AccrualsBilledExactly
<1>1. BillInv => AccrualsBilledExactly
  BY DEF BillInv
<1> QED BY <1>1, BillHolds, PTL

-----------------------------------------------------------------------------
(* What nobody corrected, two independent logs agree on.                    *)

\* Only a sheet is queued for the worker, and only a sheet is read by the model.
SheetInv ==
  \A l \in Log :
    \/ edtr[l].status = "queued"
    \/ edtr[l].payload = "model"
    \/ intake[l].step = "reconciled" /\ intake[l].payload = "model"
    => Source[l] = "paper_ocr"

\* A reading of l and the one committed for m have passed the gate.
agrees(l, items, payload, confidence, m) ==
  /\ m \in Log \ {l} /\ Source[l] # Source[m]
  /\ edtr[m].items # None
  /\ GATE!distance(items.active, edtr[m].items.active) <= Tolerance
  /\ payload = "model" => confidence >= CONFIDENCE_GATE
  /\ edtr[m].payload = "model" => edtr[m].confidence >= CONFIDENCE_GATE

\* A matched row, and a match about to be committed, is an agreement for as long
\* as the counterpart has not been approved: its reading cannot change before.
RowsAgree ==
  \A l \in Log :
    recon[l].status = "matched" /\ unapproved(recon[l].counterpart) =>
      agrees(l, edtr[l].items, edtr[l].payload, edtr[l].confidence, recon[l].counterpart)

IntakesAgree ==
  \A l \in Log :
    LET t == intake[l] IN
    t.step = "reconciled" /\ t.verdict = "matched" /\ unapproved(t.counterpart) =>
      agrees(l, t.items, t.payload, t.confidence, t.counterpart)

\* A request without adjustments is for a row that was matched when it was read.
UncorrectedMatched ==
  \A c \in Clerk :
    desk[c].step \in Approving /\ desk[c].adjustments = None =>
      recon[desk[c].log].status \in {"matched", "approved"}

\* A rejection may undo an approval unseen, so all of it is about the runs in
\* which nobody has rejected a row yet.
AgreedInv ==
  /\ SheetInv
  /\ rejections = {} => RowsAgree /\ IntakesAgree /\ UncorrectedMatched

\* What an accepted comparison says: both logs well read, active hours close.
LEMMA GateAccepts ==
  ASSUME NEW a \in Reading, NEW b \in Reading,
         NEW ca \in Nat, NEW cb \in Nat,
         GATE!evaluateGate(ca, cb, GATE!hourDeltas(a, b), Tolerance) = "auto_accept"
  PROVE  /\ ca >= CONFIDENCE_GATE /\ cb >= CONFIDENCE_GATE
         /\ GATE!distance(a.active, b.active) <= Tolerance
<1> DEFINE d == GATE!hourDeltas(a, b)
           S == GATE!comparableDeltas(d)
<1>1. /\ ca >= CONFIDENCE_GATE /\ cb >= CONFIDENCE_GATE
      /\ ~(GATE!worstDelta(d) > Tolerance)
  BY GateAssumption DEF GATE!evaluateGate
<1>2. /\ a.active \in Nat /\ b.active \in Nat
      /\ a.idle \in Nat \cup {NotRecorded} /\ b.idle \in Nat \cup {NotRecorded}
  BY ColumnAssumption, GateAssumption
<1>3. \A x, y \in Nat : GATE!distance(x, y) \in Nat
  BY DEF GATE!distance
<1>4. d.active = GATE!distance(a.active, b.active) /\ d.active \in Nat
  BY <1>2, <1>3 DEF GATE!hourDeltas
<1>5. d.idle \in Nat \cup {NotRecorded} /\ d.total \in Nat \cup {NotRecorded}
  <2>1. CASE a.idle = NotRecorded \/ b.idle = NotRecorded
    BY <2>1 DEF GATE!hourDeltas
  <2>2. CASE a.idle # NotRecorded /\ b.idle # NotRecorded
    <3>1. a.idle \in Nat /\ b.idle \in Nat /\ a.active + a.idle \in Nat /\ b.active + b.idle \in Nat
      BY <1>2, <2>2
    <3>2. d.idle = GATE!distance(a.idle, b.idle)
      BY <2>2 DEF GATE!hourDeltas
    <3>3. d.total = GATE!distance(a.active + a.idle, b.active + b.idle)
      BY <2>2 DEF GATE!hourDeltas
    <3> HIDE DEF d
    <3> QED BY <3>1, <3>2, <3>3, <1>3
  <2> QED BY <2>1, <2>2
<1> HIDE DEF d
<1>6. S \subseteq Nat /\ d.active \in S /\ S \subseteq {d.active, d.idle, d.total}
  BY <1>4, <1>5, GateAssumption DEF GATE!comparableDeltas
<1>7. \E x \in S : \A y \in S : x >= y
  <2>1. CASE \A y \in S : d.active >= y
    BY <1>6, <2>1
  <2>2. CASE d.idle \in S /\ \A y \in S : d.idle >= y
    BY <2>2
  <2>3. CASE d.total \in S /\ \A y \in S : d.total >= y
    BY <2>3
  <2>4. S \subseteq Nat /\ S \subseteq {d.active, d.idle, d.total} /\ d.active \in S
    BY <1>6
  <2> QED BY <2>1, <2>2, <2>3, <2>4
<1>8. GATE!worstDelta(d) = CHOOSE x \in S : \A y \in S : x >= y
  BY DEF GATE!worstDelta, GATE!Max
<1>9. GATE!worstDelta(d) \in S /\ \A y \in S : GATE!worstDelta(d) >= y
  BY <1>7, <1>8
<1> HIDE DEF S
<1>10. ASSUME NEW w \in Nat, NEW x \in Nat, ~(w > Tolerance), w >= x
       PROVE  x <= Tolerance
  BY <1>10, GateAssumption
<1>11. GATE!worstDelta(d) \in Nat /\ GATE!worstDelta(d) >= d.active
  BY <1>6, <1>9
<1>12. d.active <= Tolerance
  BY <1>1, <1>4, <1>10, <1>11
<1> QED BY <1>1, <1>4, <1>12

\* A reconciliation that reads "matched" has found an agreeing log.
LEMMA VerdictAgrees ==
  ASSUME IInv, NEW l \in Log, NEW items \in Reading, NEW p \in Payload,
         NEW conf \in Confidence \cup {100}, NEW m \in candidates(l),
         p = "model" => Source[l] = "paper_ocr",
         edtr[m].payload = "model" => Source[m] = "paper_ocr",
         verdict(l, items, conf, m) = "matched"
  PROVE  agrees(l, items, p, conf, m)
<1>1. m \in Log \ {l} /\ Source[l] # Source[m]
  BY DEF candidates
<1>2. edtr[m] \in EdtrRow
  BY <1>1 DEF IInv, TypeOK
<1>3. edtr[m].items # None
  BY DEF verdict
<1>4. edtr[m].items \in Reading
  BY <1>2, <1>3 DEF EdtrRow
<1> DEFINE ca == GATE!minFieldConfidence(Source[l], conf)
           cb == GATE!minFieldConfidence(Source[m], edtr[m].confidence)
<1>5. edtr[m].confidence \in Confidence \cup {100}
  BY <1>2 DEF EdtrRow
<1>6. conf \in Nat /\ edtr[m].confidence \in Nat
  <2>1. \A x \in Confidence \cup {100} : x \in Nat
    BY GateAssumption
  <2> QED BY <1>5, <2>1
<1>7. ca \in Nat /\ cb \in Nat
  BY <1>6 DEF GATE!minFieldConfidence
<1>8. GATE!evaluateGate(ca, cb, GATE!hourDeltas(items, edtr[m].items), Tolerance) = "auto_accept"
  BY <1>3 DEF verdict
<1>9. /\ p = "model" => ca = conf
      /\ edtr[m].payload = "model" => cb = edtr[m].confidence
  BY DEF GATE!minFieldConfidence
<1> HIDE DEF ca, cb
<1>10. /\ ca >= CONFIDENCE_GATE /\ cb >= CONFIDENCE_GATE
       /\ GATE!distance(items.active, edtr[m].items.active) <= Tolerance
  BY <1>4, <1>7, <1>8, GateAccepts
<1> QED BY <1>1, <1>3, <1>9, <1>10 DEF agrees

\* A step that moves no reading, row or open capture, and leaves every request
\* as it was or without the right to charge.
LEMMA AgreedUntouched ==
  ASSUME IInv, AgreedInv, UNCHANGED <<recon, intake, rejections>>,
         \A k \in Log :
           /\ edtr'[k].items = edtr[k].items
           /\ edtr'[k].payload = edtr[k].payload
           /\ edtr'[k].confidence = edtr[k].confidence
           /\ edtr'[k].status = "queued" => edtr[k].status = "queued" \/ Source[k] = "paper_ocr",
         \A c \in Clerk : desk'[c].step \in Approving /\ desk'[c].adjustments = None =>
           \/ recon[desk'[c].log].status = "matched"
           \/ /\ desk[c].step \in Approving /\ desk[c].adjustments = None
              /\ desk'[c].log = desk[c].log
  PROVE  AgreedInv'
<1>1. SheetInv'
  BY DEF AgreedInv, SheetInv
<1> SUFFICES ASSUME rejections = {} PROVE RowsAgree' /\ IntakesAgree' /\ UncorrectedMatched'
  BY <1>1 DEF AgreedInv
<1>2. RowsAgree /\ IntakesAgree /\ UncorrectedMatched
  BY DEF AgreedInv
<1>3. RowsAgree'
  <2> SUFFICES ASSUME NEW l \in Log, recon[l].status = "matched", unapproved(recon[l].counterpart)
               PROVE  agrees(l, edtr[l].items, edtr[l].payload, edtr[l].confidence, recon[l].counterpart)'
    BY DEF RowsAgree, unapproved
  <2>1. agrees(l, edtr[l].items, edtr[l].payload, edtr[l].confidence, recon[l].counterpart)
    BY <1>2 DEF RowsAgree
  <2>2. recon[l].counterpart \in Log
    BY <2>1 DEF agrees
  <2> QED BY <2>1, <2>2 DEF agrees, GATE!distance
<1>4. IntakesAgree'
  <2> SUFFICES ASSUME NEW l \in Log, intake[l].step = "reconciled",
                      intake[l].verdict = "matched", unapproved(intake[l].counterpart)
               PROVE  agrees(l, intake[l].items, intake[l].payload, intake[l].confidence,
                             intake[l].counterpart)'
    BY DEF IntakesAgree, unapproved
  <2>1. agrees(l, intake[l].items, intake[l].payload, intake[l].confidence, intake[l].counterpart)
    BY <1>2 DEF IntakesAgree
  <2>2. intake[l].counterpart \in Log
    BY <2>1 DEF agrees
  <2> QED BY <2>1, <2>2 DEF agrees, GATE!distance
<1>5. UncorrectedMatched'
  BY <1>2 DEF UncorrectedMatched
<1> QED BY <1>3, <1>4, <1>5

\* Each step of a request short of its commit is of that kind: without
\* adjustments only a matched row is taken up.
LEMMA AgreedRequest ==
  ASSUME IInv, AgreedInv, NEW c \in Clerk,
         \/ approveRead(c) \/ approveLockOwn(c) \/ approveLockCounterpart(c)
         \/ approveLockRental(c) \/ approveRefused(c)
         \/ approveRolledBack(c) \/ rejectRead(c)
  PROVE  AgreedInv'
<1>1. UNCHANGED <<edtr, recon, intake, rejections>>
  BY DEF approveRead, approveLockOwn, approveLockCounterpart, approveLockRental,
         approveRefused, approveRolledBack, rejectRead, logVars
<1>2. desk \in [Clerk -> Request] /\ desk[c] \in Request
  BY DEF IInv, TypeOK
<1>3. \A d \in Clerk \ {c} : desk'[d] = desk[d]
  BY <1>2 DEF approveRead, approveLockOwn, approveLockCounterpart, approveLockRental,
         approveRefused, approveRolledBack, rejectRead
<1>4. desk'[c].step \in Approving /\ desk'[c].adjustments = None =>
        \/ recon[desk'[c].log].status = "matched"
        \/ /\ desk[c].step \in Approving /\ desk[c].adjustments = None
           /\ desk'[c].log = desk[c].log
  <2>1. CASE approveRead(c)
    <3>1. PICK l \in Log, adj \in TypedReading \cup {None} :
            /\ recon[l].status \in {"matched", "discrepancy"}
            /\ recon[l].status = "discrepancy" => adj # None
            /\ desk' = [desk EXCEPT ![c] =
                 [step |-> "read", log |-> l, counterpart |-> recon[l].counterpart,
                  adjustments |-> adj, balance |-> 0]]
      BY <2>1 DEF approveRead
    <3> QED BY <3>1, <1>2
  <2>2. CASE approveLockOwn(c)
    BY <2>2, <1>2 DEF approveLockOwn, Request, Approving
  <2>3. CASE approveLockCounterpart(c)
    BY <2>3, <1>2 DEF approveLockCounterpart, Request, Approving
  <2>4. CASE approveLockRental(c)
    BY <2>4, <1>2 DEF approveLockRental, Request, Approving
  <2>5. CASE approveRefused(c) \/ approveRolledBack(c)
    BY <2>5, <1>2 DEF approveRefused, approveRolledBack, NoRequest, Approving
  <2>6. CASE rejectRead(c)
    BY <2>6, <1>2 DEF rejectRead, NoRequest, Approving
  <2> QED BY <2>1, <2>2, <2>3, <2>4, <2>5, <2>6
<1> QED BY <1>1, <1>3, <1>4, AgreedUntouched

\* Queueing a sheet or giving it up moves a status only.
LEMMA AgreedSheet ==
  ASSUME IInv, AgreedInv, NEW l \in Log, captureSheet(l) \/ extractionFails(l)
  PROVE  AgreedInv'
<1>1. UNCHANGED <<recon, intake, desk, rejections>>
  BY DEF captureSheet, extractionFails
<1>2. PICK s \in EdtrStatus :
        edtr' = [edtr EXCEPT ![l].status = s] /\ (s = "queued" => Source[l] = "paper_ocr")
  BY DEF captureSheet, extractionFails, EdtrStatus
<1>3. \A k \in Log :
        /\ edtr'[k].items = edtr[k].items
        /\ edtr'[k].payload = edtr[k].payload
        /\ edtr'[k].confidence = edtr[k].confidence
        /\ edtr'[k].status = "queued" => edtr[k].status = "queued" \/ Source[k] = "paper_ocr"
  BY <1>2 DEF IInv, TypeOK, EdtrRow
<1> QED BY <1>1, <1>3, AgreedUntouched

\* Opening a capture compares the new reading with the counterpart's, and
\* leaves every other capture alone.
LEMMA AgreedOpens ==
  ASSUME IInv, AgreedInv, NEW l \in Log, NEW items \in Reading, NEW p \in Payload,
         NEW conf \in Confidence \cup {100}, NEW held \in BOOLEAN,
         reconcileRead(l, items, p, conf, held),
         p = "model" => Source[l] = "paper_ocr",
         UNCHANGED <<edtr, recon, desk, rejections>>
  PROVE  AgreedInv'
<1>1. PICK m \in IF candidates(l) = {} THEN {None} ELSE candidates(l) :
        intake' = [intake EXCEPT ![l] =
          [step |-> "reconciled", items |-> items, payload |-> p,
           confidence |-> conf, held |-> held, counterpart |-> m,
           verdict |-> IF m = None THEN "pending" ELSE verdict(l, items, conf, m)]]
  BY DEF reconcileRead
<1>2. m # None => m \in candidates(l)
  BY <1>1
<1> DEFINE v == IF m = None THEN "pending" ELSE verdict(l, items, conf, m)
<1>3. /\ intake'[l].step = "reconciled" /\ intake'[l].items = items
      /\ intake'[l].payload = p /\ intake'[l].confidence = conf
      /\ intake'[l].counterpart = m /\ intake'[l].verdict = v
      /\ \A k \in Log \ {l} : intake'[k] = intake[k]
  BY <1>1 DEF IInv, TypeOK
<1>4. v = "matched" => agrees(l, items, p, conf, m)
  <2> SUFFICES ASSUME v = "matched" PROVE agrees(l, items, p, conf, m)
    OBVIOUS
  <2>1. m \in candidates(l) /\ verdict(l, items, conf, m) = "matched"
    BY <1>2
  <2>2. m \in Log
    BY <2>1 DEF candidates
  <2>3. edtr[m].payload = "model" => Source[m] = "paper_ocr"
    BY <2>2 DEF AgreedInv, SheetInv
  <2> QED BY <2>1, <2>3, VerdictAgrees
<1> HIDE DEF v
<1>5. SheetInv'
  BY <1>3 DEF AgreedInv, SheetInv
<1>6. RowsAgree => RowsAgree'
  BY DEF RowsAgree, agrees, unapproved
<1>7. UncorrectedMatched => UncorrectedMatched'
  BY DEF UncorrectedMatched
<1>8. IntakesAgree => IntakesAgree'
  <2> SUFFICES ASSUME IntakesAgree, NEW k \in Log,
                      intake'[k].step = "reconciled", intake'[k].verdict = "matched",
                      unapproved(intake'[k].counterpart)
               PROVE  agrees(k, intake'[k].items, intake'[k].payload, intake'[k].confidence,
                             intake'[k].counterpart)
    BY DEF IntakesAgree, unapproved, agrees
  <2>1. CASE k = l
    BY <2>1, <1>3, <1>4
  <2>2. CASE k # l
    BY <2>2, <1>3 DEF IntakesAgree
  <2> QED BY <2>1, <2>2
<1> QED BY <1>5, <1>6, <1>7, <1>8 DEF AgreedInv

LEMMA AgreedCapture ==
  ASSUME IInv, AgreedInv, NEW l \in Log, captureWithItems(l) \/ extractSheet(l)
  PROVE  AgreedInv'
<1>1. UNCHANGED <<edtr, recon, desk, rejections>>
  BY DEF captureWithItems, extractSheet
<1>2. CASE captureWithItems(l)
  <2> DEFINE p == IF Source[l] = "paper_ocr" THEN "manual" ELSE "none"
  <2>1. PICK items \in Reading : reconcileRead(l, items, p, 100, FALSE)
    BY <1>2 DEF captureWithItems, TypedReading
  <2>2. p \in Payload /\ p # "model"
    BY DEF Payload
  <2> HIDE DEF p
  <2> QED BY <1>1, <2>1, <2>2, AgreedOpens
<1>3. CASE extractSheet(l)
  <2>1. PICK items \in Reading, conf \in Confidence, held \in BOOLEAN :
          reconcileRead(l, items, "model", conf, held)
    BY <1>3 DEF extractSheet, SheetReading
  <2>2. Source[l] = "paper_ocr"
    BY <1>3 DEF extractSheet, AgreedInv, SheetInv
  <2>3. "model" \in Payload
    BY DEF Payload
  <2> QED BY <1>1, <2>1, <2>2, <2>3, AgreedOpens
<1> QED BY <1>2, <1>3

\* Committing a capture turns its verdict into a row.  Nobody rested on the new
\* log's reading before, and its counterpart keeps the reading it was compared on.
LEMMA AgreedReconcile ==
  ASSUME IInv, AgreedInv, NEW l \in Log, reconcileCommit(l)
  PROVE  AgreedInv'
<1> DEFINE t == intake[l]
<1>1. /\ edtr[l].status \notin pairableStatuses
      /\ recon[l].status = "absent"
      /\ \A k \in Log : recon[k].counterpart # l
      /\ \A c \in Clerk : desk[c].step \in Approving => desk[c].log # l
      /\ \A k \in Log \ {l} : recon'[k] = recon[k]
  BY FreshLog
<1>2. UNCHANGED <<desk, rejections>> /\ t.step = "reconciled"
  BY DEF reconcileCommit
<1>3. recon'[l] = [status |-> t.verdict, counterpart |-> t.counterpart]
  BY DEF reconcileCommit, IInv, TypeOK
<1>4. /\ intake'[l].step = "idle" /\ \A k \in Log \ {l} : intake'[k] = intake[k]
  BY DEF reconcileCommit, IInv, TypeOK, NoIntake
<1>5. /\ edtr'[l].items = t.items /\ edtr'[l].payload = t.payload
      /\ edtr'[l].confidence = t.confidence /\ edtr'[l].status # "queued"
      /\ \A k \in Log \ {l} :
           /\ edtr'[k].items = edtr[k].items /\ edtr'[k].payload = edtr[k].payload
           /\ edtr'[k].confidence = edtr[k].confidence
           /\ edtr'[k].status = "queued" => edtr[k].status = "queued"
  <2>1. edtr' = [k \in Log |->
          CASE k = l ->
                 [status |-> IF t.held THEN "review" ELSE edtrStatusFor(t.verdict),
                  items |-> t.items, payload |-> t.payload,
                  confidence |-> t.confidence, held |-> t.held]
            [] k = t.counterpart -> [edtr[k] EXCEPT !.status = edtrStatusFor(t.verdict)]
            [] OTHER -> edtr[k]]
    BY DEF reconcileCommit
  <2>2. t.counterpart # l
    BY <1>2, NoneAssumption DEF IInv, TypeOK, IntakeInv
  <2>3. edtrStatusFor(t.verdict) # "queued"
    BY DEF edtrStatusFor
  <2> HIDE DEF t
  <2>4. edtr'[l] = [status |-> IF t.held THEN "review" ELSE edtrStatusFor(t.verdict),
                    items |-> t.items, payload |-> t.payload,
                    confidence |-> t.confidence, held |-> t.held]
    BY <2>1, <2>2
  <2>5. ASSUME NEW k \in Log \ {l}
        PROVE  edtr'[k] = edtr[k] \/ edtr'[k] = [edtr[k] EXCEPT !.status = edtrStatusFor(t.verdict)]
    BY <2>1
  <2>6. \A k \in Log : edtr[k] \in EdtrRow
    BY DEF IInv, TypeOK
  <2> DEFINE s == edtrStatusFor(t.verdict)
  <2>7. /\ edtr'[l].items = t.items /\ edtr'[l].payload = t.payload
        /\ edtr'[l].confidence = t.confidence /\ edtr'[l].status # "queued"
    BY <2>3, <2>4
  <2> HIDE DEF s
  <2>8. ASSUME NEW k \in Log \ {l}
        PROVE  /\ edtr'[k].items = edtr[k].items /\ edtr'[k].payload = edtr[k].payload
               /\ edtr'[k].confidence = edtr[k].confidence
               /\ edtr'[k].status = "queued" => edtr[k].status = "queued"
    <3>1. edtr'[k] = edtr[k] \/ edtr'[k] = [edtr[k] EXCEPT !.status = s]
      BY <2>5 DEF s
    <3>2. s # "queued" /\ edtr[k] \in EdtrRow
      BY <2>3, <2>6 DEF s
    <3> QED BY <3>1, <3>2 DEF EdtrRow
  <2> QED BY <2>7, <2>8
<1>6. \A k \in Log : intake[k].step = "reconciled" /\ intake[k].counterpart \in Log =>
        intake[k].counterpart # l
  BY <1>1 DEF IInv, IntakeInv
<1> HIDE DEF t
<1>7. SheetInv'
  <2>1. t.payload = "model" => Source[l] = "paper_ocr"
    BY <1>2 DEF AgreedInv, SheetInv, t
  <2> QED BY <2>1, <1>4, <1>5 DEF AgreedInv, SheetInv
<1> SUFFICES ASSUME rejections = {} PROVE RowsAgree' /\ IntakesAgree' /\ UncorrectedMatched'
  BY <1>2, <1>7 DEF AgreedInv
<1>8. RowsAgree /\ IntakesAgree /\ UncorrectedMatched
  BY DEF AgreedInv
<1>9. ASSUME NEW k, NEW m \in Log \ {l}
      PROVE  /\ edtr'[m].items = edtr[m].items /\ edtr'[m].payload = edtr[m].payload
             /\ edtr'[m].confidence = edtr[m].confidence
             /\ unapproved(m)' => unapproved(m)
  BY <1>1, <1>5 DEF unapproved
<1>10. RowsAgree'
  <2> SUFFICES ASSUME NEW k \in Log, recon'[k].status = "matched",
                      unapproved(recon[k].counterpart)'
               PROVE  agrees(k, edtr[k].items, edtr[k].payload, edtr[k].confidence,
                             recon[k].counterpart)'
    BY DEF RowsAgree
  <2>1. CASE k = l
    <3> DEFINE m == t.counterpart
    <3>1. recon'[l].counterpart = m /\ t.verdict = "matched"
      BY <1>3, <2>1
    <3>2. m \in Log \ {l}
      BY <1>2, <1>6, <3>1 DEF IInv, IntakeInv, t
    <3>3. unapproved(m)
      BY <2>1, <3>1, <3>2, <1>1 DEF unapproved
    <3>4. agrees(l, t.items, t.payload, t.confidence, m)
      BY <1>2, <1>8, <3>1, <3>3 DEF IntakesAgree, t
    <3>5. /\ edtr'[m].items = edtr[m].items /\ edtr'[m].payload = edtr[m].payload
          /\ edtr'[m].confidence = edtr[m].confidence
      BY <1>5, <3>2
    <3> HIDE DEF m
    <3> QED BY <2>1, <1>5, <3>1, <3>4, <3>5 DEF agrees
  <2>2. CASE k # l
    <3> DEFINE m == recon[k].counterpart
    <3>1. recon'[k] = recon[k]
      BY <1>1, <2>2
    <3>2. m \in Log \ {l}
      BY <1>1, <3>1 DEF IInv, RowInv
    <3>3. unapproved(m)
      BY <1>1, <3>1, <3>2 DEF unapproved
    <3>4. agrees(k, edtr[k].items, edtr[k].payload, edtr[k].confidence, m)
      BY <1>8, <3>1, <3>3 DEF RowsAgree
    <3>5. /\ edtr'[m].items = edtr[m].items /\ edtr'[m].payload = edtr[m].payload
          /\ edtr'[m].confidence = edtr[m].confidence
          /\ edtr'[k].items = edtr[k].items /\ edtr'[k].payload = edtr[k].payload
          /\ edtr'[k].confidence = edtr[k].confidence
      BY <1>5, <2>2, <3>2
    <3>6. recon'[k].counterpart = m
      BY <3>1
    <3> HIDE DEF m
    <3> QED BY <3>4, <3>5, <3>6 DEF agrees
  <2> QED BY <2>1, <2>2
<1>11. IntakesAgree'
  <2> SUFFICES ASSUME NEW k \in Log, intake'[k].step = "reconciled",
                      intake'[k].verdict = "matched", unapproved(intake[k].counterpart)'
               PROVE  agrees(k, intake[k].items, intake[k].payload, intake[k].confidence,
                             intake[k].counterpart)'
    BY DEF IntakesAgree
  <2> DEFINE m == intake[k].counterpart
  <2>1. k # l /\ intake'[k] = intake[k]
    BY <1>4
  <2>2. m \in Log \ {l}
    BY <1>6, <2>1 DEF IInv, IntakeInv
  <2>3. unapproved(m)
    BY <1>1, <2>1, <2>2 DEF unapproved
  <2>4. agrees(k, intake[k].items, intake[k].payload, intake[k].confidence, m)
    BY <1>8, <2>1, <2>3 DEF IntakesAgree
  <2>5. /\ edtr'[m].items = edtr[m].items /\ edtr'[m].payload = edtr[m].payload
        /\ edtr'[m].confidence = edtr[m].confidence
    BY <1>5, <2>2
  <2>6. intake'[k].counterpart = m
    BY <2>1
  <2> HIDE DEF m
  <2> QED BY <2>1, <2>4, <2>5, <2>6 DEF agrees
<1>12. UncorrectedMatched'
  <2>1. \A c \in Clerk : desk[c].step \in Approving => desk[c].log \in Log \ {l}
    BY <1>1 DEF IInv, DeskInv
  <2> QED BY <1>1, <1>2, <1>8, <2>1 DEF UncorrectedMatched
<1> QED BY <1>10, <1>11, <1>12

\* A commit changes a reading only of the row it approves with it.
LEMMA AgreedCommit ==
  ASSUME IInv, AgreedInv, NEW c \in Clerk, approveCommit(c)
  PROVE  AgreedInv'
<1> DEFINE l == desk[c].log
           adj == desk[c].adjustments
<1>1. /\ l \in Log
      /\ \A x \in Log :
           /\ recon'[x].counterpart = recon[x].counterpart
           /\ recon'[x].status \in {recon[x].status, "approved"}
           /\ edtr'[x].status = edtr[x].status
      /\ recon'[l].status = "approved"
  BY ApproveCommitEffect
<1>2. UNCHANGED <<intake, rejections>> /\ desk' = [desk EXCEPT ![c] = NoRequest]
  BY DEF approveCommit
<1>3. \A x \in Log : /\ edtr'[x].payload = edtr[x].payload
                     /\ edtr'[x].confidence = edtr[x].confidence
                     /\ x # l => edtr'[x].items = edtr[x].items
  <2>1. edtr' = IF adj # None THEN [edtr EXCEPT ![l].items = adj] ELSE edtr
    BY DEF approveCommit
  <2> HIDE DEF l, adj
  <2> QED BY <2>1, <1>1 DEF IInv, TypeOK, EdtrRow
<1>4. desk'[c].step \notin Approving /\ \A d \in Clerk \ {c} : desk'[d] = desk[d]
  BY <1>2 DEF IInv, TypeOK, NoRequest, Approving
<1> HIDE DEF l, adj
<1>5. SheetInv'
  BY <1>1, <1>2, <1>3 DEF AgreedInv, SheetInv
<1> SUFFICES ASSUME rejections = {} PROVE RowsAgree' /\ IntakesAgree' /\ UncorrectedMatched'
  BY <1>2, <1>5 DEF AgreedInv
<1>6. RowsAgree /\ IntakesAgree /\ UncorrectedMatched
  BY DEF AgreedInv
<1>7. \A m \in Log : unapproved(m)' => m # l /\ unapproved(m)
  BY <1>1 DEF unapproved
<1>8. RowsAgree'
  <2> SUFFICES ASSUME NEW k \in Log, recon'[k].status = "matched",
                      unapproved(recon[k].counterpart)'
               PROVE  agrees(k, edtr[k].items, edtr[k].payload, edtr[k].confidence,
                             recon[k].counterpart)'
    BY DEF RowsAgree
  <2> DEFINE m == recon[k].counterpart
  <2>1. k # l /\ recon[k].status = "matched" /\ recon'[k].counterpart = m
    BY <1>1
  <2>2. m \in Log
    BY <2>1 DEF IInv, RowInv
  <2>3. m # l /\ unapproved(m)
    BY <2>1, <2>2, <1>7 DEF unapproved
  <2>4. agrees(k, edtr[k].items, edtr[k].payload, edtr[k].confidence, m)
    BY <1>6, <2>1, <2>3 DEF RowsAgree
  <2> HIDE DEF m
  <2> QED BY <1>3, <2>1, <2>2, <2>3, <2>4 DEF agrees
<1>9. IntakesAgree'
  <2> SUFFICES ASSUME NEW k \in Log, intake[k].step = "reconciled",
                      intake[k].verdict = "matched", unapproved(intake[k].counterpart)'
               PROVE  agrees(k, intake[k].items, intake[k].payload, intake[k].confidence,
                             intake[k].counterpart)'
    BY <1>2 DEF IntakesAgree
  <2> DEFINE m == intake[k].counterpart
  <2>1. m \in Log
    BY DEF IInv, IntakeInv
  <2>2. m # l /\ unapproved(m)
    BY <1>2, <1>7, <2>1 DEF unapproved
  <2>3. agrees(k, intake[k].items, intake[k].payload, intake[k].confidence, m)
    BY <1>6, <2>2 DEF IntakesAgree
  <2> HIDE DEF m
  <2> QED BY <1>2, <1>3, <2>1, <2>2, <2>3 DEF agrees, m
<1>10. UncorrectedMatched'
  <2>1. \A d \in Clerk : desk[d].step \in Approving => desk[d].log \in Log
    BY DEF IInv, DeskInv
  <2> QED BY <1>1, <1>4, <1>6, <2>1 DEF UncorrectedMatched
<1> QED BY <1>8, <1>9, <1>10

LEMMA AgreedNext == IInv /\ AgreedInv /\ [Next]_vars => AgreedInv'
<1> SUFFICES ASSUME IInv, AgreedInv, [Next]_vars PROVE AgreedInv'
  OBVIOUS
<1>1. ASSUME UNCHANGED <<edtr, recon, intake, desk, rejections>> PROVE AgreedInv'
  BY <1>1, AgreedUntouched
<1>2. ASSUME NEW c \in Clerk, rejectCommit(c) PROVE AgreedInv'
  <2>1. rejections' # {} /\ UNCHANGED <<edtr, intake>>
    BY <1>2 DEF rejectCommit
  <2> QED BY <2>1 DEF AgreedInv, SheetInv
<1>3. ASSUME NEW r \in Rental, settleDeposit(r) PROVE AgreedInv'
  BY <1>1, <1>3 DEF settleDeposit, logVars
<1>4. ASSUME NEW b \in BillingRun, billLock(b) \/ billCommit(b) PROVE AgreedInv'
  BY <1>1, <1>4 DEF billLock, billCommit, logVars
<1>5. CASE finished \/ UNCHANGED vars
  BY <1>1, <1>5 DEF finished, vars
<1> QED BY <1>2, <1>3, <1>4, <1>5, AgreedCapture, AgreedSheet, AgreedReconcile,
           AgreedRequest, AgreedCommit DEF Next

\* A charge no reviewer corrected is for hours that an independent log of the
\* other source agrees with at the moment of the commit, both read with enough
\* confidence: the gate's verdict outlives every step between it and the charge
\* (edtr.service.ts:470-507, packages/shared/src/edtr.ts).
THEOREM UncorrectedAgreed == Spec => UncorrectedChargeAgreed
<1>1. Init => AgreedInv
  BY DEF Init, AgreedInv, SheetInv, RowsAgree, IntakesAgree, UncorrectedMatched,
         NoRecon, NoIntake, NoRequest, Approving
<1>2. Spec => []AgreedInv
  BY <1>1, AgreedNext, StructureHolds, PTL DEF Spec
<1>3. ASSUME IInv, OnceInv, AgreedInv, NEW c \in Clerk,
             approveCommit(c), desk[c].adjustments = None, rejections = {}
      PROVE  LET l == desk[c].log
                 m == desk[c].counterpart
             IN  /\ m # None /\ Source[l] # Source[m]
                 /\ edtr[m].items # None
                 /\ GATE!distance(edtr[l].items.active, edtr[m].items.active) <= Tolerance
                 /\ \A x \in {l, m} : edtr[x].payload = "model" => edtr[x].confidence >= CONFIDENCE_GATE
  <2> DEFINE l == desk[c].log
             m == desk[c].counterpart
  <2>1. desk[c].step = "priced"
    BY <1>3 DEF approveCommit
  <2>2. l \in Log /\ m \in Log /\ recon[l].counterpart = m
    BY <1>3, <2>1 DEF IInv, DeskInv, Approving
  <2>3. unapproved(l) /\ unapproved(m)
    BY <1>3, <2>1 DEF OnceInv, UnapprovedInv, OwnLocked, PairLocked
  <2>4. recon[l].status = "matched"
    BY <1>3, <2>1, <2>3 DEF AgreedInv, UncorrectedMatched, Approving, unapproved
  <2>5. agrees(l, edtr[l].items, edtr[l].payload, edtr[l].confidence, m)
    BY <1>3, <2>2, <2>3, <2>4 DEF AgreedInv, RowsAgree
  <2> HIDE DEF l, m
  <2> QED BY <2>2, <2>5, NoneAssumption DEF agrees, l, m
<1>4. IInv /\ OnceInv /\ AgreedInv =>
        [\A c \in Clerk :
           approveCommit(c) /\ desk[c].adjustments = None /\ rejections = {} =>
             LET l == desk[c].log
                 m == desk[c].counterpart
             IN  /\ m # None /\ Source[l] # Source[m]
                 /\ edtr[m].items # None
                 /\ GATE!distance(edtr[l].items.active, edtr[m].items.active) <= Tolerance
                 /\ \A x \in {l, m} : edtr[x].payload = "model" => edtr[x].confidence >= CONFIDENCE_GATE
        ]_vars
  BY <1>3
<1> QED BY <1>2, <1>4, OnceHolds, StructureHolds, PTL DEF UncorrectedChargeAgreed

-----------------------------------------------------------------------------
(* Sums over a finite set.  The fold takes its elements in an order of its   *)
(* own; everything below compares folds over one set, where it is the same.  *)

\* What a set of naturals holds least.
LEMMA LeastNat ==
  ASSUME NEW S, S \subseteq Nat, S # {}
  PROVE  \E x \in S : \A y \in S : x <= y
<1>1. \E R : IsWellFoundedOn(R, Nat) /\ \A x, y \in Nat : y < x => <<y, x>> \in R
  <2> DEFINE R == OpToRel(<, Nat)
  <2>1. IsWellFoundedOn(R, Nat)
    BY NatLessThanWellFounded
  <2>2. \A x, y \in Nat : y < x => <<y, x>> \in R
    BY DEF OpToRel
  <2> HIDE DEF R
  <2> QED BY <2>1, <2>2
<1>2. PICK R : IsWellFoundedOn(R, Nat) /\ \A x, y \in Nat : y < x => <<y, x>> \in R
  BY <1>1
<1>3. \E x \in S : \A y \in S : ~(<<y, x>> \in R)
  BY <1>2, WFMin
<1>4. \E x \in S : \A y \in S : ~(y < x)
  BY <1>2, <1>3
<1> QED BY <1>4

\* Induction over the subsets of a finite set, on a set of good ones: the empty
\* one is good, and a set is if it is without its first element.
first(T) == CHOOSE x \in T : TRUE

LEMMA FirstOf ==
  ASSUME NEW T, T # {}
  PROVE  first(T) \in T
BY DEF first

LEMMA SubsetInduction ==
  ASSUME NEW S, IsFiniteSet(S), NEW Good,
         {} \in Good,
         \A T \in SUBSET S : T # {} /\ T \ {first(T)} \in Good => T \in Good
  PROVE  \A T \in SUBSET S : T \in Good
<1> DEFINE Bad == {T \in SUBSET S : T \notin Good}
           sizes == {Cardinality(T) : T \in Bad}
<1> SUFFICES ASSUME Bad # {} PROVE FALSE
  OBVIOUS
<1>1. \A T \in SUBSET S : IsFiniteSet(T) /\ Cardinality(T) \in Nat
  BY FS_Subset, FS_CardinalityType
<1>2. sizes \subseteq Nat /\ sizes # {}
  BY <1>1
<1>3. PICK n \in sizes : \A m \in sizes : n <= m
  BY <1>2, LeastNat
<1>4. PICK T \in Bad : n = Cardinality(T)
  OBVIOUS
<1>5. T # {} /\ first(T) \in T
  BY FirstOf
<1>6. Cardinality(T \ {first(T)}) = Cardinality(T) - 1
  BY <1>1, <1>5, FS_RemoveElement
<1>7. T \ {first(T)} \in Good
  <2>1. Cardinality(T \ {first(T)}) \notin sizes
    BY <1>1, <1>2, <1>3, <1>4, <1>6
  <2> QED BY <2>1
<1> QED BY <1>4, <1>5, <1>7

\* g adds up F, an element at a time, over the subsets of S in D.
adds(g, F, S, D) ==
  /\ g \in [SUBSET S -> Nat]
  /\ \A T \in SUBSET S : T \in D =>
       g[T] = IF T = {} THEN 0 ELSE F[first(T)] + g[T \ {first(T)}]

\* The recursive function behind the fold exists.
LEMMA SumExists ==
  ASSUME NEW S, IsFiniteSet(S), NEW F, \A x \in S : F[x] \in Nat
  PROVE  \E g : adds(g, F, S, SUBSET S)
<1> DEFINE upTo(n) == {T \in SUBSET S : Cardinality(T) <= n}
           Stuck == {n \in Nat : ~\E g : adds(g, F, S, upTo(n))}
<1>1. \A T \in SUBSET S : IsFiniteSet(T) /\ Cardinality(T) \in Nat /\ Cardinality(T) <= Cardinality(S)
  BY FS_Subset, FS_CardinalityType
<1>2. \A T \in SUBSET S : T # {} =>
        /\ first(T) \in T /\ T \ {first(T)} \in SUBSET S
        /\ Cardinality(T \ {first(T)}) = Cardinality(T) - 1
  <2> SUFFICES ASSUME NEW T \in SUBSET S, T # {}
               PROVE  /\ first(T) \in T /\ T \ {first(T)} \in SUBSET S
                      /\ Cardinality(T \ {first(T)}) = Cardinality(T) - 1
    OBVIOUS
  <2>1. first(T) \in T
    BY FirstOf
  <2> QED BY <1>1, <2>1, FS_RemoveElement
<1>3. \A T \in SUBSET S : Cardinality(T) = 0 => T = {}
  BY <1>1, FS_EmptySet
<1>4. 0 \notin Stuck
  <2> DEFINE g == [T \in SUBSET S |-> 0]
  <2>1. adds(g, F, S, upTo(0))
    BY <1>1, <1>3 DEF adds
  <2> QED BY <2>1
<1>5. ASSUME NEW n \in Nat, n \notin Stuck
      PROVE  n + 1 \notin Stuck
  <2>1. PICK g : adds(g, F, S, upTo(n))
    BY <1>5
  <2> DEFINE h == [T \in SUBSET S |->
                     IF T \in upTo(n) THEN g[T]
                     ELSE F[first(T)] + g[T \ {first(T)}]]
  <2>2. h \in [SUBSET S -> Nat]
    <3> SUFFICES ASSUME NEW T \in SUBSET S, T \notin upTo(n)
                 PROVE  F[first(T)] + g[T \ {first(T)}] \in Nat
      BY <2>1 DEF adds
    <3>1. T # {}
      BY <1>1, FS_EmptySet
    <3> QED BY <1>2, <2>1, <3>1 DEF adds
  <2>3. ASSUME NEW T \in SUBSET S, T \in upTo(n + 1)
        PROVE  h[T] = IF T = {} THEN 0 ELSE F[first(T)] + h[T \ {first(T)}]
    <3>1. CASE T = {}
      <4>1. T \in upTo(n)
        BY <3>1, FS_EmptySet
      <4> QED BY <2>1, <3>1, <4>1 DEF adds
    <3>2. CASE T # {}
      <4>1. T \ {first(T)} \in upTo(n)
        BY <1>1, <1>2, <2>3, <3>2
      <4>2. h[T \ {first(T)}] = g[T \ {first(T)}]
        BY <4>1
      <4>3. h[T] = F[first(T)] + g[T \ {first(T)}]
        BY <2>1, <3>2 DEF adds
      <4> QED BY <3>2, <4>2, <4>3
    <3> QED BY <3>1, <3>2
  <2> HIDE DEF h
  <2>4. adds(h, F, S, upTo(n + 1))
    BY <2>2, <2>3 DEF adds
  <2> QED BY <2>4
<1>6. Stuck = {}
  <2> SUFFICES ASSUME Stuck # {} PROVE FALSE
    OBVIOUS
  <2>1. PICK n \in Stuck : \A m \in Stuck : n <= m
    BY LeastNat
  <2>2. n - 1 \in Nat /\ n - 1 \notin Stuck
    <3>1. n \in Nat /\ n # 0
      BY <1>4
    <3>2. n - 1 \in Nat /\ ~(n <= n - 1)
      BY <3>1
    <3>3. n - 1 \notin Stuck
      BY <2>1, <3>2
    <3> QED BY <3>2, <3>3
  <2>3. n - 1 + 1 \notin Stuck
    BY <1>5, <2>2
  <2> QED BY <2>3
<1>7. PICK g : adds(g, F, S, upTo(Cardinality(S)))
  BY <1>1, <1>6
<1>8. adds(g, F, S, SUBSET S)
  BY <1>1, <1>7 DEF adds
<1> QED BY <1>8

\* The sum is the value at S of a function that adds up F.
LEMMA SumUnfolds ==
  ASSUME NEW S, IsFiniteSet(S), NEW F, \A x \in S : F[x] \in Nat
  PROVE  \E g : adds(g, F, S, SUBSET S) /\ sumOver(F, S) = g[S]
<1> DEFINE next(g) == [T \in SUBSET S |-> IF T = {} THEN 0 ELSE F[first(T)] + g[T \ {first(T)}]]
           g == CHOOSE f : f = next(f)
<1>1. sumOver(F, S) = g[S]
  BY DEF sumOver, MapThenSumSet, MapThenFoldSet, first
<1>2. PICK f : adds(f, F, S, SUBSET S)
  BY SumExists
<1>3. f = next(f)
  BY <1>2 DEF adds
<1>4. g = next(g)
  BY <1>3
<1> HIDE DEF g
<1>5. \A T \in SUBSET S : g[T] = IF T = {} THEN 0 ELSE F[first(T)] + g[T \ {first(T)}]
  BY <1>4
<1>6. \A T \in SUBSET S : g[T] \in Nat
  <2> DEFINE Good == {T \in SUBSET S : g[T] \in Nat}
  <2>1. {} \in Good
    BY <1>5
  <2>2. \A T \in SUBSET S : T # {} /\ T \ {first(T)} \in Good => T \in Good
    BY <1>5, FirstOf
  <2> HIDE DEF Good
  <2>3. \A T \in SUBSET S : T \in Good
    BY <2>1, <2>2, SubsetInduction
  <2> QED BY <2>3 DEF Good
<1>7. g \in [SUBSET S -> Nat]
  <2>1. next(g) \in [SUBSET S -> Nat]
    <3>1. \A T \in SUBSET S : (IF T = {} THEN 0 ELSE F[first(T)] + g[T \ {first(T)}]) \in Nat
      BY <1>5, <1>6
    <3> QED BY <3>1
  <2> QED BY <1>4, <2>1
<1>8. adds(g, F, S, SUBSET S)
  BY <1>5, <1>7 DEF adds
<1> QED BY <1>1, <1>8

\* A sum of naturals is one.
LEMMA SumNat ==
  ASSUME NEW S, IsFiniteSet(S), NEW F, \A x \in S : F[x] \in Nat
  PROVE  sumOver(F, S) \in Nat
<1>1. PICK f : adds(f, F, S, SUBSET S) /\ sumOver(F, S) = f[S]
  BY SumUnfolds
<1> QED BY <1>1 DEF adds

\* A sum is added up term by term.
LEMMA SumAdds ==
  ASSUME NEW S, IsFiniteSet(S), NEW F, NEW G, NEW H,
         \A x \in S : F[x] \in Nat /\ G[x] \in Nat /\ H[x] \in Nat /\ F[x] = G[x] + H[x]
  PROVE  sumOver(F, S) = sumOver(G, S) + sumOver(H, S)
<1>1. PICK f : adds(f, F, S, SUBSET S) /\ sumOver(F, S) = f[S]
  BY SumUnfolds
<1>2. PICK g : adds(g, G, S, SUBSET S) /\ sumOver(G, S) = g[S]
  BY SumUnfolds
<1>3. PICK h : adds(h, H, S, SUBSET S) /\ sumOver(H, S) = h[S]
  BY SumUnfolds
<1> DEFINE Good == {T \in SUBSET S : f[T] = g[T] + h[T]}
<1>4. {} \in Good
  <2>1. {} \in SUBSET S
    OBVIOUS
  <2>2. f[{}] = 0 /\ g[{}] = 0 /\ h[{}] = 0
    BY <1>1, <1>2, <1>3, <2>1 DEF adds
  <2> QED BY <2>1, <2>2
<1>5. ASSUME NEW T \in SUBSET S, T # {}, T \ {first(T)} \in Good
      PROVE  T \in Good
  <2> DEFINE x == first(T)
             U == T \ {x}
  <2>1. x \in S /\ U \in SUBSET S
    BY <1>5, FirstOf
  <2> HIDE DEF x
  <2>2. f[T] = F[x] + f[U] /\ g[T] = G[x] + g[U] /\ h[T] = H[x] + h[U]
    BY <1>1, <1>2, <1>3, <1>5 DEF adds, x
  <2>3. f[U] \in Nat /\ g[U] \in Nat /\ h[U] \in Nat /\ f[U] = g[U] + h[U]
    BY <1>1, <1>2, <1>3, <1>5, <2>1 DEF adds, x
  <2>4. F[x] \in Nat /\ G[x] \in Nat /\ H[x] \in Nat /\ F[x] = G[x] + H[x]
    BY <2>1
  <2> QED BY <2>2, <2>3, <2>4
<1> HIDE DEF Good
<1>6. \A T \in SUBSET S : T \in Good
  BY <1>4, <1>5, SubsetInduction
<1> QED BY <1>1, <1>2, <1>3, <1>6 DEF Good

\* A sum with a positive term is positive.
LEMMA SumPositive ==
  ASSUME NEW S, IsFiniteSet(S), NEW F, \A x \in S : F[x] \in Nat,
         NEW x \in S, F[x] > 0
  PROVE  sumOver(F, S) > 0
<1>1. PICK f : adds(f, F, S, SUBSET S) /\ sumOver(F, S) = f[S]
  BY SumUnfolds
<1> DEFINE Good == {T \in SUBSET S : x \in T => f[T] > 0}
<1>2. {} \in Good
  OBVIOUS
<1>3. ASSUME NEW T \in SUBSET S, T # {}, T \ {first(T)} \in Good
      PROVE  T \in Good
  <2> DEFINE y == first(T)
             U == T \ {y}
  <2>1. y \in S /\ U \in SUBSET S /\ (x \in T => x = y \/ x \in U)
    BY <1>3, FirstOf
  <2> HIDE DEF y
  <2>2. f[T] = F[y] + f[U] /\ f[U] \in Nat /\ F[y] \in Nat
    BY <1>1, <1>3, <2>1 DEF adds, y
  <2>3. x \in U => f[U] > 0
    BY <1>3 DEF y
  <2> QED BY <2>1, <2>2, <2>3
<1> HIDE DEF Good
<1>4. \A T \in SUBSET S : T \in Good
  BY <1>2, <1>3, SubsetInduction
<1> QED BY <1>1, <1>4 DEF Good

\* A sum of zeros is zero, one of a single other term is that term, and sums of
\* the same terms are the same.
LEMMA SumZero ==
  ASSUME NEW S, IsFiniteSet(S), NEW F, \A x \in S : F[x] = 0
  PROVE  sumOver(F, S) = 0
<1>1. sumOver(F, S) = sumOver(F, S) + sumOver(F, S)
  BY SumAdds
<1> QED BY <1>1, SumNat

LEMMA SumSingle ==
  ASSUME NEW S, IsFiniteSet(S), NEW F, NEW x \in S, F[x] \in Nat,
         \A y \in S \ {x} : F[y] = 0
  PROVE  sumOver(F, S) = F[x]
<1>0. \A y \in S : F[y] \in Nat
  OBVIOUS
<1>1. PICK f : adds(f, F, S, SUBSET S) /\ sumOver(F, S) = f[S]
  BY <1>0, SumUnfolds
<1> DEFINE Good == {T \in SUBSET S : f[T] = IF x \in T THEN F[x] ELSE 0}
<1>2. {} \in Good
  BY <1>1 DEF adds
<1>3. ASSUME NEW T \in SUBSET S, T # {}, T \ {first(T)} \in Good
      PROVE  T \in Good
  <2> DEFINE y == first(T)
             U == T \ {y}
  <2>1. y \in T /\ y \in S /\ U \in SUBSET S
    BY <1>3, FirstOf
  <2>2. f[U] = IF x \in U THEN F[x] ELSE 0
    BY <1>3
  <2> HIDE DEF y
  <2>3. f[T] = F[y] + f[U]
    BY <1>1, <1>3 DEF adds, y
  <2>4. CASE x = y
    <3>1. f[U] = 0 /\ x \in T
      BY <2>1, <2>2, <2>4
    <3> QED BY <2>3, <2>4, <3>1
  <2>5. CASE x # y
    <3>1. F[y] = 0 /\ (x \in U <=> x \in T)
      BY <2>1, <2>5
    <3> QED BY <2>2, <2>3, <3>1
  <2> QED BY <2>4, <2>5
<1> HIDE DEF Good
<1>4. \A T \in SUBSET S : T \in Good
  BY <1>2, <1>3, SubsetInduction
<1> QED BY <1>1, <1>4 DEF Good

LEMMA SumSame ==
  ASSUME NEW S, IsFiniteSet(S), NEW F, NEW G,
         \A x \in S : F[x] \in Nat /\ F[x] = G[x]
  PROVE  sumOver(F, S) = sumOver(G, S)
<1> DEFINE Z == [x \in S |-> 0]
<1>1. \A x \in S : Z[x] = 0
  OBVIOUS
<1> HIDE DEF Z
<1>2. sumOver(Z, S) = 0
  BY <1>1, SumZero
<1>3. sumOver(F, S) = sumOver(G, S) + sumOver(Z, S)
  BY <1>1, SumAdds
<1> QED BY <1>2, <1>3, SumNat

-----------------------------------------------------------------------------
(* The money path implements DepositAccount.                                *)

\* A billing run that is open bills something, of one rental.
RunInv ==
  \A b \in BillingRun :
    billing[b] # NoBilling =>
      /\ billing[b].rental \in Rental
      /\ billing[b].rows # {} /\ billing[b].rows \subseteq logsOf(billing[b].rental)

LEMMA RunNext == IInv /\ RunInv /\ [Next]_vars => RunInv'
<1> SUFFICES ASSUME IInv, RunInv, [Next]_vars PROVE RunInv'
  OBVIOUS
<1>1. ASSUME UNCHANGED billing PROVE RunInv'
  BY <1>1 DEF RunInv
<1>2. ASSUME NEW b \in BillingRun, billLock(b) PROVE RunInv'
  <2>1. PICK r \in Rental :
          /\ unbilled(r) # {}
          /\ billing' = [billing EXCEPT ![b] = [rental |-> r, rows |-> unbilled(r)]]
    BY <1>2 DEF billLock
  <2>2. unbilled(r) \subseteq logsOf(r)
    BY DEF unbilled, logsOf
  <2> QED BY <2>1, <2>2 DEF RunInv, IInv, TypeOK
<1>3. ASSUME NEW b \in BillingRun, billCommit(b) PROVE RunInv'
  BY <1>3 DEF billCommit, RunInv, IInv, TypeOK
<1>4. ASSUME NEW l \in Log,
             \/ captureWithItems(l) \/ captureSheet(l)
             \/ extractSheet(l) \/ extractionFails(l) \/ reconcileCommit(l)
      PROVE  RunInv'
  BY <1>1, <1>4
  DEF captureWithItems, captureSheet, extractSheet, extractionFails, reconcileCommit, billVars
<1>5. ASSUME NEW c \in Clerk,
             \/ approveRead(c) \/ approveLockOwn(c) \/ approveLockCounterpart(c)
             \/ approveLockRental(c) \/ approveRefused(c) \/ approveCommit(c)
             \/ approveRolledBack(c) \/ rejectRead(c) \/ rejectCommit(c)
      PROVE  RunInv'
  BY <1>1, <1>5
  DEF approveRead, approveLockOwn, approveLockCounterpart, approveLockRental,
      approveRefused, approveCommit, approveRolledBack, rejectRead, rejectCommit, billVars
<1>6. ASSUME NEW r \in Rental, settleDeposit(r) PROVE RunInv'
  BY <1>1, <1>6 DEF settleDeposit, billVars
<1>7. CASE finished \/ UNCHANGED vars
  BY <1>1, <1>7 DEF finished, vars
<1> QED BY <1>2, <1>3, <1>4, <1>5, <1>6, <1>7 DEF Next

LEMMA RunHolds == Spec => []RunInv
<1>1. Init => RunInv
  BY DEF Init, RunInv
<1> QED BY <1>1, RunNext, StructureHolds, PTL DEF Spec

\* The totals of amounts, rental by rental.
LEMMA LogsFinite == ASSUME NEW r PROVE IsFiniteSet(logsOf(r)) /\ logsOf(r) \subseteq Log
BY NoneAssumption, FS_Subset DEF logsOf

LEMMA TotalNat ==
  ASSUME NEW F, NEW r \in Rental, \A l \in Log : F[l] \in Nat
  PROVE  totals(F)[r] \in Nat
<1>1. totals(F)[r] = sumOver(F, logsOf(r))
  BY DEF totals
<1> QED BY <1>1, LogsFinite, SumNat

LEMMA TotalSame ==
  ASSUME NEW F, NEW G, NEW r \in Rental, \A l \in logsOf(r) : F[l] \in Nat /\ F[l] = G[l]
  PROVE  totals(F)[r] = totals(G)[r]
<1>1. totals(F)[r] = sumOver(F, logsOf(r)) /\ totals(G)[r] = sumOver(G, logsOf(r))
  BY DEF totals
<1> QED BY <1>1, LogsFinite, SumSame

LEMMA TotalAdds ==
  ASSUME NEW F, NEW G, NEW H, NEW r \in Rental,
         \A l \in Log : F[l] \in Nat /\ G[l] \in Nat /\ H[l] \in Nat /\ F[l] = G[l] + H[l]
  PROVE  totals(F)[r] = totals(G)[r] + totals(H)[r]
<1>1. /\ totals(F)[r] = sumOver(F, logsOf(r)) /\ totals(G)[r] = sumOver(G, logsOf(r))
      /\ totals(H)[r] = sumOver(H, logsOf(r))
  BY DEF totals
<1>2. /\ IsFiniteSet(logsOf(r))
      /\ \A l \in logsOf(r) : F[l] \in Nat /\ G[l] \in Nat /\ H[l] \in Nat /\ F[l] = G[l] + H[l]
  BY LogsFinite
<1> QED BY <1>1, <1>2, SumAdds

\* What the two kinds of amount are, log by log.
LEMMA AmountsNat ==
  ASSUME IInv
  PROVE  \A l \in Log : openAmounts[l] \in Nat /\ invoicedAmounts[l] \in Nat
<1>1. \A l \in Log : accruals[l].amount \in Nat /\ weekly[l] \in Nat
  BY DEF IInv, TypeOK, AccrualRow
<1>2. \A l \in Log : weekly[l] * accruals[l].amount \in Nat
  BY <1>1, ProductType
<1> QED BY <1>1, <1>2 DEF openAmounts, invoicedAmounts

\* A step that keeps the amounts is none of the account's.
LEMMA AccountUntouched ==
  ASSUME UNCHANGED <<depositPaid, deducted, accruals, weekly>>
  PROVE  UNCHANGED Account!vars
BY DEF Account!vars, totals, openAmounts, invoicedAmounts

LEMMA AccountPay ==
  ASSUME NEW r \in Rental, settleDeposit(r)
  PROVE  Account!Pay(r)
BY DEF settleDeposit, Account!Pay, totals, openAmounts, invoicedAmounts, moneyVars, billVars

\* What a committed approval leaves in its rental's three totals: the part the
\* deposit covers is drawn, the rest is open, and no invoice changes.
LEMMA ChargeBooked ==
  ASSUME IInv, IInv', BillInv, NEW c \in Clerk, approveCommit(c), NEW q \in Rental
  PROVE  LET l == desk[c].log
             s == splitOf(c)
         IN  /\ deducted'[q] = deducted[q] + (IF q = RentalOf[l] THEN s.deducted ELSE 0)
             /\ totals(openAmounts)'[q] =
                  totals(openAmounts)[q] + (IF q = RentalOf[l] THEN s.accrued ELSE 0)
             /\ totals(invoicedAmounts)'[q] = totals(invoicedAmounts)[q]
             /\ totals(openAmounts)[q] \in Nat /\ totals(invoicedAmounts)[q] \in Nat
<1> DEFINE l == desk[c].log
           r == RentalOf[l]
           s == splitOf(c)
<1>1. l \in Log /\ r \in Rental /\ s.deducted \in Nat /\ s.accrued \in Nat
  BY ApproveCommitEffect
<1>2. /\ deducted' = [deducted EXCEPT ![r] = @ + s.deducted]
      /\ accruals' = IF s.accrued > 0
                       THEN [accruals EXCEPT ![l] = [amount |-> s.accrued, billed |-> FALSE]]
                       ELSE accruals
      /\ s.accrued > 0 => accruals[l] = NoAccrual
      /\ UNCHANGED weekly
  BY DEF approveCommit, accrualClashes, billVars
<1>4. /\ deducted \in [Rental -> Nat] /\ accruals \in [Log -> AccrualRow]
      /\ weekly \in [Log -> Nat]
  BY DEF IInv, TypeOK
<1> DEFINE D == [k \in Log |-> IF k = l THEN s.accrued ELSE 0]
<1>5. \A k \in Log : D[k] = (IF k = l THEN s.accrued ELSE 0) /\ D[k] \in Nat
  BY <1>1
<1> HIDE DEF l, r, s, D
<1>6. deducted'[q] = deducted[q] + (IF q = r THEN s.deducted ELSE 0)
  BY <1>1, <1>2, <1>4
<1>7. \A k \in Log : openAmounts'[k] = openAmounts[k] + D[k]
  <2> SUFFICES ASSUME NEW k \in Log PROVE openAmounts'[k] = openAmounts[k] + D[k]
    OBVIOUS
  <2>1. CASE k = l /\ s.accrued > 0
    <3>1. accruals[k] = [amount |-> 0, billed |-> FALSE]
          /\ accruals'[k] = [amount |-> s.accrued, billed |-> FALSE]
      BY <2>1, <1>2, <1>4 DEF NoAccrual
    <3>2. openAmounts[k] = 0 /\ openAmounts'[k] = s.accrued
      BY <3>1 DEF openAmounts
    <3> QED BY <2>1, <3>2, <1>1, <1>5
  <2>2. CASE ~(k = l /\ s.accrued > 0)
    <3>1. accruals'[k] = accruals[k]
      BY <2>2, <1>2, <1>4
    <3>2. openAmounts'[k] = openAmounts[k] /\ openAmounts[k] \in Nat
      BY <3>1, AmountsNat DEF openAmounts
    <3>3. D[k] = 0
      BY <2>2, <1>1, <1>5
    <3> QED BY <3>2, <3>3
  <2> QED BY <2>1, <2>2
<1>8. \A k \in Log : invoicedAmounts'[k] = invoicedAmounts[k]
  <2> SUFFICES ASSUME NEW k \in Log PROVE invoicedAmounts'[k] = invoicedAmounts[k]
    OBVIOUS
  <2>1. CASE k = l /\ s.accrued > 0
    <3>1. ~accruals[k].billed
      BY <2>1, <1>2 DEF NoAccrual
    <3>2. weekly[k] = 0 /\ weekly'[k] = 0
      BY <3>1, <1>2 DEF BillInv, AccrualsBilledExactly
    <3>3. accruals[k].amount \in Nat /\ accruals'[k].amount \in Nat
      BY DEF IInv, TypeOK, AccrualRow
    <3> QED BY <3>2, <3>3 DEF invoicedAmounts
  <2>2. CASE ~(k = l /\ s.accrued > 0)
    <3>1. accruals'[k] = accruals[k]
      BY <2>2, <1>2, <1>4
    <3> QED BY <3>1, <1>2 DEF invoicedAmounts
  <2> QED BY <2>1, <2>2
<1>9. \A k \in Log : /\ openAmounts[k] \in Nat /\ openAmounts'[k] \in Nat
                     /\ invoicedAmounts[k] \in Nat
  <2>1. \A k \in Log : accruals'[k].amount \in Nat
    BY DEF IInv, TypeOK, AccrualRow
  <2>2. \A k \in Log : openAmounts'[k] \in Nat
    BY <2>1 DEF openAmounts
  <2> QED BY <2>2, AmountsNat
<1>10. totals(D)[q] = IF q = r THEN s.accrued ELSE 0
  <2>1. totals(D)[q] = sumOver(D, logsOf(q))
    BY DEF totals
  <2>2. CASE q = r
    <3>1. l \in logsOf(q) /\ D[l] = s.accrued /\ \A k \in logsOf(q) \ {l} : D[k] = 0
      BY <1>1, <1>5, <2>2 DEF logsOf, r
    <3> QED BY <1>1, <2>1, <2>2, <3>1, LogsFinite, SumSingle
  <2>3. CASE q # r
    <3>1. \A k \in logsOf(q) : D[k] = 0
      BY <1>5, <2>3 DEF logsOf, r
    <3> QED BY <2>1, <2>3, <3>1, LogsFinite, SumZero
  <2> QED BY <2>2, <2>3
<1>11. totals(openAmounts')[q] = totals(openAmounts)[q] + totals(D)[q]
  <2>1. \A k \in Log : /\ openAmounts'[k] \in Nat /\ openAmounts[k] \in Nat /\ D[k] \in Nat
                       /\ openAmounts'[k] = openAmounts[k] + D[k]
    BY <1>5, <1>7, <1>9
  <2> QED BY <2>1, TotalAdds
<1>12. totals(invoicedAmounts')[q] = totals(invoicedAmounts)[q]
  BY <1>8, <1>9, LogsFinite, TotalSame
<1>13. totals(openAmounts)[q] \in Nat /\ totals(invoicedAmounts)[q] \in Nat
  BY <1>9, TotalNat
<1>14. totals(openAmounts)' = totals(openAmounts') /\ totals(invoicedAmounts)' = totals(invoicedAmounts')
  BY DEF totals
<1> QED BY <1>6, <1>10, <1>11, <1>12, <1>13, <1>14 DEF l, r, s

\* A committed approval is one charge of its rental: it draws what the balance
\* covers and opens what an emptied deposit leaves.
LEMMA AccountCharge ==
  ASSUME IInv, IInv', MoneyInv, MoneyInv', BillInv, NEW c \in Clerk, approveCommit(c)
  PROVE  Account!Charge(RentalOf[desk[c].log])
<1> DEFINE l == desk[c].log
           r == RentalOf[l]
           s == splitOf(c)
           open == totals(openAmounts)
           invoiced == totals(invoicedAmounts)
<1>1. /\ r \in Rental /\ s.deducted \in Nat /\ s.accrued \in Nat
      /\ s.balanceAfter = desk[c].balance - s.deducted
      /\ s.accrued > 0 => s.balanceAfter = 0
  BY ApproveCommitEffect
<1>2. /\ depositPaid[r] /\ desk[c].balance = Deposit[r] - deducted[r]
      /\ UNCHANGED depositPaid
  BY DEF approveCommit, MoneyInv, PricedInv
<1>3. Deposit \in [Rental -> Nat] /\ deducted \in [Rental -> Nat]
  BY ColumnAssumption DEF IInv, TypeOK
<1>4. \A q \in Rental :
        /\ deducted'[q] = deducted[q] + (IF q = r THEN s.deducted ELSE 0)
        /\ open'[q] = open[q] + (IF q = r THEN s.accrued ELSE 0)
        /\ invoiced'[q] = invoiced[q]
        /\ open[q] \in Nat
  BY ChargeBooked
<1> HIDE DEF l, s
<1>5. /\ Account!onlyAt(deducted, deducted', r)
      /\ deducted'[r] \in deducted[r]..Deposit[r]
      /\ s.accrued > 0 => deducted'[r] = Deposit[r]
  <2>1. deducted'[r] <= Deposit[r]
    BY <1>1 DEF MoneyInv, DepositNotOverdrawn
  <2>2. \A q \in Rental \ {r} : deducted'[q] = deducted[q]
    BY <1>3, <1>4
  <2> QED BY <1>1, <1>2, <1>3, <1>4, <2>1, <2>2 DEF Account!onlyAt
<1>6. /\ Account!onlyAt(open, open', r) /\ open'[r] >= open[r]
      /\ open'[r] > open[r] => s.accrued > 0
  BY <1>1, <1>4 DEF Account!onlyAt
<1>7. invoiced' = invoiced
  BY <1>4 DEF totals
<1> QED
  BY <1>1, <1>2, <1>5, <1>6, <1>7 DEF Account!Charge, l, r

\* A billing run moves what was open on the rows it read to one invoice.
LEMMA AccountInvoice ==
  ASSUME IInv, IInv', BillInv, RunInv, NEW b \in BillingRun, billCommit(b)
  PROVE  Account!Invoice(billing[b].rental)
<1> DEFINE r == billing[b].rental
           R == billing[b].rows
<1>1. /\ r \in Rental /\ R # {} /\ R \subseteq logsOf(r)
      /\ \A k \in R : accruals[k].amount > 0 /\ ~accruals[k].billed
  BY DEF billCommit, RunInv, BillInv
<1>2. /\ weekly' = [k \in Log |-> IF k \in R THEN weekly[k] + 1 ELSE weekly[k]]
      /\ accruals' = [k \in Log |-> IF k \in R
                                      THEN [accruals[k] EXCEPT !.billed = TRUE] ELSE accruals[k]]
      /\ UNCHANGED <<depositPaid, deducted>>
  BY DEF billCommit
<1>3. R \subseteq Log
  BY <1>1 DEF logsOf
<1>4. \A k \in Log : accruals[k] \in AccrualRow /\ weekly[k] \in Nat
  BY DEF IInv, TypeOK
<1> DEFINE D == [k \in Log |-> IF k \in R THEN accruals[k].amount ELSE 0]
           open == totals(openAmounts)
           invoiced == totals(invoicedAmounts)
<1>5. \A k \in Log : D[k] = (IF k \in R THEN accruals[k].amount ELSE 0) /\ D[k] \in Nat
  BY <1>4 DEF AccrualRow
<1> HIDE DEF r, R, D
<1>6. ASSUME NEW k \in Log
      PROVE  /\ openAmounts[k] = openAmounts'[k] + D[k]
             /\ invoicedAmounts'[k] = invoicedAmounts[k] + D[k]
             /\ openAmounts[k] \in Nat /\ openAmounts'[k] \in Nat
             /\ invoicedAmounts[k] \in Nat /\ invoicedAmounts'[k] \in Nat
  <2>1. /\ openAmounts[k] \in Nat /\ invoicedAmounts[k] \in Nat
        /\ accruals[k].amount \in Nat /\ weekly[k] = IF accruals[k].billed THEN 1 ELSE 0
    BY <1>4, AmountsNat DEF AccrualRow, BillInv, AccrualsBilledExactly
  <2>2. CASE k \in R
    <3>1. ~accruals[k].billed /\ weekly[k] = 0 /\ weekly'[k] = 1
      BY <1>1, <1>2, <2>1, <2>2
    <3>2. accruals'[k].billed /\ accruals'[k].amount = accruals[k].amount
      BY <1>2, <1>4, <2>2 DEF AccrualRow
    <3>3. openAmounts[k] = accruals[k].amount /\ openAmounts'[k] = 0
      BY <3>1, <3>2 DEF openAmounts
    <3>4. invoicedAmounts[k] = 0 /\ invoicedAmounts'[k] = accruals[k].amount
      BY <2>1, <3>1, <3>2 DEF invoicedAmounts
    <3> QED BY <2>1, <2>2, <3>3, <3>4, <1>5
  <2>3. CASE k \notin R
    <3>1. accruals'[k] = accruals[k] /\ weekly'[k] = weekly[k]
      BY <1>2, <2>3
    <3>2. openAmounts'[k] = openAmounts[k] /\ invoicedAmounts'[k] = invoicedAmounts[k]
      BY <3>1 DEF openAmounts, invoicedAmounts
    <3> QED BY <2>1, <2>3, <3>2, <1>5
  <2> QED BY <2>2, <2>3
<1>7. ASSUME NEW q \in Rental
      PROVE  /\ open[q] = open'[q] + totals(D)[q]
             /\ invoiced'[q] = invoiced[q] + totals(D)[q]
             /\ open[q] \in Nat /\ open'[q] \in Nat /\ invoiced[q] \in Nat
  <2>1. totals(openAmounts)[q] = totals(openAmounts')[q] + totals(D)[q]
    BY <1>5, <1>6, TotalAdds
  <2>2. totals(invoicedAmounts')[q] = totals(invoicedAmounts)[q] + totals(D)[q]
    BY <1>5, <1>6, TotalAdds
  <2>3. /\ totals(openAmounts)[q] \in Nat /\ totals(openAmounts')[q] \in Nat
        /\ totals(invoicedAmounts)[q] \in Nat
    BY <1>6, TotalNat
  <2> QED BY <2>1, <2>2, <2>3
<1>8. \A q \in Rental \ {r} : totals(D)[q] = 0
  <2> TAKE q \in Rental \ {r}
  <2>1. \A k \in logsOf(q) : D[k] = 0
    BY <1>1, <1>5 DEF logsOf
  <2>2. totals(D)[q] = sumOver(D, logsOf(q))
    BY DEF totals
  <2> QED BY <2>1, <2>2, LogsFinite, SumZero
<1>9. totals(D)[r] \in Nat /\ totals(D)[r] > 0
  <2>1. PICK k \in R : TRUE
    BY <1>1
  <2>2. k \in logsOf(r) /\ D[k] > 0
    BY <1>1, <1>3, <1>5
  <2>3. totals(D)[r] = sumOver(D, logsOf(r))
    BY <1>1 DEF totals
  <2>4. \A x \in logsOf(r) : D[x] \in Nat
    BY <1>5, LogsFinite
  <2>5. sumOver(D, logsOf(r)) > 0
    BY <2>2, <2>4, LogsFinite, SumPositive
  <2> QED BY <1>1, <1>5, <2>3, <2>5, TotalNat
<1>10. Account!onlyAt(open, open', r) /\ Account!onlyAt(invoiced, invoiced', r)
  BY <1>7, <1>8 DEF Account!onlyAt
<1>11. /\ open'[r] \in 0..(open[r] - 1)
       /\ invoiced'[r] - invoiced[r] = open[r] - open'[r]
  BY <1>1, <1>7, <1>9
<1> QED
  BY <1>2, <1>10, <1>11 DEF Account!Invoice, r

\* Every step is a step of the account, or none.
LEMMA AccountStep ==
  IInv /\ IInv' /\ MoneyInv /\ MoneyInv' /\ BillInv /\ RunInv /\ [Next]_vars
    => [Account!Next]_(Account!vars)
<1> SUFFICES ASSUME IInv, IInv', MoneyInv, MoneyInv', BillInv, RunInv, [Next]_vars
             PROVE  [Account!Next]_(Account!vars)
  OBVIOUS
<1>1. ASSUME UNCHANGED <<depositPaid, deducted, accruals, weekly>>
      PROVE  [Account!Next]_(Account!vars)
  BY <1>1, AccountUntouched
<1>2. ASSUME NEW c \in Clerk, approveCommit(c) PROVE Account!Next
  <2>1. RentalOf[desk[c].log] \in Rental
    BY <1>2, ApproveCommitEffect
  <2> QED BY <1>2, <2>1, AccountCharge DEF Account!Next
<1>3. ASSUME NEW b \in BillingRun, billCommit(b) PROVE Account!Next
  <2>1. billing[b].rental \in Rental
    BY <1>3 DEF billCommit, RunInv
  <2> QED BY <1>3, <2>1, AccountInvoice DEF Account!Next
<1>4. ASSUME NEW r \in Rental, settleDeposit(r) PROVE Account!Next
  BY <1>4, AccountPay DEF Account!Next
<1>5. ASSUME NEW l \in Log,
             \/ captureWithItems(l) \/ captureSheet(l)
             \/ extractSheet(l) \/ extractionFails(l) \/ reconcileCommit(l)
      PROVE  [Account!Next]_(Account!vars)
  BY <1>1, <1>5
  DEF captureWithItems, captureSheet, extractSheet, extractionFails, reconcileCommit,
      moneyVars, billVars
<1>6. ASSUME NEW c \in Clerk,
             \/ approveRead(c) \/ approveLockOwn(c) \/ approveLockCounterpart(c)
             \/ approveLockRental(c) \/ approveRefused(c)
             \/ approveRolledBack(c) \/ rejectRead(c) \/ rejectCommit(c)
      PROVE  [Account!Next]_(Account!vars)
  BY <1>1, <1>6
  DEF approveRead, approveLockOwn, approveLockCounterpart, approveLockRental,
      approveRefused, approveRolledBack, rejectRead, rejectCommit, moneyVars, billVars
<1>7. ASSUME NEW b \in BillingRun, billLock(b) PROVE [Account!Next]_(Account!vars)
  BY <1>1, <1>7 DEF billLock, moneyVars
<1>8. CASE finished \/ UNCHANGED vars
  BY <1>1, <1>8 DEF finished, vars
<1> QED BY <1>2, <1>3, <1>4, <1>5, <1>6, <1>7, <1>8 DEF Next

LEMMA AccountInit == Init => Account!Init
<1> SUFFICES ASSUME Init PROVE Account!Init
  OBVIOUS
<1>1. \A l \in Log : openAmounts[l] = 0 /\ invoicedAmounts[l] = 0
  BY DEF Init, NoAccrual, openAmounts, invoicedAmounts
<1>2. \A r \in Rental : totals(openAmounts)[r] = 0 /\ totals(invoicedAmounts)[r] = 0
  <2> TAKE r \in Rental
  <2>1. /\ totals(openAmounts)[r] = sumOver(openAmounts, logsOf(r))
        /\ totals(invoicedAmounts)[r] = sumOver(invoicedAmounts, logsOf(r))
    BY DEF totals
  <2> QED BY <1>1, <2>1, LogsFinite, SumZero
<1> QED BY <1>2 DEF Init, Account!Init, totals

\* The money path, whatever its transactions' interleaving, implements
\* DepositAccount: every committed approval is one charge of one rental, the
\* deposit first, and every billing run one invoice of what leaves the open
\* balance (edtr.service.ts:632-720, weekly-billing.ts:33-88).
THEOREM AccountRefined == Spec => AccountSpec
<1> QED
  BY AccountInit, AccountStep, StructureHolds, MoneyHolds, BillHolds, RunHolds, PTL
  DEF Spec, AccountSpec, Account!Spec

-----------------------------------------------------------------------------
(* Money and hours move together.                                           *)

LEMMA ChargedUntouched ==
  ASSUME UNCHANGED <<deducted, accruals, weekly>>, NEW q
  PROVE  charged(q)' = charged(q)
BY DEF charged, totals, openAmounts, invoicedAmounts

LEMMA CommitCharges ==
  ASSUME IInv, IInv', BillInv, NEW c \in Clerk, approveCommit(c), NEW l, l = desk[c].log
  PROVE  chargesFor(l)
<1> DEFINE r == RentalOf[l]
           u == UnitOf[l]
           s == splitOf(c)
           hours == billableHours(c)
<1>1. l \in Log /\ r \in Rental /\ u \in Unit /\ hours \in Nat /\ Rate[l] \in Nat
  BY ApproveCommitEffect, ColumnAssumption
<1>2. s.deducted \in Nat /\ s.accrued \in Nat /\ s.deducted + s.accrued = hours * Rate[l]
  <2>1. desk[c].step = "priced" /\ desk[c].balance \in Nat
    BY DEF approveCommit, IInv, TypeOK, Request
  <2>2. charge(c) \in Nat
    BY <2>1, ChargeType DEF IInv
  <2> QED BY <2>1, <2>2, SplitExact DEF splitOf, charge
<1>3. /\ approvals' = [approvals EXCEPT ![l] = @ + 1]
      /\ runtime' = [runtime EXCEPT ![u] = @ + hours]
  BY DEF approveCommit
<1>4. runtime \in [Unit -> Nat] /\ deducted \in [Rental -> Nat]
  BY DEF IInv, TypeOK
<1> HIDE DEF hours
<1>5. runtime'[u] - runtime[u] = hours /\ \A v \in Unit \ {u} : runtime'[v] = runtime[v]
  BY <1>1, <1>3, <1>4
<1>6. ASSUME NEW q \in Rental
      PROVE  charged(q)' = charged(q) + (IF q = r THEN hours * Rate[l] ELSE 0)
  <2>1. /\ deducted'[q] = deducted[q] + (IF q = r THEN s.deducted ELSE 0)
        /\ totals(openAmounts)'[q] = totals(openAmounts)[q] + (IF q = r THEN s.accrued ELSE 0)
        /\ totals(invoicedAmounts)'[q] = totals(invoicedAmounts)[q]
        /\ totals(openAmounts)[q] \in Nat /\ totals(invoicedAmounts)[q] \in Nat
    BY ChargeBooked
  <2>2. deducted[q] \in Nat
    BY <1>4
  <2> HIDE DEF s
  <2>3. charged(q)' = charged(q)
                        + (IF q = r THEN s.deducted ELSE 0) + (IF q = r THEN s.accrued ELSE 0)
    BY <1>2, <2>1, <2>2 DEF charged
  <2>4. charged(q) \in Nat
    BY <2>1, <2>2 DEF charged
  <2>5. CASE q = r
    <3>1. charged(q)' = charged(q) + (s.deducted + s.accrued)
      BY <1>2, <2>3, <2>4, <2>5
    <3> QED BY <1>2, <2>5, <3>1
  <2>6. CASE q # r
    BY <2>3, <2>4, <2>6
  <2> QED BY <2>5, <2>6
<1>7. ASSUME NEW q \in Rental \ {r} PROVE charged(q)' = charged(q)
  <2>1. charged(q) \in Nat
    BY <1>4, ChargeBooked DEF charged
  <2> QED BY <1>6, <1>7, <2>1
<1>8. charged(r)' = charged(r) + hours * Rate[l]
  BY <1>1, <1>6
<1> QED BY <1>3, <1>5, <1>7, <1>8 DEF chargesFor

\* An invoice takes from what is open what it adds to what is invoiced.
LEMMA InvoiceCharges ==
  ASSUME IInv, IInv', BillInv, RunInv, NEW b \in BillingRun, billCommit(b), NEW q \in Rental
  PROVE  charged(q)' = charged(q)
<1> DEFINE r == billing[b].rental
           open == totals(openAmounts)
           invoiced == totals(invoicedAmounts)
<1>1. Account!Invoice(r) /\ r \in Rental
  BY AccountInvoice DEF RunInv, billCommit
<1>2. /\ deducted' = deducted
      /\ \A p \in Rental \ {r} : open'[p] = open[p] /\ invoiced'[p] = invoiced[p]
      /\ invoiced'[r] - invoiced[r] = open[r] - open'[r] /\ open'[r] \in 0..(open[r] - 1)
  BY <1>1 DEF Account!Invoice, Account!onlyAt
<1>3. /\ deducted[q] \in Nat /\ open[q] \in Nat /\ invoiced[q] \in Nat
      /\ open'[q] \in Nat /\ invoiced'[q] \in Nat
  <2>1. \A l \in Log : /\ openAmounts[l] \in Nat /\ invoicedAmounts[l] \in Nat
                       /\ openAmounts'[l] \in Nat /\ invoicedAmounts'[l] \in Nat
    <3>1. \A l \in Log : accruals'[l].amount \in Nat /\ weekly'[l] \in Nat
      BY DEF IInv, TypeOK, AccrualRow
    <3>2. \A l \in Log : weekly'[l] * accruals'[l].amount \in Nat
      BY <3>1, ProductType
    <3> QED BY <3>1, <3>2, AmountsNat DEF openAmounts, invoicedAmounts
  <2>2. /\ totals(openAmounts')[q] \in Nat /\ totals(invoicedAmounts')[q] \in Nat
        /\ totals(openAmounts)[q] \in Nat /\ totals(invoicedAmounts)[q] \in Nat
    BY <2>1, TotalNat
  <2>3. deducted[q] \in Nat
    BY DEF IInv, TypeOK
  <2> QED BY <2>2, <2>3 DEF totals
<1> HIDE DEF open, invoiced, r
<1>4. charged(q) = deducted[q] + open[q] + invoiced[q]
      /\ charged(q)' = deducted'[q] + open'[q] + invoiced'[q]
  BY DEF charged, open, invoiced
<1> QED BY <1>1, <1>2, <1>3, <1>4

\* What rentals have been charged grows by the hours that approvals add to the
\* units' runtime, at the rate of the log, and by nothing else; weekly billing
\* moves it to invoices whole (edtr.service.ts:632-720, weekly-billing.ts:33-88).
THEOREM ChargedByHours == Spec => HoursCharged
<1> DEFINE Kept == UNCHANGED <<approvals, runtime>> /\ \A q \in Rental : charged(q)' = charged(q)
           Moves == (\E l \in Log : chargesFor(l)) \/ Kept
<1>1. IInv /\ IInv' /\ BillInv /\ RunInv /\ [Next]_vars => Moves
  <2> SUFFICES ASSUME IInv, IInv', BillInv, RunInv, [Next]_vars PROVE Moves
    OBVIOUS
  <2>1. ASSUME UNCHANGED <<deducted, accruals, weekly, approvals, runtime>> PROVE Kept
    BY <2>1, ChargedUntouched
  <2>2. ASSUME NEW c \in Clerk, approveCommit(c) PROVE \E l \in Log : chargesFor(l)
    <3> DEFINE m == desk[c].log
    <3>1. PICK l \in Log : l = m
      BY <2>2, ApproveCommitEffect
    <3> QED BY <2>2, <3>1, CommitCharges
  <2>3. ASSUME NEW b \in BillingRun, billCommit(b) PROVE Kept
    BY <2>3, InvoiceCharges DEF billCommit
  <2>4. ASSUME NEW l \in Log,
               \/ captureWithItems(l) \/ captureSheet(l)
               \/ extractSheet(l) \/ extractionFails(l) \/ reconcileCommit(l)
        PROVE  Kept
    BY <2>1, <2>4
    DEF captureWithItems, captureSheet, extractSheet, extractionFails, reconcileCommit,
        moneyVars, billVars
  <2>5. ASSUME NEW c \in Clerk,
               \/ approveRead(c) \/ approveLockOwn(c) \/ approveLockCounterpart(c)
               \/ approveLockRental(c) \/ approveRefused(c)
               \/ approveRolledBack(c) \/ rejectRead(c) \/ rejectCommit(c)
        PROVE  Kept
    BY <2>1, <2>5
    DEF approveRead, approveLockOwn, approveLockCounterpart, approveLockRental,
        approveRefused, approveRolledBack, rejectRead, rejectCommit, moneyVars, billVars
  <2>6. ASSUME NEW b \in BillingRun, billLock(b) PROVE Kept
    BY <2>1, <2>6 DEF billLock, moneyVars
  <2>7. ASSUME NEW r \in Rental, settleDeposit(r) PROVE Kept
    BY <2>1, <2>7 DEF settleDeposit, moneyVars, billVars
  <2>8. CASE finished \/ UNCHANGED vars
    BY <2>1, <2>8 DEF finished, vars
  <2> HIDE DEF Kept
  <2> QED BY <2>2, <2>3, <2>4, <2>5, <2>6, <2>7, <2>8 DEF Next
<1>2. Moves => [Moves]_vars
  OBVIOUS
<1> QED BY <1>1, <1>2, StructureHolds, BillHolds, RunHolds, PTL DEF Spec, HoursCharged
=============================================================================
