----------------------------- MODULE EdtrApproval -----------------------------
(***************************************************************************)
(* The money path of an equipment daily time report (EDTR): two logs of a  *)
(* unit's day are captured independently, reconciled by a gate, and staff  *)
(* approve or reject the pair.  An approval draws the charge from the      *)
(* rental's deposit; what the deposit no longer covers accrues and is      *)
(* invoiced weekly.                                                        *)
(*                                                                         *)
(* Every handler is one Postgres transaction at READ COMMITTED             *)
(* (packages/db/src/with-tenant-tx.ts): each of its statements sees what   *)
(* had been committed when that statement began, and only FOR UPDATE and   *)
(* UPDATE take row locks.  A handler is therefore split at the statements  *)
(* between which another transaction's commit can matter, and its writes   *)
(* take effect at its commit.                                              *)
(***************************************************************************)
EXTENDS Integers, FiniteSets, FiniteSetsExt, DepositLedger

CONSTANTS
  Log,          \* the EDTR ids that will be captured
  Rental, Unit, \* rentals, equipment units
  Clerk,        \* staff requests open at once (approve or reject)
  BillingRun,   \* weekly-billing jobs that may overlap
  None,         \* SQL NULL
  Reading,      \* line items a log may carry: [active, idle]
  Confidence,   \* min_field_confidence values an extraction may carry
  RentalOf, UnitOf, DayOf, Source,   \* columns of edtr, by log
  Rate,         \* hourly rate in force on a log's report date, by log
  Unpriced,     \* logs whose unit has rate cards, none in force that day
  Deposit,      \* deposit_required, by rental
  LowBalancePct,
  Flags,        \* the deployments: [ocr: ENABLE_OCR_PIPELINE,
                \*   attested: an attested OCR accuracy that meets the floor]
  CONFIDENCE_GATE, Tolerance, NotRecorded

GATE == INSTANCE ReconciliationGate

ASSUME NoneAssumption ==
  /\ None \notin Log \cup Rental \cup Unit \cup Clerk \cup Reading
  /\ IsFiniteSet(Log) /\ IsFiniteSet(Clerk)

ASSUME ColumnAssumption ==
  /\ RentalOf \in [Log -> Rental]
  /\ UnitOf \in [Log -> Unit]
  /\ Source \in [Log -> {"paper_ocr", "digital_entry"}]
  /\ Rate \in [Log -> Nat]
  /\ Unpriced \subseteq Log
  /\ Deposit \in [Rental -> Nat]
  /\ LowBalancePct \in 0..100
  /\ \A r \in Reading : r.active \in Nat
  /\ Flags \subseteq [ocr : BOOLEAN, attested : BOOLEAN]

\* Hours are numbers of a tick, confidences percents; NULL is neither.
ASSUME GateAssumption ==
  /\ NotRecorded \notin Nat
  /\ \A r \in Reading : r.idle \in Nat \cup {NotRecorded}
  /\ Confidence \subseteq 0..100 /\ CONFIDENCE_GATE \in Nat
  /\ Tolerance \in Nat

VARIABLES
  flags,        \* the flags this deployment runs under
  edtr,         \* [status, items, payload, confidence, held] of each log
  recon,        \* [status, counterpart] of each log's edtr_reconciliations row
  intake,       \* the capture or extraction transaction open on each log
  desk,         \* the approve or reject transaction each clerk has open
  depositPaid,  \* a paid deposit or booking invoice exists for the rental
  deducted,     \* sum of the rental's deposit_deduction invoices
  accruals,     \* the deposit_accruals row of each reconciliation
  approvals,    \* how often each reconciliation row has been charged
  rejections,   \* rows an audited rejection has been recorded for
  lowWarnings,  \* deposit_low notifications sent for each rental
  runtime,      \* equipment.runtime_hours
  weekly,       \* how many weekly invoice lines carry each row's accrual
  billing       \* the transaction each billing run has open

vars == <<flags, edtr, recon, intake, desk, depositPaid, deducted, accruals,
          approvals, rejections, lowWarnings, runtime, weekly, billing>>
logVars   == <<flags, edtr, recon, intake>>
moneyVars == <<deducted, accruals, approvals, lowWarnings, runtime>>
billVars  == <<weekly, billing>>

Payload     == {"none", "manual", "model"}
\* The line items a person types carry both figures.
TypedReading == {r \in Reading : r.idle # NotRecorded}
SheetReading == Reading \ TypedReading

EdtrStatus  == {"absent", "queued", "extracted", "review", "reconciled", "hard_failed"}
ReconStatus == {"absent", "pending", "matched", "discrepancy", "approved", "rejected"}

NoRecon   == [status |-> "absent", counterpart |-> None]
NoIntake  == [step |-> "idle", items |-> None, payload |-> "none",
              confidence |-> 100, held |-> FALSE, counterpart |-> None, verdict |-> "pending"]
NoRequest == [step |-> "idle", log |-> None, counterpart |-> None,
              adjustments |-> None, balance |-> 0]
NoAccrual == [amount |-> 0, billed |-> FALSE]
NoBilling == [rental |-> None, rows |-> {}]

Init ==
  /\ flags \in Flags
  /\ edtr = [l \in Log |-> [status |-> "absent", items |-> None, payload |-> "none",
                            confidence |-> 100, held |-> FALSE]]
  /\ recon = [l \in Log |-> NoRecon]
  /\ intake = [l \in Log |-> NoIntake]
  /\ desk = [c \in Clerk |-> NoRequest]
  /\ depositPaid = [r \in Rental |-> FALSE]
  /\ deducted = [r \in Rental |-> 0]
  /\ accruals = [l \in Log |-> NoAccrual]
  /\ approvals = [l \in Log |-> 0]
  /\ rejections = {}
  /\ lowWarnings = [r \in Rental |-> 0]
  /\ runtime = [u \in Unit |-> 0]
  /\ weekly = [l \in Log |-> 0]
  /\ billing = [b \in BillingRun |-> NoBilling]

\* The mutants of a check that is left out, and of a wait for a lock not taken.
unchecked(x) == TRUE

-----------------------------------------------------------------------------
(* Reconciliation.                                                          *)

pairableStatuses == {"extracted", "reconciled", "review"}

\* The committed logs reconcileEdtr may pair l with: the other source's log of
\* the same unit and day.  The query has no ORDER BY, so any of them.
candidates(l) ==
  {m \in Log \ {l} : /\ UnitOf[m] = UnitOf[l] /\ DayOf[m] = DayOf[l]
                     /\ Source[m] # Source[l]
                     /\ edtr[m].status \in pairableStatuses}

\* Mutant of verdict: the gate's reason written where the status belongs.
reasonAsStatus(l, items, confidence, m) ==
  IF edtr[m].items = None THEN "unreadable" ELSE "tolerance_exceeded"

\* The recon status the gate gives l's reading against counterpart m.
verdict(l, items, confidence, m) ==
  IF edtr[m].items = None
    THEN "discrepancy"
    ELSE IF GATE!evaluateGate(GATE!minFieldConfidence(Source[l], confidence),
                              GATE!minFieldConfidence(Source[m], edtr[m].confidence),
                              GATE!hourDeltas(items, edtr[m].items),
                              Tolerance) = "auto_accept"
           THEN "matched" ELSE "discrepancy"

\* The reads of reconcileEdtr, inside the transaction that gives l its line
\* items: pair with a committed candidate if there is one, else wait for it.
reconcileRead(l, items, payload, confidence, held) ==
  \E m \in IF candidates(l) = {} THEN {None} ELSE candidates(l) :
    intake' = [intake EXCEPT ![l] =
      [step |-> "reconciled", items |-> items, payload |-> payload,
       confidence |-> confidence, held |-> held, counterpart |-> m,
       verdict |-> IF m = None THEN "pending" ELSE verdict(l, items, confidence, m)]]

\* The status a reconciliation gives both EDTR rows.
edtrStatusFor(v) == IF v = "matched" THEN "reconciled" ELSE "review"

\* Mutant of reconcileCommit: it writes the counterpart's row as well, as its
\* comment says of re-running it from the other side.
reconcileBothRows(l) ==
  LET t == intake[l] IN
  /\ t.step = "reconciled"
  /\ recon' = [m \in Log |->
       CASE m = l -> [status |-> t.verdict, counterpart |-> t.counterpart]
         [] m = t.counterpart -> [status |-> t.verdict, counterpart |-> l]
         [] OTHER -> recon[m]]
  /\ edtr' = [edtr EXCEPT ![l] = [status |-> edtrStatusFor(t.verdict), items |-> t.items,
                payload |-> t.payload, confidence |-> t.confidence, held |-> t.held]]
  /\ intake' = [intake EXCEPT ![l] = NoIntake]
  /\ UNCHANGED <<flags, desk, depositPaid, moneyVars, rejections, billVars>>

\* The writes: l's own reconciliation row and the status of both logs.  A sheet
\* that contradicts itself is held for a person after it has been reconciled.
reconcileCommit(l) ==
  LET t == intake[l] IN
  /\ t.step = "reconciled"
  /\ recon' = [recon EXCEPT ![l] = [status |-> t.verdict, counterpart |-> t.counterpart]]
  /\ edtr' = [m \in Log |->
       CASE m = l ->
              [status |-> IF t.held THEN "review" ELSE edtrStatusFor(t.verdict),
               items |-> t.items, payload |-> t.payload,
               confidence |-> t.confidence, held |-> t.held]
         [] m = t.counterpart -> [edtr[m] EXCEPT !.status = edtrStatusFor(t.verdict)]
         [] OTHER -> edtr[m]]
  /\ intake' = [intake EXCEPT ![l] = NoIntake]
  /\ UNCHANGED <<flags, desk, depositPaid, moneyVars, rejections, billVars>>

\* POST /edtr with line items: a digital entry, or a photographed sheet whose
\* hours a person typed because the OCR pipeline is off.
captureWithItems(l) ==
  /\ edtr[l].status = "absent" /\ intake[l].step = "idle"
  /\ Source[l] = "paper_ocr" => ~flags.ocr
  /\ \E items \in TypedReading :
       reconcileRead(l, items, IF Source[l] = "paper_ocr" THEN "manual" ELSE "none", 100, FALSE)
  /\ UNCHANGED <<flags, edtr, recon, desk, depositPaid, moneyVars, rejections, billVars>>

\* POST /edtr of a sheet the OCR pipeline will read.
captureSheet(l) ==
  /\ edtr[l].status = "absent" /\ intake[l].step = "idle"
  /\ Source[l] = "paper_ocr" /\ flags.ocr
  /\ edtr' = [edtr EXCEPT ![l].status = "queued"]
  /\ UNCHANGED <<flags, recon, intake, desk, depositPaid, moneyVars, rejections, billVars>>

\* edtr-ocr-worker's transaction on an extracted sheet; a paper sheet has no
\* idle column, and it may contradict its own total.
extractSheet(l) ==
  /\ edtr[l].status = "queued" /\ intake[l].step = "idle"
  /\ \E items \in SheetReading, conf \in Confidence, held \in BOOLEAN :
       reconcileRead(l, items, "model", conf, held)
  /\ UNCHANGED <<flags, edtr, recon, desk, depositPaid, moneyVars, rejections, billVars>>

\* The worker gives a sheet up: unreadable, or its retries are spent.
extractionFails(l) ==
  /\ edtr[l].status = "queued" /\ intake[l].step = "idle"
  /\ \E s \in {"hard_failed", "review"} : edtr' = [edtr EXCEPT ![l].status = s]
  /\ UNCHANGED <<flags, recon, intake, desk, depositPaid, moneyVars, rejections, billVars>>

-----------------------------------------------------------------------------
(* Approval.  The steps of approve() are the statements that take a lock.   *)

\* Row locks follow from how far a request has come.
holdsRecon(c, l) ==
  \/ desk[c].log = l /\ desk[c].step \in {"own", "pair", "priced"}
  \/ desk[c].counterpart = l /\ desk[c].step \in {"pair", "priced"} /\ recon[l].status # "absent"
reconFree(l) == \A c \in Clerk : ~holdsRecon(c, l)
holdsRental(c, r) == desk[c].step = "priced" /\ RentalOf[desk[c].log] = r
rentalFree(r) == \A c \in Clerk : ~holdsRental(c, r)

\* The re-check made on a row once it is locked.
unapproved(l) == recon[l].status # "approved"

\* The unlocked reads of approve and the checks made on them.
approveRead(c) ==
  /\ desk[c].step = "idle"
  /\ \E l \in Log, adj \in TypedReading \cup {None} :
       /\ recon[l].status \in {"matched", "discrepancy"}
       /\ recon[l].status = "discrepancy" => adj # None
       /\ desk' = [desk EXCEPT ![c] =
            [step |-> "read", log |-> l, counterpart |-> recon[l].counterpart,
             adjustments |-> adj, balance |-> 0]]
  /\ UNCHANGED <<logVars, depositPaid, moneyVars, rejections, billVars>>

\* SELECT ... FOR UPDATE on the row being approved, and the re-check.
approveLockOwn(c) ==
  /\ desk[c].step = "read"
  /\ reconFree(desk[c].log)
  /\ unapproved(desk[c].log)
  /\ desk' = [desk EXCEPT ![c].step = "own"]
  /\ UNCHANGED <<logVars, depositPaid, moneyVars, rejections, billVars>>

\* Mutant of modelSourced: only the side being approved is looked at.
ownModelSourced(l, m) == edtr[l].payload = "model"

\* A deduction carried by model output needs an attested accuracy.
modelSourced(l, m) == edtr[l].payload = "model" \/ edtr[m].payload = "model"

\* The same on the counterpart's row, if it has one, then the accuracy and
\* rate-card gates.
approveLockCounterpart(c) ==
  LET l == desk[c].log
      m == desk[c].counterpart
  IN  /\ desk[c].step = "own"
      /\ reconFree(m)
      /\ unapproved(m)
      /\ modelSourced(l, m) => flags.attested
      /\ l \notin Unpriced
      /\ desk' = [desk EXCEPT ![c].step = "pair"]
      /\ UNCHANGED <<logVars, depositPaid, moneyVars, rejections, billVars>>

\* A deduction draws on money actually held.
depositHeld(r) == depositPaid[r]

\* FOR UPDATE on the rental, then the deposit must be paid and its balance is read.
approveLockRental(c) ==
  LET r == RentalOf[desk[c].log] IN
  /\ desk[c].step = "pair"
  /\ rentalFree(r)
  /\ depositHeld(r)
  /\ desk' = [desk EXCEPT ![c].step = "priced",
                          ![c].balance = balanceOf(Deposit[r], deducted[r])]
  /\ UNCHANGED <<logVars, depositPaid, moneyVars, rejections, billVars>>

\* Mutant of approveRefused: an unpaid deposit is waited for, not refused.
approveWaitsForDeposit(c) ==
  LET l == desk[c].log
      m == desk[c].counterpart
  IN  /\ \/ desk[c].step = "read" /\ reconFree(l) /\ ~unapproved(l)
         \/ desk[c].step = "own" /\ reconFree(m) /\ ~unapproved(m)
      /\ desk' = [desk EXCEPT ![c] = NoRequest]
      /\ UNCHANGED <<logVars, depositPaid, moneyVars, rejections, billVars>>

\* A check fails: the transaction rolls back and every lock is released.
approveRefused(c) ==
  LET l == desk[c].log
      m == desk[c].counterpart
  IN  /\ \/ desk[c].step = "read" /\ reconFree(l) /\ ~unapproved(l)
         \/ /\ desk[c].step = "own" /\ reconFree(m)
            /\ \/ ~unapproved(m)
               \/ modelSourced(l, m) /\ ~flags.attested
               \/ l \in Unpriced
         \/ desk[c].step = "pair" /\ rentalFree(RentalOf[l]) /\ ~depositHeld(RentalOf[l])
      /\ desk' = [desk EXCEPT ![c] = NoRequest]
      /\ UNCHANGED <<logVars, depositPaid, moneyVars, rejections, billVars>>

\* The hours approve bills: the reviewer's correction, else those recorded.
billableHours(c) ==
  IF desk[c].adjustments # None
    THEN desk[c].adjustments.active
    ELSE edtr[desk[c].log].items.active

\* Mutant of charge: the reviewer's correction reaches the runtime alone.
chargeRecorded(c) == edtr[desk[c].log].items.active * Rate[desk[c].log]

charge(c) == billableHours(c) * Rate[desk[c].log]

splitOf(c) == splitDeduction(desk[c].balance, charge(c))

\* deposit_accruals.reconciliation_id is UNIQUE: a second accrual of a row fails
\* the transaction.
accrualClashes(c) == splitOf(c).accrued > 0 /\ accruals[desk[c].log] # NoAccrual

approveRolledBack(c) ==
  /\ desk[c].step = "priced"
  /\ accrualClashes(c)
  /\ desk' = [desk EXCEPT ![c] = NoRequest]
  /\ UNCHANGED <<logVars, depositPaid, moneyVars, rejections, billVars>>

\* Price, deduct or accrue, warn, flip both rows, accrue runtime; COMMIT.
approveCommit(c) ==
  LET l == desk[c].log
      m == desk[c].counterpart
      r == RentalOf[l]
      split == splitOf(c)
  IN  /\ desk[c].step = "priced"
      /\ ~accrualClashes(c)
      /\ deducted' = [deducted EXCEPT ![r] = @ + split.deducted]
      /\ accruals' = IF split.accrued > 0
                       THEN [accruals EXCEPT ![l] = [amount |-> split.accrued, billed |-> FALSE]]
                       ELSE accruals
      /\ lowWarnings' = IF crossesLowBalance(Deposit[r], desk[c].balance,
                                             split.balanceAfter, LowBalancePct)
                          THEN [lowWarnings EXCEPT ![r] = @ + 1]
                          ELSE lowWarnings
      /\ recon' = [x \in Log |-> IF x = l \/ (x = m /\ recon[x].status # "absent")
                                   THEN [recon[x] EXCEPT !.status = "approved"]
                                   ELSE recon[x]]
      /\ edtr' = IF desk[c].adjustments # None
                   THEN [edtr EXCEPT ![l].items = desk[c].adjustments]
                   ELSE edtr
      /\ approvals' = [approvals EXCEPT ![l] = @ + 1]
      /\ runtime' = [runtime EXCEPT ![UnitOf[l]] = @ + billableHours(c)]
      /\ desk' = [desk EXCEPT ![c] = NoRequest]
      /\ UNCHANGED <<flags, intake, depositPaid, rejections, billVars>>

-----------------------------------------------------------------------------
(* Rejection reads without a lock; its UPDATE waits for one.                *)

rejectRead(c) ==
  /\ desk[c].step = "idle"
  /\ \E l \in Log :
       /\ recon[l].status \in {"pending", "matched", "discrepancy"}
       /\ desk' = [desk EXCEPT ![c] = [NoRequest EXCEPT !.step = "rejecting", !.log = l]]
  /\ UNCHANGED <<logVars, depositPaid, moneyVars, rejections, billVars>>

rejectCommit(c) ==
  LET l == desk[c].log IN
  /\ desk[c].step = "rejecting"
  /\ reconFree(l)
  /\ recon' = [recon EXCEPT ![l].status = "rejected"]
  /\ rejections' = rejections \cup {l}
  /\ desk' = [desk EXCEPT ![c] = NoRequest]
  /\ UNCHANGED <<flags, edtr, intake, depositPaid, moneyVars, billVars>>

-----------------------------------------------------------------------------
(* The payments module settles a deposit or booking invoice of the rental.  *)
settleDeposit(r) ==
  /\ ~depositPaid[r]
  /\ depositPaid' = [depositPaid EXCEPT ![r] = TRUE]
  /\ UNCHANGED <<logVars, desk, moneyVars, rejections, billVars>>

\* Mutant of unbilled: an accrual of less than an hour is left for later.
unbilledHours(r) == {l \in Log : RentalOf[l] = r /\ accruals[l].amount >= Rate[l] /\ ~accruals[l].billed}

\* Weekly billing: the accruals of a rental that no invoice carries yet.
unbilled(r) == {l \in Log : RentalOf[l] = r /\ accruals[l].amount > 0 /\ ~accruals[l].billed}

\* No other run holds the row locks of the rental's unbilled accruals.
rowsFree(r) == \A b \in BillingRun : billing[b].rows \cap unbilled(r) = {}

\* FOR UPDATE on the unbilled rows; a run that meets another's locks waits and
\* then no longer finds those rows unbilled.
billLock(b) ==
  /\ billing[b] = NoBilling
  /\ \E r \in Rental :
       /\ unbilled(r) # {}
       /\ rowsFree(r)
       /\ billing' = [billing EXCEPT ![b] = [rental |-> r, rows |-> unbilled(r)]]
  /\ UNCHANGED <<logVars, desk, depositPaid, moneyVars, rejections, weekly>>

\* Mutant of billCommit: it stamps every row unbilled by then, not those it read.
billCommitStampsAll(b) ==
  /\ billing[b] # NoBilling
  /\ weekly' = [l \in Log |-> IF l \in billing[b].rows THEN weekly[l] + 1 ELSE weekly[l]]
  /\ accruals' = [l \in Log |-> IF l \in unbilled(billing[b].rental)
                                  THEN [accruals[l] EXCEPT !.billed = TRUE] ELSE accruals[l]]
  /\ billing' = [billing EXCEPT ![b] = NoBilling]
  /\ UNCHANGED <<logVars, desk, depositPaid, deducted, approvals, lowWarnings,
                 runtime, rejections>>

\* One weekly invoice with a line for each row read; the rows are stamped with it.
billCommit(b) ==
  /\ billing[b] # NoBilling
  /\ weekly' = [l \in Log |-> IF l \in billing[b].rows THEN weekly[l] + 1 ELSE weekly[l]]
  /\ accruals' = [l \in Log |-> IF l \in billing[b].rows
                                  THEN [accruals[l] EXCEPT !.billed = TRUE] ELSE accruals[l]]
  /\ billing' = [billing EXCEPT ![b] = NoBilling]
  /\ UNCHANGED <<logVars, desk, depositPaid, deducted, approvals, lowWarnings,
                 runtime, rejections>>

-----------------------------------------------------------------------------
\* Everything has been captured and no transaction is open.
finished ==
  /\ \A l \in Log : edtr[l].status \notin {"absent", "queued"} /\ intake[l] = NoIntake
  /\ \A c \in Clerk : desk[c] = NoRequest
  /\ \A b \in BillingRun : billing[b] = NoBilling
  /\ UNCHANGED vars

Next ==
  \/ \E l \in Log : \/ captureWithItems(l) \/ captureSheet(l)
                    \/ extractSheet(l) \/ extractionFails(l) \/ reconcileCommit(l)
  \/ \E c \in Clerk : \/ approveRead(c) \/ approveLockOwn(c) \/ approveLockCounterpart(c)
                      \/ approveLockRental(c) \/ approveRefused(c)
                      \/ approveRolledBack(c) \/ approveCommit(c)
                      \/ rejectRead(c) \/ rejectCommit(c)
  \/ \E r \in Rental : settleDeposit(r)
  \/ \E b \in BillingRun : billLock(b) \/ billCommit(b)
  \/ finished

Spec == Init /\ [][Next]_vars

\* An open transaction runs on.  Postgres queues the waiters of a row lock, so
\* a request is not overtaken for ever: strong fairness on the locking steps.
\* The billing job is on a weekly schedule.
Fairness ==
  /\ \A l \in Log : WF_vars(reconcileCommit(l))
  /\ \A c \in Clerk : /\ SF_vars(approveLockOwn(c)) /\ SF_vars(approveLockCounterpart(c))
                      /\ SF_vars(approveLockRental(c)) /\ SF_vars(approveRefused(c))
                      /\ WF_vars(approveCommit(c) \/ approveRolledBack(c)) /\ SF_vars(rejectCommit(c))
  /\ \A b \in BillingRun : WF_vars(billLock(b)) /\ WF_vars(billCommit(b))

FairSpec == Spec /\ Fairness

-----------------------------------------------------------------------------
(* Properties.                                                              *)

EdtrRow == [status : EdtrStatus, items : Reading \cup {None}, payload : Payload,
            confidence : Confidence \cup {100}, held : BOOLEAN]
ReconRow == [status : ReconStatus, counterpart : Log \cup {None}]
IntakeRow == [step : {"idle", "reconciled"}, items : Reading \cup {None}, payload : Payload,
              confidence : Confidence \cup {100}, held : BOOLEAN,
              counterpart : Log \cup {None}, verdict : {"pending", "matched", "discrepancy"}]
Request == [step : {"idle", "read", "own", "pair", "priced", "rejecting"},
            log : Log \cup {None}, counterpart : Log \cup {None},
            adjustments : Reading \cup {None}, balance : Nat]
AccrualRow == [amount : Nat, billed : BOOLEAN]
Billing == [rental : Rental \cup {None}, rows : SUBSET Log]

\* Every variable has its type, and a verdict is never anything but a status a
\* reconciliation row may take.
TypeOK ==
  /\ flags \in Flags
  /\ edtr \in [Log -> EdtrRow]
  /\ recon \in [Log -> ReconRow]
  /\ intake \in [Log -> IntakeRow]
  /\ desk \in [Clerk -> Request]
  /\ depositPaid \in [Rental -> BOOLEAN]
  /\ deducted \in [Rental -> Nat]
  /\ accruals \in [Log -> AccrualRow]
  /\ approvals \in [Log -> Nat]
  /\ rejections \subseteq Log
  /\ lowWarnings \in [Rental -> Nat]
  /\ runtime \in [Unit -> Nat]
  /\ weekly \in [Log -> Nat]
  /\ billing \in [BillingRun -> Billing]

\* The deposit is never over-drawn, however many pairs of a rental are approved
\* at once: the FOR UPDATE on the rental in approve (edtr.service.ts:632-634).
DepositNotOverdrawn == \A r \in Rental : deducted[r] <= Deposit[r]

\* The customer is charged past the deposit only once the deposit is used up:
\* an accrual exists only for a rental whose deposit has been drawn to zero.
AccrualOnlyPastDeposit ==
  \A l \in Log : accruals[l].amount > 0 => deducted[RentalOf[l]] = Deposit[RentalOf[l]]

\* No money is drawn or accrued before the rental's deposit is paid.
NoChargeBeforeDeposit ==
  \A l \in Log : approvals[l] > 0 => depositPaid[RentalOf[l]]

\* A reconciliation row that nobody rejected is charged at most once, whatever
\* mix of replayed and racing approvals it sees.
RowChargedOnce == \A l \in Log \ rejections : approvals[l] <= 1

\* The logs a charge rests on: the row's own and its counterpart.
evidence(l) == {l, recon[l].counterpart} \ {None}

\* A log that has been reconciled and never rejected supports at most one
\* charge: approving either side of a pair, or a later log paired with one of
\* them, never bills the same hours again.
EvidenceChargedOnce ==
  \A l, m \in Log : \A x \in evidence(l) \cap evidence(m) :
    /\ recon[x].status # "absent" /\ x \notin rejections
    /\ approvals[l] > 0 /\ approvals[m] > 0
    => l = m

\* The low-balance warning is sent once a rental, though the balance may be read
\* by several approvals at once ("so each rental warns once").
WarnedOnce == \A r \in Rental : lowWarnings[r] <= 1

\* A request waits for the requests that have locked the row it needs next.
waitsOn(c, d) ==
  \/ desk[c].step \in {"read", "rejecting"} /\ holdsRecon(d, desk[c].log)
  \/ desk[c].step = "own" /\ holdsRecon(d, desk[c].counterpart)
  \/ desk[c].step = "pair" /\ holdsRental(d, RentalOf[desk[c].log])

\* No number of requests ever wait for one another, in a circle of any length: a
\* counterpart's row is older than the row that names it, so own row, then
\* counterpart, then rental (edtr.service.ts:463-634) is an order of locking.
NoLockCycle ==
  \A S \in (SUBSET Clerk) \ {{}} : \E c \in S : \A d \in S : ~waitsOn(c, d)

\* What was accrued is either unbilled or on exactly one weekly invoice line:
\* overlapping billing runs never bill a row twice or drop one.
AccrualsBilledExactly ==
  \A l \in Log : weekly[l] = IF accruals[l].billed THEN 1 ELSE 0

\* A charge that no reviewer corrected is for hours a second, independent log
\* agreed with: on a commit without adjustments the two logs' readings as they
\* then stand are within tolerance and were read with enough confidence.
UncorrectedChargeAgreed ==
  [][\A c \in Clerk :
       approveCommit(c) /\ desk[c].adjustments = None /\ rejections = {} =>
         LET l == desk[c].log
             m == desk[c].counterpart
         IN  /\ m # None /\ Source[l] # Source[m]
             /\ edtr[m].items # None
             /\ GATE!distance(edtr[l].items.active, edtr[m].items.active) <= Tolerance
             /\ \A x \in {l, m} : edtr[x].payload = "model" => edtr[x].confidence >= CONFIDENCE_GATE
    ]_vars

\* Model output moves money only under an attested accuracy (QAD-T39), on
\* either side of the pair.
ModelChargeAttested ==
  \A l \in Log : approvals[l] > 0 =>
    \A x \in evidence(l) : edtr[x].payload = "model" => flags.attested

\* Every approval or rejection request ends: locks are released on every path.
RequestsEnd == \A c \in Clerk : desk[c].step # "idle" ~> desk[c].step = "idle"

\* Every accrual reaches a weekly invoice.
AccrualsBilledEventually ==
  \A l \in Log : accruals[l].amount > 0 ~> accruals[l].billed
=============================================================================
