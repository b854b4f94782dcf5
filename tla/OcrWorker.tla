------------------------------ MODULE OcrWorker ------------------------------
(***************************************************************************)
(* runEdtrOcrWorker: the scheduled job that reads captured sheets.  A run   *)
(* first takes back sheets whose lock went stale, then claims a batch of    *)
(* the oldest queued ones, then works through the batch: it fetches and     *)
(* analyses each sheet outside any transaction and writes the result in     *)
(* one.  A run can die anywhere (a crash, a deploy, the replica timeout),   *)
(* and the job is the only thing that ever looks at a sheet left behind.    *)
(*                                                                          *)
(* Time is counted in ticks: locked_at is the age of the lock, and a        *)
(* replica is killed when its run has lasted RunTimeout.                    *)
(***************************************************************************)
EXTENDS Naturals, FiniteSets

CONSTANTS
  NSheet,       \* how many sheets are captured (bound)
  Replica,      \* runs of the job that can be alive at once
  MaxAttempts,  \* MAX_ATTEMPTS
  BatchSize,    \* CLAIM_BATCH_SIZE
  StaleLock,    \* STALE_LOCK_MS
  RunTimeout    \* replica_timeout_in_seconds of the job

ASSUME NSheetAssumption == NSheet \in Nat
ASSUME MaxAttemptsAssumption == MaxAttempts \in Nat \ {0}
ASSUME BatchSizeAssumption == BatchSize \in Nat \ {0}
ASSUME StaleLockAssumption == StaleLock \in Nat
ASSUME RunTimeoutAssumption == RunTimeout \in Nat /\ RunTimeout <= StaleLock

Sheet == 1..NSheet                \* in the order of created_at

VARIABLES
  configured,   \* ENABLE_OCR_PIPELINE is on and extraction is available
  edtr,         \* [status, attempts, locked] of each sheet's row
  age,          \* how long ago locked_at was stamped; 0 when there is no lock
  entered,      \* transactions that entered the sheet's days and hours
  faults,       \* failed analyses of the sheet, and replicas that died holding it
  replica       \* [step, batch, ran] of each replica; the batch holds the rows as
                \*   they were claimed: [sheet, attempts]

vars == <<configured, edtr, age, entered, faults, replica>>
rowVars == <<edtr, age, entered, faults>>

Captured == [status |-> "queued", attempts |-> 0, locked |-> FALSE]
NoRun == [step |-> "idle", batch |-> {}, ran |-> 0]

Init ==
  /\ configured \in BOOLEAN
  /\ edtr = [s \in Sheet |-> Captured]
  /\ age = [s \in Sheet |-> 0]
  /\ entered = [s \in Sheet |-> 0] /\ faults = [s \in Sheet |-> 0]
  /\ replica = [w \in Replica |-> NoRun]

alive(w) == replica[w].step # "idle"
holds(w, s) == \E c \in replica[w].batch : c.sheet = s

-----------------------------------------------------------------------------
(* The run.                                                                  *)

\* An operator turns the pipeline on or off, or its credentials come or go.
configure ==
  /\ configured' = ~configured
  /\ UNCHANGED <<rowVars, replica>>

\* Mutant of stale: a lock is taken back without a look at its age.
anyLock(s) == edtr[s].status = "extracting"

\* Mutant of stale: the lock's limit is shorter than a run may last.
hastyLock(s) == edtr[s].status = "extracting" /\ age[s] >= RunTimeout

stale(s) == edtr[s].status = "extracting" /\ age[s] > StaleLock

\* Mutant of reclaimed: the lock is left on the row.
reclaimedLocked(row) == [row EXCEPT !.status = "queued", !.attempts = @ + 1]

\* The reaper burns an attempt, whatever it was.
reclaimed(row) == 
  [status |-> "queued", attempts |-> row.attempts + 1, locked |-> FALSE]

\* The schedule starts a run, which does nothing unless the pipeline is
\* configured; its first statement reclaims every stale sheet.
reap(w) ==
  /\ ~alive(w) /\ configured
  /\ edtr' = [s \in Sheet |-> IF stale(s) THEN reclaimed(edtr[s]) ELSE edtr[s]]
  /\ age' = [s \in Sheet |-> IF stale(s) THEN 0 ELSE age[s]]
  /\ replica' = [replica EXCEPT ![w] = [NoRun EXCEPT !.step = "reaped"]]
  /\ UNCHANGED <<configured, entered, faults>>

\* Mutant of claimable: any row without a lock.
unlocked(s) == ~edtr[s].locked /\ edtr[s].attempts < MaxAttempts

claimable(s) ==
  edtr[s].status = "queued" /\ ~edtr[s].locked /\ edtr[s].attempts < MaxAttempts

\* The oldest claimable sheets, as many as a batch takes.
oldest == {s \in Sheet : claimable(s) /\ Cardinality({x \in 1..s : claimable(x)}) <= BatchSize}

\* FOR UPDATE SKIP LOCKED: two claims never take the same sheet.
claim(w) ==
  /\ replica[w].step = "reaped"
  /\ edtr' = [s \in Sheet |->
       IF s \in oldest THEN [edtr[s] EXCEPT !.status = "extracting", !.locked = TRUE]
       ELSE edtr[s]]
  /\ age' = [s \in Sheet |-> IF s \in oldest THEN 0 ELSE age[s]]
  /\ replica' = [replica EXCEPT
       ![w] = [@ EXCEPT !.step = "working",
                        !.batch = {[sheet |-> s, attempts |-> edtr[s].attempts] : s \in oldest}]]
  /\ UNCHANGED <<configured, entered, faults>>

\* The row of claim c is written by id, without a look at what it is now.
writes(w, c, row) ==
  /\ edtr' = [edtr EXCEPT ![c.sheet] = row]
  /\ age' = [age EXCEPT ![c.sheet] = 0]
  /\ replica' = [replica EXCEPT ![w].batch = @ \ {c}]

ended(status, n) == [status |-> status, attempts |-> n, locked |-> FALSE]

\* The sheet was read: one transaction enters every day of it, and its rows are
\* reconciled at once (EdtrApproval), or held for a person.
enterSheet(w) ==
  /\ \E c \in replica[w].batch, status \in {"reconciled", "review"} :
       /\ writes(w, c, ended(status, edtr[c.sheet].attempts))
       /\ entered' = [entered EXCEPT ![c.sheet] = @ + 1]
  /\ UNCHANGED <<configured, faults>>

\* There is no file, or the sheet cannot be read in full.
refuseSheet(w) ==
  /\ \E c \in replica[w].batch :
       writes(w, c, ended("hard_failed", edtr[c.sheet].attempts))
  /\ UNCHANGED <<configured, entered, faults>>

afterFailure(n) == IF n >= MaxAttempts THEN "review" ELSE "queued"

\* Fetching, analysing or entering the sheet threw.  The attempts written are
\* those of the claimed copy.
failSheet(w) ==
  /\ \E c \in replica[w].batch :
       /\ writes(w, c, ended(afterFailure(c.attempts + 1), c.attempts + 1))
       /\ faults' = [faults EXCEPT ![c.sheet] = @ + 1]
  /\ UNCHANGED <<configured, entered>>

finishRun(w) ==
  /\ replica[w].step = "working" /\ replica[w].batch = {}
  /\ replica' = [replica EXCEPT ![w] = NoRun]
  /\ UNCHANGED <<configured, rowVars>>

work(w) == enterSheet(w) \/ refuseSheet(w) \/ failSheet(w) \/ finishRun(w)

-----------------------------------------------------------------------------
(* Time and death.                                                           *)

\* The process is gone: nothing it has not committed remains, and nobody is told.
dies(w) ==
  /\ alive(w)
  /\ faults' = [s \in Sheet |-> faults[s] + IF holds(w, s) THEN 1 ELSE 0]
  /\ replica' = [replica EXCEPT ![w] = NoRun]
  /\ UNCHANGED <<configured, edtr, age, entered>>

outOfTime(w) == alive(w) /\ replica[w].ran >= RunTimeout

\* The platform kills a run that has used its time up.
timeOut(w) == outOfTime(w) /\ dies(w)

\* Ages past the stale limit need no telling apart.
older(n) == IF n > StaleLock THEN n ELSE n + 1

tick ==
  /\ \A w \in Replica : ~outOfTime(w)
  /\ age' = [s \in Sheet |-> IF edtr[s].locked THEN older(age[s]) ELSE age[s]]
  /\ replica' = [w \in Replica |->
       IF alive(w) THEN [replica[w] EXCEPT !.ran = @ + 1] ELSE replica[w]]
  /\ UNCHANGED <<configured, edtr, entered, faults>>

Next ==
  \/ configure \/ tick
  \/ \E w \in Replica : \/ reap(w) \/ claim(w) \/ enterSheet(w) \/ refuseSheet(w)
                        \/ failSheet(w) \/ finishRun(w) \/ dies(w)

Spec == Init /\ [][Next]_vars

\* The schedule goes on starting runs, a live run works on, time passes, and
\* the platform kills what has run too long.  Not every run dies between its
\* first two statements: strong fairness on the claim.
Fairness ==
  /\ WF_vars(tick)
  /\ \A w \in Replica : WF_vars(reap(w)) /\ SF_vars(claim(w)) /\ WF_vars(work(w))
                        /\ WF_vars(timeOut(w))

FairSpec == Spec /\ Fairness

-----------------------------------------------------------------------------
(* Properties.                                                               *)

Status == {"queued", "extracting", "reconciled", "review", "hard_failed"}
Claim == [sheet : Sheet, attempts : Nat]

\* The variables have their types; only a working replica has a batch.
TypeOK ==
  /\ configured \in BOOLEAN
  /\ edtr \in [Sheet -> [status : Status, attempts : Nat, locked : BOOLEAN]]
  /\ age \in [Sheet -> Nat]
  /\ entered \in [Sheet -> Nat] /\ faults \in [Sheet -> Nat]
  /\ replica \in [Replica -> [step : {"idle", "reaped", "working"},
                              batch : SUBSET Claim, ran : Nat]]

\* The lock is never stolen from a live replica: every sheet in its batch is
\* still marked and locked, and in nobody else's batch.
LockHeld ==
  \A w \in Replica, s \in Sheet : holds(w, s) =>
    /\ edtr[s].status = "extracting" /\ edtr[s].locked
    /\ \A v \in Replica \ {w} : ~holds(v, s)

\* The hours of a sheet are entered once, and a sheet whose hours are entered
\* is never queued again, whoever dies and whatever is claimed anew.
EnteredOnce ==
  \A s \in Sheet :
    entered[s] <= 1 /\ (entered[s] = 1 => edtr[s].status \in {"reconciled", "review"})

\* A capture is not used up for reasons that have nothing to do with it: every
\* attempt was a failed analysis of the sheet or a replica that died with it.
AttemptsOnlyByFaults == \A s \in Sheet : edtr[s].attempts <= faults[s]

\* To whoever captured it a sheet is waiting until it ends.
outcomeOf(s) ==
  CASE edtr[s].status \in {"queued", "extracting"} -> "waiting"
    [] edtr[s].status = "hard_failed" -> "refused"
    [] OTHER -> IF entered[s] = 0 THEN "handed over" ELSE "read"

Capture == INSTANCE SheetCapture
             WITH outcome <- [s \in Sheet |-> outcomeOf(s)], hours <- entered

\* The worker implements SheetCapture: a sheet has one outcome, once.
CaptureSpec == Capture!Spec

spent(s) == edtr[s].status = "queued" /\ edtr[s].attempts >= MaxAttempts
ends(s) == edtr[s].status \in {"reconciled", "review", "hard_failed"}

\* Once the pipeline stays on, every sheet is read, refused, handed to a
\* person or has no attempts left, however often replicas die.
SheetsEnd == <>[]configured => \A s \in Sheet : <>(ends(s) \/ spent(s))
=============================================================================
