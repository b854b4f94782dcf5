--------------------------- MODULE OcrWorker_proofs ---------------------------
(***************************************************************************)
(* The safety of the OCR worker for any number of sheets and replicas, any   *)
(* batch size and any limits with RunTimeout <= StaleLock: locks are never   *)
(* stolen from a live run, hours are entered once, attempts are only burnt   *)
(* by faults, the worker implements SheetCapture, and no sheet is stranded   *)
(* or given up early.                                                        *)
(***************************************************************************)
EXTENDS OcrWorker, TLAPS

\* What a claimed copy still says of its row, and how old its lock can be.
Owned ==
  \A w \in Replica : \A c \in replica[w].batch :
    /\ edtr[c.sheet].status = "extracting" /\ edtr[c.sheet].locked
    /\ edtr[c.sheet].attempts = c.attempts
    /\ age[c.sheet] <= replica[w].ran

Disjoint ==
  \A w, v \in Replica : w # v =>
    \A c \in replica[w].batch, d \in replica[v].batch : c.sheet # d.sheet

Timely ==
  \A w \in Replica :
    /\ replica[w].ran <= RunTimeout
    /\ replica[w].step # "working" => replica[w].batch = {}

\* Nothing is entered before the sheet has ended.
EnteredAtEnd ==
  \A s \in Sheet :
    /\ entered[s] <= 1
    /\ edtr[s].status \in {"queued", "extracting", "hard_failed"} => entered[s] = 0

\* A sheet that nobody alive holds has been counted for its dead holder.
FaultsAhead ==
  \A s \in Sheet :
    /\ edtr[s].attempts <= faults[s]
    /\ (edtr[s].status = "extracting" /\ \A w \in Replica : ~holds(w, s))
         => edtr[s].attempts + 1 <= faults[s]

IInv == TypeOK /\ Owned /\ Disjoint /\ Timely /\ EnteredAtEnd /\ FaultsAhead

LEMMA InitIInv == Init => IInv
<1> SUFFICES ASSUME Init PROVE IInv
  OBVIOUS
<1>1. TypeOK
  BY DEF Init, TypeOK, Captured, NoRun, Status
<1>2. Owned /\ Disjoint
  BY DEF Init, Owned, Disjoint, NoRun
<1>3. Timely
  BY RunTimeoutAssumption DEF Init, Timely, NoRun
<1>4. EnteredAtEnd /\ FaultsAhead
  BY DEF Init, EnteredAtEnd, FaultsAhead, Captured
<1> QED
  BY <1>1, <1>2, <1>3, <1>4 DEF IInv

LEMMA ConfigureIInv == IInv /\ configure => IInv'
BY DEF IInv, configure, rowVars, TypeOK, Owned, Disjoint, Timely, EnteredAtEnd, FaultsAhead, holds

\* A sheet in a live batch is not stale, for its lock is younger than the run.
LEMMA HeldNotStale ==
  ASSUME IInv, NEW w \in Replica, NEW c \in replica[w].batch
  PROVE  c.sheet \in Sheet /\ ~stale(c.sheet)
<1>1. c.sheet \in Sheet
  BY DEF IInv, TypeOK, Claim
<1>2. age[c.sheet] <= replica[w].ran /\ replica[w].ran <= RunTimeout
  BY DEF IInv, Owned, Timely
<1>3. age[c.sheet] \in Nat /\ replica[w].ran \in Nat
  BY <1>1 DEF IInv, TypeOK
<1> QED
  BY <1>1, <1>2, <1>3, RunTimeoutAssumption, StaleLockAssumption DEF stale

LEMMA ReapIInv == ASSUME IInv, NEW w \in Replica, reap(w) PROVE IInv'
<1> USE DEF IInv
<1>1. \A s \in Sheet : stale(s) =>
        /\ edtr'[s].status = "queued" /\ edtr'[s].attempts = edtr[s].attempts + 1
        /\ edtr'[s].locked = FALSE /\ age'[s] = 0 /\ edtr[s].status = "extracting"
  BY DEF reap, reclaimed, stale
<1>2. \A s \in Sheet : ~stale(s) => edtr'[s] = edtr[s] /\ age'[s] = age[s]
  BY DEF reap
<1>3. \A v \in Replica : replica'[v].batch = replica[v].batch
  <2> TAKE v \in Replica
  <2>1. CASE v = w
    <3>1. replica[w].batch = {}
      BY DEF Timely, reap, alive
    <3> QED
      BY <2>1, <3>1 DEF reap, TypeOK, NoRun
  <2>2. CASE v # w
    BY <2>2 DEF reap, TypeOK
  <2> QED
    BY <2>1, <2>2
<1>4. \A v \in Replica \ {w} : replica'[v] = replica[v]
  BY DEF reap, TypeOK
<1>5. replica'[w].ran = 0 /\ replica'[w].step = "reaped" /\ replica'[w].batch = {}
  BY DEF reap, TypeOK, NoRun
<1>6. TypeOK'
  <2>1. edtr' \in [Sheet -> [status : Status, attempts : Nat, locked : BOOLEAN]]
    BY DEF reap, reclaimed, TypeOK, Status
  <2>2. age' \in [Sheet -> Nat]
    BY DEF reap, TypeOK
  <2>3. replica' \in [Replica -> [step : {"idle", "reaped", "working"},
                                  batch : SUBSET Claim, ran : Nat]]
    BY DEF reap, TypeOK, NoRun
  <2> QED
    BY <2>1, <2>2, <2>3 DEF reap, TypeOK
<1>7. Owned'
  <2> SUFFICES ASSUME NEW v \in Replica, NEW c \in replica'[v].batch
               PROVE  /\ edtr'[c.sheet].status = "extracting" /\ edtr'[c.sheet].locked
                      /\ edtr'[c.sheet].attempts = c.attempts
                      /\ age'[c.sheet] <= replica'[v].ran
    BY DEF Owned
  <2>1. v # w
    BY <1>5
  <2>2. c \in replica[v].batch
    BY <1>3
  <2>3. c.sheet \in Sheet /\ ~stale(c.sheet)
    BY <2>2, HeldNotStale
  <2> QED
    BY <2>1, <2>2, <2>3, <1>2, <1>4 DEF Owned
<1>8. Disjoint'
  BY <1>3 DEF Disjoint
<1>9. Timely'
  <2> SUFFICES ASSUME NEW v \in Replica
               PROVE  /\ replica'[v].ran <= RunTimeout
                      /\ replica'[v].step # "working" => replica'[v].batch = {}
    BY DEF Timely
  <2> QED
    BY <1>4, <1>5, RunTimeoutAssumption DEF Timely
<1>10. EnteredAtEnd'
  <2> SUFFICES ASSUME NEW s \in Sheet
               PROVE  /\ entered'[s] <= 1
                      /\ edtr'[s].status \in {"queued", "extracting", "hard_failed"}
                           => entered'[s] = 0
    BY DEF EnteredAtEnd
  <2>1. entered' = entered
    BY DEF reap
  <2> QED
    BY <2>1, <1>1, <1>2 DEF EnteredAtEnd
<1>11. FaultsAhead'
  <2> SUFFICES ASSUME NEW s \in Sheet
               PROVE  /\ edtr'[s].attempts <= faults'[s]
                      /\ (edtr'[s].status = "extracting" /\ \A v \in Replica : ~holds(v, s)')
                           => edtr'[s].attempts + 1 <= faults'[s]
    BY DEF FaultsAhead
  <2>1. faults' = faults
    BY DEF reap
  <2>2. \A v \in Replica : holds(v, s)' <=> holds(v, s)
    BY <1>3 DEF holds
  <2>3. CASE stale(s)
    <3>1. \A v \in Replica : ~holds(v, s)
      BY <2>3, HeldNotStale DEF holds
    <3>2. edtr[s].attempts + 1 <= faults[s]
      BY <2>3, <3>1, <1>1 DEF FaultsAhead
    <3> QED
      BY <2>1, <2>3, <3>2, <1>1
  <2>4. CASE ~stale(s)
    BY <2>1, <2>2, <2>4, <1>2 DEF FaultsAhead
  <2> QED
    BY <2>3, <2>4
<1> QED
  BY <1>6, <1>7, <1>8, <1>9, <1>10, <1>11

LEMMA ClaimIInv == ASSUME IInv, NEW w \in Replica, claim(w) PROVE IInv'
<1> USE DEF IInv
<1>1. \A s \in oldest : s \in Sheet /\ edtr[s].status = "queued"
  BY DEF oldest, claimable
<1>2. \A s \in oldest :
        /\ edtr'[s].status = "extracting" /\ edtr'[s].locked
        /\ edtr'[s].attempts = edtr[s].attempts /\ age'[s] = 0
  BY <1>1 DEF claim, TypeOK
<1>3. \A s \in Sheet : s \notin oldest => edtr'[s] = edtr[s] /\ age'[s] = age[s]
  BY DEF claim, TypeOK
<1>4. \A v \in Replica \ {w} : replica'[v] = replica[v]
  BY DEF claim, TypeOK
<1>5. /\ replica'[w].batch = {[sheet |-> s, attempts |-> edtr[s].attempts] : s \in oldest}
      /\ replica'[w].step = "working" /\ replica'[w].ran = replica[w].ran
  BY DEF claim, TypeOK
<1>6. \A v \in Replica : \A c \in replica[v].batch : c.sheet \in Sheet /\ c.sheet \notin oldest
  BY <1>1 DEF Owned, TypeOK, Claim
<1>7. TypeOK'
  <2>1. edtr' \in [Sheet -> [status : Status, attempts : Nat, locked : BOOLEAN]]
    BY DEF claim, TypeOK, Status
  <2>2. age' \in [Sheet -> Nat]
    BY DEF claim, TypeOK
  <2>3. replica'[w].batch \subseteq Claim
    BY <1>1, <1>5 DEF TypeOK, Claim
  <2>4. replica' \in [Replica -> [step : {"idle", "reaped", "working"},
                                  batch : SUBSET Claim, ran : Nat]]
    BY <2>3, <1>5 DEF claim, TypeOK
  <2> QED
    BY <2>1, <2>2, <2>4 DEF claim, TypeOK
<1>8. Owned'
  <2> SUFFICES ASSUME NEW v \in Replica, NEW c \in replica'[v].batch
               PROVE  /\ edtr'[c.sheet].status = "extracting" /\ edtr'[c.sheet].locked
                      /\ edtr'[c.sheet].attempts = c.attempts
                      /\ age'[c.sheet] <= replica'[v].ran
    BY DEF Owned
  <2>1. CASE v = w
    <3>1. PICK s \in oldest : c = [sheet |-> s, attempts |-> edtr[s].attempts]
      BY <2>1, <1>5
    <3>2. c.sheet = s /\ c.attempts = edtr[s].attempts
      BY <3>1
    <3> QED
      BY <2>1, <3>2, <1>2, <1>5 DEF TypeOK
  <2>2. CASE v # w
    <3>1. c \in replica[v].batch
      BY <2>2, <1>4
    <3> QED
      BY <2>2, <3>1, <1>3, <1>4, <1>6 DEF Owned
  <2> QED
    BY <2>1, <2>2
<1>9. Disjoint'
  <2> SUFFICES ASSUME NEW u \in Replica, NEW v \in Replica, u # v,
                      NEW c \in replica'[u].batch, NEW d \in replica'[v].batch
               PROVE  c.sheet # d.sheet
    BY DEF Disjoint
  <2>1. \A e \in replica'[w].batch : e.sheet \in oldest
    BY <1>5
  <2>2. \A x \in Replica \ {w} : \A e \in replica'[x].batch : e \in replica[x].batch /\ e.sheet \notin oldest
    BY <1>4, <1>6
  <2>3. CASE u = w
    BY <2>1, <2>2, <2>3
  <2>4. CASE v = w
    BY <2>1, <2>2, <2>4
  <2>5. CASE u # w /\ v # w
    BY <2>2, <2>5 DEF Disjoint
  <2> QED
    BY <2>3, <2>4, <2>5
<1>10. Timely'
  <2> SUFFICES ASSUME NEW v \in Replica
               PROVE  /\ replica'[v].ran <= RunTimeout
                      /\ replica'[v].step # "working" => replica'[v].batch = {}
    BY DEF Timely
  <2> QED
    BY <1>4, <1>5 DEF Timely
<1>11. EnteredAtEnd'
  <2> SUFFICES ASSUME NEW s \in Sheet
               PROVE  /\ entered'[s] <= 1
                      /\ edtr'[s].status \in {"queued", "extracting", "hard_failed"}
                           => entered'[s] = 0
    BY DEF EnteredAtEnd
  <2>1. entered' = entered
    BY DEF claim
  <2> QED
    BY <2>1, <1>1, <1>3 DEF EnteredAtEnd
<1>12. FaultsAhead'
  <2> SUFFICES ASSUME NEW s \in Sheet
               PROVE  /\ edtr'[s].attempts <= faults'[s]
                      /\ (edtr'[s].status = "extracting" /\ \A v \in Replica : ~holds(v, s)')
                           => edtr'[s].attempts + 1 <= faults'[s]
    BY DEF FaultsAhead
  <2>1. faults' = faults
    BY DEF claim
  <2>2. CASE s \in oldest
    <3>1. [sheet |-> s, attempts |-> edtr[s].attempts] \in replica'[w].batch
      BY <2>2, <1>5
    <3>2. holds(w, s)'
      BY <3>1 DEF holds
    <3> QED
      BY <2>1, <2>2, <3>2, <1>2 DEF FaultsAhead
  <2>3. CASE s \notin oldest
    <3>1. replica[w].batch = {}
      BY DEF Timely, claim
    <3>2. \A v \in Replica : holds(v, s) => holds(v, s)'
      BY <3>1, <1>4 DEF holds
    <3> QED
      BY <2>1, <2>3, <3>2, <1>3 DEF FaultsAhead
  <2> QED
    BY <2>2, <2>3
<1> QED
  BY <1>7, <1>8, <1>9, <1>10, <1>11, <1>12

\* What the three ways to be done with a claimed sheet have in common: the row
\* leaves the batch, is not extracting any more, and costs a fault if an attempt.
LEMMA WriteIInv ==
  ASSUME IInv, NEW w \in Replica, NEW c \in replica[w].batch, NEW status, NEW n \in Nat,
         writes(w, c, ended(status, n)),
         status \in Status \ {"extracting"},
         n <= faults'[c.sheet],
         faults' \in [Sheet -> Nat], \A s \in Sheet : faults[s] <= faults'[s],
         entered' \in [Sheet -> Nat],
         \A s \in Sheet : s # c.sheet => entered'[s] = entered[s],
         entered'[c.sheet] <= 1,
         status \in {"queued", "hard_failed"} => entered'[c.sheet] = 0,
         configured' = configured
  PROVE  IInv'
<1> USE DEF IInv
<1> DEFINE r == c.sheet
<1>1. c \in Claim /\ r \in Sheet
  BY DEF TypeOK, Claim
<1>2. edtr'[r].status = status /\ edtr'[r].attempts = n /\ edtr'[r].locked = FALSE
  BY <1>1 DEF writes, ended, TypeOK
<1>3. \A s \in Sheet : s # r => edtr'[s] = edtr[s] /\ age'[s] = age[s]
  BY DEF writes, TypeOK
<1>4. \A v \in Replica : v # w => replica'[v] = replica[v]
  BY DEF writes, TypeOK
<1>5. /\ replica'[w].batch = replica[w].batch \ {c}
      /\ replica'[w].ran = replica[w].ran /\ replica'[w].step = replica[w].step
  BY DEF writes, TypeOK
<1>6. \A v \in Replica : \A d \in replica'[v].batch :
        /\ d \in replica[v].batch /\ d.sheet \in Sheet /\ d.sheet # r
        /\ replica'[v].ran = replica[v].ran
  <2> SUFFICES ASSUME NEW v \in Replica, NEW d \in replica'[v].batch
               PROVE  /\ d \in replica[v].batch /\ d.sheet \in Sheet /\ d.sheet # r
                      /\ replica'[v].ran = replica[v].ran
    OBVIOUS
  <2>1. d \in replica[v].batch /\ replica'[v].ran = replica[v].ran
    BY <1>4, <1>5
  <2>2. d \in Claim /\ d.sheet \in Sheet
    BY <2>1 DEF TypeOK, Claim
  <2>3. CASE v = w
    <3>1. d # c
      BY <2>3, <1>5
    <3>2. d.attempts = edtr[d.sheet].attempts /\ c.attempts = edtr[c.sheet].attempts
      BY <2>1, <2>3 DEF Owned
    <3>3. d.sheet = c.sheet => d = c
      BY <3>2, <2>2, <1>1 DEF Claim
    <3> QED
      BY <2>1, <2>2, <3>1, <3>3
  <2>4. CASE v # w
    BY <2>1, <2>2, <2>4 DEF Disjoint
  <2> QED
    BY <2>3, <2>4
<1> HIDE DEF r
<1>7. TypeOK'
  <2>1. edtr' \in [Sheet -> [status : Status, attempts : Nat, locked : BOOLEAN]]
    BY DEF writes, ended, TypeOK, Status
  <2>2. age' \in [Sheet -> Nat]
    BY DEF writes, TypeOK
  <2>3. replica' \in [Replica -> [step : {"idle", "reaped", "working"},
                                  batch : SUBSET Claim, ran : Nat]]
    BY DEF writes, TypeOK
  <2> QED
    BY <2>1, <2>2, <2>3 DEF TypeOK
<1>8. Owned'
  BY <1>6, <1>3 DEF Owned
<1>9. Disjoint'
  BY <1>6 DEF Disjoint
<1>10. Timely'
  <2> SUFFICES ASSUME NEW v \in Replica
               PROVE  /\ replica'[v].ran <= RunTimeout
                      /\ replica'[v].step # "working" => replica'[v].batch = {}
    BY DEF Timely
  <2> QED
    BY <1>4, <1>5 DEF Timely
<1>11. EnteredAtEnd'
  <2> SUFFICES ASSUME NEW s \in Sheet
               PROVE  /\ entered'[s] <= 1
                      /\ edtr'[s].status \in {"queued", "extracting", "hard_failed"}
                           => entered'[s] = 0
    BY DEF EnteredAtEnd
  <2>1. CASE s = r
    BY <2>1, <1>2 DEF r
  <2>2. CASE s # r
    BY <2>2, <1>3 DEF EnteredAtEnd, r
  <2> QED
    BY <2>1, <2>2
<1>12. FaultsAhead'
  <2> SUFFICES ASSUME NEW s \in Sheet
               PROVE  /\ edtr'[s].attempts <= faults'[s]
                      /\ (edtr'[s].status = "extracting" /\ \A v \in Replica : ~holds(v, s)')
                           => edtr'[s].attempts + 1 <= faults'[s]
    BY DEF FaultsAhead
  <2>1. CASE s = r
    BY <2>1, <1>2 DEF r
  <2>2. CASE s # r
    <3>1. \A v \in Replica : holds(v, s) => holds(v, s)'
      <4> SUFFICES ASSUME NEW v \in Replica, NEW d \in replica[v].batch, d.sheet = s
                   PROVE  d \in replica'[v].batch
        BY DEF holds
      <4> QED
        BY <2>2, <1>4, <1>5 DEF r
    <3>2. edtr'[s] = edtr[s] /\ faults[s] <= faults'[s]
      BY <2>2, <1>3
    <3>3. edtr[s].attempts \in Nat /\ faults[s] \in Nat /\ faults'[s] \in Nat
      BY DEF TypeOK
    <3> QED
      BY <3>1, <3>2, <3>3 DEF FaultsAhead
  <2> QED
    BY <2>1, <2>2
<1> QED
  BY <1>7, <1>8, <1>9, <1>10, <1>11, <1>12

\* A sheet in a live batch has not been entered.
LEMMA HeldFacts ==
  ASSUME IInv, NEW w \in Replica, NEW c \in replica[w].batch
  PROVE  /\ c.sheet \in Sheet /\ entered[c.sheet] = 0
         /\ edtr[c.sheet].attempts \in Nat /\ edtr[c.sheet].attempts <= faults[c.sheet]
         /\ c.attempts = edtr[c.sheet].attempts /\ edtr[c.sheet].status = "extracting"
<1>1. c.sheet \in Sheet
  BY DEF IInv, TypeOK, Claim
<1> QED
  BY <1>1 DEF IInv, TypeOK, Owned, EnteredAtEnd, FaultsAhead

LEMMA EnterIInv == ASSUME IInv, NEW w \in Replica, enterSheet(w) PROVE IInv'
<1>1. PICK c \in replica[w].batch, status \in {"reconciled", "review"} :
        /\ writes(w, c, ended(status, edtr[c.sheet].attempts))
        /\ entered' = [entered EXCEPT ![c.sheet] = @ + 1]
  BY DEF enterSheet
<1>2. c.sheet \in Sheet /\ entered[c.sheet] = 0
      /\ edtr[c.sheet].attempts \in Nat /\ edtr[c.sheet].attempts <= faults[c.sheet]
  BY HeldFacts
<1>3. faults' = faults /\ configured' = configured
  BY DEF enterSheet
<1>4. faults' \in [Sheet -> Nat] /\ \A s \in Sheet : faults[s] <= faults'[s]
  BY <1>3 DEF IInv, TypeOK
<1>5. /\ entered' \in [Sheet -> Nat] /\ entered'[c.sheet] = 1
      /\ \A s \in Sheet : s # c.sheet => entered'[s] = entered[s]
  BY <1>1, <1>2 DEF IInv, TypeOK
<1>6. status \in Status \ {"extracting"} /\ status \notin {"queued", "hard_failed"}
  BY DEF Status
<1>7. edtr[c.sheet].attempts <= faults'[c.sheet]
  BY <1>2, <1>3
<1> QED
  BY <1>1, <1>2, <1>3, <1>4, <1>5, <1>6, <1>7, WriteIInv

LEMMA RefuseIInv == ASSUME IInv, NEW w \in Replica, refuseSheet(w) PROVE IInv'
<1>1. PICK c \in replica[w].batch :
        writes(w, c, ended("hard_failed", edtr[c.sheet].attempts))
  BY DEF refuseSheet
<1>2. c.sheet \in Sheet /\ entered[c.sheet] = 0
      /\ edtr[c.sheet].attempts \in Nat /\ edtr[c.sheet].attempts <= faults[c.sheet]
  BY HeldFacts
<1>3. faults' = faults /\ configured' = configured /\ entered' = entered
  BY DEF refuseSheet
<1>4. faults' \in [Sheet -> Nat] /\ \A s \in Sheet : faults[s] <= faults'[s]
  BY <1>3 DEF IInv, TypeOK
<1>5. /\ entered' \in [Sheet -> Nat] /\ entered'[c.sheet] = 0
      /\ \A s \in Sheet : s # c.sheet => entered'[s] = entered[s]
  BY <1>2, <1>3 DEF IInv, TypeOK
<1>6. "hard_failed" \in Status \ {"extracting"}
  BY DEF Status
<1>7. edtr[c.sheet].attempts <= faults'[c.sheet]
  BY <1>2, <1>3
<1> QED
  BY <1>1, <1>2, <1>3, <1>4, <1>5, <1>6, <1>7, WriteIInv

LEMMA FailIInv == ASSUME IInv, NEW w \in Replica, failSheet(w) PROVE IInv'
<1>1. PICK c \in replica[w].batch :
        /\ writes(w, c, ended(afterFailure(c.attempts + 1), c.attempts + 1))
        /\ faults' = [faults EXCEPT ![c.sheet] = @ + 1]
  BY DEF failSheet
<1>2. c.sheet \in Sheet /\ entered[c.sheet] = 0 /\ c.attempts \in Nat
      /\ c.attempts <= faults[c.sheet]
  BY HeldFacts
<1>3. configured' = configured /\ entered' = entered
  BY DEF failSheet
<1>4. /\ faults' \in [Sheet -> Nat] /\ \A s \in Sheet : faults[s] <= faults'[s]
      /\ faults'[c.sheet] = faults[c.sheet] + 1
  BY <1>1, <1>2 DEF IInv, TypeOK
<1>5. /\ entered' \in [Sheet -> Nat] /\ entered'[c.sheet] = 0
      /\ \A s \in Sheet : s # c.sheet => entered'[s] = entered[s]
  BY <1>2, <1>3 DEF IInv, TypeOK
<1>6. afterFailure(c.attempts + 1) \in Status \ {"extracting"}
  BY DEF Status, afterFailure
<1>7. c.attempts + 1 <= faults'[c.sheet] /\ c.attempts + 1 \in Nat
  <2>1. faults[c.sheet] \in Nat
    BY <1>2 DEF IInv, TypeOK
  <2> QED
    BY <2>1, <1>2, <1>4
<1> QED
  BY <1>1, <1>3, <1>4, <1>5, <1>6, <1>7, WriteIInv

LEMMA FinishIInv == ASSUME IInv, NEW w \in Replica, finishRun(w) PROVE IInv'
<1> USE DEF IInv
<1>1. \A v \in Replica : v # w => replica'[v] = replica[v]
  BY DEF finishRun, TypeOK
<1>2. replica'[w].batch = {} /\ replica[w].batch = {} /\ replica'[w].ran = 0
  BY DEF finishRun, TypeOK, NoRun
<1>3. edtr' = edtr /\ age' = age /\ entered' = entered /\ faults' = faults /\ configured' = configured
  BY DEF finishRun, rowVars
<1>4. TypeOK'
  BY <1>3 DEF finishRun, TypeOK, NoRun
<1>5. Owned' /\ Disjoint'
  BY <1>1, <1>2, <1>3 DEF Owned, Disjoint
<1>6. Timely'
  BY <1>1, <1>2, RunTimeoutAssumption DEF Timely
<1>7. EnteredAtEnd'
  BY <1>3 DEF EnteredAtEnd
<1>8. \A v \in Replica, s \in Sheet : holds(v, s)' <=> holds(v, s)
  BY <1>1, <1>2 DEF holds
<1>9. FaultsAhead'
  BY <1>3, <1>8 DEF FaultsAhead
<1> QED
  BY <1>4, <1>5, <1>6, <1>7, <1>9

LEMMA DiesIInv == ASSUME IInv, NEW w \in Replica, dies(w) PROVE IInv'
<1> USE DEF IInv
<1>1. \A v \in Replica : v # w => replica'[v] = replica[v]
  BY DEF dies, TypeOK
<1>2. replica'[w].batch = {} /\ replica'[w].ran = 0
  BY DEF dies, TypeOK, NoRun
<1>3. edtr' = edtr /\ age' = age /\ entered' = entered /\ configured' = configured
  BY DEF dies
<1>4. \A s \in Sheet : faults'[s] = faults[s] + IF holds(w, s) THEN 1 ELSE 0
  BY DEF dies
<1>5. TypeOK'
  <2>1. faults' \in [Sheet -> Nat]
    BY DEF dies, TypeOK
  <2> QED
    BY <2>1, <1>3 DEF dies, TypeOK, NoRun
<1>6. Owned' /\ Disjoint'
  BY <1>1, <1>2, <1>3 DEF Owned, Disjoint
<1>7. Timely'
  BY <1>1, <1>2, RunTimeoutAssumption DEF Timely
<1>8. EnteredAtEnd'
  BY <1>3 DEF EnteredAtEnd
<1>9. FaultsAhead'
  <2> SUFFICES ASSUME NEW s \in Sheet
               PROVE  /\ edtr'[s].attempts <= faults'[s]
                      /\ (edtr'[s].status = "extracting" /\ \A v \in Replica : ~holds(v, s)')
                           => edtr'[s].attempts + 1 <= faults'[s]
    BY DEF FaultsAhead
  <2>1. edtr[s].attempts \in Nat /\ faults[s] \in Nat
    BY DEF TypeOK
  <2>2. CASE holds(w, s)
    BY <2>1, <2>2, <1>3, <1>4 DEF FaultsAhead
  <2>3. CASE ~holds(w, s)
    <3>1. \A v \in Replica : holds(v, s) => holds(v, s)'
      BY <2>3, <1>1 DEF holds
    <3>2. faults'[s] = faults[s]
      BY <2>1, <2>3, <1>4
    <3> QED
      BY <3>1, <3>2, <1>3 DEF FaultsAhead
  <2> QED
    BY <2>2, <2>3
<1> QED
  BY <1>5, <1>6, <1>7, <1>8, <1>9

LEMMA TickIInv == ASSUME IInv, tick PROVE IInv'
<1> USE DEF IInv
<1>1. edtr' = edtr /\ entered' = entered /\ faults' = faults /\ configured' = configured
  BY DEF tick
<1>2. \A v \in Replica :
        /\ replica'[v].batch = replica[v].batch /\ replica'[v].step = replica[v].step
        /\ replica'[v].ran = IF alive(v) THEN replica[v].ran + 1 ELSE replica[v].ran
  BY DEF tick, TypeOK
<1>3. \A s \in Sheet : age'[s] \in Nat /\ age'[s] <= age[s] + 1
  BY DEF tick, TypeOK, older
<1>4. TypeOK'
  <2>1. age' \in [Sheet -> Nat]
    BY DEF tick, TypeOK, older
  <2>2. replica' \in [Replica -> [step : {"idle", "reaped", "working"},
                                  batch : SUBSET Claim, ran : Nat]]
    <3> SUFFICES ASSUME NEW v \in Replica
                 PROVE  (IF alive(v) THEN [replica[v] EXCEPT !.ran = @ + 1] ELSE replica[v])
                          \in [step : {"idle", "reaped", "working"}, batch : SUBSET Claim, ran : Nat]
      BY DEF tick
    <3> QED
      BY DEF TypeOK
  <2> QED
    BY <2>1, <2>2, <1>1 DEF TypeOK
<1>5. Owned'
  <2> SUFFICES ASSUME NEW v \in Replica, NEW c \in replica[v].batch
               PROVE  /\ edtr[c.sheet].status = "extracting" /\ edtr[c.sheet].locked
                      /\ edtr[c.sheet].attempts = c.attempts
                      /\ age'[c.sheet] <= replica'[v].ran
    BY <1>1, <1>2 DEF Owned
  <2>1. c.sheet \in Sheet /\ age[c.sheet] \in Nat /\ replica[v].ran \in Nat
    BY DEF TypeOK, Claim
  <2>2. alive(v)
    BY DEF Timely, alive
  <2> QED
    BY <2>1, <2>2, <1>2, <1>3 DEF Owned
<1>6. Disjoint'
  BY <1>2 DEF Disjoint
<1>7. Timely'
  <2> SUFFICES ASSUME NEW v \in Replica
               PROVE  /\ replica'[v].ran <= RunTimeout
                      /\ replica'[v].step # "working" => replica'[v].batch = {}
    BY DEF Timely
  <2>1. replica[v].ran \in Nat
    BY DEF TypeOK
  <2>2. alive(v) => replica[v].ran + 1 <= RunTimeout
    BY <2>1, RunTimeoutAssumption DEF tick, outOfTime, Timely
  <2> QED
    BY <2>1, <2>2, <1>2 DEF Timely
<1>8. EnteredAtEnd'
  BY <1>1 DEF EnteredAtEnd
<1>9. \A v \in Replica, s \in Sheet : holds(v, s)' <=> holds(v, s)
  BY <1>2 DEF holds
<1>10. FaultsAhead'
  BY <1>1, <1>9 DEF FaultsAhead
<1> QED
  BY <1>4, <1>5, <1>6, <1>7, <1>8, <1>10

LEMMA StutterIInv == IInv /\ UNCHANGED vars => IInv'
BY DEF IInv, vars, TypeOK, Owned, Disjoint, Timely, EnteredAtEnd, FaultsAhead, holds

\* The inductive invariant: a claimed copy still agrees with its row and its
\* lock is no older than the run, which the platform ends before the lock goes
\* stale (edtr-ocr-worker.ts STALE_LOCK_MS against the job's replica timeout).
THEOREM WorkerInductive == Spec => []IInv
<1>1. ASSUME IInv, [Next]_vars PROVE IInv'
  <2>1. CASE configure
    BY <1>1, <2>1, ConfigureIInv
  <2>2. CASE tick
    BY <1>1, <2>2, TickIInv
  <2>3. ASSUME NEW w \in Replica,
               reap(w) \/ claim(w) \/ enterSheet(w) \/ refuseSheet(w)
                 \/ failSheet(w) \/ finishRun(w) \/ dies(w)
        PROVE  IInv'
    BY <1>1, <2>3, ReapIInv, ClaimIInv, EnterIInv, RefuseIInv, FailIInv, FinishIInv, DiesIInv
  <2>4. CASE UNCHANGED vars
    BY <1>1, <2>4, StutterIInv
  <2> QED
    BY <1>1, <2>1, <2>2, <2>3, <2>4 DEF Next
<1> QED
  BY <1>1, InitIInv, PTL DEF Spec

\* The variables of the worker keep their types.
THEOREM WorkerTypes == Spec => []TypeOK
BY WorkerInductive, PTL DEF IInv

\* A sheet in the batch of a live run stays locked and is nobody else's.
THEOREM LocksHeld == Spec => []LockHeld
<1>1. IInv => LockHeld
  <2> SUFFICES ASSUME IInv, NEW w \in Replica, NEW s \in Sheet, holds(w, s)
               PROVE  /\ edtr[s].status = "extracting" /\ edtr[s].locked
                      /\ \A v \in Replica \ {w} : ~holds(v, s)
    BY DEF LockHeld
  <2> QED
    BY DEF IInv, Owned, Disjoint, holds
<1> QED
  BY <1>1, WorkerInductive, PTL

\* The hours of a sheet are entered at most once, and it is done with then.
THEOREM HoursOnce == Spec => []EnteredOnce
<1>1. IInv => EnteredOnce
  <2> SUFFICES ASSUME IInv, NEW s \in Sheet
               PROVE  /\ entered[s] <= 1
                      /\ entered[s] = 1 => edtr[s].status \in {"reconciled", "review"}
    BY DEF EnteredOnce
  <2>1. edtr[s].status \in Status
    BY DEF IInv, TypeOK
  <2> QED
    BY <2>1 DEF IInv, EnteredAtEnd, Status
<1> QED
  BY <1>1, WorkerInductive, PTL

\* An attempt is burnt only by a failure of the sheet or of a run that held it.
THEOREM AttemptsByFaults == Spec => []AttemptsOnlyByFaults
<1>1. IInv => AttemptsOnlyByFaults
  BY DEF IInv, FaultsAhead, AttemptsOnlyByFaults
<1> QED
  BY <1>1, WorkerInductive, PTL

\* Every step of the worker settles one sheet of SheetCapture, or none.
LEMMA StepRefines ==
  ASSUME IInv, IInv', [Next]_vars
  PROVE  [Capture!Next]_<<[s \in Sheet |-> outcomeOf(s)], entered>>
<1> DEFINE O == [s \in Sheet |-> outcomeOf(s)]
<1> USE DEF IInv
<1>1. ASSUME \A s \in Sheet : outcomeOf(s)' = outcomeOf(s), entered' = entered
      PROVE  UNCHANGED <<O, entered>>
  BY <1>1
<1>2. ASSUME NEW w \in Replica, NEW c \in replica[w].batch, NEW status, NEW n,
             writes(w, c, ended(status, n)), NEW o \in Capture!Outcome,
             outcomeOf(c.sheet)' = o,
             entered' = IF o = "read" THEN [entered EXCEPT ![c.sheet] = 1] ELSE entered
      PROVE  Capture!Next
  <2>1. c.sheet \in Sheet /\ outcomeOf(c.sheet) = "waiting"
    BY HeldFacts DEF outcomeOf
  <2>2. \A s \in Sheet : s # c.sheet => outcomeOf(s)' = outcomeOf(s)
    BY <1>2, <2>1 DEF outcomeOf, writes, TypeOK
  <2>3. O[c.sheet] = "waiting" /\ O' = [O EXCEPT ![c.sheet] = o]
    BY <1>2, <2>1, <2>2
  <2> QED
    BY <1>2, <2>1, <2>3 DEF Capture!Next, Capture!Settle
<1> HIDE DEF O
<1>3. ASSUME NEW w \in Replica, enterSheet(w) PROVE Capture!Next
  <2>1. PICK c \in replica[w].batch, status \in {"reconciled", "review"} :
          /\ writes(w, c, ended(status, edtr[c.sheet].attempts))
          /\ entered' = [entered EXCEPT ![c.sheet] = @ + 1]
    BY <1>3 DEF enterSheet
  <2>2. c.sheet \in Sheet /\ entered[c.sheet] = 0
    BY HeldFacts
  <2>3. entered' = [entered EXCEPT ![c.sheet] = 1] /\ entered'[c.sheet] = 1
    BY <2>1, <2>2 DEF TypeOK
  <2>4. edtr'[c.sheet].status = status
    BY <2>1, <2>2 DEF writes, ended, TypeOK
  <2>5. outcomeOf(c.sheet)' = "read"
    BY <2>3, <2>4 DEF outcomeOf
  <2> QED
    BY <2>1, <2>3, <2>5, <1>2 DEF Capture!Outcome
<1>4. ASSUME NEW w \in Replica, refuseSheet(w) PROVE Capture!Next
  <2>1. PICK c \in replica[w].batch :
          writes(w, c, ended("hard_failed", edtr[c.sheet].attempts))
    BY <1>4 DEF refuseSheet
  <2>2. c.sheet \in Sheet
    BY HeldFacts
  <2>3. edtr'[c.sheet].status = "hard_failed"
    BY <2>1, <2>2 DEF writes, ended, TypeOK
  <2>4. outcomeOf(c.sheet)' = "refused"
    BY <2>3 DEF outcomeOf
  <2> QED
    BY <1>4, <2>1, <2>4, <1>2 DEF Capture!Outcome, refuseSheet
<1>5. ASSUME NEW w \in Replica, failSheet(w) PROVE Capture!Next \/ UNCHANGED <<O, entered>>
  <2>1. PICK c \in replica[w].batch :
          writes(w, c, ended(afterFailure(c.attempts + 1), c.attempts + 1))
    BY <1>5 DEF failSheet
  <2>2. c.sheet \in Sheet /\ entered[c.sheet] = 0 /\ outcomeOf(c.sheet) = "waiting"
    BY HeldFacts DEF outcomeOf
  <2>3. edtr'[c.sheet].status = afterFailure(c.attempts + 1)
    BY <2>1, <2>2 DEF writes, ended, TypeOK
  <2>4. entered' = entered
    BY <1>5 DEF failSheet
  <2>5. CASE afterFailure(c.attempts + 1) = "review"
    <3>1. outcomeOf(c.sheet)' = "handed over"
      BY <2>2, <2>3, <2>4, <2>5 DEF outcomeOf
    <3> QED
      BY <2>1, <2>4, <3>1, <1>2 DEF Capture!Outcome
  <2>6. CASE afterFailure(c.attempts + 1) = "queued"
    <3>1. outcomeOf(c.sheet)' = "waiting"
      BY <2>3, <2>6 DEF outcomeOf
    <3>2. \A s \in Sheet : s # c.sheet => outcomeOf(s)' = outcomeOf(s)
      BY <2>1, <2>4 DEF outcomeOf, writes, TypeOK
    <3> QED
      BY <2>2, <2>4, <3>1, <3>2, <1>1
  <2> QED
    BY <2>5, <2>6 DEF afterFailure
<1>6. ASSUME NEW w \in Replica, reap(w) PROVE UNCHANGED <<O, entered>>
  <2>1. \A s \in Sheet : outcomeOf(s)' = outcomeOf(s)
    BY <1>6 DEF reap, stale, reclaimed, outcomeOf
  <2> QED
    BY <2>1, <1>1, <1>6 DEF reap
<1>7. ASSUME NEW w \in Replica, claim(w) PROVE UNCHANGED <<O, entered>>
  <2>1. \A s \in Sheet : edtr'[s].status = edtr[s].status \/
          (edtr[s].status = "queued" /\ edtr'[s].status = "extracting")
    BY <1>7 DEF claim, oldest, claimable, TypeOK
  <2>2. \A s \in Sheet : outcomeOf(s)' = outcomeOf(s)
    BY <2>1, <1>7 DEF outcomeOf, claim
  <2> QED
    BY <2>2, <1>1, <1>7 DEF claim
<1>8. ASSUME edtr' = edtr, entered' = entered PROVE UNCHANGED <<O, entered>>
  BY <1>8, <1>1 DEF outcomeOf
<1>9. CASE configure \/ tick \/ UNCHANGED vars \/ \E w \in Replica : finishRun(w) \/ dies(w)
  BY <1>8, <1>9 DEF configure, tick, vars, rowVars, finishRun, dies, O
<1>10. CASE \E w \in Replica : enterSheet(w) \/ refuseSheet(w) \/ failSheet(w) \/ reap(w) \/ claim(w)
  BY <1>10, <1>3, <1>4, <1>5, <1>6, <1>7 DEF O
<1> QED
  BY <1>9, <1>10 DEF Next

\* The worker, whatever dies, implements SheetCapture: one outcome a sheet, once.
THEOREM WorkerRefines == Spec => CaptureSpec
<1>1. Init => Capture!Init
  BY DEF Init, Capture!Init, outcomeOf, Captured
<1>2. IInv /\ IInv' /\ [Next]_vars
        => [Capture!Next]_<<[s \in Sheet |-> outcomeOf(s)], entered>>
  BY StepRefines
<1> QED
  BY <1>1, <1>2, WorkerInductive, PTL DEF Spec, CaptureSpec, Capture!Spec

-----------------------------------------------------------------------------
(* No sheet is left where nothing would take it up, or given up early.       *)

\* The lock is on the rows that are extracting and on no others; an attempt is
\* left to whoever extracts; and a person gets a sheet that was not read only
\* when none is.
RowInv ==
  \A s \in Sheet :
    /\ edtr[s].attempts <= MaxAttempts
    /\ edtr[s].locked <=> edtr[s].status = "extracting"
    /\ edtr[s].status = "extracting" => edtr[s].attempts < MaxAttempts
    /\ edtr[s].status = "review" /\ entered[s] = 0 => edtr[s].attempts = MaxAttempts
    /\ edtr[s].status = "reconciled" => entered[s] # 0

\* A sheet that is not over and has attempts left is there to be claimed, or is
\* in the batch of a run that has not used up its time, or carries a lock that
\* ages until the reaper takes it.
NotStranded ==
  \A s \in Sheet :
    \/ ends(s) \/ spent(s) \/ claimable(s)
    \/ \E w \in Replica : alive(w) /\ holds(w, s) /\ replica[w].ran <= RunTimeout
    \/ /\ edtr[s].status = "extracting" /\ edtr[s].locked
       /\ \A w \in Replica : ~holds(w, s)

\* A sheet that is handed to a person unread, or left in the queue for good, has
\* had every attempt, and each was a fault of its own or of a run that held it.
GivenUpLate ==
  \A s \in Sheet : spent(s) \/ outcomeOf(s) = "handed over" =>
    edtr[s].attempts = MaxAttempts /\ faults[s] >= MaxAttempts

\* The end of an iteration writes a row without a lock.
LEMMA WriteRow ==
  ASSUME IInv, RowInv, NEW w \in Replica, NEW c \in replica[w].batch, NEW status, NEW n,
         writes(w, c, ended(status, n)), status # "extracting", n <= MaxAttempts,
         \A s \in Sheet : s # c.sheet => entered'[s] = entered[s],
         status = "review" /\ entered'[c.sheet] = 0 => n = MaxAttempts,
         status = "reconciled" => entered'[c.sheet] # 0
  PROVE  RowInv'
<1>1. c.sheet \in Sheet /\ edtr \in [Sheet -> [status : Status, attempts : Nat, locked : BOOLEAN]]
  BY HeldFacts DEF IInv, TypeOK
<1>2. edtr'[c.sheet] = ended(status, n) /\ \A s \in Sheet : s # c.sheet => edtr'[s] = edtr[s]
  BY <1>1 DEF writes
<1>3. /\ ended(status, n).status = status /\ ended(status, n).attempts = n
      /\ ended(status, n).locked = FALSE
  BY DEF ended
<1> SUFFICES ASSUME NEW s \in Sheet
             PROVE  /\ edtr'[s].attempts <= MaxAttempts
                    /\ edtr'[s].locked <=> edtr'[s].status = "extracting"
                    /\ edtr'[s].status = "extracting" => edtr'[s].attempts < MaxAttempts
                    /\ edtr'[s].status = "review" /\ entered'[s] = 0
                         => edtr'[s].attempts = MaxAttempts
                    /\ edtr'[s].status = "reconciled" => entered'[s] # 0
  BY DEF RowInv
<1>4. CASE s = c.sheet
  BY <1>2, <1>3, <1>4
<1>5. CASE s # c.sheet
  BY <1>2, <1>5 DEF RowInv
<1> QED BY <1>4, <1>5

\* One case for each step; those of a batch by the lemma above.
LEMMA RowInvNext ==
  ASSUME IInv, RowInv, [Next]_vars
  PROVE  RowInv'
<1> DEFINE R(s) == /\ edtr'[s].attempts <= MaxAttempts
                   /\ edtr'[s].locked <=> edtr'[s].status = "extracting"
                   /\ edtr'[s].status = "extracting" => edtr'[s].attempts < MaxAttempts
                   /\ edtr'[s].status = "review" /\ entered'[s] = 0
                        => edtr'[s].attempts = MaxAttempts
                   /\ edtr'[s].status = "reconciled" => entered'[s] # 0
<1>0. (\A s \in Sheet : R(s)) => RowInv'
  BY DEF RowInv
<1>t. \A s \in Sheet : edtr[s].attempts \in Nat /\ edtr[s].locked \in BOOLEAN
  BY DEF IInv, TypeOK
<1>1. ASSUME NEW w \in Replica, reap(w) PROVE RowInv'
  <2> SUFFICES ASSUME NEW s \in Sheet PROVE R(s)
    BY <1>0
  <2>1. entered' = entered /\ edtr'[s] = IF stale(s) THEN reclaimed(edtr[s]) ELSE edtr[s]
    BY <1>1 DEF reap
  <2>2. CASE stale(s)
    <3>1. edtr[s].attempts < MaxAttempts
      BY <2>2 DEF stale, RowInv
    <3>2. /\ edtr'[s].status = "queued" /\ edtr'[s].locked = FALSE
          /\ edtr'[s].attempts = edtr[s].attempts + 1
      BY <2>1, <2>2 DEF reclaimed
    <3> QED BY <1>t, <3>1, <3>2, MaxAttemptsAssumption
  <2>3. CASE ~stale(s)
    BY <2>1, <2>3 DEF RowInv
  <2> QED BY <2>2, <2>3
<1>2. ASSUME NEW w \in Replica, claim(w) PROVE RowInv'
  <2> SUFFICES ASSUME NEW s \in Sheet PROVE R(s)
    BY <1>0
  <2>1. /\ entered' = entered
        /\ edtr'[s] = IF s \in oldest
                      THEN [edtr[s] EXCEPT !.status = "extracting", !.locked = TRUE]
                      ELSE edtr[s]
    BY <1>2 DEF claim
  <2>2. CASE s \in oldest
    <3>1. edtr[s].attempts < MaxAttempts
      BY <2>2 DEF oldest, claimable
    <3>2. /\ edtr'[s].status = "extracting" /\ edtr'[s].locked = TRUE
          /\ edtr'[s].attempts = edtr[s].attempts
      BY <2>1, <2>2 DEF IInv, TypeOK
    <3> QED BY <1>t, <3>1, <3>2, MaxAttemptsAssumption
  <2>3. CASE s \notin oldest
    BY <2>1, <2>3 DEF RowInv
  <2> QED BY <2>2, <2>3
<1> HIDE DEF R
<1>3. ASSUME NEW w \in Replica, enterSheet(w) PROVE RowInv'
  <2>1. PICK c \in replica[w].batch, status \in {"reconciled", "review"} :
          /\ writes(w, c, ended(status, edtr[c.sheet].attempts))
          /\ entered' = [entered EXCEPT ![c.sheet] = @ + 1]
    BY <1>3 DEF enterSheet
  <2>2. c.sheet \in Sheet /\ entered[c.sheet] = 0 /\ edtr[c.sheet].attempts <= MaxAttempts
    BY HeldFacts DEF RowInv
  <2>3. entered'[c.sheet] = 1 /\ \A s \in Sheet : s # c.sheet => entered'[s] = entered[s]
    BY <2>1, <2>2 DEF IInv, TypeOK
  <2> QED BY <2>1, <2>2, <2>3, WriteRow
<1>4. ASSUME NEW w \in Replica, refuseSheet(w) PROVE RowInv'
  <2>1. PICK c \in replica[w].batch :
          writes(w, c, ended("hard_failed", edtr[c.sheet].attempts))
    BY <1>4 DEF refuseSheet
  <2>2. edtr[c.sheet].attempts <= MaxAttempts
    BY HeldFacts DEF RowInv
  <2>3. entered' = entered
    BY <1>4 DEF refuseSheet
  <2> QED BY <2>1, <2>2, <2>3, WriteRow
<1>5. ASSUME NEW w \in Replica, failSheet(w) PROVE RowInv'
  <2>1. PICK c \in replica[w].batch :
          writes(w, c, ended(afterFailure(c.attempts + 1), c.attempts + 1))
    BY <1>5 DEF failSheet
  <2>2. /\ c.sheet \in Sheet /\ c.attempts = edtr[c.sheet].attempts
        /\ edtr[c.sheet].attempts \in Nat /\ edtr[c.sheet].status = "extracting"
    BY HeldFacts
  <2>3. c.attempts + 1 <= MaxAttempts
    BY <2>2, MaxAttemptsAssumption DEF RowInv
  <2>4. /\ afterFailure(c.attempts + 1) \notin {"extracting", "reconciled"}
        /\ afterFailure(c.attempts + 1) = "review" => c.attempts + 1 = MaxAttempts
    BY <2>2, <2>3, MaxAttemptsAssumption DEF afterFailure
  <2>5. entered' = entered
    BY <1>5 DEF failSheet
  <2> QED BY <2>1, <2>3, <2>4, <2>5, WriteRow
<1>6. ASSUME edtr' = edtr, entered' = entered PROVE RowInv'
  BY <1>6 DEF RowInv
<1>7. CASE configure \/ tick \/ UNCHANGED vars \/ \E w \in Replica : finishRun(w) \/ dies(w)
  BY <1>6, <1>7 DEF configure, tick, vars, rowVars, finishRun, dies
<1> QED BY <1>1, <1>2, <1>3, <1>4, <1>5, <1>7 DEF Next

\* Every step keeps the rows so, and they start so.
LEMMA RowsKept == Spec => []RowInv
<1>1. Init => RowInv
  <2>1. Init => \A s \in Sheet : /\ edtr[s].attempts = 0 /\ edtr[s].locked = FALSE
                                 /\ edtr[s].status = "queued"
    BY DEF Init, Captured
  <2> QED BY <2>1, MaxAttemptsAssumption DEF RowInv
<1>2. IInv /\ RowInv /\ [Next]_vars => RowInv'
  BY RowInvNext
<1> QED BY <1>1, <1>2, WorkerInductive, PTL DEF Spec

\* Whatever dies, and wherever, somebody or the reaper will see the sheet again:
\* the safety half of SheetsEnd (the claim's WHERE and the reaper's cover every
\* row that is not over, but for the rows whose attempts the reaper used up).
THEOREM NoSheetStranded == Spec => []NotStranded
<1>1. IInv /\ RowInv => NotStranded
  <2> SUFFICES ASSUME IInv, RowInv, NEW s \in Sheet, ~ends(s), ~spent(s), ~claimable(s),
                      ~(edtr[s].status = "extracting" /\ edtr[s].locked
                          /\ (\A w \in Replica : ~holds(w, s)))
               PROVE  \E w \in Replica :
                        alive(w) /\ holds(w, s) /\ replica[w].ran <= RunTimeout
    BY DEF NotStranded
  <2>1. edtr[s].status \in Status /\ edtr[s].attempts \in Nat
    BY DEF IInv, TypeOK
  <2>2. edtr[s].status \in {"queued", "extracting"}
    BY <2>1 DEF ends, Status
  <2>3. edtr[s].status # "queued"
    BY <2>1, MaxAttemptsAssumption DEF RowInv, claimable, spent
  <2>4. PICK w \in Replica : holds(w, s)
    BY <2>2, <2>3 DEF RowInv
  <2>5. alive(w) /\ replica[w].ran <= RunTimeout
    BY <2>4 DEF IInv, Timely, holds, alive
  <2> QED BY <2>4, <2>5
<1> QED BY <1>1, WorkerInductive, RowsKept, PTL

\* The order of the naturals, for a leaf below.
LEMMA SameNat == \A a, b \in Nat : a <= b /\ a >= b => a = b
OBVIOUS

\* A sheet is given up, with a person or in the queue, only after MAX_ATTEMPTS
\* faults that were its own (failSheet and the reaper count from the claimed row).
THEOREM NotGivenUpEarly == Spec => []GivenUpLate
<1>1. IInv /\ RowInv => GivenUpLate
  <2> SUFFICES ASSUME IInv, RowInv, NEW s \in Sheet,
                      spent(s) \/ outcomeOf(s) = "handed over"
               PROVE  edtr[s].attempts = MaxAttempts /\ faults[s] >= MaxAttempts
    BY DEF GivenUpLate
  <2> DEFINE n == edtr[s].attempts
  <2>1. n \in Nat /\ faults[s] \in Nat /\ n <= faults[s] /\ n <= MaxAttempts
    BY DEF IInv, TypeOK, FaultsAhead, RowInv
  <2>2. /\ edtr[s].status \in Status
        /\ edtr[s].status = "review" /\ entered[s] = 0 => n = MaxAttempts
        /\ edtr[s].status # "reconciled" \/ entered[s] # 0
    BY DEF IInv, TypeOK, RowInv
  <2>3. spent(s) => n >= MaxAttempts
    BY DEF spent
  <2>4. outcomeOf(s) = "handed over" => n = MaxAttempts
    BY <2>2 DEF outcomeOf, Status
  <2> HIDE DEF n
  <2>5. n = MaxAttempts
    BY <2>1, <2>3, <2>4, SameNat, MaxAttemptsAssumption
  <2>6. faults[s] >= MaxAttempts
    BY <2>1, <2>5
  <2> QED BY <2>5, <2>6 DEF n
<1> QED BY <1>1, WorkerInductive, RowsKept, PTL
=============================================================================
