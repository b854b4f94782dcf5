-------------------------- MODULE ReconciliationGate --------------------------
(***************************************************************************)
(* The pure half of double-entry reconciliation: packages/db/src/          *)
(* reconciliation.ts (sumHours, hourDeltas, minFieldConfidence) and        *)
(* packages/shared/src/edtr.ts (worstDelta, evaluateGate).  Hours are      *)
(* whole numbers of a tick, confidences whole percents.                    *)
(***************************************************************************)
EXTENDS Integers, FiniteSets, FiniteSetsExt, SequencesExt

CONSTANTS
  CONFIDENCE_GATE,   \* 0.90 in packages/shared/src/edtr.ts
  Tolerance,         \* DEFAULT_TOLERANCE_HOURS, 0.25 h
  NotRecorded        \* a NULL hours_idle, and a dimension it leaves uncompared

\* A log's line items summed; idle is unknown as soon as one item lacks it.
sumHours(items) ==
  [active |-> FoldLeft(LAMBDA acc, i : acc + i.active, 0, items),
   idle   |-> IF \E n \in 1..Len(items) : items[n].idle = NotRecorded
                THEN NotRecorded
                ELSE FoldLeft(LAMBDA acc, i : acc + i.idle, 0, items)]

distance(x, y) == IF x >= y THEN x - y ELSE y - x

\* The three dimensions the two logs are compared in.
hourDeltas(a, b) ==
  LET comparableIdle == a.idle # NotRecorded /\ b.idle # NotRecorded
  IN  [active |-> distance(a.active, b.active),
       idle   |-> IF comparableIdle THEN distance(a.idle, b.idle) ELSE NotRecorded,
       total  |-> IF comparableIdle
                    THEN distance(a.active + a.idle, b.active + b.idle)
                    ELSE NotRecorded]

comparableDeltas(d) == {d.active, d.idle, d.total} \ {NotRecorded}

\* Mutant of worstDelta: the gate as it was before active and idle hours were
\* compared on their own.
totalDelta(d) == IF d.total = NotRecorded THEN d.active ELSE d.total

worstDelta(d) == Max(comparableDeltas(d))

\* A digital entry has no OCR step: full confidence.
minFieldConfidence(source, confidence) ==
  IF source = "paper_ocr" THEN confidence ELSE 100

\* Mutant of evaluateGate: only the log being reconciled must have been read well.
ownConfidenceGate(confidenceA, confidenceB, deltas, tolerance) ==
  IF confidenceA < CONFIDENCE_GATE THEN "low_confidence"
  ELSE IF worstDelta(deltas) > tolerance THEN "tolerance_exceeded" ELSE "auto_accept"

\* Both logs must have been read well, and agree in every compared dimension.
evaluateGate(confidenceA, confidenceB, deltas, tolerance) ==
  IF confidenceA < CONFIDENCE_GATE \/ confidenceB < CONFIDENCE_GATE THEN "low_confidence"
  ELSE IF worstDelta(deltas) > tolerance THEN "tolerance_exceeded" ELSE "auto_accept"
=============================================================================
