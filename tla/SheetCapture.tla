---------------------------- MODULE SheetCapture ----------------------------
(***************************************************************************)
(* What a capture promises, whoever reads the sheet and however often the   *)
(* reader dies: a waiting sheet gets one outcome, once, and its hours are    *)
(* entered exactly if the outcome is that it was read.                       *)
(***************************************************************************)
EXTENDS Naturals

CONSTANT Sheet

VARIABLES
  outcome,   \* what became of each sheet
  hours      \* how many times its hours were entered

Outcome == {"read", "refused", "handed over"}

Init == outcome = [s \in Sheet |-> "waiting"] /\ hours = [s \in Sheet |-> 0]

Settle(s, o) ==
  /\ outcome[s] = "waiting"
  /\ outcome' = [outcome EXCEPT ![s] = o]
  /\ hours' = IF o = "read" THEN [hours EXCEPT ![s] = 1] ELSE hours

Next == \E s \in Sheet, o \in Outcome : Settle(s, o)

Spec == Init /\ [][Next]_<<outcome, hours>>
=============================================================================
