---------------------------- MODULE MCEdtrApproval ----------------------------
(***************************************************************************)
(* Small instances of EdtrApproval.  One unit's day with up to three logs  *)
(* (two of one source), hours and rates chosen so that one charge fits the *)
(* deposit and two do not.                                                 *)
(***************************************************************************)
EXTENDS EdtrAccount, TLC

CONSTANTS p1, d1, d2, rental, unit, day

Col(x) == [l \in Log |-> x]
OneRental == Col(rental)
OneUnit == Col(unit)
OneDay == Col(day)
Sources == [l \in Log |-> IF l = p1 THEN "paper_ocr" ELSE "digital_entry"]
Rates == Col(10)
Deposits == [r \in Rental |-> 30]

SmallDeposits == [r \in Rental |-> 15]
OcrFlags == [ocr : {TRUE}, attested : BOOLEAN]
FlagsOff == {[ocr |-> FALSE, attested |-> FALSE]}

\* One typed reading, and two that a sheet gives, which records no idle hours: one
\* has the same active hours, the other those that the typed figures add up to.
OneReading == {[active |-> 2, idle |-> 2]}
Readings == OneReading \cup [active : {2, 4}, idle : {NotRecorded}]

\* The two digital logs, the clerks and the billing runs are interchangeable.
Symm == Permutations({d1, d2}) \cup Permutations(Clerk) \cup Permutations(BillingRun)
=============================================================================
