---------------------------- MODULE DepositLedger ----------------------------
(***************************************************************************)
(* The pure arithmetic of a rental's deposit, packages/db/src/             *)
(* deposit-ledger.ts.  Money is a whole number of centavos, so the code's  *)
(* cents() is the identity except where a percentage is taken.             *)
(***************************************************************************)
EXTENDS Integers

\* Math.min and Math.max of two amounts.
Lesser(a, b) == IF a <= b THEN a ELSE b
Greater(a, b) == IF a >= b THEN a ELSE b

\* cents(n / d): to the nearest centavo, a half rounded up.
cents(n, d) == (2 * n + d) \div (2 * d)

\* The deposit a contract opens with: depositPct of the rented hours' worth,
\* or the tenant's flat minimum when there is nothing to take a share of.
depositForQuote(minDeposit, depositPct, rentedValue) ==
  IF rentedValue <= 0 \/ depositPct <= 0
    THEN minDeposit
    ELSE cents(rentedValue * depositPct, 100)

\* What is left of the deposit, never below zero (edtr.service.ts approve).
balanceOf(required, deducted) == Greater(0, required - deducted)

\* Mutant of splitDeduction: a charge the deposit does not cover accrues whole.
splitAllOrNothing(balanceBefore, amount) ==
  LET deducted == IF amount <= balanceBefore THEN amount ELSE 0
  IN  [deducted |-> deducted, accrued |-> amount - deducted,
       balanceAfter |-> balanceBefore - deducted]

\* The part of a charge the deposit covers, and the part that overflows.
splitDeduction(balanceBefore, amount) ==
  LET available == Greater(0, balanceBefore)
      deducted  == Lesser(available, amount)
  IN  [deducted     |-> deducted,
       accrued      |-> amount - deducted,
       balanceAfter |-> available - deducted]

\* The charge that takes the balance from above pct% of the deposit to it or
\* below it.
crossesLowBalance(required, before, after, pct) ==
  /\ required > 0
  /\ before * 100 > required * pct
  /\ after * 100 <= required * pct
=============================================================================
