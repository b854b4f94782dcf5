----------------------------- MODULE EdtrAccount -----------------------------
(***************************************************************************)
(* What the detailed state of EdtrApproval means to a rental's two parties: *)
(* the mapping under which the money path implements DepositAccount.       *)
(***************************************************************************)
EXTENDS EdtrApproval

\* The sum of F over S.
sumOver(F, S) == MapThenSumSet(LAMBDA x : F[x], S)

logsOf(r) == {l \in Log : RentalOf[l] = r}
totals(F) == [r \in Rental |-> sumOver(F, logsOf(r))]

\* An accrual counts as open until it is stamped, and as invoiced on every
\* weekly line that carries it.
openAmounts == [l \in Log |-> IF accruals[l].billed THEN 0 ELSE accruals[l].amount]
invoicedAmounts == [l \in Log |-> weekly[l] * accruals[l].amount]

Account == INSTANCE DepositAccount WITH
  paid <- depositPaid,
  drawn <- deducted,
  open <- totals(openAmounts),
  invoiced <- totals(invoicedAmounts)

\* EdtrApproval implements DepositAccount: every committed approval is one
\* charge and every billing run one invoice, however their steps interleave.
AccountSpec == Account!Spec

\* What a rental has been charged: from its deposit, past it, and invoiced.
charged(r) == deducted[r] + totals(openAmounts)[r] + totals(invoicedAmounts)[r]

\* An approval of the log enters its hours in the unit's runtime and charges its
\* rental for just those hours.
chargesFor(l) ==
  LET hours == runtime'[UnitOf[l]] - runtime[UnitOf[l]]
      r == RentalOf[l]
  IN  /\ approvals' = [approvals EXCEPT ![l] = @ + 1]
      /\ \A u \in Unit \ {UnitOf[l]} : runtime'[u] = runtime[u]
      /\ charged(r)' = charged(r) + hours * Rate[l]
      /\ \A q \in Rental \ {r} : charged(q)' = charged(q)

\* Money and hours move together: over the deposit, the accruals and the weekly
\* invoices nothing is charged but the hours an approval adds to a unit's
\* runtime, at their rate, and nothing that was charged is ever lost.
HoursCharged ==
  [][\/ \E l \in Log : chargesFor(l)
     \/ /\ UNCHANGED <<approvals, runtime>>
        /\ \A q \in Rental : charged(q)' = charged(q)]_vars
=============================================================================
