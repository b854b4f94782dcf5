---------------------------- MODULE DepositAccount ----------------------------
(***************************************************************************)
(* What the money path promises a rental's two parties: a deposit that is  *)
(* drawn down only after it has been paid and never past what was put in,  *)
(* an open balance that grows only once the deposit is spent, and weekly   *)
(* invoices that move the open balance and nothing else.                   *)
(***************************************************************************)
EXTENDS Integers

CONSTANTS Rental, Deposit

VARIABLES paid,    \* the deposit has been paid
          drawn,   \* taken from the deposit
          open,    \* charged past it, not yet invoiced
          invoiced \* on weekly invoices

vars == <<paid, drawn, open, invoiced>>

Init ==
  /\ paid = [r \in Rental |-> FALSE]
  /\ drawn = [r \in Rental |-> 0]
  /\ open = [r \in Rental |-> 0]
  /\ invoiced = [r \in Rental |-> 0]

\* f changes at r alone.
onlyAt(f, g, r) == \A s \in Rental \ {r} : g[s] = f[s]

Pay(r) ==
  /\ ~paid[r]
  /\ paid' = [paid EXCEPT ![r] = TRUE]
  /\ UNCHANGED <<drawn, open, invoiced>>

\* One approved charge: the deposit first, and past it only when it is spent.
Charge(r) ==
  /\ paid[r]
  /\ onlyAt(drawn, drawn', r) /\ onlyAt(open, open', r)
  /\ drawn'[r] \in drawn[r]..Deposit[r]
  /\ open'[r] >= open[r]
  /\ open'[r] > open[r] => drawn'[r] = Deposit[r]
  /\ UNCHANGED <<paid, invoiced>>

\* One weekly invoice: what leaves the open balance is what is invoiced.
Invoice(r) ==
  /\ onlyAt(open, open', r) /\ onlyAt(invoiced, invoiced', r)
  /\ open'[r] \in 0..(open[r] - 1)
  /\ invoiced'[r] - invoiced[r] = open[r] - open'[r]
  /\ UNCHANGED <<paid, drawn>>

Next == \E r \in Rental : Pay(r) \/ Charge(r) \/ Invoice(r)

Spec == Init /\ [][Next]_vars
=============================================================================
