------------------------------ MODULE MCPayments ------------------------------
(***************************************************************************)
(* Small instances of Payments and Quotes: one booking, quotes and payments *)
(* that come in the order of their transactions.                           *)
(***************************************************************************)
EXTENDS Payments, TLC

\* Transactions open at once are interchangeable.
Symm == Permutations(Seat) \cup Permutations(Till)
=============================================================================
