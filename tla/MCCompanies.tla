----------------------------- MODULE MCCompanies -----------------------------
(* Companies for TLC: the tax numbers are interchangeable.                     *)
EXTENDS Companies, TLC

Symmetry == Permutations(Tin)
=============================================================================
