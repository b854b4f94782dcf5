------------------------------- MODULE MCPricing -------------------------------
(***************************************************************************)
(* Instances of Pricing for TLC.  No guard reads both tables, so the large    *)
(* sizes fill one at a time and the small one both.                          *)
(***************************************************************************)
EXTENDS Pricing, TLC

Rooms == {[cards |-> 3, params |-> 0], [cards |-> 0, params |-> 3], [cards |-> 1, params |-> 1]}

Symm == Permutations(Tx)
=============================================================================
