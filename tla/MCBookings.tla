------------------------------ MODULE MCBookings ------------------------------
(***************************************************************************)
(* Small instances of Bookings: two windows that meet, which are booked by  *)
(* turns, twice, or grown into by an extension.                            *)
(***************************************************************************)
EXTENDS Bookings, TLC

Windows == {[start |-> 0, end |-> 1], [start |-> 1, end |-> 2]}

OneWindow == {[start |-> 0, end |-> 1]}

\* All ids are interchangeable, and so are the units and the clerks.
Symm == Permutations(Unit) \cup Permutations(Rental) \cup Permutations(Hold)
          \cup Permutations(Request) \cup Permutations(Clerk)
=============================================================================
