------------------------------- MODULE MCConsole -------------------------------
(* Model checking of Console: a user whom one search finds and another does     *)
(* not, and three audit entries, two of one moment, of which a filter finds     *)
(* those; pages of one row.                                                     *)
EXTENDS Console, TLC

CONSTANTS u1, e1, e2, e3, all, some
MCListing == [discovery |-> all :> {u1} @@ some :> {},
              audit |-> all :> {e1, e2, e3} @@ some :> {e2, e3}]
MCRank == u1 :> 1 @@ e1 :> 2 @@ e2 :> 1 @@ e3 :> 1
Symmetry == Permutations(Slots) \cup Permutations(Pollers)
===============================================================================
