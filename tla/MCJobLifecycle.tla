---------------------------- MODULE MCJobLifecycle ----------------------------
(* Model checking of JobLifecycle: model values for the jobs and requests. *)
EXTENDS JobLifecycle, TLC

Symmetry == Permutations(Jobs) \cup Permutations(Requests)
===============================================================================
