-------------------------- MODULE MCTenantConnections --------------------------
(* Model checking of TenantConnections: one role (the roles' rows, ids and     *)
(* buttons are apart) and two apps with a secret each, which may be mixed up;  *)
(* symmetry of tabs, of ids and of the two apps with their secrets.            *)
EXTENDS TenantConnections, TLC

CONSTANTS a1, a2, x1, x2
MCAppOf == x1 :> a1 @@ x2 :> a2
Swap == a1 :> a2 @@ a2 :> a1 @@ x1 :> x2 @@ x2 :> x1
Symmetry == Permutations(Tabs) \cup Permutations(Ids) \cup {Swap}
===============================================================================
