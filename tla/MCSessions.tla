------------------------------ MODULE MCSessions ------------------------------
(* Model checking of Sessions: symmetry of tabs, sessions, flows and callbacks *)
EXTENDS Sessions, TLC

Symmetry == Permutations(Tabs) \cup Permutations(Sids) \cup Permutations(Flows)
            \cup Permutations(Callbacks)
===============================================================================
