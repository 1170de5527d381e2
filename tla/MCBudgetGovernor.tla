--------------------------- MODULE MCBudgetGovernor ---------------------------
(* Model checking of BudgetGovernor: symmetry of requests and of tasks, and    *)
(* one counter that requests and writes both advance (each counter is compared *)
(* by itself and any of them decides), with a cap that two requests reach.     *)
EXTENDS BudgetGovernor, TLC

MCCounters == {"d1Writes"}
MCLimit == [d1Writes |-> 3]
MCPerRequest == [d1Writes |-> 1]
MCWrites == {[d1Writes |-> 1]}
Symmetry == Permutations(Requests) \cup Permutations(Tasks)
===============================================================================
