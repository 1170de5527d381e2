-------------------------- MODULE MCOneDriveMigrator --------------------------
(* Model checking of OneDriveMigrator: a folder within a folder, a file in the *)
(* inner one and a file in the root.                                           *)
EXTENDS OneDriveMigrator, TLC

CONSTANTS outer, inner, deep, top

Tree == outer :> Root @@ inner :> outer @@ deep :> inner @@ top :> Root
OuterAndTop == outer :> 1 @@ inner :> 0 @@ deep :> 0 @@ top :> 1
Few == outer :> 1 @@ inner :> 1 @@ deep :> 1 @@ top :> 2
Depths == outer :> 0 @@ inner :> 1
===============================================================================
