------------------------------ MODULE PassLedger ------------------------------
(***************************************************************************)
(* What a migrator owes the items of a mailbox or drive: an item that the  *)
(* durable resume point will not offer again is at the destination, in the *)
(* skip log, or on its way to the log; otherwise it is excused, in one of  *)
(* the ways the code knowingly or unknowingly drops it.                    *)
(***************************************************************************)

CONSTANT Items

VARIABLES covered,   \* items the resume point in D1 does not offer again
          kept,      \* items at the destination or in a skip record
          excused    \* items dropped without a trace

vars == <<covered, kept, excused>>

TypeOK ==
    /\ covered \subseteq Items
    /\ kept \subseteq Items
    /\ excused \subseteq Items

Init ==
    /\ covered = {}
    /\ kept = {}
    /\ excused = {}

\* Items reach the destination or get a skip record.
Keep(S) ==
    /\ kept' = kept \cup S
    /\ UNCHANGED <<covered, excused>>

\* Items are given up: cut off by a stop, or their records lost with the engine's
\* memory.
Excuse(S, lost) ==
    /\ kept' = kept \ lost
    /\ lost \subseteq S
    /\ excused' = excused \cup S
    /\ UNCHANGED covered

\* The resume point moves past items that are all kept or excused.
Advance(S) ==
    /\ S \subseteq kept \cup excused
    /\ covered' = S
    /\ UNCHANGED <<kept, excused>>

Next == \E S, T \in SUBSET Items : Keep(S) \/ Excuse(S, T) \/ Advance(S)

Spec == Init /\ [][Next]_vars

(***************************************************************************)
(* No item is behind the resume point without being kept or excused.       *)
(***************************************************************************)
NothingForgotten == covered \subseteq kept \cup excused
===============================================================================
