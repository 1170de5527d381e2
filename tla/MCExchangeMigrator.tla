-------------------------- MODULE MCExchangeMigrator --------------------------
(* Model checking of ExchangeMigrator: a primary mailbox and an archive with a *)
(* folder and an item each.                                                    *)
EXTENDS ExchangeMigrator, TLC

CONSTANTS primary, archive, f1, f2, i1, i2

TwoBoxes == f1 :> primary @@ f2 :> archive
OneEach == i1 :> f1 @@ i2 :> f2

\* The two mailboxes, with what is in them, may be exchanged.
Symmetry ==
    {p \in Permutations(Mailboxes \cup Folders \cup Items) :
        /\ \A b \in Mailboxes : p[b] \in Mailboxes
        /\ \A f \in Folders : p[f] \in Folders /\ Box[p[f]] = p[Box[f]]
        /\ \A i \in Items : p[i] \in Items /\ Home[p[i]] = p[Home[i]]}
===============================================================================
