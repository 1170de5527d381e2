----------------------------- MODULE MCOnboarding -----------------------------
(* Model checking of Onboarding: the bodies of requests on a row, and the      *)
(* symmetry of users, addresses, passwords and requests.                       *)
EXTENDS Onboarding, TLC

Says(email, upn, auto, status) ==
    [email |-> email, upn |-> upn, auto |-> auto, status |-> status]

\* What the console's screens send: the discovery screen adds, the dialog and the switch of
\* the mapping screen patch, the switch with the addresses of a row that it read before.
ConsoleBodies ==
    {Says(n, n, FALSE, "mapped") : n \in Upns}
    \cup {Says(None, None, FALSE, status) : status \in {"unmapped", "auto_create"}}
    \cup {Says(n, upn, TRUE, "auto_create") : n \in Upns, upn \in Upns \cup {None}}

\* What other clients may send: an address or a status alone, and a row as provisioned.
OtherBodies ==
    {Says(n, None, TRUE, "left out") : n \in Upns}
    \cup {Says("left out", None, FALSE, "mapped")}
    \cup {Says("left out", upn, FALSE, "provisioned") : upn \in Upns \cup {None}}

MCBodies == ConsoleBodies \cup OtherBodies

Symmetry == Permutations(Users) \cup Permutations(Upns) \cup Permutations(Passwords)
            \cup Permutations(Requests)
===============================================================================
