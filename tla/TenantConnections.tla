--------------------------- MODULE TenantConnections ---------------------------
(***************************************************************************)
(* The connections to the source and the destination tenant: the console's *)
(* screen (web/src/screens/TenantConnections.tsx) in several tabs, and the *)
(* routes that connect, test, rotate and remove them an await at a time    *)
(* (worker/src/routes/tenants.ts, db/tenants.ts).  A tab acts on what it   *)
(* last loaded.                                                            *)
(***************************************************************************)
CONSTANTS Roles,
          Apps,      \* app registrations: a tenant id with a client id
          Secrets,
          Ids,       \* row ids that connecting can draw
          Tabs,
          None,
          AppOf      \* Entra: the app that a secret was made for

ASSUME Assumptions ==
    AppOf \in [Secrets -> Apps] /\ None \notin Roles \cup Apps \cup Secrets \cup Ids

Row == [id : Ids, app : Apps, secret : Secrets, status : {"connected", "disconnected", "error"},
        overtaken : BOOLEAN]  \* history: the status is of a test of other credentials

\* What a tab shows of a row; the typed confirmation is compared with it.
Shown == [id : Ids, app : Apps]

\* The request of a tab, with what its route has read so far.
\* History: confirmed, the app on screen; named, the one in the audit record; changed,
\* that of the row it changed; raced, a connect since the first read.
Request == [kind : {"none", "connect", "test", "rotate", "disconnect"}, role : Roles,
            at : {"read", "material", "probe", "write", "audit", "done", "failed"},
            id : Ids \cup {None}, app : Apps \cup {None}, secret : Secrets \cup {None},
            verdict : {"none", "connected", "error"}, confirmed : Apps \cup {None},
            named : Apps \cup {None}, changed : Apps \cup {None}, raced : BOOLEAN]

NoRequest(role) ==
    [kind |-> "none", role |-> role, at |-> "done", id |-> None, app |-> None, secret |-> None,
     verdict |-> "none", confirmed |-> None, named |-> None, changed |-> None, raced |-> FALSE]

VARIABLES
    rows,       \* D1: tenants, at most one row a role
    shown,      \* per tab and role, the row as it was last loaded
    requests,   \* per tab, the request it waits for
    \* History variables, for the properties only.
    drawn,      \* ids that were given to a row
    verified    \* credentials that a test has found good

history == <<drawn, verified>>
vars == <<rows, shown, requests, history>>

Become(t, q) == requests' = [requests EXCEPT ![t] = q]

\* The row with the request's id: ids are never drawn twice, so it is that of the role.
Target(q) == IF rows[q.role] # None /\ rows[q.role].id = q.id THEN rows[q.role] ELSE None

-------------------------------------------------------------------------------
(* The console. *)

Listed(role) == IF rows[role] = None THEN None
                ELSE [id |-> rows[role].id, app |-> rows[role].app]

\* useAsync loads the list on mount ...
Load(t) ==
    /\ shown' = [shown EXCEPT ![t] = [role \in Roles |-> Listed(role)]]
    /\ UNCHANGED <<rows, requests, history>>

\* ... and after each request that succeeded; a failure is toasted.
Answer(t) ==
    LET q == requests[t]
    IN  /\ q.kind # "none" /\ q.at \in {"done", "failed"}
        /\ Become(t, NoRequest(q.role))
        /\ IF q.at = "done" THEN shown' = [shown EXCEPT ![t] = [role \in Roles |-> Listed(role)]]
                            ELSE UNCHANGED shown
        /\ UNCHANGED <<rows, history>>

Submit(t, q) ==
    /\ requests[t].kind = "none"
    /\ Become(t, q)
    /\ UNCHANGED <<rows, shown, history>>

\* A request about the row on screen.
About(t, role, kind) ==
    [NoRequest(role) EXCEPT !.kind = kind, !.at = "read", !.id = shown[t][role].id,
                            !.confirmed = shown[t][role].app]

\* The Connect button is there while the tab knows of no row.
Connect(t, role, app, secret) ==
    /\ shown[t][role] = None
    /\ Submit(t, [NoRequest(role) EXCEPT !.kind = "connect", !.at = "write", !.app = app,
                                         !.secret = secret, !.named = app])

Test(t, role) == shown[t][role] # None /\ Submit(t, About(t, role, "test"))

\* The dialog takes any secret, of another app too.
Rotate(t, role, secret) ==
    /\ shown[t][role] # None
    /\ Submit(t, [About(t, role, "rotate") EXCEPT !.secret = secret])

\* The tenant id on screen is typed to confirm; what is sent is the row's id.
Disconnect(t, role) == shown[t][role] # None /\ Submit(t, About(t, role, "disconnect"))

-------------------------------------------------------------------------------
(* The routes. *)

\* A call of D1 fails, after which the changes made so far stay.
Fail(t) ==
    /\ requests[t].at \in {"read", "material", "write", "audit"}
    /\ Become(t, [requests[t] EXCEPT !.at = "failed"])
    /\ UNCHANGED <<rows, shown, history>>

\* Fault seeded for AuditNamesTheRow: the record trusts what the console shows.
NamedOnScreen(q) == q.confirmed

\* The tenant that the audit record will name.
Named(q) == Target(q).app

\* getById, 404 when the row is gone.
Read(t) ==
    LET q == requests[t]
    IN  /\ q.at = "read"
        /\ Become(t, IF Target(q) = None THEN [q EXCEPT !.at = "failed"]
                     ELSE [q EXCEPT !.at = IF q.kind = "test" THEN "material" ELSE "write",
                                    !.named = Named(q)])
        /\ UNCHANGED <<rows, shown, history>>

\* getSecretMaterialById: a test reads the row a second time.
ReadMaterial(t) ==
    LET q == requests[t]
    IN  /\ q.at = "material"
        /\ Become(t, IF Target(q) = None THEN [q EXCEPT !.at = "failed"]
                     ELSE [q EXCEPT !.at = "probe", !.app = Target(q).app,
                                    !.secret = Target(q).secret, !.named = Target(q).app])
        /\ UNCHANGED <<rows, shown, history>>

\* testConnection: a token with every consent, or an error. Secrets expire, consents come
\* and go and calls fail, but no secret opens an app it was not made for.
Probe(t) ==
    LET q == requests[t]
    IN  /\ q.at = "probe"
        /\ \/ /\ AppOf[q.secret] = q.app
              /\ Become(t, [q EXCEPT !.at = "write", !.verdict = "connected"])
              /\ verified' = verified \cup {<<q.app, q.secret>>}
           \/ /\ Become(t, [q EXCEPT !.at = "write", !.verdict = "error"])
              /\ UNCHANGED verified
        /\ UNCHANGED <<rows, shown, drawn>>

\* upsert: a row that is there keeps its id and gets everything else.
Upsert(t, id) ==
    LET q == requests[t]
        old == rows[q.role]
    IN  /\ q.kind = "connect" /\ q.at = "write"
        /\ IF old = None THEN id \notin drawn ELSE id = old.id
        /\ rows' = [rows EXCEPT ![q.role] = [id |-> id, app |-> q.app, secret |-> q.secret,
                                            status |-> "disconnected", overtaken |-> FALSE]]
        /\ drawn' = drawn \cup {id}
        /\ requests' = [u \in Tabs |->
              IF u = t THEN [q EXCEPT !.at = "audit", !.app = None, !.secret = None, !.changed = q.app]
              ELSE [requests[u] EXCEPT !.raced = @ \/ requests[u].at \in {"material", "probe", "write"}]]
        /\ UNCHANGED <<shown, verified>>

\* Fault seeded for ConnectedWasTested: the status of the old secret stays.
SecretOnly(row, q) == [row EXCEPT !.secret = q.secret]

\* rotateSecret leaves the tenant to be tested again.
Rotated(row, q) == [row EXCEPT !.secret = q.secret, !.status = "disconnected", !.overtaken = FALSE]

\* Fault seeded for TypeOK: a status that the console has no badge for.
JudgedMisspelt(row, q) ==
    [row EXCEPT !.status = IF q.verdict = "error" THEN "failed" ELSE @, !.overtaken = FALSE]

\* setStatus writes the verdict on whatever the row holds by now.
Judged(row, q) == [row EXCEPT !.status = q.verdict,
                              !.overtaken = <<row.app, row.secret>> # <<q.app, q.secret>>]

\* What UPDATE or DELETE by id make of the role's row: nothing when the id is gone.
Updated(q) ==
    CASE Target(q) = None -> rows[q.role]
      [] Target(q) # None /\ q.kind = "rotate" -> Rotated(Target(q), q)
      [] Target(q) # None /\ q.kind = "test" -> Judged(Target(q), q)
      [] Target(q) # None /\ q.kind = "disconnect" -> None

Change(t) ==
    LET q == requests[t]
    IN  /\ q.kind \in {"rotate", "test", "disconnect"} /\ q.at = "write"
        /\ rows' = [rows EXCEPT ![q.role] = Updated(q)]
        /\ Become(t, [q EXCEPT !.at = "audit", !.app = None, !.secret = None, !.verdict = "none",
                               !.changed = IF Target(q) = None THEN None ELSE Target(q).app])
        /\ UNCHANGED <<shown, history>>

Audit(t) ==
    /\ requests[t].at = "audit"
    /\ Become(t, [requests[t] EXCEPT !.at = "done"])
    /\ UNCHANGED <<rows, shown, history>>

-------------------------------------------------------------------------------

Init ==
    /\ rows = [role \in Roles |-> None]
    /\ shown = [t \in Tabs |-> [role \in Roles |-> None]]
    /\ requests \in [Tabs -> {NoRequest(role) : role \in Roles}]
    /\ drawn = {} /\ verified = {}

Next ==
    \/ \E t \in Tabs : \/ Load(t) \/ Answer(t) \/ Fail(t) \/ Read(t) \/ ReadMaterial(t)
                       \/ Probe(t) \/ Change(t) \/ Audit(t)
    \/ \E t \in Tabs, role \in Roles : Test(t, role) \/ Disconnect(t, role)
    \/ \E t \in Tabs, role \in Roles, secret \in Secrets :
          Rotate(t, role, secret) \/ \E app \in Apps : Connect(t, role, app, secret)
    \/ \E t \in Tabs, id \in Ids : Upsert(t, id)

Spec == Init /\ [][Next]_vars

-------------------------------------------------------------------------------
(* Properties. *)

TypeOK ==
    /\ rows \in [Roles -> Row \cup {None}]
    /\ shown \in [Tabs -> [Roles -> Shown \cup {None}]]
    /\ requests \in [Tabs -> Request]
    /\ drawn \subseteq Ids /\ verified \subseteq Apps \X Secrets

\* A role that says connected holds credentials that a test has found good, unless the
\* test that said so was overtaken by a rotation or a reconnection while it was probing.
ConnectedWasTested ==
    \A role \in Roles : rows[role] # None /\ rows[role].status = "connected"
                           => \/ rows[role].overtaken
                              \/ <<rows[role].app, rows[role].secret>> \in verified

\* A tenant that was removed stays so: no test or rotation that was under way brings its
\* row, and with it the secret, back.
RemovedStaysRemoved ==
    [][\A role \in Roles : rows'[role] # None /\ (rows[role] = None \/ rows[role].id # rows'[role].id)
                              => rows'[role].id \notin drawn]_vars

\* The audit record names the app whose row was changed, from however old a screen the
\* request came, unless the role was connected anew between the route's read and write.
AuditNamesTheRow ==
    \A t \in Tabs : requests[t].changed # None /\ ~requests[t].raced
                       => requests[t].named = requests[t].changed

\* "disconnect (typed-confirmation gated in the UI)", worker/src/routes/tenants.ts: what
\* is removed is the tenant whose id was typed.
DisconnectsWhatWasConfirmed ==
    \A t \in Tabs : requests[t].kind = "disconnect" /\ requests[t].changed # None
                       => requests[t].changed = requests[t].confirmed
===============================================================================
