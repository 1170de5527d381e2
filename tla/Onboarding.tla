------------------------------- MODULE Onboarding -------------------------------
(***************************************************************************)
(* Migration users on their way to a destination account: the routes that  *)
(* add, import, map and remove them (worker/src/routes/users.ts,           *)
(* mapping.ts), that provision their accounts (provision.ts) and hand the  *)
(* temporary passwords out (passwords.ts), with the rows of D1 they read   *)
(* and write.  Requests run concurrently, a step at a time, and may be cut *)
(* off anywhere.  The destination directory is external: it creates an     *)
(* account unless the UPN is taken, and its accounts stay.                 *)
(***************************************************************************)
EXTENDS FiniteSets

CONSTANTS Users,       \* ids of rows in migration_users
          Upns,        \* addresses at the destination
          Passwords,   \* what generateTempPassword can return, each once
          Requests,    \* provisioning and download requests in flight at once
          Bodies,      \* what the bodies of requests on a row say
          Foreign,     \* the password of an account that EntraShift did not create
          None         \* no address, no user, no password, no account

ASSUME NoneIsNone == None \notin Users \cup Upns \cup Passwords
ASSUME ForeignIsForeign == Foreign \notin Passwords \cup {None}

MappingStatus == {"unmapped", "mapped", "auto_create", "provisioned", "invalid"}
Absent == {"none", "deleted"}

\* The fields that a request on a row may carry; a UPN left out is none.
Body == [email : Upns \cup {None, "left out"}, upn : Upns \cup {None}, auto : BOOLEAN,
         status : MappingStatus \cup {"left out"}]
ASSUME BodiesAreBodies == Bodies \subseteq Body
Given(field, otherwise) == IF field = "left out" THEN otherwise ELSE field

\* migration_users: target_email, target_upn, auto_create_target, mapping_status.
Row == [email : Upns \cup {None}, upn : Upns \cup {None}, auto : BOOLEAN,
        status : MappingStatus \cup Absent]
NoRow == [email |-> None, upn |-> None, auto |-> FALSE, status |-> "none"]

\* provisioned_credentials, as long as the password is in it.
Credential == [user : Users, upn : Upns, password : Passwords]

\* A request: what it does next and its local variables, email and upn those of the row
\* that it read.
Request == [at : {"idle", "next", "create", "store", "map", "audit", "failed", "purge",
                  "deliver"},
            todo : SUBSET Users, user : Users \cup {None}, email : Upns \cup {None},
            upn : Upns \cup {None}, password : Passwords \cup {None}, batch : SUBSET Credential]
Idle == [at |-> "idle", todo |-> {}, user |-> None, email |-> None, upn |-> None,
         password |-> None, batch |-> {}]

VARIABLES
    rows,      \* migration_users
    held,      \* credentials pending download
    account,   \* the password of each account at the destination
    requests,
    faults,    \* whether the failure that a behaviour may have has happened
    \* History variables, for the properties only.
    claimed,   \* users whose row says provisioned by the word of a request's body
    minted,    \* passwords generated
    handed,    \* credentials that an operator received
    again,     \* those received more than once
    gone       \* passwords that left D1, requests and operators' hands all alike

historyVars == <<minted, handed, again, gone>>
vars == <<rows, claimed, held, account, requests, faults, historyVars>>

Exists(u) == rows[u].status \notin Absent
Target(row) == IF row.upn # None THEN row.upn ELSE row.email
Secrets(credentials) == {c.password : c \in credentials}

\* Where a password can still be found.
InHand(q) == ({q.password} \ {None}) \cup Secrets(q.batch)
Kept == Secrets(held \cup handed) \cup UNION {InHand(requests[r]) : r \in Requests}

\* A step that may drop passwords: gone is what it drops.
Drops == gone' = gone \cup (Kept \ Kept')

Fault == ~faults /\ faults' = TRUE

-------------------------------------------------------------------------------
(* The queue of users. *)

\* A row written from a request's body.
Claim(u, row) ==
    /\ rows' = [rows EXCEPT ![u] = row]
    /\ claimed' = IF row.status = "provisioned" THEN claimed \cup {u} ELSE claimed \ {u}

Write(u, row) ==
    /\ Claim(u, row)
    /\ UNCHANGED <<held, account, requests, faults, historyVars>>

\* Fault seeded for TypeOK: a status that the table's CHECK does not have.
DeriveMisspelt(email, auto) == IF auto THEN "autoCreate" ELSE "mapped"

DeriveMappingStatus(email, auto) ==
    CASE auto -> "auto_create"
      [] ~auto /\ email # None -> "mapped"
      [] OTHER -> "unmapped"

AddedRow(body) ==
    LET email == Given(body.email, None)
    IN  [email |-> email, upn |-> body.upn, auto |-> body.auto,
         status |-> Given(body.status, DeriveMappingStatus(email, body.auto))]

\* Fault seeded for OnlyFailuresLockOut: an upsert that replaces the row, and with it
\* the credentials that refer to it.
AddReplaces(u, body) ==
    /\ Claim(u, AddedRow(body))
    /\ held' = {c \in held : c.user # u}
    /\ UNCHANGED <<account, requests, faults, minted, handed, again>>
    /\ Drops

\* POST /api/migration-users: a new row, the row of the same source address, or one
\* with the id of a removed row.
Add(u, body) == Write(u, AddedRow(body))

\* POST /api/migration-users/import: rows whose address is not in the queue are
\* accepted and upserted, over a row added since the queue was read.
Import(u, email, auto) ==
    /\ rows[u].status # "deleted"
    /\ email # None \/ auto
    /\ Write(u, [email |-> email, upn |-> None, auto |-> auto,
                 status |-> DeriveMappingStatus(email, auto)])

\* PATCH /api/migration-users/:id/mapping. What the body leaves out is that of the row
\* read, which a body may say as well, so that it may be an older one; but a UPN left
\* out is none. A UPN given is taken as it is, and one is looked up at the destination,
\* if that answers, for a mapping without. auto_create_target is not written.
Patch(u, body) ==
    /\ Exists(u)
    /\ LET email     == Given(body.email, rows[u].email)
           requested == Given(body.status, rows[u].status)
           found     == {n \in Upns : email # None /\ account[n] # None}
       IN  \E resolved \in found \cup {None} :
              LET upn == CASE requested = "auto_create" /\ body.upn = None -> email
                           [] requested = "mapped" /\ body.upn = None -> resolved
                           [] OTHER -> body.upn
                  failed == upn = None /\ requested \in {"auto_create", "mapped"}
              IN  Write(u, [email |-> email, upn |-> upn, auto |-> rows[u].auto,
                            status |-> IF failed THEN "invalid" ELSE requested])

\* DELETE /api/migration-users/:id cascades to the user's credentials.
Delete(u) ==
    /\ Exists(u)
    /\ rows' = [rows EXCEPT ![u] = [NoRow EXCEPT !.status = "deleted"]]
    /\ claimed' = claimed \ {u}
    /\ held' = {c \in held : c.user # u}
    /\ UNCHANGED <<account, requests, faults, minted, handed, again>>
    /\ Drops

\* The destination's own administrators create an account.
Appear(n) ==
    /\ account[n] = None
    /\ account' = [account EXCEPT ![n] = Foreign]
    /\ UNCHANGED <<rows, claimed, held, requests, faults, historyVars>>

-------------------------------------------------------------------------------
(* POST /api/provision: one user after the other. *)

Become(r, q) == requests' = [requests EXCEPT ![r] = q]
Choosing(todo) == [Idle EXCEPT !.at = "next", !.todo = todo]
GoTo(r, at) == requests' = [requests EXCEPT ![r].at = at]

Provision(r, ids) ==
    /\ requests[r] = Idle
    /\ ids # {}
    /\ Become(r, Choosing(ids))
    /\ UNCHANGED <<rows, claimed, held, account, faults, historyVars>>

\* The row is read; nothing asks whether it is provisioned already.
Eligible(u) == Exists(u) /\ rows[u].auto /\ Target(rows[u]) # None

NextUser(r, u) ==
    /\ requests[r].at = "next"
    /\ u \in requests[r].todo
    /\ LET rest == requests[r].todo \ {u}
       IN  IF ~Eligible(u)
           THEN Become(r, Choosing(rest)) /\ UNCHANGED minted
           ELSE \E p \in Passwords \ minted :
                   /\ Become(r, [at |-> "create", todo |-> rest, user |-> u,
                                 email |-> rows[u].email, upn |-> Target(rows[u]),
                                 password |-> p, batch |-> {}])
                   /\ minted' = minted \cup {p}
    /\ UNCHANGED <<rows, claimed, held, account, faults, handed, again, gone>>

\* Fault seeded for PasswordsWork: a UPN that is taken counts as provisioned.
CreateOrFind(r) ==
    /\ requests[r].at = "create"
    /\ LET n == requests[r].upn
       IN  account' = [account EXCEPT ![n] = IF @ = None THEN requests[r].password ELSE @]
    /\ GoTo(r, "store")
    /\ UNCHANGED <<rows, claimed, held, faults, historyVars>>

\* Graph creates the account under the UPN of the row that was read.
Create(r) ==
    /\ requests[r].at = "create"
    /\ LET n == requests[r].upn
       IN  /\ account[n] = None
           /\ account' = [account EXCEPT ![n] = requests[r].password]
    /\ GoTo(r, "store")
    /\ UNCHANGED <<rows, claimed, held, faults, historyVars>>

\* An exception on the way: the password is dropped, the user counts as failed.
GiveUp(r) ==
    /\ Become(r, [Choosing(requests[r].todo) EXCEPT !.at = "failed"])
    /\ UNCHANGED <<rows, claimed, account, minted, handed, again>>
    /\ Drops

\* Graph refuses, because the UPN is taken or for reasons of its own.
CreateFails(r) ==
    /\ requests[r].at = "create"
    /\ IF account[requests[r].upn] = None THEN Fault ELSE UNCHANGED faults
    /\ UNCHANGED held
    /\ GiveUp(r)

MyCredential(r) == [user |-> requests[r].user, upn |-> requests[r].upn,
                    password |-> requests[r].password]

\* credsDb.insert: the foreign key asks for the user's row.
Store(r) ==
    /\ requests[r].at = "store"
    /\ Exists(requests[r].user)
    /\ held' = held \cup {MyCredential(r)}
    /\ requests' = [requests EXCEPT ![r].at = "map", ![r].password = None]
    /\ UNCHANGED <<rows, claimed, account, faults, historyVars>>

\* The insert fails, Graph's answer was lost, or the insert's is.
StoreFails(r) ==
    /\ requests[r].at = "store"
    /\ IF Exists(requests[r].user)
       THEN Fault /\ held' \in {held, held \cup {MyCredential(r)}}
       ELSE UNCHANGED <<faults, held>>
    /\ GiveUp(r)

\* Fault seeded for ProvisionedHasAccount: setMappingStatus in place of updateMapping,
\* which leaves the addresses that another request has put there.
MapStatusOnly(r) ==
    /\ requests[r].at = "map"
    /\ LET u == requests[r].user
       IN  IF Exists(u)
           THEN rows' = [rows EXCEPT ![u].status = "provisioned"] /\ claimed' = claimed \ {u}
           ELSE UNCHANGED <<rows, claimed>>
    /\ GoTo(r, "audit")
    /\ UNCHANGED <<held, account, faults, historyVars>>

\* updateMapping writes back the addresses that were read, over any change since.
Map(r) ==
    /\ requests[r].at = "map"
    /\ LET u == requests[r].user
       IN  IF Exists(u)
           THEN /\ rows' = [rows EXCEPT ![u].email = requests[r].email,
                                        ![u].upn = requests[r].upn,
                                        ![u].status = "provisioned"]
                /\ claimed' = claimed \ {u}
           ELSE UNCHANGED <<rows, claimed>>
    /\ GoTo(r, "audit")
    /\ UNCHANGED <<held, account, faults, historyVars>>

\* updateMapping or the audit entry fails: reported as a failure all the same.
MapFails(r) ==
    /\ requests[r].at \in {"map", "audit"}
    /\ Fault
    /\ UNCHANGED held
    /\ GiveUp(r)

\* The audit entry of a success or of a failure; on to the next user.
Audited(r) ==
    /\ requests[r].at \in {"audit", "failed"}
    /\ Become(r, Choosing(requests[r].todo))
    /\ UNCHANGED <<rows, claimed, held, account, faults, historyVars>>

Finish(r) ==
    /\ requests[r] = Choosing({})
    /\ Become(r, Idle)
    /\ UNCHANGED <<rows, claimed, held, account, faults, historyVars>>

-------------------------------------------------------------------------------
(* GET /api/passwords/download. *)

List(r) ==
    /\ requests[r] = Idle
    /\ held # {}
    /\ Become(r, [Idle EXCEPT !.at = "purge", !.batch = held])
    /\ UNCHANGED <<rows, claimed, held, account, faults, historyVars>>

\* Fault seeded for LedgerSpec: the purge takes every pending credential.
PurgePending(r) ==
    /\ requests[r].at = "purge"
    /\ held' = {}
    /\ GoTo(r, "deliver")
    /\ UNCHANGED <<rows, claimed, account, faults, historyVars>>

\* markDownloadedAndPurge takes the ids listed, downloaded by another or not.
Purge(r) ==
    /\ requests[r].at = "purge"
    /\ held' = held \ requests[r].batch
    /\ GoTo(r, "deliver")
    /\ UNCHANGED <<rows, claimed, account, faults, historyVars>>

\* The audit entry is written and the response arrives.
Deliver(r) ==
    /\ requests[r].at = "deliver"
    /\ handed' = handed \cup requests[r].batch
    /\ again' = again \cup (handed \cap requests[r].batch)
    /\ Become(r, Idle)
    /\ UNCHANGED <<rows, claimed, held, account, faults, minted, gone>>

\* A request ends anywhere: a call outside the loop's try fails, the response is lost
\* or the Worker is evicted. A purge it was at may have been made.
Die(r) ==
    /\ requests[r] # Idle
    /\ Fault
    /\ held' \in {held, held \ (IF requests[r].at = "purge" THEN requests[r].batch ELSE {})}
    /\ Become(r, Idle)
    /\ UNCHANGED <<rows, claimed, account, minted, handed, again>>
    /\ Drops

-------------------------------------------------------------------------------
Init ==
    /\ rows = [u \in Users |-> NoRow]
    /\ claimed = {}
    /\ held = {}
    /\ account = [n \in Upns |-> None]
    /\ requests = [r \in Requests |-> Idle]
    /\ faults = FALSE
    /\ minted = {} /\ handed = {} /\ again = {} /\ gone = {}

Queue ==
    \/ \E u \in Users, body \in Bodies : Patch(u, body) \/ Add(u, body)
    \/ \E u \in Users, email \in Upns \cup {None}, auto \in BOOLEAN :
          Import(u, email, auto)
    \/ \E u \in Users : Delete(u)
    \/ \E n \in Upns : Appear(n)

Work(r) ==
    \/ \E ids \in SUBSET Users : Provision(r, ids)
    \/ \E u \in Users : NextUser(r, u)
    \/ Create(r) \/ CreateFails(r) \/ Store(r) \/ StoreFails(r) \/ Map(r) \/ MapFails(r)
    \/ Audited(r) \/ Finish(r)
    \/ List(r) \/ Purge(r) \/ Deliver(r) \/ Die(r)

Next == Queue \/ \E r \in Requests : Work(r)

Spec == Init /\ [][Next]_vars

-------------------------------------------------------------------------------
TypeOK ==
    /\ rows \in [Users -> Row]
    /\ claimed \subseteq Users
    /\ held \subseteq Credential
    /\ account \in [Upns -> Passwords \cup {Foreign, None}]
    /\ requests \in [Requests -> Request]
    /\ faults \in BOOLEAN
    /\ minted \subseteq Passwords
    /\ handed \subseteq Credential
    /\ again \subseteq Credential
    /\ gone \subseteq Passwords

(***************************************************************************)
(* Whatever requests cross, a password that is pending, about to be handed *)
(* out or handed out is the one its account was created with.              *)
(***************************************************************************)
Circulating == held \cup handed \cup UNION {requests[r].batch : r \in Requests}
PasswordsWork == \A c \in Circulating : account[c.upn] = c.password

(***************************************************************************)
(* A row that provisioning marked provisioned names an account that        *)
(* EntraShift created, which jobs will migrate to, however the row was     *)
(* remapped, reset or replaced after it was read, and until a request's    *)
(* body says provisioned itself or leaves that status standing.            *)
(***************************************************************************)
ProvisionedHasAccount ==
    \A u \in Users \ claimed : rows[u].status = "provisioned" =>
        rows[u].upn # None /\ account[rows[u].upn] \in Passwords

\* The ledger this module implements: the password of an account that EntraShift
\* created is with a request, in D1 or handed out; or it was dropped by a failure or
\* with its user's row.
Covered == {p \in Passwords : \E n \in Upns : account[n] = p}
Ledger == INSTANCE PassLedger WITH
             Items <- Passwords, covered <- Covered, kept <- Kept, excused <- gone

LedgerSpec == Ledger!Spec

\* Provisioning gave p to u: it is pending or with the request that created the account.
CreatedFor(p, u) ==
    \/ \E c \in held : c.password = p /\ c.user = u
    \/ \E r \in Requests : requests[r].password = p /\ requests[r].user = u

(***************************************************************************)
(* Requests that cross lock nobody out: the password of an account that    *)
(* exists is dropped only in a failure, or when the row of the very user   *)
(* it was created for has been deleted.  No reset, remapping, second       *)
(* provisioning or download of another operator drops it.                  *)
(***************************************************************************)
OnlyFailuresLockOut ==
    [][\A p \in (gone' \ gone) \cap Covered :
          \/ faults' # faults
          \/ \E u \in Users : rows'[u].status = "deleted" /\ CreatedFor(p, u)]_vars

-------------------------------------------------------------------------------
(* What comments say and the code does not do. *)

(***************************************************************************)
(* Passwords are purged in the request that lists them, "so this truly is  *)
(* one-time" (worker/src/routes/passwords.ts): none is handed out twice.   *)
(***************************************************************************)
HandedOutOnce == again = {}

(***************************************************************************)
(* A mapping "must resolve to a real destination user; otherwise flag      *)
(* invalid (never silently assume)" (worker/src/routes/mapping.ts): what   *)
(* the console's dialog saves as mapped names an account.                  *)
(***************************************************************************)
MappedIsResolved ==
    [][\A u \in Users, body \in Bodies :
          /\ body.status = "mapped" /\ body.email = body.upn
          /\ Patch(u, body)
          /\ rows'[u].status = "mapped"
          => account[rows'[u].upn] # None]_vars

(***************************************************************************)
(* "We [...] clearly persist the UPN that will actually be used"           *)
(* (worker/src/routes/mapping.ts): a provisioned row whose address alone   *)
(* is changed and that stays provisioned goes on naming a UPN.             *)
(***************************************************************************)
RemappedNamesUpn ==
    [][\A u \in Users \ claimed, body \in Bodies :
          /\ body.email \in Upns /\ body.upn = None /\ body.status = "left out"
          /\ rows[u].status = "provisioned"
          /\ Patch(u, body)
          /\ rows'[u].status = "provisioned"
          => rows'[u].upn # None]_vars
===============================================================================
