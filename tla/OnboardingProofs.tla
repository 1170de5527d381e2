---------------------------- MODULE OnboardingProofs ----------------------------
(***************************************************************************)
(* Theorems of Onboarding for any number of users, addresses, passwords    *)
(* and concurrent requests: type correctness, that circulating passwords   *)
(* work, that a provisioned user has an account, that no password of an    *)
(* account is lost unless it was dropped, as the implementation of         *)
(* PassLedger, and that none is dropped but in a failure or with its       *)
(* user's row.                                                             *)
(***************************************************************************)
EXTENDS Onboarding, TLAPS

\* A row without addresses and an idle request are well typed.
LEMMA EmptyTypes == NoRow \in Row /\ Idle \in Request
  BY DEF NoRow, Idle, Row, Request, MappingStatus, Absent

\* What a request becomes when it turns to the users left.
LEMMA ChoosingTypes ==
  ASSUME NEW todo \in SUBSET Users
  PROVE  /\ Choosing(todo) \in Request
         /\ [Choosing(todo) EXCEPT !.at = "failed"] \in Request
  BY EmptyTypes DEF Choosing, Idle, Request

\* A request of any type keeps the type of requests.
LEMMA BecomeTypes ==
  ASSUME TypeOK, NEW r \in Requests, NEW q \in Request, Become(r, q)
  PROVE  requests' \in [Requests -> Request]
  BY DEF TypeOK, Become

\* Where requests may go on to.
LEMMA GoToTypes ==
  ASSUME TypeOK, NEW r \in Requests, NEW at \in {"store", "audit", "deliver"}, GoTo(r, at)
  PROVE  /\ requests' \in [Requests -> Request]
         /\ Become(r, [requests[r] EXCEPT !.at = at])
<1>1. [requests[r] EXCEPT !.at = at] \in Request
  BY DEF TypeOK, Request
<1>2. Become(r, [requests[r] EXCEPT !.at = at])
  BY DEF GoTo, Become, TypeOK
<1>3. QED BY <1>1, <1>2, BecomeTypes

\* What is in a request's hands are passwords.
LEMMA KeptTypes == TypeOK => Kept \subseteq Passwords
<1> SUFFICES ASSUME TypeOK PROVE Kept \subseteq Passwords
  OBVIOUS
<1>1. ASSUME NEW r \in Requests PROVE InHand(requests[r]) \subseteq Passwords
  BY DEF TypeOK, Request, Credential, InHand, Secrets
<1>2. Secrets(held \cup handed) \subseteq Passwords
  BY DEF TypeOK, Credential, Secrets
<1>3. QED BY <1>1, <1>2 DEF Kept

\* A step that drops passwords keeps the type of gone.
LEMMA DropsTypes == ASSUME TypeOK, Drops PROVE gone' \subseteq Passwords
  BY KeptTypes DEF TypeOK, Drops

\* The initial state is well typed.
LEMMA InitTypes == Init => TypeOK
  BY EmptyTypes DEF Init, TypeOK

-------------------------------------------------------------------------------
(* Types and phases. *)

Holding == {"create", "store"}
Provisioning == {"create", "store", "map", "audit"}

\* What a request at each step has in its local variables.
Phase(q) ==
    /\ q.at \in Provisioning => q.user \in Users /\ q.upn \in Upns
    /\ q.at \in Holding <=> q.password # None
    /\ q.batch # {} => q.at \in {"purge", "deliver"}

\* Typed, and every request in a phase.
TypeInv == TypeOK /\ \A r \in Requests : Phase(requests[r])

\* Idle and choosing requests hold nothing.
LEMMA EmptyPhase ==
  ASSUME NEW todo
  PROVE  Phase(Idle) /\ Phase(Choosing(todo)) /\ Phase([Choosing(todo) EXCEPT !.at = "failed"])
  BY DEF Phase, Idle, Choosing, Holding, Provisioning

\* The other requests stay as they are.
LEMMA BecomePhase ==
  ASSUME TypeInv, NEW r \in Requests, NEW q, Become(r, q), Phase(q)
  PROVE  \A s \in Requests : Phase(requests'[s])
  BY DEF TypeInv, TypeOK, Become

\* At the start every request is idle.
LEMMA InitPhase == Init => TypeInv
  BY InitTypes, EmptyPhase DEF Init, TypeInv

\* What is derived from a row's fields is a status.
LEMMA DerivedStatus ==
  ASSUME NEW email, NEW auto \in BOOLEAN
  PROVE  DeriveMappingStatus(email, auto) \in {"auto_create", "mapped", "unmapped"}
  BY DEF DeriveMappingStatus

\* A row that a body adds is well typed.
LEMMA AddedTypes ==
  ASSUME NEW body \in Bodies
  PROVE  AddedRow(body) \in Row /\ AddedRow(body).status \in MappingStatus
<1> DEFINE email == Given(body.email, None)
           status == Given(body.status, DeriveMappingStatus(email, body.auto))
<1>1. body \in Body
  BY BodiesAreBodies
<1>2. /\ email \in Upns \cup {None} /\ body.upn \in Upns \cup {None}
      /\ body.auto \in BOOLEAN
  BY <1>1 DEF Body, Given
<1>3. DeriveMappingStatus(email, body.auto) \in MappingStatus
  BY <1>2, DerivedStatus DEF MappingStatus
<1>4. status \in MappingStatus
  BY <1>1, <1>3 DEF Body, Given
<1>5. AddedRow(body) = [email |-> email, upn |-> body.upn, auto |-> body.auto,
                        status |-> status]
  BY DEF AddedRow
<1> HIDE DEF email, status
<1>6. QED BY <1>2, <1>4, <1>5 DEF Row

\* A mapping patched is a row again.
LEMMA PatchedRow ==
  ASSUME TypeInv, NEW u \in Users, NEW body \in Bodies, Patch(u, body)
  PROVE  \E row \in Row : row.status \in MappingStatus /\ Write(u, row)
<1> DEFINE email     == Given(body.email, rows[u].email)
           requested == Given(body.status, rows[u].status)
           found     == {n \in Upns : email # None /\ account[n] # None}
           Upn(resolved) == CASE requested = "auto_create" /\ body.upn = None -> email
                              [] requested = "mapped" /\ body.upn = None -> resolved
                              [] OTHER -> body.upn
           Failed(upn) == upn = None /\ requested \in {"auto_create", "mapped"}
           Patched(upn) == [email |-> email, upn |-> upn, auto |-> rows[u].auto,
                            status |-> IF Failed(upn) THEN "invalid" ELSE requested]
<1>1. rows[u] \in Row /\ rows[u].status \in MappingStatus
  BY DEF TypeInv, TypeOK, Patch, Exists, Row
<1>2. body.email \in Upns \cup {None, "left out"} /\ body.upn \in Upns \cup {None}
      /\ body.status \in MappingStatus \cup {"left out"}
  BY BodiesAreBodies DEF Body
<1>3. email \in Upns \cup {None} /\ requested \in MappingStatus
  BY <1>1, <1>2 DEF Given, Row
<1>4. PICK resolved \in found \cup {None} : Write(u, Patched(Upn(resolved)))
  BY DEF Patch
<1> HIDE DEF email, requested
<1>5. Upn(resolved) \in Upns \cup {None}
  BY <1>2, <1>3
<1>6. ASSUME NEW upn \in Upns \cup {None}
      PROVE  Patched(upn) \in Row /\ Patched(upn).status \in MappingStatus
  BY <1>1, <1>3 DEF Row, MappingStatus
<1> HIDE DEF Patched
<1>7. QED BY <1>4, <1>5, <1>6

\* Changes to the queue keep the invariant.
LEMMA QueueTypes == TypeInv /\ Queue => TypeInv'
<1> SUFFICES ASSUME TypeInv, Queue PROVE TypeInv'
  OBVIOUS
<1> USE DEF TypeInv
<1>w. ASSUME NEW u \in Users, NEW row \in Row, Write(u, row) PROVE TypeInv'
  BY <1>w DEF Write, Claim, TypeOK, historyVars
<1>1. ASSUME NEW u \in Users, NEW body \in Bodies, Add(u, body) PROVE TypeInv'
  BY <1>1, <1>w, AddedTypes DEF Add
<1>2. ASSUME NEW u \in Users, Delete(u) PROVE TypeInv'
  <2>1. [NoRow EXCEPT !.status = "deleted"] \in Row
    BY DEF NoRow, Row, Absent
  <2>2. QED BY <1>2, <2>1, DropsTypes DEF Delete, TypeOK
<1>3. ASSUME NEW u \in Users, NEW email \in Upns \cup {None}, NEW auto \in BOOLEAN,
             Import(u, email, auto)
      PROVE  TypeInv'
  <2>1. DeriveMappingStatus(email, auto) \in MappingStatus
    BY DEF DeriveMappingStatus, MappingStatus
  <2>2. [email |-> email, upn |-> None, auto |-> auto,
         status |-> DeriveMappingStatus(email, auto)] \in Row
    BY <2>1 DEF Row
  <2>3. QED BY <1>3, <2>2, <1>w DEF Import
<1>4. ASSUME NEW u \in Users, NEW body \in Bodies, Patch(u, body) PROVE TypeInv'
  <2>1. PICK row \in Row : Write(u, row)
    BY <1>4, PatchedRow
  <2>2. QED BY <2>1, <1>w
<1>5. ASSUME NEW n \in Upns, Appear(n) PROVE TypeInv'
  BY <1>5 DEF Appear, TypeOK, historyVars
<1>6. QED BY <1>1, <1>2, <1>3, <1>4, <1>5 DEF Queue

\* An exception keeps the invariant.
LEMMA GiveUpTypes ==
  ASSUME TypeInv, NEW r \in Requests, GiveUp(r), faults' \in BOOLEAN,
         held' \subseteq Credential
  PROVE  TypeInv'
<1> DEFINE q == [Choosing(requests[r].todo) EXCEPT !.at = "failed"]
<1>1. Become(r, q) /\ q \in Request /\ Phase(q)
  BY ChoosingTypes, EmptyPhase DEF GiveUp, TypeInv, TypeOK, Request
<1>2. requests' \in [Requests -> Request] /\ \A s \in Requests : Phase(requests'[s])
  BY <1>1, BecomeTypes, BecomePhase DEF TypeInv
<1>3. gone' \subseteq Passwords
  BY DropsTypes DEF GiveUp, TypeInv
<1>4. QED BY <1>2, <1>3 DEF GiveUp, TypeInv, TypeOK, Phase

\* The credential of a user whose password is stored is well typed.
LEMMA CredentialTypes ==
  ASSUME TypeInv, NEW r \in Requests, requests[r].at = "store"
  PROVE  MyCredential(r) \in Credential /\ requests[r].password \in Passwords
  BY DEF MyCredential, Credential, TypeInv, TypeOK, Phase, Request, Holding, Provisioning

\* The steps of a provisioning request keep the invariant.
LEMMA ProvisionTypes ==
  ASSUME TypeInv, NEW r \in Requests,
         \/ \E ids \in SUBSET Users : Provision(r, ids)
         \/ \E u \in Users : NextUser(r, u)
         \/ Create(r) \/ CreateFails(r) \/ Store(r) \/ StoreFails(r) \/ Map(r) \/ MapFails(r)
         \/ Audited(r) \/ Finish(r)
  PROVE  TypeInv'
<1>b. ASSUME NEW q \in Request, Become(r, q), Phase(q),
             held' \subseteq Credential, rows' \in [Users -> Row], claimed' \subseteq Users,
             account' \in [Upns -> Passwords \cup {Foreign, None}],
             minted' \subseteq Passwords, faults' \in BOOLEAN,
             UNCHANGED <<handed, again, gone>>
      PROVE  TypeInv'
  <2>1. requests' \in [Requests -> Request] /\ \A s \in Requests : Phase(requests'[s])
    BY <1>b, BecomeTypes, BecomePhase DEF TypeInv
  <2>2. QED BY <1>b, <2>1 DEF TypeInv, TypeOK, Phase
<1>t. requests[r] \in Request /\ Phase(requests[r])
  BY DEF TypeInv, TypeOK
<1> USE DEF historyVars
<1>1. ASSUME NEW ids \in SUBSET Users, Provision(r, ids) PROVE TypeInv'
  BY <1>1, <1>b, ChoosingTypes, EmptyPhase DEF Provision, TypeInv, TypeOK
<1>2. ASSUME NEW u \in Users, NextUser(r, u) PROVE TypeInv'
  <2> DEFINE rest == requests[r].todo \ {u}
  <2>1. rest \in SUBSET Users
    BY <1>t DEF Request
  <2>2. CASE ~Eligible(u)
    BY <1>2, <2>1, <2>2, <1>b, ChoosingTypes, EmptyPhase DEF NextUser, TypeInv, TypeOK
  <2>3. CASE Eligible(u)
    <3>1. PICK p \in Passwords \ minted :
             /\ Become(r, [at |-> "create", todo |-> rest, user |-> u,
                           email |-> rows[u].email, upn |-> Target(rows[u]),
                           password |-> p, batch |-> {}])
             /\ minted' = minted \cup {p}
      BY <1>2, <2>3 DEF NextUser
    <3> DEFINE q == [at |-> "create", todo |-> rest, user |-> u,
                     email |-> rows[u].email, upn |-> Target(rows[u]),
                     password |-> p, batch |-> {}]
    <3>2. rows[u] \in Row /\ Target(rows[u]) \in Upns
      BY <2>3 DEF Eligible, Target, TypeInv, TypeOK, Row
    <3>3. q \in Request
      BY <2>1, <3>2 DEF Request, Row
    <3>4. Phase(q)
      BY <3>2, NoneIsNone DEF Phase, Holding, Provisioning
    <3>5. /\ UNCHANGED <<rows, claimed, held, account, faults, handed, again, gone>>
          /\ minted' \subseteq Passwords
      BY <1>2, <3>1 DEF NextUser, TypeInv, TypeOK
    <3>6. QED BY <3>1, <3>3, <3>4, <3>5, <1>b DEF TypeInv, TypeOK
  <2>4. QED BY <2>2, <2>3
<1>3. CASE Create(r)
  <2> DEFINE q == [requests[r] EXCEPT !.at = "store"]
  <2>1. Become(r, q)
    BY <1>3, GoToTypes DEF Create, TypeInv
  <2>2. q \in Request /\ Phase(q)
    BY <1>3, <1>t DEF Create, Request, Phase, Holding, Provisioning
  <2>3. account' \in [Upns -> Passwords \cup {Foreign, None}]
    BY <1>3, <1>t DEF Create, TypeInv, TypeOK, Request
  <2>4. QED BY <1>3, <2>1, <2>2, <2>3, <1>b DEF Create, TypeInv, TypeOK
<1>4. CASE CreateFails(r) \/ MapFails(r)
  BY <1>4, GiveUpTypes DEF CreateFails, MapFails, Fault, TypeInv, TypeOK
<1>5. CASE StoreFails(r)
  BY <1>5, GiveUpTypes, CredentialTypes DEF StoreFails, Fault, TypeInv, TypeOK
<1>6. CASE Store(r)
  <2> DEFINE q == [requests[r] EXCEPT !.at = "map", !.password = None]
  <2>1. Become(r, q)
    BY <1>6 DEF Store, Become, TypeInv, TypeOK
  <2>2. q \in Request /\ Phase(q)
    BY <1>6, <1>t DEF Store, Request, Phase, Holding, Provisioning
  <2>3. held' \subseteq Credential
    BY <1>6, CredentialTypes DEF Store, TypeInv, TypeOK
  <2>4. QED BY <1>6, <2>1, <2>2, <2>3, <1>b DEF Store, TypeInv, TypeOK
<1>7. CASE Map(r)
  <2> DEFINE q == [requests[r] EXCEPT !.at = "audit"]
  <2>1. Become(r, q)
    BY <1>7, GoToTypes DEF Map, TypeInv
  <2>2. q \in Request /\ Phase(q)
    BY <1>7, <1>t DEF Map, Request, Phase, Holding, Provisioning
  <2>3. rows' \in [Users -> Row]
    <3> DEFINE u == requests[r].user
               row == [rows[u] EXCEPT !.email = requests[r].email,
                                      !.upn = requests[r].upn,
                                      !.status = "provisioned"]
    <3>1. u \in Users /\ requests[r].email \in Upns \cup {None} /\ requests[r].upn \in Upns
      BY <1>7, <1>t DEF Map, Request, Phase, Provisioning
    <3>2. row \in Row
      BY <3>1 DEF TypeInv, TypeOK, Row, MappingStatus
    <3>3. rows' = [rows EXCEPT ![u] = row] \/ rows' = rows
      BY <1>7 DEF Map
    <3>4. QED BY <3>1, <3>2, <3>3 DEF TypeInv, TypeOK
  <2>4. QED BY <1>7, <2>1, <2>2, <2>3, <1>b DEF Map, TypeInv, TypeOK
<1>8. CASE Audited(r)
  BY <1>8, <1>t, <1>b, ChoosingTypes, EmptyPhase DEF Audited, Request, TypeInv, TypeOK
<1>9. CASE Finish(r)
  BY <1>9, <1>b, EmptyTypes, EmptyPhase DEF Finish, TypeInv, TypeOK
<1>10. QED BY <1>1, <1>2, <1>3, <1>4, <1>5, <1>6, <1>7, <1>8, <1>9

\* The steps of a download, and a request cut off, keep the invariant.
LEMMA DownloadTypes ==
  ASSUME TypeInv, NEW r \in Requests,
         List(r) \/ Purge(r) \/ Deliver(r) \/ Die(r)
  PROVE  TypeInv'
<1>t. requests[r] \in Request /\ Phase(requests[r])
  BY DEF TypeInv, TypeOK
<1> USE DEF historyVars
<1>1. CASE List(r)
  <2> DEFINE q == [Idle EXCEPT !.at = "purge", !.batch = held]
  <2>1. q \in Request /\ Phase(q)
    BY EmptyTypes DEF Idle, Request, Phase, Holding, Provisioning, TypeInv, TypeOK
  <2>2. requests' \in [Requests -> Request] /\ \A s \in Requests : Phase(requests'[s])
    BY <1>1, <2>1, BecomeTypes, BecomePhase DEF List, TypeInv
  <2>3. QED BY <1>1, <2>2 DEF List, TypeInv, TypeOK, Phase
<1>2. CASE Purge(r)
  <2> DEFINE q == [requests[r] EXCEPT !.at = "deliver"]
  <2>1. Become(r, q) /\ requests' \in [Requests -> Request]
    BY <1>2, GoToTypes DEF Purge, TypeInv
  <2>2. Phase(q)
    BY <1>2, <1>t DEF Purge, Request, Phase, Holding, Provisioning
  <2>3. \A s \in Requests : Phase(requests'[s])
    BY <2>1, <2>2, BecomePhase
  <2>4. QED BY <1>2, <2>1, <2>3 DEF Purge, TypeInv, TypeOK, Phase
<1>3. CASE Deliver(r)
  <2>1. requests' \in [Requests -> Request] /\ \A s \in Requests : Phase(requests'[s])
    BY <1>3, EmptyTypes, EmptyPhase, BecomeTypes, BecomePhase DEF Deliver, TypeInv
  <2>2. QED BY <1>3, <1>t, <2>1 DEF Deliver, TypeInv, TypeOK, Phase, Request
<1>4. CASE Die(r)
  <2>1. requests' \in [Requests -> Request] /\ \A s \in Requests : Phase(requests'[s])
    BY <1>4, EmptyTypes, EmptyPhase, BecomeTypes, BecomePhase DEF Die, TypeInv
  <2>2. held' \subseteq Credential /\ faults' \in BOOLEAN
    BY <1>4 DEF Die, Fault, TypeInv, TypeOK
  <2>3. gone' \subseteq Passwords
    BY <1>4, DropsTypes DEF Die, TypeInv
  <2>4. QED BY <1>4, <2>1, <2>2, <2>3 DEF Die, TypeInv, TypeOK, Phase
<1>5. QED BY <1>1, <1>2, <1>3, <1>4

\* Every step keeps the types and phases.
LEMMA StepTypes == TypeInv /\ [Next]_vars => TypeInv'
<1>1. ASSUME TypeInv, UNCHANGED vars PROVE TypeInv'
  BY <1>1 DEF TypeInv, TypeOK, Phase, vars, historyVars
<1>2. ASSUME TypeInv, NEW r \in Requests, Work(r) PROVE TypeInv'
  BY <1>2, ProvisionTypes, DownloadTypes DEF Work
<1>3. QED BY <1>1, <1>2, QueueTypes DEF Next

(***************************************************************************)
(* Every variable keeps its type.                                          *)
(***************************************************************************)
THEOREM TypeCorrect == Spec => []TypeOK
<1>1. Spec => []TypeInv
  BY InitPhase, StepTypes, PTL DEF Spec
<1>2. QED BY <1>1, PTL DEF TypeInv

-------------------------------------------------------------------------------
(* Accounts and what is recorded of them. *)

\* A request past the Graph call has made the account it records, and the password it
\* still holds is the account's.
Created(q, accounts) ==
    /\ q.at \in {"store", "map"} => accounts[q.upn] \in Passwords
    /\ q.at = "store" => accounts[q.upn] = q.password

\* With the two properties, what a provisioning request is about to record holds.
WorkInv ==
    /\ PasswordsWork
    /\ ProvisionedHasAccount
    /\ \A r \in Requests : Created(requests[r], account)

\* No account changes once it is there.
AccountsStay == \A n \in Upns : account[n] # None => account'[n] = account[n]

\* Nothing circulates and nothing is provisioned at the start.
LEMMA InitWork == Init => WorkInv
  BY DEF Init, WorkInv, PasswordsWork, Circulating, ProvisionedHasAccount, Created, NoRow, Idle

\* Destination accounts stay, whatever the step.
LEMMA StepAccounts == TypeInv /\ [Next]_vars => AccountsStay
<1> SUFFICES ASSUME TypeInv, [Next]_vars PROVE AccountsStay
  OBVIOUS
<1>1. CASE UNCHANGED account
  BY <1>1 DEF AccountsStay
<1>2. CASE \E n \in Upns : Appear(n)
  BY <1>2 DEF Appear, AccountsStay, TypeInv, TypeOK
<1>3. CASE \E r \in Requests : Create(r)
  BY <1>3 DEF Create, AccountsStay, TypeInv, TypeOK
<1>4. UNCHANGED account \/ (\E n \in Upns : Appear(n)) \/ (\E r \in Requests : Create(r))
  BY DEF Next, Queue, Work, Add, Delete, Import, Patch, Write, Provision, NextUser,
         CreateFails, GiveUp, Store, StoreFails, Map, MapFails, Audited, Finish, List, Purge,
         Deliver, Die, vars, historyVars
<1>5. QED BY <1>1, <1>2, <1>3, <1>4

\* What circulates in one place or another.
LEMMA Places ==
  ASSUME NEW c
  PROVE  /\ c \in Circulating <=> \/ c \in held \cup handed
                                  \/ \E r \in Requests : c \in requests[r].batch
         /\ c \in Circulating' <=> \/ c \in held' \cup handed'
                                   \/ \E r \in Requests : c \in requests'[r].batch
  BY DEF Circulating

\* Passwords that circulated go on working.
LEMMA StillWork ==
  ASSUME TypeInv, WorkInv, AccountsStay,
         NEW c \in Circulating
  PROVE  account'[c.upn] = c.password
<1>1. c \in Credential
  BY DEF Circulating, TypeInv, TypeOK, Request
<1>2. c.upn \in Upns /\ account[c.upn] = c.password /\ c.password # None
  BY <1>1, NoneIsNone DEF Credential, WorkInv, PasswordsWork
<1>3. QED BY <1>2 DEF AccountsStay

\* A request whose Graph call was made goes on having made it.
LEMMA StillCreated ==
  ASSUME TypeInv, WorkInv, AccountsStay, NEW r \in Requests
  PROVE  Created(requests[r], account')
<1>1. CASE requests[r].at \in {"store", "map"}
  <2>1. requests[r].upn \in Upns /\ account[requests[r].upn] \in Passwords
    BY <1>1 DEF TypeInv, Phase, Provisioning, WorkInv, Created
  <2>2. account'[requests[r].upn] = account[requests[r].upn]
    BY <2>1, NoneIsNone DEF AccountsStay
  <2>3. QED BY <2>1, <2>2 DEF WorkInv, Created
<1>2. CASE requests[r].at \notin {"store", "map"}
  BY <1>2 DEF Created
<1>3. QED BY <1>1, <1>2

\* A request that is idle or between users has nothing to have created.
LEMMA EmptyCreated ==
  ASSUME NEW todo, NEW accounts
  PROVE  /\ Created(Idle, accounts) /\ Idle.batch = {}
         /\ Created(Choosing(todo), accounts) /\ Choosing(todo).batch = {}
         /\ Created([Choosing(todo) EXCEPT !.at = "failed"], accounts)
         /\ [Choosing(todo) EXCEPT !.at = "failed"].batch = {}
  BY DEF Created, Idle, Choosing

\* What a step does to a row that may keep it or marks it rightly.
Accounted(u) ==
    \/ rows'[u] = rows[u] /\ u \notin claimed
    \/ rows'[u].status = "provisioned" =>
          rows'[u].upn # None /\ account'[rows'[u].upn] \in Passwords

\* A step that accounts for the rows keeps the property of those provisioned.
LEMMA StillProvisioned ==
  ASSUME TypeInv, WorkInv, AccountsStay, \A u \in Users \ claimed' : Accounted(u)
  PROVE  ProvisionedHasAccount'
<1>1. ASSUME NEW u \in Users \ claimed', rows'[u] = rows[u], u \notin claimed,
             rows[u].status = "provisioned"
      PROVE  rows[u].upn # None /\ account'[rows[u].upn] \in Passwords
  <2>1. /\ rows[u].upn # None /\ rows[u].upn \in Upns
        /\ account[rows[u].upn] \in Passwords
    BY <1>1 DEF WorkInv, ProvisionedHasAccount, TypeInv, TypeOK, Row
  <2>2. QED BY <2>1, NoneIsNone DEF AccountsStay
<1>2. QED BY <1>1 DEF Accounted, ProvisionedHasAccount

\* A step of one request to q keeps the invariant if what q says and has in its hands is
\* right, new credentials work, and no row becomes provisioned that has no account.
LEMMA WorkStep ==
  ASSUME TypeInv, WorkInv, AccountsStay,
         NEW r \in Requests, NEW q, Become(r, q), Created(q, account'),
         \A c \in q.batch \cup held' \cup handed' :
            c \in Circulating \/ account'[c.upn] = c.password,
         \A u \in Users \ claimed' : Accounted(u)
  PROVE  WorkInv'
<1>1. \A s \in Requests : requests'[s] = IF s = r THEN q ELSE requests[s]
  BY DEF Become, TypeInv, TypeOK
<1>2. \A s \in Requests : Created(requests'[s], account')
  BY <1>1, StillCreated
<1>3. \A c \in Circulating' : c \in Circulating \/ account'[c.upn] = c.password
  BY <1>1, Places
<1>4. PasswordsWork'
  BY <1>3, StillWork DEF PasswordsWork
<1>5. ProvisionedHasAccount'
  BY StillProvisioned
<1>6. QED BY <1>2, <1>4, <1>5 DEF WorkInv, Created

\* Changes to the queue keep the invariant: what makes a row provisioned claims it.
LEMMA QueueWork == TypeInv /\ WorkInv /\ AccountsStay /\ Queue => WorkInv'
<1> SUFFICES ASSUME TypeInv, WorkInv, AccountsStay, Queue PROVE WorkInv'
  OBVIOUS
<1>1. UNCHANGED <<requests, handed>> /\ held' \subseteq held
  BY DEF Queue, Add, Import, Patch, Delete, Appear, Write, historyVars
<1>2. \A u \in Users \ claimed' : Accounted(u)
  <2>1. ASSUME NEW u \in Users, NEW row, Claim(u, row)
        PROVE  \A v \in Users \ claimed' : Accounted(v)
    BY <2>1 DEF Claim, Accounted, TypeInv, TypeOK
  <2>2. ASSUME NEW u \in Users, NEW body \in Bodies, Add(u, body) \/ Patch(u, body)
        PROVE  \A v \in Users \ claimed' : Accounted(v)
    <3>1. PICK row : Claim(u, row)
      BY <2>2, PatchedRow DEF Add, Write
    <3>2. QED BY <3>1, <2>1
  <2>3. ASSUME NEW u \in Users, NEW email, NEW auto, Import(u, email, auto)
        PROVE  \A v \in Users \ claimed' : Accounted(v)
    BY <2>3, <2>1 DEF Import, Write
  <2>4. ASSUME NEW u \in Users, Delete(u)
        PROVE  \A v \in Users \ claimed' : Accounted(v)
    <3>1. [NoRow EXCEPT !.status = "deleted"].status # "provisioned"
      BY DEF NoRow
    <3>2. QED BY <2>4, <3>1 DEF Delete, Accounted, TypeInv, TypeOK
  <2>5. ASSUME NEW n \in Upns, Appear(n)
        PROVE  \A v \in Users \ claimed' : Accounted(v)
    BY <2>5 DEF Appear, Accounted
  <2>6. QED BY <2>2, <2>3, <2>4, <2>5 DEF Queue
<1>3. \A c \in Circulating' : c \in Circulating
  BY <1>1, Places
<1>4. PasswordsWork'
  BY <1>3, StillWork DEF PasswordsWork
<1>5. ProvisionedHasAccount'
  BY <1>2, StillProvisioned
<1>6. QED BY <1>1, <1>4, <1>5, StillCreated DEF WorkInv, Created

\* The steps of a request keep the invariant.
LEMMA RequestWork ==
  ASSUME TypeInv, WorkInv, AccountsStay, NEW r \in Requests, Work(r)
  PROVE  WorkInv'
<1> USE DEF historyVars
<1>h. \A c \in held \cup handed \cup requests[r].batch : c \in Circulating
  BY DEF Circulating
<1>t. requests[r] \in Request /\ Phase(requests[r])
  BY DEF TypeInv, TypeOK
<1>r. (UNCHANGED <<rows, claimed>>) => \A u \in Users \ claimed' : Accounted(u)
  BY DEF Accounted
<1>b. ASSUME NEW q, Become(r, q), q.batch = {}, UNCHANGED <<rows, claimed>>,
             held' \subseteq held, handed' \subseteq handed \cup requests[r].batch,
             Created(q, account')
      PROVE  WorkInv'
  BY <1>b, <1>h, <1>r, WorkStep
<1>1. CASE \/ \E ids \in SUBSET Users : Provision(r, ids)
           \/ Audited(r) \/ Finish(r)
  BY <1>1, <1>b, EmptyCreated DEF Provision, Audited, Finish
<1>2. ASSUME NEW u \in Users, NextUser(r, u) PROVE WorkInv'
  <2>1. CASE ~Eligible(u)
    BY <1>2, <2>1, <1>b, EmptyCreated DEF NextUser
  <2>2. CASE Eligible(u)
    <3>1. PICK p \in Passwords :
             Become(r, [at |-> "create", todo |-> requests[r].todo \ {u}, user |-> u,
                        email |-> rows[u].email, upn |-> Target(rows[u]),
                        password |-> p, batch |-> {}])
      BY <1>2, <2>2 DEF NextUser
    <3>2. QED BY <1>2, <3>1, <1>b DEF NextUser, Created
  <2>3. QED BY <2>1, <2>2
<1>3. CASE Create(r)
  <2> DEFINE q == [requests[r] EXCEPT !.at = "store"]
  <2>1. Become(r, q)
    BY <1>3, GoToTypes DEF Create, TypeInv
  <2>2. /\ q.at = "store" /\ q.upn = requests[r].upn
        /\ q.password = requests[r].password /\ q.batch = requests[r].batch
    BY <1>t DEF Request
  <2>3. requests[r].upn \in Upns /\ requests[r].password \in Passwords
    BY <1>3, <1>t DEF Create, Phase, Provisioning, Holding, Request
  <2>4. account'[requests[r].upn] = requests[r].password
    BY <1>3, <2>3 DEF Create, TypeInv, TypeOK
  <2>5. Created(q, account')
    BY <2>2, <2>3, <2>4 DEF Created
  <2>6. QED BY <1>3, <1>h, <1>r, <2>1, <2>2, <2>5, WorkStep DEF Create
<1>4. CASE CreateFails(r) \/ MapFails(r)
  <2>1. Become(r, [Choosing(requests[r].todo) EXCEPT !.at = "failed"])
    BY <1>4 DEF CreateFails, MapFails, GiveUp
  <2>2. UNCHANGED <<rows, claimed, held, handed>>
    BY <1>4 DEF CreateFails, MapFails, GiveUp
  <2>3. QED BY <2>1, <2>2, <1>b, EmptyCreated
<1>5. CASE Store(r) \/ StoreFails(r)
  <2>1. account'[MyCredential(r).upn] = MyCredential(r).password
    BY <1>5, StillCreated DEF Store, StoreFails, MyCredential, Created
  <2>2. held' \subseteq held \cup {MyCredential(r)} /\ UNCHANGED <<rows, claimed, handed>>
    BY <1>5 DEF Store, StoreFails, GiveUp
  <2>3. CASE Store(r)
    <3> DEFINE q == [requests[r] EXCEPT !.at = "map", !.password = None]
    <3>1. Become(r, q)
      BY <2>3 DEF Store, Become, TypeInv, TypeOK
    <3>2. q.at = "map" /\ q.upn = requests[r].upn /\ q.batch = requests[r].batch
      BY <1>t DEF Request
    <3>3. Created(q, account')
      BY <2>3, <3>2, StillCreated DEF Store, Created
    <3>4. QED BY <1>h, <1>r, <2>1, <2>2, <3>1, <3>2, <3>3, WorkStep
  <2>4. CASE StoreFails(r)
    <3> DEFINE q == [Choosing(requests[r].todo) EXCEPT !.at = "failed"]
    <3>1. Become(r, q)
      BY <2>4 DEF StoreFails, GiveUp
    <3>2. Created(q, account') /\ q.batch = {}
      BY EmptyCreated
    <3>3. \A c \in q.batch \cup held' \cup handed' :
             c \in Circulating \/ account'[c.upn] = c.password
      BY <1>h, <2>1, <2>2, <3>2
    <3> HIDE DEF q
    <3>4. QED BY <1>r, <2>2, <3>1, <3>2, <3>3, WorkStep
  <2>5. QED BY <1>5, <2>3, <2>4
<1>6. CASE Map(r)
  <2> DEFINE q == [requests[r] EXCEPT !.at = "audit"]
             n == requests[r].upn
  <2>1. Become(r, q)
    BY <1>6, GoToTypes DEF Map, TypeInv
  <2>2. q.at = "audit" /\ q.batch = requests[r].batch
    BY <1>t DEF Request
  <2>3. n \in Upns /\ n # None /\ account'[n] \in Passwords
    BY <1>6, <1>t, StillCreated, NoneIsNone DEF Map, Phase, Provisioning, Created
  <2>4. ASSUME NEW u \in Users \ claimed' PROVE Accounted(u)
    <3>1. \/ rows'[u] = rows[u] /\ u \notin claimed
          \/ rows'[u].upn = n
      BY <1>6 DEF Map, TypeInv, TypeOK, Row
    <3>2. QED BY <2>3, <3>1 DEF Accounted
  <2>5. Created(q, account')
    BY <2>2 DEF Created
  <2>6. QED BY <1>6, <1>h, <2>1, <2>2, <2>3, <2>4, <2>5, WorkStep DEF Map
<1>7. CASE List(r)
  <2> DEFINE q == [Idle EXCEPT !.at = "purge", !.batch = held]
  <2>1. q.batch = held /\ Created(q, account')
    BY DEF Idle, Created
  <2>2. QED BY <1>7, <1>h, <1>r, <2>1, WorkStep DEF List
<1>8. CASE Purge(r)
  <2> DEFINE q == [requests[r] EXCEPT !.at = "deliver"]
  <2>1. Become(r, q)
    BY <1>8, GoToTypes DEF Purge, TypeInv
  <2>2. q.batch = requests[r].batch /\ Created(q, account')
    BY <1>t DEF Request, Created
  <2>3. QED BY <1>8, <1>h, <1>r, <2>1, <2>2, WorkStep DEF Purge
<1>9. CASE Deliver(r) \/ Die(r)
  BY <1>9, <1>b, EmptyCreated DEF Deliver, Die
<1>10. QED BY <1>1, <1>2, <1>3, <1>4, <1>5, <1>6, <1>7, <1>8, <1>9 DEF Work

\* Every step keeps the invariant.
LEMMA StepWork == TypeInv /\ WorkInv /\ [Next]_vars => WorkInv'
<1> SUFFICES ASSUME TypeInv, WorkInv, [Next]_vars PROVE WorkInv'
  OBVIOUS
<1>1. AccountsStay
  BY StepAccounts
<1>2. CASE UNCHANGED vars
  BY <1>2 DEF vars, historyVars, WorkInv, PasswordsWork, Circulating, ProvisionedHasAccount,
              Created
<1>3. QED BY <1>1, <1>2, QueueWork, RequestWork DEF Next

(***************************************************************************)
(* Whatever requests cross, a password pending, about to be handed out or  *)
(* handed out opens the account it was created for.                        *)
(***************************************************************************)
THEOREM PasswordsAlwaysWork == Spec => []PasswordsWork
<1>1. Spec => [](TypeInv /\ WorkInv)
  BY InitPhase, StepTypes, InitWork, StepWork, PTL DEF Spec
<1>2. QED BY <1>1, PTL DEF WorkInv

(***************************************************************************)
(* A row that provisioning marked provisioned names an account that        *)
(* EntraShift created, through remappings, resets and replacements of the  *)
(* row since it was read.                                                  *)
(***************************************************************************)
THEOREM ProvisionedAlwaysHasAccount == Spec => []ProvisionedHasAccount
<1>1. Spec => [](TypeInv /\ WorkInv)
  BY InitPhase, StepTypes, InitWork, StepWork, PTL DEF Spec
<1>2. QED BY <1>1, PTL DEF WorkInv

-------------------------------------------------------------------------------
(* Passwords as items of a ledger. *)

\* The password of every account made here is kept, or is known to have gone.
LedgerInv == Covered \subseteq Kept \cup gone

\* Nothing is covered at the start.
LEMMA InitLedger == Init => LedgerInv /\ Ledger!Init
<1> SUFFICES ASSUME Init PROVE LedgerInv /\ Ledger!Init
  OBVIOUS
<1>1. Covered = {}
  BY NoneIsNone DEF Init, Covered
<1>2. Kept = {}
  BY DEF Init, Kept, InHand, Idle, Secrets
<1>3. QED BY <1>1, <1>2 DEF Init, LedgerInv, Ledger!Init

\* What one request, D1 and the operators have, next to what the other requests have.
Reach(q, credentials) == Secrets(credentials) \cup InHand(q)
Others(r) == UNION {InHand(requests[s]) : s \in Requests \ {r}}

\* A step of one request changes what is kept as it changes what that request, D1 and
\* the operators have.
LEMMA KeptAfter ==
  ASSUME TypeInv, NEW r \in Requests, NEW q, Become(r, q)
  PROVE  /\ Kept = Others(r) \cup Reach(requests[r], held \cup handed)
         /\ Kept' = Others(r) \cup Reach(q, held' \cup handed')
<1>1. UNION {InHand(requests[s]) : s \in Requests} = Others(r) \cup InHand(requests[r])
  BY DEF Others
<1>2. \A s \in Requests : requests'[s] = IF s = r THEN q ELSE requests[s]
  BY DEF Become, TypeInv, TypeOK
<1>3. UNION {InHand(requests'[s]) : s \in Requests} = Others(r) \cup InHand(q)
  <2>1. ASSUME NEW p PROVE p \in UNION {InHand(requests'[s]) : s \in Requests}
                           <=> p \in Others(r) \cup InHand(q)
    <3>1. (\E s \in Requests : p \in InHand(requests'[s]))
          <=> p \in InHand(q) \/ \E s \in Requests \ {r} : p \in InHand(requests[s])
      BY <1>2
    <3>2. QED BY <3>1 DEF Others
  <2>2. QED BY <2>1
<1>4. Kept' = Secrets(held' \cup handed') \cup UNION {InHand(requests'[s]) : s \in Requests}
  BY DEF Kept, InHand, Secrets
<1>5. QED BY <1>1, <1>3, <1>4 DEF Kept, Reach

\* A password in one place or another.
LEMMA InReach ==
  ASSUME NEW q, NEW credentials, NEW p
  PROVE  p \in Reach(q, credentials)
         <=> \/ p = q.password /\ p # None
             \/ \E c \in q.batch \cup credentials : c.password = p
  BY DEF Reach, InHand, Secrets

\* The passwords of accounts, when no account is created here.
LEMMA CoveredStays ==
  ASSUME UNCHANGED account \/ \E n \in Upns : Appear(n), TypeInv
  PROVE  Covered' = Covered
<1>1. CASE UNCHANGED account
  BY <1>1 DEF Covered
<1>2. ASSUME NEW n \in Upns, Appear(n) PROVE Covered' = Covered
  <2>1. account'[n] = Foreign /\ account[n] = None
        /\ \A m \in Upns : m # n => account'[m] = account[m]
    BY <1>2 DEF Appear, TypeInv, TypeOK
  <2>2. \A p \in Passwords : (\E m \in Upns : account'[m] = p) <=> \E m \in Upns : account[m] = p
    BY <2>1, NoneIsNone, ForeignIsForeign
  <2>3. QED BY <2>2 DEF Covered
<1>3. QED BY <1>1, <1>2

\* A step of the ledger in which the resume point, here the accounts, stays.
LEMMA StutterImplements ==
  ASSUME Covered' = Covered, Kept' = Kept, gone' = gone
  PROVE  [Ledger!Next]_(Ledger!vars)
  BY DEF Ledger!vars

\* What is dropped and stands as gone is excused.
LEMMA DropImplements ==
  ASSUME TypeInv, Covered' = Covered, Kept' \subseteq Kept, Drops
  PROVE  [Ledger!Next]_(Ledger!vars)
<1> DEFINE lost == Kept \ Kept'
<1>1. lost \in SUBSET Passwords
  BY KeptTypes DEF TypeInv
<1>2. Kept' = Kept \ lost /\ gone' = gone \cup lost
  BY DEF Drops
<1>3. Ledger!Excuse(lost, lost)
  BY <1>2 DEF Ledger!Excuse
<1>4. QED BY <1>1, <1>3 DEF Ledger!Next

\* A request that gives up with no more in D1 than it had itself is a drop.
LEMMA GiveUpImplements ==
  ASSUME TypeInv, NEW r \in Requests, GiveUp(r),
         \A c \in held' : c \in held \/ c.password \in Reach(requests[r], held \cup handed)
  PROVE  [Ledger!Next]_(Ledger!vars)
<1> DEFINE q == [Choosing(requests[r].todo) EXCEPT !.at = "failed"]
<1>1. Become(r, q) /\ UNCHANGED handed /\ Drops /\ UNCHANGED account
  BY DEF GiveUp
<1>2. q.password = None /\ q.batch = {}
  BY DEF Choosing, Idle
<1> HIDE DEF q
<1>3. Reach(q, held' \cup handed') \subseteq Reach(requests[r], held \cup handed)
  <2>1. ASSUME NEW p \in Reach(q, held' \cup handed')
        PROVE  p \in Reach(requests[r], held \cup handed)
    <3>1. PICK c \in held' \cup handed : c.password = p
      BY <1>1, <1>2, <2>1, InReach
    <3>2. CASE c \in held \cup handed
      BY <3>1, <3>2, InReach
    <3>3. QED BY <3>1, <3>2
  <2>2. QED BY <2>1
<1>4. Kept' \subseteq Kept
  BY <1>1, <1>3, KeptAfter
<1>5. QED BY <1>1, <1>4, CoveredStays, DropImplements

\* Every step is a step of the ledger or leaves it alone.
LEMMA RequestImplements ==
  ASSUME TypeInv, LedgerInv, NEW r \in Requests, Work(r)
  PROVE  [Ledger!Next]_(Ledger!vars)
<1> USE DEF historyVars
<1>t. requests[r] \in Request /\ Phase(requests[r])
  BY DEF TypeInv, TypeOK
<1>s. ASSUME NEW q, Become(r, q), UNCHANGED <<account, gone>>,
             \A p : p \in Reach(q, held' \cup handed')
                    <=> p \in Reach(requests[r], held \cup handed)
      PROVE  [Ledger!Next]_(Ledger!vars)
  <2>1. Reach(q, held' \cup handed') = Reach(requests[r], held \cup handed)
    BY <1>s
  <2>2. Kept' = Kept
    BY <1>s, <2>1, KeptAfter
  <2>3. QED BY <1>s, <2>2, CoveredStays, StutterImplements
<1>e. ASSUME NEW q, Become(r, q), UNCHANGED <<account, gone, held, handed>>,
             q.password = requests[r].password, q.batch = requests[r].batch
      PROVE  [Ledger!Next]_(Ledger!vars)
  BY <1>e, <1>s, InReach
<1>i. Idle.password = None /\ Idle.batch = {}
      /\ \A todo : Choosing(todo).password = None /\ Choosing(todo).batch = {}
  BY DEF Idle, Choosing
<1>n. requests[r].at \notin Holding => requests[r].password = None
  BY <1>t DEF Phase
<1>m. requests[r].at \notin {"purge", "deliver"} => requests[r].batch = {}
  BY <1>t DEF Phase
<1>1. CASE \/ \E ids \in SUBSET Users : Provision(r, ids)
           \/ Audited(r) \/ Finish(r)
  <2>1. requests[r].password = None /\ requests[r].batch = {}
    BY <1>1, <1>i, <1>n, <1>m DEF Provision, Audited, Finish, Holding
  <2>2. PICK q : /\ Become(r, q) /\ UNCHANGED <<account, gone, held, handed>>
                 /\ q.password = None /\ q.batch = {}
    BY <1>1, <1>i DEF Provision, Audited, Finish
  <2>3. QED BY <2>1, <2>2, <1>e
<1>2. ASSUME NEW u \in Users, NextUser(r, u) PROVE [Ledger!Next]_(Ledger!vars)
  <2> DEFINE rest == requests[r].todo \ {u}
  <2>1. requests[r].password = None /\ requests[r].batch = {}
    BY <1>2, <1>n, <1>m DEF NextUser, Holding
  <2>2. CASE ~Eligible(u)
    BY <1>2, <2>1, <2>2, <1>e, <1>i DEF NextUser
  <2>3. CASE Eligible(u)
    <3>1. PICK p \in Passwords :
             Become(r, [at |-> "create", todo |-> rest, user |-> u,
                        email |-> rows[u].email, upn |-> Target(rows[u]),
                        password |-> p, batch |-> {}])
      BY <1>2, <2>3 DEF NextUser
    <3> DEFINE q == [at |-> "create", todo |-> rest, user |-> u,
                     email |-> rows[u].email, upn |-> Target(rows[u]),
                     password |-> p, batch |-> {}]
    <3>2. UNCHANGED <<account, gone, held, handed>>
      BY <1>2 DEF NextUser
    <3>3. p # None /\ q.password = p /\ q.batch = {}
      BY NoneIsNone
    <3>4. Become(r, q)
      BY <3>1
    <3> HIDE DEF q
    <3>5. \A x : x \in Reach(q, held' \cup handed')
                 <=> x \in Reach(requests[r], held \cup handed) \/ x = p
      BY <3>2, <3>3, <2>1, InReach
    <3>6. Kept' = Kept \cup {p}
      BY <3>4, <3>5, KeptAfter
    <3>7. Ledger!Keep({p})
      BY <3>2, <3>6, CoveredStays DEF Ledger!Keep
    <3>8. QED BY <3>7 DEF Ledger!Next
  <2>4. QED BY <2>2, <2>3
<1>3. CASE Create(r)
  <2> DEFINE q == [requests[r] EXCEPT !.at = "store"]
             p == requests[r].password
             n == requests[r].upn
  <2>1. Become(r, q)
    BY <1>3, GoToTypes DEF Create, TypeInv
  <2>2. q.password = p /\ q.batch = requests[r].batch
    BY <1>t DEF Request
  <2> HIDE DEF q
  <2>3. Reach(q, held' \cup handed') = Reach(requests[r], held \cup handed)
        /\ p \in Reach(requests[r], held \cup handed)
    <3>1. p # None /\ UNCHANGED <<held, handed>>
      BY <1>3, <1>t DEF Create, Phase, Holding
    <3>2. \A x : x \in Reach(q, held' \cup handed')
                 <=> x \in Reach(requests[r], held \cup handed)
      BY <2>2, <3>1, InReach
    <3>3. QED BY <3>1, <3>2, InReach
  <2>4. Kept' = Kept /\ p \in Kept /\ gone' = gone
    BY <1>3, <2>1, <2>3, KeptAfter DEF Create
  <2>5. Covered' \subseteq Covered \cup {p}
    <3>1. \A m \in Upns : account'[m] = account[m] \/ account'[m] = p
      BY <1>3 DEF Create, TypeInv, TypeOK
    <3>2. QED BY <3>1 DEF Covered
  <2>6. Covered' \in SUBSET Passwords
    BY DEF Covered
  <2>7. Ledger!Advance(Covered')
    BY <2>4, <2>5 DEF Ledger!Advance, LedgerInv
  <2>8. QED BY <2>6, <2>7 DEF Ledger!Next
<1>4. CASE CreateFails(r) \/ MapFails(r)
  BY <1>4, GiveUpImplements DEF CreateFails, MapFails
<1>5. CASE StoreFails(r)
  <2>1. MyCredential(r).password \in Reach(requests[r], held \cup handed)
    BY <1>5, <1>t, InReach DEF StoreFails, MyCredential, Phase, Holding
  <2>2. QED BY <1>5, <2>1, GiveUpImplements DEF StoreFails
<1>6. CASE Store(r)
  <2> DEFINE q == [requests[r] EXCEPT !.at = "map", !.password = None]
  <2>1. Become(r, q)
    BY <1>6 DEF Store, Become, TypeInv, TypeOK
  <2>2. q.password = None /\ q.batch = requests[r].batch
    BY <1>t DEF Request
  <2> HIDE DEF q
  <2>3. /\ MyCredential(r).password = requests[r].password /\ requests[r].password # None
        /\ UNCHANGED <<account, gone, handed>> /\ held' = held \cup {MyCredential(r)}
    BY <1>6, <1>t DEF Store, MyCredential, Phase, Holding
  <2>4. \A p : p \in Reach(q, held' \cup handed')
               <=> p \in Reach(requests[r], held \cup handed)
    BY <2>2, <2>3, InReach
  <2>5. QED BY <2>1, <2>3, <2>4, <1>s
<1>7. CASE Map(r)
  <2>1. Become(r, [requests[r] EXCEPT !.at = "audit"])
    BY <1>7, GoToTypes DEF Map, TypeInv
  <2>2. QED BY <1>7, <2>1, <1>t, <1>e DEF Map, Request
<1>8. CASE List(r)
  <2> DEFINE q == [Idle EXCEPT !.at = "purge", !.batch = held]
  <2>1. Become(r, q) /\ UNCHANGED <<account, gone, held, handed>> /\ requests[r] = Idle
    BY <1>8 DEF List
  <2>2. q.password = None /\ q.batch = held
    BY DEF Idle
  <2> HIDE DEF q
  <2>3. \A p : p \in Reach(q, held' \cup handed')
               <=> p \in Reach(requests[r], held \cup handed)
    BY <2>1, <2>2, <1>i, InReach
  <2>4. QED BY <2>1, <2>3, <1>s
<1>9. CASE Purge(r)
  <2> DEFINE q == [requests[r] EXCEPT !.at = "deliver"]
  <2>1. Become(r, q)
    BY <1>9, GoToTypes DEF Purge, TypeInv
  <2>2. q.password = requests[r].password /\ q.batch = requests[r].batch
    BY <1>t DEF Request
  <2> HIDE DEF q
  <2>3. /\ UNCHANGED <<account, gone, handed>> /\ held' = held \ requests[r].batch
    BY <1>9 DEF Purge
  <2>4. \A p : p \in Reach(q, held' \cup handed')
               <=> p \in Reach(requests[r], held \cup handed)
    BY <2>2, <2>3, InReach
  <2>5. QED BY <2>1, <2>3, <2>4, <1>s
<1>10. CASE Deliver(r)
  <2>1. requests[r].password = None
    BY <1>10, <1>n DEF Deliver, Holding
  <2>2. Become(r, Idle) /\ UNCHANGED <<account, gone, held>>
        /\ handed' = handed \cup requests[r].batch
    BY <1>10 DEF Deliver
  <2>3. \A p : p \in Reach(Idle, held' \cup handed')
               <=> p \in Reach(requests[r], held \cup handed)
    BY <2>1, <2>2, <1>i, InReach
  <2>4. QED BY <2>2, <2>3, <1>s
<1>11. CASE Die(r)
  <2>1. Become(r, Idle) /\ UNCHANGED <<account, handed>> /\ Drops /\ held' \subseteq held
    BY <1>11 DEF Die
  <2>2. \A p : p \in Reach(Idle, held' \cup handed')
               => p \in Reach(requests[r], held \cup handed)
    BY <2>1, <1>i, InReach
  <2>3. Kept' \subseteq Kept
    BY <2>1, <2>2, KeptAfter
  <2>4. QED BY <2>1, <2>3, CoveredStays, DropImplements
<1>12. QED
  BY <1>1, <1>2, <1>3, <1>4, <1>5, <1>6, <1>7, <1>8, <1>9, <1>10, <1>11 DEF Work

\* Changes to the queue drop the credentials of a user removed, and no others.
LEMMA QueueImplements ==
  ASSUME TypeInv, Queue
  PROVE  [Ledger!Next]_(Ledger!vars)
<1>1. UNCHANGED <<requests, handed>> /\ held' \subseteq held
  BY DEF Queue, Add, Import, Patch, Delete, Appear, Write, historyVars
<1>2. Covered' = Covered
  BY CoveredStays DEF Queue, Add, Import, Patch, Delete, Write
<1>3. CASE \E u \in Users : Delete(u)
  <2>1. Kept' \subseteq Kept
    BY <1>1 DEF Kept, InHand, Secrets
  <2>2. QED BY <1>2, <1>3, <2>1, DropImplements DEF Delete
<1>4. CASE UNCHANGED <<held, gone>>
  <2>1. Kept' = Kept
    BY <1>1, <1>4 DEF Kept, InHand, Secrets
  <2>2. QED BY <1>2, <1>4, <2>1, StutterImplements
<1>5. QED BY <1>3, <1>4 DEF Queue, Add, Import, Patch, Appear, Write, historyVars

\* Every step is a step of the ledger or leaves it alone.
LEMMA StepImplements ==
  TypeInv /\ LedgerInv /\ [Next]_vars => [Ledger!Next]_(Ledger!vars)
<1>1. ASSUME UNCHANGED vars PROVE [Ledger!Next]_(Ledger!vars)
  BY <1>1 DEF vars, historyVars, Ledger!vars, Covered, Kept, InHand, Secrets
<1>2. QED BY <1>1, RequestImplements, QueueImplements DEF Next

\* A step of the ledger keeps its invariant.
LEMMA StepLedger == LedgerInv /\ [Ledger!Next]_(Ledger!vars) => LedgerInv'
<1> SUFFICES ASSUME LedgerInv, [Ledger!Next]_(Ledger!vars) PROVE LedgerInv'
  OBVIOUS
<1>1. ASSUME NEW S \in SUBSET Passwords, Ledger!Keep(S) \/ Ledger!Advance(S)
      PROVE  LedgerInv'
  BY <1>1 DEF Ledger!Keep, Ledger!Advance, LedgerInv
<1>2. ASSUME NEW S \in SUBSET Passwords, NEW T \in SUBSET Passwords, Ledger!Excuse(S, T)
      PROVE  LedgerInv'
  BY <1>2 DEF Ledger!Excuse, LedgerInv
<1>3. CASE UNCHANGED Ledger!vars
  BY <1>3 DEF Ledger!vars, LedgerInv
<1>4. QED BY <1>1, <1>2, <1>3 DEF Ledger!Next

(***************************************************************************)
(* Provisioning and hand-out implement the ledger: the password of every   *)
(* account that EntraShift created is with a request, pending in D1 or     *)
(* handed out, unless a failure or its user's removal dropped it.          *)
(***************************************************************************)
THEOREM Implements == Spec => LedgerSpec
<1>1. Spec => [](TypeInv /\ LedgerInv)
  BY InitPhase, StepTypes, InitLedger, StepImplements, StepLedger, PTL DEF Spec
<1>2. QED BY <1>1, InitLedger, StepImplements, PTL DEF Spec, LedgerSpec, Ledger!Spec
-------------------------------------------------------------------------------
(* What locks a user out. *)

\* The passwords of accounts were generated; those a request has yet to create an
\* account with open no account, and no two requests have the same; and a request that
\* has a password has it for a user whose row was there.
FreshInv ==
    /\ Covered \subseteq minted
    /\ \A r \in Requests : requests[r].at \in Holding =>
          /\ requests[r].password \in minted
          /\ rows[requests[r].user].status # "none"
    /\ \A r \in Requests : requests[r].at = "create" => requests[r].password \notin Covered
    /\ \A r, s \in Requests :
          requests[r].at = "create" /\ requests[s].at = "create" /\ r # s
          => requests[r].password # requests[s].password

\* Nobody has a password at the start.
LEMMA InitFresh == Init => FreshInv
  BY NoneIsNone DEF Init, FreshInv, Covered, Idle, Holding

\* Rows are reset and removed, and never forgotten.
LEMMA RowsStay ==
  ASSUME TypeInv, [Next]_vars, NEW u \in Users, rows[u].status # "none"
  PROVE  rows'[u].status # "none"
<1>w. ASSUME NEW v \in Users, NEW row, rows' = [rows EXCEPT ![v] = row], row.status # "none"
      PROVE  rows'[u].status # "none"
  BY <1>w DEF TypeInv, TypeOK
<1>1. ASSUME NEW v \in Users, NEW row \in Row, row.status \in MappingStatus, Write(v, row)
      PROVE  rows'[u].status # "none"
  BY <1>1, <1>w DEF Write, Claim, MappingStatus
<1>2. ASSUME NEW v \in Users, NEW body \in Bodies, Add(v, body) \/ Patch(v, body)
      PROVE  rows'[u].status # "none"
  BY <1>1, <1>2, AddedTypes, PatchedRow DEF Add
<1>3. ASSUME NEW v \in Users, NEW email, NEW auto \in BOOLEAN,
             Import(v, email, auto) \/ Delete(v)
      PROVE  rows'[u].status # "none"
  <2>1. DeriveMappingStatus(email, auto) # "none"
    BY DerivedStatus
  <2>2. [NoRow EXCEPT !.status = "deleted"].status # "none"
    BY DEF NoRow
  <2>3. QED BY <1>3, <2>1, <2>2, <1>w DEF Import, Delete, Write, Claim
<1>4. ASSUME NEW r \in Requests, Map(r) PROVE rows'[u].status # "none"
  BY <1>4 DEF Map, TypeInv, TypeOK, Row
<1>5. CASE UNCHANGED rows
  BY <1>5
<1>6. QED
  BY <1>2, <1>3, <1>4, <1>5
  DEF Next, Queue, Work, Appear, Provision, NextUser, Create, CreateFails, GiveUp, Store,
      StoreFails, MapFails, Audited, Finish, List, Purge, Deliver, Die, vars

\* A step of one request to q keeps the invariant if q creates no account with another
\* password than the one it had, or with one just generated.
LEMMA FreshStep ==
  ASSUME TypeInv, FreshInv, [Next]_vars, NEW r \in Requests, NEW q, Become(r, q),
         Covered' \subseteq Covered \cup {requests[r].password},
         Covered' # Covered => requests[r].at = "create" /\ q.at # "create",
         minted \subseteq minted',
         q.at \in Holding =>
            \/ requests[r].at \in Holding /\ q.user = requests[r].user
               /\ q.password = requests[r].password
            \/ q.password \in minted' \ minted /\ q.user \in Users
               /\ rows[q.user].status # "none",
         q.at = "create" => q.password \in minted' \ minted
  PROVE  FreshInv'
<1>1. \A s \in Requests : requests'[s] = IF s = r THEN q ELSE requests[s]
  BY DEF Become, TypeInv, TypeOK
<1>2. \A s \in Requests : requests[s].at \in Holding => requests[s].user \in Users
  BY DEF TypeInv, Phase, Holding, Provisioning
<1>3. Covered' \subseteq minted'
  BY DEF FreshInv, Holding
<1>4. ASSUME NEW s \in Requests, requests'[s].at \in Holding
      PROVE  requests'[s].password \in minted' /\ rows'[requests'[s].user].status # "none"
  <2>1. CASE s # r
    BY <1>1, <1>2, <1>4, <2>1, RowsStay DEF FreshInv
  <2>2. CASE s = r
    <3>1. requests'[s] = q /\ q.at \in Holding
      BY <1>1, <1>4, <2>2
    <3>2. CASE requests[r].at \in Holding /\ q.user = requests[r].user
               /\ q.password = requests[r].password
      BY <1>2, <3>1, <3>2, RowsStay DEF FreshInv
    <3>3. CASE q.password \in minted' \ minted /\ q.user \in Users
               /\ rows[q.user].status # "none"
      BY <3>1, <3>3, RowsStay
    <3>4. QED BY <3>1, <3>2, <3>3
  <2>3. QED BY <2>1, <2>2
<1>5. ASSUME NEW s \in Requests, requests'[s].at = "create"
      PROVE  requests'[s].password \notin Covered'
  <2>1. CASE s = r
    BY <1>1, <1>5, <2>1 DEF FreshInv
  <2>2. CASE s # r
    BY <1>1, <1>5, <2>2 DEF FreshInv
  <2>3. QED BY <2>1, <2>2
<1>6. ASSUME NEW s \in Requests, NEW t \in Requests, requests'[s].at = "create",
             requests'[t].at = "create", s # t
      PROVE  requests'[s].password # requests'[t].password
  BY <1>1, <1>6 DEF FreshInv, Holding
<1>7. QED BY <1>3, <1>4, <1>5, <1>6 DEF FreshInv, Holding

\* Every step keeps the invariant.
LEMMA StepFresh == TypeInv /\ FreshInv /\ [Next]_vars => FreshInv'
<1> SUFFICES ASSUME TypeInv, FreshInv, [Next]_vars PROVE FreshInv'
  OBVIOUS
<1> USE DEF historyVars
<1>1. CASE Queue \/ UNCHANGED vars
  <2>1. UNCHANGED <<requests, minted>>
    BY <1>1 DEF Queue, Add, Import, Patch, Delete, Appear, Write, vars
  <2>2. Covered' = Covered
    BY <1>1, CoveredStays DEF Queue, Add, Import, Patch, Delete, Write, vars
  <2>3. \A r \in Requests : requests[r].at \in Holding => requests[r].user \in Users
    BY DEF TypeInv, Phase, Holding, Provisioning
  <2>4. QED BY <2>1, <2>2, <2>3, RowsStay DEF FreshInv, Holding
<1>2. ASSUME NEW r \in Requests, Work(r) PROVE FreshInv'
  <2>i. /\ Idle.at \notin Holding
        /\ \A todo : /\ Choosing(todo).at \notin Holding
                     /\ [Choosing(todo) EXCEPT !.at = "failed"].at \notin Holding
    BY DEF Idle, Choosing, Holding
  <2>t. requests[r] \in Request
    BY DEF TypeInv, TypeOK
  <2>q. ASSUME NEW q, Become(r, q), q.at \notin Holding, UNCHANGED <<account, minted>>
        PROVE  FreshInv'
    BY <2>q, CoveredStays, FreshStep DEF Holding
  <2>1. CASE \E u \in Users : NextUser(r, u) /\ Eligible(u)
    <3>1. PICK u \in Users : NextUser(r, u) /\ Eligible(u)
      BY <2>1
    <3>2. PICK p \in Passwords \ minted :
             /\ Become(r, [at |-> "create", todo |-> requests[r].todo \ {u}, user |-> u,
                           email |-> rows[u].email, upn |-> Target(rows[u]),
                           password |-> p, batch |-> {}])
             /\ minted' = minted \cup {p}
      BY <3>1 DEF NextUser
    <3> DEFINE q == [at |-> "create", todo |-> requests[r].todo \ {u}, user |-> u,
                     email |-> rows[u].email, upn |-> Target(rows[u]),
                     password |-> p, batch |-> {}]
    <3>3. q.at = "create" /\ q.user = u /\ q.password = p /\ Become(r, q)
      BY <3>2
    <3>4. Covered' = Covered
      BY <3>1, CoveredStays DEF NextUser
    <3>5. rows[u].status # "none"
      BY <3>1 DEF Eligible, Exists, Absent
    <3> HIDE DEF q
    <3>6. QED BY <3>2, <3>3, <3>4, <3>5, FreshStep DEF Holding
  <2>2. CASE Create(r)
    <3> DEFINE q == [requests[r] EXCEPT !.at = "store"]
    <3>1. Become(r, q)
      BY <2>2, GoToTypes DEF Create, TypeInv
    <3>2. q.at = "store" /\ q.user = requests[r].user /\ q.password = requests[r].password
      BY <2>t DEF Request
    <3> HIDE DEF q
    <3>3. Covered' \subseteq Covered \cup {requests[r].password}
      <4>1. \A n \in Upns : account'[n] = account[n] \/ account'[n] = requests[r].password
        BY <2>2 DEF Create, TypeInv, TypeOK
      <4>2. QED BY <4>1 DEF Covered
    <3>4. minted' = minted /\ requests[r].at = "create"
      BY <2>2 DEF Create
    <3>5. QED BY <3>1, <3>2, <3>3, <3>4, FreshStep DEF Holding
  <2>3. CASE Store(r)
    <3> DEFINE q == [requests[r] EXCEPT !.at = "map", !.password = None]
    <3>1. Become(r, q) /\ q.at \notin Holding
      BY <2>3, <2>t DEF Store, Become, Holding, TypeInv, TypeOK, Request
    <3>2. QED BY <2>3, <3>1, <2>q DEF Store
  <2>4. CASE Map(r) \/ Purge(r)
    <3>1. PICK at \in {"audit", "deliver"} : Become(r, [requests[r] EXCEPT !.at = at])
      BY <2>4, GoToTypes DEF Map, Purge, TypeInv
    <3>2. [requests[r] EXCEPT !.at = at].at \notin Holding
      BY <2>t DEF Request, Holding
    <3>3. QED BY <2>4, <3>1, <3>2, <2>q DEF Map, Purge
  <2>5. CASE List(r)
    <3>1. [Idle EXCEPT !.at = "purge", !.batch = held].at \notin Holding
      BY DEF Idle, Holding
    <3>2. QED BY <2>5, <3>1, <2>q DEF List
  <2>6. CASE \/ \E ids \in SUBSET Users : Provision(r, ids)
             \/ \E u \in Users : NextUser(r, u) /\ ~Eligible(u)
             \/ Audited(r) \/ Finish(r) \/ Deliver(r) \/ Die(r)
             \/ CreateFails(r) \/ StoreFails(r) \/ MapFails(r)
    <3>1. PICK q : Become(r, q) /\ q.at \notin Holding /\ UNCHANGED <<account, minted>>
      BY <2>6, <2>i DEF Provision, NextUser, Audited, Finish, Deliver, Die, CreateFails,
                        StoreFails, MapFails, GiveUp
    <3>2. QED BY <3>1, <2>q
  <2>7. QED BY <1>2, <2>1, <2>2, <2>3, <2>4, <2>5, <2>6 DEF Work
<1>3. QED BY <1>1, <1>2 DEF Next

\* What a request that gives up drops is the password it had.
LEMMA GiveUpDrops ==
  ASSUME TypeInv, NEW r \in Requests, GiveUp(r), held \subseteq held', requests[r].batch = {},
         NEW p \in gone' \ gone
  PROVE  p = requests[r].password
<1> DEFINE q == [Choosing(requests[r].todo) EXCEPT !.at = "failed"]
<1>1. Become(r, q) /\ UNCHANGED handed /\ p \in Kept /\ p \notin Kept'
  BY DEF GiveUp, Drops
<1> HIDE DEF q
<1>2. /\ p \in Reach(requests[r], held \cup handed)
      /\ p \notin Reach(q, held' \cup handed')
  <2>1. /\ Kept = Others(r) \cup Reach(requests[r], held \cup handed)
        /\ Kept' = Others(r) \cup Reach(q, held' \cup handed')
    BY <1>1, KeptAfter
  <2>2. QED BY <1>1, <2>1
<1>3. QED BY <1>1, <1>2, InReach

\* A password of an account that a step drops is dropped in a failure or with the row
\* of its user.
LEMMA StepLockOut ==
  ASSUME TypeInv, FreshInv, [Next]_vars, NEW p \in (gone' \ gone) \cap Covered,
         faults' = faults
  PROVE  \E u \in Users : rows'[u].status = "deleted" /\ CreatedFor(p, u)
<1> USE DEF historyVars
<1>f. ~Fault
  BY DEF Fault
<1>m. \A r \in Requests : requests[r].at \notin {"purge", "deliver"} => requests[r].batch = {}
  BY DEF TypeInv, Phase
<1>1. ASSUME NEW u \in Users, Delete(u)
      PROVE  \E v \in Users : rows'[v].status = "deleted" /\ CreatedFor(p, v)
  <2>1. rows'[u].status = "deleted"
    BY <1>1 DEF Delete, NoRow, TypeInv, TypeOK
  <2>2. p \in Kept /\ p \notin Kept' /\ UNCHANGED <<requests, handed>>
        /\ held' = {c \in held : c.user # u}
    BY <1>1 DEF Delete, Drops
  <2>3. p \in Secrets(held) /\ p \notin Secrets(held')
    BY <2>2 DEF Kept, Secrets, InHand
  <2>4. PICK c \in held : c.password = p /\ c.user = u
    BY <2>2, <2>3 DEF Secrets
  <2>5. QED BY <2>1, <2>4 DEF CreatedFor
<1>2. ASSUME NEW r \in Requests, CreateFails(r) PROVE FALSE
  <2>1. p = requests[r].password
    BY <1>2, <1>m, GiveUpDrops DEF CreateFails
  <2>2. QED BY <1>2, <2>1 DEF CreateFails, FreshInv
<1>3. ASSUME NEW r \in Requests, StoreFails(r)
      PROVE  \E v \in Users : rows'[v].status = "deleted" /\ CreatedFor(p, v)
  <2>1. /\ requests[r].at = "store" /\ ~Exists(requests[r].user)
        /\ UNCHANGED <<rows, held>> /\ GiveUp(r)
    BY <1>3, <1>f DEF StoreFails, GiveUp
  <2>2. p = requests[r].password
    BY <2>1, <1>m, GiveUpDrops
  <2>3. requests[r].user \in Users
    BY <2>1 DEF TypeInv, Phase, Provisioning
  <2>4. rows'[requests[r].user].status = "deleted"
    BY <2>1 DEF FreshInv, Holding, Exists, Absent
  <2>5. QED BY <2>2, <2>3, <2>4 DEF CreatedFor
<1>4. ASSUME NEW r \in Requests, MapFails(r) \/ Die(r) PROVE FALSE
  BY <1>4, <1>f DEF MapFails, Die
<1>5. CASE UNCHANGED gone
  BY <1>5
<1>6. QED
  BY <1>1, <1>2, <1>3, <1>4, <1>5
  DEF Next, Queue, Work, Add, Import, Patch, Write, Appear, Provision, NextUser, Create,
      Store, Map, Audited, Finish, List, Purge, Deliver, vars

(***************************************************************************)
(* Requests that cross lock nobody out: the password of an account that    *)
(* EntraShift created goes only in a failure, or with the row of the user  *)
(* it was created for.                                                     *)
(***************************************************************************)
THEOREM CrossingLocksNobodyOut == Spec => OnlyFailuresLockOut
<1> DEFINE HasCause ==
      \A p \in (gone' \ gone) \cap Covered :
         \/ faults' # faults
         \/ \E u \in Users : rows'[u].status = "deleted" /\ CreatedFor(p, u)
<1>1. TypeInv /\ FreshInv /\ [Next]_vars => HasCause
  BY StepLockOut
<1>2. Spec => [](TypeInv /\ FreshInv)
  BY InitPhase, InitFresh, StepTypes, StepFresh, PTL DEF Spec
<1>3. QED BY <1>1, <1>2, PTL DEF Spec, OnlyFailuresLockOut
===============================================================================
