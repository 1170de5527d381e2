------------------------ MODULE TenantConnectionsProofs ------------------------
(***************************************************************************)
(* Theorems of TenantConnections for any number of roles, apps, secrets,   *)
(* row ids and tabs: type correctness, that a role that says connected was *)
(* tested, that the audit record names the row that was changed, and that  *)
(* a tenant that was removed stays removed.                                *)
(***************************************************************************)
EXTENDS TenantConnections, TLAPS

\* What a request has in its local variables at each step of its route.
Phase(q) ==
    /\ q.at = "read" => q.kind \in {"test", "rotate", "disconnect"}
    /\ q.at \in {"material", "probe"} => q.kind = "test"
    /\ q.at = "probe" \/ (q.at = "write" /\ q.kind \in {"connect", "test"})
          => q.app \in Apps /\ q.secret \in Secrets
    /\ q.at \in {"read", "write"} /\ q.kind = "rotate" => q.secret \in Secrets
    /\ q.at = "write" /\ q.kind = "test" => q.verdict \in {"connected", "error"}

\* Typed, and every request in a phase.
TypeInv == TypeOK /\ \A t \in Tabs : Phase(requests[t])

\* A fresh request is typed and in a phase.
LEMMA FreshTypes ==
  ASSUME NEW role \in Roles
  PROVE  NoRequest(role) \in Request /\ Phase(NoRequest(role))
  BY DEF NoRequest, Request, Phase

\* A request that is typed and in a phase leaves the others so.
LEMMA BecomeTypes ==
  ASSUME TypeInv, NEW t \in Tabs, NEW q \in Request, Phase(q), Become(t, q)
  PROVE  requests' \in [Tabs -> Request] /\ \A u \in Tabs : Phase(requests'[u])
  BY DEF TypeInv, TypeOK, Become

\* What the console shows of rows is typed.
LEMMA ListedTypes ==
  ASSUME TypeOK, NEW role \in Roles
  PROVE  Listed(role) \in Shown \cup {None}
  BY DEF TypeOK, Listed, Shown, Row

\* A request about the row on screen is typed and in a phase, a rotation with its secret.
LEMMA AboutTypes ==
  ASSUME TypeOK, NEW t \in Tabs, NEW role \in Roles, shown[t][role] # None,
         NEW kind \in {"test", "disconnect"}, NEW secret \in Secrets
  PROVE  /\ About(t, role, kind) \in Request /\ Phase(About(t, role, kind))
         /\ [About(t, role, "rotate") EXCEPT !.secret = secret] \in Request
         /\ Phase([About(t, role, "rotate") EXCEPT !.secret = secret])
<1>1. shown[t][role] \in Shown
  BY DEF TypeOK
<1>2. shown[t][role].id \in Ids /\ shown[t][role].app \in Apps
  BY <1>1 DEF Shown
<1>3. QED BY <1>2 DEF About, NoRequest, Request, Phase

\* The target of a request is a row, if there is one.
LEMMA TargetTypes ==
  ASSUME TypeOK, NEW q \in Request
  PROVE  /\ Target(q) \in Row \cup {None}
         /\ Target(q) # None => Target(q) = rows[q.role]
  BY DEF TypeOK, Target, Request

\* What a change makes of a row is a row or nothing.
LEMMA UpdatedTypes ==
  ASSUME TypeInv, NEW t \in Tabs, requests[t].at = "write",
         requests[t].kind \in {"rotate", "test", "disconnect"}
  PROVE  Updated(requests[t]) \in Row \cup {None}
<1> DEFINE q == requests[t]
<1>1. q \in Request /\ Phase(q)
  BY DEF TypeInv, TypeOK
<1>2. CASE Target(q) = None
  BY <1>1, <1>2 DEF Updated, TypeInv, TypeOK, Request
<1>3. CASE Target(q) # None
  <2>1. Target(q) \in Row
    BY <1>1, <1>3, TargetTypes DEF TypeInv
  <2>2. CASE q.kind = "rotate"
    <3>1. Rotated(Target(q), q) \in Row
      BY <1>1, <2>1, <2>2 DEF Rotated, Row, Phase
    <3>2. QED BY <1>3, <2>2, <3>1 DEF Updated
  <2>3. CASE q.kind = "test"
    <3>1. Judged(Target(q), q) \in Row
      BY <1>1, <2>1, <2>3 DEF Judged, Row, Phase
    <3>2. QED BY <1>3, <2>3, <3>1 DEF Updated
  <2>4. CASE q.kind = "disconnect"
    BY <1>3, <2>4 DEF Updated
  <2>5. QED BY <2>2, <2>3, <2>4
<1>4. QED BY <1>2, <1>3

\* The initial state is typed.
LEMMA InitTypes == Init => TypeInv
  BY FreshTypes DEF Init, TypeInv, TypeOK

\* Every step keeps the types.
LEMMA NextTypes == TypeInv /\ [Next]_vars => TypeInv'
<1> SUFFICES ASSUME TypeInv, [Next]_vars PROVE TypeInv'
  OBVIOUS
<1> USE DEF TypeInv
<1>1. ASSUME NEW t \in Tabs, Load(t) PROVE TypeInv'
  BY <1>1, ListedTypes DEF Load, TypeOK, history
<1>2. ASSUME NEW t \in Tabs, Answer(t) PROVE TypeInv'
  <2>1. requests[t].role \in Roles
    BY DEF TypeOK, Request
  <2>2. requests' \in [Tabs -> Request] /\ \A u \in Tabs : Phase(requests'[u])
    BY <1>2, <2>1, FreshTypes, BecomeTypes DEF Answer
  <2>3. shown' \in [Tabs -> [Roles -> Shown \cup {None}]]
    BY <1>2, ListedTypes DEF Answer, TypeOK
  <2>4. QED BY <1>2, <2>2, <2>3 DEF Answer, TypeOK, history
<1>3. ASSUME NEW t \in Tabs, NEW q \in Request, Phase(q), Submit(t, q) PROVE TypeInv'
  BY <1>3, BecomeTypes DEF Submit, TypeOK, history
<1>4. ASSUME NEW t \in Tabs, NEW role \in Roles, Test(t, role) \/ Disconnect(t, role)
      PROVE  TypeInv'
  <2>1. shown[t][role] # None
    BY <1>4 DEF Test, Disconnect
  <2>2. /\ About(t, role, "test") \in Request /\ Phase(About(t, role, "test"))
        /\ About(t, role, "disconnect") \in Request /\ Phase(About(t, role, "disconnect"))
    <3>1. shown[t][role].id \in Ids /\ shown[t][role].app \in Apps
      BY <2>1 DEF TypeOK, Shown
    <3>2. QED BY <3>1 DEF About, NoRequest, Request, Phase
  <2>3. QED BY <1>3, <1>4, <2>2 DEF Test, Disconnect
<1>5. ASSUME NEW t \in Tabs, NEW role \in Roles, NEW secret \in Secrets, Rotate(t, role, secret)
      PROVE  TypeInv'
  BY <1>3, <1>5, AboutTypes DEF Rotate
<1>6. ASSUME NEW t \in Tabs, NEW role \in Roles, NEW secret \in Secrets, NEW app \in Apps,
             Connect(t, role, app, secret)
      PROVE  TypeInv'
  <2> DEFINE q == [NoRequest(role) EXCEPT !.kind = "connect", !.at = "write", !.app = app,
                                          !.secret = secret, !.named = app]
  <2>1. q \in Request /\ Phase(q)
    BY DEF NoRequest, Request, Phase
  <2>2. QED BY <1>3, <1>6, <2>1 DEF Connect
<1>7. ASSUME NEW t \in Tabs, Fail(t) PROVE TypeInv'
  <2>0. requests[t] \in Request
    BY DEF TypeOK
  <2> DEFINE q == [requests[t] EXCEPT !.at = "failed"]
  <2>1. q \in Request /\ Phase(q)
    BY <2>0 DEF Request, Phase
  <2>2. QED BY <1>7, <2>1, BecomeTypes DEF Fail, TypeOK, history
<1>8. ASSUME NEW t \in Tabs, Read(t) PROVE TypeInv'
  <2> DEFINE q == requests[t]
  <2>1. q \in Request /\ Phase(q)
    BY DEF TypeOK
  <2>2. CASE Target(q) = None
    <3>1. [q EXCEPT !.at = "failed"] \in Request /\ Phase([q EXCEPT !.at = "failed"])
      BY <2>1 DEF Request, Phase
    <3>2. QED BY <1>8, <2>2, <3>1, BecomeTypes DEF Read, TypeOK, history
  <2>3. CASE Target(q) # None
    <3> DEFINE r == [q EXCEPT !.at = IF q.kind = "test" THEN "material" ELSE "write",
                              !.named = Named(q)]
    <3>1. Named(q) \in Apps
      BY <2>1, <2>3, TargetTypes DEF Named, Row
    <3>2. q.at = "read"
      BY <1>8 DEF Read
    <3>3. r \in Request
      <4> DEFINE at == IF q.kind = "test" THEN "material" ELSE "write"
                 named == Named(q)
      <4>1. r = [q EXCEPT !.at = at, !.named = named] /\ at \in {"material", "write"}
        OBVIOUS
      <4>2. named \in Apps /\ q \in Request
        BY <2>1, <3>1
      <4> HIDE DEF at, named, r, q
      <4>3. QED BY <4>1, <4>2 DEF Request
    <3>4. Phase(r)
      BY <2>1, <3>2 DEF Request, Phase
    <3>5. QED BY <1>8, <2>3, <3>3, <3>4, BecomeTypes DEF Read, TypeOK, history
  <2>4. QED BY <2>2, <2>3
<1>9. ASSUME NEW t \in Tabs, ReadMaterial(t) PROVE TypeInv'
  <2> DEFINE q == requests[t]
  <2>1. q \in Request /\ Phase(q) /\ q.at = "material"
    BY <1>9 DEF TypeOK, ReadMaterial
  <2>2. CASE Target(q) = None
    <3>1. [q EXCEPT !.at = "failed"] \in Request /\ Phase([q EXCEPT !.at = "failed"])
      BY <2>1 DEF Request, Phase
    <3>2. QED BY <1>9, <2>2, <3>1, BecomeTypes DEF ReadMaterial, TypeOK, history
  <2>3. CASE Target(q) # None
    <3> DEFINE r == [q EXCEPT !.at = "probe", !.app = Target(q).app,
                              !.secret = Target(q).secret, !.named = Target(q).app]
    <3>1. Target(q).app \in Apps /\ Target(q).secret \in Secrets
      BY <2>1, <2>3, TargetTypes DEF Row
    <3>2. r \in Request /\ Phase(r)
      BY <2>1, <3>1 DEF Request, Phase
    <3>3. QED BY <1>9, <2>3, <3>2, BecomeTypes DEF ReadMaterial, TypeOK, history
  <2>4. QED BY <2>2, <2>3
<1>10. ASSUME NEW t \in Tabs, Probe(t) PROVE TypeInv'
  <2> DEFINE q == requests[t]
             r(verdict) == [q EXCEPT !.at = "write", !.verdict = verdict]
  <2>1. q \in Request /\ Phase(q) /\ q.at = "probe"
    BY <1>10 DEF TypeOK, Probe
  <2>2. /\ r("connected") \in Request /\ Phase(r("connected"))
        /\ r("error") \in Request /\ Phase(r("error"))
    <3> HIDE DEF q, r
    <3>1. ASSUME NEW verdict \in {"connected", "error"} PROVE r(verdict) \in Request /\ Phase(r(verdict))
      <4>1. r(verdict) = [q EXCEPT !.at = "write", !.verdict = verdict]
        BY DEF r
      <4>2. r(verdict) \in Request
        BY <2>1, <4>1 DEF Request
      <4>3. QED BY <2>1, <4>1, <4>2 DEF Request, Phase
    <3>2. QED BY <3>1
  <2>3. requests' \in [Tabs -> Request] /\ \A u \in Tabs : Phase(requests'[u])
    BY <1>10, <2>2, BecomeTypes DEF Probe
  <2>4. verified' \subseteq Apps \X Secrets
    BY <1>10, <2>1 DEF Probe, TypeOK, Phase
  <2>5. QED BY <1>10, <2>3, <2>4 DEF Probe, TypeOK
<1>11. ASSUME NEW t \in Tabs, NEW id \in Ids, Upsert(t, id) PROVE TypeInv'
  <2> DEFINE q == requests[t]
  <2>1. q \in Request /\ Phase(q) /\ q.kind = "connect" /\ q.at = "write"
    BY <1>11 DEF TypeOK, Upsert
  <2>2. q.app \in Apps /\ q.secret \in Secrets /\ q.role \in Roles
    BY <2>1 DEF Request, Phase
  <2>3. rows' \in [Roles -> Row \cup {None}]
    BY <1>11, <2>2 DEF Upsert, TypeOK, Row
  <2>4. ASSUME NEW u \in Tabs PROVE requests'[u] \in Request /\ Phase(requests'[u])
    <3>1. CASE u = t
      BY <1>11, <2>1, <2>2, <3>1 DEF Upsert, Request, Phase
    <3>2. CASE u # t
      <4>1. requests[u] \in Request /\ Phase(requests[u])
        BY DEF TypeOK
      <4> DEFINE raced == requests[u].raced \/ requests[u].at \in {"material", "probe", "write"}
      <4>2. requests'[u] = [requests[u] EXCEPT !.raced = raced]
        BY <1>11, <3>2 DEF Upsert
      <4>3. raced \in BOOLEAN
        BY <4>1 DEF Request
      <4> HIDE DEF raced
      <4>4. QED BY <4>1, <4>2, <4>3 DEF Request, Phase
    <3>3. QED BY <3>1, <3>2
  <2>5. requests' \in [Tabs -> Request]
    BY <1>11, <2>4 DEF Upsert
  <2>6. QED BY <1>11, <2>3, <2>4, <2>5 DEF Upsert, TypeOK
<1>12. ASSUME NEW t \in Tabs, Change(t) PROVE TypeInv'
  <2> DEFINE q == requests[t]
             changed == IF Target(q) = None THEN None ELSE Target(q).app
             r == [q EXCEPT !.at = "audit", !.app = None, !.secret = None, !.verdict = "none",
                            !.changed = changed]
  <2>1. q \in Request /\ q.kind \in {"rotate", "test", "disconnect"} /\ q.at = "write"
    BY <1>12 DEF TypeOK, Change
  <2>2. rows' \in [Roles -> Row \cup {None}]
    BY <1>12, <2>1, UpdatedTypes DEF Change, TypeOK
  <2>3. changed \in Apps \cup {None}
    BY <2>1, TargetTypes DEF Row
  <2>4. r \in Request
    <3> HIDE DEF changed
    <3>1. QED BY <2>1, <2>3 DEF Request
  <2>5. Phase(r)
    BY <2>1 DEF Phase, Request
  <2>6. requests' \in [Tabs -> Request] /\ \A u \in Tabs : Phase(requests'[u])
    BY <1>12, <2>4, <2>5, BecomeTypes DEF Change
  <2>7. QED BY <1>12, <2>2, <2>6 DEF Change, TypeOK, history
<1>13. ASSUME NEW t \in Tabs, Audit(t) PROVE TypeInv'
  <2>0. requests[t] \in Request
    BY DEF TypeOK
  <2> DEFINE q == [requests[t] EXCEPT !.at = "done"]
  <2>1. q \in Request /\ Phase(q)
    BY <2>0 DEF Request, Phase
  <2>2. QED BY <1>13, <2>1, BecomeTypes DEF Audit, TypeOK, history
<1>14. ASSUME UNCHANGED vars PROVE TypeInv'
  BY <1>14 DEF vars, history, TypeOK
<1>15. QED BY <1>1, <1>2, <1>4, <1>5, <1>6, <1>7, <1>8, <1>9, <1>10, <1>11, <1>12, <1>13,
             <1>14 DEF Next

\* Type correctness: two tabs' requests interleave and no row, request or record of the
\* audit is ever of a form that the code does not know.
THEOREM TypeCorrect == Spec => []TypeOK
<1>1. TypeInv => TypeOK
  BY DEF TypeInv
<1>2. QED BY <1>1, InitTypes, NextTypes, PTL DEF Spec

-------------------------------------------------------------------------------
(* What the requests vouch for and name. *)

\* A test that is about to write "connected" has found its credentials good.
Vouched(q) ==
    q.kind = "test" /\ q.at = "write" /\ q.verdict = "connected"
       => <<q.app, q.secret>> \in verified

\* The name that goes to the audit log is that of the row that will be changed, as long as
\* there is one and no connect came between; and then that of the row that was.
Naming(q) ==
    /\ q.changed # None => q.at \in {"audit", "done", "failed"} /\ (~q.raced => q.named = q.changed)
    /\ q.kind = "connect" /\ q.at = "write" => q.named = q.app
    /\ q.at \in {"material", "probe", "write"} /\ q.kind # "connect" /\ ~q.raced /\ Target(q) # None
          => q.named = Target(q).app

\* The inductive invariant.
IInv ==
    /\ TypeInv
    /\ ConnectedWasTested
    /\ \A t \in Tabs : Vouched(requests[t]) /\ Naming(requests[t])

\* A fresh request vouches for nothing.
LEMMA FreshNames ==
  ASSUME NEW role \in Roles
  PROVE  Vouched(NoRequest(role)) /\ Naming(NoRequest(role))
  BY DEF NoRequest, Vouched, Naming

\* While the rows and the verified credentials stay, only the request that moves matters.
LEMMA BecomeNames ==
  ASSUME IInv, NEW t \in Tabs, NEW q \in Request, Become(t, q), UNCHANGED <<rows, verified>>,
         Vouched(q), Naming(q)
  PROVE  ConnectedWasTested' /\ \A u \in Tabs : (Vouched(requests[u]) /\ Naming(requests[u]))'
<1>1. ConnectedWasTested'
  BY DEF IInv, ConnectedWasTested
<1>2. ASSUME NEW u \in Tabs PROVE (Vouched(requests[u]) /\ Naming(requests[u]))'
  <2>1. CASE u = t
    BY <2>1 DEF IInv, TypeInv, TypeOK, Become, Vouched, Naming, Target
  <2>2. CASE u # t
    <3>1. requests'[u] = requests[u]
      BY <2>2 DEF IInv, TypeInv, TypeOK, Become
    <3>2. QED BY <3>1 DEF IInv, Vouched, Naming, Target
  <2>3. QED BY <2>1, <2>2
<1>3. QED BY <1>1, <1>2

\* Initially nothing is connected and nobody asks.
LEMMA InitNames == Init => IInv
<1> SUFFICES ASSUME Init PROVE IInv
  OBVIOUS
<1>1. TypeInv
  BY InitTypes
<1>2. ConnectedWasTested
  BY DEF Init, ConnectedWasTested
<1>3. \A t \in Tabs : Vouched(requests[t]) /\ Naming(requests[t])
  BY FreshNames DEF Init
<1>4. QED BY <1>1, <1>2, <1>3 DEF IInv

\* Every step keeps the inductive invariant.
LEMMA NextNames == IInv /\ [Next]_vars => IInv'
<1> SUFFICES ASSUME IInv, [Next]_vars PROVE IInv'
  OBVIOUS
<1> DEFINE Goal == ConnectedWasTested' /\ \A u \in Tabs : (Vouched(requests[u]) /\ Naming(requests[u]))'
<1>0. TypeInv /\ TypeInv' /\ \A t \in Tabs : requests[t] \in Request /\ Phase(requests[t])
  BY NextTypes DEF IInv, TypeInv, TypeOK
<1>1. ASSUME NEW t \in Tabs, Load(t) PROVE Goal
  <2>1. UNCHANGED <<rows, requests, verified>>
    BY <1>1 DEF Load, history
  <2>2. QED BY <2>1 DEF IInv, ConnectedWasTested, Vouched, Naming, Target
<1>2. ASSUME NEW t \in Tabs, Answer(t) PROVE Goal
  <2>1. requests[t].role \in Roles
    BY <1>0 DEF Request
  <2>2. Become(t, NoRequest(requests[t].role)) /\ UNCHANGED <<rows, verified>>
    BY <1>2 DEF Answer, history
  <2>3. QED BY <2>1, <2>2, FreshTypes, FreshNames, BecomeNames
<1>3. ASSUME NEW t \in Tabs, NEW q \in Request, Vouched(q), Naming(q), Submit(t, q) PROVE Goal
  BY <1>3, BecomeNames DEF Submit, history
<1>4. ASSUME NEW t \in Tabs, NEW role \in Roles, Test(t, role) \/ Disconnect(t, role) PROVE Goal
  <2>1. shown[t][role].id \in Ids /\ shown[t][role].app \in Apps
    BY <1>0, <1>4 DEF TypeInv, TypeOK, Shown, Test, Disconnect
  <2>2. ASSUME NEW kind \in {"test", "disconnect"}
        PROVE  LET q == About(t, role, kind) IN q \in Request /\ Vouched(q) /\ Naming(q)
    BY <2>1 DEF About, NoRequest, Request, Vouched, Naming
  <2>3. QED BY <1>3, <1>4, <2>2 DEF Test, Disconnect
<1>5. ASSUME NEW t \in Tabs, NEW role \in Roles, NEW secret \in Secrets, Rotate(t, role, secret)
      PROVE  Goal
  <2> DEFINE q == [About(t, role, "rotate") EXCEPT !.secret = secret]
  <2>1. shown[t][role].id \in Ids /\ shown[t][role].app \in Apps
    BY <1>0, <1>5 DEF TypeInv, TypeOK, Shown, Rotate
  <2>2. q \in Request /\ Vouched(q) /\ Naming(q)
    BY <2>1 DEF About, NoRequest, Request, Vouched, Naming
  <2>3. QED BY <1>3, <1>5, <2>2 DEF Rotate
<1>6. ASSUME NEW t \in Tabs, NEW role \in Roles, NEW secret \in Secrets, NEW app \in Apps,
             Connect(t, role, app, secret)
      PROVE  Goal
  <2> DEFINE q == [NoRequest(role) EXCEPT !.kind = "connect", !.at = "write", !.app = app,
                                          !.secret = secret, !.named = app]
  <2>1. q \in Request /\ Vouched(q) /\ Naming(q)
    BY DEF NoRequest, Request, Vouched, Naming
  <2>2. QED BY <1>3, <1>6, <2>1 DEF Connect
<1>7. ASSUME NEW t \in Tabs, Fail(t) PROVE Goal
  <2> DEFINE q == [requests[t] EXCEPT !.at = "failed"]
  <2>1. q \in Request
    BY <1>0 DEF Request
  <2>2. Vouched(q) /\ Naming(q)
    BY <1>0, <2>1 DEF IInv, Request, Vouched, Naming
  <2>3. QED BY <1>7, <2>1, <2>2, BecomeNames DEF Fail, history
<1>8. ASSUME NEW t \in Tabs, Read(t) PROVE Goal
  <2> DEFINE q == requests[t]
  <2>1. q \in Request /\ q.at = "read" /\ Phase(q) /\ Naming(q)
    BY <1>0, <1>8 DEF Read, IInv
  <2>2. CASE Target(q) = None
    <3>1. LET r == [q EXCEPT !.at = "failed"] IN r \in Request /\ Vouched(r) /\ Naming(r)
      BY <2>1 DEF Request, Vouched, Naming
    <3>2. QED BY <1>8, <2>2, <3>1, BecomeNames DEF Read, history
  <2>3. CASE Target(q) # None
    <3> DEFINE r == [q EXCEPT !.at = IF q.kind = "test" THEN "material" ELSE "write",
                              !.named = Named(q)]
    <3>1. Target(q).app \in Apps
      BY <1>0, <2>1, <2>3, TargetTypes DEF TypeInv, Row
    <3>2. r \in Request
      <4> DEFINE at == IF q.kind = "test" THEN "material" ELSE "write"
                 named == Named(q)
      <4>1. r = [q EXCEPT !.at = at, !.named = named] /\ at \in {"material", "write"}
        OBVIOUS
      <4>2. named \in Apps /\ q \in Request
        BY <2>1, <3>1 DEF Named
      <4> HIDE DEF at, named, r, q
      <4>3. QED BY <4>1, <4>2 DEF Request
    <3>3. Target(r) = Target(q)
      BY <2>1 DEF Target, Request
    <3>4. Vouched(r)
      BY <2>1 DEF Request, Vouched
    <3>5. Naming(r)
      BY <2>1, <3>3 DEF Request, Naming, Named, Phase
    <3>6. QED BY <1>8, <2>3, <3>2, <3>4, <3>5, BecomeNames DEF Read, history
  <2>4. QED BY <2>2, <2>3
<1>9. ASSUME NEW t \in Tabs, ReadMaterial(t) PROVE Goal
  <2> DEFINE q == requests[t]
  <2>1. q \in Request /\ q.at = "material" /\ Phase(q) /\ Naming(q)
    BY <1>0, <1>9 DEF ReadMaterial, IInv
  <2>2. CASE Target(q) = None
    <3>1. LET r == [q EXCEPT !.at = "failed"] IN r \in Request /\ Vouched(r) /\ Naming(r)
      BY <2>1 DEF Request, Vouched, Naming
    <3>2. QED BY <1>9, <2>2, <3>1, BecomeNames DEF ReadMaterial, history
  <2>3. CASE Target(q) # None
    <3> DEFINE r == [q EXCEPT !.at = "probe", !.app = Target(q).app,
                              !.secret = Target(q).secret, !.named = Target(q).app]
    <3>1. Target(q).app \in Apps /\ Target(q).secret \in Secrets
      BY <1>0, <2>1, <2>3, TargetTypes DEF TypeInv, Row
    <3>2. r \in Request
      BY <2>1, <3>1 DEF Request
    <3>3. Target(r) = Target(q)
      BY <2>1 DEF Target, Request
    <3>4. Vouched(r)
      BY <2>1 DEF Request, Vouched
    <3>5. Naming(r)
      BY <2>1, <3>3 DEF Request, Naming
    <3>6. QED BY <1>9, <2>3, <3>2, <3>4, <3>5, BecomeNames DEF ReadMaterial, history
  <2>4. QED BY <2>2, <2>3
<1>10. ASSUME NEW t \in Tabs, Probe(t) PROVE Goal
  <2> DEFINE q == requests[t]
             r(verdict) == [q EXCEPT !.at = "write", !.verdict = verdict]
  <2>1. q \in Request /\ q.at = "probe" /\ Phase(q) /\ Naming(q)
    BY <1>0, <1>10 DEF Probe, IInv
  <2>2. PICK verdict \in {"connected", "error"} :
           /\ Become(t, r(verdict))
           /\ verified' = IF verdict = "connected" THEN verified \cup {<<q.app, q.secret>>}
                          ELSE verified
    BY <1>10 DEF Probe
  <2>3. rows' = rows /\ verified \subseteq verified'
    BY <1>10, <2>2 DEF Probe
  <2>4. ConnectedWasTested'
    BY <2>3 DEF IInv, ConnectedWasTested
  <2>5. ASSUME NEW u \in Tabs, u # t PROVE (Vouched(requests[u]) /\ Naming(requests[u]))'
    <3>1. requests'[u] = requests[u]
      BY <1>0, <2>2, <2>5 DEF Become, TypeInv, TypeOK
    <3>2. QED BY <2>3, <3>1 DEF IInv, Vouched, Naming, Target
  <2>6. requests'[t] = r(verdict)
    BY <1>0, <2>2 DEF Become, TypeInv, TypeOK
  <2>7. Vouched(requests[t])'
    BY <2>1, <2>2, <2>6 DEF Vouched, Request
  <2>8. Naming(requests[t])'
    BY <2>1, <2>3, <2>6 DEF Naming, Request, Phase, Target
  <2>9. QED BY <2>4, <2>5, <2>7, <2>8
<1>11. ASSUME NEW t \in Tabs, NEW id \in Ids, Upsert(t, id) PROVE Goal
  <2> DEFINE q == requests[t]
  <2>1. q \in Request /\ q.kind = "connect" /\ q.at = "write" /\ Naming(q) /\ q.changed = None
    BY <1>0, <1>11 DEF Upsert, IInv, Naming
  <2>2. verified' = verified
    BY <1>11 DEF Upsert
  <2>3. ConnectedWasTested'
    <3>1. ASSUME NEW role \in Roles, role # q.role PROVE rows'[role] = rows[role]
      BY <1>0, <1>11, <3>1 DEF Upsert, TypeInv, TypeOK
    <3>2. rows'[q.role].status = "disconnected"
      BY <1>0, <1>11, <2>1 DEF Upsert, TypeInv, TypeOK, Request
    <3>3. QED BY <2>2, <3>1, <3>2 DEF IInv, ConnectedWasTested
  <2>4. ASSUME NEW u \in Tabs PROVE (Vouched(requests[u]) /\ Naming(requests[u]))'
    <3>1. CASE u = t
      <4>1. requests'[t] = [q EXCEPT !.at = "audit", !.app = None, !.secret = None,
                                     !.changed = q.app]
        BY <1>11 DEF Upsert
      <4>2. QED BY <2>1, <3>1, <4>1 DEF Vouched, Naming, Request
    <3>2. CASE u # t
      <4> DEFINE raced == requests[u].raced \/ requests[u].at \in {"material", "probe", "write"}
      <4>1. requests[u] \in Request /\ Vouched(requests[u]) /\ Naming(requests[u])
        BY <1>0 DEF IInv
      <4>2. requests'[u] = [requests[u] EXCEPT !.raced = raced]
        BY <1>11, <3>2 DEF Upsert
      <4>3. Vouched(requests[u])'
        BY <2>2, <4>1, <4>2 DEF Vouched, Request
      <4>4. Naming(requests[u])'
        <5>1. /\ requests'[u].at = requests[u].at /\ requests'[u].kind = requests[u].kind
              /\ requests'[u].changed = requests[u].changed /\ requests'[u].raced = raced
              /\ requests'[u].named = requests[u].named /\ requests'[u].app = requests[u].app
          BY <4>1, <4>2 DEF Request
        <5>2. QED BY <4>1, <5>1 DEF Naming
      <4>5. QED BY <4>3, <4>4
    <3>3. QED BY <3>1, <3>2
  <2>5. QED BY <2>3, <2>4
<1>12. ASSUME NEW t \in Tabs, Change(t) PROVE Goal
  <2> DEFINE q == requests[t]
             changed == IF Target(q) = None THEN None ELSE Target(q).app
             r == [q EXCEPT !.at = "audit", !.app = None, !.secret = None, !.verdict = "none",
                            !.changed = changed]
  <2>1. /\ q \in Request /\ q.kind \in {"rotate", "test", "disconnect"} /\ q.at = "write"
        /\ Vouched(q) /\ Naming(q)
    BY <1>0, <1>12 DEF Change, IInv
  <2>2. rows' = [rows EXCEPT ![q.role] = Updated(q)] /\ verified' = verified
    BY <1>12 DEF Change, history
  <2>3. rows[q.role] \in Row \cup {None} /\ q.role \in Roles
    BY <1>0, <2>1 DEF TypeInv, TypeOK, Request
  <2>4. /\ rows'[q.role] = Updated(q)
        /\ \A role \in Roles : role # q.role => rows'[role] = rows[role]
    BY <1>0, <2>2, <2>3 DEF TypeInv, TypeOK
  <2>5. CASE Target(q) = None
    <3>1. Updated(q) = rows[q.role]
      BY <2>1, <2>5 DEF Updated
    <3>2. rows' = rows
      BY <1>0, <2>2, <2>3, <3>1 DEF TypeInv, TypeOK
    <3>3. Vouched(r) /\ Naming(r) /\ Become(t, r) /\ r \in Request
      <4>1. changed = None
        BY <2>5
      <4>2. Become(t, r)
        BY <1>12 DEF Change
      <4> HIDE DEF changed, q
      <4>3. r \in Request
        BY <2>1, <4>1 DEF Request
      <4>4. r.at = "audit" /\ r.changed = None /\ r.app = None /\ r.secret = None /\ r.verdict = "none"
        BY <2>1, <4>1 DEF Request
      <4> HIDE DEF r
      <4>5. Vouched(r) /\ Naming(r)
        BY <4>4 DEF Vouched, Naming
      <4>6. QED BY <4>2, <4>3, <4>5
    <3>4. QED BY <2>2, <3>2, <3>3, BecomeNames
  <2>6. CASE Target(q) # None
    <3>1. Target(q) = rows[q.role] /\ Target(q) \in Row
      BY <2>3, <2>6 DEF Target
    <3>2. Updated(q) # None => Updated(q).id = Target(q).id /\ Updated(q).app = Target(q).app
      BY <2>1, <2>6, <3>1 DEF Updated, Rotated, Judged, Row
    <3>3. ConnectedWasTested'
      <4>1. Updated(q) # None /\ Updated(q).status = "connected"
               => Updated(q).overtaken \/ <<Updated(q).app, Updated(q).secret>> \in verified
        <5>1. CASE q.kind = "rotate"
          BY <2>6, <3>1, <5>1 DEF Updated, Rotated, Row
        <5>2. CASE q.kind = "test"
          BY <2>1, <2>6, <3>1, <5>2 DEF Updated, Judged, Row, Vouched
        <5>3. CASE q.kind = "disconnect"
          BY <2>6, <5>3 DEF Updated
        <5>4. QED BY <2>1, <5>1, <5>2, <5>3
      <4>2. QED BY <2>2, <2>4, <4>1 DEF IInv, ConnectedWasTested
    <3>4. ASSUME NEW u \in Tabs PROVE (Vouched(requests[u]) /\ Naming(requests[u]))'
      <4>1. CASE u = t
        <5>1. requests'[t] = r
          BY <1>0, <1>12 DEF Change, Become, TypeInv, TypeOK
        <5>2. changed = Target(q).app
          BY <2>6
        <5>3. /\ r.at = "audit" /\ r.kind = q.kind /\ r.changed = Target(q).app
              /\ r.raced = q.raced /\ r.named = q.named
          BY <2>1, <5>2 DEF Request
        <5>4. ~q.raced => q.named = Target(q).app
          BY <2>1, <2>6 DEF Naming
        <5>5. QED BY <4>1, <5>1, <5>3, <5>4 DEF Vouched, Naming
      <4>2. CASE u # t
        <5>1. requests'[u] = requests[u]
          BY <1>0, <1>12, <4>2 DEF Change, Become, TypeInv, TypeOK
        <5>2. requests[u].role \in Roles
          BY <1>0 DEF Request
        <5> DEFINE role == requests[u].role
                   new == IF rows'[role] # None /\ rows'[role].id = requests[u].id
                          THEN rows'[role] ELSE None
        <5>3. Target(requests[u])' = new
          BY <5>1 DEF Target
        <5>4. new # None => /\ Target(requests[u]) # None
                            /\ new.app = Target(requests[u]).app
          <6>1. CASE role = q.role
            <7>1. rows'[role] = Updated(q) /\ rows[role] = Target(q)
              BY <2>4, <3>1, <6>1
            <7>2. QED BY <2>6, <3>2, <7>1 DEF Target
          <6>2. CASE role # q.role
            <7>1. rows'[role] = rows[role]
              BY <2>4, <5>2, <6>2
            <7>2. QED BY <7>1 DEF Target
          <6>3. QED BY <6>1, <6>2
        <5> HIDE DEF new, role
        <5>5. QED BY <2>2, <5>1, <5>3, <5>4 DEF IInv, Vouched, Naming
      <4>3. QED BY <4>1, <4>2
    <3>5. QED BY <3>3, <3>4
  <2>7. QED BY <2>5, <2>6
<1>13. ASSUME NEW t \in Tabs, Audit(t) PROVE Goal
  <2> DEFINE q == [requests[t] EXCEPT !.at = "done"]
  <2>1. q \in Request
    BY <1>0 DEF Request
  <2>2. Vouched(q) /\ Naming(q)
    BY <1>0, <2>1 DEF IInv, Request, Vouched, Naming
  <2>3. QED BY <1>13, <2>1, <2>2, BecomeNames DEF Audit, history
<1>14. ASSUME UNCHANGED vars PROVE Goal
  BY <1>14 DEF vars, history, IInv, ConnectedWasTested, Vouched, Naming, Target
<1>15. Goal
  BY <1>1, <1>2, <1>4, <1>5, <1>6, <1>7, <1>8, <1>9, <1>10, <1>11, <1>12, <1>13, <1>14 DEF Next
<1>16. QED BY <1>0, <1>15 DEF IInv

\* A role says connected only of credentials that a test found good, or of those that
\* overtook the test: setStatus of routes/tenants.ts comes after an await of Entra.
THEOREM Connected == Spec => []ConnectedWasTested
<1>1. IInv => ConnectedWasTested
  BY DEF IInv
<1>2. QED BY <1>1, InitNames, NextNames, PTL DEF Spec

\* The audit record of a rotation, test or disconnection names the app of the row that was
\* changed, unless a connect came between the route's read and its write.
THEOREM Audited == Spec => []AuditNamesTheRow
<1>1. IInv => AuditNamesTheRow
  BY DEF IInv, Naming, AuditNamesTheRow
<1>2. QED BY <1>1, InitNames, NextNames, PTL DEF Spec

-------------------------------------------------------------------------------
(* Removal. *)

\* UPDATE and DELETE by id bring no row, and no id, that was not there.
LEMMA UpdatedKeepsId ==
  ASSUME TypeInv, NEW q \in Request, q.kind \in {"rotate", "test", "disconnect"}, Updated(q) # None
  PROVE  rows[q.role] # None /\ Updated(q).id = rows[q.role].id
<1>1. CASE Target(q) = None
  BY <1>1 DEF Updated
<1>2. CASE Target(q) # None
  <2>1. Target(q) = rows[q.role] /\ Target(q) \in Row
    BY <1>2, TargetTypes DEF TypeInv
  <2>2. QED BY <1>2, <2>1 DEF Updated, Rotated, Judged, Row
<1>3. QED BY <1>1, <1>2

\* A row that appears has an id that was never drawn: no statement about the old id brings
\* a removed tenant, and its secret, back.
THEOREM Removed == Spec => RemovedStaysRemoved
<1> DEFINE Stays == \A role \in Roles :
              rows'[role] # None /\ (rows[role] = None \/ rows[role].id # rows'[role].id)
                 => rows'[role].id \notin drawn
<1>1. TypeInv /\ [Next]_vars => [Stays]_vars
  <2> SUFFICES ASSUME TypeInv, [Next]_vars PROVE Stays
    OBVIOUS
  <2>1. ASSUME NEW t \in Tabs, NEW id \in Ids, Upsert(t, id) PROVE Stays
    <3>1. requests[t].role \in Roles
      BY DEF TypeInv, TypeOK, Request
    <3>2. rows'[requests[t].role].id = id
      BY <2>1, <3>1 DEF Upsert, TypeInv, TypeOK
    <3>3. \A role \in Roles : role # requests[t].role => rows'[role] = rows[role]
      BY <2>1, <3>1 DEF Upsert, TypeInv, TypeOK
    <3>4. rows[requests[t].role] = None => id \notin drawn
      BY <2>1 DEF Upsert
    <3>5. rows[requests[t].role] # None => id = rows[requests[t].role].id
      BY <2>1 DEF Upsert
    <3>6. QED BY <3>2, <3>3, <3>4, <3>5
  <2>2. ASSUME NEW t \in Tabs, Change(t) PROVE Stays
    <3>1. requests[t] \in Request /\ requests[t].role \in Roles
      BY DEF TypeInv, TypeOK, Request
    <3>2. rows'[requests[t].role] = Updated(requests[t])
      BY <2>2, <3>1 DEF Change, TypeInv, TypeOK
    <3>3. \A role \in Roles : role # requests[t].role => rows'[role] = rows[role]
      BY <2>2, <3>1 DEF Change, TypeInv, TypeOK
    <3>4. requests[t].kind \in {"rotate", "test", "disconnect"}
      BY <2>2 DEF Change
    <3>5. QED BY <3>1, <3>2, <3>3, <3>4, UpdatedKeepsId
  <2>3. CASE UNCHANGED rows
    BY <2>3
  <2>4. ASSUME NEW t \in Tabs, Load(t) \/ Answer(t) \/ Fail(t) \/ Read(t) \/ ReadMaterial(t)
                               \/ Probe(t) \/ Audit(t)
        PROVE  UNCHANGED rows
    BY <2>4 DEF Load, Answer, Fail, Read, ReadMaterial, Probe, Audit
  <2>5. ASSUME NEW t \in Tabs, NEW role \in Roles, Test(t, role) \/ Disconnect(t, role)
        PROVE  UNCHANGED rows
    BY <2>5 DEF Test, Disconnect, Submit
  <2>6. ASSUME NEW t \in Tabs, NEW role \in Roles, NEW secret \in Secrets,
               Rotate(t, role, secret) \/ \E app \in Apps : Connect(t, role, app, secret)
        PROVE  UNCHANGED rows
    BY <2>6 DEF Rotate, Connect, Submit
  <2>7. UNCHANGED vars => UNCHANGED rows
    BY DEF vars
  <2>8. QED BY <2>1, <2>2, <2>3, <2>4, <2>5, <2>6, <2>7 DEF Next
<1>2. QED BY <1>1, InitTypes, NextTypes, PTL DEF Spec, RemovedStaysRemoved
===============================================================================
