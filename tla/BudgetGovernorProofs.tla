-------------------------- MODULE BudgetGovernorProofs --------------------------
(***************************************************************************)
(* Theorems of BudgetGovernor for any counters, limits, fractions, numbers *)
(* of requests, tasks and days: type correctness; that the engine is told  *)
(* to go on only below the soft threshold; that refused writes stay        *)
(* refused; and what the degraded flag is worth.                           *)
(***************************************************************************)
EXTENDS BudgetGovernor, TLAPS

\* What the constants are.
LEMMA ConstantTypes ==
  /\ Limit \in [Counters -> Nat] /\ \A c \in Counters : Limit[c] > 0
  /\ PerRequest \in Usage /\ Writes \subseteq Usage
  /\ Fractions \subseteq Nat /\ \A f \in Fractions : f > 0
  /\ LastDay \in Nat /\ 1 \in Days /\ Days \subseteq Nat
  BY Assumptions DEF Usage, Days

\* Rows, requests and tasks start typed.
LEMMA EmptyTypes ==
  /\ NoUsage \in Usage /\ NoRow \in [used : Usage, degraded : BOOLEAN]
  /\ NoBody \in Body /\ Idle \in Request /\ NoTask \in Task
<1>1. NoUsage \in Usage
  BY DEF NoUsage, Usage
<1>2. NoRow \in [used : Usage, degraded : BOOLEAN] /\ NoBody \in Body
  BY <1>1 DEF NoRow, NoBody, Body
<1>3. Idle \in Request
  BY <1>1, <1>2, ConstantTypes DEF Idle, Request
<1>4. NoTask \in Task
  BY <1>1, <1>2 DEF NoTask, Task
<1>5. QED BY <1>1, <1>2, <1>3, <1>4

\* A PATCH goes from key to key and on to its bill.
LEMMA AfterTypes == \A key \in Keys : After[key] \in Keys \cup {"bill"}
  BY DEF After, Keys, FormKeys, Soft

\* In-bounds values are values.
LEMMA InBoundsTypes ==
  \A key \in Keys : InBounds(key) \subseteq Values /\ InBounds(Soft) = Fractions
  BY DEF InBounds, Values

\* Usage adds up.
LEMMA PlusTypes ==
  ASSUME NEW old \in Usage, NEW usage \in Usage
  PROVE  Plus(old, usage) \in Usage /\ \A c \in Counters : old[c] <= Plus(old, usage)[c]
  BY DEF Plus, Usage

\* An answer is a typed request.
LEMMA AnsweredTypes ==
  ASSUME NEW q \in Request,
         NEW verdict \in {"none", "paused", "run", "refused", "ok", "invalid", "error"}
  PROVE  Answered(q, verdict) \in Request
  BY EmptyTypes DEF Answered, Idle, Request

\* A request takes a new typed value.
LEMMA BecomeTypes ==
  ASSUME TypeOK, NEW r \in Requests, NEW q \in Request, Become(r, q)
  PROVE  requests' \in [Requests -> Request]
  BY DEF TypeOK, Become

\* A bill starts a typed task.
LEMMA BillTypes ==
  ASSUME TypeOK, NEW k \in Tasks, NEW usage \in Usage, Bill(k, usage)
  PROVE  tasks' \in [Tasks -> Task]
<1> DEFINE alone == \A i \in Tasks : tasks[i].at = "idle"
<1>1. ASSUME NEW j \in Tasks PROVE tasks'[j] \in Task
  <2>1. CASE j = k
    <3>1. tasks'[k] = [NoTask EXCEPT !.at = "increment", !.usage = usage, !.alone = alone]
      BY DEF Bill
    <3>2. alone \in BOOLEAN
      OBVIOUS
    <3> HIDE DEF alone
    <3>3. QED BY <2>1, <3>1, <3>2, EmptyTypes DEF NoTask, Task
  <2>2. CASE j # k
    BY <2>2 DEF Bill, TypeOK, Task
  <2>3. QED BY <2>1, <2>2
<1>2. QED BY <1>1 DEF Bill

\* The initial state is typed.
LEMMA InitTypes == Init => TypeOK
<1> SUFFICES ASSUME Init PROVE TypeOK
  OBVIOUS
<1>1. PICK fraction \in Fractions, v \in Tunables :
        config = [key \in Keys |-> IF key = Soft THEN fraction ELSE v]
  BY DEF Init
<1>2. config \in [Keys -> Values] /\ config[Soft] \in Fractions
  BY <1>1 DEF Keys, Values
<1>3. QED BY <1>2, EmptyTypes, ConstantTypes DEF Init, TypeOK

\* Every step keeps the types.
LEMMA NextTypes == TypeOK /\ [Next]_vars => TypeOK'
<1> SUFFICES ASSUME TypeOK, [Next]_vars PROVE TypeOK'
  OBVIOUS
<1>1. ASSUME NEW r \in Requests, NEW kind \in {"poll", "write", "patch", "save"},
             NEW body \in Body, Arrive(r, kind, body)
      PROVE  TypeOK'
  <2>1. [Idle EXCEPT !.kind = kind, !.at = "row", !.body = body] \in Request
    BY EmptyTypes DEF Idle, Request
  <2>2. QED BY <1>1, <2>1, BecomeTypes DEF Arrive, TypeOK, server, history
<1>2. ASSUME NEW r \in Requests, NEW form \in [FormKeys -> Tunables \cup {Bad}], Save(r, form)
      PROVE  TypeOK'
  <2>1. [key \in Keys |-> IF key \in FormKeys THEN form[key] ELSE Absent] \in Body
    BY DEF Body, Values
  <2>2. QED BY <1>1, <1>2, <2>1 DEF Save
<1>3. ASSUME NEW r \in Requests, NEW v \in Fractions \cup {Bad}, Patch(r, v) PROVE TypeOK'
  <2>1. [NoBody EXCEPT ![Soft] = v] \in Body
    BY EmptyTypes DEF Body, Values, NoBody
  <2>2. QED BY <1>1, <1>3, <2>1 DEF Patch
<1>4. ASSUME NEW r \in Requests, Poll(r) \/ Write(r) PROVE TypeOK'
  BY <1>1, <1>4, EmptyTypes DEF Poll, Write
<1>5. ASSUME NEW r \in Requests, ReadRow(r) PROVE TypeOK'
  <2> DEFINE q == requests[r]
             late == day \in refused
             over == Over(rows[day].used, config[Soft])
             seen == [q EXCEPT !.used = rows[day].used, !.day = day, !.late = late, !.over = over]
  <2>1. q \in Request /\ rows[day].used \in Usage /\ day \in Days
    BY DEF TypeOK
  <2>2. late \in BOOLEAN /\ over \in BOOLEAN
    BY DEF Over
  <2>3. seen \in Request /\ [seen EXCEPT !.at = "limits"] \in Request
    <3> HIDE DEF late, over
    <3>1. QED BY <2>1, <2>2 DEF Request
  <2>4. \/ Become(r, Answered(seen, "paused"))
        \/ Become(r, [seen EXCEPT !.at = "limits"])
    BY <1>5 DEF ReadRow
  <2>5. requests' \in [Requests -> Request]
    BY <2>3, <2>4, AnsweredTypes, BecomeTypes
  <2>6. QED BY <1>5, <2>5 DEF ReadRow, TypeOK, server, history
<1>6. ASSUME NEW r \in Requests, ReadThreshold(r) PROVE TypeOK'
  <2>1. requests[r] \in Request
    BY DEF TypeOK
  <2>2. Become(r, Answered(requests[r], "paused")) \/ Become(r, Answered(requests[r], "run"))
    BY <1>6 DEF ReadThreshold
  <2>3. requests' \in [Requests -> Request]
    BY <2>1, <2>2, AnsweredTypes, BecomeTypes
  <2>4. QED BY <1>6, <2>3 DEF ReadThreshold, TypeOK, server, history
<1>7. ASSUME NEW r \in Requests, Guard(r) PROVE TypeOK'
  <2> DEFINE q == requests[r]
             next == [q EXCEPT !.used = NoUsage,
                               !.at = IF q.kind = "write" THEN "handle"
                                      ELSE "perTenantConcurrency"]
  <2>1. q \in Request
    BY DEF TypeOK
  <2>2. next \in Request
    BY <2>1, EmptyTypes DEF Request, Keys, FormKeys
  <2>3. /\ Become(r, Answered(q, "refused")) \/ Become(r, next)
        /\ refused' \subseteq refused \cup {q.day}
    BY <1>7 DEF Guard
  <2>4. requests' \in [Requests -> Request]
    BY <2>1, <2>2, <2>3, AnsweredTypes, BecomeTypes
  <2>5. refused' \subseteq Days
    BY <2>1, <2>3 DEF TypeOK, Request
  <2>6. QED BY <1>7, <2>4, <2>5 DEF Guard, TypeOK, server
<1>8. ASSUME NEW r \in Requests, Fail(r) \/ RefuseKey(r) PROVE TypeOK'
  <2>1. requests[r] \in Request
    BY DEF TypeOK
  <2>2. requests' \in [Requests -> Request]
    BY <1>8, <2>1, AnsweredTypes, BecomeTypes DEF Fail, RefuseKey
  <2>3. QED BY <1>8, <2>2 DEF Fail, RefuseKey, TypeOK, server, history
<1>9. ASSUME NEW r \in Requests, SetKey(r) PROVE TypeOK'
  <2> DEFINE q == requests[r]
             key == q.at
             v == q.body[key]
             wrote == q.wrote \/ v # Absent
             next == [q EXCEPT !.at = After[key], !.wrote = wrote]
  <2>1. q \in Request /\ key \in Keys /\ v \in InBounds(key) \cup {Absent}
    BY <1>9 DEF SetKey, TypeOK
  <2>2. config' \in [Keys -> Values] /\ config'[Soft] \in Fractions
    <3>1. config' = IF v = Absent THEN config ELSE [config EXCEPT ![key] = v]
      BY <1>9 DEF SetKey
    <3>2. Soft \in Keys
      BY DEF Keys
    <3>3. QED BY <2>1, <3>1, <3>2, InBoundsTypes DEF TypeOK
  <2>3. next \in Request
    <3>1. After[key] \in Keys \cup {"bill"} /\ wrote \in BOOLEAN
      BY <2>1, AfterTypes DEF Request
    <3> HIDE DEF wrote, key
    <3>2. QED BY <2>1, <3>1 DEF Request
  <2>4. requests' \in [Requests -> Request] /\ tasks' \in [Tasks -> Task] /\ agreed' \in BOOLEAN
    <3> HIDE DEF next
    <3>1. CASE key = Soft /\ v # Absent
      <4>1. /\ requests' = [s \in Requests |->
                  [(IF s = r THEN next ELSE requests[s]) EXCEPT !.over = FALSE]]
            /\ tasks' = [k \in Tasks |-> [tasks[k] EXCEPT !.alone = FALSE]]
            /\ agreed' = FALSE
        BY <1>9, <3>1 DEF SetKey, next
      <4>2. ASSUME NEW s \in Requests PROVE requests'[s] \in Request
        <5> DEFINE old == IF s = r THEN next ELSE requests[s]
        <5>1. old \in Request
          BY <2>3 DEF TypeOK
        <5>2. requests'[s] = [old EXCEPT !.over = FALSE]
          BY <4>1
        <5> HIDE DEF old
        <5>3. QED BY <5>1, <5>2 DEF Request
      <4>3. QED BY <4>1, <4>2 DEF TypeOK, Task
    <3>2. CASE ~(key = Soft /\ v # Absent)
      <4>1. Become(r, next) /\ UNCHANGED <<tasks, agreed>>
        BY <1>9, <3>2 DEF SetKey, next
      <4>2. QED BY <2>3, <4>1, BecomeTypes DEF TypeOK
    <3>3. QED BY <3>1, <3>2
  <2>5. crossed' \subseteq Days
    BY <1>9 DEF SetKey, Observe, TypeOK
  <2>6. QED BY <1>9, <2>2, <2>4, <2>5 DEF SetKey, TypeOK
<1>10. ASSUME NEW r \in Requests, NEW k \in Tasks, NEW usage \in Writes,
              Handle(r, k, usage) \/ BillPatch(r, k, usage) \/ AuditPatch(r, k, usage)
       PROVE  TypeOK'
  <2>1. requests[r] \in Request /\ usage \in Usage
    BY ConstantTypes DEF TypeOK
  <2>2. [requests[r] EXCEPT !.at = "audit"] \in Request
    BY <2>1 DEF Request
  <2>3. requests' \in [Requests -> Request] /\ tasks' \in [Tasks -> Task]
    BY <1>10, <2>1, <2>2, AnsweredTypes, BecomeTypes, BillTypes DEF Handle, BillPatch, AuditPatch
  <2>4. QED BY <1>10, <2>3 DEF Handle, BillPatch, AuditPatch, TypeOK, server, history
<1>11. ASSUME NEW r \in Requests, NEW k \in Tasks, Answer(r, k) PROVE TypeOK'
  <2>1. requests' \in [Requests -> Request] /\ tasks' \in [Tasks -> Task]
    BY ConstantTypes, <1>11, EmptyTypes, BecomeTypes, BillTypes DEF Answer
  <2>2. QED BY <1>11, <2>1 DEF Answer, TypeOK, server, history
<1>12. ASSUME NEW k \in Tasks, Increment(k) PROVE TypeOK'
  <2> DEFINE plus == Plus(rows[day].used, tasks[k].usage)
             row == [rows[day] EXCEPT !.used = plus]
  <2>1. /\ tasks[k] \in Task /\ day \in Days
        /\ rows[day] \in [used : Usage, degraded : BOOLEAN]
    BY DEF TypeOK
  <2>2. row \in [used : Usage, degraded : BOOLEAN]
    <3>1. plus \in Usage
      BY <2>1, PlusTypes DEF Task
    <3> HIDE DEF plus
    <3>2. QED BY <2>1, <3>1
  <2>3. /\ rows' = [rows EXCEPT ![day] = row]
        /\ tasks' = [tasks EXCEPT ![k].at = "limits", ![k].row = row, ![k].usage = NoUsage]
    BY <1>12 DEF Increment
  <2> HIDE DEF row
  <2>4. rows' \in [Days -> [used : Usage, degraded : BOOLEAN]] /\ tasks' \in [Tasks -> Task]
    BY <2>1, <2>2, <2>3, EmptyTypes DEF TypeOK, Task
  <2>5. QED BY <1>12, <2>4 DEF Increment, Observe, TypeOK
<1>13. ASSUME NEW k \in Tasks, ReadLimits(k) PROVE TypeOK'
  <2> DEFINE now == Over(tasks[k].row.used, SoftFraction(config))
  <2>1. tasks[k] \in Task /\ now \in BOOLEAN
    BY DEF TypeOK, Over
  <2>2. /\ \/ tasks' = [tasks EXCEPT ![k].at = "flag", ![k].row.degraded = now]
           \/ tasks' = [tasks EXCEPT ![k] = NoTask]
        /\ agreed' \in {agreed, tasks[k].alone}
    BY <1>13 DEF ReadLimits
  <2> HIDE DEF now
  <2>3. tasks' \in [Tasks -> Task] /\ agreed' \in BOOLEAN
    BY <2>1, <2>2, EmptyTypes DEF TypeOK, Task
  <2>4. QED BY <1>13, <2>3 DEF ReadLimits, TypeOK, server
<1>14. ASSUME NEW k \in Tasks, SetDegraded(k) PROVE TypeOK'
  <2>1. /\ tasks[k] \in Task /\ day \in Days
        /\ rows[day] \in [used : Usage, degraded : BOOLEAN]
    BY DEF TypeOK
  <2>2. WithFlag(rows[day], tasks[k].row) \in [used : Usage, degraded : BOOLEAN]
    BY <2>1 DEF WithFlag, Task
  <2>3. rows' \in [Days -> [used : Usage, degraded : BOOLEAN]]
    BY <1>14, <2>2 DEF SetDegraded, TypeOK
  <2>4. tasks' \in [Tasks -> Task] /\ agreed' \in BOOLEAN
    BY <1>14, <2>1, EmptyTypes DEF SetDegraded, TypeOK, Task
  <2>5. QED BY <1>14, <2>3, <2>4 DEF SetDegraded, TypeOK
<1>15. ASSUME NEW k \in Tasks, Drop(k) PROVE TypeOK'
  BY <1>15, EmptyTypes DEF Drop, TypeOK, server, history
<1>16. ASSUME Midnight PROVE TypeOK'
  <2>1. day' \in Days
    BY <1>16, ConstantTypes DEF Midnight, TypeOK, Days
  <2>2. tasks' \in [Tasks -> Task]
    BY <1>16 DEF Midnight, TypeOK, Task
  <2>3. QED BY <1>16, <2>1, <2>2 DEF Midnight, TypeOK
<1>17. ASSUME UNCHANGED vars PROVE TypeOK'
  BY <1>17 DEF vars, server, history, TypeOK
<1>18. QED BY <1>2, <1>3, <1>4, <1>5, <1>6, <1>7, <1>8, <1>9, <1>10, <1>11, <1>12, <1>13,
             <1>14, <1>15, <1>16, <1>17 DEF Next

\* Type correctness: what PATCH lets into the config table is in bounds, whatever the
\* Settings form sends.
THEOREM TypeCorrect == Spec => []TypeOK
  BY InitTypes, NextTypes, PTL DEF Spec

-------------------------------------------------------------------------------
(* What a request knows of the row it read. *)

\* Used more, over still.
LEMMA OverGrows ==
  ASSUME NEW u \in Usage, NEW v \in Usage, \A c \in Counters : u[c] <= v[c],
         NEW f \in Nat
  PROVE  /\ Over(u, f) => Over(v, f)
         /\ Exhausted(u) => Exhausted(v)
<1>0. \A c \in Counters : u[c] \in Nat /\ v[c] \in Nat /\ Limit[c] \in Nat
  BY ConstantTypes DEF Usage
<1>1. \A c \in Counters : u[c] \in Nat /\ v[c] \in Nat /\ Limit[c] \in Nat /\ Limit[c] * f \in Nat
  <2>1. \A m, n \in Nat : m * n \in Nat
    OBVIOUS
  <2>2. QED BY <1>0, <2>1
<1>2. Exhausted(u) => Exhausted(v)
  BY <1>1 DEF Exhausted
<1>3. ASSUME NEW c \in Counters, u[c] * 100 >= Limit[c] * f PROVE v[c] * 100 >= Limit[c] * f
  <2> DEFINE cap == Limit[c] * f
  <2>1. cap \in Nat /\ u[c] \in Nat /\ v[c] \in Nat /\ u[c] <= v[c] /\ u[c] * 100 >= cap
    BY <1>1, <1>3
  <2> HIDE DEF cap
  <2>2. v[c] * 100 >= cap
    BY <2>1
  <2>3. QED BY <2>2 DEF cap
<1>4. QED BY <1>2, <1>3 DEF Over

\* A request that has read the row: what it remembers was so, and usage only grew.
Known(q) ==
    /\ q.at # "answer" => q.verdict = "none"
    /\ q.verdict = "run" => ~q.over
    /\ q.at = "limits" /\ q.over => Over(q.used, config[Soft])
    /\ q.at = "limits" => \A c \in Counters : q.used[c] <= rows[q.day].used[c]
    /\ q.late /\ q.kind # "poll" => q.at \in {"limits", "answer"}
    /\ q.late /\ q.at = "limits" => Exhausted(q.used)

\* Refusals and readings agree with the rows as they are by now.
RequestInv ==
    /\ TypeOK
    /\ \A d \in refused : Exhausted(rows[d].used)
    /\ \A r \in Requests : Known(requests[r])

\* Idle and answered requests know nothing that could be wrong.
LEMMA AnsweredKnown ==
  /\ Known(Idle)
  /\ \A q \in Request, verdict \in {"none", "paused", "run", "refused", "ok", "invalid", "error"} :
        verdict # "run" \/ ~q.over => Known(Answered(q, verdict))
  BY DEF Idle, Answered, Known, Request

\* What is known stays known while usage grows and the soft fraction stays.
LEMMA KnownStays ==
  ASSUME TypeOK, TypeOK', NEW q \in Request, Known(q),
         \A d \in Days, c \in Counters : rows[d].used[c] <= rows'[d].used[c],
         config'[Soft] = config[Soft] \/ ~q.over
  PROVE  Known(q)'
<1>1. q.day \in Days /\ q.used \in Usage /\ Known(q)' = Known(q)'
  BY DEF Request
<1>2. rows[q.day].used \in Usage /\ rows'[q.day].used \in Usage
  BY <1>1 DEF TypeOK
<1>3. q.at = "limits" => \A c \in Counters : q.used[c] <= rows'[q.day].used[c]
  <2> SUFFICES ASSUME q.at = "limits", NEW c \in Counters
               PROVE  q.used[c] <= rows'[q.day].used[c]
    OBVIOUS
  <2>1. /\ q.used[c] <= rows[q.day].used[c]
        /\ rows[q.day].used[c] <= rows'[q.day].used[c]
    BY <1>1 DEF Known
  <2>2. q.used[c] \in Nat /\ rows[q.day].used[c] \in Nat /\ rows'[q.day].used[c] \in Nat
    BY <1>1, <1>2 DEF Usage
  <2>3. QED BY <2>1, <2>2
<1>4. QED BY <1>3 DEF Known

\* A request moves on knowing what it should, and the server stays as it is.
LEMMA BecomeKnown ==
  ASSUME RequestInv, NEW r \in Requests, NEW q, Become(r, q), Known(q),
         UNCHANGED <<rows, config, refused>>
  PROVE  /\ \A d \in refused' : Exhausted(rows'[d].used)
         /\ \A s \in Requests : Known(requests[s])'
<1>1. ASSUME NEW s \in Requests PROVE Known(requests[s])'
  <2>1. requests'[s] = IF s = r THEN q ELSE requests[s]
    BY DEF RequestInv, TypeOK, Become
  <2>2. Known(q) /\ Known(requests[s])
    BY DEF RequestInv
  <2>3. CASE s = r
    <3>1. requests'[s] = q
      BY <2>1, <2>3
    <3>2. QED BY <2>2, <3>1 DEF Known
  <2>4. CASE s # r
    <3>1. requests'[s] = requests[s]
      BY <2>1, <2>4
    <3>2. QED BY <2>2, <3>1 DEF Known
  <2>5. QED BY <2>3, <2>4
<1>2. QED BY <1>1 DEF RequestInv

\* A step that leaves the requests, the fraction and the refusals, and lets usage grow.
LEMMA OthersKnown ==
  ASSUME RequestInv, TypeOK', UNCHANGED <<requests, config, refused>>,
         \A d \in Days, c \in Counters : rows[d].used[c] <= rows'[d].used[c]
  PROVE  /\ \A d \in refused' : Exhausted(rows'[d].used)
         /\ \A s \in Requests : Known(requests[s])'
<1>1. ASSUME NEW d \in refused' PROVE Exhausted(rows'[d].used)
  <2>1. d \in Days /\ Exhausted(rows[d].used)
    BY DEF RequestInv, TypeOK
  <2>2. rows[d].used \in Usage /\ rows'[d].used \in Usage
    BY <2>1 DEF RequestInv, TypeOK
  <2>3. 0 \in Nat
    OBVIOUS
  <2>4. QED BY <2>1, <2>2, <2>3, OverGrows
<1>2. ASSUME NEW s \in Requests PROVE Known(requests[s])'
  <2>1. requests[s] \in Request /\ Known(requests[s]) /\ requests'[s] = requests[s]
    BY DEF RequestInv, TypeOK
  <2>2. QED BY <2>1, KnownStays DEF RequestInv, Known
<1>3. QED BY <1>1, <1>2

\* Initially no request has read anything.
LEMMA InitKnown == Init => RequestInv
<1> SUFFICES ASSUME Init PROVE RequestInv
  OBVIOUS
<1>1. refused = {} /\ \A r \in Requests : requests[r] = Idle
  BY DEF Init
<1>2. QED BY <1>1, InitTypes, AnsweredKnown DEF RequestInv

\* Every step keeps what requests know.
LEMMA NextKnown == RequestInv /\ [Next]_vars => RequestInv'
<1> SUFFICES ASSUME RequestInv, [Next]_vars PROVE RequestInv'
  OBVIOUS
<1> DEFINE Goal == /\ \A d \in refused' : Exhausted(rows'[d].used)
                   /\ \A s \in Requests : Known(requests[s])'
<1>0. TypeOK /\ TypeOK' /\ \A r \in Requests : requests[r] \in Request /\ Known(requests[r])
  BY NextTypes DEF RequestInv, TypeOK
<1>1. ASSUME NEW r \in Requests, NEW kind \in {"poll", "write", "patch", "save"},
             NEW body \in Body, Arrive(r, kind, body)
      PROVE  Goal
  <2>1. Known([Idle EXCEPT !.kind = kind, !.at = "row", !.body = body])
    BY DEF Idle, Known
  <2>2. QED BY <1>1, <2>1, BecomeKnown DEF Arrive, server, history
<1>2. ASSUME NEW r \in Requests, NEW form \in [FormKeys -> Tunables \cup {Bad}], Save(r, form)
      PROVE  Goal
  <2>1. [key \in Keys |-> IF key \in FormKeys THEN form[key] ELSE Absent] \in Body
    BY DEF Body, Values
  <2>2. QED BY <1>1, <1>2, <2>1 DEF Save
<1>3. ASSUME NEW r \in Requests, NEW v \in Fractions \cup {Bad}, Patch(r, v) PROVE Goal
  <2>1. [NoBody EXCEPT ![Soft] = v] \in Body
    BY EmptyTypes DEF Body, Values, NoBody
  <2>2. QED BY <1>1, <1>3, <2>1 DEF Patch
<1>4. ASSUME NEW r \in Requests, Poll(r) \/ Write(r) PROVE Goal
  BY <1>1, <1>4, EmptyTypes DEF Poll, Write
<1>5. ASSUME NEW r \in Requests, ReadRow(r) PROVE Goal
  <2> DEFINE q == requests[r]
             used == rows[day].used
             late == day \in refused
             over == Over(used, config[Soft])
             seen == [q EXCEPT !.used = used, !.day = day, !.late = late, !.over = over]
             next == [seen EXCEPT !.at = "limits"]
  <2>1. q \in Request /\ Known(q) /\ q.at = "row" /\ used \in Usage /\ day \in Days
    BY <1>0, <1>5 DEF ReadRow, TypeOK
  <2>2. late \in BOOLEAN /\ over \in BOOLEAN
    BY DEF Over
  <2>3. late => Exhausted(used)
    BY <1>0 DEF RequestInv
  <2>4. over => Over(used, config[Soft])
    OBVIOUS
  <2>5. \A c \in Counters : used[c] <= used[c]
    BY <2>1 DEF Usage
  <2>6. \/ Become(r, Answered(seen, "paused"))
        \/ Become(r, next)
    BY <1>5 DEF ReadRow
  <2>7. seen \in Request
    <3> HIDE DEF late, over, used
    <3>1. QED BY <2>1, <2>2 DEF Request
  <2>8. Known(next)
    <3>1. /\ next.at = "limits" /\ next.verdict = "none" /\ next.used = used /\ next.day = day
          /\ next.late = late /\ next.over = over
      <4> HIDE DEF late, over, used
      <4>1. QED BY <2>1 DEF Known, Request
    <3> HIDE DEF next
    <3>2. QED BY <2>3, <2>4, <2>5, <3>1 DEF Known
  <2>9. Known(Answered(seen, "paused"))
    BY <2>7, AnsweredKnown
  <2>10. QED BY <1>5, <2>6, <2>8, <2>9, BecomeKnown DEF ReadRow, server, history
<1>6. ASSUME NEW r \in Requests, ReadThreshold(r) PROVE Goal
  <2> DEFINE q == requests[r]
  <2>1. q \in Request /\ Known(q) /\ q.at = "limits"
    BY <1>0, <1>6 DEF ReadThreshold
  <2>2. CASE Over(q.used, config[Soft])
    <3>1. Become(r, Answered(q, "paused"))
      BY <1>6, <2>2 DEF ReadThreshold, Paused, SoftFraction
    <3>2. Known(Answered(q, "paused"))
      BY <2>1, AnsweredKnown
    <3>3. QED BY <1>6, <3>1, <3>2, BecomeKnown DEF ReadThreshold, server, history
  <2>3. CASE ~Over(q.used, config[Soft])
    <3>1. Become(r, Answered(q, "run"))
      BY <1>6, <2>3 DEF ReadThreshold, Paused, SoftFraction
    <3>2. ~q.over
      BY <2>1, <2>3 DEF Known, Request
    <3>3. Known(Answered(q, "run"))
      BY <2>1, <3>2, AnsweredKnown
    <3>4. QED BY <1>6, <3>1, <3>3, BecomeKnown DEF ReadThreshold, server, history
  <2>4. QED BY <2>2, <2>3
<1>7. ASSUME NEW r \in Requests, Guard(r) PROVE Goal
  <2> DEFINE q == requests[r]
             next == [q EXCEPT !.used = NoUsage,
                               !.at = IF q.kind = "write" THEN "handle"
                                      ELSE "perTenantConcurrency"]
  <2>1. q \in Request /\ Known(q) /\ q.at = "limits" /\ q.kind # "poll"
    BY <1>0, <1>7 DEF Guard
  <2>2. rows' = rows /\ config' = config
    BY <1>7 DEF Guard, server
  <2>3. CASE Exhausted(q.used)
    <3>1. Become(r, Answered(q, "refused")) /\ refused' = refused \cup {q.day}
      BY <1>7, <2>3 DEF Guard
    <3>2. Exhausted(rows[q.day].used)
      <4>1. q.day \in Days /\ q.used \in Usage
        BY <2>1 DEF Request
      <4>2. rows[q.day].used \in Usage /\ \A c \in Counters : q.used[c] <= rows[q.day].used[c]
        BY <1>0, <2>1, <4>1 DEF TypeOK, Known
      <4>3. 0 \in Nat
        OBVIOUS
      <4>4. QED BY <2>3, <4>1, <4>2, <4>3, OverGrows
    <3>3. Known(Answered(q, "refused"))
      BY <2>1, AnsweredKnown
    <3>4. ASSUME NEW s \in Requests PROVE Known(requests[s])'
      <4>1. requests'[s] = IF s = r THEN Answered(q, "refused") ELSE requests[s]
        BY <1>0, <3>1 DEF Become, TypeOK
      <4>2. Known(requests'[s])
        BY <1>0, <3>3, <4>1
      <4>3. QED BY <2>2, <4>2 DEF Known
    <3>5. QED BY <2>2, <3>1, <3>2, <3>4 DEF RequestInv
  <2>4. CASE ~Exhausted(q.used)
    <3>1. Become(r, next) /\ refused' = refused
      BY <1>7, <2>1, <2>4 DEF Guard
    <3>2. ~q.late
      BY <2>1, <2>4 DEF Known
    <3>3. next.at \in {"handle", "perTenantConcurrency"} /\ ~next.late /\ next.verdict = "none"
      BY <2>1, <3>2 DEF Known, Request
    <3>4. Known(next)
      <4> HIDE DEF next
      <4>1. QED BY <3>3 DEF Known
    <3>5. QED BY <2>2, <3>1, <3>4, BecomeKnown
  <2>5. QED BY <2>3, <2>4
<1>8. ASSUME NEW r \in Requests, Fail(r) \/ RefuseKey(r) PROVE Goal
  <2>1. \A verdict \in {"error", "invalid"} : Known(Answered(requests[r], verdict))
    BY <1>0, AnsweredKnown
  <2>2. QED BY <1>8, <2>1, BecomeKnown DEF Fail, RefuseKey, server, history
<1>9. ASSUME NEW r \in Requests, SetKey(r) PROVE Goal
  <2> DEFINE q == requests[r]
             key == q.at
             v == q.body[key]
             wrote == q.wrote \/ v # Absent
             next == [q EXCEPT !.at = After[key], !.wrote = wrote]
  <2>1. q \in Request /\ Known(q) /\ key \in Keys
    BY <1>0, <1>9 DEF SetKey
  <2>2. /\ key \notin {"answer", "limits"} /\ After[key] \in Keys \cup {"bill"}
        /\ Keys \cap {"answer", "limits"} = {}
    BY <2>1, AfterTypes DEF Keys, FormKeys, Soft
  <2>3. next \in Request /\ next.at = After[key] /\ next.verdict = "none" /\ next.late = q.late
        /\ next.kind = q.kind /\ next.over = q.over
    <3>1. wrote \in BOOLEAN
      BY <2>1 DEF Request
    <3> HIDE DEF wrote, key
    <3>2. QED BY <2>1, <2>2, <3>1 DEF Request, Known, key
  <2>4. Known(next)
    <3>1. q.kind = "poll" \/ ~q.late
      BY <2>1, <2>2 DEF Known, Request
    <3> HIDE DEF next, key
    <3>2. next.at \notin {"answer", "limits"} /\ next.verdict = "none"
      BY <2>2, <2>3
    <3>3. next.late /\ next.kind # "poll" => FALSE
      BY <2>1, <2>3, <3>1 DEF Request
    <3>4. QED BY <3>2, <3>3 DEF Known
  <2>5. rows' = rows /\ refused' = refused
    BY <1>9 DEF SetKey
  <2>6. config' = IF v = Absent THEN config ELSE [config EXCEPT ![key] = v]
    BY <1>9 DEF SetKey
  <2>7. CASE key = Soft /\ v # Absent
    <3>1. requests' = [s \in Requests |->
                [(IF s = r THEN next ELSE requests[s]) EXCEPT !.over = FALSE]]
      BY <1>9, <2>7 DEF SetKey
    <3> HIDE DEF next, key
    <3>2. ASSUME NEW s \in Requests PROVE Known(requests[s])'
      <4> DEFINE old == IF s = r THEN next ELSE requests[s]
                 new == [old EXCEPT !.over = FALSE]
      <4>1. old \in Request /\ Known(old)
        BY <1>0, <2>3, <2>4
      <4>2. requests'[s] = new
        BY <3>1
      <4> HIDE DEF old
      <4>3. /\ new.over = FALSE /\ new.at = old.at /\ new.verdict = old.verdict
            /\ new.used = old.used /\ new.day = old.day /\ new.late = old.late
            /\ new.kind = old.kind
        BY <4>1 DEF Request
      <4> HIDE DEF new
      <4>4. QED BY <2>5, <4>1, <4>2, <4>3 DEF Known
    <3>3. QED BY <2>5, <3>2 DEF RequestInv
  <2>8. CASE ~(key = Soft /\ v # Absent)
    <3>1. Become(r, next)
      BY <1>9, <2>8 DEF SetKey
    <3>2. config'[Soft] = config[Soft]
      BY <1>0, <2>6, <2>8 DEF TypeOK
    <3> HIDE DEF next, key
    <3>3. ASSUME NEW s \in Requests PROVE Known(requests[s])'
      <4>1. requests'[s] = IF s = r THEN next ELSE requests[s]
        BY <1>0, <3>1 DEF Become, TypeOK
      <4>2. Known(requests'[s])
        BY <1>0, <2>4, <4>1
      <4>3. QED BY <2>5, <3>2, <4>2 DEF Known
    <3>4. QED BY <2>5, <3>3 DEF RequestInv
  <2>9. QED BY <2>7, <2>8
<1>10. ASSUME NEW r \in Requests, NEW k \in Tasks, NEW usage \in Writes,
              Handle(r, k, usage) \/ BillPatch(r, k, usage) \/ AuditPatch(r, k, usage)
       PROVE  Goal
  <2>1. Known(Answered(requests[r], "ok"))
    BY <1>0, AnsweredKnown
  <2>2. requests[r].at = "bill" => Known([requests[r] EXCEPT !.at = "audit"])
    BY <1>0 DEF Known, Request
  <2>3. QED BY <1>10, <2>1, <2>2, BecomeKnown DEF Handle, BillPatch, AuditPatch, server, history
<1>11. ASSUME NEW r \in Requests, NEW k \in Tasks, Answer(r, k) PROVE Goal
  BY <1>11, AnsweredKnown, BecomeKnown DEF Answer, server, history
<1>12. ASSUME NEW k \in Tasks, Increment(k) PROVE Goal
  <2> DEFINE plus == Plus(rows[day].used, tasks[k].usage)
  <2>1. rows[day].used \in Usage /\ tasks[k].usage \in Usage /\ day \in Days
    BY <1>0 DEF TypeOK, Task
  <2>2. rows' = [rows EXCEPT ![day] = [rows[day] EXCEPT !.used = plus]]
    BY <1>12 DEF Increment
  <2>3. \A c \in Counters : rows[day].used[c] <= plus[c]
    BY <2>1, PlusTypes
  <2> HIDE DEF plus
  <2>4. ASSUME NEW d \in Days, NEW c \in Counters PROVE rows[d].used[c] <= rows'[d].used[c]
    <3>1. CASE d = day
      <4>1. rows'[d].used = plus
        BY <1>0, <2>1, <2>2, <3>1 DEF TypeOK
      <4>2. QED BY <2>3, <3>1, <4>1
    <3>2. CASE d # day
      <4>1. rows'[d] = rows[d] /\ rows[d].used[c] \in Nat
        BY <1>0, <2>2, <3>2 DEF TypeOK, Usage
      <4>2. QED BY <4>1
    <3>3. QED BY <3>1, <3>2
  <2>5. QED BY <1>0, <1>12, <2>4, OthersKnown DEF Increment
<1>13. ASSUME UNCHANGED <<requests, config, refused>>,
              \A d \in Days : rows'[d].used = rows[d].used
       PROVE  Goal
  <2>1. \A d \in Days, c \in Counters : rows[d].used[c] <= rows'[d].used[c]
    BY <1>0, <1>13 DEF TypeOK, Usage
  <2>2. QED BY <1>0, <1>13, <2>1, OthersKnown
<1>14. ASSUME NEW k \in Tasks, SetDegraded(k) PROVE Goal
  <2>1. \A d \in Days : rows'[d].used = rows[d].used
    BY <1>0, <1>14 DEF SetDegraded, WithFlag, TypeOK
  <2>2. QED BY <1>13, <1>14, <2>1 DEF SetDegraded
<1>15. ASSUME NEW k \in Tasks, ReadLimits(k) \/ Drop(k) PROVE Goal
  BY <1>13, <1>15 DEF ReadLimits, Drop, server, history
<1>16. ASSUME Midnight PROVE Goal
  BY <1>13, <1>16 DEF Midnight
<1>17. ASSUME UNCHANGED vars PROVE Goal
  BY <1>13, <1>17 DEF vars, server, history
<1>18. Goal
  BY <1>2, <1>3, <1>4, <1>5, <1>6, <1>7, <1>8, <1>9, <1>10, <1>11, <1>12, <1>14, <1>15, <1>16,
     <1>17 DEF Next
<1>19. QED BY <1>0, <1>18 DEF RequestInv

\* isPaused tells the engine to go on only when usage was below the soft threshold as its
\* request read the row, unless the fraction was changed meanwhile.
THEOREM RunsBelowSoft == Spec => []RunsOnlyBelowSoft
<1>1. RequestInv => RunsOnlyBelowSoft
  BY DEF RequestInv, Known, RunsOnlyBelowSoft
<1>2. QED BY <1>1, InitKnown, NextKnown, PTL DEF Spec

\* budgetGuard refuses every write that comes after one it refused that day.
THEOREM StaysRefused == Spec => []RefusedStaysRefused
<1>1. RequestInv => RefusedStaysRefused
  BY DEF RequestInv, Known, RefusedStaysRefused
<1>2. QED BY <1>1, InitKnown, NextKnown, PTL DEF Spec

-------------------------------------------------------------------------------
(* What a recorder carries, and what the flag is worth. *)

\* A recorder's reading is of some day up to now, whose usage has only grown since; a flag
\* it is about to set has a cause.
Caused(t) ==
    /\ t.at = "limits" => \E e \in Days : e <= day /\ \A c \in Counters : t.row.used[c] <= rows[e].used[c]
    /\ t.at = "flag" /\ t.row.degraded => \E e \in crossed : e <= day

\* A recorder that runs alone carries what the row holds, then what the flag should be.
Alone(t) ==
    /\ t.alone /\ t.at = "limits" => t.row = rows[day]
    /\ t.alone /\ t.at = "flag" => (t.row.degraded <=> Over(rows[day].used, config[Soft]))

\* The inductive invariant of the flag.
FlagInv ==
    /\ TypeOK
    /\ \A d \in Days : Over(rows[d].used, config[Soft]) => d \in crossed
    /\ DegradedHasCause
    /\ FlagAgreesAfterOne
    /\ \A k \in Tasks : Caused(tasks[k]) /\ Alone(tasks[k])
    /\ \A k \in Tasks : tasks[k].alone => \A j \in Tasks \ {k} : tasks[j].at = "idle"

\* No usage is below every threshold.
LEMMA NothingIsOver == ASSUME NEW f \in Fractions PROVE ~Over(NoUsage, f)
<1>1. ASSUME NEW c \in Counters PROVE ~(NoUsage[c] * 100 >= Limit[c] * f)
  <2>1. \A m, n \in Nat : m > 0 /\ n > 0 => m * n > 0
    OBVIOUS
  <2>2. Limit[c] \in Nat /\ Limit[c] > 0 /\ f \in Nat /\ f > 0
    BY ConstantTypes
  <2>3. Limit[c] * f > 0
    BY <2>1, <2>2
  <2>4. NoUsage[c] * 100 = 0
    BY DEF NoUsage
  <2> DEFINE cap == Limit[c] * f
  <2>5. cap \in Nat /\ cap > 0
    <3>1. \A m, n \in Nat : m * n \in Nat
      OBVIOUS
    <3>2. QED BY <2>2, <2>3, <3>1
  <2> HIDE DEF cap
  <2>6. ~(NoUsage[c] * 100 >= cap)
    BY <2>4, <2>5
  <2>7. QED BY <2>6 DEF cap
<1>2. QED BY <1>1 DEF Over

\* Initially nothing is over, flagged or recorded.
LEMMA InitFlag == Init => FlagInv
<1> SUFFICES ASSUME Init PROVE FlagInv
  OBVIOUS
<1>1. TypeOK
  BY InitTypes
<1>2. \A d \in Days : rows[d] = NoRow
  BY DEF Init
<1>3. \A d \in Days : ~Over(rows[d].used, config[Soft])
  BY <1>1, <1>2, NothingIsOver DEF NoRow, TypeOK
<1>4. DegradedHasCause
  BY <1>2 DEF NoRow, DegradedHasCause
<1>5. ~agreed /\ \A k \in Tasks : tasks[k] = NoTask
  BY DEF Init
<1>6. \A k \in Tasks : tasks[k].at = "idle" /\ ~tasks[k].alone
  BY <1>5 DEF NoTask
<1>7. QED BY <1>1, <1>3, <1>4, <1>5, <1>6 DEF FlagInv, FlagAgreesAfterOne, Caused, Alone

\* An idle recorder carries nothing.
LEMMA IdleCarries == \A t : t.at \in {"idle", "increment"} => Caused(t) /\ Alone(t)
  BY DEF Caused, Alone

\* What a recorder carries has its cause still when usage, causes and days have grown.
LEMMA CausedStays ==
  ASSUME TypeOK, TypeOK', NEW t \in Task, Caused(t), crossed \subseteq crossed', day <= day',
         \A d \in Days, c \in Counters : rows[d].used[c] <= rows'[d].used[c]
  PROVE  Caused(t)'
<1>1. day \in Nat /\ day' \in Nat /\ crossed \subseteq Days /\ Days \subseteq Nat
  BY ConstantTypes DEF TypeOK
<1>2. ASSUME t.at = "limits"
      PROVE  \E e \in Days : e <= day' /\ \A c \in Counters : t.row.used[c] <= rows'[e].used[c]
  <2>1. PICK e \in Days : e <= day /\ \A c \in Counters : t.row.used[c] <= rows[e].used[c]
    BY <1>2 DEF Caused
  <2>2. e <= day'
    BY <1>1, <2>1
  <2>3. t.row.used \in Usage /\ rows[e].used \in Usage /\ rows'[e].used \in Usage
    BY DEF TypeOK, Task
  <2>4. \A c \in Counters : t.row.used[c] <= rows'[e].used[c]
    BY <2>1, <2>3 DEF Usage
  <2>5. QED BY <2>2, <2>4
<1>3. ASSUME t.at = "flag", t.row.degraded PROVE \E e \in crossed' : e <= day'
  BY <1>1, <1>3 DEF Caused
<1>4. QED BY <1>2, <1>3 DEF Caused

\* A day's cause stays when causes grow.
LEMMA CauseStays ==
  ASSUME DegradedHasCause, crossed \subseteq crossed',
         \A d \in Days : rows'[d].degraded => rows[d].degraded
  PROVE  DegradedHasCause'
  BY DEF DegradedHasCause

\* Steps that leave the rows, the thresholds and the recorders.
LEMMA FlagRests ==
  ASSUME FlagInv, TypeOK', UNCHANGED <<day, rows, config, tasks, crossed, agreed>>
  PROVE  FlagInv'
<1>1. \A k \in Tasks : (Caused(tasks[k]) /\ Alone(tasks[k]))'
  BY DEF FlagInv, Caused, Alone
<1>2. DegradedHasCause' /\ FlagAgreesAfterOne'
  BY DEF FlagInv, DegradedHasCause, FlagAgreesAfterOne
<1>3. QED BY <1>1, <1>2 DEF FlagInv

\* A bill starts a recorder; those in progress are not alone any more.
LEMMA BillKeeps ==
  ASSUME FlagInv, TypeOK', NEW k \in Tasks, NEW usage \in Usage, Bill(k, usage),
         UNCHANGED <<server, history>>
  PROVE  FlagInv'
<1>0. UNCHANGED <<day, rows, config, crossed, agreed>> /\ TypeOK
  BY DEF server, history, FlagInv
<1> DEFINE alone == \A i \in Tasks : tasks[i].at = "idle"
<1>1. tasks'[k].at = "increment" /\ tasks'[k].alone = alone
  <2>1. tasks'[k] = [NoTask EXCEPT !.at = "increment", !.usage = usage, !.alone = alone]
    BY DEF Bill
  <2> HIDE DEF alone
  <2>2. QED BY <2>1 DEF NoTask
<1>2. ASSUME NEW j \in Tasks, j # k
      PROVE  /\ tasks'[j].at = tasks[j].at /\ ~tasks'[j].alone
             /\ tasks'[j].row = tasks[j].row
  <2>1. tasks[j] \in Task
    BY <1>0 DEF TypeOK
  <2>2. tasks'[j] = [tasks[j] EXCEPT !.alone = FALSE]
    BY <1>2 DEF Bill
  <2>3. QED BY <2>1, <2>2 DEF Task
<1>3. ASSUME NEW j \in Tasks PROVE (Caused(tasks[j]) /\ Alone(tasks[j]))'
  <2>1. CASE j = k
    BY <1>1, <2>1 DEF Caused, Alone
  <2>2. CASE j # k
    <3>1. Caused(tasks[j])
      BY DEF FlagInv
    <3>2. QED BY <1>0, <1>2, <2>2, <3>1 DEF Caused, Alone
  <2>3. QED BY <2>1, <2>2
<1>4. ASSUME NEW i \in Tasks, tasks'[i].alone, NEW j \in Tasks \ {i} PROVE tasks'[j].at = "idle"
  <2>1. i = k /\ alone
    BY <1>1, <1>2, <1>4
  <2>2. QED BY <1>2, <2>1
<1>5. DegradedHasCause' /\ FlagAgreesAfterOne'
  BY <1>0 DEF FlagInv, DegradedHasCause, FlagAgreesAfterOne
<1>6. QED BY <1>0, <1>3, <1>4, <1>5 DEF FlagInv

\* A recorder that ends or fails leaves the others as alone as they were.
LEMMA EndKeeps ==
  ASSUME FlagInv, TypeOK', NEW k \in Tasks, tasks' = [tasks EXCEPT ![k] = NoTask],
         UNCHANGED <<day, rows, config, crossed>>
  PROVE  /\ \A j \in Tasks : (Caused(tasks[j]) /\ Alone(tasks[j]))'
         /\ \A i \in Tasks : tasks'[i].alone => \A j \in Tasks \ {i} : tasks'[j].at = "idle"
<1>1. tasks'[k].at = "idle" /\ ~tasks'[k].alone
  BY DEF FlagInv, TypeOK, NoTask
<1>2. \A j \in Tasks : j # k => tasks'[j] = tasks[j]
  BY DEF FlagInv, TypeOK
<1>3. ASSUME NEW j \in Tasks PROVE (Caused(tasks[j]) /\ Alone(tasks[j]))'
  <2>1. CASE j = k
    BY <1>1, <2>1 DEF Caused, Alone
  <2>2. CASE j # k
    BY <1>2, <2>2 DEF FlagInv, Caused, Alone
  <2>3. QED BY <2>1, <2>2
<1>4. ASSUME NEW i \in Tasks, tasks'[i].alone, NEW j \in Tasks \ {i} PROVE tasks'[j].at = "idle"
  BY <1>1, <1>2, <1>4 DEF FlagInv
<1>5. QED BY <1>3, <1>4

\* Every step keeps the inductive invariant of the flag.
LEMMA NextFlag == FlagInv /\ [Next]_vars => FlagInv'
<1> SUFFICES ASSUME FlagInv, [Next]_vars PROVE FlagInv'
  OBVIOUS
<1>0. /\ TypeOK /\ TypeOK' /\ \A k \in Tasks : tasks[k] \in Task
      /\ \A d \in Days : rows[d].used \in Usage /\ rows[d] \in [used : Usage, degraded : BOOLEAN]
  BY NextTypes DEF FlagInv, TypeOK
<1>1. ASSUME NEW r \in Requests,
             \/ \E kind \in {"poll", "write", "patch", "save"}, body \in Body : Arrive(r, kind, body)
             \/ ReadRow(r) \/ ReadThreshold(r) \/ Guard(r) \/ Fail(r) \/ RefuseKey(r)
      PROVE  FlagInv'
  <2>1. UNCHANGED <<day, rows, config, tasks, crossed, agreed>>
    BY <1>1 DEF Arrive, ReadRow, ReadThreshold, Guard, Fail, RefuseKey, server, history
  <2>2. QED BY <1>0, <2>1, FlagRests
<1>2. ASSUME NEW r \in Requests,
             \/ Poll(r) \/ Write(r) \/ \E v \in Fractions \cup {Bad} : Patch(r, v)
             \/ \E form \in [FormKeys -> Tunables \cup {Bad}] : Save(r, form)
      PROVE  FlagInv'
  <2>1. UNCHANGED <<day, rows, config, tasks, crossed, agreed>>
    BY <1>2 DEF Poll, Write, Patch, Save, Arrive, server, history
  <2>2. QED BY <1>0, <2>1, FlagRests
<1>3. ASSUME NEW r \in Requests, NEW k \in Tasks, NEW usage \in Writes,
             Handle(r, k, usage) \/ BillPatch(r, k, usage) \/ AuditPatch(r, k, usage) \/ Answer(r, k)
      PROVE  FlagInv'
  <2>1. usage \in Usage /\ PerRequest \in Usage
    BY ConstantTypes
  <2>2. QED BY <1>0, <1>3, <2>1, BillKeeps DEF Handle, BillPatch, AuditPatch, Answer
<1>4. ASSUME NEW r \in Requests, NEW k \in Tasks, Answer(r, k) PROVE FlagInv'
  BY <1>0, <1>4, ConstantTypes, BillKeeps DEF Answer
<1>5. ASSUME NEW r \in Requests, SetKey(r) PROVE FlagInv'
  <2> DEFINE q == requests[r]
             key == q.at
             v == q.body[key]
  <2>1. /\ rows' = rows /\ day' = day /\ key \in Keys
        /\ crossed' = crossed \cup {d \in Days : Over(rows'[d].used, config'[Soft])}
        /\ config' = IF v = Absent THEN config ELSE [config EXCEPT ![key] = v]
    BY <1>5 DEF SetKey, Observe
  <2>2. \A d \in Days : Over(rows'[d].used, config'[Soft]) => d \in crossed'
    BY <2>1
  <2>3. DegradedHasCause'
    BY <2>1, CauseStays DEF FlagInv
  <2>4. \A d \in Days, c \in Counters : rows[d].used[c] <= rows'[d].used[c]
    BY <1>0, <2>1 DEF Usage
  <2>5. day <= day' /\ crossed \subseteq crossed'
    BY <1>0, <2>1, ConstantTypes DEF TypeOK
  <2>6. CASE key = Soft /\ v # Absent
    <3>1. tasks' = [k \in Tasks |-> [tasks[k] EXCEPT !.alone = FALSE]] /\ ~agreed'
      BY <1>5, <2>6 DEF SetKey
    <3>2. ASSUME NEW k \in Tasks PROVE (Caused(tasks[k]) /\ Alone(tasks[k]))' /\ ~tasks'[k].alone
      <4>1. /\ tasks'[k].at = tasks[k].at /\ tasks'[k].row = tasks[k].row
            /\ ~tasks'[k].alone
        BY <1>0, <3>1 DEF Task
      <4>2. Caused(tasks[k])
        BY DEF FlagInv
      <4>3. QED BY <2>1, <4>1, <4>2 DEF Caused, Alone
    <3>3. FlagAgreesAfterOne'
      BY <3>1 DEF FlagAgreesAfterOne
    <3>4. QED BY <1>0, <2>2, <2>3, <3>2, <3>3 DEF FlagInv
  <2>7. CASE ~(key = Soft /\ v # Absent)
    <3>1. tasks' = tasks /\ agreed' = agreed
      BY <1>5, <2>7 DEF SetKey
    <3>2. config'[Soft] = config[Soft]
      BY <1>0, <2>1, <2>7 DEF TypeOK
    <3>3. ASSUME NEW k \in Tasks PROVE (Caused(tasks[k]) /\ Alone(tasks[k]))'
      BY <2>1, <3>1, <3>2 DEF FlagInv, Caused, Alone
    <3>4. FlagAgreesAfterOne'
      BY <2>1, <3>1, <3>2 DEF FlagInv, FlagAgreesAfterOne
    <3>5. QED BY <1>0, <2>2, <2>3, <3>1, <3>3, <3>4 DEF FlagInv
  <2>8. QED BY <2>6, <2>7
<1>6. ASSUME NEW k \in Tasks, Increment(k) PROVE FlagInv'
  <2> DEFINE plus == Plus(rows[day].used, tasks[k].usage)
             row == [rows[day] EXCEPT !.used = plus]
  <2>1. rows[day].used \in Usage /\ tasks[k].usage \in Usage /\ day \in Days
    BY <1>0 DEF TypeOK, Task
  <2>2. /\ rows' = [rows EXCEPT ![day] = row] /\ day' = day /\ config' = config /\ ~agreed'
        /\ crossed' = crossed \cup {d \in Days : Over(rows'[d].used, config'[Soft])}
        /\ tasks' = [tasks EXCEPT ![k].at = "limits", ![k].row = row, ![k].usage = NoUsage]
        /\ tasks[k].at = "increment"
    BY <1>6 DEF Increment, Observe
  <2>3. \A c \in Counters : rows[day].used[c] <= plus[c] /\ plus[c] \in Nat
    BY <2>1, PlusTypes DEF Usage
  <2>4. row.used = plus /\ row.degraded = rows[day].degraded
    <3>1. rows[day] \in [used : Usage, degraded : BOOLEAN]
      BY <1>0, <2>1
    <3> HIDE DEF plus
    <3>2. QED BY <3>1
  <2> HIDE DEF plus, row
  <2>5. rows'[day] = row /\ \A d \in Days : d # day => rows'[d] = rows[d]
    BY <1>0, <2>1, <2>2 DEF TypeOK
  <2>6. ASSUME NEW d \in Days, NEW c \in Counters PROVE rows[d].used[c] <= rows'[d].used[c]
    <3>1. CASE d = day
      BY <2>3, <2>4, <2>5, <3>1
    <3>2. CASE d # day
      <4>1. rows[d].used[c] \in Nat
        BY <1>0 DEF Usage
      <4>2. QED BY <2>5, <3>2, <4>1
    <3>3. QED BY <3>1, <3>2
  <2>7. day <= day' /\ crossed \subseteq crossed'
    BY <1>0, <2>2, ConstantTypes DEF TypeOK
  <2>8. DegradedHasCause'
    <3>1. \A d \in Days : rows'[d].degraded => rows[d].degraded
      BY <2>4, <2>5
    <3>2. QED BY <2>7, <3>1, CauseStays DEF FlagInv
  <2>9. /\ tasks'[k].at = "limits" /\ tasks'[k].row = row /\ tasks'[k].alone = tasks[k].alone
        /\ \A j \in Tasks : j # k => tasks'[j] = tasks[j]
    BY <1>0, <2>2 DEF TypeOK, Task
  <2>10. ASSUME NEW j \in Tasks PROVE (Caused(tasks[j]) /\ Alone(tasks[j]))'
    <3>1. CASE j = k
      <4>1. \A c \in Counters : row.used[c] <= rows'[day].used[c]
        BY <2>3, <2>4, <2>5
      <4>2. day <= day /\ rows'[day'] = row
        BY <2>1, <2>2, <2>5, ConstantTypes
      <4>3. QED BY <2>1, <2>2, <2>9, <3>1, <4>1, <4>2 DEF Caused, Alone
    <3>2. CASE j # k
      <4>1. tasks'[j] = tasks[j] /\ Caused(tasks[j]) /\ tasks[j] \in Task
        BY <1>0, <2>9, <3>2 DEF FlagInv
      <4>2. Caused(tasks[j])'
        BY <1>0, <2>6, <2>7, <4>1, CausedStays DEF Caused
      <4>3. ~tasks'[j].alone
        BY <2>2, <3>2, <4>1 DEF FlagInv
      <4>4. QED BY <4>2, <4>3 DEF Alone
    <3>3. QED BY <3>1, <3>2
  <2>11. ASSUME NEW i \in Tasks, tasks'[i].alone, NEW j \in Tasks \ {i} PROVE tasks'[j].at = "idle"
    <3>1. tasks[i].alone
      BY <2>9, <2>11
    <3>2. tasks[j].at = "idle"
      BY <3>1 DEF FlagInv
    <3>3. j # k
      BY <2>2, <3>2
    <3>4. QED BY <2>9, <3>2, <3>3
  <2>12. FlagAgreesAfterOne'
    BY <2>2 DEF FlagAgreesAfterOne
  <2>13. QED BY <1>0, <2>2, <2>8, <2>10, <2>11, <2>12 DEF FlagInv
<1>7. ASSUME NEW k \in Tasks, ReadLimits(k) PROVE FlagInv'
  <2> DEFINE now == Over(tasks[k].row.used, SoftFraction(config))
  <2>1. UNCHANGED <<day, rows, config, crossed>> /\ tasks[k].at = "limits"
    BY <1>7 DEF ReadLimits, server
  <2>2. now => \E e \in crossed : e <= day
    <3> SUFFICES ASSUME now PROVE \E e \in crossed : e <= day
      OBVIOUS
    <3>1. PICK e \in Days : e <= day /\ \A c \in Counters : tasks[k].row.used[c] <= rows[e].used[c]
      BY <2>1 DEF FlagInv, Caused
    <3>2. /\ tasks[k].row.used \in Usage /\ rows[e].used \in Usage
          /\ config[Soft] \in Nat
      BY <1>0, ConstantTypes DEF Task, TypeOK
    <3>3. Over(rows[e].used, config[Soft])
      BY <3>1, <3>2, OverGrows DEF SoftFraction
    <3>4. QED BY <3>1, <3>3 DEF FlagInv
  <2>3. tasks[k].alone => tasks[k].row = rows[day]
    BY <2>1 DEF FlagInv, Alone
  <2>4. now \in BOOLEAN /\ tasks[k].row.degraded \in BOOLEAN
    BY <1>0 DEF Over, Task
  <2>5. CASE now # tasks[k].row.degraded
    <3>1. tasks' = [tasks EXCEPT ![k].at = "flag", ![k].row.degraded = now] /\ agreed' = agreed
      BY <1>7, <2>5 DEF ReadLimits, FlagDiffers
    <3>2. tasks[k].alone => (now <=> Over(rows[day].used, config[Soft]))
      BY <2>3 DEF SoftFraction
    <3> HIDE DEF now
    <3>3. /\ tasks'[k].at = "flag" /\ tasks'[k].alone = tasks[k].alone
          /\ tasks'[k].row.degraded = now
          /\ \A j \in Tasks : j # k => tasks'[j] = tasks[j]
      BY <1>0, <3>1 DEF TypeOK, Task
    <3>4. ASSUME NEW j \in Tasks PROVE (Caused(tasks[j]) /\ Alone(tasks[j]))'
      <4>1. CASE j = k
        BY <2>1, <2>2, <3>2, <3>3, <4>1 DEF Caused, Alone
      <4>2. CASE j # k
        BY <2>1, <3>3, <4>2 DEF FlagInv, Caused, Alone
      <4>3. QED BY <4>1, <4>2
    <3>5. ASSUME NEW i \in Tasks, tasks'[i].alone, NEW j \in Tasks \ {i} PROVE tasks'[j].at = "idle"
      <4>1. tasks[i].alone
        BY <3>3, <3>5
      <4>2. tasks[j].at = "idle"
        BY <4>1 DEF FlagInv
      <4>3. QED BY <2>1, <3>3, <4>2
    <3>6. DegradedHasCause' /\ FlagAgreesAfterOne'
      BY <2>1, <3>1 DEF FlagInv, DegradedHasCause, FlagAgreesAfterOne
    <3>7. QED BY <1>0, <2>1, <3>4, <3>5, <3>6 DEF FlagInv
  <2>6. CASE now = tasks[k].row.degraded
    <3>1. tasks' = [tasks EXCEPT ![k] = NoTask] /\ agreed' = tasks[k].alone
      BY <1>7, <2>6 DEF ReadLimits, FlagDiffers
    <3>2. FlagAgreesAfterOne'
      <4>1. tasks[k].alone => (rows[day].degraded <=> Over(rows[day].used, config[Soft]))
        BY <2>3, <2>6 DEF SoftFraction
      <4>2. QED BY <2>1, <3>1, <4>1 DEF FlagAgreesAfterOne
    <3>3. DegradedHasCause'
      BY <2>1 DEF FlagInv, DegradedHasCause
    <3>4. QED BY <1>0, <2>1, <3>1, <3>2, <3>3, EndKeeps DEF FlagInv
  <2>7. QED BY <2>4, <2>5, <2>6
<1>8. ASSUME NEW k \in Tasks, SetDegraded(k) PROVE FlagInv'
  <2>1. /\ tasks[k].at = "flag" /\ day' = day /\ config' = config /\ crossed' = crossed
        /\ agreed' = tasks[k].alone /\ tasks' = [tasks EXCEPT ![k] = NoTask]
        /\ rows' = [rows EXCEPT ![day] = WithFlag(rows[day], tasks[k].row)] /\ day \in Days
    BY <1>0, <1>8 DEF SetDegraded, TypeOK
  <2>2. /\ rows'[day].degraded = tasks[k].row.degraded /\ rows'[day].used = rows[day].used
        /\ \A d \in Days : d # day => rows'[d] = rows[d]
    BY <1>0, <2>1 DEF WithFlag, TypeOK
  <2>3. \A d \in Days : rows'[d].used = rows[d].used
    BY <2>1, <2>2
  <2>4. DegradedHasCause'
    <3>1. tasks[k].row.degraded => \E e \in crossed : e <= day
      BY <2>1 DEF FlagInv, Caused
    <3>2. QED BY <2>1, <2>2, <3>1 DEF FlagInv, DegradedHasCause
  <2>5. FlagAgreesAfterOne'
    <3>1. tasks[k].alone => (tasks[k].row.degraded <=> Over(rows[day].used, config[Soft]))
      BY <2>1 DEF FlagInv, Alone
    <3>2. QED BY <2>1, <2>2, <3>1 DEF FlagAgreesAfterOne
  <2>6. /\ tasks'[k].at = "idle" /\ ~tasks'[k].alone
        /\ \A j \in Tasks : j # k => tasks'[j] = tasks[j] /\ ~tasks[j].alone
    BY <1>0, <2>1 DEF FlagInv, TypeOK, NoTask
  <2>7. ASSUME NEW j \in Tasks PROVE (Caused(tasks[j]) /\ Alone(tasks[j]))'
    <3>1. CASE j = k
      BY <2>6, <3>1 DEF Caused, Alone
    <3>2. CASE j # k
      <4>1. Caused(tasks[j]) /\ tasks'[j] = tasks[j] /\ ~tasks'[j].alone
        BY <2>6, <3>2 DEF FlagInv
      <4>2. QED BY <2>1, <2>3, <4>1 DEF Caused, Alone
    <3>3. QED BY <3>1, <3>2
  <2>8. \A j \in Tasks : ~tasks'[j].alone
    BY <2>6
  <2>9. \A d \in Days : Over(rows'[d].used, config'[Soft]) => d \in crossed'
    BY <2>1, <2>3 DEF FlagInv
  <2>10. QED BY <1>0, <2>4, <2>5, <2>7, <2>8, <2>9 DEF FlagInv
<1>9. ASSUME NEW k \in Tasks, Drop(k) PROVE FlagInv'
  <2>1. UNCHANGED <<day, rows, config, crossed, agreed>> /\ tasks' = [tasks EXCEPT ![k] = NoTask]
    BY <1>9 DEF Drop, server, history
  <2>2. DegradedHasCause' /\ FlagAgreesAfterOne'
    BY <2>1 DEF FlagInv, DegradedHasCause, FlagAgreesAfterOne
  <2>3. QED BY <1>0, <2>1, <2>2, EndKeeps DEF FlagInv
<1>10. ASSUME Midnight PROVE FlagInv'
  <2>1. /\ rows' = rows /\ config' = config /\ crossed' = crossed /\ ~agreed' /\ day' = day + 1
        /\ tasks' = [k \in Tasks |-> [tasks[k] EXCEPT !.alone = FALSE]]
    BY <1>10 DEF Midnight
  <2>2. day <= day' /\ day \in Nat
    BY <1>0, <2>1, ConstantTypes DEF TypeOK
  <2>3. \A d \in Days, c \in Counters : rows[d].used[c] <= rows'[d].used[c]
    BY <1>0, <2>1 DEF Usage
  <2>4. ASSUME NEW k \in Tasks PROVE (Caused(tasks[k]) /\ Alone(tasks[k]))' /\ ~tasks'[k].alone
    <3>1. /\ tasks'[k].at = tasks[k].at /\ tasks'[k].row = tasks[k].row
          /\ ~tasks'[k].alone
      BY <1>0, <2>1 DEF Task
    <3>2. Caused(tasks[k])
      BY DEF FlagInv
    <3>3. \A e \in Days : e <= day => e <= day'
      BY <2>1, <2>2, ConstantTypes
    <3>4. crossed \subseteq Days
      BY <1>0 DEF TypeOK
    <3>5. QED BY <2>1, <3>1, <3>2, <3>3, <3>4 DEF Caused, Alone
  <2>5. DegradedHasCause' /\ FlagAgreesAfterOne'
    BY <2>1 DEF FlagInv, DegradedHasCause, FlagAgreesAfterOne
  <2>6. QED BY <1>0, <2>1, <2>4, <2>5 DEF FlagInv
<1>11. ASSUME UNCHANGED vars PROVE FlagInv'
  BY <1>0, <1>11, FlagRests DEF vars, server, history
<1>12. QED BY <1>1, <1>2, <1>3, <1>4, <1>5, <1>6, <1>7, <1>8, <1>9, <1>10, <1>11 DEF Next

\* The degraded flag of a day has a cause, that day or, through a recorder that midnight
\* overtook, an earlier one.
THEOREM HasCause == Spec => []DegradedHasCause
<1>1. FlagInv => DegradedHasCause
  BY DEF FlagInv
<1>2. QED BY <1>1, InitFlag, NextFlag, PTL DEF Spec

\* recordUsage is its own repair: the flag is right after every recorder that ran alone.
THEOREM AgreesAfterOne == Spec => []FlagAgreesAfterOne
<1>1. FlagInv => FlagAgreesAfterOne
  BY DEF FlagInv
<1>2. QED BY <1>1, InitFlag, NextFlag, PTL DEF Spec
===============================================================================
