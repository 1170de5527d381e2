----------------------------- MODULE BudgetGovernor -----------------------------
(***************************************************************************)
(* The free-tier budget governor (worker/src/lib/budget.ts, db/budget.ts,  *)
(* middleware/budget.ts) with the configuration it reads and the Settings  *)
(* screen that changes it (routes/config.ts, db/config.ts, Settings.tsx).  *)
(* Requests go an await of D1 at a time; what they bill is recorded by     *)
(* tasks that run on after the answer (waitUntil), in three steps of which *)
(* any may fail unnoticed.  Midnight may fall between any two steps.       *)
(***************************************************************************)
EXTENDS Naturals

CONSTANTS Counters,      \* the counters of budget_counters
          Limit,         \* the daily cap of each, which no route changes
          PerRequest,    \* what countWorkerRequest bills
          Writes,        \* what the handlers of writes bill
          Fractions,     \* percentages in the bounds of budgetSoftFraction
          Tunables,      \* in-bounds values of the other keys of the config table
          Bad, Absent,   \* a value out of bounds; a key that is not there
          Requests, Tasks,         \* requests and background tasks in progress at once
          LastDay, MaxRequests     \* bounds: UTC days, requests that arrive

Usage == [Counters -> Nat]
Values == Fractions \cup Tunables

ASSUME Assumptions ==
    /\ Limit \in [Counters -> Nat \ {0}] /\ PerRequest \in Usage /\ Writes \subseteq Usage
    /\ Fractions \subseteq Nat \ {0} /\ Fractions # {} /\ Tunables # {}
    /\ Bad \notin Values /\ Absent \notin Values /\ Bad # Absent
    /\ LastDay \in Nat \ {0} /\ MaxRequests \in Nat

Days == 1 .. LastDay
NoUsage == [c \in Counters |-> 0]
NoRow == [used |-> NoUsage, degraded |-> FALSE]

\* The keys of a PATCH in the order of NUMERIC_KEYS; the Settings screen has inputs for
\* all but the last.
Soft == "budgetSoftFraction"
FormKeys == {"perTenantConcurrency", "auditRetentionDays"}
Keys == FormKeys \cup {Soft}
After == [perTenantConcurrency |-> "auditRetentionDays", auditRetentionDays |-> Soft,
          budgetSoftFraction |-> "bill"]

\* Fault seeded for TypeOK: the bounds are those of the other keys.
AnyNumber(key) == Values \cup {Bad}

InBounds(key) == IF key = Soft THEN Fractions ELSE Tunables
Body == [Keys -> Values \cup {Bad, Absent}]
NoBody == [key \in Keys |-> Absent]

\* A request in the Worker. wrote, late and over are history: it has written to the
\* config; a write was refused that day before it read the row; usage was over the soft
\* threshold in force when it did, and that has not been changed since.
Request == [kind : {"poll", "write", "patch", "save"},
            at : {"idle", "row", "limits", "handle", "bill", "audit", "answer"} \cup Keys,
            used : Usage, day : Days, body : Body,
            verdict : {"none", "paused", "run", "refused", "ok", "invalid", "error"},
            wrote : BOOLEAN, late : BOOLEAN, over : BOOLEAN]
Idle == [kind |-> "poll", at |-> "idle", used |-> NoUsage, day |-> 1, body |-> NoBody,
         verdict |-> "none", wrote |-> FALSE, late |-> FALSE, over |-> FALSE]

\* A recordUsage in the background. alone is history: nothing came in between.
Task == [at : {"idle", "increment", "limits", "flag"}, usage : Usage,
         row : [used : Usage, degraded : BOOLEAN], alone : BOOLEAN]
NoTask == [at |-> "idle", usage |-> NoUsage, row |-> NoRow, alone |-> FALSE]

VARIABLES
    day,        \* the UTC day
    rows,       \* D1: budget_counters, a row a day
    config,     \* D1: the config table
    requests,
    tasks,
    arrived,    \* bound: requests so far
    \* History variables, for the properties only.
    crossed,    \* days on which usage was over a soft threshold in force
    refused,    \* days on which the guard refused a write
    agreed      \* a task that ran alone was the last to touch today's row and thresholds

server == <<day, rows, config>>
history == <<crossed, refused, agreed>>
vars == <<server, requests, tasks, arrived, history>>

\* Fault seeded for DegradedHasCause: a constant instead of what is configured.
LowestFraction(cfg) == CHOOSE f \in Fractions : \A g \in Fractions : f <= g

\* The soft fraction of limits().
SoftFraction(cfg) == cfg[Soft]

\* isDegradedAtSoft, and the comparison of isHardExhausted.
Over(used, fraction) == \E c \in Counters : used[c] * 100 >= Limit[c] * fraction
Exhausted(used) == \E c \in Counters : used[c] >= Limit[c]

Observe == crossed' = crossed \cup {d \in Days : Over(rows'[d].used, config'[Soft])}

Answered(q, verdict) ==
    [Idle EXCEPT !.at = "answer", !.verdict = verdict, !.kind = q.kind, !.wrote = q.wrote,
                 !.over = q.over]

Become(r, q) == requests' = [requests EXCEPT ![r] = q]

-------------------------------------------------------------------------------
(* Requests enter the Worker. *)

Arrive(r, kind, body) ==
    /\ requests[r].at = "idle" /\ arrived < MaxRequests
    /\ arrived' = arrived + 1
    /\ Become(r, [Idle EXCEPT !.kind = kind, !.at = "row", !.body = body])
    /\ UNCHANGED <<server, tasks, history>>

Poll(r) == Arrive(r, "poll", NoBody)
Write(r) == Arrive(r, "write", NoBody)

\* The API takes a soft fraction, for which there is no input.
Patch(r, v) == Arrive(r, "patch", [NoBody EXCEPT ![Soft] = v])

\* The Settings screen sends its whole form, whatever of it was edited; the inputs take
\* any number and an emptied one is 0. Its button is off while a save is in progress.
Save(r, form) ==
    /\ \A q \in Requests : requests[q].at # "idle" => requests[q].kind # "save"
    /\ Arrive(r, "save", [key \in Keys |-> IF key \in FormKeys THEN form[key] ELSE Absent])

-------------------------------------------------------------------------------
(* isPaused, which the engine polls, and the guard of every write: both read the    *)
(* row and then the limits.                                                         *)

\* Fault seeded for RunsOnlyBelowSoft: the flag alone decides.
PausedByFlag(row, fraction) == row.degraded

\* The flag, or the counters again, in case a threshold was lowered.
Paused(row, fraction) == row.degraded \/ Over(row.used, fraction)

ReadRow(r) ==
    LET q == requests[r]
        row == rows[day]
        seen == [q EXCEPT !.used = row.used, !.day = day, !.late = day \in refused,
                          !.over = Over(row.used, config[Soft])]
    IN  /\ q.at = "row"
        /\ Become(r, IF q.kind = "poll" /\ row.degraded
                     THEN Answered(seen, "paused")
                     ELSE [seen EXCEPT !.at = "limits"])
        /\ UNCHANGED <<server, tasks, arrived, history>>

ReadThreshold(r) ==
    LET q == requests[r]
        row == [used |-> q.used, degraded |-> FALSE]
    IN  /\ q.at = "limits" /\ q.kind = "poll"
        /\ Become(r, Answered(q, IF Paused(row, SoftFraction(config)) THEN "paused" ELSE "run"))
        /\ UNCHANGED <<server, tasks, arrived, history>>

Guard(r) ==
    LET q == requests[r]
    IN  /\ q.at = "limits" /\ q.kind # "poll"
        /\ IF Exhausted(q.used)
           THEN /\ Become(r, Answered(q, "refused"))
                /\ refused' = refused \cup {q.day}
           ELSE /\ Become(r, [q EXCEPT !.used = NoUsage,
                                   !.at = IF q.kind = "write" THEN "handle"
                                          ELSE "perTenantConcurrency"])
                /\ UNCHANGED refused
        /\ UNCHANGED <<server, tasks, arrived, crossed, agreed>>

\* A call of D1 fails and the error handler answers.
Fail(r) ==
    /\ requests[r].at \notin {"idle", "answer"}
    /\ Become(r, Answered(requests[r], "error"))
    /\ UNCHANGED <<server, tasks, arrived, history>>

-------------------------------------------------------------------------------
(* Handlers and their bills. *)

\* billUsage starts a task next to those in progress.
Bill(k, usage) ==
    /\ tasks[k].at = "idle"
    /\ tasks' = [j \in Tasks |->
          IF j = k THEN [NoTask EXCEPT !.at = "increment", !.usage = usage,
                                       !.alone = \A i \in Tasks : tasks[i].at = "idle"]
          ELSE [tasks[j] EXCEPT !.alone = FALSE]]

Handle(r, k, usage) ==
    /\ requests[r].at = "handle"
    /\ Bill(k, usage)
    /\ Become(r, Answered(requests[r], "ok"))
    /\ UNCHANGED <<server, arrived, history>>

\* PATCH /api/config checks and writes one key after the other.
SetKey(r) ==
    LET q == requests[r]
        key == q.at
        v == q.body[key]
        next == [q EXCEPT !.at = After[key], !.wrote = @ \/ v # Absent]
    IN  /\ key \in Keys /\ v \in InBounds(key) \cup {Absent}
        /\ config' = IF v = Absent THEN config ELSE [config EXCEPT ![key] = v]
        /\ IF key = Soft /\ v # Absent
           THEN /\ requests' = [s \in Requests |->
                      [(IF s = r THEN next ELSE requests[s]) EXCEPT !.over = FALSE]]
                /\ tasks' = [k \in Tasks |-> [tasks[k] EXCEPT !.alone = FALSE]]
                /\ agreed' = FALSE
           ELSE Become(r, next) /\ UNCHANGED <<tasks, agreed>>
        /\ UNCHANGED <<day, rows, arrived, refused>>
        /\ Observe

RefuseKey(r) ==
    /\ requests[r].at \in Keys
    /\ requests[r].body[requests[r].at] \notin InBounds(requests[r].at) \cup {Absent}
    /\ Become(r, Answered(requests[r], "invalid"))
    /\ UNCHANGED <<server, tasks, arrived, history>>

BillPatch(r, k, usage) ==
    /\ requests[r].at = "bill" /\ requests[r].wrote
    /\ Bill(k, usage)
    /\ Become(r, [requests[r] EXCEPT !.at = "audit"])
    /\ UNCHANGED <<server, arrived, history>>

AuditPatch(r, k, usage) ==
    /\ requests[r].at = "audit"
    /\ Bill(k, usage)
    /\ Become(r, Answered(requests[r], "ok"))
    /\ UNCHANGED <<server, arrived, history>>

\* countWorkerRequest counts the request when it has its answer, whatever that is.
Answer(r, k) ==
    /\ requests[r].at = "answer"
    /\ Bill(k, PerRequest)
    /\ Become(r, Idle)
    /\ UNCHANGED <<server, arrived, history>>

-------------------------------------------------------------------------------
(* recordUsage: increment, then the limits, then the flag if it differs. *)

Plus(old, usage) == [c \in Counters |-> old[c] + usage[c]]

\* One statement: insert or add, returning the new row.
Increment(k) ==
    LET row == [rows[day] EXCEPT !.used = Plus(rows[day].used, tasks[k].usage)]
    IN  /\ tasks[k].at = "increment"
        /\ rows' = [rows EXCEPT ![day] = row]
        /\ tasks' = [tasks EXCEPT ![k].at = "limits", ![k].row = row,
                                  ![k].usage = NoUsage]
        /\ agreed' = FALSE
        /\ UNCHANGED <<day, config, requests, arrived, refused>>
        /\ Observe

\* Fault seeded for FlagAgreesAfterOne: the flag is never taken back.
FlagOnlySet(row, now) == now /\ ~row.degraded

FlagDiffers(row, now) == now # row.degraded

ReadLimits(k) ==
    LET t == tasks[k]
        now == Over(t.row.used, SoftFraction(config))
    IN  /\ t.at = "limits"
        /\ IF FlagDiffers(t.row, now)
           THEN /\ tasks' = [tasks EXCEPT ![k].at = "flag", ![k].row.degraded = now]
                /\ UNCHANGED agreed
           ELSE /\ tasks' = [tasks EXCEPT ![k] = NoTask]
                /\ agreed' = t.alone
        /\ UNCHANGED <<server, requests, arrived, crossed, refused>>

\* Fault seeded for RefusedStaysRefused: the row goes back as it was read.
WithRow(row, read) == read

WithFlag(row, read) == [row EXCEPT !.degraded = read.degraded]

\* The flag goes to the row of the day it is by then.
SetDegraded(k) ==
    /\ tasks[k].at = "flag"
    /\ rows' = [rows EXCEPT ![day] = WithFlag(@, tasks[k].row)]
    /\ tasks' = [tasks EXCEPT ![k] = NoTask]
    /\ agreed' = tasks[k].alone
    /\ UNCHANGED <<day, config, requests, arrived, crossed, refused>>

Drop(k) ==
    /\ tasks[k].at # "idle"
    /\ tasks' = [tasks EXCEPT ![k] = NoTask]
    /\ UNCHANGED <<server, requests, arrived, history>>

Midnight ==
    /\ day < LastDay
    /\ day' = day + 1
    /\ tasks' = [k \in Tasks |-> [tasks[k] EXCEPT !.alone = FALSE]]
    /\ agreed' = FALSE
    /\ UNCHANGED <<rows, config, requests, arrived, crossed, refused>>

-------------------------------------------------------------------------------

Init ==
    /\ day = 1 /\ rows = [d \in Days |-> NoRow]
    /\ \E fraction \in Fractions, v \in Tunables :
          config = [key \in Keys |-> IF key = Soft THEN fraction ELSE v]
    /\ requests = [r \in Requests |-> Idle] /\ tasks = [k \in Tasks |-> NoTask]
    /\ arrived = 0 /\ crossed = {} /\ refused = {} /\ agreed = FALSE

Next ==
    \/ Midnight
    \/ \E r \in Requests, form \in [FormKeys -> Tunables \cup {Bad}] : Save(r, form)
    \/ \E r \in Requests, v \in Fractions \cup {Bad} : Patch(r, v)
    \/ \E r \in Requests : \/ Poll(r) \/ Write(r) \/ ReadRow(r) \/ ReadThreshold(r)
                           \/ Guard(r) \/ SetKey(r) \/ RefuseKey(r) \/ Fail(r)
    \/ \E r \in Requests, k \in Tasks : Answer(r, k)
    \/ \E r \in Requests, k \in Tasks, usage \in Writes :
          Handle(r, k, usage) \/ BillPatch(r, k, usage) \/ AuditPatch(r, k, usage)
    \/ \E k \in Tasks : Increment(k) \/ ReadLimits(k) \/ SetDegraded(k) \/ Drop(k)

Spec == Init /\ [][Next]_vars

-------------------------------------------------------------------------------
(* Properties. *)

TypeOK ==
    /\ day \in Days /\ arrived \in Nat /\ agreed \in BOOLEAN
    /\ rows \in [Days -> [used : Usage, degraded : BOOLEAN]]
    /\ config \in [Keys -> Values] /\ config[Soft] \in Fractions
    /\ requests \in [Requests -> Request] /\ tasks \in [Tasks -> Task]
    /\ crossed \subseteq Days /\ refused \subseteq Days

\* The engine is told to go on only when usage was below the soft threshold as its
\* request read it, whatever the recorders did to the flag, unless the fraction was
\* changed while it was answered.
RunsOnlyBelowSoft == \A r \in Requests : requests[r].verdict = "run" => ~requests[r].over

\* Once a write was refused for the day's caps, no write that comes later that day is
\* let through: no recorder, late or failing, takes usage back.
RefusedStaysRefused ==
    \A r \in Requests : requests[r].late /\ requests[r].kind # "poll"
                            => requests[r].at \in {"limits", "answer"}

\* The flag on the dashboard has a cause: that day's usage was over a soft threshold in
\* force then, or, through a recorder that midnight overtook, an earlier day's was.
DegradedHasCause ==
    \A d \in Days : rows[d].degraded => \E e \in crossed : e <= d

\* A flag that overlapping recorders left wrong is right again after one recorder that
\* runs alone, and stays right until the next one, a new fraction or midnight.
FlagAgreesAfterOne == agreed => (rows[day].degraded <=> Over(rows[day].used, config[Soft]))

\* The audit log is a "Read-only record of every administrative action"
\* (web/src/screens/AuditLog.tsx): a PATCH that changed the configuration has recorded
\* that when it is answered, unless a call of D1 failed.
ConfigChangesAudited ==
    \A r \in Requests : requests[r].at = "answer" /\ requests[r].wrote
                            => requests[r].verdict \in {"ok", "error"}
===============================================================================
