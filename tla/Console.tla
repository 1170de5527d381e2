--------------------------------- MODULE Console ---------------------------------
(***************************************************************************)
(* One tab of the console on the screens that list and act: user discovery *)
(* and the audit log, which page through a listing (web/src/screens/       *)
(* UserDiscovery.tsx, AuditLog.tsx), mapping, which reloads its list after *)
(* each change (MappingProvisioning.tsx, lib/useAsync.ts), and the monitor *)
(* of jobs, which polls it (MigrationMonitor.tsx, poll of lib/api.ts).  A  *)
(* screen lives from its mount to its unmount, its requests may live       *)
(* longer.  The routes they call are single steps here (Onboarding and     *)
(* JobLifecycle have the steps of those that change rows).                 *)
(***************************************************************************)
EXTENDS Integers, FiniteSets

CONSTANTS Users,      \* people, by source address; a queue row and a job each at most
          Entries,    \* entries of the audit log
          Queries,    \* what can be searched or filtered for
          All,        \* the query that a screen starts with
          Listing,    \* external: what matches a query, in the directory and in the log
          Rank,       \* what a listing is sorted by, descending, and a cursor names
          PageSize,
          Slots,      \* bound: requests in flight at once
          Pollers,    \* bound: poll() loops that have not come to their end
          MaxLeft,    \* bound: requests in flight when their screen is left
          MaxRev,     \* bound: changes of the queue
          None

Pages == {"discovery", "audit", "mapping", "monitor"}
Lists == {"discovery", "audit"}
Things == Users \cup Entries
Cursors == {None} \cup {Rank[x] : x \in Things}

ASSUME Assumptions ==
    /\ All \in Queries /\ PageSize \in Nat \ {0} /\ MaxRev \in Nat /\ MaxLeft \in Nat
    /\ Listing \in [Lists -> [Queries -> SUBSET Things]] /\ Rank \in [Things -> Nat]
    /\ IsFiniteSet(Things)
    /\ None \notin Users \cup Queries \cup Nat

\* migration_users: mapping_status, and whether there is a target.
Row == [status : {"unmapped", "mapped", "auto_create", "invalid"}, target : BOOLEAN]
NewRow == [status |-> "unmapped", target |-> FALSE]
Queue == [rows : [Users -> Row \cup {None}], rev : 0 .. MaxRev]
NoQueue == [rows |-> [u \in Users |-> None], rev |-> 0]

\* The status of a job; "active" is queued or running, which no rule here tells apart.
Status == {"none", "active", "failed", "cancelled", "completed"}
NoJobs == [u \in Users |-> "none"]

\* RETRYABLE of the routes, and the sets by which the monitor shows its buttons.
Retryable == {"failed"}
Terminal == {"completed", "cancelled", "failed"}

\* Fault seeded for RefusedOnlyWhenMoved: the button is there for every job that ended.
OffersRetryAtEnd == Terminal

OffersRetry == {"failed", "cancelled"}

\* What a screen keeps: the query in force, the rows, the cursor, the flags that its
\* banners and buttons go by, what is selected, the lists, the dialog.
Screen == [query : Queries, items : SUBSET Things, cursor : Cursors,
           loading : BOOLEAN, error : BOOLEAN,
           selection : SUBSET Users, adding : BOOLEAN, queue : Queue,
           jobs : [Users -> Status], starting : BOOLEAN, dialog : Users \cup {None},
           busy : Users \cup {None}]
Mounted == [query |-> All, items |-> {}, cursor |-> None, loading |-> TRUE,
            error |-> FALSE, selection |-> {}, adding |-> FALSE, queue |-> NoQueue,
            jobs |-> NoJobs, starting |-> FALSE, dialog |-> None, busy |-> None]

\* A request that acts. mine: its screen is still there. History: shown and met, the
\* job's status when a retry is clicked and when it is refused; rev, that of the change.
Request == [kind : {"add", "import", "patch", "start", "cancel", "retry", "delta"},
            users : SUBSET Users, row : Row, mine : BOOLEAN,
            stage : {"sent", "done", "refused", "lost"}, shown : Status, met : Status,
            rev : 0 .. MaxRev]

\* A request for a list: the query it asked with, the rows that it was answered with.
Load == [query : Queries, answer : Queue \cup {None}]

ASSUME NoneApart == None \notin Request

VARIABLES
    page, screen,
    loads,     \* list requests whose answer the screen takes
    more,      \* "Load more" requests: query and cursor
    polls,     \* poll() loops
    wire,      \* requests that act
    queue,     \* D1: migration_users, with the number of changes so far
    jobs,      \* D1: the status of each user's job
    \* History variables, for the properties only.
    mixed,     \* a further page came to a list that had moved on
    threw,     \* addSelected threw before its try
    acked      \* the last change of the queue that this tab was told of

view == <<page, screen, loads, more, polls>>
server == <<queue, jobs>>
history == <<mixed, threw, acked>>
vars == <<view, wire, server, history>>

IsLoad(q) == [query |-> q, answer |-> None]
Queued == {u \in Users : queue.rows[u] # None}

-------------------------------------------------------------------------------
(* Screens come and go (React mounts and unmounts them on navigation). *)

\* A loop of poll() asks, then waits for its timer. stopped is its flag.
Loop == [at : {"none", "asking", "waiting"}, stopped : BOOLEAN]
NoLoop == [at |-> "none", stopped |-> FALSE]

\* Fault seeded for PollsAreOne: the flag is not set, so the aborted call arms the timer.
StopTimer(loop) == IF loop.at = "waiting" THEN NoLoop ELSE loop

\* stop() of a poll: the timer is cleared, a call in flight aborted.
Stop(loop) ==
    IF loop.at = "waiting" THEN NoLoop ELSE [loop EXCEPT !.stopped = @ \/ loop.at = "asking"]

\* An unmounted screen's requests go on; nobody takes their answers.
Orphaned(r) ==
    IF r # None /\ r.stage = "sent" THEN [r EXCEPT !.mine = FALSE, !.shown = "none"] ELSE None

Navigate(p) ==
    LET stopped == [l \in Pollers |-> Stop(polls[l])]
    IN  /\ p # page
        /\ Cardinality({s \in Slots : wire[s] # None}) <= MaxLeft
        /\ page' = p
        /\ screen' = Mounted
        /\ loads' = IF p = "monitor" THEN {} ELSE {IsLoad(All)}
        /\ more' = [s \in Slots |-> None]
        /\ wire' = [s \in Slots |-> Orphaned(wire[s])]
        /\ IF p = "monitor"
           THEN \E l \in Pollers :
                   /\ stopped[l].at = "none"
                   /\ polls' = [stopped EXCEPT ![l] = [NoLoop EXCEPT !.at = "asking"]]
           ELSE polls' = stopped
        /\ mixed' = FALSE /\ threw' = FALSE
        /\ UNCHANGED <<server, acked>>

Show(s) == screen' = s

-------------------------------------------------------------------------------
(* Paging through a listing. *)

\* A page of what is below a cursor, with the next cursor; ties come in any order.
IsPage(found, cursor, items, next) ==
    LET below == {x \in found : cursor = None \/ Rank[x] < cursor}
    IN  /\ items \subseteq below
        /\ \A x \in items, y \in below \ items : Rank[x] >= Rank[y]
        /\ IF items = below
           THEN Cardinality(items) <= PageSize /\ next = None
           ELSE /\ Cardinality(items) = PageSize
                /\ \E x \in items : next = Rank[x] /\ \A y \in items : Rank[x] <= Rank[y]

\* Faults seeded for ListAnswersQuery and ShowsOwnChanges: an effect without its cleanup.
NotAborted(pending) == pending

\* An effect's cleanup: what is pending is aborted, or its answer ignored.
Aborted(pending) == pending \ pending

\* The debounce timer, or the Apply and Clear buttons, put the query in force, and the
\* effect loads its first page.
Apply(q) ==
    /\ page \in Lists
    /\ page = "audit" \/ q # screen.query
    /\ Show([screen EXCEPT !.query = q, !.loading = TRUE, !.error = FALSE])
    /\ loads' = Aborted(loads) \cup {IsLoad(q)}
    /\ UNCHANGED <<page, more, polls, wire, server, history>>

\* The first page replaces the rows; an error empties them and leaves the cursor.
FirstPage(load) ==
    /\ page \in Lists /\ load \in loads
    /\ loads' = loads \ {load}
    /\ \/ \E items \in SUBSET Listing[page][load.query], next \in Cursors :
             /\ IsPage(Listing[page][load.query], None, items, next)
             /\ Show([screen EXCEPT !.items = items, !.cursor = next, !.loading = FALSE])
       \/ Show([screen EXCEPT !.items = {}, !.loading = FALSE, !.error = TRUE])
    /\ mixed' = FALSE
    /\ UNCHANGED <<page, more, polls, wire, server, threw, acked>>

LoadMore(s) ==
    /\ page \in Lists /\ screen.cursor # None /\ ~screen.loading
    /\ more[s] = None /\ wire[s] = None
    /\ more' = [more EXCEPT ![s] = [query |-> screen.query, cursor |-> screen.cursor]]
    /\ UNCHANGED <<page, screen, loads, polls, wire, server, history>>

\* A further page is appended to whatever is on screen by now: nothing aborts it, and the
\* button is not off meanwhile. An error is toasted.
FurtherPage(s) ==
    /\ more[s] # None
    /\ more' = [more EXCEPT ![s] = None]
    /\ \/ \E items \in SUBSET Listing[page][more[s].query], next \in Cursors :
             /\ IsPage(Listing[page][more[s].query], more[s].cursor, items, next)
             /\ Show([screen EXCEPT !.items = @ \cup items, !.cursor = next])
             /\ mixed' = (mixed \/ screen.loading \/ screen.query # more[s].query
                                \/ screen.cursor # more[s].cursor)
       \/ UNCHANGED <<screen, mixed>>
    /\ UNCHANGED <<page, loads, polls, wire, server, threw, acked>>

-------------------------------------------------------------------------------
(* Requests that act. *)

IsRequest(kind, users) ==
    [kind |-> kind, users |-> users, row |-> NewRow, mine |-> TRUE, stage |-> "sent",
     shown |-> "none", met |-> "none", rev |-> 0]

\* A click: what it shows at once, and the request it sends.
Submit(s, now, request) ==
    /\ wire[s] = None /\ more[s] = None
    /\ wire' = [wire EXCEPT ![s] = request]
    /\ Show(now)
    /\ UNCHANGED <<page, loads, more, polls, server, history>>

\* The checkbox of a row that is on screen.
Toggle(u) ==
    /\ page = "discovery" /\ u \in screen.items /\ ~screen.loading
    /\ Show([screen EXCEPT !.selection = IF u \in @ THEN @ \ {u} ELSE @ \cup {u}])
    /\ UNCHANGED <<page, loads, more, polls, wire, server, history>>

\* addSelected looks the selected up among the rows on screen. A selection that a later
\* search has scrolled away makes it throw, with the button's flag set.
CanAdd == page = "discovery" /\ screen.selection # {} /\ ~screen.adding

AddSelected(s) ==
    /\ CanAdd /\ screen.selection \subseteq screen.items
    /\ Submit(s, [screen EXCEPT !.adding = TRUE], IsRequest("add", screen.selection))

AddThrows ==
    /\ CanAdd /\ ~(screen.selection \subseteq screen.items)
    /\ Show([screen EXCEPT !.adding = TRUE])
    /\ threw' = TRUE
    /\ UNCHANGED <<page, loads, more, polls, wire, server, mixed, acked>>

\* The import dialog, with a file whose header is right.
Import(s, users, auto) ==
    /\ page = "discovery" /\ users # {}
    /\ \A r \in Slots : wire[r] # None /\ wire[r].mine => wire[r].kind # "import"
    /\ Submit(s, screen, [IsRequest("import", users) EXCEPT
                             !.row = [status |-> IF auto THEN "auto_create" ELSE "mapped",
                                      target |-> TRUE]])

\* The mapping of a row as it is on screen: its auto-create switch, and the dialog with
\* an address, without one, or with "auto-create instead".
Listed(u) == page = "mapping" /\ ~screen.loading /\ screen.queue.rows[u] # None

Map(s, u, status, target) ==
    /\ Listed(u)
    /\ \/ target = screen.queue.rows[u].target
          /\ status \in {"auto_create", IF target THEN "mapped" ELSE "unmapped"}
       \/ <<status, target>> \in {<<"mapped", TRUE>>, <<"unmapped", FALSE>>,
                                  <<"auto_create", FALSE>>}
    /\ Submit(s, screen, [IsRequest("patch", {u}) EXCEPT
                             !.row = [status |-> status, target |-> target]])

\* Jobs are created for the rows shown as mapped.
Ready == {u \in Users : screen.queue.rows[u] # None /\ screen.queue.rows[u].status = "mapped"}

Start(s) ==
    /\ page = "mapping" /\ Ready # {} /\ ~screen.starting
    /\ Submit(s, [screen EXCEPT !.starting = TRUE], IsRequest("start", Ready))

\* A button of a job; a cancellation is confirmed in a dialog, however old that is.
Act(s, kind, u) == Submit(s, [screen EXCEPT !.busy = u], IsRequest(kind, {u}))

Retry(s, u) ==
    /\ page = "monitor" /\ screen.jobs[u] \in OffersRetry /\ screen.busy # u
    /\ Submit(s, [screen EXCEPT !.busy = u],
              [IsRequest("retry", {u}) EXCEPT !.shown = screen.jobs[u]])

Delta(s, u) ==
    /\ page = "monitor" /\ screen.jobs[u] = "completed" /\ screen.busy # u
    /\ Act(s, "delta", u)

OpenDialog(u) ==
    /\ page = "monitor" /\ screen.dialog = None
    /\ screen.jobs[u] \notin Terminal \cup {"none"} /\ screen.busy # u
    /\ Show([screen EXCEPT !.dialog = u])
    /\ UNCHANGED <<page, loads, more, polls, wire, server, history>>

CloseDialog ==
    /\ screen.dialog # None
    /\ Show([screen EXCEPT !.dialog = None])
    /\ UNCHANGED <<page, loads, more, polls, wire, server, history>>

Cancel(s) ==
    /\ page = "monitor" /\ screen.dialog # None /\ screen.busy # screen.dialog
    /\ Act(s, "cancel", screen.dialog)

-------------------------------------------------------------------------------
(* The routes. *)

\* The client sends {csv: text} as JSON and the route parses the body as the file: one
\* cell that starts with {csv: and holds the rest, instead of the header.
AsJson(text) == [text EXCEPT !.header = FALSE, !.users = {}]

\* validateImportCsv: nothing without the header; then the rows not in the queue.
Accepted(text) == IF text.header THEN text.users \ Queued ELSE {}

\* What a request makes of the rows it is about.
Changed(r) ==
    CASE r.kind = "add" -> r.users
      [] r.kind = "import" -> Accepted(AsJson([header |-> TRUE, users |-> r.users]))
      [] r.kind = "patch" -> r.users

\* Fault seeded for TypeOK: a status that the contract does not know.
MappedMissing(row) ==
    [row EXCEPT !.status = IF @ = "auto_create" /\ ~row.target THEN "missing" ELSE @]

\* PATCH of a mapping: one to create without a target is invalid.
Mapped(row) ==
    [row EXCEPT !.status = IF @ = "auto_create" /\ ~row.target THEN "invalid" ELSE @]

Answered(s, r) == wire' = [wire EXCEPT ![s] = IF r.mine THEN r ELSE None]

ServeQueue(s) ==
    LET r == wire[s]
    IN  /\ r # None /\ r.stage = "sent" /\ r.kind \in {"add", "import", "patch"}
        /\ queue.rev < MaxRev
        /\ queue' = [rows |-> [u \in Users |->
                                  IF u \notin Changed(r) THEN queue.rows[u]
                                  ELSE IF r.kind = "patch" THEN Mapped(r.row)
                                  ELSE r.row],
                     rev |-> queue.rev + 1]
        /\ Answered(s, [r EXCEPT !.rev = queue.rev + 1,
                                 !.stage = IF r.kind = "import" /\ Changed(r) # r.users
                                           THEN "refused" ELSE "done"])
        /\ UNCHANGED <<view, jobs, history>>

\* POST /api/jobs: users without a target or with an invalid mapping are passed over.
Startable(r) == {u \in r.users \cap Queued : queue.rows[u].target /\ queue.rows[u].status # "invalid"}

ServeStart(s) ==
    LET r == wire[s]
    IN  /\ r # None /\ r.stage = "sent" /\ r.kind = "start"
        /\ jobs' = [u \in Users |-> IF u \in Startable(r) THEN "active" ELSE jobs[u]]
        /\ Answered(s, [r EXCEPT !.stage = "done"])
        /\ UNCHANGED <<view, queue, history>>

\* The job routes: only a retry looks at the status.
ServeJob(s) ==
    LET r == wire[s]
    IN  /\ r # None /\ r.stage = "sent" /\ r.kind \in {"cancel", "retry", "delta"}
        /\ \E u \in r.users :
              LET refused == r.kind = "retry" /\ jobs[u] \notin Retryable
              IN  /\ jobs' = IF refused THEN jobs
                             ELSE [jobs EXCEPT ![u] = IF r.kind = "cancel" THEN "cancelled"
                                                      ELSE "active"]
                  /\ Answered(s, IF refused THEN [r EXCEPT !.stage = "refused", !.met = jobs[u]]
                                 ELSE [r EXCEPT !.stage = "done"])
        /\ UNCHANGED <<view, queue, history>>

\* The request or its answer is lost, or the route fails.
Lose(s) ==
    /\ wire[s] # None /\ wire[s].stage \in {"sent", "done"}
    /\ Answered(s, [wire[s] EXCEPT !.stage = "lost"])
    /\ UNCHANGED <<view, server, history>>

\* The engine moves a job on, or another engineer changes a row.
EngineMoves(u, status) ==
    /\ jobs[u] \in {"active", "cancelled"}
    /\ status \in {"active", "failed", "completed"} \ {jobs[u]}
    /\ jobs' = [jobs EXCEPT ![u] = status]
    /\ UNCHANGED <<view, wire, queue, history>>

Elsewhere(u) ==
    /\ queue.rev < MaxRev /\ queue.rows[u] # None
    /\ queue' = [rows |-> [queue.rows EXCEPT ![u] = [status |-> "mapped", target |-> TRUE]],
                 rev |-> queue.rev + 1]
    /\ UNCHANGED <<view, wire, jobs, history>>

-------------------------------------------------------------------------------
(* Answers. *)

\* Fault seeded for SpinnerMeansWork: the flag is cleared on success only.
SettledOnSuccess(r) ==
    [screen EXCEPT !.adding = (@ /\ (r.kind # "add" \/ r.stage # "done")),
                   !.selection = IF r.kind = "add" /\ r.stage = "done" THEN {} ELSE @,
                   !.starting = (@ /\ r.kind # "start"),
                   !.dialog = IF r.kind = "cancel" /\ r.stage = "done" THEN None ELSE @,
                   !.busy = IF r.kind \in {"cancel", "retry", "delta"} THEN None ELSE @]

\* What the handlers do with an answer: flags go in finally, the selection and the dialog
\* on success. An import without rejected rows flips adding, to reload the count.
Settled(r) ==
    [screen EXCEPT !.adding = IF r.kind = "import" /\ r.stage = "done" THEN ~@
                              ELSE @ /\ r.kind # "add",
                   !.selection = IF r.kind = "add" /\ r.stage = "done" THEN {} ELSE @,
                   !.starting = (@ /\ r.kind # "start"),
                   !.dialog = IF r.kind = "cancel" /\ r.stage = "done" THEN None ELSE @,
                   !.busy = IF r.kind \in {"cancel", "retry", "delta"} THEN None ELSE @]

\* A change of a mapping that succeeded reloads the list (useAsync).
Receive(s) ==
    LET r == wire[s]
        reload == r.kind = "patch" /\ r.stage = "done"
    IN  /\ r # None /\ r.stage # "sent"
        /\ wire' = [wire EXCEPT ![s] = None]
        /\ Show(IF reload THEN [Settled(r) EXCEPT !.loading = TRUE, !.error = FALSE]
                ELSE Settled(r))
        /\ loads' = IF reload THEN Aborted(loads) \cup {IsLoad(All)} ELSE loads
        /\ acked' = IF r.stage = "done" /\ acked < r.rev THEN r.rev ELSE acked
        /\ UNCHANGED <<page, more, polls, server, mixed, threw>>

\* The list of the mapping screen: read on the server, then shown if still wanted.
ReadQueue(load) ==
    /\ page = "mapping" /\ load \in loads /\ load.answer = None
    /\ loads' = (loads \ {load}) \cup {[load EXCEPT !.answer = queue]}
    /\ UNCHANGED <<page, screen, more, polls, wire, server, history>>

ShowQueue(load) ==
    /\ page = "mapping" /\ load \in loads
    /\ loads' = loads \ {load}
    /\ \/ /\ load.answer # None
          /\ Show([screen EXCEPT !.queue = load.answer, !.loading = FALSE])
       \/ Show([screen EXCEPT !.loading = FALSE, !.error = TRUE])
    /\ UNCHANGED <<page, more, polls, wire, server, history>>

-------------------------------------------------------------------------------
(* poll(): ask, show, wait, ask again. *)

\* finally: the timer is armed unless the loop was stopped.
Rearmed(loop) == IF loop.stopped THEN NoLoop ELSE [loop EXCEPT !.at = "waiting"]

PollAnswers(l) ==
    /\ polls[l].at = "asking"
    /\ polls' = [polls EXCEPT ![l] = Rearmed(polls[l])]
    /\ \/ ~polls[l].stopped /\ page = "monitor"
          /\ Show([screen EXCEPT !.jobs = jobs, !.loading = FALSE, !.error = FALSE])
       \/ ~polls[l].stopped /\ page = "monitor"
          /\ Show([screen EXCEPT !.loading = FALSE, !.error = TRUE])
       \/ (polls[l].stopped \/ page # "monitor") /\ UNCHANGED screen
    /\ UNCHANGED <<page, loads, more, wire, server, history>>

PollAsks(l) ==
    /\ polls[l].at = "waiting"
    /\ polls' = [polls EXCEPT ![l].at = "asking"]
    /\ UNCHANGED <<page, screen, loads, more, wire, server, history>>

-------------------------------------------------------------------------------

Init ==
    /\ page = "discovery" /\ screen = Mounted
    /\ loads = {IsLoad(All)} /\ more = [s \in Slots |-> None]
    /\ polls = [l \in Pollers |-> NoLoop]
    /\ wire = [s \in Slots |-> None]
    /\ queue \in [rows : [Users -> {None, NewRow}], rev : {0}] /\ jobs = NoJobs
    /\ mixed = FALSE /\ threw = FALSE /\ acked = 0

Next ==
    \/ \E p \in Pages : Navigate(p)
    \/ \E q \in Queries : Apply(q)
    \/ AddThrows \/ CloseDialog
    \/ \E load \in loads : FirstPage(load) \/ ReadQueue(load) \/ ShowQueue(load)
    \/ \E s \in Slots : \/ LoadMore(s) \/ FurtherPage(s) \/ AddSelected(s) \/ Start(s)
                        \/ Cancel(s) \/ ServeQueue(s) \/ ServeStart(s) \/ ServeJob(s)
                        \/ Lose(s) \/ Receive(s)
    \/ \E u \in Users : Toggle(u) \/ OpenDialog(u) \/ Elsewhere(u)
    \/ \E u \in Users, status \in Status : EngineMoves(u, status)
    \/ \E s \in Slots, u \in Users : Retry(s, u) \/ Delta(s, u)
    \/ \E s \in Slots, u \in Users, status \in {"unmapped", "mapped", "auto_create"}, target \in BOOLEAN :
          Map(s, u, status, target)
    \/ \E s \in Slots, users \in SUBSET Users, auto \in BOOLEAN : Import(s, users, auto)
    \/ \E l \in Pollers : PollAnswers(l) \/ PollAsks(l)

Spec == Init /\ [][Next]_vars

-------------------------------------------------------------------------------
(* Properties. *)

TypeOK ==
    /\ page \in Pages /\ screen \in Screen
    /\ loads \subseteq Load
    /\ more \in [Slots -> [query : Queries, cursor : Cursors] \cup {None}]
    /\ polls \in [Pollers -> Loop]
    /\ wire \in [Slots -> Request \cup {None}]
    /\ queue \in Queue /\ jobs \in [Users -> Status]
    /\ mixed \in BOOLEAN /\ threw \in BOOLEAN /\ acked \in 0 .. MaxRev

\* A list that is shown answers the query in force: nothing in it is of another query,
\* and what it lacks comes after the cursor or has the rank of a row shown (a page ends
\* between two entries of one moment). The exception is a further page that was asked for
\* before the list moved on, by a double click or a new query.
ListAnswersQuery ==
    page \in Lists /\ ~screen.loading /\ ~screen.error /\ ~mixed
       => LET found == Listing[page][screen.query]
          IN  /\ screen.items \subseteq found
              /\ \A x \in found \ screen.items :
                    \/ screen.cursor # None /\ Rank[x] < screen.cursor
                    \/ \E y \in screen.items : Rank[y] = Rank[x]

\* The mapping screen, once loaded, is not older than any change of the queue that this
\* tab was told of, from whichever screen it was made.
ShowsOwnChanges ==
    page = "mapping" /\ ~screen.loading /\ ~screen.error => screen.queue.rev >= acked

\* However often the monitor is left and entered, one loop polls, and none elsewhere.
PollsAreOne ==
    \A l \in Pollers : polls[l].at # "none" /\ ~polls[l].stopped
       => page = "monitor" /\ \A m \in Pollers : polls[m].at # "none" /\ ~polls[m].stopped => m = l

\* A button that spins has a request in flight, unless addSelected threw.
SpinnerMeansWork ==
    LET pending(kinds) == {r \in {wire[s] : s \in Slots} : r # None /\ r.mine /\ r.kind \in kinds}
    IN  /\ screen.adding => threw \/ pending({"add"}) # {}
        /\ screen.starting => pending({"start"}) # {}
        /\ screen.busy # None
              => \E r \in pending({"cancel", "retry", "delta"}) : r.users = {screen.busy}

\* A retry that the monitor offers is refused only when the job has moved on since, or
\* was cancelled.
RefusedOnlyWhenMoved ==
    \A s \in Slots : wire[s] # None /\ wire[s].kind = "retry" /\ wire[s].stage = "refused"
       => wire[s].met # wire[s].shown \/ wire[s].met = "cancelled"

\* "CSV import — sent as raw text body; Worker parses + validates line-by-line",
\* web/src/lib/api.ts: the users of a file with the right header get into the queue,
\* those that are in it already apart.
ImportQueues ==
    \A s \in Slots : wire[s] # None /\ wire[s].kind = "import" /\ wire[s].stage \in {"done", "refused"}
       => wire[s].users \subseteq Queued

\* "the job can be retried later and will resume from its last checkpoint", the dialog of
\* web/src/screens/MigrationMonitor.tsx that cancels a job.
CancelledCanBeRetried ==
    \A s \in Slots : wire[s] # None /\ wire[s].kind = "retry" /\ wire[s].stage = "refused"
       => wire[s].met # wire[s].shown
===============================================================================
