------------------------------ MODULE ConsoleProofs ------------------------------
(***************************************************************************)
(* Theorems of Console for any users, entries, listings, page sizes and    *)
(* numbers of requests: type correctness; that one loop polls; that a busy *)
(* button has work behind it; that offered retries are refused only when   *)
(* the job moved on; that the mapping list is not older than what the tab  *)
(* was told; and that a list answers the query in force.                   *)
(***************************************************************************)
EXTENDS Console, TLAPS

-------------------------------------------------------------------------------
(* Types. *)

\* What the screens and requests start from is typed.
LEMMA StartTypes ==
  /\ Mounted \in Screen /\ NoLoop \in Loop /\ NewRow \in Row /\ NoQueue \in Queue
  /\ \A q \in Queries : IsLoad(q) \in Load
  /\ \A users \in SUBSET Users :
        \A kind \in {"add", "import", "patch", "start", "cancel", "retry", "delta"} :
           IsRequest(kind, users) \in Request
<1>1. NewRow \in Row /\ NoLoop \in Loop
  BY DEF NewRow, Row, NoLoop, Loop
<1>2. 0 \in 0 .. MaxRev
  BY Assumptions
<1>3. NoQueue \in Queue
  BY <1>2 DEF NoQueue, Queue
<1>4. NoJobs \in [Users -> Status]
  BY DEF NoJobs, Status
<1>5. Mounted \in Screen
  BY <1>3, <1>4, Assumptions DEF Mounted, Screen, Cursors
<1>6. \A q \in Queries : IsLoad(q) \in Load
  BY DEF IsLoad, Load
<1>7. ASSUME NEW users \in SUBSET Users,
             NEW kind \in {"add", "import", "patch", "start", "cancel", "retry", "delta"}
      PROVE  IsRequest(kind, users) \in Request
  BY <1>1, <1>2 DEF IsRequest, Request, Status
<1>8. QED BY <1>1, <1>3, <1>5, <1>6, <1>7

\* A click that sends a typed request.
LEMMA SubmitTypes ==
  ASSUME TypeOK, NEW s \in Slots, NEW now \in Screen, NEW request \in Request,
         Submit(s, now, request)
  PROVE  TypeOK'
<1>1. screen' = now /\ wire' = [wire EXCEPT ![s] = request]
      /\ UNCHANGED <<page, loads, more, polls, server, history>>
  BY DEF Submit, Show
<1>2. wire' \in [Slots -> Request \cup {None}]
  BY <1>1 DEF TypeOK
<1>3. QED BY <1>1, <1>2 DEF TypeOK, server, history

\* A request that is answered, or whose screen is gone.
LEMMA AnsweredTypes ==
  ASSUME TypeOK, NEW s \in Slots, NEW r \in Request, Answered(s, r)
  PROVE  wire' \in [Slots -> Request \cup {None}]
  BY DEF TypeOK, Answered

\* Loops that are stopped or go on.
LEMMA LoopTypes ==
  ASSUME NEW loop \in Loop
  PROVE  Stop(loop) \in Loop /\ Rearmed(loop) \in Loop
<1>1. [loop EXCEPT !.stopped = loop.stopped \/ loop.at = "asking"] \in Loop
  BY DEF Loop
<1>2. [loop EXCEPT !.at = "waiting"] \in Loop
  BY DEF Loop
<1>3. QED BY <1>1, <1>2, StartTypes DEF Stop, Rearmed

\* The settled screen.
LEMMA SettledTypes ==
  ASSUME TypeOK, NEW r \in Request
  PROVE  Settled(r) \in Screen
<1> DEFINE adding == IF r.kind = "import" /\ r.stage = "done" THEN ~screen.adding
                     ELSE screen.adding /\ r.kind # "add"
           selection == IF r.kind = "add" /\ r.stage = "done" THEN {} ELSE screen.selection
           starting == screen.starting /\ r.kind # "start"
           dialog == IF r.kind = "cancel" /\ r.stage = "done" THEN None ELSE screen.dialog
           busy == IF r.kind \in {"cancel", "retry", "delta"} THEN None ELSE screen.busy
<1>0. screen \in Screen
  BY DEF TypeOK
<1>1. adding \in BOOLEAN /\ starting \in BOOLEAN
  BY <1>0 DEF Screen
<1>2. selection \in SUBSET Users /\ dialog \in Users \cup {None} /\ busy \in Users \cup {None}
  BY <1>0 DEF Screen
<1>3. Settled(r) = [screen EXCEPT !.adding = adding, !.selection = selection,
                                  !.starting = starting, !.dialog = dialog, !.busy = busy]
  BY DEF Settled
<1> HIDE DEF adding, selection, starting, dialog, busy
<1>4. QED BY <1>0, <1>1, <1>2, <1>3 DEF Screen

\* The start is typed.
LEMMA InitTypes == Init => TypeOK
<1> SUFFICES ASSUME Init PROVE TypeOK
  OBVIOUS
<1>1. queue \in Queue /\ acked \in 0 .. MaxRev
  BY Assumptions, StartTypes DEF Init, Queue
<1>2. QED BY <1>1, Assumptions, StartTypes DEF Init, TypeOK, Pages, NoJobs, Status

\* Leaving for another screen.
LEMMA NavigateTypes == ASSUME TypeOK, NEW p \in Pages, Navigate(p) PROVE TypeOK'
<1>1. page' \in Pages /\ screen' \in Screen
  BY StartTypes DEF Navigate
<1>2. loads' \subseteq Load
  BY StartTypes, Assumptions DEF Navigate
<1>3. more' \in [Slots -> [query : Queries, cursor : Cursors] \cup {None}]
  BY DEF Navigate
<1>4. wire' \in [Slots -> Request \cup {None}]
  <2>1. ASSUME NEW s \in Slots PROVE Orphaned(wire[s]) \in Request \cup {None}
    <3>1. CASE wire[s] \in Request
      <4> DEFINE r == wire[s]
      <4> HIDE DEF r
      <4>1. r \in Request => [r EXCEPT !.mine = FALSE, !.shown = "none"] \in Request
        BY DEF Request, Status
      <4>2. QED BY <3>1, <4>1 DEF Orphaned, r
    <3>2. CASE wire[s] = None
      BY <3>2 DEF Orphaned
    <3>3. QED BY <3>1, <3>2 DEF TypeOK
  <2>2. wire' = [s \in Slots |-> Orphaned(wire[s])]
    BY DEF Navigate
  <2>3. QED BY <2>1, <2>2
<1>5. polls' \in [Pollers -> Loop]
  <2> DEFINE stopped == [l \in Pollers |-> Stop(polls[l])]
  <2>1. stopped \in [Pollers -> Loop]
    BY LoopTypes DEF TypeOK
  <2>2. [NoLoop EXCEPT !.at = "asking"] \in Loop
    BY DEF NoLoop, Loop
  <2>3. \/ polls' = stopped
        \/ \E l \in Pollers : polls' = [stopped EXCEPT ![l] = [NoLoop EXCEPT !.at = "asking"]]
    BY DEF Navigate
  <2> HIDE DEF stopped
  <2>4. QED BY <2>1, <2>2, <2>3
<1>6. UNCHANGED <<queue, jobs, acked>> /\ mixed' \in BOOLEAN /\ threw' \in BOOLEAN
  BY DEF Navigate, server
<1>7. QED BY <1>1, <1>2, <1>3, <1>4, <1>5, <1>6 DEF TypeOK

\* Further pages are asked for on the screens that page only.
PagesOnLists == \A s \in Slots : more[s] # None => page \in Lists

\* Typed, with further pages where there is a listing.
TypeInv == TypeOK /\ PagesOnLists

\* Every step keeps the types.
LEMMA NextTypes == TypeInv /\ [Next]_vars => TypeOK'
<1> SUFFICES ASSUME TypeInv, [Next]_vars PROVE TypeOK'
  OBVIOUS
<1>0. /\ TypeOK /\ screen \in Screen /\ queue \in Queue /\ jobs \in [Users -> Status]
      /\ \A s \in Slots : wire[s] \in Request \cup {None}
      /\ \A l \in Pollers : polls[l] \in Loop
      /\ \A load \in loads : load \in Load
  BY DEF TypeInv, TypeOK
<1>1. ASSUME NEW q \in Queries, Apply(q) PROVE TypeOK'
  <2>1. [screen EXCEPT !.query = q, !.loading = TRUE, !.error = FALSE] \in Screen
    BY <1>0 DEF Screen
  <2>2. Aborted(loads) \cup {IsLoad(q)} \subseteq Load
    BY <1>0, StartTypes DEF Aborted
  <2>3. QED BY <1>0, <1>1, <2>1, <2>2 DEF Apply, Show, TypeOK, server, history
<1>2. ASSUME NEW load \in loads, FirstPage(load) PROVE TypeOK'
  <2>1. [screen EXCEPT !.items = {}, !.loading = FALSE, !.error = TRUE] \in Screen
    BY <1>0 DEF Screen
  <2>2. ASSUME NEW items \in SUBSET Listing[page][load.query], NEW next \in Cursors
        PROVE  [screen EXCEPT !.items = items, !.cursor = next, !.loading = FALSE] \in Screen
    <3>1. load.query \in Queries /\ page \in Lists
      BY <1>0, <1>2 DEF FirstPage, Load
    <3>2. items \subseteq Things
      BY <3>1, Assumptions
    <3>3. QED BY <1>0, <3>2 DEF Screen
  <2>3. screen' \in Screen
    BY <1>2, <2>1, <2>2 DEF FirstPage, Show
  <2>4. loads' \subseteq Load
    BY <1>0, <1>2 DEF FirstPage
  <2>5. QED BY <1>0, <1>2, <2>3, <2>4 DEF FirstPage, TypeOK, server
<1>3. ASSUME NEW s \in Slots, LoadMore(s) PROVE TypeOK'
  <2>1. [query |-> screen.query, cursor |-> screen.cursor] \in [query : Queries, cursor : Cursors]
    BY <1>0 DEF Screen
  <2>2. QED BY <1>0, <1>3, <2>1 DEF LoadMore, TypeOK, server, history
<1>4. ASSUME NEW s \in Slots, FurtherPage(s) PROVE TypeOK'
  <2>1. more' \in [Slots -> [query : Queries, cursor : Cursors] \cup {None}]
    BY <1>0, <1>4 DEF FurtherPage, TypeOK
  <2>2. ASSUME NEW items \in SUBSET Listing[page][more[s].query], NEW next \in Cursors
        PROVE  [screen EXCEPT !.items = screen.items \cup items, !.cursor = next] \in Screen
    <3>1. more[s].query \in Queries /\ page \in Lists
      BY <1>0, <1>4 DEF FurtherPage, TypeOK, TypeInv, PagesOnLists
    <3>2. screen.items \cup items \subseteq Things
      BY <1>0, <2>2, <3>1, Assumptions DEF Screen
    <3>3. QED BY <1>0, <2>2, <3>2 DEF Screen
  <2>3. screen' \in Screen
    BY <1>0, <1>4, <2>2 DEF FurtherPage, Show
  <2>4. mixed' \in BOOLEAN
    BY <1>0, <1>4 DEF FurtherPage, TypeOK
  <2>5. QED BY <1>0, <1>4, <2>1, <2>3, <2>4 DEF FurtherPage, TypeOK, server
<1>5. ASSUME NEW u \in Users, Toggle(u) \/ OpenDialog(u) PROVE TypeOK'
  <2> DEFINE selection == IF u \in screen.selection THEN screen.selection \ {u}
                          ELSE screen.selection \cup {u}
  <2>1. selection \in SUBSET Users
    BY <1>0 DEF Screen
  <2> HIDE DEF selection
  <2>2. /\ [screen EXCEPT !.selection = selection] \in Screen
        /\ [screen EXCEPT !.dialog = u] \in Screen
    BY <1>0, <2>1 DEF Screen
  <2>3. screen' \in Screen
    BY <1>5, <2>2 DEF Toggle, OpenDialog, Show, selection
  <2>4. QED BY <1>0, <1>5, <2>3 DEF Toggle, OpenDialog, TypeOK, server, history
<1>6. ASSUME AddThrows \/ CloseDialog PROVE TypeOK'
  <2>1. [screen EXCEPT !.adding = TRUE] \in Screen /\ [screen EXCEPT !.dialog = None] \in Screen
    BY <1>0 DEF Screen
  <2>2. screen' \in Screen /\ threw' \in BOOLEAN
    BY <1>0, <1>6, <2>1 DEF AddThrows, CloseDialog, Show, history, TypeOK
  <2>3. QED BY <1>0, <1>6, <2>2 DEF AddThrows, CloseDialog, TypeOK, server, history
<1>7. ASSUME NEW s \in Slots, AddSelected(s) \/ Start(s) PROVE TypeOK'
  <2>1. [screen EXCEPT !.adding = TRUE] \in Screen /\ [screen EXCEPT !.starting = TRUE] \in Screen
    BY <1>0 DEF Screen
  <2>2. IsRequest("add", screen.selection) \in Request /\ IsRequest("start", Ready) \in Request
    BY <1>0, StartTypes DEF Screen, Ready
  <2>3. QED BY <1>0, <1>7, <2>1, <2>2, SubmitTypes DEF AddSelected, Start
<1>8. ASSUME NEW s \in Slots, NEW users \in SUBSET Users, NEW auto \in BOOLEAN, Import(s, users, auto)
      PROVE  TypeOK'
  <2> DEFINE row == [status |-> IF auto THEN "auto_create" ELSE "mapped", target |-> TRUE]
             r == IsRequest("import", users)
  <2>1. row \in Row
    BY DEF Row
  <2>2. r \in Request
    BY StartTypes
  <2>3. Submit(s, screen, [r EXCEPT !.row = row])
    BY <1>8 DEF Import
  <2> HIDE DEF row, r
  <2>4. [r EXCEPT !.row = row] \in Request
    BY <2>1, <2>2 DEF Request
  <2>5. QED BY <1>0, <2>3, <2>4, SubmitTypes
<1>9. ASSUME NEW s \in Slots, NEW u \in Users, NEW status \in {"unmapped", "mapped", "auto_create"},
             NEW target \in BOOLEAN, Map(s, u, status, target)
      PROVE  TypeOK'
  <2> DEFINE row == [status |-> status, target |-> target]
             r == IsRequest("patch", {u})
  <2>1. row \in Row
    BY DEF Row
  <2>2. r \in Request
    BY StartTypes
  <2>3. Submit(s, screen, [r EXCEPT !.row = row])
    BY <1>9 DEF Map
  <2> HIDE DEF row, r
  <2>4. [r EXCEPT !.row = row] \in Request
    BY <2>1, <2>2 DEF Request
  <2>5. QED BY <1>0, <2>3, <2>4, SubmitTypes
<1>10. ASSUME NEW s \in Slots, NEW u \in Users, Retry(s, u) \/ Delta(s, u) PROVE TypeOK'
  <2> DEFINE now == [screen EXCEPT !.busy = u]
             r == IsRequest("retry", {u})
             shown == screen.jobs[u]
  <2>1. now \in Screen /\ shown \in Status
    BY <1>0 DEF Screen
  <2>2. r \in Request /\ IsRequest("delta", {u}) \in Request
    BY StartTypes
  <2>3. Submit(s, now, [r EXCEPT !.shown = shown]) \/ Submit(s, now, IsRequest("delta", {u}))
    BY <1>10 DEF Retry, Delta, Act
  <2> HIDE DEF now, r, shown
  <2>4. [r EXCEPT !.shown = shown] \in Request
    BY <2>1, <2>2 DEF Request
  <2>5. QED BY <1>0, <2>1, <2>2, <2>3, <2>4, SubmitTypes
<1>11. ASSUME NEW s \in Slots, Cancel(s) PROVE TypeOK'
  <2>1. screen.dialog \in Users
    BY <1>0, <1>11 DEF Cancel, Screen
  <2>2. [screen EXCEPT !.busy = screen.dialog] \in Screen
    BY <1>0, <2>1 DEF Screen
  <2>3. IsRequest("cancel", {screen.dialog}) \in Request
    BY <2>1, StartTypes
  <2>4. QED BY <1>0, <1>11, <2>2, <2>3, SubmitTypes DEF Cancel, Act
<1>12. ASSUME NEW s \in Slots, ServeQueue(s) PROVE TypeOK'
  <2> DEFINE r == wire[s]
             rows == [u \in Users |-> IF u \notin Changed(r) THEN queue.rows[u]
                                      ELSE IF r.kind = "patch" THEN Mapped(r.row) ELSE r.row]
             stage == IF r.kind = "import" /\ Changed(r) # r.users THEN "refused" ELSE "done"
             rev == queue.rev + 1
  <2>1. r \in Request
    BY <1>0, <1>12 DEF ServeQueue
  <2>2. rev \in 0 .. MaxRev
    BY <1>0, <1>12, Assumptions DEF ServeQueue, Queue
  <2>3. r.row \in Row /\ Mapped(r.row) \in Row
    <3>1. r.row \in Row
      BY <2>1 DEF Request
    <3> DEFINE row == r.row
    <3> HIDE DEF r
    <3>2. QED BY <3>1 DEF Mapped, Row
  <2>4. rows \in [Users -> Row \cup {None}]
    BY <1>0, <2>3 DEF Queue
  <2>5. queue' = [rows |-> rows, rev |-> rev]
    BY <1>12 DEF ServeQueue
  <2>6. queue' \in Queue
    <3> HIDE DEF rows, rev
    <3>1. QED BY <2>2, <2>4, <2>5 DEF Queue
  <2>7. Answered(s, [r EXCEPT !.rev = rev, !.stage = stage]) /\ UNCHANGED <<view, jobs, history>>
    BY <1>12 DEF ServeQueue
  <2>8. stage \in {"refused", "done"}
    OBVIOUS
  <2> HIDE DEF r, rev, stage, rows
  <2>9. [r EXCEPT !.rev = rev, !.stage = stage] \in Request
    BY <2>1, <2>2, <2>8 DEF Request
  <2>10. wire' \in [Slots -> Request \cup {None}]
    BY <1>0, <2>7, <2>9, AnsweredTypes
  <2>11. QED BY <1>0, <2>6, <2>7, <2>10 DEF TypeOK, view, history
<1>13. ASSUME NEW s \in Slots, NEW stage \in {"done", "refused", "lost"}, NEW met \in Status,
              wire[s] \in Request,
              \/ Answered(s, [wire[s] EXCEPT !.stage = stage])
              \/ Answered(s, [wire[s] EXCEPT !.stage = stage, !.met = met])
       PROVE  wire' \in [Slots -> Request \cup {None}]
  <2> DEFINE r == wire[s]
  <2>1. r \in Request
    BY <1>13
  <2>2. \/ Answered(s, [r EXCEPT !.stage = stage])
        \/ Answered(s, [r EXCEPT !.stage = stage, !.met = met])
    BY <1>13
  <2> HIDE DEF r
  <2>3. /\ [r EXCEPT !.stage = stage] \in Request
        /\ [r EXCEPT !.stage = stage, !.met = met] \in Request
    BY <2>1 DEF Request
  <2>4. QED BY <1>0, <2>2, <2>3, AnsweredTypes
<1>14. ASSUME NEW s \in Slots, ServeStart(s) PROVE TypeOK'
  <2>1. wire[s] \in Request /\ Answered(s, [wire[s] EXCEPT !.stage = "done"])
    BY <1>0, <1>14 DEF ServeStart
  <2>2. wire' \in [Slots -> Request \cup {None}]
    BY <1>13, <2>1 DEF Status
  <2>3. jobs' \in [Users -> Status]
    BY <1>0, <1>14 DEF ServeStart, Status
  <2>4. QED BY <1>0, <1>14, <2>2, <2>3 DEF ServeStart, TypeOK, view, history
<1>15. ASSUME NEW s \in Slots, ServeJob(s) PROVE TypeOK'
  <2>1. wire[s] \in Request
    BY <1>0, <1>15 DEF ServeJob
  <2>2. PICK u \in wire[s].users :
           LET refused == wire[s].kind = "retry" /\ jobs[u] \notin Retryable
           IN  /\ jobs' = IF refused THEN jobs
                          ELSE [jobs EXCEPT ![u] = IF wire[s].kind = "cancel" THEN "cancelled"
                                                   ELSE "active"]
               /\ Answered(s, IF refused THEN [wire[s] EXCEPT !.stage = "refused", !.met = jobs[u]]
                              ELSE [wire[s] EXCEPT !.stage = "done"])
    BY <1>15 DEF ServeJob
  <2>3. u \in Users /\ jobs[u] \in Status
    BY <1>0, <2>1 DEF Request
  <2>4. jobs' \in [Users -> Status]
    BY <1>0, <2>2 DEF Status
  <2>5. wire' \in [Slots -> Request \cup {None}]
    BY <1>13, <2>1, <2>2, <2>3
  <2>6. QED BY <1>0, <1>15, <2>4, <2>5 DEF ServeJob, TypeOK, view, history
<1>16. ASSUME NEW s \in Slots, Lose(s) PROVE TypeOK'
  <2>1. wire[s] \in Request /\ Answered(s, [wire[s] EXCEPT !.stage = "lost"])
    BY <1>0, <1>16 DEF Lose
  <2>2. wire' \in [Slots -> Request \cup {None}]
    BY <1>13, <2>1 DEF Status
  <2>3. QED BY <1>0, <1>16, <2>2 DEF Lose, TypeOK, view, server, history
<1>17. ASSUME NEW u \in Users, NEW status \in Status, EngineMoves(u, status) PROVE TypeOK'
  <2>1. jobs' \in [Users -> Status]
    BY <1>0, <1>17 DEF EngineMoves
  <2>2. QED BY <1>0, <1>17, <2>1 DEF EngineMoves, TypeOK, view, history
<1>18. ASSUME NEW u \in Users, Elsewhere(u) PROVE TypeOK'
  <2> DEFINE rows == [queue.rows EXCEPT ![u] = [status |-> "mapped", target |-> TRUE]]
  <2>1. rows \in [Users -> Row \cup {None}]
    BY <1>0 DEF Queue, Row
  <2>2. queue.rev + 1 \in 0 .. MaxRev
    BY <1>0, <1>18, Assumptions DEF Elsewhere, Queue
  <2>3. queue' = [rows |-> rows, rev |-> queue.rev + 1]
    BY <1>18 DEF Elsewhere
  <2>4. queue' \in Queue
    <3> HIDE DEF rows
    <3>1. QED BY <2>1, <2>2, <2>3 DEF Queue
  <2>5. QED BY <1>0, <1>18, <2>4 DEF Elsewhere, TypeOK, view, history
<1>19. ASSUME NEW s \in Slots, Receive(s) PROVE TypeOK'
  <2> DEFINE r == wire[s]
             now == Settled(r)
             reload == r.kind = "patch" /\ r.stage = "done"
  <2>1. r \in Request
    BY <1>0, <1>19 DEF Receive
  <2>2. now \in Screen
    BY <1>0, <2>1, SettledTypes
  <2>3. screen' = IF reload THEN [now EXCEPT !.loading = TRUE, !.error = FALSE] ELSE now
    BY <1>19 DEF Receive, Show
  <2>4. loads' \subseteq Load
    BY <1>0, <1>19, StartTypes, Assumptions DEF Receive, Aborted
  <2>5. wire' \in [Slots -> Request \cup {None}]
    BY <1>0, <1>19 DEF Receive, TypeOK
  <2>6. acked' \in 0 .. MaxRev
    BY <1>0, <1>19, <2>1 DEF Receive, TypeOK, Request
  <2> HIDE DEF now
  <2>7. screen' \in Screen
    BY <2>2, <2>3 DEF Screen
  <2>8. QED BY <1>0, <1>19, <2>4, <2>5, <2>6, <2>7 DEF Receive, TypeOK, server
<1>20. ASSUME NEW load \in loads, ReadQueue(load) PROVE TypeOK'
  <2>1. [load EXCEPT !.answer = queue] \in Load
    BY <1>0 DEF Load
  <2>2. QED BY <1>0, <1>20, <2>1 DEF ReadQueue, TypeOK, server, history
<1>21. ASSUME NEW load \in loads, ShowQueue(load) PROVE TypeOK'
  <2>1. load.answer # None => [screen EXCEPT !.queue = load.answer, !.loading = FALSE] \in Screen
    BY <1>0 DEF Screen, Load
  <2>2. [screen EXCEPT !.loading = FALSE, !.error = TRUE] \in Screen
    BY <1>0 DEF Screen
  <2>3. screen' \in Screen
    BY <1>21, <2>1, <2>2 DEF ShowQueue, Show
  <2>4. QED BY <1>0, <1>21, <2>3 DEF ShowQueue, TypeOK, server, history
<1>22. ASSUME NEW l \in Pollers, PollAnswers(l) \/ PollAsks(l) PROVE TypeOK'
  <2>1. /\ [screen EXCEPT !.jobs = jobs, !.loading = FALSE, !.error = FALSE] \in Screen
        /\ [screen EXCEPT !.loading = FALSE, !.error = TRUE] \in Screen
    BY <1>0 DEF Screen
  <2>2. screen' \in Screen
    BY <1>0, <1>22, <2>1 DEF PollAnswers, PollAsks, Show
  <2>3. polls' \in [Pollers -> Loop]
    <3>1. CASE PollAnswers(l)
      BY <1>0, <3>1, LoopTypes DEF PollAnswers, TypeOK
    <3>2. CASE PollAsks(l)
      <4> DEFINE loop == polls[l]
      <4>1. polls' = [polls EXCEPT ![l] = [loop EXCEPT !.at = "asking"]] /\ loop \in Loop
        BY <1>0, <3>2 DEF PollAsks
      <4> HIDE DEF loop
      <4>2. [loop EXCEPT !.at = "asking"] \in Loop
        BY <4>1 DEF Loop
      <4>3. QED BY <1>0, <4>1, <4>2 DEF TypeOK
    <3>3. QED BY <1>22, <3>1, <3>2
  <2>4. QED BY <1>0, <1>22, <2>2, <2>3 DEF PollAnswers, PollAsks, TypeOK, server, history
<1>23. ASSUME UNCHANGED vars PROVE TypeOK'
  BY <1>0, <1>23 DEF vars, view, server, history, TypeOK
<1>24. QED BY <1>0, <1>1, <1>2, <1>3, <1>4, <1>5, <1>6, <1>7, <1>8, <1>9, <1>10, <1>11, <1>12, <1>14,
             <1>15, <1>16, <1>17, <1>18, <1>19, <1>20, <1>21, <1>22, <1>23, NavigateTypes DEF Next

\* Who changes the page, the further pages and the loops.
LEMMA Frames ==
  ASSUME [Next]_vars, \A p \in Pages : ~Navigate(p)
  PROVE  /\ page' = page
         /\ more' = more \/ \E s \in Slots : LoadMore(s) \/ FurtherPage(s)
         /\ polls' = polls \/ \E l \in Pollers : PollAnswers(l) \/ PollAsks(l)
<1>1. CASE UNCHANGED vars
  BY <1>1 DEF vars, view
<1>2. ASSUME \/ \E q \in Queries : Apply(q)
             \/ AddThrows \/ CloseDialog
             \/ \E load \in loads : FirstPage(load) \/ ReadQueue(load) \/ ShowQueue(load)
      PROVE  UNCHANGED <<page, more, polls>>
  BY <1>2 DEF Apply, AddThrows, CloseDialog, FirstPage, ReadQueue, ShowQueue
<1>3. ASSUME NEW s \in Slots, LoadMore(s) \/ FurtherPage(s)
      PROVE  UNCHANGED <<page, polls>>
  BY <1>3 DEF LoadMore, FurtherPage
<1>4. ASSUME NEW s \in Slots, AddSelected(s) \/ Start(s) \/ Cancel(s)
      PROVE  UNCHANGED <<page, more, polls>>
  BY <1>4 DEF AddSelected, Start, Cancel, Act, Submit
<1>5. ASSUME NEW s \in Slots, ServeQueue(s) \/ ServeStart(s) \/ ServeJob(s) \/ Lose(s) \/ Receive(s)
      PROVE  UNCHANGED <<page, more, polls>>
  BY <1>5 DEF ServeQueue, ServeStart, ServeJob, Lose, Receive, view
<1>6. ASSUME NEW u \in Users,
             \/ Toggle(u) \/ OpenDialog(u) \/ Elsewhere(u)
             \/ \E status \in Status : EngineMoves(u, status)
             \/ \E s \in Slots : Retry(s, u) \/ Delta(s, u)
      PROVE  UNCHANGED <<page, more, polls>>
  BY <1>6 DEF Toggle, OpenDialog, Elsewhere, EngineMoves, Retry, Delta, Act, Submit, view
<1>7. ASSUME NEW s \in Slots,
             \/ \E u \in Users, status \in {"unmapped", "mapped", "auto_create"}, target \in BOOLEAN :
                   Map(s, u, status, target)
             \/ \E users \in SUBSET Users, auto \in BOOLEAN : Import(s, users, auto)
      PROVE  UNCHANGED <<page, more, polls>>
  BY <1>7 DEF Map, Import, Submit
<1>8. ASSUME NEW l \in Pollers, PollAnswers(l) \/ PollAsks(l)
      PROVE  UNCHANGED <<page, more>>
  BY <1>8 DEF PollAnswers, PollAsks
<1>9. QED BY <1>1, <1>2, <1>3, <1>4, <1>5, <1>6, <1>7, <1>8 DEF Next

\* Further pages stay where there is a listing.
LEMMA NextPages == PagesOnLists /\ [Next]_vars => PagesOnLists'
<1> SUFFICES ASSUME PagesOnLists, [Next]_vars PROVE PagesOnLists'
  OBVIOUS
<1>1. CASE \E p \in Pages : Navigate(p)
  BY <1>1 DEF Navigate, PagesOnLists
<1>2. CASE \A p \in Pages : ~Navigate(p)
  <2>1. page' = page
    BY <1>2, Frames
  <2>2. CASE more' = more
    BY <2>1, <2>2 DEF PagesOnLists
  <2>3. ASSUME NEW s \in Slots, LoadMore(s) \/ FurtherPage(s) PROVE PagesOnLists'
    <3>1. page \in Lists
      BY <2>3 DEF LoadMore, FurtherPage, PagesOnLists
    <3>2. QED BY <2>1, <3>1 DEF PagesOnLists
  <2>4. QED BY <1>2, <2>2, <2>3, Frames
<1>3. QED BY <1>1, <1>2

LEMMA TypesHold == Spec => []TypeInv
<1>1. Init => TypeInv
  BY InitTypes DEF TypeInv, Init, PagesOnLists
<1>2. TypeInv /\ [Next]_vars => TypeInv'
  BY NextTypes, NextPages DEF TypeInv
<1>3. QED BY <1>1, <1>2, PTL DEF Spec

\* Screens, requests, loops, queue and jobs keep their types.
THEOREM TypeCorrect == Spec => []TypeOK
<1>1. TypeInv => TypeOK
  BY DEF TypeInv
<1>2. QED BY <1>1, TypesHold, PTL

-------------------------------------------------------------------------------
(* One loop polls: leaving and entering the monitor stops what was there.  *)

LEMMA NextPolls == TypeInv /\ PollsAreOne /\ [Next]_vars => PollsAreOne'
<1> SUFFICES ASSUME TypeInv, PollsAreOne, [Next]_vars PROVE PollsAreOne'
  OBVIOUS
<1>0. /\ polls \in [Pollers -> Loop]
      /\ \A l \in Pollers : polls[l] \in Loop
  BY DEF TypeInv, TypeOK
<1>1. ASSUME NEW p \in Pages, Navigate(p) PROVE PollsAreOne'
  <2> DEFINE stopped == [l \in Pollers |-> Stop(polls[l])]
  <2>1. ASSUME NEW l \in Pollers PROVE stopped[l].at # "none" => stopped[l].stopped
    <3>1. Stop(polls[l]).at # "none" => Stop(polls[l]).stopped
      BY <1>0 DEF Stop, NoLoop, Loop
    <3>2. QED BY <3>1
  <2>2. \/ polls' = stopped
        \/ /\ page' = "monitor"
           /\ \E l \in Pollers : polls' = [stopped EXCEPT ![l] = [NoLoop EXCEPT !.at = "asking"]]
    BY <1>1 DEF Navigate
  <2>3. stopped = [l \in Pollers |-> stopped[l]]
    OBVIOUS
  <2> HIDE DEF stopped
  <2>4. QED BY <2>1, <2>2, <2>3 DEF PollsAreOne
<1>2. ASSUME \A p \in Pages : ~Navigate(p) PROVE PollsAreOne'
  <2>1. page' = page
    BY <1>2, Frames
  <2>2. CASE polls' = polls
    BY <2>1, <2>2 DEF PollsAreOne
  <2>3. ASSUME NEW l \in Pollers, PollAnswers(l) \/ PollAsks(l) PROVE PollsAreOne'
    <3> DEFINE loop == polls[l]
               waits == [loop EXCEPT !.at = "waiting"]
               asks == [loop EXCEPT !.at = "asking"]
    <3>1. /\ loop \in Loop /\ loop.at # "none"
          /\ polls' = [polls EXCEPT ![l] = NoLoop] \/ polls' = [polls EXCEPT ![l] = waits]
             \/ polls' = [polls EXCEPT ![l] = asks]
      BY <1>0, <2>3 DEF PollAnswers, PollAsks, Rearmed
    <3>2. waits.stopped = loop.stopped /\ asks.stopped = loop.stopped
      BY <3>1 DEF Loop
    <3>3. \A m \in Pollers : polls'[m].at # "none" /\ ~polls'[m].stopped
                              => polls[m].at # "none" /\ ~polls[m].stopped
      <4> HIDE DEF waits, asks
      <4> QED BY <1>0, <3>1, <3>2 DEF NoLoop, Loop
    <3>4. QED BY <2>1, <3>3 DEF PollsAreOne
  <2>4. QED BY <1>2, <2>2, <2>3, Frames
<1>3. QED BY <1>1, <1>2

\* However often the monitor is left and entered, one loop of poll() goes on.
THEOREM OnePoll == Spec => []PollsAreOne
<1>1. Init => PollsAreOne
  BY DEF Init, PollsAreOne, NoLoop
<1>2. QED BY <1>1, NextPolls, TypesHold, PTL DEF Spec

-------------------------------------------------------------------------------
(* What steps do to the requests that act. *)

\* The screen whose handlers send a request.
Sender(kind) ==
    IF kind \in {"add", "import"} THEN "discovery"
    ELSE IF kind \in {"patch", "start"} THEN "mapping" ELSE "monitor"

\* A click puts r on the wire.
Clicked(s, r) ==
    /\ wire[s] = None /\ wire' = [wire EXCEPT ![s] = r]
    /\ r.stage = "sent" /\ r.mine /\ r.rev = 0 /\ page = Sender(r.kind)
    /\ r.kind = "retry" => r.shown \in OffersRetry
    /\ r.kind = "import" => r.users # {}
    /\ UNCHANGED <<page, loads, server, history>>

\* An answer, or its loss, makes q of the request, which only a mounted screen gets.
Served(s, q) ==
    /\ wire[s] \in Request \ {None}
    /\ wire' = [wire EXCEPT ![s] = IF q.mine THEN q ELSE None]
    /\ q.kind = wire[s].kind /\ q.users = wire[s].users /\ q.mine = wire[s].mine
    /\ q.shown = wire[s].shown /\ q.stage # "sent"
    /\ q.stage = "refused" /\ q.kind = "retry" => q.met \notin Retryable
    /\ q.stage = "done" /\ q.kind = "import" => q.users = {}
    /\ \/ q.rev = wire[s].rev
       \/ q.rev = queue'.rev /\ q.kind \in {"add", "import", "patch"}
    /\ queue' = queue \/ queue'.rev = queue.rev + 1
    /\ UNCHANGED <<view, history>>

LEMMA ServedSteps ==
  ASSUME TypeInv, NEW s \in Slots, ServeQueue(s) \/ ServeStart(s) \/ ServeJob(s) \/ Lose(s)
  PROVE  \E q \in Request : Served(s, q)
<1>0. queue \in Queue /\ jobs \in [Users -> Status] /\ wire[s] \in Request \cup {None}
  BY DEF TypeInv, TypeOK
<1>1. wire[s] \in Request \ {None}
  BY <1>0 DEF ServeQueue, ServeStart, ServeJob, Lose
<1> DEFINE r == wire[s]
<1>2. CASE ServeQueue(s)
  <2> DEFINE stage == IF r.kind = "import" /\ Changed(r) # r.users THEN "refused" ELSE "done"
             rev == queue.rev + 1
             q == [r EXCEPT !.rev = rev, !.stage = stage]
  <2>1. Answered(s, q) /\ r.kind \in {"add", "import", "patch"} /\ UNCHANGED <<view, jobs, history>>
    BY <1>2 DEF ServeQueue
  <2>2. rev \in 0 .. MaxRev
    BY <1>0, <1>2, Assumptions DEF ServeQueue, Queue
  <2>3. queue'.rev = rev
    BY <1>2 DEF ServeQueue
  <2>4. r.kind = "import" => Changed(r) = {}
    BY DEF Changed, Accepted, AsJson
  <2>5. stage \in {"refused", "done"} /\ (stage = "done" /\ r.kind = "import" => r.users = {})
    BY <2>4
  <2>6. r = wire[s]
    OBVIOUS
  <2>7. queue'.rev = queue.rev + 1
    BY <2>3
  <2> HIDE DEF r, stage, rev
  <2>8. /\ q \in Request /\ q.kind = r.kind /\ q.users = r.users /\ q.mine = r.mine
        /\ q.shown = r.shown /\ q.stage = stage /\ q.rev = rev
    BY <1>1, <2>2, <2>5, <2>6 DEF Request
  <2> HIDE DEF q
  <2>9. wire' = [wire EXCEPT ![s] = IF q.mine THEN q ELSE None]
    BY <2>1 DEF Answered
  <2>10. Served(s, q)
    BY <1>1, <2>1, <2>3, <2>5, <2>6, <2>7, <2>8, <2>9 DEF Served
  <2>11. QED BY <2>8, <2>10
<1>3. CASE ServeStart(s) \/ Lose(s)
  <2> DEFINE stage == IF ServeStart(s) THEN "done" ELSE "lost"
             q == [r EXCEPT !.stage = stage]
  <2>1. /\ Answered(s, q) /\ (stage = "done" => r.kind = "start") /\ stage \in {"done", "lost"}
        /\ UNCHANGED <<view, queue, history>>
    BY <1>3 DEF ServeStart, Lose, server
  <2>2. r = wire[s]
    OBVIOUS
  <2> HIDE DEF r, stage
  <2>3. /\ q \in Request /\ q.kind = r.kind /\ q.users = r.users /\ q.mine = r.mine
        /\ q.shown = r.shown /\ q.stage = stage /\ q.rev = r.rev
    BY <1>1, <2>1, <2>2 DEF Request
  <2> HIDE DEF q
  <2>4. wire' = [wire EXCEPT ![s] = IF q.mine THEN q ELSE None]
    BY <2>1 DEF Answered
  <2>5. Served(s, q)
    BY <1>1, <2>1, <2>2, <2>3, <2>4 DEF Served
  <2>6. QED BY <2>3, <2>5
<1>4. CASE ServeJob(s)
  <2>1. PICK u \in r.users :
           Answered(s, IF r.kind = "retry" /\ jobs[u] \notin Retryable
                       THEN [r EXCEPT !.stage = "refused", !.met = jobs[u]]
                       ELSE [r EXCEPT !.stage = "done"])
    BY <1>4 DEF ServeJob
  <2> DEFINE refused == r.kind = "retry" /\ jobs[u] \notin Retryable
             met == jobs[u]
             q == IF refused THEN [r EXCEPT !.stage = "refused", !.met = met]
                  ELSE [r EXCEPT !.stage = "done"]
  <2>2. r = wire[s] /\ r.kind \in {"cancel", "retry", "delta"} /\ UNCHANGED <<view, queue, history>>
    BY <1>4 DEF ServeJob
  <2>3. met \in Status /\ (refused => met \notin Retryable)
    BY <1>0, <1>1 DEF Request
  <2>4. Answered(s, q)
    BY <2>1
  <2> HIDE DEF r, refused, met
  <2>5. /\ q \in Request /\ q.kind = r.kind /\ q.users = r.users /\ q.mine = r.mine
        /\ q.shown = r.shown /\ q.stage \in {"refused", "done"} /\ q.rev = r.rev
        /\ q.stage = "refused" => q.met \notin Retryable
    BY <1>1, <2>2, <2>3 DEF Request
  <2> HIDE DEF q
  <2>6. wire' = [wire EXCEPT ![s] = IF q.mine THEN q ELSE None]
    BY <2>4 DEF Answered
  <2>7. Served(s, q)
    BY <1>1, <2>2, <2>5, <2>6 DEF Served
  <2>8. QED BY <2>5, <2>7
<1>5. QED BY <1>2, <1>3, <1>4

\* What a click shows at once: the flag of its button.
Flagged(r) ==
    \/ r.kind = "add" /\ screen' = [screen EXCEPT !.adding = TRUE]
    \/ r.kind = "start" /\ screen' = [screen EXCEPT !.starting = TRUE]
    \/ /\ r.kind \in {"cancel", "retry", "delta"}
       /\ \E u \in Users : r.users = {u} /\ screen' = [screen EXCEPT !.busy = u]
    \/ screen' = screen

LEMMA ClickSteps ==
  ASSUME TypeInv, NEW s \in Slots,
         \/ AddSelected(s) \/ Start(s) \/ Cancel(s)
         \/ \E u \in Users : Retry(s, u) \/ Delta(s, u)
         \/ \E u \in Users, status \in {"unmapped", "mapped", "auto_create"}, target \in BOOLEAN :
               Map(s, u, status, target)
         \/ \E users \in SUBSET Users, auto \in BOOLEAN : Import(s, users, auto)
  PROVE  \E r \in Request : Clicked(s, r) /\ Flagged(r)
<1>0. screen \in Screen
  BY DEF TypeInv, TypeOK
<1>1. CASE AddSelected(s)
  <2>1. IsRequest("add", screen.selection) \in Request
    BY <1>0, StartTypes DEF Screen
  <2>2. QED
    BY <1>1, <2>1 DEF AddSelected, CanAdd, Submit, Show, Clicked, Flagged, IsRequest, Sender
<1>2. CASE Start(s)
  <2>1. IsRequest("start", Ready) \in Request
    BY StartTypes DEF Ready
  <2>2. QED BY <1>2, <2>1 DEF Start, Submit, Show, Clicked, Flagged, IsRequest, Sender
<1>3. CASE Cancel(s)
  <2>1. screen.dialog \in Users
    BY <1>0, <1>3 DEF Cancel, Screen
  <2>2. IsRequest("cancel", {screen.dialog}) \in Request
    BY <2>1, StartTypes
  <2>3. QED
    BY <1>3, <2>1, <2>2 DEF Cancel, Act, Submit, Show, Clicked, Flagged, IsRequest, Sender
<1>4. ASSUME NEW u \in Users, Retry(s, u) PROVE \E r \in Request : Clicked(s, r) /\ Flagged(r)
  <2> DEFINE shown == screen.jobs[u]
             sent == IsRequest("retry", {u})
             r == [sent EXCEPT !.shown = shown]
  <2>1. shown \in Status /\ shown \in OffersRetry
    BY <1>0, <1>4 DEF Retry, Screen
  <2>2. Submit(s, [screen EXCEPT !.busy = u], r) /\ page = "monitor"
    BY <1>4 DEF Retry
  <2>3. /\ sent \in Request /\ sent.kind = "retry" /\ sent.users = {u}
        /\ sent.stage = "sent" /\ sent.mine /\ sent.rev = 0
    BY StartTypes DEF IsRequest
  <2> HIDE DEF shown, sent
  <2>4. /\ r \in Request /\ r.kind = "retry" /\ r.users = {u} /\ r.shown = shown
        /\ r.stage = "sent" /\ r.mine /\ r.rev = 0
    BY <2>1, <2>3 DEF Request
  <2> HIDE DEF r
  <2>5. QED BY <2>1, <2>2, <2>4 DEF Submit, Show, Clicked, Flagged, Sender
<1>5. ASSUME NEW u \in Users, Delta(s, u) PROVE \E r \in Request : Clicked(s, r) /\ Flagged(r)
  <2>1. IsRequest("delta", {u}) \in Request
    BY StartTypes
  <2>2. QED BY <1>5, <2>1 DEF Delta, Act, Submit, Show, Clicked, Flagged, IsRequest, Sender
<1>6. ASSUME NEW kind \in {"patch", "import"}, NEW users \in SUBSET Users, NEW row \in Row,
             Submit(s, screen, [IsRequest(kind, users) EXCEPT !.row = row]),
             page = Sender(kind), kind = "import" => users # {}
      PROVE  \E r \in Request : Clicked(s, r) /\ Flagged(r)
  <2> DEFINE sent == IsRequest(kind, users)
             r == [sent EXCEPT !.row = row]
  <2>1. Submit(s, screen, r)
    BY <1>6
  <2>2. /\ sent \in Request /\ sent.kind = kind /\ sent.users = users
        /\ sent.stage = "sent" /\ sent.mine /\ sent.rev = 0
    BY StartTypes DEF IsRequest
  <2> HIDE DEF sent
  <2>3. /\ r \in Request /\ r.kind = kind /\ r.users = users
        /\ r.stage = "sent" /\ r.mine /\ r.rev = 0
    BY <2>2 DEF Request
  <2> HIDE DEF r
  <2>4. QED BY <1>6, <2>1, <2>3 DEF Submit, Show, Clicked, Flagged
<1>7. ASSUME NEW u \in Users, NEW status \in {"unmapped", "mapped", "auto_create"},
             NEW target \in BOOLEAN, Map(s, u, status, target)
      PROVE  \E r \in Request : Clicked(s, r) /\ Flagged(r)
  <2> DEFINE row == [status |-> status, target |-> target]
  <2>1. row \in Row
    BY DEF Row
  <2>2. page = Sender("patch")
    BY <1>7 DEF Map, Listed, Sender
  <2>3. Submit(s, screen, [IsRequest("patch", {u}) EXCEPT !.row = row])
    BY <1>7 DEF Map
  <2> HIDE DEF row
  <2>4. QED BY <1>6, <2>1, <2>2, <2>3
<1>8. ASSUME NEW users \in SUBSET Users, NEW auto \in BOOLEAN, Import(s, users, auto)
      PROVE  \E r \in Request : Clicked(s, r) /\ Flagged(r)
  <2> DEFINE row == [status |-> IF auto THEN "auto_create" ELSE "mapped", target |-> TRUE]
  <2>1. row \in Row
    BY DEF Row
  <2>2. page = Sender("import") /\ users # {}
    BY <1>8 DEF Import, Sender
  <2>3. Submit(s, screen, [IsRequest("import", users) EXCEPT !.row = row])
    BY <1>8 DEF Import
  <2> HIDE DEF row
  <2>4. QED BY <1>6, <2>1, <2>2, <2>3
<1>9. QED BY <1>1, <1>2, <1>3, <1>4, <1>5, <1>7, <1>8

\* Nothing else than these touches the requests that act.
LEMMA WireSteps ==
  ASSUME TypeInv, [Next]_vars
  PROVE  \/ wire' = wire
         \/ \E p \in Pages : Navigate(p)
         \/ \E s \in Slots, r \in Request : Clicked(s, r) \/ Served(s, r)
         \/ \E s \in Slots : Receive(s)
<1>1. CASE UNCHANGED vars
  BY <1>1 DEF vars
<1>2. ASSUME \/ \E q \in Queries : Apply(q)
             \/ AddThrows \/ CloseDialog
             \/ \E load \in loads : FirstPage(load) \/ ReadQueue(load) \/ ShowQueue(load)
             \/ \E s \in Slots : LoadMore(s) \/ FurtherPage(s)
             \/ \E l \in Pollers : PollAnswers(l) \/ PollAsks(l)
      PROVE  wire' = wire
  BY <1>2 DEF Apply, AddThrows, CloseDialog, FirstPage, ReadQueue, ShowQueue, LoadMore,
              FurtherPage, PollAnswers, PollAsks
<1>3. ASSUME NEW u \in Users,
             \/ Toggle(u) \/ OpenDialog(u) \/ Elsewhere(u)
             \/ \E status \in Status : EngineMoves(u, status)
      PROVE  wire' = wire
  BY <1>3 DEF Toggle, OpenDialog, Elsewhere, EngineMoves
<1>4. QED BY <1>1, <1>2, <1>3, ClickSteps, ServedSteps DEF Next

\* What leaving a screen leaves of a request.
LEMMA OrphanFields ==
  ASSUME NEW r \in Request, Orphaned(r) # None
  PROVE  /\ Orphaned(r).kind = r.kind /\ Orphaned(r).users = r.users /\ Orphaned(r).rev = r.rev
         /\ Orphaned(r).stage = "sent" /\ ~Orphaned(r).mine
<1> DEFINE o == [r EXCEPT !.mine = FALSE, !.shown = "none"]
<1>1. /\ o.kind = r.kind /\ o.users = r.users /\ o.rev = r.rev /\ o.stage = r.stage /\ ~o.mine
  BY DEF Request
<1>2. Orphaned(r) = o /\ r.stage = "sent"
  BY DEF Orphaned
<1>3. QED BY <1>1, <1>2

-------------------------------------------------------------------------------
(* Retries: what is refused met a job that is not failed.                  *)

RetryInv ==
    \A s \in Slots : wire[s] # None /\ wire[s].kind = "retry" =>
        /\ wire[s].mine => wire[s].shown \in OffersRetry
        /\ wire[s].stage # "sent" => wire[s].mine
        /\ wire[s].stage = "refused" => wire[s].met \notin Retryable

LEMMA NextRetries == TypeInv /\ RetryInv /\ [Next]_vars => RetryInv'
<1> SUFFICES ASSUME TypeInv, RetryInv, [Next]_vars PROVE RetryInv'
  OBVIOUS
<1>0. wire \in [Slots -> Request \cup {None}]
  BY DEF TypeInv, TypeOK
<1>1. CASE wire' = wire
  BY <1>1 DEF RetryInv
<1>2. ASSUME NEW p \in Pages, Navigate(p) PROVE RetryInv'
  <2>1. \A s \in Slots : wire'[s] = Orphaned(wire[s])
    BY <1>2 DEF Navigate
  <2>2. ASSUME NEW s \in Slots, wire'[s] # None PROVE wire'[s].stage = "sent" /\ ~wire'[s].mine
    <3>1. wire[s] \in Request /\ Orphaned(wire[s]) # None
      BY <1>0, <2>1, <2>2 DEF Orphaned
    <3>2. QED BY <2>1, <3>1, OrphanFields
  <2>3. QED BY <2>2 DEF RetryInv
<1>3. ASSUME NEW s \in Slots, NEW r \in Request, Clicked(s, r) \/ Served(s, r) PROVE RetryInv'
  <2>1. ASSUME Clicked(s, r) PROVE RetryInv'
    <3>1. /\ wire' = [wire EXCEPT ![s] = r] /\ r.stage = "sent"
          /\ r.kind = "retry" => r.shown \in OffersRetry
      BY <2>1 DEF Clicked
    <3>2. QED BY <1>0, <3>1 DEF RetryInv
  <2>2. ASSUME Served(s, r) PROVE RetryInv'
    <3>1. /\ wire' = [wire EXCEPT ![s] = IF r.mine THEN r ELSE None] /\ wire[s] # None
          /\ r.kind = wire[s].kind /\ r.mine = wire[s].mine /\ r.shown = wire[s].shown
          /\ r.stage = "refused" /\ r.kind = "retry" => r.met \notin Retryable
      BY <2>2 DEF Served
    <3>2. QED BY <1>0, <3>1 DEF RetryInv
  <2>3. QED BY <1>3, <2>1, <2>2
<1>4. ASSUME NEW s \in Slots, Receive(s) PROVE RetryInv'
  <2>1. wire' = [wire EXCEPT ![s] = None]
    BY <1>4 DEF Receive
  <2>2. QED BY <1>0, <2>1 DEF RetryInv
<1>5. QED BY <1>1, <1>2, <1>3, <1>4, WireSteps

\* A retry that the monitor offers is refused only when the job has moved on, or was
\* cancelled.
THEOREM RetriesRefused == Spec => []RefusedOnlyWhenMoved
<1>1. Init => RetryInv
  BY DEF Init, RetryInv
<1>2. RetryInv => RefusedOnlyWhenMoved
  BY DEF RetryInv, RefusedOnlyWhenMoved, OffersRetry, Retryable
<1>3. QED BY <1>1, <1>2, NextRetries, TypesHold, PTL DEF Spec

-------------------------------------------------------------------------------
(* The mapping list: no answer that it takes is older than what the tab    *)
(* was told, because every acknowledged change aborts what was asked.      *)

\* Requests belong to the screen that sent them, and carry changes made by now.
SentInv ==
    \A s \in Slots : wire[s] # None =>
        /\ wire[s].rev <= queue.rev
        /\ wire[s].kind \notin {"add", "import", "patch"} => wire[s].rev = 0
        /\ wire[s].mine => page = Sender(wire[s].kind)
        /\ wire[s].stage # "sent" => wire[s].mine

ListInv ==
    /\ acked <= queue.rev
    /\ page = "mapping" =>
          /\ \A load \in loads : load.answer # None => acked <= load.answer.rev
          /\ ~screen.loading /\ ~screen.error => acked <= screen.queue.rev

\* The queue changes forward.
LEMMA QueueSteps ==
  ASSUME TypeInv, [Next]_vars
  PROVE  queue.rev \in Nat /\ queue'.rev \in Nat /\ queue.rev <= queue'.rev
<1>0. queue \in Queue /\ queue' \in Queue
  BY NextTypes DEF TypeInv, TypeOK
<1>1. queue.rev \in Nat /\ queue'.rev \in Nat
  BY <1>0, Assumptions DEF Queue
<1>2. CASE queue' = queue
  BY <1>1, <1>2
<1>3. ASSUME NEW s \in Slots, ServeQueue(s) PROVE queue'.rev = queue.rev + 1
  BY <1>3 DEF ServeQueue
<1>4. ASSUME NEW u \in Users, Elsewhere(u) PROVE queue'.rev = queue.rev + 1
  BY <1>4 DEF Elsewhere
<1>5. ASSUME \/ UNCHANGED vars
             \/ \E p \in Pages : Navigate(p)
             \/ \E q \in Queries : Apply(q)
             \/ AddThrows \/ CloseDialog
             \/ \E load \in loads : FirstPage(load) \/ ReadQueue(load) \/ ShowQueue(load)
             \/ \E s \in Slots : LoadMore(s) \/ FurtherPage(s) \/ Receive(s)
             \/ \E l \in Pollers : PollAnswers(l) \/ PollAsks(l)
      PROVE  queue' = queue
  BY <1>5 DEF vars, server, Navigate, Apply, AddThrows, CloseDialog, FirstPage, ReadQueue,
              ShowQueue, LoadMore, FurtherPage, Receive, PollAnswers, PollAsks
<1>6. ASSUME \/ \E s \in Slots : ServeStart(s) \/ ServeJob(s) \/ Lose(s)
             \/ \E u \in Users : Toggle(u) \/ OpenDialog(u)
             \/ \E u \in Users, status \in Status : EngineMoves(u, status)
      PROVE  queue' = queue
  BY <1>6 DEF server, ServeStart, ServeJob, Lose, Toggle, OpenDialog, EngineMoves
<1>7. ASSUME NEW s \in Slots, NEW r \in Request, Clicked(s, r) PROVE queue' = queue
  BY <1>7 DEF Clicked, server
<1>8. QED BY <1>1, <1>2, <1>3, <1>4, <1>5, <1>6, <1>7, ClickSteps DEF Next

LEMMA NextSent == TypeInv /\ SentInv /\ [Next]_vars => SentInv'
<1> SUFFICES ASSUME TypeInv, SentInv, [Next]_vars PROVE SentInv'
  OBVIOUS
<1>0. wire \in [Slots -> Request \cup {None}]
  BY DEF TypeInv, TypeOK
<1>1. queue.rev \in Nat /\ queue'.rev \in Nat /\ queue.rev <= queue'.rev
  BY QueueSteps
<1>2. \A r \in Request : r.rev \in Nat
  BY Assumptions DEF Request
<1>3. ASSUME NEW p \in Pages, Navigate(p) PROVE SentInv'
  <2>1. \A s \in Slots : wire'[s] = Orphaned(wire[s])
    BY <1>3 DEF Navigate
  <2>2. ASSUME NEW s \in Slots, wire'[s] # None
        PROVE  /\ wire'[s].stage = "sent" /\ ~wire'[s].mine
               /\ wire'[s].rev = wire[s].rev /\ wire'[s].kind = wire[s].kind
               /\ wire[s] \in Request \ {None}
    <3>1. wire[s] \in Request \ {None} /\ Orphaned(wire[s]) # None
      BY <1>0, <2>1, <2>2 DEF Orphaned
    <3>2. QED BY <2>1, <3>1, OrphanFields
  <2>3. QED BY <1>1, <1>2, <2>2 DEF SentInv
<1>4. ASSUME \A p \in Pages : ~Navigate(p) PROVE SentInv'
  <2>1. page' = page
    BY <1>4, Frames
  <2>2. CASE wire' = wire
    BY <1>0, <1>1, <1>2, <2>1, <2>2 DEF SentInv
  <2>3. ASSUME NEW s \in Slots, NEW r \in Request, Clicked(s, r) PROVE SentInv'
    <3>1. /\ wire' = [wire EXCEPT ![s] = r] /\ r.stage = "sent" /\ r.rev = 0
          /\ page = Sender(r.kind)
      BY <2>3 DEF Clicked
    <3>2. ASSUME NEW t \in Slots, t # s PROVE wire'[t] = wire[t]
      BY <1>0, <3>1, <3>2
    <3>3. wire'[s] = r
      BY <1>0, <3>1
    <3>4. QED BY <1>0, <1>1, <1>2, <2>1, <3>1, <3>2, <3>3 DEF SentInv
  <2>4. ASSUME NEW s \in Slots, NEW r \in Request, Served(s, r) PROVE SentInv'
    <3>1. /\ wire' = [wire EXCEPT ![s] = IF r.mine THEN r ELSE None]
          /\ wire[s] \in Request \ {None} /\ r.kind = wire[s].kind /\ r.mine = wire[s].mine
          /\ \/ r.rev = wire[s].rev
             \/ r.rev = queue'.rev /\ r.kind \in {"add", "import", "patch"}
      BY <2>4 DEF Served
    <3>2. ASSUME NEW t \in Slots, t # s PROVE wire'[t] = wire[t]
      BY <1>0, <3>1, <3>2
    <3>3. wire'[s] = IF r.mine THEN r ELSE None
      BY <1>0, <3>1
    <3>4. QED BY <1>0, <1>1, <1>2, <2>1, <3>1, <3>2, <3>3 DEF SentInv
  <2>5. ASSUME NEW s \in Slots, Receive(s) PROVE SentInv'
    <3>1. wire' = [wire EXCEPT ![s] = None]
      BY <2>5 DEF Receive
    <3>2. QED BY <1>0, <1>1, <1>2, <2>1, <3>1 DEF SentInv
  <2>6. QED BY <1>4, <2>2, <2>3, <2>4, <2>5, WireSteps
<1>5. QED BY <1>3, <1>4

\* Answers to requests that act leave the list and its flags alone.
LEMMA SettledKeeps ==
  ASSUME TypeInv, NEW r \in Request
  PROVE  /\ Settled(r).queue = screen.queue
         /\ Settled(r).loading = screen.loading /\ Settled(r).error = screen.error
         /\ Settled(r).query = screen.query /\ Settled(r).items = screen.items
         /\ Settled(r).cursor = screen.cursor
  BY DEF TypeInv, TypeOK, Screen, Settled

\* The lists and their flags stay as they are.
Quiet ==
    /\ UNCHANGED <<loads, acked, mixed>>
    /\ screen'.query = screen.query /\ screen'.items = screen.items
    /\ screen'.cursor = screen.cursor /\ screen'.queue = screen.queue
    /\ screen'.loading = screen.loading /\ screen'.error = screen.error

\* What is no navigation, answer, or new query leaves the lists alone.
LEMMA QuietSteps ==
  ASSUME TypeInv, [Next]_vars,
         \A p \in Pages : ~Navigate(p), \A q \in Queries : ~Apply(q),
         \A s \in Slots : ~Receive(s) /\ ~FurtherPage(s),
         \A load \in loads : ~FirstPage(load) /\ ~ReadQueue(load) /\ ~ShowQueue(load),
         \A l \in Pollers : ~PollAnswers(l)
  PROVE  Quiet
<1>0. screen \in Screen
  BY DEF TypeInv, TypeOK
<1>1. CASE UNCHANGED vars
  BY <1>1 DEF vars, view, history, Quiet
<1>2. ASSUME \/ AddThrows \/ CloseDialog
             \/ \E u \in Users : Toggle(u) \/ OpenDialog(u)
      PROVE  Quiet
  BY <1>0, <1>2 DEF AddThrows, CloseDialog, Toggle, OpenDialog, Show, history, Screen, Quiet
<1>3. ASSUME \/ \E u \in Users : Elsewhere(u)
             \/ \E u \in Users, status \in Status : EngineMoves(u, status)
             \/ \E l \in Pollers : PollAsks(l)
             \/ \E s \in Slots : LoadMore(s)
      PROVE  Quiet
  BY <1>3 DEF Elsewhere, EngineMoves, PollAsks, LoadMore, view, history, Quiet
<1>4. ASSUME NEW s \in Slots, NEW r \in Request, Clicked(s, r), Flagged(r)
      PROVE  Quiet
  BY <1>0, <1>4 DEF Clicked, Flagged, history, Screen, Quiet
<1>5. ASSUME NEW s \in Slots, NEW r \in Request, Served(s, r)
      PROVE  Quiet
  BY <1>5 DEF Served, view, history, Quiet
<1>6. QED BY <1>1, <1>2, <1>3, <1>4, <1>5, ClickSteps, ServedSteps DEF Next

\* What the tab was told changes with an answer only.
LEMMA AckSteps ==
  ASSUME TypeInv, [Next]_vars
  PROVE  \/ acked' = acked
         \/ \E s \in Slots : Receive(s)
<1>1. ASSUME \/ \E p \in Pages : Navigate(p)
             \/ \E q \in Queries : Apply(q)
             \/ \E s \in Slots : FurtherPage(s)
             \/ \E load \in loads : FirstPage(load) \/ ReadQueue(load) \/ ShowQueue(load)
             \/ \E l \in Pollers : PollAnswers(l)
      PROVE  acked' = acked
  BY <1>1 DEF Navigate, Apply, FurtherPage, FirstPage, ReadQueue, ShowQueue, PollAnswers, history
<1>2. Quiet => acked' = acked
  BY DEF Quiet
<1>3. QED BY <1>1, <1>2, QuietSteps

\* An answer: what it does to the list and to what the tab was told.
LEMMA ReceiveSteps ==
  ASSUME TypeInv, NEW s \in Slots, Receive(s)
  PROVE  /\ wire[s] \in Request \ {None} /\ wire[s].stage # "sent"
         /\ acked' = acked \/ (acked' = wire[s].rev /\ wire[s].stage = "done")
         /\ UNCHANGED <<page, queue, mixed>>
         /\ screen'.queue = screen.queue
         /\ screen'.query = screen.query /\ screen'.items = screen.items
         /\ screen'.cursor = screen.cursor
         /\ IF wire[s].kind = "patch" /\ wire[s].stage = "done"
            THEN loads' = {IsLoad(All)} /\ screen'.loading
            ELSE /\ loads' = loads
                 /\ screen'.loading = screen.loading /\ screen'.error = screen.error
<1> DEFINE r == wire[s]
           now == Settled(r)
<1>1. r \in Request \ {None} /\ r.stage # "sent"
  BY DEF Receive, TypeInv, TypeOK
<1>2. now \in Screen
  BY <1>1, SettledTypes DEF TypeInv
<1>3. /\ now.queue = screen.queue /\ now.loading = screen.loading /\ now.error = screen.error
      /\ now.query = screen.query /\ now.items = screen.items /\ now.cursor = screen.cursor
  BY <1>1, SettledKeeps
<1>4. /\ acked' = acked \/ (acked' = r.rev /\ r.stage = "done")
      /\ UNCHANGED <<page, queue, mixed>>
  BY DEF Receive, server
<1>5. IF r.kind = "patch" /\ r.stage = "done"
      THEN loads' = {IsLoad(All)} /\ screen' = [now EXCEPT !.loading = TRUE, !.error = FALSE]
      ELSE loads' = loads /\ screen' = now
  BY DEF Receive, Show, Aborted
<1>6. r = wire[s]
  OBVIOUS
<1> HIDE DEF now, r
<1>7. /\ screen'.queue = screen.queue
      /\ screen'.query = screen.query /\ screen'.items = screen.items
      /\ screen'.cursor = screen.cursor
      /\ IF r.kind = "patch" /\ r.stage = "done"
         THEN screen'.loading
         ELSE screen'.loading = screen.loading /\ screen'.error = screen.error
  <2>1. CASE ~(r.kind = "patch" /\ r.stage = "done")
    BY <1>3, <1>5, <2>1
  <2>2. CASE r.kind = "patch" /\ r.stage = "done"
    <3>1. /\ screen'.queue = now.queue /\ screen'.query = now.query /\ screen'.items = now.items
          /\ screen'.cursor = now.cursor /\ screen'.loading
      BY <1>2, <1>5, <2>2 DEF Screen
    <3>2. QED BY <1>3, <2>2, <3>1
  <2>3. QED BY <2>1, <2>2
<1>8. QED BY <1>1, <1>4, <1>5, <1>6, <1>7

LEMMA NextList == TypeInv /\ SentInv /\ ListInv /\ [Next]_vars => ListInv'
<1> SUFFICES ASSUME TypeInv, SentInv, ListInv, [Next]_vars PROVE ListInv'
  OBVIOUS
<1>0. /\ screen \in Screen /\ queue \in Queue /\ acked \in Nat
      /\ \A load \in loads : load \in Load
  BY Assumptions DEF TypeInv, TypeOK
<1>1. queue.rev \in Nat /\ queue'.rev \in Nat /\ queue.rev <= queue'.rev
  BY QueueSteps
<1>2. \A s \in Slots : Receive(s) => acked' \in Nat /\ acked' <= queue'.rev
  <2>1. ASSUME NEW s \in Slots, Receive(s) PROVE acked' \in Nat /\ acked' <= queue'.rev
    <3>1. /\ wire[s] \in Request \ {None} /\ (acked' = acked \/ acked' = wire[s].rev)
          /\ queue' = queue
      BY <2>1, ReceiveSteps
    <3>2. wire[s].rev \in Nat /\ wire[s].rev <= queue.rev
      BY <3>1, Assumptions DEF SentInv, Request
    <3>3. QED BY <1>0, <3>1, <3>2 DEF ListInv
  <2>2. QED BY <2>1
<1>3. acked' \in Nat /\ acked' <= queue'.rev
  BY <1>0, <1>1, <1>2, AckSteps DEF ListInv
<1> DEFINE ListPart == page = "mapping" =>
              /\ \A load \in loads : load.answer # None => acked <= load.answer.rev
              /\ ~screen.loading /\ ~screen.error => acked <= screen.queue.rev
<1>4. ListInv' = (acked' <= queue'.rev /\ ListPart') /\ ListPart
  BY DEF ListInv
<1> SUFFICES ListPart'
  BY <1>3, <1>4
<1>5. ASSUME NEW p \in Pages, Navigate(p) PROVE ListPart'
  BY <1>5 DEF Navigate, IsLoad, Mounted
<1>6. ASSUME NEW load \in loads, ReadQueue(load) PROVE ListPart'
  <2>1. [load EXCEPT !.answer = queue].answer = queue
    BY <1>0 DEF Load
  <2>2. /\ loads' = (loads \ {load}) \cup {[load EXCEPT !.answer = queue]}
        /\ UNCHANGED <<page, screen, acked>>
    BY <1>6 DEF ReadQueue, history
  <2>3. acked <= queue.rev
    BY DEF ListInv
  <2>4. QED BY <1>4, <2>1, <2>2, <2>3
<1>7. ASSUME NEW load \in loads, ShowQueue(load) PROVE ListPart'
  <2> DEFINE answer == load.answer
  <2>1. /\ page = "mapping" /\ loads' = loads \ {load} /\ UNCHANGED <<page, acked>>
        /\ \/ answer # None /\ screen' = [screen EXCEPT !.queue = answer, !.loading = FALSE]
           \/ screen' = [screen EXCEPT !.loading = FALSE, !.error = TRUE]
    BY <1>7 DEF ShowQueue, Show, history
  <2>2. page = "mapping" /\ answer # None => acked <= answer.rev
    BY <1>4
  <2> HIDE DEF answer
  <2>3. screen'.error \/ (screen'.queue = answer /\ answer # None)
    BY <1>0, <2>1 DEF Screen
  <2>4. QED BY <1>4, <2>1, <2>2, <2>3
<1>8. ASSUME NEW s \in Slots, Receive(s) PROVE ListPart'
  <2>1. page' = page
    BY <1>8, ReceiveSteps
  <2>2. CASE page # "mapping"
    BY <2>1, <2>2
  <2>3. CASE page = "mapping" /\ wire[s].kind = "patch" /\ wire[s].stage = "done"
    BY <1>8, <2>3, ReceiveSteps DEF IsLoad
  <2>4. CASE page = "mapping" /\ ~(wire[s].kind = "patch" /\ wire[s].stage = "done")
    <3>1. wire[s] # None /\ wire[s].stage # "sent"
      BY <1>8, ReceiveSteps
    <3>2. page = Sender(wire[s].kind)
      BY <3>1 DEF SentInv
    <3>3. wire[s].stage = "done" => wire[s].rev = 0
      BY <2>4, <3>1, <3>2 DEF SentInv, Sender
    <3>4. /\ loads' = loads /\ screen'.queue = screen.queue
          /\ screen'.loading = screen.loading /\ screen'.error = screen.error
      BY <1>8, <2>4, ReceiveSteps
    <3>5. acked' = acked
      BY <1>0, <1>8, <3>3 DEF Receive
    <3>6. QED BY <1>4, <2>1, <3>4, <3>5
  <2>5. QED BY <2>2, <2>3, <2>4
<1>9. ASSUME \/ \E q \in Queries : Apply(q)
             \/ \E s \in Slots : FurtherPage(s)
             \/ \E load \in loads : FirstPage(load)
      PROVE  ListPart'
  <2>1. page \in Lists /\ page' = page
    BY <1>9 DEF Apply, FurtherPage, FirstPage, TypeInv, PagesOnLists
  <2>2. QED BY <2>1 DEF Lists
<1>10. ASSUME NEW l \in Pollers, PollAnswers(l) PROVE ListPart'
  <2>1. /\ page' = page /\ loads' = loads /\ acked' = acked
        /\ page = "monitor" \/ screen' = screen
    BY <1>10 DEF PollAnswers, history
  <2>2. QED BY <1>4, <2>1
<1>11. ASSUME Quiet, \A p \in Pages : ~Navigate(p) PROVE ListPart'
  <2>1. page' = page
    BY <1>11, Frames
  <2>2. QED BY <1>4, <1>11, <2>1 DEF Quiet
<1> HIDE DEF ListPart
<1>12. QED BY <1>5, <1>6, <1>7, <1>8, <1>9, <1>10, <1>11, QuietSteps

\* The mapping screen is not older than any change of the queue that the tab was told of.
THEOREM OwnChangesShown == Spec => []ShowsOwnChanges
<1>1. Init => SentInv /\ ListInv
  BY DEF Init, SentInv, ListInv
<1>2. TypeInv /\ ListInv => ShowsOwnChanges
  <2> SUFFICES ASSUME TypeInv, ListInv PROVE ShowsOwnChanges
    OBVIOUS
  <2>1. acked \in Nat /\ screen.queue.rev \in Nat
    BY Assumptions DEF TypeInv, TypeOK, Screen, Queue
  <2>2. QED BY <2>1 DEF ListInv, ShowsOwnChanges
<1>3. QED BY <1>1, <1>2, NextSent, NextList, TypesHold, PTL DEF Spec

-------------------------------------------------------------------------------
(* Buttons that spin: the flag is set with the request and cleared with    *)
(* its answer.  No answer to an import clears or sets the flag of another  *)
(* button, because no import is answered without rejected rows.            *)

Waits(s, kinds) == wire[s] # None /\ wire[s].mine /\ wire[s].kind \in kinds
JobKinds == {"cancel", "retry", "delta"}

SpinInv ==
    /\ screen.adding => threw \/ \E s \in Slots : Waits(s, {"add"})
    /\ screen.starting => \E s \in Slots : Waits(s, {"start"})
    /\ screen.busy # None => \E s \in Slots : Waits(s, JobKinds) /\ wire[s].users = {screen.busy}

ImportInv ==
    \A s \in Slots : wire[s] # None /\ wire[s].kind = "import"
                      => wire[s].users # {} /\ wire[s].stage # "done"

LEMMA NextImports == TypeInv /\ ImportInv /\ [Next]_vars => ImportInv'
<1> SUFFICES ASSUME TypeInv, ImportInv, [Next]_vars PROVE ImportInv'
  OBVIOUS
<1>0. wire \in [Slots -> Request \cup {None}]
  BY DEF TypeInv, TypeOK
<1>1. CASE wire' = wire
  BY <1>1 DEF ImportInv
<1>2. ASSUME NEW p \in Pages, Navigate(p) PROVE ImportInv'
  <2>1. \A s \in Slots : wire'[s] = Orphaned(wire[s])
    BY <1>2 DEF Navigate
  <2>2. ASSUME NEW s \in Slots, wire'[s] # None
        PROVE  /\ wire'[s].stage = "sent" /\ wire[s] # None
               /\ wire'[s].kind = wire[s].kind /\ wire'[s].users = wire[s].users
    <3>1. wire[s] \in Request /\ wire[s] # None /\ Orphaned(wire[s]) # None
      BY <1>0, <2>1, <2>2 DEF Orphaned
    <3>2. QED BY <2>1, <3>1, OrphanFields
  <2>3. QED BY <2>2 DEF ImportInv
<1>3. ASSUME NEW s \in Slots, NEW r \in Request, Clicked(s, r) PROVE ImportInv'
  <2>1. /\ wire' = [wire EXCEPT ![s] = r] /\ r.stage = "sent"
        /\ r.kind = "import" => r.users # {}
    BY <1>3 DEF Clicked
  <2>2. QED BY <1>0, <2>1 DEF ImportInv
<1>4. ASSUME NEW s \in Slots, NEW r \in Request, Served(s, r) PROVE ImportInv'
  <2>1. /\ wire' = [wire EXCEPT ![s] = IF r.mine THEN r ELSE None] /\ wire[s] # None
        /\ r.kind = wire[s].kind /\ r.users = wire[s].users
        /\ r.stage = "done" /\ r.kind = "import" => r.users = {}
    BY <1>4 DEF Served
  <2>2. QED BY <1>0, <2>1 DEF ImportInv
<1>5. ASSUME NEW s \in Slots, Receive(s) PROVE ImportInv'
  <2>1. wire' = [wire EXCEPT ![s] = None]
    BY <1>5 DEF Receive
  <2>2. QED BY <1>0, <2>1 DEF ImportInv
<1>6. QED BY <1>1, <1>2, <1>3, <1>4, <1>5, WireSteps

\* What is no navigation, click, answer or throw leaves buttons and requests alone.
LEMMA ButtonSteps ==
  ASSUME TypeInv, [Next]_vars
  PROVE  \/ /\ UNCHANGED <<wire, threw>> /\ screen'.adding = screen.adding
            /\ screen'.starting = screen.starting /\ screen'.busy = screen.busy
         \/ AddThrows
         \/ \E p \in Pages : Navigate(p)
         \/ \E s \in Slots, r \in Request : \/ Clicked(s, r) /\ Flagged(r)
                                            \/ Served(s, r)
         \/ \E s \in Slots : Receive(s)
<1> DEFINE Same == /\ UNCHANGED <<wire, threw>> /\ screen'.adding = screen.adding
                   /\ screen'.starting = screen.starting /\ screen'.busy = screen.busy
<1>0. screen \in Screen
  BY DEF TypeInv, TypeOK
<1>1. UNCHANGED <<wire, threw, screen>> => Same
  OBVIOUS
<1>2. ASSUME \/ CloseDialog
             \/ \E u \in Users : Toggle(u) \/ OpenDialog(u)
      PROVE  Same
  BY <1>0, <1>2 DEF CloseDialog, Toggle, OpenDialog, Show, history, Screen
<1>3. ASSUME NEW q \in Queries, Apply(q) PROVE Same
  BY <1>0, <1>3 DEF Apply, Show, history, Screen
<1>4. ASSUME NEW load \in loads, FirstPage(load) PROVE Same
  BY <1>0, <1>4 DEF FirstPage, Show, Screen
<1>5. ASSUME NEW load \in loads, ReadQueue(load) \/ ShowQueue(load) PROVE Same
  BY <1>0, <1>5 DEF ReadQueue, ShowQueue, Show, history, Screen
<1>6. ASSUME NEW s \in Slots, FurtherPage(s) PROVE Same
  BY <1>0, <1>6 DEF FurtherPage, Show, Screen
<1>7. ASSUME NEW l \in Pollers, PollAnswers(l) PROVE Same
  BY <1>0, <1>7 DEF PollAnswers, Show, history, Screen
<1>8. ASSUME \/ \E u \in Users : Elsewhere(u)
             \/ \E u \in Users, status \in Status : EngineMoves(u, status)
             \/ \E l \in Pollers : PollAsks(l)
             \/ \E s \in Slots : LoadMore(s)
      PROVE  UNCHANGED <<wire, threw, screen>>
  BY <1>8 DEF Elsewhere, EngineMoves, PollAsks, LoadMore, view, history
<1>9. UNCHANGED vars => UNCHANGED <<wire, threw, screen>>
  BY DEF vars, view, history
<1> HIDE DEF Same
<1>10. \/ Same
       \/ AddThrows
       \/ \E p \in Pages : Navigate(p)
       \/ \E s \in Slots, r \in Request : \/ Clicked(s, r) /\ Flagged(r)
                                          \/ Served(s, r)
       \/ \E s \in Slots : Receive(s)
  BY <1>1, <1>2, <1>3, <1>4, <1>5, <1>6, <1>7, <1>8, <1>9, ClickSteps, ServedSteps DEF Next
<1>11. QED BY <1>10 DEF Same

LEMMA NextSpins == TypeInv /\ ImportInv /\ SpinInv /\ [Next]_vars => SpinInv'
<1> SUFFICES ASSUME TypeInv, ImportInv, SpinInv, [Next]_vars PROVE SpinInv'
  OBVIOUS
<1>0. wire \in [Slots -> Request \cup {None}] /\ screen \in Screen
  BY DEF TypeInv, TypeOK
<1>1. ASSUME UNCHANGED <<wire, threw>>, screen'.adding = screen.adding,
             screen'.starting = screen.starting, screen'.busy = screen.busy
      PROVE  SpinInv'
  BY <1>1 DEF SpinInv, Waits
<1>2. ASSUME AddThrows PROVE SpinInv'
  <2>1. threw' /\ wire' = wire /\ screen' = [screen EXCEPT !.adding = TRUE]
    BY <1>2 DEF AddThrows, Show
  <2>2. screen'.starting = screen.starting /\ screen'.busy = screen.busy
    BY <1>0, <2>1 DEF Screen
  <2>3. QED BY <2>1, <2>2 DEF SpinInv, Waits
<1>3. ASSUME NEW p \in Pages, Navigate(p) PROVE SpinInv'
  BY <1>3 DEF Navigate, Mounted, SpinInv
<1>4. ASSUME NEW s \in Slots, NEW r \in Request, Clicked(s, r), Flagged(r) PROVE SpinInv'
  <2>1. /\ wire[s] = None /\ wire' = [wire EXCEPT ![s] = r] /\ r.mine /\ r # None
        /\ threw' = threw
    BY <1>4, NoneApart DEF Clicked, history
  <2>2. wire'[s] = r /\ \A t \in Slots : wire[t] # None => wire'[t] = wire[t]
    BY <1>0, <2>1
  <2>3. /\ \/ screen'.adding = screen.adding
           \/ r.kind = "add"
        /\ \/ screen'.starting = screen.starting
           \/ r.kind = "start"
        /\ \/ screen'.busy = screen.busy
           \/ r.kind \in JobKinds /\ r.users = {screen'.busy}
    BY <1>0, <1>4 DEF Flagged, Screen, JobKinds
  <2>4. QED BY <2>1, <2>2, <2>3 DEF SpinInv, Waits
<1>5. ASSUME NEW s \in Slots, NEW r \in Request, Served(s, r) PROVE SpinInv'
  <2>1. /\ wire' = [wire EXCEPT ![s] = IF r.mine THEN r ELSE None] /\ r # None
        /\ r.kind = wire[s].kind /\ r.users = wire[s].users /\ r.mine = wire[s].mine
        /\ UNCHANGED <<screen, threw>>
    BY <1>5, NoneApart DEF Served, view, history
  <2>2. \A t \in Slots : wire[t] # None /\ wire[t].mine
           => /\ wire'[t] # None /\ wire'[t].mine
              /\ wire'[t].kind = wire[t].kind /\ wire'[t].users = wire[t].users
    BY <1>0, <2>1
  <2>3. QED BY <2>1, <2>2 DEF SpinInv, Waits
<1>6. ASSUME NEW s \in Slots, Receive(s) PROVE SpinInv'
  <2> DEFINE r == wire[s]
             now == Settled(r)
             adding == IF r.kind = "import" /\ r.stage = "done" THEN ~screen.adding
                       ELSE screen.adding /\ r.kind # "add"
             starting == screen.starting /\ r.kind # "start"
             busy == IF r.kind \in {"cancel", "retry", "delta"} THEN None ELSE screen.busy
  <2>1. r \in Request /\ r # None
    BY <1>0, <1>6 DEF Receive
  <2>2. now \in Screen
    BY <2>1, SettledTypes DEF TypeInv
  <2>3. now.adding = adding /\ now.starting = starting /\ now.busy = busy
    BY <1>0 DEF Screen, Settled
  <2>4. ~(r.kind = "import" /\ r.stage = "done")
    BY <2>1 DEF ImportInv
  <2>5. /\ wire' = [wire EXCEPT ![s] = None] /\ threw' = threw
        /\ screen' = [now EXCEPT !.loading = TRUE, !.error = FALSE] \/ screen' = now
    BY <1>6 DEF Receive, Show
  <2>6. /\ screen'.adding => screen.adding /\ r.kind # "add"
        /\ screen'.starting => screen.starting /\ r.kind # "start"
        /\ screen'.busy # None => screen'.busy = screen.busy /\ r.kind \notin JobKinds
    <3>1. /\ adding => screen.adding /\ r.kind # "add"
          /\ starting => screen.starting /\ r.kind # "start"
          /\ busy # None => busy = screen.busy /\ r.kind \notin JobKinds
      BY <2>4 DEF JobKinds
    <3> HIDE DEF r, now, adding, starting, busy
    <3>2. screen'.adding = adding /\ screen'.starting = starting /\ screen'.busy = busy
      BY <2>2, <2>3, <2>5 DEF Screen
    <3>3. QED BY <3>1, <3>2
  <2>7. \A t \in Slots : t # s => wire'[t] = wire[t]
    BY <1>0, <2>5
  <2>8. QED BY <2>5, <2>6, <2>7 DEF SpinInv, Waits
<1>7. QED BY <1>1, <1>2, <1>3, <1>4, <1>5, <1>6, ButtonSteps

\* A button that spins has a request in flight, unless addSelected threw.
THEOREM SpinnerHasWork == Spec => []SpinnerMeansWork
<1>1. Init => ImportInv /\ SpinInv
  BY DEF Init, Mounted, ImportInv, SpinInv
<1>2. SpinInv => SpinnerMeansWork
  BY DEF SpinInv, Waits, JobKinds, SpinnerMeansWork
<1>3. QED BY <1>1, <1>2, NextImports, NextSpins, TypesHold, PTL DEF Spec

-------------------------------------------------------------------------------
(* Lists: what is shown is what matches the query, down to the cursor.     *)

\* The rows shown are of what was found; the rest is below the cursor or ties with one.
Answers(items, cursor, found) ==
    /\ items \subseteq found
    /\ \A x \in found \ items : \/ cursor # None /\ Rank[x] < cursor
                              \/ \E y \in items : Rank[y] = Rank[x]

QueryInv ==
    page \in Lists =>
        /\ \A load \in loads : load.query = screen.query
        /\ ~screen.loading /\ ~screen.error /\ ~mixed
              => Answers(screen.items, screen.cursor, Listing[page][screen.query])

\* A page that continues what is shown continues the answer.
LEMMA PageAnswers ==
  ASSUME NEW found \in SUBSET Things, NEW items \in SUBSET found, NEW cursor \in Cursors,
         NEW page1 \in SUBSET found, NEW next \in Cursors,
         IsPage(found, cursor, page1, next),
         \A x \in found \ items : \/ cursor = None \/ Rank[x] < cursor
                               \/ \E y \in items : Rank[y] = Rank[x]
  PROVE  Answers(items \cup page1, next, found)
<1> DEFINE below == {x \in found : cursor = None \/ Rank[x] < cursor}
<1>1. /\ page1 \subseteq below
      /\ \A x \in page1, y \in below \ page1 : Rank[x] >= Rank[y]
      /\ \/ page1 = below
         \/ \E x \in page1 : next = Rank[x] /\ \A y \in page1 : Rank[x] <= Rank[y]
  BY DEF IsPage
<1>2. \A x \in Things : Rank[x] \in Nat /\ Rank[x] # None
  BY Assumptions
<1>3. items \cup page1 \subseteq found
  OBVIOUS
<1>4. ASSUME NEW x \in found \ (items \cup page1)
      PROVE  \/ next # None /\ Rank[x] < next
             \/ \E y \in items \cup page1 : Rank[y] = Rank[x]
  <2>1. CASE \E y \in items : Rank[y] = Rank[x]
    BY <2>1
  <2>2. CASE x \in below
    <3>1. x \in below \ page1
      BY <1>4, <2>2
    <3>2. PICK z \in page1 : next = Rank[z]
      BY <1>1, <3>1
    <3>3. Rank[z] >= Rank[x]
      BY <1>1, <3>1, <3>2
    <3>4. x \in Things /\ z \in Things
      BY <1>4
    <3>5. next # None /\ next \in Nat /\ Rank[x] \in Nat /\ next >= Rank[x]
      BY <1>2, <3>2, <3>3, <3>4
    <3>6. CASE Rank[x] < next
      BY <3>5, <3>6
    <3>7. CASE Rank[x] = next
      BY <3>2, <3>7
    <3>8. QED BY <3>5, <3>6, <3>7
  <2>3. QED BY <1>4, <2>1, <2>2
<1>5. QED BY <1>3, <1>4 DEF Answers

LEMMA NextQueries == TypeInv /\ SentInv /\ QueryInv /\ [Next]_vars => QueryInv'
<1> SUFFICES ASSUME TypeInv, SentInv, QueryInv, [Next]_vars PROVE QueryInv'
  OBVIOUS
<1>0. /\ screen \in Screen /\ page \in Pages
      /\ \A load \in loads : load \in Load
  BY DEF TypeInv, TypeOK
<1>1. ASSUME NEW p \in Pages, Navigate(p) PROVE QueryInv'
  <2>1. /\ page' = p /\ screen' = Mounted /\ (p \in Lists => loads' = {IsLoad(All)})
    BY <1>1 DEF Navigate, Lists
  <2>2. Mounted.query = All /\ Mounted.loading /\ IsLoad(All).query = All
    BY DEF Mounted, IsLoad
  <2>3. QED BY <2>1, <2>2 DEF QueryInv
<1>2. ASSUME NEW q \in Queries, Apply(q) PROVE QueryInv'
  <2>1. loads' = {IsLoad(q)} /\ IsLoad(q).query = q
    BY <1>2 DEF Apply, Aborted, IsLoad
  <2>2. screen' = [screen EXCEPT !.query = q, !.loading = TRUE, !.error = FALSE]
    BY <1>2 DEF Apply, Show
  <2>3. screen'.query = q /\ screen'.loading
    BY <1>0, <2>2 DEF Screen
  <2>4. QED BY <2>1, <2>3 DEF QueryInv
<1>3. ASSUME NEW load \in loads, FirstPage(load) PROVE QueryInv'
  <2> DEFINE found == Listing[page][load.query]
  <2>1. page \in Lists /\ load.query = screen.query /\ page' = page /\ loads' = loads \ {load}
    BY <1>3 DEF FirstPage, QueryInv
  <2>2. found \in SUBSET Things
    BY <1>0, <2>1, Assumptions DEF Load
  <2>3. \A other \in loads' : other.query = screen.query
    BY <2>1 DEF QueryInv
  <2>4. CASE screen' = [screen EXCEPT !.items = {}, !.loading = FALSE, !.error = TRUE]
    <3>1. screen'.query = screen.query /\ screen'.error
      BY <1>0, <2>4 DEF Screen
    <3>2. QED BY <2>1, <2>3, <3>1 DEF QueryInv
  <2>5. ASSUME NEW items \in SUBSET found, NEW next \in Cursors, IsPage(found, None, items, next),
               screen' = [screen EXCEPT !.items = items, !.cursor = next, !.loading = FALSE]
        PROVE  QueryInv'
    <3>1. screen'.query = screen.query /\ screen'.items = items /\ screen'.cursor = next
      BY <1>0, <2>5 DEF Screen
    <3>2. None \in Cursors /\ {} \in SUBSET found
      BY DEF Cursors
    <3>3. Answers({} \cup items, next, found)
      <4> HIDE DEF found
      <4> QED BY <2>2, <2>5, <3>2, PageAnswers
    <3>4. {} \cup items = items
      OBVIOUS
    <3>5. QED BY <2>1, <2>3, <3>1, <3>3, <3>4 DEF QueryInv
  <2>6. QED BY <1>3, <2>4, <2>5 DEF FirstPage, Show
<1>4. ASSUME NEW s \in Slots, FurtherPage(s) PROVE QueryInv'
  <2> DEFINE found == Listing[page][more[s].query]
             cursor == more[s].cursor
  <2>1. more[s].query \in Queries /\ cursor \in Cursors /\ page \in Lists /\ page' = page
        /\ loads' = loads
    BY <1>4 DEF FurtherPage, TypeInv, TypeOK, PagesOnLists
  <2>2. found \in SUBSET Things
    BY <2>1, Assumptions
  <2>3. CASE UNCHANGED <<screen, mixed>>
    BY <2>1, <2>3 DEF QueryInv
  <2>4. ASSUME NEW items \in SUBSET found, NEW next \in Cursors, IsPage(found, cursor, items, next),
               screen' = [screen EXCEPT !.items = screen.items \cup items, !.cursor = next],
               mixed' = (mixed \/ screen.loading \/ screen.query # more[s].query
                               \/ screen.cursor # cursor)
        PROVE  QueryInv'
    <3>1. /\ screen'.query = screen.query /\ screen'.items = screen.items \cup items
          /\ screen'.cursor = next /\ screen'.error = screen.error
      BY <1>0, <2>4 DEF Screen
    <3>2. ASSUME ~screen'.error, ~mixed'
          PROVE  Answers(screen'.items, screen'.cursor, Listing[page][screen'.query])
      <4>1. /\ ~mixed /\ ~screen.loading /\ screen.query = more[s].query
            /\ screen.cursor = cursor /\ ~screen.error
        BY <2>4, <3>1, <3>2
      <4>2. Answers(screen.items, cursor, found)
        BY <2>1, <4>1 DEF QueryInv
      <4> DEFINE shown == screen.items
      <4>3. /\ shown \in SUBSET found
            /\ \A x \in found \ shown : \/ cursor = None \/ Rank[x] < cursor
                                      \/ \E y \in shown : Rank[y] = Rank[x]
        BY <4>2 DEF Answers
      <4>4. Answers(shown \cup items, next, found)
        <5> HIDE DEF found, cursor, shown
        <5> QED BY <2>1, <2>2, <2>4, <4>3, PageAnswers
      <4>5. QED BY <3>1, <4>1, <4>4
    <3>3. QED BY <2>1, <3>1, <3>2 DEF QueryInv
  <2>5. QED BY <1>4, <2>3, <2>4 DEF FurtherPage, Show
<1>5. ASSUME NEW s \in Slots, Receive(s) PROVE QueryInv'
  <2>1. CASE page \notin Lists
    <3>1. page' = page
      BY <1>5, ReceiveSteps
    <3>2. QED BY <2>1, <3>1 DEF QueryInv
  <2>2. CASE page \in Lists
    <3>1. wire[s] # None /\ wire[s].stage # "sent"
      BY <1>5, ReceiveSteps
    <3>2. page = Sender(wire[s].kind)
      BY <3>1 DEF SentInv
    <3>3. wire[s].kind # "patch"
      BY <2>2, <3>2 DEF Sender, Lists
    <3>4. /\ UNCHANGED <<page, loads, mixed>>
          /\ screen'.query = screen.query /\ screen'.items = screen.items
          /\ screen'.cursor = screen.cursor
          /\ screen'.loading = screen.loading /\ screen'.error = screen.error
      BY <1>5, <3>3, ReceiveSteps
    <3>5. QED BY <3>4 DEF QueryInv
  <2>3. QED BY <2>1, <2>2
<1>6. ASSUME NEW load \in loads, ReadQueue(load) \/ ShowQueue(load) PROVE QueryInv'
  BY <1>6 DEF ReadQueue, ShowQueue, Lists, QueryInv
<1>7. ASSUME NEW l \in Pollers, PollAnswers(l) PROVE QueryInv'
  <2>1. /\ page' = page /\ loads' = loads /\ mixed' = mixed
        /\ page = "monitor" \/ screen' = screen
    BY <1>7 DEF PollAnswers, history
  <2>2. QED BY <2>1 DEF QueryInv, Lists
<1>8. ASSUME Quiet, \A p \in Pages : ~Navigate(p) PROVE QueryInv'
  <2>1. page' = page
    BY <1>8, Frames
  <2>2. QED BY <1>8, <2>1 DEF Quiet, QueryInv
<1>9. QED BY <1>1, <1>2, <1>3, <1>4, <1>5, <1>6, <1>7, <1>8, QuietSteps

\* A list that is shown answers the query in force, down to its cursor.
THEOREM ListsAnswer == Spec => []ListAnswersQuery
<1>1. Init => SentInv /\ QueryInv
  BY DEF Init, Mounted, IsLoad, SentInv, QueryInv
<1>2. QueryInv => ListAnswersQuery
  BY DEF QueryInv, Answers, ListAnswersQuery
<1>3. QED BY <1>1, <1>2, NextSent, NextQueries, TypesHold, PTL DEF Spec

===============================================================================
