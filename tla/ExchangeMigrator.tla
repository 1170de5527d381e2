---------------------------- MODULE ExchangeMigrator ----------------------------
(***************************************************************************)
(* The passes of one Exchange job over a user's mailboxes: the loops of    *)
(* exchange/migrator.py, the job context's skip-record buffer and          *)
(* heartbeat, the checkpoint with its delta links, and what the handler of *)
(* worker.py does with them when a run ends, is stopped, throttled, fails  *)
(* or is killed.  Graph's export, import and delta feeds are external: a   *)
(* delta link stands for what was in the source when it was handed out.    *)
(***************************************************************************)
EXTENDS Naturals, FiniteSets

CONSTANTS Mailboxes,   \* primary and archive mailboxes of the source user
          Targets,     \* those that exist at the destination
          Folders,
          Items,
          Box,         \* the mailbox of a folder
          Home,        \* the folder of an item
          None,        \* no mailbox, no folder, no folder delta link
          BatchSize,   \* MAX_EXPORT_BATCH
          FlushSize,   \* item_log_flush_size
          MaxPasses,   \* bound on the operator's requests
          MaxFaults    \* bound on stops, kills and failures

ASSUME MailboxShape ==
    /\ Targets \subseteq Mailboxes
    /\ Box \in [Folders -> Mailboxes]
    /\ Home \in [Items -> Folders]
ASSUME MailboxBounds == BatchSize \in Nat \ {0} /\ FlushSize \in Nat \ {0}
                        /\ MaxPasses \in Nat /\ MaxFaults \in Nat

Passes == {"full", "delta"}
FolderLink == [box : Mailboxes, seen : SUBSET Items]
ASSUME NoneIsNone == None \notin FolderLink \cup Mailboxes \cup Folders

\* Checkpoint.cursor: folders_done, item_deltas ({} where there is no link) and
\* folder_delta_link.
Cursor == [done : SUBSET Folders, links : [Folders -> SUBSET Items],
           flink : FolderLink \cup {None}]
Empty == [done |-> {}, links |-> [f \in Folders |-> {}], flink |-> None]

VARIABLES
    source,    \* items in the source mailboxes
    dest,      \* items at the destination
    logged,    \* items with a skip record in D1
    durable,   \* jobs.checkpoint
    status,    \* jobs.status; "open" stands for every status that is not terminal
    wanted,    \* passes with a dispatch in the queue
    pc, pass,  \* where the run is, and its pass
    cursor,    \* store.checkpoint.cursor
    buffer,    \* ctx._item_buffer
    boxes, box,          \* mailboxes still to do, and the one in progress
    folders, newLink,    \* folders still to do, and the folder link to store
    folder, items, link, \* the folder in progress, items left, item link to store
    chunk,               \* exported items of the batch not imported yet
    stop, cancelled,     \* SIGTERM and ctx.cancelled
    issued, faults,      \* counters for the bounds
    \* History variables, for the properties only.
    due,       \* what was in the source when a pass was asked for
    owed,      \* the same for the run in progress
    since,     \* the folder link that the run found in its checkpoint
    cut,       \* items cut off when a stop was seen in the middle of a folder
    dropped,   \* items whose only skip record was lost with the engine's memory
    forgotten, \* items moved, not offered again since, that D1 did not tell of
    stale      \* a run was going on when the job was issued anew

graphVars == <<source, dest>>
rowVars == <<logged, durable, status, wanted>>
memory == <<cursor, buffer>>
loopVars == <<boxes, box, folders, newLink, folder, items, link, chunk>>
stopVars == <<stop, cancelled>>
boundVars == <<issued, faults>>
historyVars == <<due, owed, since, cut, dropped, forgotten, stale>>
vars == <<graphVars, rowVars, pc, pass, memory, loopVars, stopVars, boundVars, historyVars>>

Terminal == {"completed", "cancelled", "failed"}
ShouldStop == stop \/ cancelled
In(f) == {i \in source : Home[i] = f}
Reachable == {i \in Items : Box[Home[i]] \in Targets}
Kept == dest \cup logged \cup buffer

\* The items a cursor will not offer again.
Covered(c) == UNION {c.links[f] : f \in Folders}

Fault == /\ faults < MaxFaults
         /\ faults' = faults + 1
         /\ UNCHANGED issued

Asked == /\ issued < MaxPasses
         /\ issued' = issued + 1
         /\ UNCHANGED faults

-------------------------------------------------------------------------------
(* The environment: mail arrives, operators ask for passes or cancel. *)

Arrive(i) ==
    /\ i \notin source
    /\ source' = source \cup {i}
    /\ UNCHANGED <<dest, rowVars, pc, pass, memory, loopVars, stopVars, boundVars, historyVars>>

\* POST /api/jobs: the row starts clean, whatever run is going on.
Issue ==
    /\ Asked
    /\ durable' = Empty
    /\ status' = "open"
    /\ wanted' = wanted \cup {"full"}
    /\ due' = [due EXCEPT !["full"] = source]
    /\ stale' = (pc # "idle")
    /\ forgotten' = dest
    /\ UNCHANGED <<graphVars, logged, pc, pass, memory, loopVars, stopVars, owed, since, cut,
                   dropped>>

\* POST /api/jobs/:id/delta: the checkpoint stays.
RequestDelta ==
    /\ status # "none"
    /\ Asked
    /\ status' = "open"
    /\ wanted' = wanted \cup {"delta"}
    /\ due' = [due EXCEPT !["delta"] = source]
    /\ UNCHANGED <<graphVars, logged, durable, pc, pass, memory, loopVars, stopVars, owed,
                   since, cut, dropped, forgotten, stale>>

\* POST /api/jobs/:id/retry: a full pass again, from the checkpoint.
Retry ==
    /\ status = "failed"
    /\ Asked
    /\ status' = "open"
    /\ wanted' = wanted \cup {"full"}
    /\ UNCHANGED <<graphVars, logged, durable, pc, pass, memory, loopVars, stopVars, historyVars>>

\* Fault seeded for TypeOK: a status the contract does not have.
CancelMisspelt ==
    /\ status # "none"
    /\ status' = "canceled"
    /\ UNCHANGED <<graphVars, logged, durable, wanted, pc, pass, memory, loopVars, stopVars,
                   boundVars, historyVars>>

Cancel ==
    /\ status # "none"
    /\ status' = "cancelled"
    /\ UNCHANGED <<graphVars, logged, durable, wanted, pc, pass, memory, loopVars, stopVars,
                   boundVars, historyVars>>

-------------------------------------------------------------------------------
(* A run: the handler resumes the job from the checkpoint in D1. *)

\* load_checkpoint: the cursor in D1, empty when there is none.
LoadCheckpoint == durable

Begin(p) ==
    /\ pc = "idle"
    /\ p \in wanted
    /\ status = "open"
    /\ cursor' = LoadCheckpoint
    /\ pass' = p
    /\ boxes' = Mailboxes
    /\ buffer' = {}
    /\ cancelled' = FALSE
    /\ pc' = "start"
    /\ owed' = due[p]
    /\ since' = durable.flink
    /\ UNCHANGED <<graphVars, rowVars, box, folders, newLink, folder, items, link, chunk,
                   stop, boundVars, due, cut, dropped, forgotten, stale>>

\* The handler's running status and the migrator's first report: a cancellation that
\* came after the check above is overwritten.
MarkRunning ==
    /\ pc = "start"
    /\ status' = "open"
    /\ pc' = "boxes"
    /\ UNCHANGED <<graphVars, logged, durable, wanted, pass, memory, loopVars, stopVars,
                   boundVars, historyVars>>

\* A dispatch of a settled job is acked without a run.
Discard(p) ==
    /\ pc = "idle"
    /\ p \in wanted
    /\ status \in Terminal
    /\ wanted' = wanted \ {p}
    /\ UNCHANGED <<graphVars, logged, durable, status, pc, pass, memory, loopVars, stopVars,
                   boundVars, historyVars>>

\* Fault seeded for DeltaDeliversOneBox: a delta pass skips folders done before.
SkipDone(l) == {f \in Folders \ cursor.done : Box[f] = l.box /\ In(f) \ l.seen # {}}

\* The next mailbox: one without a destination is skipped with a warning, else its
\* folder feed is read, on a delta pass from the one folder link of the cursor.
FoldersSince(l) == {f \in Folders : Box[f] = l.box /\ In(f) \ l.seen # {}}

NextBox(b) ==
    /\ pc = "boxes"
    /\ b \in boxes
    /\ ~ShouldStop
    /\ boxes' = boxes \ {b}
    /\ IF b \notin Targets
       THEN UNCHANGED <<pc, box, folders, newLink>>
       ELSE LET resumed == pass = "delta" /\ cursor.flink # None
            IN  /\ box' = b
                /\ folders' = IF resumed THEN FoldersSince(cursor.flink)
                              ELSE {f \in Folders : Box[f] = b}
                /\ newLink' = [box |-> IF resumed THEN cursor.flink.box ELSE b,
                               seen |-> source]
                /\ pc' = "folders"
    /\ UNCHANGED <<graphVars, rowVars, pass, memory, folder, items, link, chunk, stopVars,
                   boundVars, historyVars>>

\* A stop seen before a mailbox returns the running status ...
StopAtBox ==
    /\ pc = "boxes"
    /\ boxes # {}
    /\ ShouldStop
    /\ pc' = "early"
    /\ UNCHANGED <<graphVars, rowVars, pass, memory, loopVars, stopVars, boundVars, historyVars>>

\* ... and one seen in the last mailbox does not: the pass goes on to its end.
NoMoreBoxes ==
    /\ pc = "boxes"
    /\ boxes = {}
    /\ pc' = "flush"
    /\ UNCHANGED <<graphVars, rowVars, pass, memory, loopVars, stopVars, boundVars, historyVars>>

\* The next folder: its destination folder is ensured and its item feed is read.
NextFolder(f) ==
    /\ pc = "folders"
    /\ f \in folders
    /\ ~ShouldStop
    /\ folders' = folders \ {f}
    /\ IF f \in cursor.done /\ pass = "full"
       THEN UNCHANGED <<pc, folder, items, link>>
       ELSE /\ folder' = f
            /\ items' = In(f) \ (IF pass = "delta" THEN cursor.links[f] ELSE {})
            /\ link' = In(f)
            /\ pc' = "items"
    /\ UNCHANGED <<graphVars, rowVars, pass, memory, boxes, box, newLink, chunk, stopVars,
                   boundVars, historyVars>>

StopAtFolder ==
    /\ pc = "folders"
    /\ folders # {}
    /\ ShouldStop
    /\ pc' = "boxes"
    /\ UNCHANGED <<graphVars, rowVars, pass, memory, loopVars, stopVars, boundVars, historyVars>>

\* All folders done: the folder link is stored, under one key for all mailboxes.
LeaveFolders ==
    /\ pc = "folders"
    /\ folders = {}
    /\ cursor' = [cursor EXCEPT !.flink = newLink]
    /\ pc' = "boxes"
    /\ UNCHANGED <<graphVars, rowVars, pass, buffer, loopVars, stopVars, boundVars, historyVars>>

\* A batch is exported. What Graph rejects gets a skip record; a folder of another
\* mailbox is rejected as a whole.
Export(b) ==
    /\ pc = "items"
    /\ ~ShouldStop
    /\ b \subseteq items
    /\ Cardinality(b) = IF Cardinality(items) < BatchSize THEN Cardinality(items)
                        ELSE BatchSize
    /\ b # {}
    /\ items' = items \ b
    /\ \E rejected \in SUBSET b :
          /\ Box[folder] # box => rejected = b
          /\ buffer' = buffer \cup rejected
          /\ chunk' = b \ rejected
    /\ pc' = "import"
    /\ UNCHANGED <<graphVars, rowVars, pass, cursor, boxes, box, folders, newLink, folder,
                   link, stopVars, boundVars, historyVars>>

\* Fault seeded for LedgerSpec: an import that fails leaves no skip record.
ImportUnrecorded(i) ==
    /\ pc = "import"
    /\ i \in chunk
    /\ chunk' = chunk \ {i}
    /\ dest' \in {dest, dest \cup {i}}
    /\ forgotten' = forgotten \ {i}
    /\ UNCHANGED <<source, rowVars, pc, pass, memory, boxes, box, folders, newLink, folder,
                   items, link, stopVars, boundVars, due, owed, since, cut, dropped, stale>>

\* An item is imported, or gets a skip record after its retries; one whose answers
\* were lost is both at the destination and on record.
Import(i) ==
    /\ pc = "import"
    /\ i \in chunk
    /\ chunk' = chunk \ {i}
    /\ \/ dest' = dest \cup {i} /\ UNCHANGED buffer
       \/ buffer' = buffer \cup {i} /\ (UNCHANGED dest \/ dest' = dest \cup {i})
    /\ forgotten' = forgotten \ {i}
    /\ UNCHANGED <<source, rowVars, pc, pass, cursor, boxes, box, folders, newLink, folder,
                   items, link, stopVars, boundVars, due, owed, since, cut, dropped, stale>>

\* maybe_flush, the first call of a heartbeat, after a batch and after a folder: the
\* checkpoint is written when its interval has passed.
MaybeFlush ==
    /\ \/ pc = "import" /\ chunk = {} /\ pc' = "beat"
       \/ pc = "left" /\ pc' = "folderBeat"
    /\ durable' \in {durable, cursor}
    /\ UNCHANGED <<graphVars, logged, status, wanted, pass, memory, loopVars, stopVars,
                   boundVars, historyVars>>

\* The item loop ends, or breaks off on a stop: either way the folder's link is
\* stored and, on a full pass, the folder counts as done.
LeaveItems ==
    /\ pc = "items"
    /\ items = {} \/ ShouldStop
    /\ cursor' = [done |-> IF pass = "full" THEN cursor.done \cup {folder} ELSE cursor.done,
                  links |-> [cursor.links EXCEPT ![folder] = link],
                  flink |-> cursor.flink]
    /\ cut' = cut \cup items
    /\ items' = {}
    /\ pc' = "left"
    /\ UNCHANGED <<graphVars, rowVars, pass, buffer, boxes, box, folders, newLink, folder,
                   link, chunk, stopVars, boundVars, due, owed, since, dropped, forgotten,
                   stale>>

\* The rest of a heartbeat: the skip records when there are enough of them, the
\* cancel poll, then the running status.
Heartbeat ==
    /\ pc \in {"beat", "folderBeat"}
    /\ IF Cardinality(buffer) >= FlushSize
       THEN logged' = logged \cup buffer /\ buffer' = {}
       ELSE UNCHANGED <<logged, buffer>>
    /\ \E polled \in BOOLEAN :
          cancelled' = (cancelled \/ (polled /\ status \in Terminal))
    /\ status' \in {status, "open"}
    /\ pc' = IF pc = "beat" THEN "items" ELSE "folders"
    /\ UNCHANGED <<graphVars, durable, wanted, pass, cursor, loopVars, stop, boundVars,
                   historyVars>>

\* Fault seeded for CompletedFullPass: the records left in the buffer are not sent.
FlushNothing ==
    /\ pc = "flush"
    /\ pc' = "save"
    /\ UNCHANGED <<graphVars, rowVars, pass, memory, loopVars, stopVars, boundVars, historyVars>>

\* The end of run(): the skip records, then the forced report, which is made or still
\* to be made when the next step fails.
FlushItems ==
    /\ pc = "flush"
    /\ logged' = logged \cup buffer
    /\ buffer' = {}
    /\ status' \in {status, "open"}
    /\ pc' = "save"
    /\ UNCHANGED <<graphVars, durable, wanted, pass, cursor, loopVars, stopVars,
                   boundVars, historyVars>>

\* Fault seeded for MovedOnce: the handler leaves the checkpoint to the end of run().
SaveAtEnd ==
    /\ pc \in {"save", "early"}
    /\ durable' = IF pc = "save" THEN cursor ELSE durable
    /\ pc' = IF pc = "save" THEN "settle" ELSE "defer"
    /\ UNCHANGED <<graphVars, logged, status, wanted, pass, memory, loopVars, stopVars,
                   boundVars, historyVars>>

\* store.flush at the end of run() and in the handler, which also saves the
\* checkpoint of a run that stopped early.
SaveCheckpoint ==
    /\ pc \in {"save", "early"}
    /\ durable' = cursor
    /\ pc' = IF pc = "save" THEN "settle" ELSE "defer"
    /\ UNCHANGED <<graphVars, logged, status, wanted, pass, memory, loopVars, stopVars,
                   boundVars, historyVars>>

\* The engine forgets the run; skip records still in the buffer are lost. After
\* SIGTERM the process ends, and is started again.
Forget ==
    /\ pc' = "idle"
    /\ cursor' = Empty
    /\ buffer' = {}
    /\ boxes' = {} /\ box' = None
    /\ folders' = {} /\ newLink' = None
    /\ folder' = None /\ items' = {} /\ link' = {} /\ chunk' = {}
    /\ stop' = FALSE /\ cancelled' = FALSE
    /\ owed' = {} /\ since' = None
    /\ dropped' = dropped \cup (buffer \ (dest \cup logged'))

\* A run that ended is settled and its dispatch acked: cancelled if it saw a
\* cancellation, completed if it reached its end, nothing if SIGTERM stopped it.
Settle ==
    /\ pc \in {"settle", "defer"}
    /\ IF pc = "defer" /\ ~cancelled
       THEN UNCHANGED <<status, wanted>>
       ELSE /\ status' = IF cancelled THEN "cancelled" ELSE "completed"
            /\ wanted' = wanted \ {pass}
    /\ UNCHANGED <<logged, durable>>
    /\ Forget
    /\ UNCHANGED <<graphVars, pass, boundVars, due, cut, forgotten, stale>>

-------------------------------------------------------------------------------
(* Failures. *)

\* What was moved since the checkpoint in D1 was written will be offered again.
Crash ==
    /\ Forget
    /\ forgotten' = forgotten \cup (dest \ Covered(durable'))

Sigterm ==
    /\ pc # "idle"
    /\ ~stop
    /\ Fault
    /\ stop' = TRUE
    /\ UNCHANGED <<graphVars, rowVars, pc, pass, memory, loopVars, cancelled, historyVars>>

\* Killed, or throttled beyond the client's retries: nothing is flushed, the
\* dispatch comes back. Throttling also reports the job as backing off.
Interrupted ==
    /\ pc # "idle"
    /\ Fault
    /\ UNCHANGED <<logged, durable, wanted>>
    /\ status' \in IF pc \in {"start", "boxes", "folders", "items"}
                  THEN {status, "open"} ELSE {status}
    /\ Crash
    /\ UNCHANGED <<graphVars, pass, due, cut, stale>>

\* A job-fatal Graph error: records, then checkpoint, then the failure status; the
\* first that fails hides the rest of the two flushes.
GraphFails ==
    /\ pc \in {"start", "boxes", "folders", "items", "import"}
    /\ Fault
    /\ \/ UNCHANGED <<logged, durable>>
       \/ logged' = logged \cup buffer /\ durable' \in {durable, cursor}
    /\ \/ status' = "failed" /\ wanted' = wanted \ {pass}
       \/ UNCHANGED <<status, wanted>>
    /\ Crash
    /\ UNCHANGED <<graphVars, pass, due, cut, stale>>

\* A control-plane call fails, in a heartbeat or at the end: nothing is flushed and
\* the job fails, its failure status perhaps unreported.
CallFails ==
    /\ \/ pc \in {"start", "boxes", "left", "beat", "folderBeat", "flush", "save", "early",
                 "settle", "defer"}
       \/ pc = "import" /\ chunk = {}
    /\ Fault
    /\ UNCHANGED <<logged, durable>>
    /\ status' \in {status, "failed"}
    /\ wanted' = wanted \ {pass}
    /\ Crash
    /\ UNCHANGED <<graphVars, pass, due, cut, stale>>

-------------------------------------------------------------------------------
Init ==
    /\ source \in SUBSET Items
    /\ dest = {}
    /\ logged = {}
    /\ durable = Empty
    /\ status = "none"
    /\ wanted = {}
    /\ pc = "idle"
    /\ pass = "full"
    /\ cursor = Empty
    /\ buffer = {}
    /\ boxes = {} /\ box = None
    /\ folders = {} /\ newLink = None
    /\ folder = None /\ items = {} /\ link = {} /\ chunk = {}
    /\ stop = FALSE /\ cancelled = FALSE
    /\ issued = 0 /\ faults = 0
    /\ due = [p \in Passes |-> {}] /\ owed = {} /\ since = None
    /\ cut = {} /\ dropped = {} /\ forgotten = {} /\ stale = FALSE

Operator == Issue \/ RequestDelta \/ Retry \/ Cancel \/ \E i \in Items : Arrive(i)

Run ==
    \/ \E p \in Passes : Begin(p) \/ Discard(p)
    \/ \E b \in boxes : NextBox(b)
    \/ MarkRunning \/ StopAtBox \/ NoMoreBoxes
    \/ \E f \in folders : NextFolder(f)
    \/ StopAtFolder \/ LeaveFolders
    \/ \E b \in SUBSET items : Export(b)
    \/ \E i \in chunk : Import(i)
    \/ MaybeFlush \/ LeaveItems \/ Heartbeat
    \/ FlushItems \/ SaveCheckpoint \/ Settle

Failure == Sigterm \/ Interrupted \/ GraphFails \/ CallFails

Next == Operator \/ Run \/ Failure

Spec == Init /\ [][Next]_vars

-------------------------------------------------------------------------------
TypeOK ==
    /\ source \subseteq Items /\ dest \subseteq Items /\ logged \subseteq Items
    /\ durable \in Cursor
    /\ status \in {"none", "open"} \cup Terminal
    /\ wanted \subseteq Passes
    /\ pc \in {"idle", "start", "boxes", "folders", "items", "import", "left", "beat", "folderBeat",
              "flush", "save", "settle", "early", "defer"}
    /\ pass \in Passes
    /\ cursor \in Cursor
    /\ buffer \subseteq Items
    /\ boxes \subseteq Mailboxes /\ box \in Mailboxes \cup {None}
    /\ folders \subseteq Folders /\ newLink \in FolderLink \cup {None}
    /\ folder \in Folders \cup {None}
    /\ items \subseteq Items /\ link \subseteq Items /\ chunk \subseteq Items
    /\ stop \in BOOLEAN /\ cancelled \in BOOLEAN /\ stale \in BOOLEAN
    /\ issued \in 0..MaxPasses /\ faults \in 0..MaxFaults
    /\ due \in [Passes -> SUBSET Items] /\ owed \subseteq Items
    /\ since \in FolderLink \cup {None}
    /\ cut \subseteq Items /\ dropped \subseteq Items /\ forgotten \subseteq Items

(***************************************************************************)
(* The resume point in D1 never goes back, through stops, kills, throttled *)
(* runs and failures: only a job issued anew forgets it.                   *)
(***************************************************************************)
CheckpointMonotonic ==
    [][durable' # Empty =>
          /\ durable.done \subseteq durable'.done
          /\ \A f \in Folders : durable.links[f] \subseteq durable'.links[f]]_vars

(***************************************************************************)
(* A full pass that is reported completed has moved or recorded every item *)
(* that was in the source when the job was issued, however many runs it    *)
(* took; excused are a run that SIGTERM reaches, mailboxes without a       *)
(* destination, folders that an earlier stop cut, records lost with the    *)
(* engine's memory, and a job issued anew during a run.                    *)
(***************************************************************************)
Completes == status # "completed" /\ status' = "completed"

CompletedFullPass ==
    [][Completes /\ pass = "full" /\ ~stop /\ ~stale =>
          owed \cap Reachable \subseteq dest \cup logged \cup cut \cup dropped]_vars

(***************************************************************************)
(* A delta pass that is reported completed has moved or recorded what came *)
(* into a mailbox between the folder link it resumed from and the request: *)
(* the mailbox of that link, or, with no link, the one it came to first.   *)
(* Two mailboxes share the one link, so that it is one of them and not     *)
(* each (CompletedDeltaPass); excused are items and records that an        *)
(* earlier run cut off or lost.                                            *)
(***************************************************************************)
Seen(l) == IF l = None THEN {} ELSE l.seen
New(b) == {i \in owed \ Seen(since) : Box[Home[i]] = b}

DeltaDeliversOneBox ==
    [][Completes /\ pass = "delta" /\ ~stop /\ Targets # {} =>
          \E b \in Targets : /\ since # None => b = since.box
                             /\ New(b) \subseteq dest \cup logged \cup cut \cup dropped]_vars

(***************************************************************************)
(* What excuses a pass has a cause: items are cut off only by a stop or a  *)
(* cancellation, and a record is lost only with a run that was stopped or  *)
(* failed.  A run that just ends flushes every record it holds.            *)
(***************************************************************************)
ExcusesHaveCause ==
    [][cut' # cut \/ dropped' # dropped => ShouldStop \/ faults' # faults]_vars

(***************************************************************************)
(* No batch takes up an item that is at the destination already, where it  *)
(* would arrive a second time (the attempts of one import are one step     *)
(* here), but for what a failed run moved after its last checkpoint, for a *)
(* job issued anew, each once for each failure or issue, and for a full    *)
(* pass over what a delta pass took before it.  Runs that are stopped or   *)
(* cancelled anywhere repeat nothing.                                      *)
(***************************************************************************)
MovedOnce ==
    \A i \in chunk \cap dest :
        i \in forgotten \/ (pass = "full" /\ i \in cursor.links[folder])

\* The ledger this module implements: an item behind a delta link in D1 is moved,
\* recorded, or excused.
Ledger == INSTANCE PassLedger WITH
             covered <- Covered(durable), kept <- Kept, excused <- cut \cup dropped

LedgerSpec == Ledger!Spec

-------------------------------------------------------------------------------
(* What the code's comments say and the code does not do.                    *)

(***************************************************************************)
(* On SIGTERM the engine drains the job in flight to a checkpoint, from    *)
(* which it resumes (engine/README.md): a job is not reported completed    *)
(* with items of its full pass left where they were.                       *)
(***************************************************************************)
StoppedPassResumes ==
    [][Completes /\ pass = "full" /\ ~stale =>
          owed \cap Reachable \subseteq dest \cup logged \cup dropped]_vars

(***************************************************************************)
(* The next incremental pass resumes exactly where this one left off       *)
(* (exchange/migrator.py): a delta pass reported completed has moved or    *)
(* recorded what was in the source when it was asked for.                  *)
(***************************************************************************)
CompletedDeltaPass ==
    [][Completes /\ pass = "delta" /\ ~stop /\ ~stale =>
          owed \cap Reachable \subseteq dest \cup logged \cup cut \cup dropped]_vars

(***************************************************************************)
(* "A re-issued FULL job starts clean" (db/jobs.ts): a full pass of a run  *)
(* begun after the last issue is reported completed only when it delivered *)
(* what was in the source at that issue.                                   *)
(***************************************************************************)
ReissuedStartsClean ==
    [][Completes /\ pass = "full" /\ ~stop /\ owed = due["full"] =>
          owed \cap Reachable \subseteq dest \cup logged \cup cut \cup dropped]_vars
===============================================================================
