---------------------------- MODULE OneDriveMigrator ----------------------------
(***************************************************************************)
(* The passes of one OneDrive job: the run of onedrive/migrator.py, whose  *)
(* folders are created shallow-first and whose files are copied one by     *)
(* one, with the checkpoint (folder_map, items_done, delta_link) and the   *)
(* outcomes of the handler in worker.py.  Graph is external: the delta     *)
(* link stands for the versions that the drive had when the feed was read, *)
(* and a read feed offers what is newer than its link.                     *)
(***************************************************************************)
EXTENDS Naturals, FiniteSets

CONSTANTS Files, Folders,
          Root,        \* the root of the drive
          Parent,      \* the folder, or root, that holds a folder or file
          Depth,       \* the depth of a folder's path
          MaxVersion,  \* bound on the versions of a file
          Start,       \* the drive when the project starts
          Writes,      \* bound on the versions of each folder and file
          Large,       \* versions above the upload-session threshold
          Void,        \* versions without content
          FlushSize,   \* item_log_flush_size
          MaxPasses,   \* bound on the operator's requests
          MaxFaults    \* bound on stops, kills and failures

ASSUME DriveShape ==
    /\ Files \cap Folders = {}
    /\ Root \notin Folders
    /\ Parent \in [Files \cup Folders -> Folders \cup {Root}]
    /\ Depth \in [Folders -> Nat]
    /\ \A d \in Folders : Parent[d] \in Folders => Depth[Parent[d]] < Depth[d]
ASSUME DriveBounds == MaxVersion \in Nat \ {0} /\ FlushSize \in Nat \ {0}
                      /\ MaxPasses \in Nat /\ MaxFaults \in Nat
ASSUME VersionsBound == {Start, Writes} \subseteq [Files \cup Folders -> 0..MaxVersion]
ASSUME StartIsTree == \A e \in Files \cup Folders :
                         Start[e] # 0 /\ Parent[e] # Root => Start[Parent[e]] # 0
ASSUME VoidIsSmall == Large \subseteq 1..MaxVersion /\ Void \subseteq (1..MaxVersion) \ Large

Passes == {"full", "delta"}
Entries == Files \cup Folders

\* The version of each file and folder; 0 where there is none. The snapshot of an
\* empty drive stands for no delta link too: both feeds offer everything.
Snapshot == [Entries -> 0..MaxVersion]
Nothing == [e \in Entries |-> 0]

\* Checkpoint.cursor: folder_map, items_done, delta_link.
Cursor == [map : SUBSET Folders, done : SUBSET Files, link : Snapshot]
Empty == [map |-> {}, done |-> {}, link |-> Nothing]

VARIABLES
    source,    \* the source drive
    dest,      \* the version of each file at the destination
    misplaced, \* files and folders uploaded to the root instead of their folder
    logged,    \* files with a skip record in D1
    durable,   \* jobs.checkpoint
    status,    \* jobs.status; "open" stands for every status that is not terminal
    wanted,    \* passes with a dispatch in the queue
    pc, pass,  \* where the run is, and its pass
    cursor,    \* store.checkpoint.cursor
    itemsDone, \* items_done of the run, in the cursor only when the run leaves it
    buffer,    \* ctx._item_buffer
    folders, files,      \* what is left of the feed
    feed,                \* the snapshot that was read, behind enum.delta_link
    stop, cancelled,     \* SIGTERM and ctx.cancelled
    issued, faults,      \* counters for the bounds
    \* History variables, for the properties only.
    due,       \* the drive when a pass was asked for
    owed,      \* the same for the run in progress
    cut,       \* files and folders of the feed that a stop left out
    dropped,   \* files whose only skip record was lost with the engine's memory
    hollow,    \* files that count as copied with nothing uploaded
    overlooked, \* files passed over as copied though the feed had a newer version
    stale      \* a run was going on when the job was issued anew

driveVars == <<source, dest, misplaced>>
rowVars == <<logged, durable, status, wanted>>
memory == <<cursor, itemsDone, buffer>>
loopVars == <<folders, files, feed>>
stopVars == <<stop, cancelled>>
boundVars == <<issued, faults>>
historyVars == <<due, owed, cut, dropped, hollow, overlooked, stale>>
vars == <<driveVars, rowVars, pc, pass, memory, loopVars, stopVars, boundVars, historyVars>>

Terminal == {"completed", "cancelled", "failed"}
ShouldStop == stop \/ cancelled
There(e) == e # Root => source[e] # 0

Fault == faults < MaxFaults /\ faults' = faults + 1 /\ UNCHANGED issued
Asked == issued < MaxPasses /\ issued' = issued + 1 /\ UNCHANGED faults

-------------------------------------------------------------------------------
(* The environment: users work on the drive, operators ask for passes or cancel. *)

\* A folder is made, or a file is written in a folder that is there.
Write(e) ==
    /\ There(Parent[e])
    /\ source[e] < Writes[e]
    /\ source' = [source EXCEPT ![e] = @ + 1]
    /\ UNCHANGED <<dest, misplaced, rowVars, pc, pass, memory, loopVars, stopVars, boundVars,
                   historyVars>>

Ask(p) ==
    /\ Asked
    /\ status' = "open"
    /\ wanted' = wanted \cup {p}
    /\ UNCHANGED <<driveVars, logged, pc, pass, memory, loopVars, stopVars, owed, cut,
                   dropped, hollow, overlooked>>

\* Fault seeded for CompletedPass: a job issued anew keeps its checkpoint.
IssueOnTop == Ask("full") /\ UNCHANGED durable /\ stale' = (pc # "idle")
              /\ due' = [due EXCEPT !["full"] = source]

\* POST /api/jobs: the row starts clean, whatever run is going on.
Issue == Ask("full") /\ durable' = Empty /\ stale' = (pc # "idle")
         /\ due' = [due EXCEPT !["full"] = source]

\* POST /api/jobs/:id/delta: the checkpoint stays.
RequestDelta == status # "none" /\ Ask("delta") /\ UNCHANGED <<durable, stale>>
                /\ due' = [due EXCEPT !["delta"] = source]

\* POST /api/jobs/:id/retry: a full pass again, from the checkpoint.
Retry == status = "failed" /\ Ask("full") /\ UNCHANGED <<durable, due, stale>>

\* Fault seeded for TypeOK: a status the contract does not have.
CancelMisspelt ==
    /\ status # "none"
    /\ status' = "canceled"
    /\ UNCHANGED <<driveVars, logged, durable, wanted, pc, pass, memory, loopVars, stopVars,
                   boundVars, historyVars>>

Cancel ==
    /\ status # "none"
    /\ status' = "cancelled"
    /\ UNCHANGED <<driveVars, logged, durable, wanted, pc, pass, memory, loopVars, stopVars,
                   boundVars, historyVars>>

-------------------------------------------------------------------------------
(* A run. *)

\* The handler resumes the job from the checkpoint in D1.
Begin(p) ==
    /\ pc = "idle"
    /\ p \in wanted
    /\ status = "open"
    /\ pass' = p
    /\ cursor' = durable
    /\ itemsDone' = durable.done
    /\ buffer' = {}
    /\ cancelled' = FALSE
    /\ owed' = due[p]
    /\ pc' = "start"
    /\ UNCHANGED <<driveVars, rowVars, loopVars, stop, boundVars, due, cut, dropped,
                   hollow, overlooked, stale>>

\* A dispatch of a settled job is acked without a run.
Discard(p) ==
    /\ pc = "idle"
    /\ p \in wanted
    /\ status \in Terminal
    /\ wanted' = wanted \ {p}
    /\ UNCHANGED <<driveVars, logged, durable, status, pc, pass, memory, loopVars, stopVars,
                   boundVars, historyVars>>

\* The running status, and the first report of run().
MarkRunning ==
    /\ pc = "start"
    /\ status' = "open"
    /\ pc' = "enumerate"
    /\ UNCHANGED <<driveVars, logged, durable, wanted, pass, memory, loopVars, stopVars,
                   boundVars, historyVars>>

\* Fault seeded for LedgerSpec: the delta link is stored before the feed is applied.
EnumerateAndStore ==
    /\ pc = "enumerate"
    /\ LET link == IF pass = "delta" THEN cursor.link ELSE Nothing
       IN  /\ folders' = {d \in Folders : source[d] > link[d]}
           /\ files' = {f \in Files : source[f] > link[f]}
    /\ feed' = source
    /\ cursor' = [cursor EXCEPT !.link = source]
    /\ pc' = "folders"
    /\ UNCHANGED <<driveVars, rowVars, pass, itemsDone, buffer, stopVars, boundVars, historyVars>>

\* The feed of the drive: everything, or on a delta pass what is newer than the link.
Enumerate ==
    /\ pc = "enumerate"
    /\ LET link == IF pass = "delta" THEN cursor.link ELSE Nothing
       IN  /\ folders' = {d \in Folders : source[d] > link[d]}
           /\ files' = {f \in Files : source[f] > link[f]}
    /\ feed' = source
    /\ pc' = "folders"
    /\ UNCHANGED <<driveVars, rowVars, pass, memory, stopVars, boundVars, historyVars>>

\* An upload goes to the mapped parent, or to the root when the map lacks it.
Placed(e) == misplaced' = misplaced \cup {x \in {e} : Parent[x] \notin cursor.map \cup {Root}}

\* Fault seeded for HierarchyKept: folders are created in the order of the feed.
CreateFolderUnsorted(d) ==
    /\ pc = "folders"
    /\ d \in folders
    /\ ~ShouldStop
    /\ folders' = folders \ {d}
    /\ IF d \in cursor.map THEN UNCHANGED <<misplaced, cursor>>
       ELSE Placed(d) /\ cursor' = [cursor EXCEPT !.map = @ \cup {d}]
    /\ UNCHANGED <<source, dest, rowVars, pc, pass, itemsDone, buffer, files, feed, stopVars,
                   boundVars, historyVars>>

\* The shallowest folder left is created, unless the map has it.
CreateFolder(d) ==
    /\ pc = "folders"
    /\ d \in folders
    /\ ~ShouldStop
    /\ \A other \in folders : Depth[d] <= Depth[other]
    /\ folders' = folders \ {d}
    /\ IF d \in cursor.map THEN UNCHANGED <<misplaced, cursor>>
       ELSE Placed(d) /\ cursor' = [cursor EXCEPT !.map = @ \cup {d}]
    /\ UNCHANGED <<source, dest, rowVars, pc, pass, itemsDone, buffer, files, feed, stopVars,
                   boundVars, historyVars>>

FoldersDone ==
    /\ pc = "folders"
    /\ folders = {}
    /\ pc' = "files"
    /\ UNCHANGED <<driveVars, rowVars, pass, memory, loopVars, stopVars, boundVars, historyVars>>

\* Files that the destination has in an older version than the feed.
Older(S) == {f \in S : feed[f] > dest[f]}

\* A file that a run before has copied is passed over, whatever its version.
SkipFile(f) ==
    /\ pc = "files"
    /\ f \in files \cap itemsDone
    /\ ~ShouldStop
    /\ files' = files \ {f}
    /\ overlooked' = overlooked \cup Older({f})
    /\ UNCHANGED <<driveVars, rowVars, pc, pass, memory, folders, feed, stopVars, boundVars,
                   due, owed, cut, dropped, hollow, stale>>

\* What is uploaded is the content of the moment, in the way the size in the feed
\* asks for: an upload session for a file that has no content any more sends no
\* chunk, and counts as done.
Vanishes(f) == feed[f] \in Large /\ source[f] \in Void
Upload(f) == ~Vanishes(f) /\ dest' = [dest EXCEPT ![f] = source[f]] /\ Placed(f)

\* A file is copied, or gets a skip record after its retries; one whose answers were
\* lost is both at the destination and on record.
CopyFile(f) ==
    /\ pc = "files"
    /\ f \in files \ itemsDone
    /\ ~ShouldStop
    /\ files' = files \ {f}
    /\ \/ /\ Upload(f) \/ (Vanishes(f) /\ UNCHANGED <<dest, misplaced>>)
          /\ itemsDone' = itemsDone \cup {f}
          /\ hollow' = hollow \cup {x \in {f} : Vanishes(x)}
          /\ UNCHANGED buffer
       \/ /\ Upload(f) \/ UNCHANGED <<dest, misplaced>>
          /\ buffer' = buffer \cup {f}
          /\ UNCHANGED <<itemsDone, hollow>>
    /\ pc' = "copied"
    /\ UNCHANGED <<source, rowVars, pass, cursor, folders, feed, stopVars, boundVars, due,
                   owed, cut, dropped, overlooked, stale>>

\* The heartbeat's checkpoint when its interval has passed: with the folders created,
\* without the files done.
MaybeFlush ==
    /\ pc = "copied"
    /\ durable' \in {durable, cursor}
    /\ pc' = "beat"
    /\ UNCHANGED <<driveVars, logged, status, wanted, pass, memory, loopVars, stopVars,
                   boundVars, historyVars>>

\* The rest of the heartbeat: skip records when there are enough, cancel poll, report.
Heartbeat ==
    /\ pc = "beat"
    /\ IF Cardinality(buffer) >= FlushSize
       THEN logged' = logged \cup buffer /\ buffer' = {}
       ELSE UNCHANGED <<logged, buffer>>
    /\ \E polled \in BOOLEAN :
          cancelled' = (cancelled \/ (polled /\ status \in Terminal))
    /\ status' \in {status, "open"}
    /\ pc' = "files"
    /\ UNCHANGED <<driveVars, durable, wanted, pass, cursor, itemsDone, loopVars, stop,
                   boundVars, historyVars>>

\* The feed is applied, or a stop left the rest of it: either way its link is stored.
LeaveFeed ==
    /\ \/ pc = "files" /\ files = {}
       \/ pc \in {"folders", "files"} /\ folders \cup files # {} /\ ShouldStop
    /\ cursor' = [cursor EXCEPT !.link = feed, !.done = itemsDone]
    /\ cut' = cut \cup (folders \ cursor.map) \cup (files \ itemsDone)
    /\ overlooked' = overlooked \cup Older(files \cap itemsDone)
    /\ folders' = {} /\ files' = {}
    /\ pc' = "flush"
    /\ UNCHANGED <<driveVars, rowVars, pass, itemsDone, buffer, feed, stopVars, boundVars,
                   due, owed, dropped, hollow, stale>>

\* Fault seeded for ExcusesHaveCause: the records left in the buffer are not sent.
FlushNothing ==
    /\ pc = "flush"
    /\ pc' = "save"
    /\ UNCHANGED <<driveVars, rowVars, pass, memory, loopVars, stopVars, boundVars, historyVars>>

\* The end of run(): the skip records, then the forced report, which is made or still
\* to be made when the next step fails.
FlushItems ==
    /\ pc = "flush"
    /\ logged' = logged \cup buffer
    /\ buffer' = {}
    /\ status' \in {status, "open"}
    /\ pc' = "save"
    /\ UNCHANGED <<driveVars, durable, wanted, pass, cursor, itemsDone, loopVars, stopVars,
                   boundVars, historyVars>>

\* store.flush, at the end of run() and again in the handler.
SaveCheckpoint ==
    /\ pc = "save"
    /\ durable' = cursor
    /\ pc' = "settle"
    /\ UNCHANGED <<driveVars, logged, status, wanted, pass, memory, loopVars, stopVars,
                   boundVars, historyVars>>

\* The engine forgets the run; skip records still in the buffer are lost. After
\* SIGTERM the process ends, and is started again.
Forget ==
    /\ pc' = "idle"
    /\ cursor' = Empty /\ itemsDone' = {} /\ buffer' = {}
    /\ folders' = {} /\ files' = {} /\ feed' = Nothing
    /\ stop' = FALSE /\ cancelled' = FALSE
    /\ owed' = Nothing
    /\ dropped' = dropped \cup (buffer \ logged')

\* run() returns COMPLETED in every case, so a run that SIGTERM stopped is settled too.
Settle ==
    /\ pc = "settle"
    /\ status' = IF cancelled THEN "cancelled" ELSE "completed"
    /\ wanted' = wanted \ {pass}
    /\ UNCHANGED <<logged, durable>>
    /\ Forget
    /\ UNCHANGED <<driveVars, pass, boundVars, due, cut, hollow, overlooked, stale>>

-------------------------------------------------------------------------------
(* Failures. *)

Sigterm ==
    /\ pc # "idle"
    /\ ~stop
    /\ Fault
    /\ stop' = TRUE
    /\ UNCHANGED <<driveVars, rowVars, pc, pass, memory, loopVars, cancelled, historyVars>>

\* Killed, or throttled while drives, feed or folders are read and made: nothing is
\* flushed and the dispatch comes back. Throttling also reports the job as backing off.
Interrupted ==
    /\ pc # "idle"
    /\ Fault
    /\ UNCHANGED <<logged, durable, wanted>>
    /\ status' \in IF pc \in {"start", "enumerate", "folders"} THEN {status, "open"}
                  ELSE {status}
    /\ Forget
    /\ UNCHANGED <<driveVars, pass, due, cut, hollow, overlooked, stale>>

\* A job-fatal Graph error: run() puts items_done in the cursor on its way out, then
\* records, checkpoint and failure status; the first flush that fails hides the other.
GraphFails ==
    /\ pc \in {"start", "enumerate", "folders", "files"}
    /\ Fault
    /\ \/ UNCHANGED <<logged, durable>>
       \/ /\ logged' = logged \cup buffer
          /\ durable' \in {durable, [cursor EXCEPT !.done = itemsDone]}
    /\ \/ status' = "failed" /\ wanted' = wanted \ {pass}
       \/ UNCHANGED <<status, wanted>>
    /\ Forget
    /\ UNCHANGED <<driveVars, pass, due, cut, hollow, overlooked, stale>>

\* A control-plane call fails: nothing is flushed and the job fails, its failure
\* status perhaps unreported.
CallFails ==
    /\ pc \in {"start", "enumerate", "copied", "beat", "flush", "save", "settle"}
    /\ Fault
    /\ UNCHANGED <<logged, durable>>
    /\ status' \in {status, "failed"}
    /\ wanted' = wanted \ {pass}
    /\ Forget
    /\ UNCHANGED <<driveVars, pass, due, cut, hollow, overlooked, stale>>

-------------------------------------------------------------------------------
Init ==
    /\ source = Start
    /\ dest = [f \in Files |-> 0]
    /\ misplaced = {}
    /\ logged = {} /\ durable = Empty /\ status = "none" /\ wanted = {}
    /\ pc = "idle" /\ pass = "full"
    /\ cursor = Empty /\ itemsDone = {} /\ buffer = {}
    /\ folders = {} /\ files = {} /\ feed = Nothing
    /\ stop = FALSE /\ cancelled = FALSE
    /\ issued = 0 /\ faults = 0
    /\ due = [p \in Passes |-> Nothing] /\ owed = Nothing
    /\ cut = {} /\ dropped = {} /\ hollow = {} /\ overlooked = {} /\ stale = FALSE

Operator == Issue \/ RequestDelta \/ Retry \/ Cancel \/ \E e \in Entries : Write(e)

Run ==
    \/ \E p \in Passes : Begin(p) \/ Discard(p)
    \/ MarkRunning \/ Enumerate
    \/ \E d \in folders : CreateFolder(d)
    \/ FoldersDone
    \/ \E f \in files : SkipFile(f) \/ CopyFile(f)
    \/ MaybeFlush \/ Heartbeat \/ LeaveFeed
    \/ FlushItems \/ SaveCheckpoint \/ Settle

Failure == Sigterm \/ Interrupted \/ GraphFails \/ CallFails

Next == Operator \/ Run \/ Failure

Spec == Init /\ [][Next]_vars

-------------------------------------------------------------------------------
TypeOK ==
    /\ source \in Snapshot /\ dest \in [Files -> 0..MaxVersion]
    /\ misplaced \subseteq Entries
    /\ logged \subseteq Files
    /\ durable \in Cursor
    /\ status \in {"none", "open"} \cup Terminal
    /\ wanted \subseteq Passes
    /\ pc \in {"idle", "start", "enumerate", "folders", "files", "copied", "beat", "flush",
              "save", "settle"}
    /\ pass \in Passes
    /\ cursor \in Cursor
    /\ itemsDone \subseteq Files /\ buffer \subseteq Files
    /\ folders \subseteq Folders /\ files \subseteq Files /\ feed \in Snapshot
    /\ stop \in BOOLEAN /\ cancelled \in BOOLEAN /\ stale \in BOOLEAN
    /\ issued \in 0..MaxPasses /\ faults \in 0..MaxFaults
    /\ due \in [Passes -> Snapshot] /\ owed \in Snapshot
    /\ cut \subseteq Entries /\ dropped \subseteq Files /\ hollow \subseteq Files
    /\ overlooked \subseteq Files

(***************************************************************************)
(* The hierarchy of the source is recreated: a file or folder lands in the *)
(* root of the destination in place of its folder only after a stop left   *)
(* that folder out of a pass whose delta link was stored nevertheless.     *)
(***************************************************************************)
HierarchyKept == \A e \in misplaced : Parent[e] \in cut

\* A file that a pass was asked for, in the version of that moment or a later one, is
\* at the destination, or in a skip record, or excused: cut off by a stop, its record
\* lost with the engine's memory, or emptied while it was copied.
Delivered(f) == \/ dest[f] >= owed[f]
                \/ f \in logged \cup cut \cup dropped \cup hollow

Completes == status # "completed" /\ status' = "completed"

(***************************************************************************)
(* A pass that is reported completed has delivered every file of the drive *)
(* in no older a version than when it was asked for, however many runs,    *)
(* stopped, failed and resumed from whatever checkpoint, it took.  A delta *)
(* pass misses only files passed over because items_done has them          *)
(* (DeltaMovesChanges), and so does a job issued anew during a run, which  *)
(* writes its old checkpoint back: nothing is lost behind the delta link.  *)
(***************************************************************************)
CompletedPass ==
    [][Completes => \A f \in Files :
          Delivered(f) \/ (f \in overlooked /\ (pass = "delta" \/ stale))]_vars

(***************************************************************************)
(* What excuses a pass has a cause: a file or folder is cut off only by a  *)
(* stop or a cancellation, and a record is lost only with a run that was   *)
(* stopped or failed.  A run that just ends flushes every record it holds. *)
(***************************************************************************)
ExcusesHaveCause ==
    [][cut' # cut \/ dropped' # dropped => ShouldStop \/ faults' # faults]_vars

\* The ledger this module implements: a file in items_done or behind the delta link in
\* D1 has reached the destination, is recorded, or is excused.
Covered(c) == c.done \cup {f \in Files : c.link[f] # 0}
Kept == {f \in Files : dest[f] # 0} \cup logged \cup buffer

Ledger == INSTANCE PassLedger WITH
             Items <- Files, covered <- Covered(durable), kept <- Kept,
             excused <- (cut \cap Files) \cup dropped \cup hollow

LedgerSpec == Ledger!Spec

-------------------------------------------------------------------------------
(* What the code's comments say and the code does not do. *)

(***************************************************************************)
(* The delta link is persisted so the next incremental pass only moves     *)
(* changes (onedrive/migrator.py): a delta pass reported completed has     *)
(* moved the changes that were there when it was asked for.                *)
(***************************************************************************)
DeltaMovesChanges ==
    [][Completes /\ pass = "delta" /\ ~stale => \A f \in Files : Delivered(f)]_vars
===============================================================================
