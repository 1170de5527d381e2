------------------------ MODULE OneDriveMigratorProofs ------------------------
(***************************************************************************)
(* Theorems of OneDriveMigrator for any tree of folders and files, any     *)
(* number of versions, passes and failures: type correctness, the kept     *)
(* hierarchy, and that every file behind the resume point in D1 is at the  *)
(* destination, recorded or excused, as the implementation of PassLedger;  *)
(* that a pass reported completed delivered what it owed, or passed over   *)
(* it because items_done had it; and that nothing is excused but in a stop *)
(* or a failure.                                                           *)
(***************************************************************************)
EXTENDS OneDriveMigrator, TLAPS

\* The bounds on requests and failures keep their counters in range.
LEMMA BoundTypes ==
  ASSUME TypeOK, Fault \/ Asked \/ UNCHANGED boundVars
  PROVE  issued' \in 0..MaxPasses /\ faults' \in 0..MaxFaults
  BY DriveBounds DEF TypeOK, Fault, Asked, boundVars

\* The empty cursor is a cursor, and the empty drive a snapshot.
LEMMA EmptyTypes == Nothing \in Snapshot /\ Empty \in Cursor
  BY DriveBounds DEF Nothing, Empty, Snapshot, Cursor

\* Forgetting a run leaves well-typed memory behind.
LEMMA ForgetTypes ==
  ASSUME TypeOK, Forget, logged' \subseteq Files
  PROVE  /\ pc' = "idle" /\ cursor' \in Cursor
         /\ itemsDone' \subseteq Files /\ buffer' \subseteq Files
         /\ folders' \subseteq Folders /\ files' \subseteq Files /\ feed' \in Snapshot
         /\ stop' \in BOOLEAN /\ cancelled' \in BOOLEAN
         /\ owed' \in Snapshot /\ dropped' \subseteq Files
  BY EmptyTypes DEF Forget, TypeOK

\* The initial state is well typed.
LEMMA InitTypes == Init => TypeOK
<1> SUFFICES ASSUME Init PROVE TypeOK
  OBVIOUS
<1>1. /\ issued \in 0..MaxPasses /\ faults \in 0..MaxFaults
      /\ dest \in [Files -> 0..MaxVersion]
  BY DriveBounds DEF Init
<1>2. source \in Snapshot
  BY VersionsBound DEF Init, Snapshot, Entries
<1>3. QED BY <1>1, <1>2, EmptyTypes DEF Init, TypeOK, Passes

\* What operators do and what is written on the drive keeps the types.
LEMMA OperatorTypes == TypeOK /\ Operator => TypeOK'
<1> SUFFICES ASSUME TypeOK, Operator PROVE TypeOK'
  OBVIOUS
<1> USE DEF TypeOK, driveVars, rowVars, memory, loopVars, stopVars, boundVars, historyVars,
            Terminal
<1>1. issued' \in 0..MaxPasses /\ faults' \in 0..MaxFaults
  BY BoundTypes DEF Operator, Issue, RequestDelta, Retry, Ask, Cancel, Write
<1>2. CASE Issue \/ RequestDelta \/ Retry
  <2>1. due' \in [Passes -> Snapshot] /\ durable' \in Cursor /\ wanted' \subseteq Passes
    BY <1>2, EmptyTypes DEF Issue, RequestDelta, Retry, Ask, Passes
  <2>2. QED BY <1>1, <1>2, <2>1 DEF Issue, RequestDelta, Retry, Ask
<1>3. CASE Cancel
  BY <1>1, <1>3 DEF Cancel
<1>4. ASSUME NEW e \in Entries, Write(e) PROVE TypeOK'
  <2>1. source[e] + 1 \in 0..MaxVersion
    BY <1>4, DriveBounds, VersionsBound DEF Write, Snapshot, Entries
  <2>2. source' \in Snapshot
    BY <1>4, <2>1 DEF Write, Snapshot
  <2>3. QED BY <1>1, <1>4, <2>2 DEF Write
<1>5. QED BY <1>2, <1>3, <1>4 DEF Operator

\* The steps of a run keep the types.
LEMMA RunTypes == TypeOK /\ Run => TypeOK'
<1> SUFFICES ASSUME TypeOK, Run PROVE TypeOK'
  OBVIOUS
<1> USE DEF TypeOK, driveVars, rowVars, memory, loopVars, stopVars, boundVars, historyVars,
            Terminal
<1>1. ASSUME NEW p \in Passes, Begin(p) \/ Discard(p) PROVE TypeOK'
  BY <1>1 DEF Begin, Discard, Cursor
<1>2. CASE MarkRunning \/ FoldersDone \/ MaybeFlush \/ SaveCheckpoint
  BY <1>2 DEF MarkRunning, FoldersDone, MaybeFlush, SaveCheckpoint
<1>3. CASE Enumerate
  BY <1>3 DEF Enumerate
<1>4. ASSUME NEW d \in folders, CreateFolder(d) PROVE TypeOK'
  <2>1. d \in Folders /\ d \in Entries
    BY DEF Entries
  <2>2. misplaced' \subseteq Entries
    BY <1>4, <2>1 DEF CreateFolder, Placed
  <2>3. cursor' \in Cursor
    BY <1>4, <2>1 DEF CreateFolder, Cursor
  <2>4. QED BY <1>4, <2>2, <2>3 DEF CreateFolder
<1>5. ASSUME NEW f \in files, SkipFile(f) PROVE TypeOK'
  BY <1>5 DEF SkipFile, Older
<1>6. ASSUME NEW f \in files, CopyFile(f) PROVE TypeOK'
  <2>1. f \in Files /\ f \in Entries /\ source[f] \in 0..MaxVersion
    BY DEF Entries, Snapshot
  <2>2. misplaced' \subseteq Entries /\ dest' \in [Files -> 0..MaxVersion]
    BY <1>6, <2>1 DEF CopyFile, Upload, Placed
  <2>3. itemsDone' \subseteq Files /\ buffer' \subseteq Files /\ hollow' \subseteq Files
    BY <1>6, <2>1 DEF CopyFile
  <2>4. QED BY <1>6, <2>2, <2>3 DEF CopyFile
<1>7. CASE Heartbeat
  BY <1>7 DEF Heartbeat
<1>8. CASE LeaveFeed
  <2>1. cursor' \in Cursor
    BY <1>8 DEF LeaveFeed, Cursor
  <2>2. cut' \subseteq Entries
    BY <1>8 DEF LeaveFeed, Entries
  <2>3. overlooked' \subseteq Files
    BY <1>8 DEF LeaveFeed, Older
  <2>4. QED BY <1>8, <2>1, <2>2, <2>3 DEF LeaveFeed
<1>9. CASE FlushItems
  BY <1>9 DEF FlushItems
<1>10. CASE Settle
  BY <1>10, ForgetTypes DEF Settle
<1>11. QED
  BY <1>1, <1>2, <1>3, <1>4, <1>5, <1>6, <1>7, <1>8, <1>9, <1>10 DEF Run

\* Stops, kills and failures keep the types.
LEMMA FailureTypes == TypeOK /\ Failure => TypeOK'
<1> SUFFICES ASSUME TypeOK, Failure PROVE TypeOK'
  OBVIOUS
<1> USE DEF TypeOK, driveVars, rowVars, memory, loopVars, stopVars, historyVars, Terminal
<1>1. issued' \in 0..MaxPasses /\ faults' \in 0..MaxFaults
  BY BoundTypes DEF Failure, Sigterm, Interrupted, GraphFails, CallFails
<1>2. CASE Sigterm
  BY <1>1, <1>2 DEF Sigterm
<1>3. CASE Interrupted \/ CallFails
  BY <1>1, <1>3, ForgetTypes DEF Interrupted, CallFails
<1>4. CASE GraphFails
  <2>1. logged' \subseteq Files /\ durable' \in Cursor
    BY <1>4 DEF GraphFails, Cursor
  <2>2. QED BY <1>1, <1>4, <2>1, ForgetTypes DEF GraphFails
<1>5. QED BY <1>2, <1>3, <1>4 DEF Failure

\* Every step keeps the types.
LEMMA StepTypes == TypeOK /\ [Next]_vars => TypeOK'
<1>1. ASSUME TypeOK, UNCHANGED vars PROVE TypeOK'
  BY <1>1 DEF TypeOK, vars, driveVars, rowVars, memory, loopVars, stopVars, boundVars,
              historyVars
<1>2. QED BY <1>1, OperatorTypes, RunTypes, FailureTypes DEF Next

(***************************************************************************)
(* Every variable keeps its type.                                          *)
(***************************************************************************)
THEOREM TypeCorrect == Spec => []TypeOK
<1>1. QED BY InitTypes, StepTypes, PTL DEF Spec

-------------------------------------------------------------------------------
(* The feed. *)

Applying == {"folders", "files", "copied", "beat"}

\* A snapshot holds the folder of everything in it.
Closed(snapshot) ==
    \A e \in Entries : snapshot[e] # 0 /\ Parent[e] # Root => snapshot[Parent[e]] # 0

\* The drive and the feed are trees, the feed is a past of the drive, what is left to do
\* is in the feed, and files are copied when no folder is left.
FeedInv ==
    /\ Closed(source) /\ Closed(feed)
    /\ \A e \in Entries : feed[e] # 0 => source[e] # 0
    /\ \A e \in folders \cup files : feed[e] # 0
    /\ pc \in {"files", "copied", "beat"} => folders = {}

\* The drive at the start is a tree, and no feed is read.
LEMMA InitFeed == Init => FeedInv
  BY StartIsTree DEF Init, FeedInv, Closed, Nothing, Entries

\* A write keeps the drive a tree.
LEMMA WriteFeed ==
  ASSUME TypeOK, FeedInv, NEW e \in Entries, Write(e)
  PROVE  FeedInv'
<1>1. \A x \in Entries : source[x] # 0 => source'[x] # 0
  BY DEF Write, TypeOK, Snapshot
<1>2. \A x \in Entries : source'[x] # 0 => x = e \/ source[x] # 0
  BY DEF Write, TypeOK, Snapshot
<1>3. Parent[e] # Root => source[Parent[e]] # 0
  BY DEF Write, There
<1>4. \A x \in Entries : Parent[x] # Root => Parent[x] \in Entries
  BY DriveShape DEF Entries
<1>5. Closed(source)'
  BY <1>1, <1>2, <1>3, <1>4 DEF Closed, FeedInv
<1>6. UNCHANGED <<feed, folders, files, pc>>
  BY DEF Write, loopVars
<1>7. QED BY <1>1, <1>5, <1>6 DEF FeedInv, Closed, TypeOK, Entries

\* Every step keeps the feed a past of the drive.
LEMMA StepFeed == TypeOK /\ FeedInv /\ [Next]_vars => FeedInv'
<1> SUFFICES ASSUME TypeOK, FeedInv, [Next]_vars PROVE FeedInv'
  OBVIOUS
<1> USE DEF driveVars, memory, loopVars
<1>s. ASSUME UNCHANGED <<source, feed>>, folders' \subseteq folders, files' \subseteq files,
             pc' \in {"files", "copied", "beat"} => folders' = {}
      PROVE  FeedInv'
  BY <1>s DEF FeedInv, Closed
<1>f. ASSUME Forget, UNCHANGED source PROVE FeedInv'
  BY <1>f DEF Forget, FeedInv, Closed, Nothing
<1>1. CASE Operator
  <2>1. CASE Issue \/ RequestDelta \/ Retry \/ Cancel
    BY <2>1, <1>s DEF Issue, RequestDelta, Retry, Ask, Cancel, FeedInv
  <2>2. QED BY <1>1, <2>1, WriteFeed DEF Operator
<1>2. CASE Run
  <2>1. CASE \/ \E p \in Passes : Begin(p) \/ Discard(p)
             \/ MarkRunning \/ MaybeFlush \/ Heartbeat
             \/ FlushItems \/ SaveCheckpoint
    BY <2>1, <1>s DEF Begin, Discard, MarkRunning, MaybeFlush, Heartbeat,
                      FlushItems, SaveCheckpoint, FeedInv
  <2>2. CASE Enumerate
    <3>1. /\ UNCHANGED source /\ feed' = source /\ pc' = "folders"
          /\ \A e \in folders' \cup files' : /\ e \in Entries
                                           /\ \/ source[e] > cursor.link[e]
                                              \/ source[e] > Nothing[e]
      BY <2>2 DEF Enumerate, Entries
    <3>2. \A e \in Entries :
             source[e] \in Nat /\ cursor.link[e] \in Nat /\ Nothing[e] = 0
      BY DEF TypeOK, Cursor, Snapshot, Nothing
    <3>3. \A e \in folders' \cup files' : source[e] # 0
      BY <3>1, <3>2
    <3>4. QED BY <3>1, <3>3 DEF FeedInv, Closed
  <2>3. CASE FoldersDone \/ LeaveFeed
    BY <2>3, <1>s DEF FoldersDone, LeaveFeed
  <2>4. CASE \/ \E d \in folders : CreateFolder(d)
             \/ \E f \in files : SkipFile(f) \/ CopyFile(f)
    BY <2>4, <1>s DEF CreateFolder, SkipFile, CopyFile, FeedInv
  <2>5. CASE Settle
    BY <2>5, <1>f DEF Settle
  <2>6. QED BY <1>2, <2>1, <2>2, <2>3, <2>4, <2>5 DEF Run
<1>3. CASE Failure
  BY <1>3, <1>s, <1>f DEF Failure, Sigterm, Interrupted, GraphFails, CallFails, FeedInv
<1>4. CASE UNCHANGED vars
  BY <1>4, <1>s DEF vars, FeedInv
<1>5. QED BY <1>1, <1>2, <1>3, <1>4 DEF Next

-------------------------------------------------------------------------------
(* The hierarchy. *)

\* The folders behind a delta link are mapped, or were cut off.
Known(c) == \A d \in Folders : c.link[d] # 0 => d \in c.map \cup cut

\* Every folder behind a delta link is mapped or was cut off, and so is every folder in
\* the feed but for those left to create: the folder of a file is one of them.
HierarchyInv ==
    /\ HierarchyKept
    /\ Known(durable) /\ Known(cursor)
    /\ pc \in Applying =>
           \A d \in Folders : feed[d] # 0 => d \in folders \cup cursor.map \cup cut

\* No folder is behind the link of the empty cursor.
LEMMA EmptyKnown == Empty.link = Nothing /\ \A d \in Folders : Nothing[d] = 0
  BY DEF Empty, Nothing, Entries

\* Nothing is misplaced at the start.
LEMMA InitHierarchy == Init => HierarchyInv
  BY EmptyKnown DEF Init, HierarchyInv, HierarchyKept, Known, Applying

\* An upload into a folder of the feed, with no such folder left to create, lands there.
LEMMA PlacedKept ==
  ASSUME HierarchyInv, FeedInv, NEW e \in Entries, feed[e] # 0, pc \in Applying,
         Placed(e), Parent[e] \notin folders
  PROVE  \A x \in misplaced' : Parent[x] \in cut
<1>1. Parent[e] # Root => Parent[e] \in Folders /\ feed[Parent[e]] # 0
  BY DriveShape DEF FeedInv, Closed, Entries
<1>2. Parent[e] \in cursor.map \cup {Root} \cup cut
  BY <1>1 DEF HierarchyInv
<1>3. QED BY <1>2 DEF Placed, HierarchyInv, HierarchyKept

\* Every step keeps the hierarchy.
LEMMA StepHierarchy ==
  TypeOK /\ FeedInv /\ HierarchyInv /\ [Next]_vars => HierarchyInv'
<1> SUFFICES ASSUME TypeOK, FeedInv, HierarchyInv, [Next]_vars PROVE HierarchyInv'
  OBVIOUS
<1> USE DEF driveVars, rowVars, memory, loopVars, historyVars
<1>s. ASSUME UNCHANGED <<misplaced, cursor, feed, folders, cut>>,
             durable' \in {durable, cursor, Empty},
             pc' \in Applying => pc \in Applying
      PROVE  HierarchyInv'
  BY <1>s, EmptyKnown DEF HierarchyInv, HierarchyKept, Known
<1>f. ASSUME Forget, UNCHANGED <<misplaced, cut>>,
             \/ durable' \in {durable, cursor}
             \/ durable' = [cursor EXCEPT !.done = itemsDone]
      PROVE  HierarchyInv'
  <2>1. Known(durable)'
    BY <1>f DEF HierarchyInv, Known, TypeOK, Cursor
  <2>2. QED BY <1>f, <2>1, EmptyKnown DEF Forget, HierarchyInv, HierarchyKept, Known, Applying
<1>1. CASE Operator
  BY <1>1, <1>s DEF Operator, Issue, RequestDelta, Retry, Ask, Cancel, Write
<1>2. CASE Run
  <2>1. ASSUME NEW p \in Passes, Begin(p) PROVE HierarchyInv'
    BY <2>1 DEF Begin, HierarchyInv, HierarchyKept, Known, Applying
  <2>2. CASE \/ \E p \in Passes : Discard(p)
             \/ \E f \in files : SkipFile(f)
             \/ MarkRunning \/ FoldersDone \/ MaybeFlush \/ Heartbeat
             \/ FlushItems \/ SaveCheckpoint
    BY <2>2, <1>s DEF Discard, SkipFile, MarkRunning, FoldersDone, MaybeFlush, Heartbeat,
                      FlushItems, SaveCheckpoint, Applying
  <2>3. CASE Enumerate
    <3>1. /\ UNCHANGED <<misplaced, cursor, durable, cut>>
          /\ feed' = source
          /\ \/ folders' = {d \in Folders : source[d] > cursor.link[d]}
             \/ folders' = {d \in Folders : source[d] > Nothing[d]}
      BY <2>3 DEF Enumerate
    <3>2. \A d \in Folders : source[d] \in Nat /\ cursor.link[d] \in Nat
      BY DEF TypeOK, Cursor, Snapshot, Entries
    <3>3. \A d \in Folders : source[d] # 0 => d \in folders' \/ cursor.link[d] # 0
      BY <3>1, <3>2, EmptyKnown
    <3>4. QED BY <3>1, <3>3 DEF HierarchyInv, HierarchyKept, Known
  <2>4. ASSUME NEW d \in folders, CreateFolder(d) PROVE HierarchyInv'
    <3>1. d \in Folders /\ d \in Entries /\ feed[d] # 0 /\ pc = "folders" /\ pc' = pc
      BY <2>4 DEF CreateFolder, TypeOK, Entries, FeedInv
    <3>2. CASE d \in cursor.map
      BY <2>4, <3>1, <3>2 DEF CreateFolder, HierarchyInv, HierarchyKept, Known
    <3>3. CASE d \notin cursor.map
      <4>1. Parent[d] \notin folders
        <5>1. ASSUME Parent[d] \in folders PROVE FALSE
          <6>1. Parent[d] \in Folders /\ Depth[d] \in Nat /\ Depth[Parent[d]] \in Nat
            BY <3>1, <5>1, DriveShape DEF TypeOK
          <6>2. Depth[Parent[d]] < Depth[d] /\ Depth[d] <= Depth[Parent[d]]
            BY <2>4, <3>1, <5>1, <6>1, DriveShape DEF CreateFolder
          <6>3. QED BY <6>1, <6>2
        <5>2. QED BY <5>1
      <4>2. Placed(d) /\ UNCHANGED <<durable, feed, cut>>
            /\ cursor' = [cursor EXCEPT !.map = @ \cup {d}] /\ folders' = folders \ {d}
        BY <2>4, <3>3 DEF CreateFolder
      <4>3. \A x \in misplaced' : Parent[x] \in cut
        BY <3>1, <4>1, <4>2, PlacedKept DEF Applying
      <4>4. cursor'.map = cursor.map \cup {d} /\ cursor'.link = cursor.link
        BY <4>2 DEF TypeOK, Cursor
      <4>5. QED BY <3>1, <4>2, <4>3, <4>4 DEF HierarchyInv, HierarchyKept, Known, Applying
    <3>4. QED BY <3>2, <3>3
  <2>5. ASSUME NEW f \in files, CopyFile(f) PROVE HierarchyInv'
    <3>1. /\ f \in Entries /\ feed[f] # 0 /\ folders = {} /\ pc = "files" /\ pc' = "copied"
          /\ UNCHANGED <<cursor, durable, feed, cut, folders>>
          /\ Placed(f) \/ UNCHANGED misplaced
      BY <2>5 DEF CopyFile, Upload, TypeOK, Entries, FeedInv
    <3>2. \A x \in misplaced' : Parent[x] \in cut
      BY <3>1, PlacedKept DEF Applying, HierarchyInv, HierarchyKept
    <3>3. QED BY <3>1, <3>2 DEF HierarchyInv, HierarchyKept, Known, Applying
  <2>6. CASE LeaveFeed
    <3>1. /\ UNCHANGED <<misplaced, durable>>
          /\ cursor'.map = cursor.map /\ cursor'.link = feed
          /\ cut \cup (folders \ cursor.map) \subseteq cut'
          /\ pc \in Applying /\ pc' = "flush"
      BY <2>6 DEF LeaveFeed, TypeOK, Cursor, Applying
    <3>2. QED BY <3>1 DEF HierarchyInv, HierarchyKept, Known, Applying
  <2>7. CASE Settle
    BY <2>7, <1>f DEF Settle
  <2>8. QED BY <1>2, <2>1, <2>2, <2>3, <2>4, <2>5, <2>6, <2>7 DEF Run
<1>3. CASE Failure
  <2>1. CASE Sigterm
    BY <2>1, <1>s DEF Sigterm
  <2>2. CASE Interrupted \/ GraphFails \/ CallFails
    BY <2>2, <1>f DEF Interrupted, GraphFails, CallFails
  <2>3. QED BY <1>3, <2>1, <2>2 DEF Failure
<1>4. CASE UNCHANGED vars
  BY <1>4, <1>s DEF vars
<1>5. QED BY <1>1, <1>2, <1>3, <1>4 DEF Next

(***************************************************************************)
(* Whatever the tree, nothing is uploaded outside its folder but for a     *)
(* folder that a stop cut off.                                             *)
(***************************************************************************)
THEOREM HierarchyIsKept == Spec => []HierarchyKept
<1>1. HierarchyInv => HierarchyKept
  BY DEF HierarchyInv
<1>2. QED
  BY <1>1, InitTypes, StepTypes, InitFeed, StepFeed, InitHierarchy, StepHierarchy, PTL
     DEF Spec

-------------------------------------------------------------------------------
(* The ledger. *)

\* Files at the destination, recorded or excused.
Accounted == Kept \cup cut \cup dropped \cup hollow

\* No cursor is ahead of the account, nor are the files the run has done, nor the link
\* that the run will store, but for the files still to do. No record waits while no
\* run is going on.
LedgerInv ==
    /\ Covered(durable) \subseteq Accounted
    /\ Covered(cursor) \subseteq Accounted
    /\ itemsDone \subseteq Accounted
    /\ pc \in Applying =>
           \A f \in Files : feed[f] # 0 => f \in files \cup Accounted
    /\ pc = "idle" => buffer = {}

\* The empty cursor covers nothing.
LEMMA EmptyCoversNothing == Covered(Empty) = {}
  BY DEF Covered, Empty, Nothing, Entries

\* Forgetting a run moves the records that are lost from one account to another.
LEMMA ForgetAccount ==
  ASSUME Forget, UNCHANGED <<dest, cut, hollow>>, logged \subseteq logged'
  PROVE  /\ Accounted \subseteq Accounted'
         /\ pc' = "idle" /\ buffer' = {} /\ itemsDone' = {} /\ cursor' = Empty
  BY DEF Forget, Accounted, Kept

\* Nothing is on the account before the first job.
LEMMA InitLedger == Init => LedgerInv
  BY EmptyCoversNothing DEF Init, LedgerInv, Applying

\* A copied file is accounted for, and the others stay so.
LEMMA CopyAccount ==
  ASSUME TypeOK, FeedInv, NEW f \in files, CopyFile(f)
  PROVE  /\ Accounted \subseteq Accounted' /\ f \in Accounted'
         /\ files' = files \ {f} /\ itemsDone' \subseteq itemsDone \cup {f}
         /\ UNCHANGED <<durable, cursor, feed>> /\ pc = "files" /\ pc' = "copied"
<1>1. f \in Files /\ source[f] # 0
  BY DEF TypeOK, FeedInv, Entries
<1>2. UNCHANGED <<logged, cut, dropped, durable, cursor, feed>>
  BY DEF CopyFile, rowVars
<1>3. Upload(f) => \A x \in Files : dest[x] # 0 \/ x = f => dest'[x] # 0
  BY <1>1 DEF Upload, TypeOK
<1>4. \/ /\ itemsDone' = itemsDone \cup {f} /\ UNCHANGED buffer
         /\ Upload(f) /\ hollow \subseteq hollow'
      \/ itemsDone' = itemsDone \cup {f} /\ UNCHANGED <<buffer, dest>> /\ hollow' = hollow \cup {f}
      \/ /\ buffer' = buffer \cup {f} /\ UNCHANGED <<itemsDone, hollow>>
         /\ Upload(f) \/ UNCHANGED dest
  BY DEF CopyFile
<1>5. Accounted \subseteq Accounted' /\ f \in Accounted'
  BY <1>1, <1>2, <1>3, <1>4 DEF Accounted, Kept
<1>6. QED BY <1>2, <1>4, <1>5 DEF CopyFile

\* Every step keeps every cursor behind the account.
LEMMA StepLedger == TypeOK /\ FeedInv /\ LedgerInv /\ [Next]_vars => LedgerInv'
<1> SUFFICES ASSUME TypeOK, FeedInv, LedgerInv, [Next]_vars PROVE LedgerInv'
  OBVIOUS
<1> USE DEF driveVars, rowVars, memory, loopVars, historyVars
<1>s. ASSUME Accounted \subseteq Accounted', UNCHANGED <<cursor, itemsDone, feed>>,
             durable' \in {durable, cursor, Empty},
             pc' \in Applying => pc \in Applying,
             pc' \in Applying => files \subseteq files' \cup Accounted',
             pc' = "idle" => buffer' = {}
      PROVE  LedgerInv'
  BY <1>s, EmptyCoversNothing DEF LedgerInv, Covered
<1>f. ASSUME Forget, UNCHANGED <<dest, cut, hollow>>, logged \subseteq logged',
             \/ durable' \in {durable, cursor}
             \/ durable' = [cursor EXCEPT !.done = itemsDone]
      PROVE  LedgerInv'
  <2>1. Covered(durable') \subseteq Covered(durable) \cup Covered(cursor) \cup itemsDone
    BY <1>f DEF Covered, TypeOK, Cursor
  <2>2. Covered(durable)' = Covered(durable') /\ Covered(cursor)' = {}
    BY <1>f, ForgetAccount, EmptyCoversNothing DEF Covered
  <2>3. QED BY <1>f, <2>1, <2>2, ForgetAccount DEF LedgerInv, Applying
<1>1. CASE Operator
  BY <1>1, <1>s DEF Operator, Issue, RequestDelta, Retry, Ask, Cancel, Write, Accounted, Kept,
                    LedgerInv
<1>2. CASE Run
  <2>1. ASSUME NEW p \in Passes, Begin(p) PROVE LedgerInv'
    BY <2>1 DEF Begin, LedgerInv, Covered, Accounted, Kept, Applying
  <2>2. CASE \/ \E p \in Passes : Discard(p)
             \/ MarkRunning \/ FoldersDone \/ MaybeFlush \/ Heartbeat
             \/ FlushItems \/ SaveCheckpoint
    BY <2>2, <1>s DEF Discard, MarkRunning, FoldersDone, MaybeFlush, Heartbeat,
                      FlushItems, SaveCheckpoint, Applying, Accounted, Kept, LedgerInv
  <2>3. CASE Enumerate
    <3>1. /\ Accounted' = Accounted /\ UNCHANGED <<cursor, durable, itemsDone>>
          /\ feed' = source /\ pc' = "folders"
          /\ \/ files' = {f \in Files : source[f] > cursor.link[f]}
             \/ files' = {f \in Files : source[f] > Nothing[f]}
      BY <2>3 DEF Enumerate, Accounted, Kept
    <3>2. \A f \in Files :
             source[f] \in Nat /\ cursor.link[f] \in Nat /\ Nothing[f] = 0
      BY DEF TypeOK, Cursor, Snapshot, Nothing, Entries
    <3>3. \A f \in Files : source[f] # 0 => f \in files' \/ cursor.link[f] # 0
      BY <3>1, <3>2
    <3>4. QED BY <3>1, <3>3 DEF LedgerInv, Covered
  <2>4. ASSUME NEW d \in folders, CreateFolder(d) PROVE LedgerInv'
    <3>1. cursor'.done = cursor.done /\ cursor'.link = cursor.link
      BY <2>4 DEF CreateFolder, TypeOK, Cursor
    <3>2. QED BY <2>4, <3>1 DEF CreateFolder, LedgerInv, Covered, Accounted, Kept, Applying
  <2>5. ASSUME NEW f \in files, SkipFile(f) PROVE LedgerInv'
    <3>1. Accounted' = Accounted /\ f \in Accounted
      BY <2>5 DEF SkipFile, Accounted, Kept, LedgerInv
    <3>2. QED BY <2>5, <3>1, <1>s DEF SkipFile, LedgerInv
  <2>6. ASSUME NEW f \in files, CopyFile(f) PROVE LedgerInv'
    BY <2>6, CopyAccount DEF LedgerInv, Covered, Applying
  <2>7. CASE LeaveFeed
    <3>1. /\ Accounted' = Accounted \cup (folders \ cursor.map) \cup (files \ itemsDone)
          /\ UNCHANGED <<durable, itemsDone, buffer>>
          /\ pc \in Applying /\ pc' = "flush"
      BY <2>7 DEF LeaveFeed, Accounted, Kept, Applying
    <3>2. Covered(cursor') = itemsDone \cup {f \in Files : feed[f] # 0}
      BY <2>7 DEF LeaveFeed, Covered, TypeOK, Cursor
    <3>3. Covered(cursor)' = Covered(cursor') /\ Covered(durable)' = Covered(durable)
      BY <3>1 DEF Covered
    <3>4. QED BY <3>1, <3>2, <3>3 DEF LedgerInv, Applying
  <2>8. CASE Settle
    BY <2>8, <1>f DEF Settle
  <2>9. QED BY <1>2, <2>1, <2>2, <2>3, <2>4, <2>5, <2>6, <2>7, <2>8 DEF Run
<1>3. CASE Failure
  <2>1. CASE Sigterm
    BY <2>1, <1>s DEF Sigterm, Accounted, Kept, LedgerInv
  <2>2. CASE Interrupted \/ GraphFails \/ CallFails
    BY <2>2, <1>f DEF Interrupted, GraphFails, CallFails
  <2>3. QED BY <1>3, <2>1, <2>2 DEF Failure
<1>4. CASE UNCHANGED vars
  BY <1>4, <1>s DEF vars, Accounted, Kept, LedgerInv
<1>5. QED BY <1>1, <1>2, <1>3, <1>4 DEF Next

-------------------------------------------------------------------------------
(* The steps of the migrator as steps of the ledger. *)

Excused == (cut \cap Files) \cup dropped \cup hollow

\* A cursor behind the account is an advance of the resume point.
LEMMA AdvanceImplements ==
  ASSUME NEW c \in Cursor, Covered(c) \subseteq Accounted, durable' = c,
         Kept' = Kept, Excused' = Excused
  PROVE  [Ledger!Next]_(Ledger!vars)
<1>1. Covered(c) \in SUBSET Files
  BY DEF Covered, Cursor
<1>2. Ledger!Advance(Covered(c))
  BY <1>1 DEF Ledger!Advance, Covered, Accounted, Excused
<1>3. QED BY <1>1, <1>2 DEF Ledger!Next

\* A run forgotten with no flush before excuses the records in its buffer.
LEMMA ForgetImplements ==
  ASSUME TypeOK, Forget, UNCHANGED <<dest, cut, hollow, logged, durable>>
  PROVE  [Ledger!Next]_(Ledger!vars)
<1> DEFINE given == buffer \ logged
           lost == given \ {f \in Files : dest[f] # 0}
<1>1. given \in SUBSET Files /\ lost \in SUBSET Files
  BY DEF TypeOK
<1>2. dropped' = dropped \cup given /\ buffer' = {}
  BY DEF Forget
<1>3. Kept' = Kept \ lost
  BY <1>2 DEF Kept
<1>4. Excused' = Excused \cup given
  BY <1>2 DEF Excused
<1>5. Ledger!Excuse(given, lost)
  BY <1>3, <1>4 DEF Ledger!Excuse, Covered, Excused
<1>6. QED BY <1>1, <1>5 DEF Ledger!Next

\* After a flush of the records no record is lost, and the resume point may advance.
LEMMA FlushedForgetImplements ==
  ASSUME TypeOK, LedgerInv, Forget, UNCHANGED <<dest, cut, hollow>>,
         logged' = logged \cup buffer,
         durable' \in {durable, [cursor EXCEPT !.done = itemsDone]}
  PROVE  [Ledger!Next]_(Ledger!vars)
<1> DEFINE left == [cursor EXCEPT !.done = itemsDone]
<1>1. dropped' = dropped /\ Kept' = Kept /\ Excused' = Excused
  BY DEF Forget, Kept, Excused
<1>2. left \in Cursor /\ Covered(left) \subseteq Accounted
  BY DEF TypeOK, Cursor, LedgerInv, Covered
<1>3. durable \in Cursor /\ Covered(durable) \subseteq Accounted
  BY DEF TypeOK, LedgerInv
<1>4. QED BY <1>1, <1>2, <1>3, AdvanceImplements

\* A file copied is kept, unless its upload was hollow.
LEMMA CopyImplements ==
  ASSUME TypeOK, FeedInv, NEW f \in files, CopyFile(f)
  PROVE  [Ledger!Next]_(Ledger!vars)
<1>1. {f} \in SUBSET Files /\ {} \in SUBSET Files /\ source[f] # 0
  BY DEF TypeOK, FeedInv, Entries
<1>2. UNCHANGED <<logged, cut, dropped, durable>>
  BY DEF CopyFile, rowVars
<1>3. Upload(f) => {x \in Files : dest'[x] # 0} = {x \in Files : dest[x] # 0} \cup {f}
  BY <1>1 DEF Upload, TypeOK
<1>4. CASE Upload(f) /\ UNCHANGED <<buffer, hollow>>
  <2>1. Kept' = Kept \cup {f} /\ Excused' = Excused
    BY <1>2, <1>3, <1>4 DEF Kept, Excused
  <2>2. Ledger!Keep({f})
    BY <1>2, <2>1 DEF Ledger!Keep, Covered, Excused
  <2>3. QED BY <1>1, <2>2 DEF Ledger!Next
<1>5. CASE UNCHANGED <<buffer, dest>> /\ hollow' = hollow \cup {f}
  <2>1. Kept' = Kept \ {} /\ Excused' = Excused \cup {f}
    BY <1>2, <1>5 DEF Kept, Excused
  <2>2. Ledger!Excuse({f}, {})
    BY <1>2, <2>1 DEF Ledger!Excuse, Covered, Excused
  <2>3. QED BY <1>1, <2>2 DEF Ledger!Next
<1>6. CASE buffer' = buffer \cup {f} /\ UNCHANGED hollow /\ (Upload(f) \/ UNCHANGED dest)
  <2>1. Kept' = Kept \cup {f} /\ Excused' = Excused
    BY <1>2, <1>3, <1>6 DEF Kept, Excused
  <2>2. Ledger!Keep({f})
    BY <1>2, <2>1 DEF Ledger!Keep, Covered, Excused
  <2>3. QED BY <1>1, <2>2 DEF Ledger!Next
<1>7. \/ Upload(f) /\ UNCHANGED <<buffer, hollow>>
      \/ UNCHANGED <<buffer, dest>> /\ hollow' = hollow \cup {f}
      \/ buffer' = buffer \cup {f} /\ UNCHANGED hollow /\ (Upload(f) \/ UNCHANGED dest)
  <2>1. Upload(f) => hollow \cup {x \in {f} : Vanishes(x)} = hollow
    BY DEF Upload
  <2>2. Vanishes(f) => hollow \cup {x \in {f} : Vanishes(x)} = hollow \cup {f}
    OBVIOUS
  <2>3. QED BY <2>1, <2>2 DEF CopyFile
<1>8. QED BY <1>4, <1>5, <1>6, <1>7

\* Every step is a step of the ledger or leaves it alone.
LEMMA StepImplements ==
  TypeOK /\ FeedInv /\ LedgerInv /\ [Next]_vars => [Ledger!Next]_(Ledger!vars)
<1> SUFFICES ASSUME TypeOK, FeedInv, LedgerInv, [Next]_vars PROVE [Ledger!Next]_(Ledger!vars)
  OBVIOUS
<1> USE DEF driveVars, rowVars, memory, loopVars, historyVars
<1>s. ASSUME UNCHANGED <<durable, dest, logged, buffer, cut, dropped, hollow>>
      PROVE  [Ledger!Next]_(Ledger!vars)
  BY <1>s DEF Ledger!vars, Covered, Kept
<1>1. CASE Operator
  <2>1. CASE Issue
    <3>1. Kept' = Kept /\ Excused' = Excused /\ durable' = Empty
      BY <2>1 DEF Issue, Ask, Kept, Excused
    <3>2. QED BY <3>1, EmptyTypes, EmptyCoversNothing, AdvanceImplements
  <2>2. CASE RequestDelta \/ Retry \/ Cancel \/ \E e \in Entries : Write(e)
    BY <2>2, <1>s DEF RequestDelta, Retry, Ask, Cancel, Write
  <2>3. QED BY <1>1, <2>1, <2>2 DEF Operator
<1>2. CASE Run
  <2>1. ASSUME NEW p \in Passes, Begin(p) PROVE [Ledger!Next]_(Ledger!vars)
    BY <2>1, <1>s DEF Begin, LedgerInv
  <2>2. CASE \E f \in files : CopyFile(f)
    BY <2>2, CopyImplements
  <2>3. CASE LeaveFeed
    <3>1. files \ itemsDone \in SUBSET Files /\ {} \in SUBSET Files
          /\ folders \cap Files = {}
      BY DriveShape DEF TypeOK
    <3>2. Excused' = Excused \cup (files \ itemsDone) /\ Kept' = Kept
      BY <2>3, <3>1 DEF LeaveFeed, Excused, Kept
    <3>3. Ledger!Excuse(files \ itemsDone, {})
      BY <2>3, <3>2 DEF LeaveFeed, Ledger!Excuse, Excused, Covered
    <3>4. QED BY <3>1, <3>3 DEF Ledger!Next
  <2>4. CASE MaybeFlush \/ Heartbeat \/ FlushItems \/ SaveCheckpoint
    <3>1. Kept' = Kept /\ Excused' = Excused /\ durable' \in {durable, cursor}
      BY <2>4 DEF MaybeFlush, Heartbeat, FlushItems, SaveCheckpoint, Kept, Excused
    <3>2. PICK c \in Cursor : durable' = c /\ Covered(c) \subseteq Accounted
      BY <3>1 DEF TypeOK, LedgerInv
    <3>3. QED BY <3>1, <3>2, AdvanceImplements
  <2>5. CASE Settle
    BY <2>5, ForgetImplements DEF Settle
  <2>6. CASE \/ \E p \in Passes : Discard(p)
             \/ \E d \in folders : CreateFolder(d)
             \/ \E f \in files : SkipFile(f)
             \/ MarkRunning \/ Enumerate \/ FoldersDone
    BY <2>6, <1>s DEF Discard, CreateFolder, SkipFile, MarkRunning, Enumerate, FoldersDone
  <2>7. QED BY <1>2, <2>1, <2>2, <2>3, <2>4, <2>5, <2>6 DEF Run
<1>3. CASE Failure
  <2>1. CASE Sigterm
    BY <2>1, <1>s DEF Sigterm
  <2>2. CASE Interrupted \/ CallFails
    BY <2>2, ForgetImplements DEF Interrupted, CallFails
  <2>3. CASE GraphFails
    BY <2>3, ForgetImplements, FlushedForgetImplements DEF GraphFails
  <2>4. QED BY <1>3, <2>1, <2>2, <2>3 DEF Failure
<1>4. CASE UNCHANGED vars
  BY <1>4, <1>s DEF vars
<1>5. QED BY <1>1, <1>2, <1>3, <1>4 DEF Next

\* An empty account at the start.
LEMMA InitImplements == Init => Ledger!Init
  BY EmptyCoversNothing DEF Init, Ledger!Init, Kept

(***************************************************************************)
(* The migrator implements the ledger: through every interleaving of runs, *)
(* stops, kills, failures and requests, items_done and the delta link in   *)
(* D1 are behind what was copied, recorded or excused.                     *)
(***************************************************************************)
THEOREM Implements == Spec => LedgerSpec
<1>1. Spec => [](TypeOK /\ FeedInv /\ LedgerInv)
  BY InitTypes, StepTypes, InitFeed, StepFeed, InitLedger, StepLedger, PTL DEF Spec
<1>2. QED BY <1>1, InitImplements, StepImplements, PTL DEF Spec, LedgerSpec, Ledger!Spec

-------------------------------------------------------------------------------
(* Delivery: what a full pass that completes leaves behind. *)

\* The files that are at the destination as they were when the job was issued, or later,
\* or are recorded or excused.
Met == {f \in Files : dest[f] >= due["full"][f]} \cup logged \cup cut \cup dropped \cup hollow

\* What the cursors and the run count as done is met, unless the job was issued anew
\* during a run; and so is, in a full pass, every file but for those left to copy and the
\* records that are still to be written.
DeliveryInv ==
    /\ \A e \in Entries : due["full"][e] <= source[e]
    /\ pc = "idle" => cursor = Empty /\ itemsDone = {}
    /\ ~stale => durable.done \cup cursor.done \cup itemsDone \subseteq Met
    /\ ~stale /\ pass = "full" =>
          /\ pc # "idle" => owed = due["full"]
          /\ pc \in Applying => Files \subseteq Met \cup files \cup buffer
          /\ pc = "flush" => Files \subseteq Met \cup buffer
          /\ pc \in {"save", "settle"} => Files \subseteq Met

\* Nothing is owed before the first job.
LEMMA InitDelivery == Init => DeliveryInv
<1>1. Empty.done = {} /\ \A e \in Entries : Nothing[e] = 0
  BY DEF Empty, Nothing
<1>2. Init => \A e \in Entries : Start[e] \in Nat /\ due["full"][e] = 0
  BY <1>1, DriveBounds, VersionsBound DEF Init, Passes, Entries
<1>3. QED BY <1>1, <1>2 DEF Init, DeliveryInv, Applying

\* A copied file is met or waits on record, since the drive is not older than the job.
LEMMA CopyDelivers ==
  ASSUME TypeOK, DeliveryInv, NEW f \in files, CopyFile(f)
  PROVE  /\ Met \subseteq Met' /\ f \in Met' \cup buffer'
         /\ itemsDone' \subseteq itemsDone \cup Met'
         /\ buffer \subseteq buffer' /\ files' = files \ {f}
         /\ UNCHANGED <<durable, cursor, due, owed, source, stale, pass>>
         /\ pc = "files" /\ pc' = "copied"
<1>1. /\ f \in Files /\ f \in Entries /\ source[f] \in Nat
      /\ \A x \in Files : dest[x] \in Nat /\ due["full"][x] \in Nat
  BY DEF TypeOK, Entries, Snapshot, Passes
<1>2. /\ UNCHANGED <<logged, cut, dropped, durable, cursor, due, owed, source, stale, pass>>
      /\ pc = "files" /\ pc' = "copied" /\ files' = files \ {f}
  BY DEF CopyFile, rowVars
<1>3. due["full"][f] <= source[f]
  BY <1>1 DEF DeliveryInv
<1>4. Upload(f) => /\ \A x \in Files : dest[x] >= due["full"][x] => dest'[x] >= due["full"][x]
                   /\ dest'[f] >= due["full"][f]
  BY <1>1, <1>3 DEF Upload, TypeOK
<1>5. \/ /\ itemsDone' = itemsDone \cup {f} /\ UNCHANGED buffer
         /\ Upload(f) /\ hollow \subseteq hollow'
      \/ itemsDone' = itemsDone \cup {f} /\ UNCHANGED <<buffer, dest>> /\ hollow' = hollow \cup {f}
      \/ /\ buffer' = buffer \cup {f} /\ UNCHANGED <<itemsDone, hollow>>
         /\ Upload(f) \/ UNCHANGED dest
  BY DEF CopyFile
<1>6. /\ Met \subseteq Met'
      /\ Upload(f) \/ f \in hollow' => f \in Met'
  BY <1>1, <1>2, <1>4, <1>5 DEF Met
<1>7. QED BY <1>2, <1>5, <1>6

\* Every step keeps the delivery.
LEMMA StepDelivery ==
  TypeOK /\ DeliveryInv /\ [Next]_vars => DeliveryInv'
<1> SUFFICES ASSUME TypeOK, DeliveryInv, [Next]_vars PROVE DeliveryInv'
  OBVIOUS
<1> USE DEF driveVars, rowVars, memory, loopVars, historyVars
<1>0. Empty.done = {}
  BY DEF Empty
<1>m. ASSUME UNCHANGED dest, due'["full"] = due["full"],
             logged \subseteq logged', cut \subseteq cut', dropped \subseteq dropped',
             hollow \subseteq hollow'
      PROVE  Met \subseteq Met'
  BY <1>m DEF Met
<1>s. ASSUME Met \subseteq Met', UNCHANGED <<source, owed, stale, pass>>,
             due'["full"] = due["full"],
             durable'.done \subseteq durable.done \cup cursor.done,
             cursor'.done = cursor.done, itemsDone' = itemsDone,
             pc' = "idle" => pc = "idle" /\ UNCHANGED <<cursor, itemsDone>>,
             pc' # "idle" => pc # "idle",
             pc' \in Applying =>
                 /\ pc \in Applying
                 /\ files \cup buffer \subseteq Met' \cup files' \cup buffer',
             pc' = "flush" => pc = "flush" /\ buffer \subseteq buffer',
             pc' \in {"save", "settle"} => pc \in {"save", "settle"}
      PROVE  DeliveryInv'
  BY <1>s DEF DeliveryInv
<1>f. ASSUME Forget, UNCHANGED <<source, dest, due, cut, hollow, stale>>, logged \subseteq logged',
             \/ durable' \in {durable, cursor}
             \/ durable' = [cursor EXCEPT !.done = itemsDone]
      PROVE  DeliveryInv'
  <2>1. Met \subseteq Met'
    BY <1>f, <1>m DEF Forget
  <2>2. durable'.done \subseteq durable.done \cup cursor.done \cup itemsDone
    BY <1>f DEF TypeOK, Cursor
  <2>3. cursor' = Empty /\ itemsDone' = {} /\ pc' = "idle"
    BY <1>f DEF Forget
  <2>4. QED BY <1>0, <1>f, <2>1, <2>2, <2>3 DEF DeliveryInv, Applying
<1>1. CASE Operator
  <2>1. CASE Issue
    <3>1. due'["full"] = source /\ durable' = Empty /\ stale' = (pc # "idle")
          /\ UNCHANGED <<source, pc, cursor, itemsDone>>
      BY <2>1 DEF Issue, Ask, TypeOK, Passes
    <3>2. \A e \in Entries : source[e] <= source[e]
      BY DEF TypeOK, Snapshot
    <3>3. QED BY <1>0, <3>1, <3>2 DEF DeliveryInv, Applying
  <2>2. CASE RequestDelta \/ Retry \/ Cancel
    <3>1. due'["full"] = due["full"]
      BY <2>2 DEF RequestDelta, Retry, Cancel, Ask, TypeOK, Passes
    <3>2. /\ UNCHANGED <<source, dest, durable, pc, pass, cursor, itemsDone, buffer, files, owed,
                        stale, logged, cut, dropped, hollow>>
      BY <2>2 DEF RequestDelta, Retry, Cancel, Ask
    <3>3. Met \subseteq Met'
      BY <1>m, <3>1, <3>2
    <3>4. QED BY <1>s, <3>1, <3>2, <3>3 DEF Applying
  <2>3. ASSUME NEW e \in Entries, Write(e) PROVE DeliveryInv'
    <3>1. /\ \A x \in Entries : source[x] \in Nat /\ due["full"][x] \in Nat
          /\ UNCHANGED <<dest, durable, pc, pass, cursor, itemsDone, buffer, files, owed, due,
                         stale, logged, cut, dropped, hollow>>
      BY <2>3 DEF Write, TypeOK, Snapshot, Passes
    <3>2. source' = [source EXCEPT ![e] = source[e] + 1] /\ source \in Snapshot
      BY <2>3 DEF Write, TypeOK
    <3>3. \A x \in Entries : source'[x] = source[x] \/ source'[x] = source[x] + 1
      BY <3>2 DEF Snapshot
    <3>4. \A x \in Entries : due'["full"][x] <= source'[x]
      BY <3>1, <3>3 DEF DeliveryInv
    <3>5. Met' = Met
      BY <3>1 DEF Met
    <3>6. QED BY <3>1, <3>4, <3>5 DEF DeliveryInv
  <2>4. QED BY <1>1, <2>1, <2>2, <2>3 DEF Operator
<1>2. CASE Run
  <2>1. ASSUME NEW p \in Passes, Begin(p) PROVE DeliveryInv'
    <3>1. /\ pass' = p /\ owed' = due[p] /\ cursor' = durable /\ itemsDone' = durable.done
          /\ pc' = "start" /\ UNCHANGED <<source, due, durable, stale>>
      BY <2>1 DEF Begin
    <3>2. Met' = Met
      BY <2>1 DEF Begin, Met
    <3>3. QED BY <3>1, <3>2 DEF DeliveryInv, Applying
  <2>2. CASE (\E p \in Passes : Discard(p)) \/ MarkRunning \/ FoldersDone \/ MaybeFlush
    <3>1. /\ UNCHANGED <<source, dest, pass, cursor, itemsDone, buffer, files, owed, due,
                        stale, logged, cut, dropped, hollow>>
          /\ durable' \in {durable, cursor}
          /\ \/ pc' = pc
             \/ pc \in Applying /\ pc' \in Applying
             \/ pc = "start" /\ pc' = "enumerate"
      BY <2>2 DEF Discard, MarkRunning, FoldersDone, MaybeFlush, Applying
    <3>2. Met \subseteq Met'
      BY <1>m, <3>1
    <3>3. QED BY <1>s, <3>1, <3>2 DEF Applying
  <2>3. CASE Heartbeat
    <3>1. /\ UNCHANGED <<source, dest, durable, pass, cursor, itemsDone, files, owed, due,
                        stale, cut, dropped, hollow>>
          /\ logged \subseteq logged' /\ buffer \subseteq logged' \cup buffer'
          /\ pc = "beat" /\ pc' = "files"
      BY <2>3 DEF Heartbeat
    <3>2. Met \subseteq Met' /\ logged' \subseteq Met'
      BY <1>m, <3>1 DEF Met
    <3>3. QED BY <1>s, <3>1, <3>2 DEF Applying
  <2>4. CASE Enumerate
    <3>1. /\ UNCHANGED <<source, durable, pass, cursor, itemsDone, owed, due, stale>>
          /\ pc = "enumerate" /\ pc' = "folders"
          /\ pass = "full" => files' = {f \in Files : source[f] > Nothing[f]}
      BY <2>4 DEF Enumerate
    <3>2. Met' = Met
      BY <2>4 DEF Enumerate, Met
    <3>3. \A f \in Files : /\ source[f] \in Nat /\ due["full"][f] \in Nat /\ dest[f] \in Nat
                           /\ Nothing[f] = 0 /\ due["full"][f] <= source[f]
      BY DEF TypeOK, Snapshot, Nothing, Entries, Passes, DeliveryInv
    <3>4. pass = "full" => Files \subseteq Met \cup files'
      <4>1. ASSUME pass = "full", NEW f \in Files, f \notin files' PROVE f \in Met
        <5>1. ~(source[f] > 0)
          BY <3>1, <3>3, <4>1
        <5>2. dest[f] >= due["full"][f]
          BY <3>3, <5>1
        <5>3. QED BY <5>2 DEF Met
      <4>2. QED BY <4>1
    <3>5. QED BY <3>1, <3>2, <3>4 DEF DeliveryInv, Applying
  <2>5. ASSUME NEW d \in folders, CreateFolder(d) PROVE DeliveryInv'
    <3>1. cursor'.done = cursor.done
      BY <2>5 DEF CreateFolder, TypeOK, Cursor
    <3>2. /\ UNCHANGED <<source, dest, durable, pass, itemsDone, buffer, files, owed, due,
                        stale, logged, cut, dropped, hollow, pc>>
          /\ pc = "folders"
      BY <2>5 DEF CreateFolder
    <3>3. Met \subseteq Met'
      BY <1>m, <3>2
    <3>4. QED BY <1>s, <3>1, <3>2, <3>3 DEF Applying
  <2>6. ASSUME NEW f \in files, SkipFile(f) PROVE DeliveryInv'
    <3>1. /\ UNCHANGED <<source, dest, durable, pass, cursor, itemsDone, buffer, owed, due,
                        stale, logged, cut, dropped, hollow, pc>>
          /\ pc = "files" /\ files' = files \ {f} /\ f \in itemsDone
      BY <2>6 DEF SkipFile
    <3>2. Met' = Met
      BY <3>1 DEF Met
    <3>3. QED BY <3>1, <3>2 DEF DeliveryInv, Applying
  <2>7. ASSUME NEW f \in files, CopyFile(f) PROVE DeliveryInv'
    BY <2>7, CopyDelivers DEF DeliveryInv, Applying
  <2>8. CASE LeaveFeed
    <3>1. /\ UNCHANGED <<source, dest, durable, pass, itemsDone, buffer, owed, due,
                        stale, logged, dropped, hollow>>
          /\ pc \in Applying /\ pc' = "flush" /\ files \ itemsDone \subseteq cut'
          /\ cut \subseteq cut'
      BY <2>8 DEF LeaveFeed, Applying
    <3>2. cursor'.done = itemsDone
      BY <2>8 DEF LeaveFeed, TypeOK, Cursor
    <3>3. Met \subseteq Met' /\ cut' \subseteq Met'
      BY <1>m, <3>1 DEF Met
    <3>4. QED BY <3>1, <3>2, <3>3 DEF DeliveryInv, Applying
  <2>9. CASE FlushItems
    <3>1. /\ UNCHANGED <<source, dest, durable, pass, cursor, itemsDone, owed, due,
                        stale, cut, dropped, hollow>>
          /\ logged' = logged \cup buffer /\ pc = "flush" /\ pc' = "save"
      BY <2>9 DEF FlushItems
    <3>2. Met \subseteq Met' /\ buffer \subseteq Met'
      BY <1>m, <3>1 DEF Met
    <3>3. QED BY <3>1, <3>2 DEF DeliveryInv, Applying
  <2>10. CASE SaveCheckpoint
    <3>1. /\ UNCHANGED <<source, dest, pass, cursor, itemsDone, buffer, files, owed, due,
                        stale, logged, cut, dropped, hollow>>
          /\ durable' = cursor /\ pc = "save" /\ pc' = "settle"
      BY <2>10 DEF SaveCheckpoint
    <3>2. Met \subseteq Met'
      BY <1>m, <3>1
    <3>3. QED BY <1>s, <3>1, <3>2 DEF Applying
  <2>11. CASE Settle
    BY <2>11, <1>f DEF Settle
  <2>12. QED
    BY <1>2, <2>1, <2>2, <2>3, <2>4, <2>5, <2>6, <2>7, <2>8, <2>9, <2>10, <2>11 DEF Run
<1>3. CASE Failure
  <2>1. CASE Sigterm
    <3>1. UNCHANGED <<source, dest, durable, pc, pass, cursor, itemsDone, buffer, files, owed, due,
                     stale, logged, cut, dropped, hollow>>
      BY <2>1 DEF Sigterm
    <3>2. Met' = Met
      BY <3>1 DEF Met
    <3>3. QED BY <3>1, <3>2 DEF DeliveryInv
  <2>2. CASE Interrupted \/ GraphFails \/ CallFails
    BY <2>2, <1>f DEF Interrupted, GraphFails, CallFails
  <2>3. QED BY <1>3, <2>1, <2>2 DEF Failure
<1>4. CASE UNCHANGED vars
  <2>1. Met' = Met
    BY <1>4 DEF vars, Met
  <2>2. QED BY <1>4, <2>1 DEF vars, DeliveryInv
<1>5. QED BY <1>1, <1>2, <1>3, <1>4 DEF Next

\* Only the end of a run writes that a job is completed.
LEMMA CompletesAtSettle == [Next]_vars /\ Completes => pc = "settle" /\ Settle
<1> SUFFICES ASSUME [Next]_vars, Completes PROVE pc = "settle" /\ Settle
  OBVIOUS
<1> USE DEF driveVars, rowVars, memory, loopVars, historyVars
<1>1. CASE Operator
  BY <1>1 DEF Operator, Issue, RequestDelta, Retry, Ask, Cancel, Write, Completes
<1>2. CASE Run
  BY <1>2 DEF Run, Begin, Discard, MarkRunning, Enumerate, CreateFolder, FoldersDone, SkipFile,
              CopyFile, MaybeFlush, Heartbeat, LeaveFeed, FlushItems, SaveCheckpoint, Settle,
              Completes
<1>3. CASE Failure
  BY <1>3 DEF Failure, Sigterm, Interrupted, GraphFails, CallFails, Completes
<1>4. CASE UNCHANGED vars
  BY <1>4 DEF vars, Completes
<1>5. QED BY <1>1, <1>2, <1>3, <1>4 DEF Next

\* By then a full pass has met every file.
LEMMA StepCompletes ==
  ASSUME TypeOK, DeliveryInv, [Next]_vars, Completes, pass = "full", ~stale
  PROVE  \A f \in Files : Delivered(f)
<1>1. pc = "settle"
  BY CompletesAtSettle
<1>2. Files \subseteq Met /\ owed = due["full"]
  BY <1>1 DEF DeliveryInv
<1>3. QED BY <1>2 DEF Met, Delivered

-------------------------------------------------------------------------------
(* Versions: what any pass that completes leaves behind. *)

\* Nothing is newer than the drive: not what was asked for, read from the feed or copied.
PastInv ==
    \A f \in Files : /\ dest[f] <= source[f] /\ owed[f] <= source[f] /\ feed[f] <= source[f]
                     /\ \A p \in Passes : due[p][f] <= source[f]

\* The versions compared are numbers.
LEMMA VersionTypes ==
  ASSUME TypeOK
  PROVE  \A f \in Files : /\ f \in Entries /\ Nothing[f] = 0
                          /\ source[f] \in Nat /\ dest[f] \in Nat /\ owed[f] \in Nat
                          /\ feed[f] \in Nat /\ cursor.link[f] \in Nat
                          /\ durable.link[f] \in Nat
                          /\ \A p \in Passes : due[p][f] \in Nat
<1>1. \A f \in Files : f \in Entries /\ Nothing[f] = 0
  BY DEF Entries, Nothing
<1>2. \A x \in Snapshot : \A f \in Files : x[f] \in Nat
  BY <1>1 DEF Snapshot
<1>3. cursor.link \in Snapshot /\ durable.link \in Snapshot
  BY DEF TypeOK, Cursor
<1>4. \A f \in Files : dest[f] \in Nat
  BY DEF TypeOK
<1>5. QED BY <1>1, <1>2, <1>3, <1>4 DEF TypeOK

\* Nothing is asked for, read or copied at first.
LEMMA InitPast == Init => PastInv
<1> SUFFICES ASSUME Init PROVE PastInv
  OBVIOUS
<1>1. TypeOK
  BY InitTypes
<1>2. \A f \in Files : dest[f] = 0 /\ owed[f] = 0 /\ feed[f] = 0 /\ \A p \in Passes : due[p][f] = 0
  BY <1>1, VersionTypes DEF Init
<1>3. QED BY <1>1, <1>2, VersionTypes DEF PastInv

\* Every step keeps the drive ahead, and neither the drive nor the destination goes back.
LEMMA StepPast ==
  ASSUME TypeOK, PastInv, [Next]_vars
  PROVE  PastInv' /\ \A f \in Files : dest[f] <= dest'[f]
<1> USE DEF driveVars, rowVars, memory, loopVars, historyVars
<1>t. \A f \in Files : /\ f \in Entries /\ Nothing[f] = 0
                       /\ source[f] \in Nat /\ dest[f] \in Nat /\ owed[f] \in Nat
                       /\ feed[f] \in Nat
                       /\ \A p \in Passes : due[p][f] \in Nat
  BY VersionTypes
<1>s. ASSUME UNCHANGED <<source, dest>>,
             due' = due \/ \E p \in Passes : due' = [due EXCEPT ![p] = source],
             owed' \in {owed, Nothing} \/ \E p \in Passes : owed' = due[p],
             feed' \in {feed, source, Nothing}
      PROVE  PastInv' /\ \A f \in Files : dest[f] <= dest'[f]
  <2>1. ASSUME NEW f \in Files, NEW p \in Passes PROVE due'[p][f] <= source[f]
    BY <1>t, <1>s DEF PastInv, TypeOK
  <2>2. ASSUME NEW f \in Files
        PROVE  dest'[f] <= source[f] /\ owed'[f] <= source[f] /\ feed'[f] <= source[f]
    BY <1>t, <1>s DEF PastInv
  <2>3. QED BY <1>s, <1>t, <2>1, <2>2 DEF PastInv
<1>1. CASE Operator
  <2>1. CASE Issue \/ RequestDelta \/ Retry \/ Cancel
    BY <1>s, <2>1 DEF Issue, RequestDelta, Retry, Ask, Cancel, Passes
  <2>2. ASSUME NEW e \in Entries, Write(e)
        PROVE  PastInv' /\ \A f \in Files : dest[f] <= dest'[f]
    <3>1. UNCHANGED <<dest, owed, due, feed>> /\ source' = [source EXCEPT ![e] = source[e] + 1]
      BY <2>2 DEF Write
    <3>2. \A f \in Files : source'[f] = source[f] \/ source'[f] = source[f] + 1
      BY <1>t, <3>1 DEF TypeOK, Snapshot
    <3>3. QED BY <1>t, <3>1, <3>2 DEF PastInv
  <2>3. QED BY <1>1, <2>1, <2>2 DEF Operator
<1>2. CASE Run
  <2>1. ASSUME NEW f \in files, CopyFile(f)
        PROVE  PastInv' /\ \A x \in Files : dest[x] <= dest'[x]
    <3>1. UNCHANGED <<source, owed, due, feed>> /\ f \in Files
      BY <2>1 DEF CopyFile, TypeOK
    <3>2. dest' = dest \/ dest' = [dest EXCEPT ![f] = source[f]]
      BY <2>1 DEF CopyFile, Upload
    <3>3. \A x \in Files : dest[x] <= dest'[x] /\ dest'[x] <= source[x]
      BY <1>t, <3>1, <3>2 DEF PastInv, TypeOK
    <3>4. QED BY <3>1, <3>3 DEF PastInv
  <2>2. CASE Run /\ ~\E f \in files : CopyFile(f)
    <3>1. UNCHANGED <<source, dest, due>>
      BY <2>2 DEF Run, Begin, Discard, MarkRunning, Enumerate, CreateFolder, FoldersDone,
                  SkipFile, MaybeFlush, Heartbeat, LeaveFeed, FlushItems, SaveCheckpoint, Settle
    <3>2. owed' \in {owed, Nothing} \/ \E p \in Passes : owed' = due[p]
      BY <2>2 DEF Run, Begin, Discard, MarkRunning, Enumerate, CreateFolder, FoldersDone,
                  SkipFile, MaybeFlush, Heartbeat, LeaveFeed, FlushItems, SaveCheckpoint, Settle,
                  Forget
    <3>3. feed' \in {feed, source, Nothing}
      BY <2>2 DEF Run, Begin, Discard, MarkRunning, Enumerate, CreateFolder, FoldersDone,
                  SkipFile, MaybeFlush, Heartbeat, LeaveFeed, FlushItems, SaveCheckpoint, Settle,
                  Forget
    <3>4. QED BY <1>s, <3>1, <3>2, <3>3
  <2>3. QED BY <1>2, <2>1, <2>2
<1>3. CASE Failure
  BY <1>3, <1>s DEF Failure, Sigterm, Interrupted, GraphFails, CallFails, Forget
<1>4. CASE UNCHANGED vars
  BY <1>4, <1>s DEF vars
<1>5. QED BY <1>1, <1>2, <1>3, <1>4 DEF Next

\* A file has reached a version when the destination has it or a later one, or when the
\* file is recorded, excused or overlooked.
Answered == logged \cup buffer \cup cut \cup dropped \cup hollow \cup overlooked
Reached(f, v) == dest[f] >= v \/ f \in Answered

\* Every file has reached the version behind every delta link, and, but for the files left
\* to do, that in the feed, which is no older than what the pass was asked for.
VersionInv ==
    /\ pc \in {"idle", "save", "settle"} => buffer = {}
    /\ \A f \in Files : Reached(f, durable.link[f]) /\ Reached(f, cursor.link[f])
    /\ pc \in Applying =>
           \A f \in Files : owed[f] <= feed[f] /\ (f \in files \/ Reached(f, feed[f]))
    /\ pc \in {"flush", "save", "settle"} => \A f \in Files : Reached(f, owed[f])

\* The versions of the empty drive are reached at first.
LEMMA InitVersions == Init => VersionInv
<1> SUFFICES ASSUME Init PROVE VersionInv
  OBVIOUS
<1>1. \A f \in Files : Empty.link[f] = 0 /\ dest[f] = 0
  BY DEF Init, Empty, Nothing, Entries
<1>2. QED BY <1>1 DEF Init, VersionInv, Reached, Applying

\* Every step keeps the versions reached.
LEMMA StepVersions ==
  TypeOK /\ FeedInv /\ PastInv /\ VersionInv /\ [Next]_vars => VersionInv'
<1> SUFFICES ASSUME TypeOK, FeedInv, PastInv, VersionInv, [Next]_vars PROVE VersionInv'
  OBVIOUS
<1> USE DEF driveVars, rowVars, memory, loopVars, historyVars
<1>t. \A f \in Files : /\ f \in Entries /\ Nothing[f] = 0
                       /\ source[f] \in Nat /\ dest[f] \in Nat /\ owed[f] \in Nat
                       /\ feed[f] \in Nat /\ cursor.link[f] \in Nat
                       /\ durable.link[f] \in Nat
                       /\ \A p \in Passes : due[p][f] \in Nat
  BY VersionTypes
<1>d. dest' \in [Files -> 0..MaxVersion]
  BY StepTypes DEF TypeOK
<1>r. ASSUME Answered \subseteq Answered', NEW f \in Files, NEW v \in Nat, Reached(f, v)
      PROVE  Reached(f, v)'
  <2>1. dest[f] <= dest'[f] /\ dest'[f] \in Nat
    BY <1>d, StepPast
  <2>2. QED BY <1>t, <1>r, <2>1 DEF Reached
<1>s. ASSUME Answered \subseteq Answered', UNCHANGED <<owed, feed>>,
             cursor'.link = cursor.link, durable'.link \in {durable.link, cursor.link},
             pc' \in {"idle", "save", "settle"} => buffer' = {},
             pc' \in Applying =>
                 pc \in Applying /\ \A f \in files : f \in files' \/ Reached(f, feed[f])',
             pc' \in {"flush", "save", "settle"} => pc \in {"flush", "save", "settle"}
      PROVE  VersionInv'
  <2>1. \A f \in Files : Reached(f, durable.link[f])' /\ Reached(f, cursor.link[f])'
    <3>1. ASSUME NEW f \in Files PROVE Reached(f, durable.link[f])' /\ Reached(f, cursor.link[f])'
      <4>1. Reached(f, durable'.link[f]) /\ Reached(f, cursor'.link[f])
        BY <1>s DEF VersionInv
      <4>2. durable'.link[f] \in Nat /\ cursor'.link[f] \in Nat
        BY <1>t, <1>s
      <4>3. QED BY <1>r, <1>s, <4>1, <4>2 DEF Reached
    <3>2. QED BY <3>1
  <2>2. ASSUME pc' \in Applying, NEW f \in Files
        PROVE  owed'[f] <= feed'[f] /\ (f \in files' \/ Reached(f, feed[f])')
    <3>1. owed[f] <= feed[f] /\ (f \in files \/ Reached(f, feed[f]))
      BY <1>s, <2>2 DEF VersionInv
    <3>2. Reached(f, feed[f]) => Reached(f, feed[f])'
      BY <1>r, <1>s, <1>t DEF Reached
    <3>3. QED BY <1>s, <2>2, <3>1, <3>2
  <2>3. ASSUME pc' \in {"flush", "save", "settle"}, NEW f \in Files PROVE Reached(f, owed[f])'
    <3>1. Reached(f, owed[f])
      BY <1>s, <2>3 DEF VersionInv
    <3>2. QED BY <1>r, <1>s, <1>t, <3>1 DEF Reached
  <2>4. QED BY <1>s, <2>1, <2>2, <2>3 DEF VersionInv
<1>f. ASSUME Forget, UNCHANGED <<dest, cut, hollow, overlooked>>, logged \subseteq logged',
             durable'.link \in {durable.link, cursor.link}
      PROVE  VersionInv'
  <2>1. Answered \subseteq Answered'
    BY <1>f DEF Forget, Answered
  <2>2. pc' = "idle" /\ buffer' = {} /\ cursor'.link = Nothing
    BY <1>f DEF Forget, Empty
  <2>3. ASSUME NEW f \in Files PROVE Reached(f, durable.link[f])' /\ Reached(f, cursor.link[f])'
    <3>1. Reached(f, durable'.link[f]) /\ durable'.link[f] \in Nat
      BY <1>f, <1>t DEF VersionInv
    <3>2. Reached(f, durable.link[f])'
      BY <1>r, <2>1, <3>1 DEF Reached
    <3>3. dest'[f] >= 0
      BY <1>f, <1>t
    <3>4. Reached(f, cursor.link[f])'
      BY <1>t, <2>2, <3>3 DEF Reached
    <3>5. QED BY <3>2, <3>4
  <2>4. QED BY <2>2, <2>3 DEF VersionInv, Applying
<1>1. CASE Operator
  <2>1. CASE Issue
    <3>1. /\ durable'.link = Nothing
          /\ UNCHANGED <<source, dest, cursor, owed, feed, files, pc, buffer, logged, cut, dropped,
                         hollow, overlooked>>
      BY <2>1 DEF Issue, Ask, Empty
    <3>2. \A f \in Files : dest[f] >= Nothing[f]
      BY <1>t
    <3>3. QED BY <3>1, <3>2 DEF VersionInv, Reached, Answered
  <2>2. CASE RequestDelta \/ Retry \/ Cancel \/ \E e \in Entries : Write(e)
    <3>1. UNCHANGED <<dest, cursor, durable, owed, feed, files, pc, buffer, logged, cut, dropped,
                      hollow, overlooked>>
      BY <2>2 DEF RequestDelta, Retry, Ask, Cancel, Write
    <3>2. QED BY <3>1 DEF VersionInv, Reached, Answered
  <2>3. QED BY <1>1, <2>1, <2>2 DEF Operator
<1>2. CASE Run
  <2>1. ASSUME NEW p \in Passes, Begin(p) PROVE VersionInv'
    <3>1. /\ pc = "idle" /\ pc' = "start" /\ cursor' = durable /\ buffer' = {}
          /\ UNCHANGED <<dest, durable, logged, cut, dropped, hollow, overlooked>>
      BY <2>1 DEF Begin
    <3>2. Answered' = Answered
      BY <3>1 DEF VersionInv, Answered
    <3>3. QED BY <3>1, <3>2 DEF VersionInv, Reached, Applying
  <2>2. CASE (\E p \in Passes : Discard(p)) \/ MarkRunning \/ FoldersDone \/ MaybeFlush
             \/ SaveCheckpoint
    <3>1. /\ UNCHANGED <<cursor, owed, feed, files, buffer, logged, cut, dropped, hollow,
                        overlooked>>
          /\ durable' \in {durable, cursor}
          /\ \/ pc' = pc
             \/ pc \in Applying /\ pc' \in Applying
             \/ pc = "start" /\ pc' = "enumerate"
             \/ pc = "save" /\ pc' = "settle"
      BY <2>2 DEF Discard, MarkRunning, FoldersDone, MaybeFlush, SaveCheckpoint, Applying
    <3>2. Answered' = Answered
      BY <3>1 DEF Answered
    <3>3. QED BY <1>s, <3>1, <3>2 DEF VersionInv, Applying
  <2>3. CASE Heartbeat \/ FlushItems
    <3>1. /\ UNCHANGED <<cursor, durable, owed, feed, files, cut, dropped, hollow, overlooked>>
          /\ logged' \cup buffer' = logged \cup buffer
          /\ \/ pc = "beat" /\ pc' = "files"
             \/ pc = "flush" /\ pc' = "save" /\ buffer' = {}
      BY <2>3 DEF Heartbeat, FlushItems
    <3>2. Answered' = Answered
      BY <3>1 DEF Answered
    <3>3. QED BY <1>s, <3>1, <3>2 DEF Applying
  <2>4. CASE Enumerate
    <3>1. /\ UNCHANGED <<source, dest, cursor, durable, owed, buffer, logged, cut, dropped, hollow,
                        overlooked>>
          /\ feed' = source /\ pc' = "folders"
          /\ \/ files' = {f \in Files : source[f] > cursor.link[f]}
             \/ files' = {f \in Files : source[f] > Nothing[f]}
      BY <2>4 DEF Enumerate
    <3>2. Answered' = Answered
      BY <3>1 DEF Answered
    <3>3. ASSUME NEW f \in Files
          PROVE  owed'[f] <= feed'[f] /\ (f \in files' \/ Reached(f, feed[f])')
      <4>1. owed'[f] <= feed'[f]
        BY <3>1 DEF PastInv
      <4>2. CASE source[f] > cursor.link[f] /\ source[f] > Nothing[f]
        BY <3>1, <4>1, <4>2
      <4>3. CASE ~(source[f] > Nothing[f])
        <5>1. dest[f] >= source[f]
          BY <1>t, <4>3
        <5>2. QED BY <3>1, <4>1, <5>1 DEF Reached
      <4>4. CASE ~(source[f] > cursor.link[f])
        <5>1. dest[f] >= cursor.link[f] \/ f \in Answered
          BY DEF VersionInv, Reached
        <5>2. dest[f] >= source[f] \/ f \in Answered
          BY <1>t, <4>4, <5>1
        <5>3. QED BY <3>1, <3>2, <4>1, <5>2 DEF Reached
      <4>5. QED BY <4>2, <4>3, <4>4
    <3>4. QED BY <3>1, <3>2, <3>3 DEF VersionInv, Reached
  <2>5. ASSUME NEW d \in folders, CreateFolder(d) PROVE VersionInv'
    <3>1. cursor'.link = cursor.link
      BY <2>5 DEF CreateFolder, TypeOK, Cursor
    <3>2. /\ UNCHANGED <<durable, owed, feed, files, buffer, logged, cut, dropped, hollow,
                        overlooked, pc>>
          /\ pc = "folders"
      BY <2>5 DEF CreateFolder
    <3>3. Answered' = Answered
      BY <3>2 DEF Answered
    <3>4. QED BY <1>s, <3>1, <3>2, <3>3 DEF Applying
  <2>6. ASSUME NEW f \in files, SkipFile(f) PROVE VersionInv'
    <3>1. /\ UNCHANGED <<dest, cursor, durable, owed, feed, buffer, logged, cut, dropped, hollow,
                        pc>>
          /\ pc = "files" /\ files' = files \ {f} /\ f \in Files
          /\ overlooked' = overlooked \cup Older({f})
      BY <2>6 DEF SkipFile, TypeOK
    <3>2. Answered \subseteq Answered'
      BY <3>1 DEF Answered
    <3>3. Reached(f, feed[f])'
      BY <1>t, <3>1 DEF Reached, Older, Answered
    <3>4. QED BY <1>s, <3>1, <3>2, <3>3 DEF Applying
  <2>7. ASSUME NEW f \in files, CopyFile(f) PROVE VersionInv'
    <3>1. /\ UNCHANGED <<source, cursor, durable, owed, feed, logged, cut, dropped, overlooked>>
          /\ pc = "files" /\ pc' = "copied" /\ files' = files \ {f} /\ f \in Files
      BY <2>7 DEF CopyFile, TypeOK
    <3>2. /\ buffer \subseteq buffer' /\ hollow \subseteq hollow'
          /\ Upload(f) \/ f \in buffer' \cup hollow'
      BY <2>7 DEF CopyFile
    <3>3. Answered \subseteq Answered' /\ (Upload(f) \/ f \in Answered')
      BY <3>1, <3>2 DEF Answered
    <3>4. Upload(f) => dest'[f] >= feed[f]
      BY <1>t, <3>1 DEF Upload, PastInv, TypeOK
    <3>5. Reached(f, feed[f])'
      BY <3>1, <3>3, <3>4 DEF Reached
    <3>6. QED BY <1>s, <3>1, <3>3, <3>5 DEF Applying
  <2>8. CASE LeaveFeed
    <3>1. /\ UNCHANGED <<dest, durable, owed, feed, buffer, logged, dropped, hollow>>
          /\ pc \in Applying /\ pc' = "flush"
          /\ cut \subseteq cut' /\ files \ itemsDone \subseteq cut'
          /\ overlooked' = overlooked \cup Older(files \cap itemsDone)
      BY <2>8 DEF LeaveFeed, Applying
    <3>2. cursor'.link = feed
      BY <2>8 DEF LeaveFeed, TypeOK, Cursor
    <3>3. Answered \subseteq Answered'
      BY <3>1 DEF Answered
    <3>4. ASSUME NEW f \in Files PROVE Reached(f, feed[f])'
      <4>1. CASE f \notin files
        BY <1>r, <1>t, <3>1, <3>3, <4>1 DEF VersionInv, Reached
      <4>2. CASE f \in files
        BY <1>t, <3>1, <4>2 DEF Reached, Answered, Older
      <4>3. QED BY <4>1, <4>2
    <3>5. ASSUME NEW f \in Files PROVE Reached(f, owed[f])'
      <4>1. owed[f] <= feed[f]
        BY <3>1 DEF VersionInv
      <4>2. QED BY <1>t, <3>1, <3>4, <4>1 DEF Reached
    <3>6. ASSUME NEW f \in Files PROVE Reached(f, durable.link[f])'
      BY <1>r, <1>t, <3>1, <3>3 DEF VersionInv, Reached
    <3>7. QED BY <3>1, <3>2, <3>4, <3>5, <3>6 DEF VersionInv, Reached, Applying
  <2>9. CASE Settle
    BY <2>9, <1>f DEF Settle
  <2>10. QED
    BY <1>2, <2>1, <2>2, <2>3, <2>4, <2>5, <2>6, <2>7, <2>8, <2>9 DEF Run
<1>3. CASE Failure
  <2>1. CASE Sigterm
    BY <2>1 DEF Sigterm, VersionInv, Reached, Answered
  <2>2. CASE Interrupted \/ GraphFails \/ CallFails
    <3>1. [cursor EXCEPT !.done = itemsDone].link = cursor.link
      BY DEF TypeOK, Cursor
    <3>2. QED BY <2>2, <3>1, <1>f DEF Interrupted, GraphFails, CallFails
  <2>3. QED BY <1>3, <2>1, <2>2 DEF Failure
<1>4. CASE UNCHANGED vars
  BY <1>4 DEF vars, VersionInv, Reached, Answered
<1>5. QED BY <1>1, <1>2, <1>3, <1>4 DEF Next

\* The invariants of the versions hold together.
LEMMA VersionsReached == Spec => [](TypeOK /\ FeedInv /\ PastInv /\ VersionInv)
<1>1. TypeOK /\ PastInv /\ [Next]_vars => PastInv'
  BY StepPast
<1>2. QED
  BY <1>1, InitTypes, StepTypes, InitFeed, StepFeed, InitPast, InitVersions, StepVersions,
     PTL DEF Spec

(***************************************************************************)
(* A pass that is reported completed has delivered, recorded or excused    *)
(* every file, as it was when the pass was asked for or later; a delta     *)
(* pass, or one of a job issued anew during a run, but for files passed    *)
(* over because items_done had them.                                       *)
(***************************************************************************)
THEOREM PassesDeliver == Spec => CompletedPass
<1> DEFINE Delivers == Completes => \A f \in Files :
                          Delivered(f) \/ (f \in overlooked /\ (pass = "delta" \/ stale))
<1>1. ASSUME TypeOK, DeliveryInv, VersionInv, [Next]_vars, Completes, NEW f \in Files,
             ~Delivered(f)
      PROVE  f \in overlooked /\ (pass = "delta" \/ stale)
  <2>1. pc = "settle"
    BY <1>1, CompletesAtSettle
  <2>2. Reached(f, owed[f]) /\ buffer = {}
    BY <1>1, <2>1 DEF VersionInv
  <2>3. f \in overlooked
    BY <1>1, <2>2 DEF Reached, Answered, Delivered
  <2>4. ~(pass = "full" /\ ~stale)
    BY <1>1, StepCompletes
  <2>5. pass \in {"full", "delta"}
    BY <1>1 DEF TypeOK, Passes
  <2>6. QED BY <2>3, <2>4, <2>5
<1>2. TypeOK /\ DeliveryInv /\ VersionInv /\ [Next]_vars => [Delivers]_vars
  BY <1>1
<1>3. Spec => []DeliveryInv
  BY InitTypes, StepTypes, InitDelivery, StepDelivery, PTL DEF Spec
<1>4. QED BY <1>2, <1>3, VersionsReached, PTL DEF Spec, CompletedPass

\* A step that excuses an item is that of a stop, or of a failure.
LEMMA StepExcuses ==
  ASSUME TypeOK, FeedInv, VersionInv, [Next]_vars, cut' # cut \/ dropped' # dropped
  PROVE  ShouldStop \/ faults' # faults
<1> USE DEF driveVars, rowVars, memory, loopVars, historyVars
<1>1. CASE Operator
  BY <1>1 DEF Operator, Issue, RequestDelta, Retry, Ask, Cancel, Write
<1>2. CASE Run
  <2>1. CASE Settle
    BY <2>1 DEF Settle, Forget, VersionInv
  <2>2. CASE LeaveFeed
    <3>1. dropped' = dropped /\ (pc = "files" => folders = {})
      BY <2>2 DEF LeaveFeed, FeedInv
    <3>2. QED BY <2>2, <3>1 DEF LeaveFeed
  <2>3. CASE Run /\ ~Settle /\ ~LeaveFeed
    <3>1. UNCHANGED <<cut, dropped>>
      BY <2>3 DEF Run, Begin, Discard, MarkRunning, Enumerate, CreateFolder, FoldersDone,
                  SkipFile, CopyFile, MaybeFlush, Heartbeat, FlushItems, SaveCheckpoint
    <3>2. QED BY <3>1
  <2>4. QED BY <1>2, <2>1, <2>2, <2>3
<1>3. CASE Failure
  <2>1. Fault /\ faults \in Nat
    BY <1>3, DriveBounds DEF Failure, Sigterm, Interrupted, GraphFails, CallFails, TypeOK
  <2>2. QED BY <2>1 DEF Fault
<1>4. CASE UNCHANGED vars
  BY <1>4 DEF vars
<1>5. QED BY <1>1, <1>2, <1>3, <1>4 DEF Next

(***************************************************************************)
(* Only a stop, a cancellation or a failure excuses a pass from an item.   *)
(***************************************************************************)
THEOREM OnlyFailuresExcuse == Spec => ExcusesHaveCause
<1>1. TypeOK /\ FeedInv /\ VersionInv /\ [Next]_vars =>
          [cut' # cut \/ dropped' # dropped => ShouldStop \/ faults' # faults]_vars
  BY StepExcuses
<1>2. QED BY <1>1, VersionsReached, PTL DEF Spec, ExcusesHaveCause
===============================================================================
