------------------------ MODULE ExchangeMigratorProofs ------------------------
(***************************************************************************)
(* Theorems of ExchangeMigrator for any mailboxes, folders and items and   *)
(* any number of passes and failures: type correctness; every item behind  *)
(* a delta link in D1 is moved, recorded or excused, as the implementation *)
(* of PassLedger; the resume point only advances; a full pass that is      *)
(* reported completed delivered what it owed, and a delta pass of one box  *)
(* what changed since its link; nothing is excused but in a stop or a      *)
(* failure; and no item is moved twice but after a failure or a new issue. *)
(***************************************************************************)
EXTENDS ExchangeMigrator, TLAPS

\* A run inside a mailbox knows its mailbox, and inside a folder its folder.
Positions ==
    /\ pc = "folders" => box \in Mailboxes /\ newLink \in FolderLink
    /\ pc \in {"items", "import", "left", "beat", "folderBeat"} =>
           box \in Mailboxes /\ newLink \in FolderLink /\ folder \in Folders

TypeInv == TypeOK /\ Positions

\* The bounds on requests and failures keep their counters in range.
LEMMA BoundTypes ==
  ASSUME TypeInv, Fault \/ Asked \/ UNCHANGED boundVars
  PROVE  issued' \in 0..MaxPasses /\ faults' \in 0..MaxFaults
  BY MailboxBounds DEF TypeInv, TypeOK, Fault, Asked, boundVars

\* The empty cursor is a cursor.
LEMMA EmptyType == Empty \in Cursor
  BY DEF Empty, Cursor

\* Forgetting a run leaves well-typed memory behind.
LEMMA ForgetTypes ==
  ASSUME TypeInv, Forget, logged' \subseteq Items
  PROVE  /\ pc' = "idle" /\ cursor' \in Cursor /\ buffer' \subseteq Items
         /\ boxes' \subseteq Mailboxes /\ box' \in Mailboxes \cup {None}
         /\ folders' \subseteq Folders /\ newLink' \in FolderLink \cup {None}
         /\ folder' \in Folders \cup {None}
         /\ items' \subseteq Items /\ link' \subseteq Items /\ chunk' \subseteq Items
         /\ stop' \in BOOLEAN /\ cancelled' \in BOOLEAN
         /\ owed' \subseteq Items /\ since' = None /\ dropped' \subseteq Items
<1>1. /\ boxes' = {} /\ folders' = {} /\ items' = {} /\ link' = {} /\ chunk' = {}
      /\ owed' = {} /\ since' = None /\ buffer' = {} /\ cursor' = Empty
      /\ box' = None /\ newLink' = None /\ folder' = None /\ pc' = "idle"
      /\ stop' = FALSE /\ cancelled' = FALSE
  BY DEF Forget
<1>2. dropped' \subseteq Items
  BY DEF Forget, TypeInv, TypeOK
<1>3. QED BY <1>1, <1>2, EmptyType

\* The initial state is well typed.
LEMMA InitTypes == Init => TypeInv
<1> SUFFICES ASSUME Init PROVE TypeInv
  OBVIOUS
<1>1. issued \in 0..MaxPasses /\ faults \in 0..MaxFaults
  BY MailboxBounds DEF Init
<1>2. Positions
  BY DEF Init, Positions
<1>3. QED BY <1>1, <1>2, EmptyType DEF Init, TypeInv, TypeOK, Passes

\* What operators and arriving mail do keeps the types.
LEMMA OperatorTypes == TypeInv /\ Operator => TypeInv'
<1> SUFFICES ASSUME TypeInv, Operator PROVE TypeInv'
  OBVIOUS
<1> USE DEF TypeInv, TypeOK, Positions, graphVars, rowVars, memory, loopVars, stopVars,
            boundVars, historyVars, Terminal
<1>1. issued' \in 0..MaxPasses /\ faults' \in 0..MaxFaults
  BY BoundTypes DEF Operator, Issue, RequestDelta, Retry, Cancel, Arrive
<1>2. CASE Issue
  BY <1>1, <1>2, EmptyType DEF Issue, Passes
<1>3. CASE RequestDelta
  BY <1>1, <1>3 DEF RequestDelta, Passes
<1>4. CASE Retry
  BY <1>1, <1>4 DEF Retry, Passes
<1>5. CASE Cancel
  BY <1>1, <1>5 DEF Cancel
<1>6. ASSUME NEW i \in Items, Arrive(i) PROVE TypeInv'
  BY <1>1, <1>6 DEF Arrive
<1>7. QED BY <1>2, <1>3, <1>4, <1>5, <1>6 DEF Operator

\* The steps of a run keep the types.
LEMMA RunTypes == TypeInv /\ Run => TypeInv'
<1> SUFFICES ASSUME TypeInv, Run PROVE TypeInv'
  OBVIOUS
<1> USE DEF TypeInv, TypeOK, Positions, graphVars, rowVars, memory, loopVars, stopVars,
            boundVars, historyVars, Terminal
<1>1. ASSUME NEW p \in Passes, Begin(p) PROVE TypeInv'
  <2>1. since' \in FolderLink \cup {None}
    BY <1>1 DEF Begin, Cursor
  <2>2. QED BY <1>1, <2>1 DEF Begin, LoadCheckpoint
<1>2. ASSUME NEW p \in Passes, Discard(p) PROVE TypeInv'
  BY <1>2 DEF Discard
<1>3. ASSUME NEW b \in boxes, NextBox(b) PROVE TypeInv'
  <2> DEFINE resumed == pass = "delta" /\ cursor.flink # None
             l == [box |-> IF resumed THEN cursor.flink.box ELSE b, seen |-> source]
  <2>1. cursor.flink \in FolderLink \cup {None}
    BY DEF Cursor
  <2>2. l \in FolderLink
    BY <2>1 DEF FolderLink
  <2>3. CASE b \in Targets
    <3>1. /\ newLink' = l /\ box' = b /\ pc' = "folders" /\ boxes' = boxes \ {b}
          /\ folders' \subseteq Folders
      BY <1>3, <2>3 DEF NextBox, FoldersSince
    <3>2. QED BY <1>3, <2>2, <3>1 DEF NextBox
  <2>4. CASE b \notin Targets
    BY <1>3, <2>4 DEF NextBox
  <2>5. QED BY <2>3, <2>4
<1>4. CASE MarkRunning \/ StopAtBox \/ NoMoreBoxes
  BY <1>4 DEF MarkRunning, StopAtBox, NoMoreBoxes
<1>5. ASSUME NEW f \in folders, NextFolder(f) PROVE TypeInv'
  BY <1>5 DEF NextFolder, In
<1>6. CASE StopAtFolder
  BY <1>6 DEF StopAtFolder
<1>7. CASE LeaveFolders
  <2>1. cursor' \in Cursor
    BY <1>7 DEF LeaveFolders, Cursor
  <2>2. QED BY <1>7, <2>1 DEF LeaveFolders
<1>8. ASSUME NEW b \in SUBSET items, Export(b) PROVE TypeInv'
  BY <1>8 DEF Export
<1>9. ASSUME NEW i \in chunk, Import(i) PROVE TypeInv'
  BY <1>9 DEF Import
<1>10. CASE MaybeFlush
  BY <1>10 DEF MaybeFlush
<1>11. CASE LeaveItems
  <2>1. cursor' \in Cursor
    BY <1>11 DEF LeaveItems, Cursor
  <2>2. QED BY <1>11, <2>1 DEF LeaveItems
<1>12. CASE Heartbeat
  BY <1>12 DEF Heartbeat
<1>13. CASE FlushItems \/ SaveCheckpoint
  BY <1>13 DEF FlushItems, SaveCheckpoint
<1>14. CASE Settle
  BY <1>14, ForgetTypes DEF Settle
<1>15. QED
  BY <1>1, <1>2, <1>3, <1>4, <1>5, <1>6, <1>7, <1>8, <1>9, <1>10, <1>11, <1>12, <1>13,
     <1>14 DEF Run

\* Stops, kills and failures keep the types.
LEMMA FailureTypes == TypeInv /\ Failure => TypeInv'
<1> SUFFICES ASSUME TypeInv, Failure PROVE TypeInv'
  OBVIOUS
<1> USE DEF TypeInv, TypeOK, Positions, graphVars, rowVars, memory, loopVars, stopVars,
            historyVars, Terminal
<1>1. issued' \in 0..MaxPasses /\ faults' \in 0..MaxFaults
  BY BoundTypes DEF Failure, Sigterm, Interrupted, GraphFails, CallFails
<1>2. CASE Sigterm
  BY <1>1, <1>2 DEF Sigterm
<1>3. CASE Interrupted
  BY <1>1, <1>3, ForgetTypes DEF Interrupted, Crash
<1>4. CASE GraphFails
  <2>1. logged' \subseteq Items /\ durable' \in Cursor
    BY <1>4 DEF GraphFails
  <2>2. QED BY <1>1, <1>4, <2>1, ForgetTypes DEF GraphFails, Crash
<1>5. CASE CallFails
  BY <1>1, <1>5, ForgetTypes DEF CallFails, Crash
<1>6. QED BY <1>2, <1>3, <1>4, <1>5 DEF Failure

\* Every step keeps the types.
LEMMA StepTypes == TypeInv /\ [Next]_vars => TypeInv'
<1>1. ASSUME TypeInv, UNCHANGED vars PROVE TypeInv'
  BY <1>1 DEF TypeInv, TypeOK, Positions, vars, graphVars, rowVars, memory, loopVars,
              stopVars, boundVars, historyVars
<1>2. QED BY <1>1, OperatorTypes, RunTypes, FailureTypes DEF Next

(***************************************************************************)
(* Every variable keeps its type.                                          *)
(***************************************************************************)
THEOREM TypeCorrect == Spec => []TypeOK
<1>1. TypeInv => TypeOK
  BY DEF TypeInv
<1>2. QED BY <1>1, InitTypes, StepTypes, PTL DEF Spec

-------------------------------------------------------------------------------
(* The ledger. *)

\* Items moved, recorded or excused.
Accounted == Kept \cup cut \cup dropped

\* No cursor is ahead of the account: not the one in D1, not the one in memory, and
\* not the link that the folder in progress will store, but for the items still to
\* do. A batch is exported only to be imported at once, and no record waits while
\* no run is going on.
LedgerInv ==
    /\ Covered(durable) \subseteq Accounted
    /\ Covered(cursor) \subseteq Accounted
    /\ pc \in {"items", "import", "beat"} => link \subseteq items \cup chunk \cup Accounted
    /\ pc # "import" => chunk = {}
    /\ pc = "idle" => buffer = {}

\* The empty cursor covers nothing.
LEMMA EmptyCoversNothing == Covered(Empty) = {}
  BY DEF Covered, Empty

\* Forgetting a run moves the records that are lost from one account to another.
LEMMA ForgetAccount ==
  ASSUME Forget, UNCHANGED <<dest, cut>>, logged \subseteq logged'
  PROVE  /\ Accounted \subseteq Accounted'
         /\ pc' = "idle" /\ buffer' = {} /\ chunk' = {} /\ cursor' = Empty
  BY DEF Forget, Accounted, Kept

\* Nothing is on the account before the first job.
LEMMA InitLedger == Init => LedgerInv
  BY EmptyCoversNothing DEF Init, LedgerInv

\* What operators and arriving mail do leaves the account as it is.
LEMMA OperatorLedger == TypeInv /\ LedgerInv /\ Operator => LedgerInv'
<1> SUFFICES ASSUME LedgerInv, Operator PROVE LedgerInv'
  OBVIOUS
<1> USE DEF LedgerInv, Accounted, Kept, graphVars, rowVars, memory, loopVars, stopVars,
            historyVars
<1>1. CASE Issue
  BY <1>1, EmptyCoversNothing DEF Issue, Covered
<1>2. CASE RequestDelta \/ Retry \/ Cancel
  BY <1>2 DEF RequestDelta, Retry, Cancel, Covered
<1>3. ASSUME NEW i \in Items, Arrive(i) PROVE LedgerInv'
  BY <1>3 DEF Arrive, Covered
<1>4. QED BY <1>1, <1>2, <1>3 DEF Operator

\* The steps of a run keep every cursor behind the account.
LEMMA RunLedger == TypeInv /\ LedgerInv /\ Run => LedgerInv'
<1> SUFFICES ASSUME TypeInv, LedgerInv, Run PROVE LedgerInv'
  OBVIOUS
<1> USE DEF LedgerInv, Accounted, Kept, graphVars, rowVars, memory, loopVars, stopVars,
            historyVars
<1>1. ASSUME NEW p \in Passes, Begin(p) \/ Discard(p) PROVE LedgerInv'
  BY <1>1 DEF Begin, Discard, LoadCheckpoint, Covered
<1>2. ASSUME NEW b \in boxes, NextBox(b) PROVE LedgerInv'
  BY <1>2 DEF NextBox, Covered
<1>3. CASE MarkRunning \/ StopAtBox \/ NoMoreBoxes \/ StopAtFolder
  BY <1>3 DEF MarkRunning, StopAtBox, NoMoreBoxes, StopAtFolder, Covered
<1>4. ASSUME NEW f \in folders, NextFolder(f) PROVE LedgerInv'
  <2>1. CASE f \in cursor.done /\ pass = "full"
    BY <1>4, <2>1 DEF NextFolder, Covered
  <2>2. CASE ~(f \in cursor.done /\ pass = "full")
    <3>1. /\ items' = In(f) \ (IF pass = "delta" THEN cursor.links[f] ELSE {})
          /\ link' = In(f)
          /\ UNCHANGED <<dest, logged, buffer, cut, dropped, durable, cursor, chunk>>
          /\ pc = "folders" /\ pc' = "items"
      BY <1>4, <2>2 DEF NextFolder
    <3>2. cursor.links[f] \subseteq Covered(cursor)
      BY DEF TypeInv, TypeOK, Covered
    <3>3. link' \subseteq items' \cup Accounted
      BY <3>1, <3>2
    <3>4. QED BY <3>1, <3>3 DEF Covered
  <2>3. QED BY <2>1, <2>2
<1>5. CASE LeaveFolders
  <2>1. Covered(cursor') = Covered(cursor)
    BY <1>5 DEF LeaveFolders, Covered, TypeInv, TypeOK, Cursor
  <2>2. QED BY <1>5, <2>1 DEF LeaveFolders, Covered
<1>6. ASSUME NEW b \in SUBSET items, Export(b) PROVE LedgerInv'
  <2>1. PICK rejected \in SUBSET b :
           buffer' = buffer \cup rejected /\ chunk' = b \ rejected
    BY <1>6 DEF Export
  <2>2. /\ pc = "items" /\ pc' = "import" /\ items' = items \ b
        /\ UNCHANGED <<dest, logged, durable, cursor, link, cut, dropped>>
    BY <1>6 DEF Export
  <2>3. QED BY <2>1, <2>2 DEF Covered
<1>7. ASSUME NEW i \in chunk, Import(i) PROVE LedgerInv'
  BY <1>7 DEF Import, Covered
<1>8. CASE MaybeFlush
  BY <1>8 DEF MaybeFlush, Covered
<1>9. CASE LeaveItems
  <2>1. Covered(cursor') \subseteq Covered(cursor) \cup link
    BY <1>9 DEF LeaveItems, Covered, TypeInv, TypeOK, Cursor
  <2>2. link \subseteq items \cup Accounted
    BY <1>9 DEF LeaveItems
  <2>3. Accounted' = Accounted \cup items
    BY <1>9 DEF LeaveItems
  <2>4. /\ pc' = "left" /\ chunk' = {}
        /\ UNCHANGED <<durable, buffer, dest, logged, dropped>>
    BY <1>9 DEF LeaveItems
  <2>5. Covered(durable)' = Covered(durable) /\ Covered(cursor)' = Covered(cursor')
    BY <2>4 DEF Covered
  <2>6. QED BY <2>1, <2>2, <2>3, <2>4, <2>5
<1>10. CASE Heartbeat
  <2>1. Accounted' = Accounted /\ UNCHANGED <<cursor, link, items, chunk>>
    BY <1>10 DEF Heartbeat
  <2>2. pc \in {"beat", "folderBeat"} /\ pc' \in {"items", "folders"}
        /\ (pc' = "items" => pc = "beat")
    BY <1>10 DEF Heartbeat
  <2>3. Covered(durable)' = Covered(durable) /\ Covered(cursor)' = Covered(cursor)
    BY <1>10 DEF Heartbeat, Covered
  <2>4. QED BY <2>1, <2>2, <2>3
<1>11. CASE FlushItems \/ SaveCheckpoint
  BY <1>11 DEF FlushItems, SaveCheckpoint, Covered
<1>12. CASE Settle
  <2>1. Forget /\ UNCHANGED <<logged, durable, dest, cut>>
    BY <1>12 DEF Settle
  <2>2. Covered(durable)' = Covered(durable) /\ Covered(cursor)' = {}
    BY <2>1, ForgetAccount, EmptyCoversNothing DEF Covered
  <2>3. QED BY <2>1, <2>2, ForgetAccount
<1>13. QED
  BY <1>1, <1>2, <1>3, <1>4, <1>5, <1>6, <1>7, <1>8, <1>9, <1>10, <1>11, <1>12 DEF Run

\* Stops, kills and failures keep every cursor behind the account.
LEMMA FailureLedger == TypeInv /\ LedgerInv /\ Failure => LedgerInv'
<1> SUFFICES ASSUME LedgerInv, Failure PROVE LedgerInv'
  OBVIOUS
<1> USE DEF graphVars, rowVars, memory, loopVars, historyVars
<1>1. CASE Sigterm
  BY <1>1 DEF Sigterm, LedgerInv, Accounted, Kept, Covered
<1>2. CASE Interrupted \/ GraphFails \/ CallFails
  <2>1. Forget /\ UNCHANGED <<dest, cut>> /\ logged \subseteq logged'
        /\ durable' \in {durable, cursor}
    BY <1>2 DEF Interrupted, GraphFails, CallFails, Crash
  <2>2. Covered(durable)' \subseteq Accounted /\ Covered(cursor)' = {}
    BY <2>1, ForgetAccount, EmptyCoversNothing DEF LedgerInv, Covered
  <2>3. QED BY <2>1, <2>2, ForgetAccount DEF LedgerInv
<1>3. QED BY <1>1, <1>2 DEF Failure

\* Every step keeps every cursor behind the account.
LEMMA StepLedger == TypeInv /\ LedgerInv /\ [Next]_vars => LedgerInv'
<1>1. ASSUME LedgerInv, UNCHANGED vars PROVE LedgerInv'
  BY <1>1 DEF LedgerInv, Accounted, Kept, Covered, vars, graphVars, rowVars, memory,
              loopVars, stopVars, boundVars, historyVars
<1>2. QED BY <1>1, OperatorLedger, RunLedger, FailureLedger DEF Next

-------------------------------------------------------------------------------
(* The steps of the migrator as steps of the ledger. *)

\* Items that reach the destination or the buffer are kept.
LEMMA KeepImplements ==
  ASSUME NEW S \in SUBSET Items, Kept' = Kept \cup S,
         durable' = durable, cut' = cut, dropped' = dropped
  PROVE  [Ledger!Next]_(Ledger!vars)
<1>1. Ledger!Keep(S)
  BY DEF Ledger!Keep, Covered
<1>2. QED BY <1>1 DEF Ledger!Next

\* A cursor behind the account is an advance of the resume point.
LEMMA AdvanceImplements ==
  ASSUME NEW c \in Cursor, Covered(c) \subseteq Accounted, durable' = c,
         Kept' = Kept, cut' = cut, dropped' = dropped
  PROVE  [Ledger!Next]_(Ledger!vars)
<1>1. Covered(c) \in SUBSET Items
  BY DEF Covered, Cursor
<1>2. Ledger!Advance(Covered(c))
  BY DEF Ledger!Advance, Covered, Accounted
<1>3. QED BY <1>1, <1>2 DEF Ledger!Next

\* A run forgotten with no flush before excuses the records in its buffer.
LEMMA ForgetImplements ==
  ASSUME TypeInv, Forget, UNCHANGED <<dest, cut, logged, durable>>
  PROVE  [Ledger!Next]_(Ledger!vars)
<1> DEFINE lost == buffer \ (dest \cup logged)
<1>1. lost \in SUBSET Items
  BY DEF TypeInv, TypeOK
<1>2. dropped' = dropped \cup lost /\ buffer' = {}
  BY DEF Forget
<1>3. Ledger!Excuse(lost, lost)
  BY <1>2 DEF Ledger!Excuse, Kept, Covered
<1>4. QED BY <1>1, <1>3 DEF Ledger!Next

\* After a flush of the records no record is lost, and the resume point may advance.
LEMMA FlushedForgetImplements ==
  ASSUME TypeInv, LedgerInv, Forget, UNCHANGED <<dest, cut>>,
         logged' = logged \cup buffer, durable' \in {durable, cursor}
  PROVE  [Ledger!Next]_(Ledger!vars)
<1>1. dropped' = dropped /\ Kept' = Kept
  BY DEF Forget, Kept
<1>2. PICK c \in Cursor : durable' = c /\ Covered(c) \subseteq Accounted
  BY DEF TypeInv, TypeOK, LedgerInv
<1>3. QED BY <1>1, <1>2, AdvanceImplements

\* Every step is a step of the ledger or leaves it alone.
LEMMA StepImplements ==
  TypeInv /\ LedgerInv /\ [Next]_vars => [Ledger!Next]_(Ledger!vars)
<1> SUFFICES ASSUME TypeInv, LedgerInv, [Next]_vars PROVE [Ledger!Next]_(Ledger!vars)
  OBVIOUS
<1> USE DEF graphVars, rowVars, memory, loopVars, stopVars, historyVars
<1>s. ASSUME UNCHANGED <<durable, dest, logged, buffer, cut, dropped>>
      PROVE  [Ledger!Next]_(Ledger!vars)
  BY <1>s DEF Ledger!vars, Covered, Kept
<1>1. CASE Operator
  <2>1. CASE Issue
    <3>1. Kept' = Kept /\ cut' = cut /\ dropped' = dropped /\ durable' = Empty
      BY <2>1 DEF Issue, Kept
    <3>2. QED BY <3>1, EmptyType, EmptyCoversNothing, AdvanceImplements
  <2>2. CASE RequestDelta \/ Retry \/ Cancel \/ \E i \in Items : Arrive(i)
    BY <2>2, <1>s DEF RequestDelta, Retry, Cancel, Arrive
  <2>3. QED BY <1>1, <2>1, <2>2 DEF Operator
<1>2. CASE Run
  <2>1. ASSUME NEW p \in Passes, Begin(p) PROVE [Ledger!Next]_(Ledger!vars)
    BY <2>1, <1>s DEF Begin, LedgerInv
  <2>2. ASSUME NEW b \in SUBSET items, Export(b) PROVE [Ledger!Next]_(Ledger!vars)
    <3>1. PICK rejected \in SUBSET b : buffer' = buffer \cup rejected
      BY <2>2 DEF Export
    <3>2. Kept' = Kept \cup rejected /\ rejected \in SUBSET Items
      BY <2>2, <3>1 DEF Export, Kept, TypeInv, TypeOK
    <3>3. QED BY <2>2, <3>2, KeepImplements DEF Export
  <2>3. ASSUME NEW i \in chunk, Import(i) PROVE [Ledger!Next]_(Ledger!vars)
    <3>1. Kept' = Kept \cup {i} /\ {i} \in SUBSET Items
      BY <2>3 DEF Import, Kept, TypeInv, TypeOK
    <3>2. QED BY <2>3, <3>1, KeepImplements DEF Import
  <2>4. CASE LeaveItems
    <3>1. items \in SUBSET Items /\ {} \in SUBSET Items
      BY DEF TypeInv, TypeOK
    <3>2. Ledger!Excuse(items, {})
      BY <2>4 DEF LeaveItems, Ledger!Excuse, Kept, Covered
    <3>3. QED BY <3>1, <3>2 DEF Ledger!Next
  <2>5. CASE MaybeFlush \/ Heartbeat \/ FlushItems \/ SaveCheckpoint
    <3>1. Kept' = Kept /\ cut' = cut /\ dropped' = dropped /\ durable' \in {durable, cursor}
      BY <2>5 DEF MaybeFlush, Heartbeat, FlushItems, SaveCheckpoint, Kept
    <3>2. PICK c \in Cursor : durable' = c /\ Covered(c) \subseteq Accounted
      BY <3>1 DEF TypeInv, TypeOK, LedgerInv
    <3>3. QED BY <3>1, <3>2, AdvanceImplements
  <2>6. CASE Settle
    BY <2>6, ForgetImplements DEF Settle
  <2>7. CASE \/ \E p \in Passes : Discard(p)
             \/ \E b \in boxes : NextBox(b)
             \/ \E f \in folders : NextFolder(f)
             \/ MarkRunning \/ StopAtBox \/ NoMoreBoxes \/ StopAtFolder \/ LeaveFolders
    BY <2>7, <1>s DEF MarkRunning, Discard, NextBox, NextFolder, StopAtBox, NoMoreBoxes,
                      StopAtFolder, LeaveFolders
  <2>8. QED BY <1>2, <2>1, <2>2, <2>3, <2>4, <2>5, <2>6, <2>7 DEF Run
<1>3. CASE Failure
  <2>1. CASE Sigterm
    BY <2>1, <1>s DEF Sigterm
  <2>2. CASE Interrupted \/ CallFails
    BY <2>2, ForgetImplements DEF Interrupted, CallFails, Crash
  <2>3. CASE GraphFails
    BY <2>3, ForgetImplements, FlushedForgetImplements DEF GraphFails, Crash
  <2>4. QED BY <1>3, <2>1, <2>2, <2>3 DEF Failure
<1>4. CASE UNCHANGED vars
  BY <1>4, <1>s DEF vars
<1>5. QED BY <1>1, <1>2, <1>3, <1>4 DEF Next

\* An empty account at the start.
LEMMA InitImplements == Init => Ledger!Init
  BY EmptyCoversNothing DEF Init, Ledger!Init, Kept

(***************************************************************************)
(* The migrator implements the ledger: through every interleaving of runs, *)
(* stops, kills, failures and requests, the delta links in D1 are behind   *)
(* what was moved, recorded or excused.                                    *)
(***************************************************************************)
THEOREM Implements == Spec => LedgerSpec
<1>1. Spec => [](TypeInv /\ LedgerInv)
  BY InitTypes, StepTypes, InitLedger, StepLedger, PTL DEF Spec
<1>2. QED BY <1>1, InitImplements, StepImplements, PTL DEF Spec, LedgerSpec, Ledger!Spec

-------------------------------------------------------------------------------
(* The resume point never goes back. *)

\* Cursor d is at least as far as cursor c.
Behind(c, d) == /\ c.done \subseteq d.done
                /\ \A f \in Folders : c.links[f] \subseteq d.links[f]

\* The cursor of a run is at least as far as the one in D1, and no item link is ahead
\* of the source, so that the link a folder is about to store is ahead of its old one.
OrderInv ==
    /\ pc # "idle" => Behind(durable, cursor)
    /\ \A f \in Folders : durable.links[f] \subseteq In(f) /\ cursor.links[f] \subseteq In(f)
    /\ pc \in {"items", "import", "beat"} =>
           cursor.links[folder] \subseteq link /\ link \subseteq In(folder)

\* The source only grows, and the cursors change in a few ways only.
LEMMA CursorSteps ==
  ASSUME TypeInv, LedgerInv, [Next]_vars
  PROVE  /\ source \subseteq source'
         /\ \/ durable' = durable \/ durable' = Empty
            \/ durable' = cursor /\ pc # "idle"
         /\ \/ UNCHANGED cursor /\ (pc = "idle" => pc' = "idle")
            \/ cursor' = Empty /\ pc' = "idle" /\ (durable' = durable \/ durable' = cursor)
            \/ pc = "idle" /\ cursor' = durable /\ UNCHANGED durable /\ pc' = "start"
            \/ LeaveFolders \/ LeaveItems
         /\ pc' \in {"items", "import", "beat"} =>
               \/ pc \in {"items", "import", "beat"} /\ UNCHANGED <<folder, link, cursor>>
               \/ \E f \in folders : /\ UNCHANGED <<source, cursor>>
                                     /\ folder' = f /\ link' = In(f)
<1> USE DEF graphVars, rowVars, memory, loopVars, stopVars, historyVars
<1>1. CASE Operator
  BY <1>1 DEF Operator, Issue, RequestDelta, Retry, Cancel, Arrive
<1>2. CASE Run
  <2>1. CASE \E p \in Passes : Begin(p) \/ Discard(p)
    BY <2>1 DEF Begin, Discard, LoadCheckpoint
  <2>2. CASE \/ \E b \in boxes : NextBox(b)
             \/ \E f \in folders : NextFolder(f)
             \/ \E b \in SUBSET items : Export(b)
             \/ \E i \in chunk : Import(i)
    BY <2>2 DEF NextBox, NextFolder, Export, Import
  <2>3. CASE MarkRunning \/ StopAtBox \/ NoMoreBoxes \/ StopAtFolder \/ MaybeFlush
    BY <2>3 DEF MarkRunning, StopAtBox, NoMoreBoxes, StopAtFolder, MaybeFlush
  <2>4. CASE LeaveFolders \/ LeaveItems
    BY <2>4 DEF LeaveFolders, LeaveItems
  <2>5. CASE Heartbeat \/ FlushItems \/ SaveCheckpoint
    BY <2>5 DEF Heartbeat, FlushItems, SaveCheckpoint
  <2>6. CASE Settle
    BY <2>6 DEF Settle, Forget
  <2>7. QED BY <1>2, <2>1, <2>2, <2>3, <2>4, <2>5, <2>6 DEF Run
<1>3. CASE Failure
  BY <1>3 DEF Failure, Sigterm, Interrupted, GraphFails, CallFails, Crash, Forget
<1>4. CASE UNCHANGED vars
  BY <1>4 DEF vars
<1>5. QED BY <1>1, <1>2, <1>3, <1>4 DEF Next

\* No link is ahead of an empty source at the start.
LEMMA InitOrder == Init => OrderInv
  BY DEF Init, OrderInv, Empty

\* Every step keeps the cursors in order.
LEMMA StepOrder == TypeInv /\ LedgerInv /\ OrderInv /\ [Next]_vars => OrderInv'
<1> SUFFICES ASSUME TypeInv, OrderInv,
                    /\ source \subseteq source'
                    /\ \/ durable' = durable \/ durable' = Empty
                       \/ durable' = cursor /\ pc # "idle"
                    /\ \/ UNCHANGED cursor /\ (pc = "idle" => pc' = "idle")
                       \/ /\ cursor' = Empty /\ pc' = "idle"
                          /\ durable' = durable \/ durable' = cursor
                       \/ /\ pc = "idle" /\ cursor' = durable /\ UNCHANGED durable
                          /\ pc' = "start"
                       \/ LeaveFolders \/ LeaveItems,
                    pc' \in {"items", "import", "beat"} =>
                       \/ pc \in {"items", "import", "beat"}
                             /\ UNCHANGED <<folder, link, cursor>>
                       \/ \E f \in folders : /\ UNCHANGED <<source, cursor>>
                                             /\ folder' = f /\ link' = In(f)
             PROVE  OrderInv'
  BY CursorSteps
<1>1. \A f \in Folders : In(f) \subseteq In(f)'
  BY DEF In
<1>2. \A f \in Folders : Empty.links[f] = {}
  BY DEF Empty
<1>3. \A f \in Folders : cursor'.links[f] \subseteq In(f)'
  <2>1. CASE LeaveItems
    <3>1. /\ cursor'.links = [cursor.links EXCEPT ![folder] = link] /\ folder \in Folders
          /\ link \subseteq In(folder) /\ cursor.links \in [Folders -> SUBSET Items]
      BY <2>1 DEF LeaveItems, OrderInv, TypeInv, Positions, TypeOK, Cursor
    <3>2. QED BY <3>1, <1>1 DEF OrderInv
  <2>2. CASE LeaveFolders
    <3>1. cursor'.links = cursor.links
      BY <2>2 DEF LeaveFolders, TypeInv, TypeOK, Cursor
    <3>2. QED BY <3>1, <1>1 DEF OrderInv
  <2>3. CASE ~LeaveItems /\ ~LeaveFolders
    BY <2>3, <1>1, <1>2 DEF OrderInv
  <2>4. QED BY <2>1, <2>2, <2>3
<1>4. \A f \in Folders : durable'.links[f] \subseteq In(f)'
  BY <1>1, <1>2 DEF OrderInv
<1>5. \/ Behind(cursor, cursor')
      \/ cursor' = Empty /\ pc' = "idle"
      \/ pc = "idle" /\ cursor' = durable /\ UNCHANGED durable
  <2>1. CASE LeaveItems
    <3>1. /\ cursor'.links = [cursor.links EXCEPT ![folder] = link] /\ folder \in Folders
          /\ cursor.done \subseteq cursor'.done
          /\ cursor.links[folder] \subseteq link /\ cursor.links \in [Folders -> SUBSET Items]
      BY <2>1 DEF LeaveItems, OrderInv, TypeInv, Positions, TypeOK, Cursor
    <3>2. \A f \in Folders : cursor.links[f] \subseteq cursor'.links[f]
      BY <3>1
    <3>3. Behind(cursor, cursor')
      BY <3>1, <3>2 DEF Behind
    <3>4. QED BY <3>3
  <2>2. CASE LeaveFolders
    <3>1. cursor'.links = cursor.links /\ cursor'.done = cursor.done
      BY <2>2 DEF LeaveFolders, TypeInv, TypeOK, Cursor
    <3>2. Behind(cursor, cursor')
      BY <3>1 DEF Behind
    <3>3. QED BY <3>2
  <2>3. CASE ~LeaveItems /\ ~LeaveFolders
    <3>1. Behind(cursor, cursor)
      BY DEF Behind
    <3>2. CASE cursor' = cursor
      BY <3>1, <3>2
    <3>3. CASE cursor' # cursor
      BY <2>3, <3>3
    <3>4. QED BY <3>2, <3>3
  <2>4. QED BY <2>1, <2>2, <2>3
<1>6. pc' # "idle" => Behind(durable', cursor')
  <2> SUFFICES ASSUME pc' # "idle" PROVE Behind(durable', cursor')
    OBVIOUS
  <2>1. CASE pc = "idle" /\ cursor' = durable /\ UNCHANGED durable
    BY <2>1 DEF Behind
  <2>2. CASE Behind(cursor, cursor') /\ pc # "idle"
    <3>1. Behind(durable, cursor')
      BY <2>2 DEF Behind, OrderInv
    <3>2. Behind(Empty, cursor')
      BY DEF Behind, Empty
    <3>3. QED BY <2>2, <3>1, <3>2
  <2>3. pc # "idle" \/ (pc = "idle" /\ cursor' = durable /\ UNCHANGED durable)
    <3>1. LeaveFolders \/ LeaveItems => pc # "idle"
      BY DEF LeaveFolders, LeaveItems
    <3>2. QED BY <3>1
  <2>4. QED BY <1>5, <2>1, <2>2, <2>3
<1>7. pc' \in {"items", "import", "beat"} =>
         cursor'.links[folder'] \subseteq link' /\ link' \subseteq In(folder)'
  <2>1. CASE pc \in {"items", "import", "beat"} /\ UNCHANGED <<folder, link, cursor>>
    <3>1. folder \in Folders /\ cursor.links[folder] \subseteq link /\ link \subseteq In(folder)
      BY <2>1 DEF OrderInv, TypeInv, Positions
    <3>2. In(folder)' = {i \in source' : Home[i] = folder}
      BY <2>1 DEF In
    <3>3. QED BY <2>1, <3>1, <3>2 DEF In
  <2>2. ASSUME NEW f \in folders, UNCHANGED <<source, cursor>>, folder' = f, link' = In(f)
        PROVE  cursor'.links[folder'] \subseteq link' /\ link' \subseteq In(folder)'
    <3>1. f \in Folders /\ cursor.links[f] \subseteq In(f)
      BY DEF OrderInv, TypeInv, TypeOK
    <3>2. In(folder)' = In(f)
      BY <2>2 DEF In
    <3>3. QED BY <2>2, <3>1, <3>2
  <2>3. QED BY <2>1, <2>2
<1>8. QED BY <1>3, <1>4, <1>6, <1>7 DEF OrderInv

(***************************************************************************)
(* The resume point in D1 never goes back, but for a job issued anew.      *)
(***************************************************************************)
THEOREM ResumePointAdvances == Spec => CheckpointMonotonic
<1> DEFINE Advances == durable' # Empty =>
                          /\ durable.done \subseteq durable'.done
                          /\ \A f \in Folders : durable.links[f] \subseteq durable'.links[f]
<1>1. TypeInv /\ LedgerInv /\ OrderInv /\ [Next]_vars => Advances
  BY CursorSteps DEF OrderInv, Behind
<1>2. Spec => [](TypeInv /\ LedgerInv /\ OrderInv)
  BY InitTypes, StepTypes, InitLedger, StepLedger, InitOrder, StepOrder, PTL DEF Spec
<1>3. QED BY <1>1, <1>2, PTL DEF Spec, CheckpointMonotonic

-------------------------------------------------------------------------------
(* Delivery: what a full pass that completes leaves behind. *)

\* The items of a folder that were there when the job was issued.
Due(f) == {i \in due["full"] : Home[i] = f}
Served(f) == Due(f) \subseteq Accounted

\* The run is inside a folder, or inside a mailbox.
InFolder == {"items", "import", "beat"}
InBox == InFolder \cup {"folders", "left", "folderBeat"}

\* Folders that the run has been through, unless a stop cut its loops short.
Past(f) ==
    \/ pc \in {"start", "boxes"} /\ Box[f] \notin boxes
    \/ /\ pc \in InBox /\ Box[f] \notin boxes /\ f \notin folders
       /\ pc \in InFolder => f # folder
    \/ pc \in {"flush", "save", "settle"}

\* What the cursors count as done is accounted for, unless the job was issued anew during
\* a run; and so is, in a full pass, the folder in progress but for what is still to do,
\* and every folder that the run has been through.
DeliveryInv ==
    /\ due["full"] \subseteq source
    /\ pc = "idle" => cursor = Empty
    /\ pc \in {"save", "settle"} => buffer = {}
    /\ ~stale => \A f \in durable.done \cup cursor.done : Served(f)
    /\ ~stale /\ pass = "full" =>
          /\ pc # "idle" => owed = due["full"]
          /\ pc \in InFolder => Due(folder) \subseteq items \cup chunk \cup Accounted
          /\ ~ShouldStop =>
                \A f \in Folders : Box[f] \in Targets /\ Past(f) => Served(f)

\* The account only grows, as that of the ledger does.
LEMMA AccountGrows ==
  ASSUME TypeInv, LedgerInv, [Next]_vars
  PROVE  Accounted \subseteq Accounted'
<1>1. CASE Ledger!Next
  BY <1>1 DEF Ledger!Next, Ledger!Keep, Ledger!Excuse, Ledger!Advance, Accounted
<1>2. CASE UNCHANGED Ledger!vars
  BY <1>2 DEF Ledger!vars, Accounted
<1>3. QED BY <1>1, <1>2, StepImplements

\* Nothing is owed before the first job.
LEMMA InitDelivery == Init => DeliveryInv
<1>1. Init => due["full"] = {} /\ Empty.done = {} /\ pc = "idle"
  BY DEF Init, Empty, Passes
<1>2. QED BY <1>1 DEF Init, DeliveryInv, Past, InFolder, InBox

\* A step within a run keeps the delivery if what it newly counts as done, or newly leaves
\* behind, is accounted for.
LEMMA DeliveryStep ==
  ASSUME DeliveryInv, Accounted \subseteq Accounted', due'["full"] = due["full"],
         source \subseteq source', UNCHANGED <<stale, pass>>,
         pc' # "idle" => pc # "idle" /\ owed' = owed,
         pc' = "idle" => cursor' = Empty,
         pc' \in {"save", "settle"} => buffer' = {},
         ~stale => \A f \in durable'.done \cup cursor'.done :
                       f \in durable.done \cup cursor.done \/ Served(f)',
         ~stale /\ pass = "full" /\ pc' \in InFolder =>
             Due(folder)' \subseteq items' \cup chunk' \cup Accounted',
         ~stale /\ pass = "full" /\ ~ShouldStop' =>
             /\ ~ShouldStop
             /\ \A f \in Folders : Box[f] \in Targets /\ Past(f)' => Past(f) \/ Served(f)'
  PROVE  DeliveryInv'
<1>1. \A f : Served(f) => Served(f)'
  BY DEF Served, Due
<1>2. QED BY <1>1 DEF DeliveryInv

\* A run that is forgotten leaves nothing new behind.
LEMMA ForgetDelivery ==
  ASSUME DeliveryInv, Accounted \subseteq Accounted', Forget,
         UNCHANGED <<source, due, stale, pass>>, durable' \in {durable, cursor}
  PROVE  DeliveryInv'
<1>1. pc' = "idle" /\ cursor' = Empty /\ Empty.done = {}
  BY DEF Forget, Empty
<1>2. \A f : ~Past(f)'
  BY <1>1 DEF Past, InBox, InFolder
<1>3. \A f : Served(f) => Served(f)'
  BY DEF Served, Due
<1>4. QED BY <1>1, <1>2, <1>3 DEF DeliveryInv, InFolder

\* A job issued while no run is going on owes what is in the source; nothing else that
\* operators and arriving mail do touches the delivery.
LEMMA OperatorDelivery ==
  ASSUME TypeInv, DeliveryInv, Accounted \subseteq Accounted', Operator
  PROVE  DeliveryInv'
<1> USE DEF graphVars, rowVars, memory, loopVars, stopVars, historyVars
<1>1. CASE Issue
  <2>1. /\ due'["full"] = source /\ durable' = Empty /\ stale' = (pc # "idle")
        /\ UNCHANGED <<source, pc, pass, cursor, buffer>>
    BY <1>1 DEF Issue, TypeInv, TypeOK, Passes
  <2>2. Empty.done = {}
    BY DEF Empty
  <2>3. pc = "idle" => \A f : ~Past(f)'
    BY <2>1 DEF Past, InBox, InFolder
  <2>4. QED BY <2>1, <2>2, <2>3 DEF DeliveryInv, InFolder
<1>2. CASE RequestDelta \/ Retry \/ Cancel \/ \E i \in Items : Arrive(i)
  <2>1. due'["full"] = due["full"] /\ source \subseteq source'
    BY <1>2 DEF RequestDelta, Retry, Cancel, Arrive, TypeInv, TypeOK, Passes
  <2>2. UNCHANGED <<durable, pc, pass, cursor, buffer, boxes, folders, folder, items, chunk,
                    stop, cancelled, owed, stale>>
    BY <1>2 DEF RequestDelta, Retry, Cancel, Arrive
  <2>3. \A f : Past(f)' => Past(f)
    BY <2>2 DEF Past
  <2>4. Due(folder)' = Due(folder)
    BY <2>1, <2>2 DEF Due
  <2>5. QED BY <2>1, <2>2, <2>3, <2>4, DeliveryStep DEF DeliveryInv, ShouldStop
<1>3. QED BY <1>1, <1>2 DEF Operator

\* The steps of a run keep the delivery.
LEMMA RunDelivery ==
  ASSUME TypeInv, LedgerInv, DeliveryInv, Accounted \subseteq Accounted', Run
  PROVE  DeliveryInv'
<1> USE DEF graphVars, rowVars, memory, loopVars, stopVars, historyVars, ShouldStop
<1>1. ASSUME NEW p \in Passes, Begin(p) PROVE DeliveryInv'
  <2>1. /\ pass' = p /\ owed' = due[p] /\ cursor' = durable /\ pc' = "start"
        /\ boxes' = Mailboxes /\ UNCHANGED <<source, due, durable, stale>>
    BY <1>1 DEF Begin, LoadCheckpoint
  <2>2. \A f \in Folders : ~Past(f)'
    BY <2>1, MailboxShape DEF Past, InBox, InFolder
  <2>3. \A f : Served(f) => Served(f)'
    BY <2>1 DEF Served, Due
  <2>4. QED BY <2>1, <2>2, <2>3 DEF DeliveryInv, InFolder
<1>2. ASSUME NEW p \in Passes, Discard(p) PROVE DeliveryInv'
  <2>1. /\ UNCHANGED <<source, due, durable, pc, pass, cursor, buffer, boxes, folders, folder,
                      stop, cancelled, owed, stale>>
        /\ pc = "idle"
    BY <1>2 DEF Discard
  <2>2. \A f : ~Past(f)'
    BY <2>1 DEF Past, InBox, InFolder
  <2>3. QED BY <2>1, <2>2, DeliveryStep DEF DeliveryInv, InFolder
<1>3. CASE MarkRunning \/ StopAtBox \/ NoMoreBoxes \/ StopAtFolder \/ MaybeFlush
  <2>1. /\ UNCHANGED <<source, due, pass, cursor, buffer, boxes, folders, folder, items, chunk,
                      stop, cancelled, owed, stale>>
        /\ durable' \in {durable, cursor}
        /\ pc # "idle" /\ pc' \notin {"idle", "save", "settle"}
    BY <1>3 DEF MarkRunning, StopAtBox, NoMoreBoxes, StopAtFolder, MaybeFlush
  <2>2. /\ pc' \in InFolder => pc \in InFolder
        /\ ~ShouldStop => \A f : Past(f)' => Past(f)
    BY <1>3, <2>1 DEF MarkRunning, StopAtBox, NoMoreBoxes, StopAtFolder, MaybeFlush, Past,
                      InBox, InFolder
  <2>3. Due(folder)' = Due(folder)
    BY <2>1 DEF Due
  <2>4. QED BY <2>1, <2>2, <2>3, DeliveryStep DEF DeliveryInv
<1>4. ASSUME NEW b \in boxes, NextBox(b) PROVE DeliveryInv'
  <2>1. /\ UNCHANGED <<source, due, pass, durable, cursor, buffer, stop, cancelled, owed, stale>>
        /\ pc = "boxes" /\ pc' \in {"boxes", "folders"} /\ boxes' = boxes \ {b}
        /\ b \in Targets /\ pass = "full" =>
              pc' = "folders" /\ folders' = {f \in Folders : Box[f] = b}
        /\ b \notin Targets => pc' = "boxes"
    BY <1>4 DEF NextBox
  <2>2. pass = "full" =>
            \A f \in Folders : Box[f] \in Targets /\ Past(f)' => Past(f)
    BY <2>1 DEF Past, InBox, InFolder
  <2>3. QED BY <2>1, <2>2, DeliveryStep DEF DeliveryInv, InFolder
<1>5. ASSUME NEW f \in folders, NextFolder(f) PROVE DeliveryInv'
  <2>1. /\ UNCHANGED <<source, due, pass, durable, cursor, buffer, boxes, stop, cancelled,
                      owed, stale, chunk>>
        /\ pc = "folders" /\ folders' = folders \ {f}
    BY <1>5 DEF NextFolder
  <2>2. CASE f \in cursor.done /\ pass = "full"
    <3>1. pc' = "folders"
      BY <1>5, <2>1, <2>2 DEF NextFolder
    <3>2. \A g : Past(g)' => Past(g) \/ g = f
      BY <2>1, <3>1 DEF Past, InBox, InFolder
    <3>3. ~stale => Served(f)'
      BY <2>1, <2>2 DEF DeliveryInv, Served, Due
    <3>4. QED BY <2>1, <3>1, <3>2, <3>3, DeliveryStep DEF DeliveryInv, InFolder
  <2>3. CASE ~(f \in cursor.done /\ pass = "full")
    <3>1. pc' = "items" /\ folder' = f /\ (pass = "full" => items' = In(f))
      BY <1>5, <2>3 DEF NextFolder
    <3>2. \A g : Past(g)' => Past(g)
      BY <2>1, <3>1 DEF Past, InBox, InFolder
    <3>3. Due(folder)' \subseteq In(f)
      BY <2>1, <3>1 DEF DeliveryInv, Due, In
    <3>4. QED BY <2>1, <3>1, <3>2, <3>3, DeliveryStep DEF DeliveryInv
  <2>4. QED BY <2>2, <2>3
<1>6. CASE LeaveFolders
  <2>1. /\ UNCHANGED <<source, due, pass, durable, buffer, boxes, folders, stop, cancelled,
                      owed, stale>>
        /\ pc = "folders" /\ folders = {} /\ pc' = "boxes"
    BY <1>6 DEF LeaveFolders
  <2>2. cursor'.done = cursor.done
    BY <1>6 DEF LeaveFolders, TypeInv, TypeOK, Cursor
  <2>3. \A f : Past(f)' => Past(f)
    BY <2>1 DEF Past, InBox, InFolder
  <2>4. QED BY <2>1, <2>2, <2>3, DeliveryStep DEF DeliveryInv, InFolder
<1>7. CASE (\E b \in SUBSET items : Export(b)) \/ (\E i \in chunk : Import(i))
  <2>1. /\ UNCHANGED <<source, due, pass, durable, cursor, boxes, folders, folder, stop,
                      cancelled, owed, stale>>
        /\ pc \in InFolder /\ pc # "idle" /\ pc' = "import"
    BY <1>7 DEF Export, Import, InFolder
  <2>2. items \cup chunk \subseteq items' \cup chunk' \cup Accounted'
    <3>1. ASSUME NEW b \in SUBSET items, Export(b)
          PROVE  items \cup chunk \subseteq items' \cup chunk' \cup Accounted'
      <4>1. PICK rejected \in SUBSET b :
               buffer' = buffer \cup rejected /\ chunk' = b \ rejected
        BY <3>1 DEF Export
      <4>2. items' = items \ b /\ chunk = {}
        BY <3>1 DEF Export, LedgerInv
      <4>3. QED BY <4>1, <4>2 DEF Accounted, Kept
    <3>2. ASSUME NEW i \in chunk, Import(i)
          PROVE  items \cup chunk \subseteq items' \cup chunk' \cup Accounted'
      BY <3>2 DEF Import, Accounted, Kept
    <3>3. QED BY <1>7, <3>1, <3>2
  <2>3. \A f : Past(f)' => Past(f)
    BY <2>1 DEF Past, InBox, InFolder
  <2>4. Due(folder)' = Due(folder)
    BY <2>1 DEF Due
  <2>5. QED BY <2>1, <2>2, <2>3, <2>4, DeliveryStep DEF DeliveryInv
<1>8. CASE LeaveItems
  <2>1. /\ UNCHANGED <<source, due, pass, durable, buffer, boxes, folders, folder, stop,
                      cancelled, owed, stale>>
        /\ pc = "items" /\ pc' = "left" /\ chunk = {} /\ cut' = cut \cup items
    BY <1>8 DEF LeaveItems, LedgerInv
  <2>2. cursor'.done = IF pass = "full" THEN cursor.done \cup {folder} ELSE cursor.done
    BY <1>8 DEF LeaveItems
  <2>3. ~stale /\ pass = "full" => Served(folder)'
    <3>1. ~stale /\ pass = "full" => Due(folder) \subseteq items \cup Accounted
      BY <2>1 DEF DeliveryInv, InFolder
    <3>2. items \subseteq Accounted'
      BY <2>1 DEF Accounted
    <3>3. QED BY <2>1, <3>1, <3>2 DEF Served, Due
  <2>4. \A f : Past(f)' => Past(f) \/ f = folder
    BY <2>1 DEF Past, InBox, InFolder
  <2>5. QED BY <2>1, <2>2, <2>3, <2>4, DeliveryStep DEF DeliveryInv, InFolder
<1>9. CASE Heartbeat
  <2>1. /\ UNCHANGED <<source, due, pass, durable, cursor, boxes, folders, folder, items,
                      chunk, stop, owed, stale>>
        /\ pc \in {"beat", "folderBeat"} /\ pc' = IF pc = "beat" THEN "items" ELSE "folders"
        /\ cancelled => cancelled'
    BY <1>9 DEF Heartbeat
  <2>2. \A f : Past(f)' => Past(f)
    BY <2>1 DEF Past, InBox, InFolder
  <2>3. Due(folder)' = Due(folder) /\ (pc' \in InFolder => pc \in InFolder)
    BY <2>1 DEF Due, InFolder
  <2>4. QED BY <2>1, <2>2, <2>3, DeliveryStep DEF DeliveryInv
<1>10. CASE FlushItems \/ SaveCheckpoint
  <2>1. /\ UNCHANGED <<source, due, pass, cursor, stop, cancelled, owed, stale>>
        /\ durable' \in {durable, cursor}
        /\ \/ pc = "flush" /\ pc' = "save" /\ buffer' = {}
           \/ pc = "save" /\ pc' = "settle" /\ buffer' = buffer
           \/ pc = "early" /\ pc' = "defer"
    BY <1>10 DEF FlushItems, SaveCheckpoint
  <2>2. \A f : Past(f)' => Past(f)
    BY <2>1 DEF Past, InBox, InFolder
  <2>3. QED BY <2>1, <2>2, DeliveryStep DEF DeliveryInv, InFolder
<1>11. CASE Settle
  BY <1>11, ForgetDelivery DEF Settle
<1>12. QED
  BY <1>1, <1>2, <1>3, <1>4, <1>5, <1>6, <1>7, <1>8, <1>9, <1>10, <1>11 DEF Run

\* Every step keeps the delivery.
LEMMA StepDelivery ==
  TypeInv /\ LedgerInv /\ DeliveryInv /\ [Next]_vars => DeliveryInv'
<1> SUFFICES ASSUME TypeInv, LedgerInv, DeliveryInv, [Next]_vars PROVE DeliveryInv'
  OBVIOUS
<1> USE DEF graphVars, rowVars, memory, loopVars, stopVars, historyVars
<1>1. Accounted \subseteq Accounted'
  BY AccountGrows
<1>2. CASE Operator \/ Run
  BY <1>1, <1>2, OperatorDelivery, RunDelivery
<1>3. CASE Failure
  <2>1. CASE Sigterm
    <3>1. /\ UNCHANGED <<source, due, durable, pc, pass, cursor, buffer, folder, items, chunk,
                        owed, stale>>
          /\ stop' = TRUE
      BY <2>1 DEF Sigterm
    <3>2. Due(folder)' = Due(folder)
      BY <3>1 DEF Due
    <3>3. QED BY <1>1, <3>1, <3>2, DeliveryStep DEF DeliveryInv, ShouldStop
  <2>2. CASE Interrupted \/ GraphFails \/ CallFails
    BY <1>1, <2>2, ForgetDelivery DEF Interrupted, GraphFails, CallFails, Crash
  <2>3. QED BY <1>3, <2>1, <2>2 DEF Failure
<1>4. CASE UNCHANGED vars
  BY <1>4 DEF vars, DeliveryInv, ShouldStop, Served, Due, Accounted, Kept, Past
<1>5. QED BY <1>2, <1>3, <1>4 DEF Next

\* Only the end of a run that saw no cancellation writes that a job is completed.
LEMMA CompletesAtSettle ==
  ASSUME [Next]_vars, Completes
  PROVE  pc = "settle" /\ ~cancelled /\ Settle
<1> USE DEF graphVars, rowVars, memory, loopVars, stopVars, historyVars
<1>1. CASE Operator
  BY <1>1 DEF Operator, Issue, RequestDelta, Retry, Cancel, Arrive, Completes
<1>2. CASE Settle
  BY <1>2 DEF Settle, Completes
<1>3. CASE Run /\ ~Settle
  BY <1>3 DEF Run, Begin, Discard, NextBox, MarkRunning, StopAtBox, NoMoreBoxes, NextFolder,
              StopAtFolder, LeaveFolders, Export, Import, MaybeFlush, LeaveItems, Heartbeat,
              FlushItems, SaveCheckpoint, Completes
<1>4. CASE Failure
  BY <1>4 DEF Failure, Sigterm, Interrupted, GraphFails, CallFails, Completes
<1>5. CASE UNCHANGED vars
  BY <1>5 DEF vars, Completes
<1>6. QED BY <1>1, <1>2, <1>3, <1>4, <1>5 DEF Next

\* By then a full pass has been through every folder.
LEMMA StepCompletes ==
  ASSUME TypeInv, DeliveryInv, [Next]_vars, Completes, pass = "full", ~stop, ~stale
  PROVE  owed \cap Reachable \subseteq dest \cup logged \cup cut \cup dropped
<1>1. pc = "settle" /\ ~cancelled
  BY CompletesAtSettle
<1>2. /\ owed = due["full"] /\ buffer = {}
      /\ \A f \in Folders : Box[f] \in Targets => Served(f)
  BY <1>1 DEF DeliveryInv, ShouldStop, Past
<1>3. ASSUME NEW i \in owed \cap Reachable PROVE i \in Accounted
  <2>1. i \in Due(Home[i]) /\ Home[i] \in Folders /\ Box[Home[i]] \in Targets
    BY <1>2, <1>3, MailboxShape DEF Reachable, Due
  <2>2. QED BY <1>2, <2>1 DEF Served
<1>4. QED BY <1>2, <1>3 DEF Accounted, Kept

(***************************************************************************)
(* A full pass that is reported completed has moved, recorded or excused   *)
(* every item that was in the source when the job was issued.              *)
(***************************************************************************)
THEOREM FullPassDelivers == Spec => CompletedFullPass
<1> DEFINE Delivers ==
        Completes /\ pass = "full" /\ ~stop /\ ~stale =>
            owed \cap Reachable \subseteq dest \cup logged \cup cut \cup dropped
<1>1. TypeInv /\ DeliveryInv /\ [Next]_vars => Delivers
  BY StepCompletes
<1>2. Spec => [](TypeInv /\ LedgerInv /\ DeliveryInv)
  BY InitTypes, StepTypes, InitLedger, StepLedger, InitDelivery, StepDelivery, PTL DEF Spec
<1>3. QED BY <1>1, <1>2, PTL DEF Spec, CompletedFullPass

-------------------------------------------------------------------------------
(* Excuses: only what stops or fails a run is on that account. *)

\* What a run holds when it gets to its end: no record, unless a stop cut it short.
CauseInv ==
    /\ pc \in {"save", "settle"} => buffer = {}
    /\ pc \in {"early", "defer"} => ShouldStop

\* A run gets to its end with its records flushed, or with a stop in sight.
LEMMA StepCause == CauseInv /\ [Next]_vars => CauseInv'
<1> SUFFICES ASSUME CauseInv, [Next]_vars PROVE CauseInv'
  OBVIOUS
<1> USE DEF CauseInv, ShouldStop, graphVars, rowVars, memory, loopVars, stopVars, historyVars
<1>1. CASE Operator
  BY <1>1 DEF Operator, Issue, RequestDelta, Retry, Cancel, Arrive
<1>2. CASE Run
  <2>1. CASE FlushItems \/ SaveCheckpoint \/ StopAtBox
    BY <2>1 DEF FlushItems, SaveCheckpoint, StopAtBox
  <2>2. CASE Settle \/ \E p \in Passes : Begin(p) \/ Discard(p)
    BY <2>2 DEF Settle, Forget, Begin, Discard
  <2>3. CASE Run /\ ~(FlushItems \/ SaveCheckpoint \/ StopAtBox \/ Settle
                      \/ \E p \in Passes : Begin(p) \/ Discard(p))
    <3>1. pc' \notin {"save", "settle", "early", "defer"}
      BY <2>3 DEF Run, NextBox, MarkRunning, NoMoreBoxes, NextFolder, StopAtFolder,
                  LeaveFolders, Export, Import, MaybeFlush, LeaveItems, Heartbeat
    <3>2. QED BY <3>1
  <2>4. QED BY <1>2, <2>1, <2>2, <2>3
<1>3. CASE Failure
  BY <1>3 DEF Failure, Sigterm, Interrupted, GraphFails, CallFails, Crash, Forget
<1>4. CASE UNCHANGED vars
  BY <1>4 DEF vars
<1>5. QED BY <1>1, <1>2, <1>3, <1>4 DEF Next

\* A step that excuses an item is that of a stop, or of a failure.
LEMMA StepExcuses ==
  ASSUME TypeInv, CauseInv, [Next]_vars, cut' # cut \/ dropped' # dropped
  PROVE  ShouldStop \/ faults' # faults
<1> USE DEF graphVars, rowVars, memory, loopVars, stopVars, boundVars, historyVars, ShouldStop
<1>1. CASE Operator
  BY <1>1 DEF Operator, Issue, RequestDelta, Retry, Cancel, Arrive
<1>2. CASE Run
  <2>1. CASE Settle
    BY <2>1 DEF Settle, Forget, CauseInv
  <2>2. CASE LeaveItems
    BY <2>2 DEF LeaveItems
  <2>3. CASE Run /\ ~Settle /\ ~LeaveItems
    <3>1. UNCHANGED <<cut, dropped>>
      BY <2>3 DEF Run, Begin, Discard, NextBox, MarkRunning, StopAtBox, NoMoreBoxes,
                  NextFolder, StopAtFolder, LeaveFolders, Export, Import, MaybeFlush,
                  Heartbeat, FlushItems, SaveCheckpoint
    <3>2. QED BY <3>1
  <2>4. QED BY <1>2, <2>1, <2>2, <2>3
<1>3. CASE Failure
  <2>1. Fault /\ faults \in Nat
    BY <1>3, MailboxBounds DEF Failure, Sigterm, Interrupted, GraphFails, CallFails, TypeInv,
                               TypeOK
  <2>2. QED BY <2>1 DEF Fault
<1>4. CASE UNCHANGED vars
  BY <1>4 DEF vars
<1>5. QED BY <1>1, <1>2, <1>3, <1>4 DEF Next

(***************************************************************************)
(* Only a stop, a cancellation or a failure excuses a pass from an item.   *)
(***************************************************************************)
THEOREM OnlyFailuresExcuse == Spec => ExcusesHaveCause
<1> DEFINE HasCause == cut' # cut \/ dropped' # dropped => ShouldStop \/ faults' # faults
<1>1. TypeInv /\ CauseInv /\ [Next]_vars => HasCause
  BY StepExcuses
<1>2. Init => CauseInv
  BY DEF Init, CauseInv
<1>3. Spec => [](TypeInv /\ CauseInv)
  BY <1>2, InitTypes, StepTypes, StepCause, PTL DEF Spec
<1>4. QED BY <1>1, <1>3, PTL DEF Spec, ExcusesHaveCause

-------------------------------------------------------------------------------
(* Delta passes: what one that completes leaves behind. *)

\* Every folder link is of a mailbox with a destination.
LinkInv ==
    /\ \A l \in {durable.flink, cursor.flink, since} \ {None} : l.box \in Targets
    /\ pc \in InBox => newLink # None /\ newLink.box \in Targets

\* In a delta pass, what is new in the mailbox of the folder link is accounted for once
\* that link moves; before that, but for the folders and items still to do.
Unlisted ==
    {i \in Items : Home[i] \in folders} \cup (IF pc \in InFolder THEN items \cup chunk ELSE {})

DeltaInv ==
    /\ due["delta"] \subseteq source
    /\ pc # "idle" /\ pass = "delta" =>
          /\ owed \subseteq source
          /\ since # None => /\ cursor.flink # None /\ cursor.flink.box = since.box
                             /\ pc \in InBox => newLink.box = since.box
          /\ pc \in InBox => New(newLink.box) \subseteq Accounted \cup Unlisted
          /\ ~ShouldStop /\ pc \notin InBox =>
                \/ pc \in {"start", "boxes"} /\ cursor.flink = since /\ Targets \subseteq boxes
                \/ cursor.flink # None /\ New(cursor.flink.box) \subseteq Accounted
                \/ pc \in {"flush", "save", "settle"} /\ Targets = {}

\* No link is stored at first, and no delta pass owes anything.
LEMMA InitDelta == Init => LinkInv /\ DeltaInv
<1>1. Empty.flink = None
  BY DEF Empty
<1>2. Init => due["delta"] = {} /\ pc = "idle" /\ "idle" \notin InBox
  BY DEF Init, Passes, InBox, InFolder
<1>3. QED BY <1>1, <1>2 DEF Init, LinkInv, DeltaInv

\* A run that is forgotten leaves the links in D1.
LEMMA ForgetLinks ==
  ASSUME LinkInv, Forget, durable' \in {durable, cursor}
  PROVE  LinkInv'
<1>1. cursor'.flink = None /\ since' = None /\ pc' \notin InBox
  BY DEF Forget, Empty, InBox, InFolder
<1>2. QED BY <1>1 DEF LinkInv

\* Every step stores links of mailboxes with a destination only.
LEMMA StepLinks == TypeInv /\ LinkInv /\ [Next]_vars => LinkInv'
<1> SUFFICES ASSUME TypeInv, LinkInv, [Next]_vars PROVE LinkInv'
  OBVIOUS
<1> USE DEF graphVars, rowVars, memory, loopVars, historyVars
<1>1. CASE Operator
  <2>1. /\ UNCHANGED <<cursor, since, pc, newLink>>
        /\ durable' \in {durable, Empty}
    BY <1>1 DEF Operator, Issue, RequestDelta, Retry, Cancel, Arrive
  <2>2. QED BY <2>1 DEF LinkInv, Empty
<1>2. CASE Run
  <2>1. ASSUME NEW p \in Passes, Begin(p) PROVE LinkInv'
    BY <2>1 DEF Begin, LoadCheckpoint, LinkInv, InBox, InFolder
  <2>2. ASSUME NEW b \in boxes, NextBox(b) PROVE LinkInv'
    <3>1. UNCHANGED <<durable, cursor, since>>
      BY <2>2 DEF NextBox
    <3>2. CASE b \in Targets
      <4>1. newLink' = [box |-> IF pass = "delta" /\ cursor.flink # None THEN cursor.flink.box
                                ELSE b,
                        seen |-> source]
        BY <2>2, <3>2 DEF NextBox
      <4>2. newLink'.box \in Targets
        BY <3>2, <4>1 DEF LinkInv
      <4>3. newLink' # None
        <5>1. source \in SUBSET Items /\ newLink'.box \in Mailboxes
          BY <4>2, MailboxShape DEF TypeInv, TypeOK
        <5>2. newLink' \in FolderLink
          BY <4>1, <5>1 DEF FolderLink
        <5>3. QED BY <5>2, NoneIsNone
      <4>4. QED BY <3>1, <4>2, <4>3 DEF LinkInv
    <3>3. CASE b \notin Targets
      BY <2>2, <3>1, <3>3 DEF NextBox, LinkInv, InBox, InFolder
    <3>4. QED BY <3>2, <3>3
  <2>3. CASE LeaveFolders
    <3>1. cursor'.flink = newLink /\ pc \in InBox /\ pc' = "boxes" /\ UNCHANGED <<durable, since>>
      BY <2>3 DEF LeaveFolders, TypeInv, TypeOK, Cursor, InBox
    <3>2. QED BY <3>1 DEF LinkInv, InBox, InFolder
  <2>4. CASE LeaveItems
    <3>1. cursor'.flink = cursor.flink /\ pc \in InBox /\ UNCHANGED <<durable, since, newLink>>
      BY <2>4 DEF LeaveItems, InBox, InFolder
    <3>2. QED BY <3>1 DEF LinkInv
  <2>5. CASE MaybeFlush \/ SaveCheckpoint
    <3>1. /\ durable' \in {durable, cursor} /\ UNCHANGED <<cursor, since, newLink>>
          /\ pc' \in InBox => pc \in InBox
      BY <2>5 DEF MaybeFlush, SaveCheckpoint, InBox, InFolder
    <3>2. QED BY <3>1 DEF LinkInv
  <2>6. CASE Settle
    BY <2>6, ForgetLinks DEF Settle
  <2>7. CASE \/ \E p \in Passes : Discard(p)
             \/ MarkRunning \/ StopAtBox \/ NoMoreBoxes \/ StopAtFolder \/ Heartbeat \/ FlushItems
             \/ \E f \in folders : NextFolder(f)
             \/ \E b \in SUBSET items : Export(b)
             \/ \E i \in chunk : Import(i)
    <3>1. UNCHANGED <<durable, cursor, since, newLink>>
      BY <2>7 DEF Discard, MarkRunning, StopAtBox, NoMoreBoxes, StopAtFolder, Heartbeat,
                  FlushItems, NextFolder, Export, Import
    <3>2. pc' \in InBox => pc \in InBox
      BY <2>7 DEF Discard, MarkRunning, StopAtBox, NoMoreBoxes, StopAtFolder, Heartbeat,
                  FlushItems, NextFolder, Export, Import, InBox, InFolder
    <3>3. QED BY <3>1, <3>2 DEF LinkInv
  <2>8. QED BY <1>2, <2>1, <2>2, <2>3, <2>4, <2>5, <2>6, <2>7 DEF Run
<1>3. CASE Failure
  <2>1. CASE Sigterm
    BY <2>1 DEF Sigterm, LinkInv
  <2>2. CASE Interrupted \/ GraphFails \/ CallFails
    BY <2>2, ForgetLinks DEF Interrupted, GraphFails, CallFails, Crash
  <2>3. QED BY <1>3, <2>1, <2>2 DEF Failure
<1>4. CASE UNCHANGED vars
  BY <1>4 DEF vars, LinkInv
<1>5. QED BY <1>1, <1>2, <1>3, <1>4 DEF Next

\* A step that moves neither the mailboxes nor the link of a run keeps the delivery of a
\* delta pass if it accounts for what it takes off the lists.
LEMMA DeltaStep ==
  ASSUME DeltaInv, Accounted \subseteq Accounted', UNCHANGED <<pass, owed, since, boxes, newLink>>,
         cursor'.flink = cursor.flink, source \subseteq source',
         due'["delta"] \in {due["delta"], source'},
         pc' # "idle" => pc # "idle",
         pc' \in InBox => pc \in InBox /\ Unlisted \subseteq Unlisted' \cup Accounted',
         ~ShouldStop' /\ pc' # "idle" /\ pc' \notin InBox =>
             /\ ~ShouldStop /\ pc \notin InBox
             /\ pc \in {"start", "boxes"} => pc' \in {"start", "boxes"}
             /\ pc \in {"flush", "save", "settle"} => pc' \in {"flush", "save", "settle"}
  PROVE  DeltaInv'
<1>1. \A b : New(b)' = New(b)
  BY DEF New, Seen
<1>2. due'["delta"] \subseteq source'
  BY DEF DeltaInv
<1>3. CASE pc' # "idle" /\ pass = "delta"
  <2>1. /\ owed' \subseteq source'
        /\ since' # None => /\ cursor'.flink # None /\ cursor'.flink.box = since'.box
                            /\ pc' \in InBox => newLink'.box = since'.box
    BY <1>3 DEF DeltaInv
  <2>2. pc' \in InBox => New(newLink.box)' \subseteq Accounted' \cup Unlisted'
    BY <1>1, <1>3 DEF DeltaInv
  <2>3. ~ShouldStop' /\ pc' \notin InBox =>
           \/ pc' \in {"start", "boxes"} /\ cursor'.flink = since' /\ Targets \subseteq boxes'
           \/ cursor'.flink # None /\ New(cursor.flink.box)' \subseteq Accounted'
           \/ pc' \in {"flush", "save", "settle"} /\ Targets = {}
    BY <1>1, <1>3 DEF DeltaInv
  <2>4. QED BY <1>2, <2>1, <2>2, <2>3 DEF DeltaInv
<1>4. QED BY <1>2, <1>3 DEF DeltaInv

\* What operators ask for and what arrives is new only for a later pass.
LEMMA OperatorDelta ==
  ASSUME TypeInv, DeltaInv, Accounted \subseteq Accounted', Operator
  PROVE  DeltaInv'
<1> USE DEF graphVars, rowVars, memory, loopVars, stopVars, historyVars
<1>1. /\ UNCHANGED <<pass, owed, since, boxes, newLink, cursor, pc, stop, cancelled, folders,
                     items, chunk>>
      /\ source \subseteq source'
  BY DEF Operator, Issue, RequestDelta, Retry, Cancel, Arrive
<1>2. due'["delta"] \in {due["delta"], source'}
  BY DEF Operator, Issue, RequestDelta, Retry, Cancel, Arrive, TypeInv, TypeOK, Passes
<1>3. Unlisted' = Unlisted /\ ShouldStop' = ShouldStop
  BY <1>1 DEF Unlisted, ShouldStop
<1>4. QED BY <1>1, <1>2, <1>3, DeltaStep

\* The next mailbox of a delta pass: the first one lists what is new in the mailbox of the
\* link, the later ones find it accounted for.
LEMMA NextBoxDelta ==
  ASSUME TypeInv, DeltaInv, Accounted \subseteq Accounted', NEW b \in boxes, NextBox(b)
  PROVE  DeltaInv'
<1> USE DEF graphVars, rowVars, memory, loopVars, stopVars, historyVars
<1> DEFINE resumed == pass = "delta" /\ cursor.flink # None
<1>1. /\ UNCHANGED <<source, due, pass, owed, since, cursor, items, chunk, stop, cancelled>>
      /\ pc = "boxes" /\ ~ShouldStop /\ boxes' = boxes \ {b}
  BY DEF NextBox
<1>2. \A c : New(c)' = New(c)
  BY <1>1 DEF New, Seen
<1>3. CASE b \notin Targets
  <2>1. pc' = "boxes" /\ newLink' = newLink
    BY <1>1, <1>3 DEF NextBox
  <2>2. QED BY <1>1, <1>2, <1>3, <2>1 DEF DeltaInv, InBox, InFolder
<1>4. CASE b \in Targets
  <2>1. /\ folders' = IF resumed THEN FoldersSince(cursor.flink) ELSE {f \in Folders : Box[f] = b}
        /\ newLink' = [box |-> IF resumed THEN cursor.flink.box ELSE b, seen |-> source]
        /\ pc' = "folders"
    BY <1>1, <1>4 DEF NextBox
  <2>2. CASE pass = "delta"
    <3>1. since # None => cursor.flink # None /\ newLink'.box = since.box
      BY <1>1, <2>1, <2>2 DEF DeltaInv
    <3>2. New(newLink'.box) \subseteq Accounted' \cup Unlisted'
      <4>1. CASE cursor.flink = since
        <5>1. ASSUME NEW i \in New(newLink'.box) PROVE Home[i] \in folders'
          <6>1. /\ i \in Items /\ i \in source /\ i \notin Seen(since)
                /\ Home[i] \in Folders /\ Box[Home[i]] = newLink'.box
            BY <1>1, <2>2, <5>1, MailboxShape DEF New, DeltaInv, TypeInv, TypeOK
          <6>2. CASE resumed
            <7>1. i \in In(Home[i]) \ cursor.flink.seen /\ Box[Home[i]] = cursor.flink.box
              BY <2>1, <4>1, <6>1, <6>2 DEF In, Seen
            <7>2. QED BY <2>1, <6>1, <6>2, <7>1 DEF FoldersSince
          <6>3. CASE ~resumed
            BY <2>1, <6>1, <6>3
          <6>4. QED BY <6>2, <6>3
        <5>2. New(newLink'.box) \subseteq Items
          BY DEF New, TypeInv, TypeOK
        <5>3. QED BY <5>1, <5>2 DEF Unlisted
      <4>2. CASE cursor.flink # since
        <5>1. cursor.flink # None /\ New(cursor.flink.box) \subseteq Accounted
          BY <1>1, <2>2, <4>2 DEF DeltaInv, InBox, InFolder
        <5>2. newLink'.box = cursor.flink.box
          BY <2>1, <2>2, <5>1
        <5>3. QED BY <5>1, <5>2
      <4>3. QED BY <4>1, <4>2
    <3>3. pc' \in InBox /\ pc' # "idle"
      BY <2>1 DEF InBox
    <3>4. New(newLink.box)' = New(newLink'.box)
      BY <1>1 DEF New, Seen
    <3>5. QED BY <1>1, <2>2, <3>1, <3>2, <3>3, <3>4 DEF DeltaInv
  <2>3. CASE pass # "delta"
    BY <1>1, <2>3 DEF DeltaInv
  <2>4. QED BY <2>2, <2>3
<1>5. QED BY <1>3, <1>4

\* The steps of a run keep the delivery of a delta pass.
LEMMA RunDelta ==
  ASSUME TypeInv, LedgerInv, DeltaInv, Accounted \subseteq Accounted', Run
  PROVE  DeltaInv'
<1> USE DEF graphVars, rowVars, memory, loopVars, stopVars, historyVars
<1>1. ASSUME NEW p \in Passes, Begin(p) PROVE DeltaInv'
  <2>1. /\ pass' = p /\ owed' = due[p] /\ cursor' = durable /\ since' = durable.flink
        /\ pc' = "start" /\ boxes' = Mailboxes /\ UNCHANGED <<source, due>>
    BY <1>1 DEF Begin, LoadCheckpoint
  <2>2. "start" \notin InBox
    BY DEF InBox, InFolder
  <2>3. QED BY <2>1, <2>2, MailboxShape DEF DeltaInv
<1>2. ASSUME NEW p \in Passes, Discard(p) PROVE DeltaInv'
  BY <1>2 DEF Discard, DeltaInv
<1>3. CASE MarkRunning \/ MaybeFlush
  <2>1. /\ UNCHANGED <<source, due, pass, owed, since, boxes, newLink, cursor, folders, items,
                      chunk, stop, cancelled>>
        /\ pc # "idle"
    BY <1>3 DEF MarkRunning, MaybeFlush
  <2>2. \/ pc = "start" /\ pc' = "boxes"
        \/ pc = "import" /\ pc' = "beat"
        \/ pc = "left" /\ pc' = "folderBeat"
    BY <1>3 DEF MarkRunning, MaybeFlush
  <2>3. Unlisted' = Unlisted /\ ShouldStop' = ShouldStop
    BY <2>1, <2>2 DEF Unlisted, ShouldStop, InFolder
  <2>4. QED BY <2>1, <2>2, <2>3, DeltaStep DEF InBox, InFolder
<1>4. ASSUME NEW b \in boxes, NextBox(b) PROVE DeltaInv'
  BY <1>4, NextBoxDelta
<1>5. CASE StopAtBox \/ StopAtFolder
  <2>1. /\ UNCHANGED <<source, due, pass, owed, since, boxes, newLink, cursor, stop, cancelled>>
        /\ ShouldStop /\ pc # "idle" /\ pc' \notin InBox
    BY <1>5 DEF StopAtBox, StopAtFolder, InBox, InFolder
  <2>2. QED BY <2>1, DeltaStep DEF ShouldStop
<1>6. CASE NoMoreBoxes
  <2>1. /\ UNCHANGED <<source, due, pass, owed, since, boxes, newLink, cursor, stop, cancelled>>
        /\ pc = "boxes" /\ pc' = "flush" /\ boxes = {}
    BY <1>6 DEF NoMoreBoxes
  <2>2. \A c : New(c)' = New(c)
    BY <2>1 DEF New, Seen
  <2>3. "boxes" \notin InBox /\ "flush" \notin InBox /\ ShouldStop' = ShouldStop
    BY <2>1 DEF InBox, InFolder, ShouldStop
  <2>4. ~ShouldStop /\ pass = "delta" =>
            \/ cursor.flink # None /\ New(cursor.flink.box) \subseteq Accounted
            \/ Targets = {}
    BY <2>1, <2>3 DEF DeltaInv
  <2>5. New(cursor.flink.box)' = New(cursor.flink.box)
    BY <2>1 DEF New, Seen
  <2>6. QED BY <2>1, <2>3, <2>4, <2>5 DEF DeltaInv
<1>7. ASSUME NEW f \in folders, NextFolder(f) PROVE DeltaInv'
  <2>1. /\ UNCHANGED <<source, due, pass, owed, since, boxes, newLink, cursor, chunk, stop,
                      cancelled, dest, logged, buffer, cut, dropped>>
        /\ pc = "folders" /\ folders' = folders \ {f}
    BY <1>7 DEF NextFolder
  <2>2. CASE pass # "delta"
    BY <2>1, <2>2 DEF DeltaInv
  <2>3. CASE pass = "delta"
    <3>1. pc' = "items" /\ items' = In(f) \ cursor.links[f]
      BY <1>7, <2>3 DEF NextFolder
    <3>2. cursor.links[f] \subseteq Accounted'
      BY DEF TypeInv, TypeOK, Covered, LedgerInv
    <3>3. New(newLink.box) \subseteq Accounted \cup Unlisted
      BY <2>1, <2>3 DEF DeltaInv, InBox
    <3>4. ASSUME NEW i \in New(newLink.box) PROVE i \in Accounted' \cup Unlisted'
      <4>1. i \in source /\ i \in Items
        BY <2>1, <2>3, <3>4 DEF DeltaInv, New, TypeInv, TypeOK
      <4>2. CASE i \in Accounted
        BY <4>2
      <4>3. CASE i \notin Accounted
        <5>1. Home[i] \in folders
          BY <2>1, <3>3, <3>4, <4>3 DEF Unlisted, InFolder
        <5>2. CASE Home[i] = f
          BY <3>1, <3>2, <4>1, <5>2 DEF In, Unlisted, InFolder
        <5>3. CASE Home[i] # f
          BY <2>1, <4>1, <5>1, <5>3 DEF Unlisted
        <5>4. QED BY <5>2, <5>3
      <4>4. QED BY <4>2, <4>3
    <3>5. New(newLink.box)' = New(newLink.box)
      BY <2>1 DEF New, Seen
    <3>6. /\ owed \subseteq source
          /\ since # None => /\ cursor.flink # None /\ cursor.flink.box = since.box
                             /\ newLink.box = since.box
      BY <2>1, <2>3 DEF DeltaInv, InBox
    <3>7. pc' \in InBox
      BY <3>1 DEF InBox, InFolder
    <3>8. due'["delta"] \subseteq source'
      BY <2>1 DEF DeltaInv
    <3>9. QED BY <2>1, <3>4, <3>5, <3>6, <3>7, <3>8 DEF DeltaInv
  <2>4. QED BY <2>2, <2>3
<1>8. CASE LeaveFolders
  <2>1. /\ UNCHANGED <<source, due, pass, owed, since, boxes, newLink, stop, cancelled>>
        /\ pc = "folders" /\ folders = {} /\ pc' = "boxes"
    BY <1>8 DEF LeaveFolders
  <2>2. cursor'.flink = newLink /\ newLink \in FolderLink
    BY <1>8 DEF LeaveFolders, TypeInv, TypeOK, Cursor, Positions
  <2>3. New(newLink.box)' = New(newLink.box)
    BY <2>1 DEF New, Seen
  <2>4. pass = "delta" => /\ New(newLink.box) \subseteq Accounted
                          /\ since # None => newLink.box = since.box
    BY <2>1 DEF DeltaInv, InBox, InFolder, Unlisted
  <2>5. newLink # None /\ pc' \notin InBox
    BY <2>1, <2>2, NoneIsNone DEF InBox, InFolder
  <2>6. QED BY <2>1, <2>2, <2>3, <2>4, <2>5 DEF DeltaInv
<1>9. CASE (\E b \in SUBSET items : Export(b)) \/ (\E i \in chunk : Import(i)) \/ LeaveItems
  <2>1. /\ UNCHANGED <<source, due, pass, owed, since, boxes, newLink, folders, stop, cancelled>>
        /\ cursor'.flink = cursor.flink
        /\ pc \in InFolder /\ pc' \in {"import", "left"}
    BY <1>9 DEF Export, Import, LeaveItems, InFolder
  <2>2. items \cup chunk \subseteq (IF pc' \in InFolder THEN items' \cup chunk' ELSE {})
                                  \cup Accounted'
    <3>1. ASSUME NEW b \in SUBSET items, Export(b)
          PROVE  items \cup chunk \subseteq items' \cup chunk' \cup Accounted' /\ pc' = "import"
      <4>1. PICK rejected \in SUBSET b :
               buffer' = buffer \cup rejected /\ chunk' = b \ rejected
        BY <3>1 DEF Export
      <4>2. items' = items \ b /\ chunk = {} /\ pc' = "import"
        BY <3>1 DEF Export, LedgerInv
      <4>3. QED BY <4>1, <4>2 DEF Accounted, Kept
    <3>2. ASSUME NEW i \in chunk, Import(i)
          PROVE  items \cup chunk \subseteq items' \cup chunk' \cup Accounted' /\ pc' = "import"
      BY <3>2 DEF Import, Accounted, Kept
    <3>3. CASE LeaveItems
      BY <3>3 DEF LeaveItems, LedgerInv, Accounted
    <3>4. QED BY <1>9, <3>1, <3>2, <3>3 DEF InFolder
  <2>3. Unlisted \subseteq Unlisted' \cup Accounted'
    BY <2>1, <2>2 DEF Unlisted
  <2>4. QED BY <2>1, <2>3, DeltaStep DEF ShouldStop, InBox, InFolder
<1>10. CASE Heartbeat
  <2>1. /\ UNCHANGED <<source, due, pass, owed, since, boxes, newLink, cursor, folders, items,
                      chunk, stop>>
        /\ pc \in {"beat", "folderBeat"} /\ pc' = IF pc = "beat" THEN "items" ELSE "folders"
    BY <1>10 DEF Heartbeat
  <2>2. Unlisted' = Unlisted
    BY <2>1 DEF Unlisted, InFolder
  <2>3. QED BY <2>1, <2>2, DeltaStep DEF InBox, InFolder
<1>11. CASE FlushItems \/ SaveCheckpoint
  <2>1. /\ UNCHANGED <<source, due, pass, owed, since, boxes, newLink, cursor, stop, cancelled>>
        /\ \/ pc = "flush" /\ pc' = "save"
           \/ pc = "save" /\ pc' = "settle"
           \/ pc = "early" /\ pc' = "defer"
    BY <1>11 DEF FlushItems, SaveCheckpoint
  <2>2. QED BY <2>1, DeltaStep DEF ShouldStop, InBox, InFolder
<1>12. CASE Settle
  BY <1>12 DEF Settle, Forget, DeltaInv
<1>13. QED
  BY <1>1, <1>2, <1>3, <1>4, <1>5, <1>6, <1>7, <1>8, <1>9, <1>10, <1>11, <1>12 DEF Run

\* Every step keeps the delivery of a delta pass.
LEMMA StepDelta == TypeInv /\ LedgerInv /\ DeltaInv /\ [Next]_vars => DeltaInv'
<1> SUFFICES ASSUME TypeInv, LedgerInv, DeltaInv, [Next]_vars PROVE DeltaInv'
  OBVIOUS
<1> USE DEF graphVars, rowVars, memory, loopVars, stopVars, historyVars
<1>1. Accounted \subseteq Accounted'
  BY AccountGrows
<1>2. CASE Operator \/ Run
  BY <1>1, <1>2, OperatorDelta, RunDelta
<1>3. CASE Failure
  <2>1. CASE Sigterm
    <3>1. /\ UNCHANGED <<source, due, pass, owed, since, boxes, newLink, cursor, pc, folders,
                        items, chunk>>
          /\ ShouldStop'
      BY <2>1 DEF Sigterm, ShouldStop
    <3>2. Unlisted' = Unlisted
      BY <3>1 DEF Unlisted
    <3>3. QED BY <1>1, <3>1, <3>2, DeltaStep
  <2>2. CASE Interrupted \/ GraphFails \/ CallFails
    BY <2>2 DEF Interrupted, GraphFails, CallFails, Crash, Forget, DeltaInv
  <2>3. QED BY <1>3, <2>1, <2>2 DEF Failure
<1>4. CASE UNCHANGED vars
  <2>1. /\ UNCHANGED <<source, due, pass, owed, since, boxes, newLink, cursor, pc, folders,
                      items, chunk, stop, cancelled>>
    BY <1>4 DEF vars
  <2>2. Unlisted' = Unlisted /\ ShouldStop' = ShouldStop
    BY <2>1 DEF Unlisted, ShouldStop
  <2>3. QED BY <1>1, <2>1, <2>2, DeltaStep
<1>5. QED BY <1>2, <1>3, <1>4 DEF Next

(***************************************************************************)
(* A delta pass that is reported completed has moved, recorded or excused  *)
(* all that came into the mailbox of its folder link between that link and *)
(* the request.                                                            *)
(***************************************************************************)
THEOREM DeltaPassDelivers == Spec => DeltaDeliversOneBox
<1> DEFINE Delivers ==
        Completes /\ pass = "delta" /\ ~stop /\ Targets # {} =>
            \E b \in Targets : /\ since # None => b = since.box
                               /\ New(b) \subseteq dest \cup logged \cup cut \cup dropped
<1>1. ASSUME TypeInv, CauseInv, LinkInv, DeltaInv, [Next]_vars,
             Completes, pass = "delta", ~stop, Targets # {}
      PROVE  \E b \in Targets : /\ since # None => b = since.box
                                /\ New(b) \subseteq dest \cup logged \cup cut \cup dropped
  <2>1. pc = "settle" /\ ~cancelled
    BY <1>1, CompletesAtSettle
  <2>2. /\ cursor.flink # None /\ New(cursor.flink.box) \subseteq Accounted
        /\ since # None => cursor.flink.box = since.box
    BY <1>1, <2>1 DEF DeltaInv, ShouldStop, InBox, InFolder
  <2>3. cursor.flink.box \in Targets
    BY <1>1, <2>2 DEF LinkInv
  <2>4. Accounted = dest \cup logged \cup cut \cup dropped
    BY <1>1, <2>1 DEF CauseInv, Accounted, Kept
  <2>5. QED BY <2>2, <2>3, <2>4
<1>2. Spec => [](TypeInv /\ LedgerInv /\ CauseInv /\ LinkInv /\ DeltaInv)
  <2>1. Init => CauseInv
    BY DEF Init, CauseInv
  <2>2. QED
    BY <2>1, InitTypes, StepTypes, InitLedger, StepLedger, StepCause, InitDelta, StepLinks,
       StepDelta, PTL DEF Spec
<1>3. TypeInv /\ CauseInv /\ LinkInv /\ DeltaInv /\ [Next]_vars => Delivers
  BY <1>1
<1>4. QED BY <1>2, <1>3, PTL DEF Spec, DeltaDeliversOneBox
-------------------------------------------------------------------------------
(* Moving once: what is at the destination is behind a link, or forgotten.    *)

\* D1 tells of all that is at the destination while no run is going on, and the memory
\* of a run while one is, but for what is forgotten; inside a folder the link it will
\* store tells of the rest, and the items left to do are no part of that rest.
MovedInv ==
    /\ pc \in {"idle", "settle", "defer"} => dest \subseteq Covered(durable) \cup forgotten
    /\ pc # "idle" => dest \subseteq Covered(cursor) \cup forgotten
                                     \cup (IF pc \in InFolder THEN link ELSE {})
    /\ pc \in InFolder =>
           /\ items \cup chunk \subseteq link /\ items \cap chunk = {}
           /\ dest \cap (items \cup chunk) \subseteq forgotten \cup cursor.links[folder]
           /\ pass = "delta" => (items \cup chunk) \cap cursor.links[folder] = {}

\* Nothing is at the destination at the start.
LEMMA InitMoved == Init => MovedInv
  BY DEF Init, MovedInv, InFolder

\* A step that moves and forgets nothing, and stays inside the folder or outside.
LEMMA MovedStep ==
  ASSUME MovedInv, UNCHANGED <<dest, forgotten, durable, cursor, pass, folder, items, link,
                               chunk>>,
         pc' \in InFolder <=> pc \in InFolder,
         pc' # "idle" => pc # "idle",
         pc' \in {"idle", "settle", "defer"} => pc \in {"idle", "settle", "defer"}
  PROVE  MovedInv'
<1>1. Covered(durable)' = Covered(durable) /\ Covered(cursor)' = Covered(cursor)
  BY DEF Covered
<1>2. QED BY <1>1 DEF MovedInv

\* A run that ends in failure leaves to the next one what D1 does not tell of.
LEMMA CrashMoved ==
  ASSUME Crash, UNCHANGED dest
  PROVE  MovedInv'
<1>1. pc' = "idle" /\ forgotten' = forgotten \cup (dest \ Covered(durable'))
  BY DEF Crash, Forget
<1>2. Covered(durable)' = Covered(durable')
  BY DEF Covered
<1>3. QED BY <1>1, <1>2 DEF MovedInv, InFolder

\* A job issued anew forgets what was moved; no other operator's step does.
LEMMA OperatorMoved == TypeInv /\ MovedInv /\ Operator => MovedInv'
<1> SUFFICES ASSUME MovedInv, Operator PROVE MovedInv'
  OBVIOUS
<1> USE DEF graphVars, rowVars, memory, loopVars, stopVars, historyVars
<1>1. CASE Issue
  <2>1. forgotten' = dest /\ UNCHANGED <<dest, pc, cursor, pass, folder, items, link, chunk>>
    BY <1>1 DEF Issue
  <2>2. Covered(cursor)' = Covered(cursor)
    BY <2>1 DEF Covered
  <2>3. QED BY <2>1, <2>2 DEF MovedInv
<1>2. CASE RequestDelta \/ Retry \/ Cancel
  BY <1>2, MovedStep DEF RequestDelta, Retry, Cancel
<1>3. ASSUME NEW i \in Items, Arrive(i) PROVE MovedInv'
  BY <1>3, MovedStep DEF Arrive
<1>4. QED BY <1>1, <1>2, <1>3 DEF Operator

\* A folder is read with the items that are not behind its old link, or all of them on
\* a full pass: those that are at the destination already are behind that link.
LEMMA NextFolderMoved ==
  ASSUME TypeInv, LedgerInv, OrderInv, MovedInv, NEW f \in folders, NextFolder(f)
  PROVE  MovedInv'
<1> USE DEF rowVars, memory, historyVars
<1>1. /\ UNCHANGED <<source, dest, forgotten, durable, cursor, pass, chunk>>
      /\ pc = "folders" /\ f \in Folders
  BY DEF NextFolder, graphVars, TypeInv, TypeOK
<1>2. Covered(durable)' = Covered(durable) /\ Covered(cursor)' = Covered(cursor)
  BY <1>1 DEF Covered
<1>3. CASE f \in cursor.done /\ pass = "full"
  BY <1>1, <1>3, MovedStep DEF NextFolder, InFolder
<1>4. CASE ~(f \in cursor.done /\ pass = "full")
  <2>1. /\ folder' = f /\ link' = In(f) /\ pc' = "items"
        /\ items' = In(f) \ (IF pass = "delta" THEN cursor.links[f] ELSE {})
    BY <1>4 DEF NextFolder
  <2>2. chunk' = {}
    BY <1>1 DEF LedgerInv
  <2>3. dest \subseteq Covered(cursor) \cup forgotten
    BY <1>1 DEF MovedInv, InFolder
  <2>4. Covered(cursor) \cap In(f) \subseteq cursor.links[f]
    <3>1. ASSUME NEW g \in Folders, NEW i \in cursor.links[g] \cap In(f)
          PROVE  i \in cursor.links[f]
      BY <3>1 DEF OrderInv, In
    <3>2. QED BY <3>1 DEF Covered
  <2>5. dest' \cap (items' \cup chunk') \subseteq forgotten' \cup cursor'.links[folder']
    BY <1>1, <2>1, <2>2, <2>3, <2>4
  <2>6. QED BY <1>1, <1>2, <2>1, <2>2, <2>3, <2>5 DEF MovedInv, InFolder
<1>5. QED BY <1>3, <1>4

\* An item is moved out of the batch in hand, behind the link the folder will store.
LEMMA ItemsMoved ==
  ASSUME TypeInv, MovedInv,
         \/ \E b \in SUBSET items : Export(b)
         \/ \E i \in chunk : Import(i)
  PROVE  MovedInv'
<1> USE DEF rowVars, historyVars
<1>1. /\ UNCHANGED <<durable, cursor, pass, folder, link>>
      /\ pc \in {"items", "import"} /\ pc' = "import"
  BY DEF Export, Import, memory
<1>2. Covered(durable)' = Covered(durable) /\ Covered(cursor)' = Covered(cursor)
  BY <1>1 DEF Covered
<1>3. ASSUME NEW b \in SUBSET items, Export(b) PROVE MovedInv'
  <2>1. /\ UNCHANGED <<dest, forgotten>> /\ items' = items \ b /\ chunk' \subseteq b
    BY <1>3 DEF Export, graphVars
  <2>2. QED BY <1>1, <1>2, <2>1 DEF MovedInv, InFolder
<1>4. ASSUME NEW i \in chunk, Import(i) PROVE MovedInv'
  <2>1. /\ dest' \subseteq dest \cup {i} /\ UNCHANGED items /\ chunk' = chunk \ {i}
        /\ forgotten' = forgotten \ {i}
    BY <1>4 DEF Import
  <2>2. i \in link /\ i \notin items
    BY <1>1 DEF MovedInv, InFolder
  <2>3. dest' \cap (items' \cup chunk') \subseteq dest \cap (items \cup chunk)
    BY <2>1, <2>2
  <2>4. QED BY <1>1, <1>2, <2>1, <2>2, <2>3 DEF MovedInv, InFolder
<1>5. QED BY <1>3, <1>4

\* The link that is stored takes over what the folder moved.
LEMMA LeaveItemsMoved ==
  ASSUME TypeInv, OrderInv, MovedInv, LeaveItems
  PROVE  MovedInv'
<1>1. /\ UNCHANGED <<dest, forgotten, durable>> /\ pc = "items" /\ pc' = "left"
      /\ cursor'.links = [cursor.links EXCEPT ![folder] = link]
  BY DEF LeaveItems, graphVars, rowVars
<1>2. folder \in Folders /\ cursor \in Cursor /\ cursor.links[folder] \subseteq link
  BY <1>1 DEF TypeInv, TypeOK, Positions, OrderInv
<1>3. Covered(cursor) \cup link \subseteq Covered(cursor')
  BY <1>1, <1>2 DEF Covered, Cursor
<1>4. Covered(cursor)' = Covered(cursor')
  BY DEF Covered
<1>5. QED BY <1>1, <1>3, <1>4 DEF MovedInv, InFolder

\* The steps of a run move what no link tells of, and store the link of the rest.
LEMMA RunMoved == TypeInv /\ LedgerInv /\ OrderInv /\ MovedInv /\ Run => MovedInv'
<1> SUFFICES ASSUME TypeInv, LedgerInv, OrderInv, MovedInv, Run PROVE MovedInv'
  OBVIOUS
<1> USE DEF graphVars, rowVars, memory, loopVars, stopVars, historyVars
<1>1. ASSUME NEW p \in Passes, Begin(p) PROVE MovedInv'
  <2>1. /\ UNCHANGED <<dest, forgotten, durable>> /\ cursor' = durable
        /\ pc = "idle" /\ pc' = "start"
    BY <1>1 DEF Begin, LoadCheckpoint
  <2>2. Covered(cursor)' = Covered(durable)
    BY <2>1 DEF Covered
  <2>3. QED BY <2>1, <2>2 DEF MovedInv, InFolder
<1>2. ASSUME NEW p \in Passes, Discard(p) PROVE MovedInv'
  BY <1>2, MovedStep DEF Discard, InFolder
<1>3. ASSUME NEW b \in boxes, NextBox(b) PROVE MovedInv'
  <2>1. pc = "boxes" /\ pc' \in {"boxes", "folders"}
        /\ UNCHANGED <<dest, forgotten, durable, cursor, pass, folder, items, link, chunk>>
    BY <1>3 DEF NextBox
  <2>2. QED BY <2>1, MovedStep DEF InFolder
<1>4. CASE MarkRunning \/ StopAtBox \/ NoMoreBoxes \/ StopAtFolder
  BY <1>4, MovedStep DEF MarkRunning, StopAtBox, NoMoreBoxes, StopAtFolder, InFolder
<1>5. ASSUME NEW f \in folders, NextFolder(f) PROVE MovedInv'
  BY <1>5, NextFolderMoved
<1>6. CASE LeaveFolders
  <2>1. /\ UNCHANGED <<dest, forgotten, durable>> /\ pc = "folders" /\ pc' = "boxes"
        /\ cursor'.links = cursor.links
    BY <1>6 DEF LeaveFolders, TypeInv, TypeOK, Cursor
  <2>2. Covered(durable)' = Covered(durable) /\ Covered(cursor)' = Covered(cursor)
    BY <2>1 DEF Covered
  <2>3. QED BY <2>1, <2>2 DEF MovedInv, InFolder
<1>7. CASE \/ \E b \in SUBSET items : Export(b)
           \/ \E i \in chunk : Import(i)
  BY <1>7, ItemsMoved
<1>8. CASE MaybeFlush
  <2>1. /\ UNCHANGED <<dest, forgotten, cursor, pass, folder, items, link, chunk>>
        /\ \/ pc = "import" /\ pc' = "beat"
           \/ pc = "left" /\ pc' = "folderBeat"
    BY <1>8 DEF MaybeFlush
  <2>2. Covered(cursor)' = Covered(cursor)
    BY <2>1 DEF Covered
  <2>3. QED BY <2>1, <2>2 DEF MovedInv, InFolder
<1>9. CASE LeaveItems
  BY <1>9, LeaveItemsMoved
<1>10. CASE Heartbeat
  <2>1. /\ UNCHANGED <<dest, forgotten, durable, cursor, pass, folder, items, link, chunk>>
        /\ \/ pc = "beat" /\ pc' = "items"
           \/ pc = "folderBeat" /\ pc' = "folders"
    BY <1>10 DEF Heartbeat
  <2>2. QED BY <2>1, MovedStep DEF InFolder
<1>11. CASE FlushItems
  BY <1>11, MovedStep DEF FlushItems, InFolder
<1>12. CASE SaveCheckpoint
  <2>1. /\ UNCHANGED <<dest, forgotten, cursor>> /\ durable' = cursor
        /\ pc \in {"save", "early"} /\ pc' \in {"settle", "defer"}
    BY <1>12 DEF SaveCheckpoint
  <2>2. Covered(durable)' = Covered(cursor) /\ Covered(cursor)' = Covered(cursor)
    BY <2>1 DEF Covered
  <2>3. QED BY <2>1, <2>2 DEF MovedInv, InFolder
<1>13. CASE Settle
  <2>1. /\ UNCHANGED <<dest, forgotten, durable>> /\ pc \in {"settle", "defer"}
        /\ pc' = "idle"
    BY <1>13 DEF Settle, Forget
  <2>2. Covered(durable)' = Covered(durable)
    BY <2>1 DEF Covered
  <2>3. QED BY <2>1, <2>2 DEF MovedInv, InFolder
<1>14. QED
  BY <1>1, <1>2, <1>3, <1>4, <1>5, <1>6, <1>7, <1>8, <1>9, <1>10, <1>11, <1>12, <1>13
     DEF Run

\* Every step keeps track of what was moved.
LEMMA StepMoved == TypeInv /\ LedgerInv /\ OrderInv /\ MovedInv /\ [Next]_vars => MovedInv'
<1> SUFFICES ASSUME TypeInv, LedgerInv, OrderInv, MovedInv, [Next]_vars PROVE MovedInv'
  OBVIOUS
<1>1. CASE Failure
  <2>1. CASE Sigterm
    BY <2>1, MovedStep DEF Sigterm, graphVars, rowVars, memory, loopVars, historyVars
  <2>2. CASE Interrupted \/ GraphFails \/ CallFails
    BY <2>2, CrashMoved DEF Interrupted, GraphFails, CallFails, graphVars
  <2>3. QED BY <1>1, <2>1, <2>2 DEF Failure
<1>2. CASE UNCHANGED vars
  BY <1>2, MovedStep DEF vars, graphVars, rowVars, memory, loopVars, historyVars
<1>3. QED BY <1>1, <1>2, OperatorMoved, RunMoved DEF Next

(***************************************************************************)
(* A run that is stopped, cancelled or ends repeats nothing: a batch takes *)
(* up an item that is at the destination only when the checkpoint of a     *)
(* failed run did not tell of it, when the job was issued anew, or in a    *)
(* full pass over what a delta pass took.                                  *)
(***************************************************************************)
THEOREM NothingMovedTwice == Spec => []MovedOnce
<1>1. TypeInv /\ LedgerInv /\ MovedInv => MovedOnce
  <2> SUFFICES ASSUME TypeInv, LedgerInv, MovedInv, NEW i \in chunk \cap dest
               PROVE  i \in forgotten \/ (pass = "full" /\ i \in cursor.links[folder])
    BY DEF MovedOnce
  <2>1. pc \in InFolder
    BY DEF LedgerInv, InFolder
  <2>2. i \in forgotten \cup cursor.links[folder]
    BY <2>1 DEF MovedInv
  <2>3. pass = "delta" => i \notin cursor.links[folder]
    BY <2>1 DEF MovedInv
  <2>4. pass \in {"full", "delta"}
    BY DEF TypeInv, TypeOK, Passes
  <2>5. QED BY <2>2, <2>3, <2>4
<1>2. Spec => [](TypeInv /\ LedgerInv /\ OrderInv /\ MovedInv)
  BY InitTypes, StepTypes, InitLedger, StepLedger, InitOrder, StepOrder, InitMoved,
     StepMoved, PTL DEF Spec
<1>3. QED BY <1>1, <1>2, PTL
===============================================================================
