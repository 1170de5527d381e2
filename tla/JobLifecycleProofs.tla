-------------------------- MODULE JobLifecycleProofs --------------------------
(***************************************************************************)
(* Theorems of JobLifecycle for any set of jobs, any batch size and any    *)
(* number of dispatches and failures: type correctness, no open job is     *)
(* stranded, dispatch numbers are unique, a cancellation that was seen     *)
(* stands, and JobPromise is implemented.                                  *)
(***************************************************************************)
EXTENDS JobLifecycle, TLAPS

\* The engine holds a message exactly while it handles one.
Handling == IF pc \in {"idle", "down"} THEN cur = NoMsg ELSE cur \in Msg

TypeInv == TypeOK /\ Handling

\* The initial state is well typed.
LEMMA InitTypes == Init => TypeInv
<1> SUFFICES ASSUME Init PROVE TypeInv
  OBVIOUS
<1>1. seq \in [Jobs -> 0..MaxSeq] /\ faults \in 0..MaxFaults
  BY BoundsAreNat DEF Init
<1>2. QED BY <1>1 DEF Init, TypeInv, TypeOK, Handling, Absent, PC

\* The bound on failures keeps their count in its range.
LEMMA FaultTypes ==
  ASSUME TypeInv, Fault \/ UNCHANGED faults
  PROVE  faults' \in 0..MaxFaults
  BY BoundsAreNat DEF TypeInv, TypeOK, Fault

(***************************************************************************)
(* A dispatch of the operator keeps every variable in its type.            *)
(***************************************************************************)
LEMMA RedispatchTypes ==
  ASSUME TypeInv, NEW j \in Jobs, NEW st \in Active, NEW p \in Passes, Redispatch(j, st, p),
         floor' \subseteq Jobs, checked' \subseteq Requests \X Jobs
  PROVE  TypeInv'
<1>1. [job |-> j, seq |-> seq[j] + 1, pass |-> p] \in Msg
  BY BoundsAreNat DEF TypeInv, TypeOK, Redispatch, Msg
<1>2. TypeOK'
  BY <1>1, BoundsAreNat
     DEF TypeInv, TypeOK, Redispatch, queueVars, engineVars
<1>3. Handling'
  BY DEF TypeInv, Handling, Redispatch, engineVars
<1>4. QED BY <1>2, <1>3 DEF TypeInv

\* What operators do keeps the types.
LEMMA OperatorTypes == TypeInv /\ Operator => TypeInv'
<1> SUFFICES ASSUME TypeInv, Operator PROVE TypeInv'
  OBVIOUS
<1> USE DEF TypeInv, TypeOK, Handling, rowVars, requestVars, queueVars, engineVars, historyVars
<1>1. ASSUME NEW j \in Jobs, CreateJob(j) PROVE TypeInv'
  <2>1. "queued" \in Active /\ "full" \in Passes
    BY DEF Active, Passes
  <2>2. floor' \subseteq Jobs /\ checked' \subseteq Requests \X Jobs
    BY <1>1 DEF CreateJob
  <2>3. QED BY <1>1, <2>1, <2>2, RedispatchTypes DEF CreateJob
<1>2. ASSUME NEW j \in Jobs, NEW p \in Passes, DispatchOfDeleted(j, p),
             floor' = floor, checked' \subseteq checked
      PROVE  TypeInv'
  <2>1. [job |-> j, seq |-> 0, pass |-> p] \in Msg
    BY BoundsAreNat DEF Msg
  <2>2. QED BY <1>2, <2>1 DEF DispatchOfDeleted
<1>3. ASSUME NEW j \in Jobs, RequestDelta(j) PROVE TypeInv'
  <2>1. "delta_pending" \in Active /\ "delta" \in Passes
    BY DEF Active, Passes
  <2>2. floor' \subseteq Jobs /\ checked' \subseteq Requests \X Jobs
    BY <1>3 DEF RequestDelta
  <2>3. QED BY <1>2, <1>3, <2>1, <2>2, RedispatchTypes DEF RequestDelta
<1>4. ASSUME NEW r \in Requests, NEW j \in Jobs, RetryWrite(r, j) PROVE TypeInv'
  <2>1. "queued" \in Active /\ "full" \in Passes
    BY DEF Active, Passes
  <2>2. floor' = floor /\ checked' \subseteq checked
    BY <1>4 DEF RetryWrite
  <2>3. floor' \subseteq Jobs /\ checked' \subseteq Requests \X Jobs
    BY <2>2
  <2>4. QED BY <1>2, <1>4, <2>1, <2>2, <2>3, RedispatchTypes DEF RetryWrite
<1>5. ASSUME NEW r \in Requests, NEW j \in Jobs, RetryCheck(r, j) PROVE TypeInv'
  BY <1>5 DEF RetryCheck
<1>6. ASSUME NEW j \in Jobs, Cancel(j) PROVE TypeInv'
  BY <1>6 DEF Cancel, Terminal
<1>7. ASSUME NEW j \in Jobs, DeleteUser(j) PROVE TypeInv'
  BY <1>7 DEF DeleteUser, Absent
<1>8. ASSUME NEW m \in sends, Send(m) PROVE TypeInv'
  BY <1>8 DEF Send
<1>9. ASSUME NEW m \in sends, LoseSend(m) PROVE TypeInv'
  BY <1>9, BoundsAreNat DEF LoseSend, Fault, Msg
<1>10. QED
  BY <1>1, <1>3, <1>4, <1>5, <1>6, <1>7, <1>8, <1>9 DEF Operator

\* Leases and floors running out keep the types.
LEMMA TimeTypes == TypeInv /\ Time => TypeInv'
  BY DEF TypeInv, TypeOK, Handling, Time, LeaseExpires, ServerFloorElapses,
         ClientFloorElapses, rowVars, requestVars, queueVars, engineVars, historyVars

\* The steps of the engine keep the types.
LEMMA EngineTypes == TypeInv /\ Engine => TypeInv'
<1> SUFFICES ASSUME TypeInv, Engine PROVE TypeInv'
  OBVIOUS
<1> USE DEF TypeInv, TypeOK, Handling, GoTo, Return, Escape, PC, Holding, InTry, InExcept,
            rowVars, requestVars, queueVars, engineVars, historyVars
<1>1. CASE Pull
  BY <1>1 DEF Pull
<1>2. ASSUME NEW m \in batch, Claim(m) PROVE TypeInv'
  BY <1>2 DEF Claim
<1>3. CASE Resume
  BY <1>3 DEF Resume
<1>4. CASE ResumeFails
  <2>1. faults' \in 0..MaxFaults
    BY <1>4, FaultTypes DEF ResumeFails
  <2>2. QED BY <1>4, <2>1 DEF ResumeFails, Release
<1>5. CASE ConfigFails
  <2>1. faults' \in 0..MaxFaults
    BY <1>5, FaultTypes DEF ConfigFails
  <2>2. QED BY <1>5, <2>1 DEF ConfigFails
<1>6. CASE MarkRunning
  BY <1>6 DEF MarkRunning, Running, Active
<1>7. CASE ReportProgress
  BY <1>7 DEF ReportProgress, Running, AfterReport, Reporting, Active, Msg
<1>8. CASE SuppressProgress
  BY <1>8 DEF SuppressProgress, Reporting
<1>9. CASE ReportRefused
  BY <1>9 DEF ReportRefused, Reporting
<1>10. CASE Heartbeat
  BY <1>10 DEF Heartbeat
<1>11. CASE LeaveEarly
  BY <1>11 DEF LeaveEarly
<1>12. CASE LeaveLoop
  BY <1>12 DEF LeaveLoop
<1>13. CASE Settle
  BY <1>13 DEF Settle, FinalStatus, Terminal
<1>14. CASE Throttle
  BY <1>14, BoundsAreNat DEF Throttle, Fault
<1>15. CASE GraphFails
  BY <1>15, BoundsAreNat DEF GraphFails, Fault
<1>16. CASE CallFails
  BY <1>16, BoundsAreNat DEF CallFails, Fault
<1>17. CASE BackOff
  <2>1. faults' \in 0..MaxFaults /\ batch' \subseteq batch
    BY <1>17, FaultTypes DEF BackOff
  <2>2. cur.job \in Jobs /\ cur \in Msg
    BY <1>17 DEF BackOff, Msg
  <2>3. /\ status' \in [Jobs -> Active \cup Terminal \cup Absent]
        /\ floor' \subseteq Jobs /\ paced' \subseteq Jobs
    BY <1>17, <2>2 DEF BackOff, Active
  <2>4. leased' \subseteq Msg /\ queue' = queue
    BY <1>17, <2>2 DEF BackOff, Release
  <2>5. QED BY <1>17, <2>1, <2>3, <2>4 DEF BackOff
<1>18. CASE WriteFailure
  BY <1>18 DEF WriteFailure, Terminal
<1>19. CASE FatalWriteFails
  <2>1. faults' \in 0..MaxFaults
    BY <1>19, FaultTypes DEF FatalWriteFails
  <2>2. QED BY <1>19, <2>1 DEF FatalWriteFails
<1>20. CASE FailureUnreported
  BY <1>20, BoundsAreNat DEF FailureUnreported, Fault, Msg
<1>21. CASE Ack
  BY <1>21 DEF Ack, Delete
<1>22. CASE AckFails
  <2>1. faults' \in 0..MaxFaults
    BY <1>22, FaultTypes DEF AckFails
  <2>2. QED BY <1>22, <2>1 DEF AckFails, Delete
<1>23. QED
  BY <1>1, <1>2, <1>3, <1>4, <1>5, <1>6, <1>7, <1>8, <1>9, <1>10, <1>11, <1>12, <1>13,
     <1>14, <1>15, <1>16, <1>17, <1>18, <1>19, <1>20, <1>21, <1>22 DEF Engine

\* Stops, kills and restarts of the process keep the types.
LEMMA ProcessTypes == TypeInv /\ Process => TypeInv'
<1> SUFFICES ASSUME TypeInv, Process PROVE TypeInv'
  OBVIOUS
<1> USE DEF TypeInv, TypeOK, Handling, PC, Volatile, rowVars, requestVars, queueVars, historyVars
<1>1. CASE Sigterm
  BY <1>1, BoundsAreNat DEF Sigterm, Fault
<1>2. CASE Exit
  BY <1>2 DEF Exit
<1>3. CASE Kill
  <2>1. faults' \in 0..MaxFaults
    BY <1>3, FaultTypes DEF Kill
  <2>2. QED BY <1>3, <2>1 DEF Kill
<1>4. CASE Restart
  BY <1>4 DEF Restart, GoTo
<1>5. QED BY <1>1, <1>2, <1>3, <1>4 DEF Process

\* Every step keeps the types.
LEMMA StepTypes == TypeInv /\ [Next]_vars => TypeInv'
<1>1. ASSUME TypeInv, UNCHANGED vars PROVE TypeInv'
  BY <1>1 DEF TypeInv, TypeOK, Handling, vars, rowVars, requestVars, queueVars, engineVars,
              historyVars
<1>2. QED BY <1>1, OperatorTypes, TimeTypes, EngineTypes, ProcessTypes DEF Next

(***************************************************************************)
(* Every variable keeps its type.                                          *)
(***************************************************************************)
THEOREM TypeCorrect == Spec => []TypeOK
<1>1. TypeInv => TypeOK
  BY DEF TypeInv
<1>2. QED BY <1>1, InitTypes, StepTypes, PTL DEF Spec

-------------------------------------------------------------------------------
(* Leases and dispatch numbers: what is in flight is never ahead of the row, *)
(* and the engine's messages stay in the queue until it acks them.           *)

\* The points of a run where the message has not been acked yet.
BeforeAck == {"claimed", "resumed", "starting", "work", "beat", "wrap", "settle",
              "throttled"}

SeqInv == /\ \A m \in InFlight : m.seq <= seq[m.job]
          /\ cur \in Msg => cur.seq <= seq[cur.job]

HoldInv == /\ batch \subseteq queue
           /\ cur \notin batch
           /\ pc \in BeforeAck => cur \in queue

Unique == \A m, n \in InFlight : n.job = m.job /\ n.seq = m.seq /\ m.seq > 0 => n = m

QueueInv == SeqInv /\ HoldInv /\ Unique

\* What a step does to the messages in flight, whatever else it does: at most
\* one new message, numbered past the row or 0, and removals by an ack or a loss.
LEMMA RedispatchQueue ==
  ASSUME TypeInv, QueueInv, NEW j \in Jobs, NEW st \in Active, NEW p \in Passes,
         Redispatch(j, st, p)
  PROVE  QueueInv'
<1> DEFINE new == [job |-> j, seq |-> seq[j] + 1, pass |-> p]
<1> USE DEF TypeInv, TypeOK, queueVars, engineVars, InFlight
<1>1. /\ new.seq = seq[j] + 1 /\ new.job = j
      /\ sends' = sends \cup {new} /\ queue' = queue
      /\ \A k \in Jobs : seq[k] \in Nat /\ seq'[k] \in Nat /\ seq[k] <= seq'[k]
      /\ seq'[j] = seq[j] + 1
      /\ cur' = cur /\ pc' = pc /\ batch' = batch
  BY BoundsAreNat DEF Redispatch
<1>2. \A m \in InFlight : m.job \in Jobs /\ m.seq \in Nat /\ m.seq <= seq[m.job]
  BY BoundsAreNat DEF QueueInv, SeqInv, Msg
<1> HIDE DEF new, TypeInv, TypeOK
<1>3. SeqInv'
  <2>1. ASSUME NEW m \in InFlight PROVE m.seq <= seq'[m.job]
    BY <1>1, <1>2
  <2>2. new.seq <= seq'[new.job]
    BY <1>1
  <2>3. cur \in Msg => cur.seq <= seq'[cur.job]
    <3>1. cur \in Msg => cur.job \in Jobs /\ cur.seq \in Nat /\ cur.seq <= seq[cur.job]
      BY BoundsAreNat DEF QueueInv, SeqInv, Msg
    <3>2. QED BY <1>1, <3>1
  <2>4. QED BY <1>1, <2>1, <2>2, <2>3 DEF SeqInv
<1>4. HoldInv'
  BY <1>1 DEF QueueInv, HoldInv
<1>5. Unique'
  <2>1. ASSUME NEW m \in InFlight PROVE ~(m.job = new.job /\ m.seq = new.seq)
    BY <1>1, <1>2
  <2>2. QED BY <1>1, <2>1 DEF QueueInv, Unique
<1>6. QED BY <1>3, <1>4, <1>5 DEF QueueInv

\* The dispatch of a deleted job keeps the queue in order.
LEMMA StrayQueue ==
  ASSUME TypeInv, QueueInv, NEW j \in Jobs, NEW p \in Passes, DispatchOfDeleted(j, p)
  PROVE  QueueInv'
<1> DEFINE new == [job |-> j, seq |-> 0, pass |-> p]
<1>1. /\ new.seq = 0 /\ new.job = j
      /\ sends' = sends \cup {new}
      /\ queue' = queue /\ seq' = seq /\ cur' = cur /\ pc' = pc /\ batch' = batch
  BY DEF DispatchOfDeleted, queueVars, engineVars
<1>2. seq[j] \in Nat
  BY BoundsAreNat DEF TypeInv, TypeOK
<1>3. \A m \in InFlight : m.seq \in Nat
  BY BoundsAreNat DEF TypeInv, TypeOK, InFlight, Msg
<1> HIDE DEF new
<1>4. QED BY <1>1, <1>2, <1>3 DEF QueueInv, SeqInv, HoldInv, Unique, InFlight

\* A step that adds no message and removes none but the engine's own at an ack.
LEMMA ShrinkQueue ==
  ASSUME QueueInv, InFlight' \subseteq InFlight, seq' = seq,
         cur' = cur \/ cur' = NoMsg \/ cur' \in InFlight, HoldInv'
  PROVE  QueueInv'
<1>1. SeqInv'
  BY NoMsgIsNoMessage DEF QueueInv, SeqInv
<1>2. Unique'
  BY DEF QueueInv, Unique
<1>3. QED BY <1>1, <1>2 DEF QueueInv

\* The queue is empty at the start.
LEMMA InitQueue == Init => QueueInv
  BY NoMsgIsNoMessage DEF Init, QueueInv, SeqInv, HoldInv, Unique, InFlight, BeforeAck

\* Every step keeps the queue and what the engine holds of it in order.
LEMMA StepQueue == TypeInv /\ QueueInv /\ [Next]_vars => QueueInv'
<1> SUFFICES ASSUME TypeInv, QueueInv, [Next]_vars PROVE QueueInv'
  OBVIOUS
<1> USE DEF rowVars, requestVars, queueVars, engineVars, historyVars
<1>1. CASE Operator
  <2> USE DEF QueueInv, HoldInv, InFlight
  <2>1. ASSUME NEW j \in Jobs, CreateJob(j) PROVE QueueInv'
    BY <2>1, RedispatchQueue DEF CreateJob, Active, Passes
  <2>2. ASSUME NEW j \in Jobs, RequestDelta(j) PROVE QueueInv'
    BY <2>2, RedispatchQueue, StrayQueue DEF RequestDelta, Active, Passes
  <2>3. ASSUME NEW r \in Requests, NEW j \in Jobs, RetryWrite(r, j) PROVE QueueInv'
    BY <2>3, RedispatchQueue, StrayQueue DEF RetryWrite, Active, Passes
  <2>4. ASSUME NEW r \in Requests, NEW j \in Jobs, RetryCheck(r, j) PROVE QueueInv'
    BY <2>4, ShrinkQueue DEF RetryCheck
  <2>5. ASSUME NEW j \in Jobs, Cancel(j) \/ DeleteUser(j) PROVE QueueInv'
    BY <2>5, ShrinkQueue DEF Cancel, DeleteUser
  <2>6. ASSUME NEW m \in sends, Send(m) PROVE QueueInv'
    BY <2>6, ShrinkQueue DEF Send
  <2>7. ASSUME NEW m \in sends, LoseSend(m) PROVE QueueInv'
    BY <2>7, ShrinkQueue DEF LoseSend
  <2>8. QED
    BY <1>1, <2>1, <2>2, <2>3, <2>4, <2>5, <2>6, <2>7 DEF Operator
<1>2. CASE Time
  BY <1>2, ShrinkQueue
     DEF Time, LeaseExpires, ServerFloorElapses, ClientFloorElapses, QueueInv, HoldInv, InFlight
<1>3. CASE Engine
  <2> USE DEF GoTo, Return, Escape, BeforeAck, QueueInv, HoldInv, InFlight
  <2>1. CASE Pull
    BY <2>1, ShrinkQueue, NoMsgIsNoMessage DEF Pull, TypeInv, TypeOK, Handling
  <2>2. ASSUME NEW m \in batch, Claim(m) PROVE QueueInv'
    BY <2>2, ShrinkQueue DEF Claim
  <2>3. CASE Resume \/ MarkRunning \/ ReportProgress \/ SuppressProgress \/ ReportRefused
    BY <2>3, ShrinkQueue
       DEF Resume, MarkRunning, ReportProgress, SuppressProgress, ReportRefused, Reporting,
           AfterReport
  <2>4. CASE Heartbeat \/ LeaveEarly \/ LeaveLoop \/ Throttle \/ GraphFails \/ CallFails
    BY <2>4, ShrinkQueue
       DEF Heartbeat, LeaveEarly, LeaveLoop, Throttle, GraphFails, CallFails
  <2>5. CASE Settle \/ WriteFailure \/ FailureUnreported
    BY <2>5, ShrinkQueue, NoMsgIsNoMessage
       DEF Settle, WriteFailure, FailureUnreported, TypeInv, TypeOK
  <2>6. CASE ResumeFails \/ ConfigFails \/ BackOff \/ FatalWriteFails
    BY <2>6, ShrinkQueue, NoMsgIsNoMessage
       DEF ResumeFails, ConfigFails, BackOff, FatalWriteFails, Release, TypeInv, TypeOK
  <2>7. CASE Ack
    BY <2>7, ShrinkQueue, NoMsgIsNoMessage DEF Ack, Delete, TypeInv, TypeOK
  <2>8. CASE AckFails
    BY <2>8, ShrinkQueue, NoMsgIsNoMessage DEF AckFails, Delete, TypeInv, TypeOK
  <2>9. QED
    BY <1>3, <2>1, <2>2, <2>3, <2>4, <2>5, <2>6, <2>7, <2>8 DEF Engine
<1>4. CASE Process
  BY <1>4, ShrinkQueue, NoMsgIsNoMessage
     DEF Process, Sigterm, Exit, Kill, Restart, Volatile, GoTo, QueueInv, HoldInv, InFlight,
         BeforeAck
<1>5. CASE UNCHANGED vars
  BY <1>5, ShrinkQueue DEF vars, QueueInv, HoldInv, InFlight
<1>6. QED BY <1>1, <1>2, <1>3, <1>4, <1>5 DEF Next

(***************************************************************************)
(* A dispatch number identifies one dispatch of a row, and no dispatch on  *)
(* its way is ahead of the row.                                            *)
(***************************************************************************)
THEOREM NumbersUnique == Spec => []DispatchNumbersUnique
<1>1. QueueInv => DispatchNumbersUnique
  BY DEF QueueInv, SeqInv, Unique, DispatchNumbersUnique
<1>2. QED BY <1>1, InitTypes, InitQueue, StepTypes, StepQueue, PTL DEF Spec

-------------------------------------------------------------------------------
(* No job is stranded.                                                       *)

\* The ack of a message forgets no job: its job is settled, excused or carried
\* by another message.
AckInv ==
    pc \in {"ack", "ackout", "discard"} =>
        \/ ~Open(cur.job)
        \/ cur.job \in orphaned
        \/ \E n \in InFlight \ {cur} : n.job = cur.job

StrandInv == NoJobStranded /\ AckInv

\* A dispatch carries the job it opens.
LEMMA RedispatchStrands ==
  ASSUME TypeInv, QueueInv, StrandInv, NEW j \in Jobs, NEW st \in Active, NEW p \in Passes,
         Redispatch(j, st, p)
  PROVE  StrandInv'
<1> DEFINE new == [job |-> j, seq |-> seq[j] + 1, pass |-> p]
<1>1. /\ new.job = j /\ new.seq = seq[j] + 1
      /\ InFlight' = InFlight \cup {new}
      /\ cur' = cur /\ pc' = pc
      /\ orphaned' = orphaned \ {j}
      /\ \A k \in Jobs : k # j => status'[k] = status[k]
  BY DEF Redispatch, InFlight, queueVars, engineVars, TypeInv, TypeOK
<1>2. seq[j] \in Nat
  BY BoundsAreNat DEF TypeInv, TypeOK
<1>3. pc \in {"ack", "ackout", "discard"} => cur \in Msg /\ cur.job \in Jobs
  BY DEF TypeInv, Handling, Msg
<1>4. ASSUME cur \in Msg, cur.job = j PROVE cur # new
  BY <1>1, <1>2, <1>4 DEF QueueInv, SeqInv
<1> HIDE DEF new
<1>5. NoJobStranded'
  BY <1>1 DEF StrandInv, NoJobStranded, Carried, Open
<1>6. AckInv'
  BY <1>1, <1>3, <1>4 DEF StrandInv, AckInv, Open
<1>7. QED BY <1>5, <1>6 DEF StrandInv

\* A step that loses no message opens nothing that is not carried.
LEMMA KeepStrands ==
  ASSUME StrandInv, InFlight \subseteq InFlight', orphaned \subseteq orphaned',
         \A k \in Jobs : Open(k)' => Open(k) \/ Carried(k)
  PROVE  NoJobStranded'
  BY DEF StrandInv, NoJobStranded, Carried

\* The engine's message is removed only where AckInv lets it go.
LEMMA DropStrands ==
  ASSUME StrandInv, pc \in {"ack", "ackout", "discard"}, InFlight \ {cur} \subseteq InFlight',
         orphaned' = orphaned, status' = status
  PROVE  NoJobStranded'
  BY DEF StrandInv, NoJobStranded, AckInv, Carried, Open

\* No job is open at the start.
LEMMA InitStrands == Init => StrandInv
  BY DEF Init, StrandInv, NoJobStranded, AckInv, Open, Active, Absent

\* Every step leaves each open job carried or excused.
LEMMA StepStrands == TypeInv /\ QueueInv /\ StrandInv /\ [Next]_vars => StrandInv'
<1> SUFFICES ASSUME TypeInv, QueueInv, StrandInv, [Next]_vars PROVE StrandInv'
  OBVIOUS
<1> USE DEF rowVars, requestVars, queueVars, engineVars, historyVars
<1>h. \A k \in Jobs : pc \in BeforeAck /\ cur.job = k => Carried(k)
  BY DEF QueueInv, HoldInv, Carried, InFlight
<1>j. pc \notin {"idle", "down"} => cur.job \in Jobs
  BY DEF TypeInv, Handling, Msg
<1>1. CASE Operator
  <2>1. ASSUME NEW j \in Jobs, CreateJob(j) PROVE StrandInv'
    BY <2>1, RedispatchStrands DEF CreateJob, Active, Passes
  <2>2. ASSUME NEW j \in Jobs, NEW p \in Passes, DispatchOfDeleted(j, p) PROVE StrandInv'
    <3>1. InFlight \subseteq InFlight' /\ status' = status /\ orphaned' = orphaned
      BY <2>2 DEF DispatchOfDeleted, InFlight
    <3>2. AckInv'
      BY <2>2, <3>1 DEF DispatchOfDeleted, StrandInv, AckInv, Open
    <3>3. QED BY <3>1, <3>2, KeepStrands DEF Open, StrandInv
  <2>3. ASSUME NEW j \in Jobs, RequestDelta(j) PROVE StrandInv'
    BY <2>2, <2>3, RedispatchStrands DEF RequestDelta, Active, Passes
  <2>4. ASSUME NEW r \in Requests, NEW j \in Jobs, RetryWrite(r, j) PROVE StrandInv'
    BY <2>2, <2>4, RedispatchStrands DEF RetryWrite, Active, Passes
  <2>5. ASSUME NEW r \in Requests, NEW j \in Jobs, RetryCheck(r, j) PROVE StrandInv'
    BY <2>5 DEF RetryCheck, StrandInv, NoJobStranded, AckInv, Open, Carried, InFlight
  <2>6. ASSUME NEW j \in Jobs, Cancel(j) \/ DeleteUser(j) PROVE StrandInv'
    BY <2>6, <1>j
       DEF Cancel, DeleteUser, StrandInv, NoJobStranded, AckInv, Open, Carried, InFlight,
           Active, TypeInv, TypeOK
  <2>7. ASSUME NEW m \in sends, Send(m) PROVE StrandInv'
    BY <2>7 DEF Send, StrandInv, NoJobStranded, AckInv, Open, Carried, InFlight
  <2>8. ASSUME NEW m \in sends, LoseSend(m) PROVE StrandInv'
    <3>1. /\ InFlight \ {m} \subseteq InFlight' /\ orphaned' = orphaned \cup {m.job}
          /\ status' = status /\ pc' = pc /\ cur' = cur
      BY <2>8 DEF LoseSend, InFlight
    <3>2. QED BY <3>1 DEF StrandInv, NoJobStranded, AckInv, Open, Carried
  <2>9. QED
    BY <1>1, <2>1, <2>3, <2>4, <2>5, <2>6, <2>7, <2>8 DEF Operator
<1>2. CASE Time
  BY <1>2 DEF Time, LeaseExpires, ServerFloorElapses, ClientFloorElapses,
              StrandInv, NoJobStranded, AckInv, Open, Carried, InFlight
<1>3. CASE Engine
  <2> USE DEF GoTo, Return, Escape, Open, InFlight
  <2>1. CASE Pull
    BY <2>1, KeepStrands DEF Pull, StrandInv, AckInv
  <2>2. ASSUME NEW m \in batch, Claim(m) PROVE StrandInv'
    BY <2>2, KeepStrands DEF Claim, StrandInv, AckInv
  <2>3. CASE Resume
    BY <2>3, KeepStrands DEF Resume, Stale, StrandInv, AckInv, Active, Terminal
  <2>4. CASE ResumeFails \/ ConfigFails \/ FatalWriteFails
    BY <2>4, KeepStrands
       DEF ResumeFails, ConfigFails, FatalWriteFails, Release, StrandInv, AckInv
  <2>5. CASE MarkRunning \/ ReportProgress
    <3>1. /\ \A k \in Jobs : Open(k)' => Open(k) \/ Carried(k)
          /\ InFlight' = InFlight /\ orphaned' = orphaned
          /\ pc' \notin {"ack", "ackout", "discard"}
      BY <2>5, <1>h
         DEF MarkRunning, ReportProgress, Reporting, AfterReport, BeforeAck, TypeInv, TypeOK
    <3>2. QED BY <3>1, KeepStrands DEF StrandInv, AckInv
  <2>6. CASE SuppressProgress \/ ReportRefused \/ Heartbeat \/ LeaveEarly \/ LeaveLoop
    BY <2>6, KeepStrands
       DEF SuppressProgress, ReportRefused, Heartbeat, LeaveEarly, LeaveLoop, StrandInv, AckInv
  <2>7. CASE Throttle \/ GraphFails \/ CallFails
    BY <2>7, KeepStrands DEF Throttle, GraphFails, CallFails, StrandInv, AckInv
  <2>8. CASE Settle
    BY <2>8, <1>j, KeepStrands
       DEF Settle, FinalStatus, StrandInv, AckInv, Active, TypeInv, TypeOK
  <2>9. CASE BackOff
    <3>1. /\ \A k \in Jobs : Open(k)' => Open(k) \/ Carried(k)
          /\ InFlight' = InFlight /\ orphaned' = orphaned
          /\ pc' \notin {"ack", "ackout", "discard"}
      BY <2>9, <1>h DEF BackOff, Release, BeforeAck, TypeInv, TypeOK
    <3>2. QED BY <3>1, KeepStrands DEF StrandInv, AckInv
  <2>10. CASE WriteFailure
    BY <2>10, <1>j, KeepStrands DEF WriteFailure, StrandInv, AckInv, Active, TypeInv, TypeOK
  <2>11. CASE FailureUnreported
    BY <2>11, KeepStrands DEF FailureUnreported, StrandInv, AckInv
  <2>12. CASE Ack
    BY <2>12, DropStrands DEF Ack, Delete, StrandInv, AckInv
  <2>13. CASE AckFails
    BY <2>13, DropStrands DEF AckFails, Delete, StrandInv, AckInv
  <2>14. QED
    BY <1>3, <2>1, <2>2, <2>3, <2>4, <2>5, <2>6, <2>7, <2>8, <2>9, <2>10, <2>11, <2>12,
       <2>13 DEF Engine
<1>4. CASE Process
  BY <1>4 DEF Process, Sigterm, Exit, Kill, Restart, Volatile, GoTo,
              StrandInv, NoJobStranded, AckInv, Open, Carried, InFlight
<1>5. CASE UNCHANGED vars
  BY <1>5 DEF vars, StrandInv, NoJobStranded, AckInv, Open, Carried, InFlight
<1>6. QED BY <1>1, <1>2, <1>3, <1>4, <1>5 DEF Next

(***************************************************************************)
(* An open job always has a dispatch being sent or in the queue, unless a  *)
(* send or a failure report was lost.                                      *)
(***************************************************************************)
THEOREM NoneStranded == Spec => []NoJobStranded
<1>1. Init => TypeInv /\ QueueInv /\ StrandInv
  BY InitTypes, InitQueue, InitStrands
<1>2. StrandInv => NoJobStranded
  BY DEF StrandInv
<1>3. QED BY <1>1, <1>2, StepTypes, StepQueue, StepStrands, PTL DEF Spec

-------------------------------------------------------------------------------
(* The dispatch path implements JobPromise.                                  *)

\* The refinement mapping's image of the open jobs.
OpenJobs == {j \in Jobs : Open(j)}

\* A dispatch of a job is one of the promise.
LEMMA RedispatchImplements ==
  ASSUME TypeInv, NEW j \in Jobs, NEW st \in Active, NEW p \in Passes, Redispatch(j, st, p)
  PROVE  Promise!Next
<1> DEFINE new == [job |-> j, seq |-> seq[j] + 1, pass |-> p]
<1>1. new \in Msg
  BY BoundsAreNat DEF TypeInv, TypeOK, Redispatch, Msg
<1>2. /\ new.job = j
      /\ InFlight' = InFlight \cup {new}
      /\ orphaned' = orphaned \ {j}
      /\ OpenJobs' = OpenJobs \cup {j}
  BY DEF Redispatch, InFlight, queueVars, OpenJobs, Open, TypeInv, TypeOK
<1> HIDE DEF new
<1>3. Promise!Dispatch(new)
  BY <1>2 DEF Promise!Dispatch, OpenJobs
<1>4. QED BY <1>1, <1>3 DEF Promise!Next

\* The dispatch of a deleted job is a stray of the promise.
LEMMA StrayImplements ==
  ASSUME TypeInv, NEW j \in Jobs, NEW p \in Passes, DispatchOfDeleted(j, p)
  PROVE  Promise!Next
<1> DEFINE new == [job |-> j, seq |-> 0, pass |-> p]
<1>1. new \in Msg
  BY BoundsAreNat DEF Msg
<1>2. InFlight' = InFlight \cup {new} /\ orphaned' = orphaned /\ OpenJobs' = OpenJobs
  BY DEF DispatchOfDeleted, InFlight, queueVars, historyVars, OpenJobs, Open
<1> HIDE DEF new
<1>3. QED BY <1>1, <1>2 DEF Promise!Next, Promise!Stray, OpenJobs

\* Steps that change the status of one job at most, and nothing in flight.
LEMMA StatusImplements ==
  ASSUME NEW j \in Jobs, InFlight' = InFlight, orphaned' = orphaned,
         \/ OpenJobs' = OpenJobs
         \/ OpenJobs' = OpenJobs \ {j}
         \/ OpenJobs' = OpenJobs \cup {j} /\ Carried(j)
  PROVE  [Promise!Next]_(Promise!vars)
  BY DEF Promise!Next, Promise!vars, Promise!Settle, Promise!Reopen, Promise!Carried,
         Carried, OpenJobs

\* The message of an ack leaves the queue, or stays.
LEMMA AckImplements ==
  ASSUME TypeInv, StrandInv, pc \in {"ack", "ackout", "discard"},
         Delete(cur) \/ UNCHANGED queue, sends' = sends, status' = status,
         orphaned' = orphaned
  PROVE  [Promise!Next]_(Promise!vars)
<1>1. OpenJobs' = OpenJobs
  BY DEF OpenJobs, Open
<1>2. InFlight' = InFlight \/ InFlight' = InFlight \ {cur}
  BY DEF Delete, InFlight
<1>3. cur \in Msg /\ cur.job \in Jobs
  BY DEF TypeInv, Handling, Msg
<1>4. CASE InFlight' = InFlight \ {cur}
  <2>1. Promise!Discharge(cur)
    BY <1>1, <1>3, <1>4 DEF Promise!Discharge, StrandInv, AckInv, OpenJobs
  <2>2. QED BY <1>3, <2>1 DEF Promise!Next
<1>5. CASE InFlight' = InFlight
  BY <1>1, <1>5 DEF Promise!vars, OpenJobs
<1>6. QED BY <1>2, <1>4, <1>5

\* Every step is a step of the promise or leaves it alone.
LEMMA StepImplements ==
  TypeInv /\ QueueInv /\ StrandInv /\ [Next]_vars => [Promise!Next]_(Promise!vars)
<1> SUFFICES ASSUME TypeInv, QueueInv, StrandInv, [Next]_vars
             PROVE  [Promise!Next]_(Promise!vars)
  OBVIOUS
<1> USE DEF rowVars, requestVars, queueVars, engineVars, historyVars
<1>h. \A k \in Jobs : pc \in BeforeAck /\ cur.job = k => Carried(k)
  BY DEF QueueInv, HoldInv, Carried, InFlight
<1>j. pc \notin {"idle", "down"} => cur.job \in Jobs
  BY DEF TypeInv, Handling, Msg
<1>s. ASSUME InFlight' = InFlight, status' = status, orphaned' = orphaned
      PROVE  [Promise!Next]_(Promise!vars)
  BY <1>s DEF Promise!vars, Open
<1>1. CASE Operator
  <2>1. ASSUME NEW j \in Jobs, CreateJob(j) PROVE Promise!Next
    BY <2>1, RedispatchImplements DEF CreateJob, Active, Passes
  <2>2. ASSUME NEW j \in Jobs, RequestDelta(j) PROVE Promise!Next
    BY <2>2, RedispatchImplements, StrayImplements DEF RequestDelta, Active, Passes
  <2>3. ASSUME NEW r \in Requests, NEW j \in Jobs, RetryWrite(r, j) PROVE Promise!Next
    BY <2>3, RedispatchImplements, StrayImplements DEF RetryWrite, Active, Passes
  <2>4. ASSUME NEW r \in Requests, NEW j \in Jobs, RetryCheck(r, j)
        PROVE  [Promise!Next]_(Promise!vars)
    BY <2>4, <1>s DEF RetryCheck, InFlight
  <2>5. ASSUME NEW j \in Jobs, Cancel(j) \/ DeleteUser(j)
        PROVE  [Promise!Next]_(Promise!vars)
    <3>1. OpenJobs' = OpenJobs \ {j} /\ InFlight' = InFlight /\ orphaned' = orphaned
      BY <2>5 DEF Cancel, DeleteUser, OpenJobs, Open, InFlight, Active, TypeInv, TypeOK
    <3>2. QED BY <3>1, StatusImplements
  <2>6. ASSUME NEW m \in sends, Send(m) PROVE [Promise!Next]_(Promise!vars)
    BY <2>6, <1>s DEF Send, InFlight
  <2>7. ASSUME NEW m \in sends, LoseSend(m) PROVE [Promise!Next]_(Promise!vars)
    <3>1. m \in Msg /\ m.job \in Jobs
      BY DEF TypeInv, TypeOK, Msg
    <3>2. /\ OpenJobs' = OpenJobs /\ orphaned' = orphaned \cup {m.job}
          /\ InFlight' = InFlight \/ InFlight' = InFlight \ {m}
      BY <2>7 DEF LoseSend, OpenJobs, Open, InFlight
    <3>3. Promise!Excuse(m.job) \/ Promise!Lose(m)
      BY <3>2 DEF Promise!Excuse, Promise!Lose, OpenJobs
    <3>4. QED BY <3>1, <3>3 DEF Promise!Next
  <2>8. QED
    BY <1>1, <2>1, <2>2, <2>3, <2>4, <2>5, <2>6, <2>7 DEF Operator
<1>2. CASE Time
  BY <1>2, <1>s
     DEF Time, LeaseExpires, ServerFloorElapses, ClientFloorElapses, InFlight
<1>3. CASE Engine
  <2> USE DEF GoTo, Return, Escape, InFlight
  <2>1. CASE Pull \/ (\E m \in batch : Claim(m)) \/ Resume \/ ResumeFails \/ ConfigFails
    BY <2>1, <1>s DEF Pull, Claim, Resume, ResumeFails, ConfigFails, Release
  <2>2. CASE MarkRunning \/ ReportProgress
    <3>1. cur.job \in Jobs /\ Carried(cur.job)
      BY <2>2, <1>h, <1>j DEF MarkRunning, ReportProgress, Reporting, BeforeAck
    <3>2. OpenJobs' = OpenJobs \cup {cur.job}
      BY <2>2, <3>1
         DEF MarkRunning, ReportProgress, OpenJobs, Open, Active, Running, TypeInv, TypeOK
    <3>3. InFlight' = InFlight /\ orphaned' = orphaned
      BY <2>2 DEF MarkRunning, ReportProgress
    <3>4. QED BY <3>1, <3>2, <3>3, StatusImplements
  <2>3. CASE \/ SuppressProgress \/ ReportRefused \/ Heartbeat \/ LeaveEarly \/ LeaveLoop
             \/ Throttle \/ GraphFails \/ CallFails \/ FatalWriteFails
    BY <2>3, <1>s
       DEF SuppressProgress, ReportRefused, Heartbeat, LeaveEarly, LeaveLoop, Throttle,
           GraphFails, CallFails, FatalWriteFails
  <2>4. CASE Settle \/ WriteFailure
    <3>1. cur.job \in Jobs
      BY <2>4, <1>j DEF Settle, WriteFailure
    <3>2. OpenJobs' = OpenJobs \/ OpenJobs' = OpenJobs \ {cur.job}
      BY <2>4, <3>1
         DEF Settle, WriteFailure, FinalStatus, OpenJobs, Open, Active, TypeInv, TypeOK
    <3>3. InFlight' = InFlight /\ orphaned' = orphaned
      BY <2>4 DEF Settle, WriteFailure
    <3>4. QED BY <3>1, <3>2, <3>3, StatusImplements
  <2>5. CASE BackOff
    <3>1. cur.job \in Jobs /\ Carried(cur.job)
      BY <2>5, <1>h, <1>j DEF BackOff, BeforeAck
    <3>2. OpenJobs' = OpenJobs \/ OpenJobs' = OpenJobs \cup {cur.job}
      BY <2>5, <3>1 DEF BackOff, OpenJobs, Open, Active, TypeInv, TypeOK
    <3>3. InFlight' = InFlight /\ orphaned' = orphaned
      BY <2>5 DEF BackOff, Release
    <3>4. QED BY <3>1, <3>2, <3>3, StatusImplements
  <2>6. CASE FailureUnreported
    <3>1. cur.job \in Jobs
      BY <2>6, <1>j DEF FailureUnreported
    <3>2. Promise!Excuse(cur.job)
      BY <2>6 DEF FailureUnreported, Promise!Excuse, Open
    <3>3. QED BY <3>1, <3>2 DEF Promise!Next
  <2>7. CASE Ack \/ AckFails
    BY <2>7, AckImplements DEF Ack, AckFails
  <2>8. QED
    BY <1>3, <2>1, <2>2, <2>3, <2>4, <2>5, <2>6, <2>7 DEF Engine
<1>4. CASE Process
  BY <1>4, <1>s DEF Process, Sigterm, Exit, Kill, Restart, Volatile, GoTo, InFlight
<1>5. CASE UNCHANGED vars
  BY <1>5, <1>s DEF vars, InFlight
<1>6. QED BY <1>1, <1>2, <1>3, <1>4, <1>5 DEF Next

(***************************************************************************)
(* The dispatch path of the code keeps the promise of JobPromise: every    *)
(* step of rows, queue and engine is one of its steps or changes nothing   *)
(* it can see.                                                             *)
(***************************************************************************)
THEOREM Implements == Spec => PromiseSpec
<1>1. Init => TypeInv /\ QueueInv /\ StrandInv
  BY InitTypes, InitQueue, InitStrands
<1>2. Init => Promise!Init
  BY DEF Init, Promise!Init, Open, Active, InFlight
<1>3. QED
  BY <1>1, <1>2, StepTypes, StepQueue, StepStrands, StepImplements, PTL
     DEF Spec, PromiseSpec, Promise!Spec

-------------------------------------------------------------------------------
(* Settled jobs.                                                             *)

\* The handler goes beyond its check for a stale dispatch only with an open job.
SawInv == pc \in InTry \cup InExcept => sawOpen

\* Every step keeps what a handler saw.
LEMMA StepSaw == TypeInv /\ SawInv /\ [Next]_vars => SawInv'
<1> SUFFICES ASSUME TypeInv, SawInv, [Next]_vars PROVE SawInv'
  OBVIOUS
<1> USE DEF rowVars, requestVars, queueVars, engineVars, historyVars, SawInv, InTry, InExcept
<1>1. CASE Operator
  <2>1. UNCHANGED <<pc, sawOpen>>
    <3>1. ASSUME NEW j \in Jobs, CreateJob(j) \/ RequestDelta(j) \/ Cancel(j) \/ DeleteUser(j)
          PROVE  UNCHANGED <<pc, sawOpen>>
      <4>1. CASE CreateJob(j)
        BY <4>1 DEF CreateJob, Redispatch
      <4>2. CASE RequestDelta(j)
        BY <4>2 DEF RequestDelta, Redispatch, DispatchOfDeleted
      <4>3. CASE Cancel(j)
        BY <4>3 DEF Cancel
      <4>4. CASE DeleteUser(j)
        BY <4>4 DEF DeleteUser
      <4>5. QED BY <3>1, <4>1, <4>2, <4>3, <4>4
    <3>2. ASSUME NEW r \in Requests, NEW j \in Jobs, RetryCheck(r, j) \/ RetryWrite(r, j)
          PROVE  UNCHANGED <<pc, sawOpen>>
      BY <3>2 DEF RetryCheck, RetryWrite, Redispatch, DispatchOfDeleted
    <3>3. ASSUME NEW m \in sends, Send(m) \/ LoseSend(m) PROVE UNCHANGED <<pc, sawOpen>>
      BY <3>3 DEF Send, LoseSend
    <3>4. QED BY <1>1, <3>1, <3>2, <3>3 DEF Operator
  <2>2. QED BY <2>1
<1>2. CASE Time
  BY <1>2 DEF Time, LeaseExpires, ServerFloorElapses, ClientFloorElapses
<1>3. CASE Engine
  <2> USE DEF GoTo, Return, Escape
  <2>1. CASE Pull \/ (\E m \in batch : Claim(m)) \/ ResumeFails \/ ConfigFails
    BY <2>1 DEF Pull, Claim, ResumeFails, ConfigFails
  <2>2. CASE Resume
    BY <2>2 DEF Resume, Stale
  <2>3. CASE MarkRunning \/ ReportProgress \/ SuppressProgress \/ ReportRefused
    BY <2>3 DEF MarkRunning, ReportProgress, SuppressProgress, ReportRefused, Reporting
  <2>4. CASE Heartbeat \/ LeaveEarly \/ LeaveLoop \/ Settle
    BY <2>4 DEF Heartbeat, LeaveEarly, LeaveLoop, Settle
  <2>5. CASE Throttle \/ GraphFails \/ CallFails \/ BackOff
    BY <2>5 DEF Throttle, GraphFails, CallFails, BackOff
  <2>6. CASE WriteFailure \/ FatalWriteFails \/ FailureUnreported \/ Ack \/ AckFails
    BY <2>6 DEF WriteFailure, FatalWriteFails, FailureUnreported, Ack, AckFails
  <2>7. QED BY <1>3, <2>1, <2>2, <2>3, <2>4, <2>5, <2>6 DEF Engine
<1>4. CASE Process
  BY <1>4 DEF Process, Sigterm, Exit, Kill, Restart, Volatile, GoTo
<1>5. CASE UNCHANGED vars
  BY <1>5 DEF vars
<1>6. QED BY <1>1, <1>2, <1>3, <1>4, <1>5 DEF Next

\* The steps that can turn a settled job into an open one.
LEMMA StepReopens ==
  TypeInv /\ SawInv /\ [Next]_vars =>
      \A j \in Jobs : status[j] \in Terminal /\ status'[j] \in Active =>
          \/ seq'[j] > seq[j]
          \/ pc \in InTry \cup InExcept /\ cur.job = j /\ sawOpen
<1> SUFFICES ASSUME TypeInv, SawInv, [Next]_vars, NEW j \in Jobs,
                    status[j] \in Terminal, status'[j] \in Active
             PROVE  \/ seq'[j] > seq[j]
                    \/ pc \in InTry \cup InExcept /\ cur.job = j /\ sawOpen
  OBVIOUS
<1> USE DEF rowVars, requestVars, queueVars, engineVars, historyVars, Terminal, Active
<1>1. status' # status
  OBVIOUS
<1>2. ASSUME NEW k \in Jobs, NEW st, NEW p, Redispatch(k, st, p) PROVE seq'[j] > seq[j]
  BY <1>2, BoundsAreNat DEF Redispatch, TypeInv, TypeOK
<1>3. CASE Operator
  <2>1. ASSUME NEW k \in Jobs, Cancel(k) \/ DeleteUser(k) PROVE FALSE
    BY <2>1 DEF Cancel, DeleteUser, TypeInv, TypeOK
  <2>2. ASSUME NEW k \in Jobs, CreateJob(k) \/ RequestDelta(k) PROVE seq'[j] > seq[j]
    BY <2>2, <1>1, <1>2 DEF CreateJob, RequestDelta, DispatchOfDeleted
  <2>3. ASSUME NEW k \in Jobs, NEW r \in Requests, RetryWrite(r, k) \/ RetryCheck(r, k)
        PROVE  seq'[j] > seq[j]
    BY <2>3, <1>1, <1>2 DEF RetryWrite, RetryCheck, DispatchOfDeleted
  <2>4. QED BY <1>1, <1>3, <2>1, <2>2, <2>3 DEF Operator, Send, LoseSend
<1>4. CASE Time
  BY <1>1, <1>4 DEF Time, LeaseExpires, ServerFloorElapses, ClientFloorElapses
<1>5. CASE Engine
  <2>1. CASE MarkRunning \/ ReportProgress \/ BackOff
    BY <2>1, <1>1
       DEF MarkRunning, ReportProgress, BackOff, Reporting, SawInv, InTry, InExcept, TypeInv,
           TypeOK
  <2>2. CASE Settle \/ WriteFailure
    BY <2>2, <1>1 DEF Settle, WriteFailure, FinalStatus, TypeInv, TypeOK
  <2>3. CASE ~(MarkRunning \/ ReportProgress \/ BackOff \/ Settle \/ WriteFailure)
    BY <2>3, <1>1, <1>5
       DEF Engine, Pull, Claim, Resume, ResumeFails, ConfigFails, SuppressProgress,
           ReportRefused, Heartbeat, LeaveEarly, LeaveLoop, Throttle, GraphFails, CallFails,
           FatalWriteFails, FailureUnreported, Ack, AckFails
  <2>4. QED BY <2>1, <2>2, <2>3
<1>6. CASE Process
  BY <1>1, <1>6 DEF Process, Sigterm, Exit, Kill, Restart
<1>7. QED BY <1>1, <1>3, <1>4, <1>5, <1>6 DEF Next, vars

(***************************************************************************)
(* A settled job is reopened only by a new dispatch of the operator, or by *)
(* a run that began while the job was open.                                *)
(***************************************************************************)
THEOREM ReopenedOnlyWhenAllowed == Spec => ReopenedOnlyByRequestOrRun
<1>1. Init => TypeInv /\ SawInv
  BY InitTypes DEF Init, SawInv, InTry, InExcept
<1>2. TypeInv /\ SawInv /\ [Next]_vars =>
          [\A j \in Jobs :
              status[j] \in Terminal /\ status'[j] \in Active =>
                  \/ seq'[j] > seq[j]
                  \/ pc \in InTry \cup InExcept /\ cur.job = j /\ sawOpen]_vars
  BY StepReopens
<1>3. QED
  BY <1>1, <1>2, StepTypes, StepSaw, PTL DEF Spec, ReopenedOnlyByRequestOrRun

-------------------------------------------------------------------------------
(* Cancellations.  Of all that writes a status, only Settle writes that a job  *)
(* is completed, and what the run saw comes first there.                       *)

LEMMA StepCompletes ==
  TypeInv /\ [Next]_vars =>
      (cancelled /\ pc \in InTry /\ status'[cur.job] = "completed" =>
          status[cur.job] = "completed")
<1> SUFFICES ASSUME TypeInv, [Next]_vars, cancelled, pc \in InTry,
                    status'[cur.job] = "completed", status[cur.job] # "completed"
             PROVE  FALSE
  OBVIOUS
<1> USE DEF rowVars, requestVars, queueVars, engineVars, historyVars
<1>1. status' # status /\ pc \notin {"idle", "down", "claimed", "throttled", "fatal", "fail"}
  BY DEF InTry
<1>2. cur.job \in Jobs /\ status = [j \in Jobs |-> status[j]]
  BY <1>1 DEF TypeInv, TypeOK, Handling, Msg
<1>3. ASSUME NEW k \in Jobs, NEW st, st # "completed", status' = [status EXCEPT ![k] = st]
      PROVE  FALSE
  BY <1>2, <1>3
<1>4. CASE Operator
  <2>1. ASSUME NEW k \in Jobs, NEW st, NEW p, st # "completed", Redispatch(k, st, p) PROVE FALSE
    BY <2>1, <1>3 DEF Redispatch
  <2>2. ASSUME NEW k \in Jobs, Cancel(k) \/ DeleteUser(k) PROVE FALSE
    BY <2>2, <1>3 DEF Cancel, DeleteUser
  <2>3. ASSUME NEW k \in Jobs, CreateJob(k) \/ RequestDelta(k) PROVE FALSE
    BY <2>3, <1>1, <2>1 DEF CreateJob, RequestDelta, DispatchOfDeleted
  <2>4. ASSUME NEW k \in Jobs, NEW r \in Requests, RetryWrite(r, k) \/ RetryCheck(r, k)
        PROVE  FALSE
    BY <2>4, <1>1, <2>1 DEF RetryWrite, RetryCheck, DispatchOfDeleted
  <2>5. QED BY <1>1, <1>4, <2>2, <2>3, <2>4 DEF Operator, Send, LoseSend
<1>5. CASE Time
  BY <1>1, <1>5 DEF Time, LeaseExpires, ServerFloorElapses, ClientFloorElapses
<1>6. CASE Engine
  <2>1. CASE MarkRunning \/ ReportProgress
    BY <2>1, <1>2, <1>3 DEF MarkRunning, ReportProgress, Running
  <2>2. CASE Settle
    BY <2>2, <1>1, <1>2, <1>3 DEF Settle, FinalStatus
  <2>3. CASE BackOff \/ WriteFailure
    BY <2>3, <1>1, <1>2, <1>3 DEF BackOff, WriteFailure
  <2>4. CASE ~(MarkRunning \/ ReportProgress \/ BackOff \/ Settle \/ WriteFailure)
    BY <2>4, <1>1, <1>6
       DEF Engine, Pull, Claim, Resume, ResumeFails, ConfigFails, SuppressProgress,
           ReportRefused, Heartbeat, LeaveEarly, LeaveLoop, Throttle, GraphFails, CallFails,
           FatalWriteFails, FailureUnreported, Ack, AckFails
  <2>5. QED BY <2>1, <2>2, <2>3, <2>4
<1>7. CASE Process
  BY <1>1, <1>7 DEF Process, Sigterm, Exit, Kill, Restart
<1>8. QED BY <1>1, <1>4, <1>5, <1>6, <1>7 DEF Next, vars

(***************************************************************************)
(* A run that has seen its job cancelled never reports it completed.       *)
(***************************************************************************)
THEOREM SeenCancelStands == Spec => SeenCancelNeverCompletes
<1>1. TypeInv /\ [Next]_vars =>
          [cancelled /\ pc \in InTry /\ status'[cur.job] = "completed" =>
              status[cur.job] = "completed"]_vars
  BY StepCompletes
<1>2. QED
  BY <1>1, InitTypes, StepTypes, PTL DEF Spec, SeenCancelNeverCompletes
===============================================================================
