----------------------------- MODULE JobLifecycle -----------------------------
(***************************************************************************)
(* One EntraShift job from the operator's request to its terminal status:  *)
(* the D1 row (worker/src/db/jobs.ts), the operator's routes (worker/src/  *)
(* routes/jobs.ts), the VM routes with their progress floor (routes/vm.ts, *)
(* middleware/budget.ts), the pull queue with its leases, and the engine's *)
(* claim loop (engine/entrashift_engine/worker.py) with its error paths,   *)
(* SIGTERM, kill and restart.  What a migrator does between two calls to   *)
(* the control plane is left to the migrator modules.                      *)
(***************************************************************************)
EXTENDS Naturals, FiniteSets

CONSTANTS Jobs,        \* rows of D1's table jobs
          Requests,    \* retry requests the Worker can have in flight at once
          NoMsg,       \* the engine holds no message
          BatchSize,   \* queue_pull_batch_size
          MaxSeq,      \* bound on dispatch_seq
          MaxFaults    \* bound on failed calls, kills, SIGTERMs, throttled runs

ASSUME BoundsAreNat == BatchSize \in Nat /\ MaxSeq \in Nat /\ MaxFaults \in Nat

Passes == {"full", "delta"}
Msg == [job : Jobs, seq : 0..MaxSeq, pass : Passes]

ASSUME NoMsgIsNoMessage == NoMsg \notin Msg

\* "failed" stands for the four failure statuses, which every route treats alike.
Active == {"queued", "running", "backing_off", "delta_pending", "delta_running"}
Terminal == {"completed", "cancelled", "failed"}
Retryable == {"failed"}
Absent == {"none", "deleted"}

\* The engine's program counter: where in _tick and _handle it is.
InTry == {"resumed", "starting", "work", "beat", "wrap", "settle", "ack"}
InExcept == {"throttled", "fatal", "fail", "ackout"}
Holding == InTry \cup InExcept \cup {"claimed", "discard"}
PC == Holding \cup {"idle", "down"}

VARIABLES
    status,    \* jobs.status, "none" before the INSERT, "deleted" after the cascade
    seq,       \* jobs.dispatch_seq
    floor,     \* jobs whose last_progress_at is younger than the server's floor
    checked,   \* retry requests that passed the RETRYABLE check, not yet written
    sends,     \* dispatches written to D1 and not yet sent to the queue
    queue,     \* messages in the queue, hidden or visible
    leased,    \* the hidden ones: leased by the engine, or delayed by a retry
    pc, cur,   \* the engine's position and the message it handles
    batch,     \* messages of the last pull not handled yet
    done,      \* the migrator returned COMPLETED
    cancelled, \* ctx.cancelled
    stop,      \* the SIGTERM event
    paced,     \* jobs whose last progress write is younger than the client's floor
    faults,    \* failures so far, to bound them
    \* History variables: what happened, for the properties only.
    cause,     \* why the handler is on its generic failure path
    ran,       \* dispatches in flight whose run has begun
    sawOpen,   \* the status the run in progress resumed from was not terminal
    orphaned   \* jobs with a lost send or an unreported failure since their dispatch

rowVars == <<status, seq, floor>>
requestVars == <<checked, sends>>
queueVars == <<queue, leased>>
engineVars == <<pc, cur, batch, done, cancelled, stop, paced>>
historyVars == <<cause, ran, sawOpen, orphaned>>
vars == <<rowVars, requestVars, queueVars, engineVars, faults, historyVars>>

Open(j) == status[j] \in Active
Exists(j) == status[j] \notin Absent

\* Fault seeded for TypeOK: the pass is taken for the status.
RunningIsPass(pass) == IF pass = "delta" THEN pass ELSE "running"

Running(pass) == IF pass = "delta" THEN "delta_running" ELSE "running"
InFlight == queue \cup sends

Fault == /\ faults < MaxFaults
         /\ faults' = faults + 1

-------------------------------------------------------------------------------
(* The operator's routes. Each writes the row, then sends the dispatch. *)

\* INSERT ... ON CONFLICT, prepareRetry and prepareDelta: bump the sequence
\* number, set the status; the dispatch carries the number RETURNING gives.
Redispatch(j, st, pass) ==
    /\ seq[j] < MaxSeq
    /\ status' = [status EXCEPT ![j] = st]
    /\ seq' = [seq EXCEPT ![j] = @ + 1]
    /\ sends' = sends \cup {[job |-> j, seq |-> seq[j] + 1, pass |-> pass]}
    /\ orphaned' = orphaned \ {j}
    /\ UNCHANGED <<queueVars, engineVars, faults, cause, ran, sawOpen>>

\* prepareRetry and prepareDelta on a row deleted since the check: RETURNING gives
\* nothing and a dispatch number 0 is sent all the same.
DispatchOfDeleted(j, pass) ==
    /\ status[j] = "deleted"
    /\ sends' = sends \cup {[job |-> j, seq |-> 0, pass |-> pass]}
    /\ UNCHANGED <<status, seq, queueVars, engineVars, faults, historyVars>>

\* POST /api/jobs: insert the row or reset it whatever its status.
CreateJob(j) ==
    /\ status[j] # "deleted"
    /\ Redispatch(j, "queued", "full")
    /\ floor' = floor \ {j}
    /\ UNCHANGED checked

\* POST /api/jobs/:id/retry, first half: the status check, on a row read earlier
\* than the write.
RetryCheck(r, j) ==
    /\ status[j] \in Retryable
    /\ \A k \in Jobs : <<r, k>> \notin checked
    /\ checked' = checked \cup {<<r, j>>}
    /\ UNCHANGED <<rowVars, sends, queueVars, engineVars, faults, historyVars>>

\* Second half: prepareRetry has no condition on the status.
RetryWrite(r, j) ==
    /\ <<r, j>> \in checked
    /\ checked' = checked \ {<<r, j>>}
    /\ UNCHANGED floor
    /\ \/ Exists(j) /\ Redispatch(j, "queued", "full")
       \/ DispatchOfDeleted(j, "full")

\* POST /api/jobs/:id/delta: no condition on the status, and between its check
\* that the row exists and its write the row may go.
RequestDelta(j) ==
    /\ \/ Exists(j) /\ Redispatch(j, "delta_pending", "delta")
       \/ DispatchOfDeleted(j, "delta")
    /\ UNCHANGED <<floor, checked>>

\* POST /api/jobs/:id/cancel: no condition on the status.
Cancel(j) ==
    /\ Exists(j)
    /\ status' = [status EXCEPT ![j] = "cancelled"]
    /\ UNCHANGED <<seq, floor, requestVars, queueVars, engineVars, faults, historyVars>>

\* DELETE /api/migration-users/:id cascades to the user's jobs.
DeleteUser(j) ==
    /\ Exists(j)
    /\ status' = [status EXCEPT ![j] = "deleted"]
    /\ floor' = floor \ {j}
    /\ UNCHANGED <<seq, requestVars, queueVars, engineVars, faults, historyVars>>

\* enqueueDispatch after the write ...
Send(m) ==
    /\ m \in sends
    /\ sends' = sends \ {m}
    /\ queue' = queue \cup {m}
    /\ UNCHANGED <<rowVars, checked, leased, engineVars, faults, historyVars>>

\* ... or the request dies between the two: nothing undoes the write.
LoseSend(m) ==
    /\ m \in sends
    /\ Fault
    /\ sends' = sends \ {m}
    /\ orphaned' = orphaned \cup {m.job}
    /\ UNCHANGED <<rowVars, checked, queueVars, engineVars, cause, ran, sawOpen>>

-------------------------------------------------------------------------------
(* Time: leases, delays and the two progress floors run out. *)

LeaseExpires(m) ==
    /\ m \in leased
    /\ leased' = leased \ {m}
    /\ UNCHANGED <<rowVars, requestVars, queue, engineVars, faults, historyVars>>

ServerFloorElapses(j) ==
    /\ j \in floor
    /\ floor' = floor \ {j}
    /\ UNCHANGED <<status, seq, requestVars, queueVars, engineVars, faults, historyVars>>

\* The client measures from before its request, the server from its own write:
\* neither floor bounds the other.
ClientFloorElapses(j) ==
    /\ j \in paced
    /\ paced' = paced \ {j}
    /\ UNCHANGED <<rowVars, requestVars, queueVars, pc, cur, batch, done, cancelled,
                   stop, faults, historyVars>>

-------------------------------------------------------------------------------
(* The engine: _tick pulls a batch and handles one message after the other. *)

\* Fault seeded for NoJobStranded: the message is acked instead.
ReleaseByAck ==
    /\ queue' = queue \ {cur}
    /\ leased' = leased \ {cur}

\* queue.retry: the message is given back and stays hidden for _REQUEUE_DELAY_SEC.
Release ==
    /\ leased' = leased \cup ({cur} \cap queue)
    /\ UNCHANGED queue

GoTo(next) ==
    /\ pc' = next
    /\ UNCHANGED <<cur, batch, done, cancelled, stop, paced>>

\* _handle returns: the loop goes on with the rest of the batch.
Return ==
    /\ pc' = "idle"
    /\ cur' = NoMsg
    /\ done' = FALSE
    /\ cancelled' = FALSE
    /\ UNCHANGED <<batch, stop, paced>>

\* An exception leaves _handle: run() drops the batch and its leases run out.
Escape ==
    /\ pc' = "idle"
    /\ cur' = NoMsg
    /\ batch' = {}
    /\ done' = FALSE
    /\ cancelled' = FALSE
    /\ UNCHANGED <<stop, paced>>

Pull ==
    /\ pc = "idle"
    /\ ~stop
    /\ batch = {}
    /\ \E b \in SUBSET (queue \ leased) :
          /\ b # {}
          /\ Cardinality(b) <= BatchSize
          /\ batch' = b
          /\ leased' = leased \cup b
    /\ UNCHANGED <<rowVars, requestVars, queue, pc, cur, done, cancelled, stop, paced,
                   faults, historyVars>>

Claim(m) ==
    /\ pc = "idle"
    /\ ~stop
    /\ m \in batch
    /\ batch' = batch \ {m}
    /\ cur' = m
    /\ pc' = "claimed"
    /\ UNCHANGED <<rowVars, requestVars, queueVars, done, cancelled, stop, paced,
                   faults, historyVars>>

\* get_config, or the queue.retry of a job that cannot be read, fails outside the
\* handler's try: the exception escapes.
ConfigFails ==
    /\ pc = "claimed"
    /\ Fault
    /\ Escape
    /\ UNCHANGED <<rowVars, requestVars, queueVars, historyVars>>

\* Fault seeded for ReopenedOnlyByRequestOrRun: only a cancellation is stale.
StaleIfCancelled == status[cur.job] = "cancelled"

Stale == status[cur.job] \in Terminal

\* resume_job reads the row once; a terminal status makes the dispatch stale.
\* The row's dispatch_seq is not on the wire and nothing compares it.
Resume ==
    /\ pc = "claimed"
    /\ Exists(cur.job)
    /\ GoTo(IF Stale THEN "discard" ELSE "resumed")
    /\ sawOpen' = (status[cur.job] \notin Terminal)
    /\ ran' = IF pc' = "resumed" THEN ran \cup {cur} ELSE ran
    /\ UNCHANGED <<rowVars, requestVars, queueVars, faults, cause, orphaned>>

\* get_job fails, or finds no row: give the message back for _REQUEUE_DELAY_SEC.
ResumeFails ==
    /\ pc = "claimed"
    /\ IF Exists(cur.job) THEN Fault ELSE UNCHANGED faults
    /\ Release
    /\ Return
    /\ UNCHANGED <<rowVars, requestVars, historyVars>>

\* ensure_tenant_id done; the running status is written over whatever is there.
MarkRunning ==
    /\ pc = "resumed"
    /\ Exists(cur.job)
    /\ status' = [status EXCEPT ![cur.job] = Running(cur.pass)]
    /\ GoTo("starting")
    /\ UNCHANGED <<seq, floor, requestVars, queueVars, faults, historyVars>>

\* Where a migrator reports progress: forced at its start and end, else paced.
Reporting == pc \in {"starting", "beat", "wrap"}
Forced == pc \in {"starting", "wrap"}
Suppressed == ~Forced /\ cur.job \in paced
AfterReport == IF pc = "wrap" THEN "settle" ELSE "work"

ReportProgress ==
    /\ Reporting /\ ~Suppressed
    /\ Exists(cur.job) /\ cur.job \notin floor
    /\ status' = [status EXCEPT ![cur.job] = Running(cur.pass)]
    /\ floor' = floor \cup {cur.job}
    /\ paced' = paced \cup {cur.job}
    /\ pc' = AfterReport
    /\ done' = (pc = "wrap")
    /\ UNCHANGED <<seq, requestVars, queueVars, cur, batch, cancelled, stop, faults,
                   historyVars>>

SuppressProgress ==
    /\ Reporting /\ Suppressed
    /\ GoTo("work")
    /\ UNCHANGED <<rowVars, requestVars, queueVars, faults, historyVars>>

\* progressFloor answers 429; the client raises ControlPlaneError, which ends in
\* the handler's generic except.
ReportRefused ==
    /\ Reporting /\ ~Suppressed
    /\ Exists(cur.job) /\ cur.job \in floor
    /\ GoTo("fail")
    /\ cause' = "floor"
    /\ UNCHANGED <<rowVars, requestVars, queueVars, faults, ran, sawOpen, orphaned>>

\* heartbeat: the cancel poll (when its minute has passed) precedes the report.
Heartbeat ==
    /\ pc = "work"
    /\ \E polled \in BOOLEAN :
          cancelled' = (cancelled \/ (polled /\ status[cur.job] \in Terminal))
    /\ pc' = "beat"
    /\ UNCHANGED <<rowVars, requestVars, queueVars, cur, batch, done, stop, paced,
                   faults, historyVars>>

\* The mailbox loop sees should_stop and returns the running status.
LeaveEarly ==
    /\ pc = "work"
    /\ stop \/ cancelled
    /\ GoTo("settle")
    /\ UNCHANGED <<rowVars, requestVars, queueVars, faults, historyVars>>

\* The loops end, exhausted or cut short by should_stop: both migrators then go
\* on to their final forced report and return COMPLETED.
LeaveLoop ==
    /\ pc = "work"
    /\ GoTo("wrap")
    /\ UNCHANGED <<rowVars, requestVars, queueVars, faults, historyVars>>

\* Graph's retry budget is exhausted.
Throttle ==
    /\ pc \in {"resumed", "work"}
    /\ Fault
    /\ GoTo("throttled")
    /\ UNCHANGED <<rowVars, requestVars, queueVars, historyVars>>

\* A job-fatal Graph error.
GraphFails ==
    /\ pc \in {"resumed", "work"}
    /\ Fault
    /\ GoTo("fatal")
    /\ UNCHANGED <<rowVars, requestVars, queueVars, historyVars>>

\* A control-plane call inside the try raises: refused (404 for a deleted row,
\* 429 at the hard cap), timed out, or applied with its answer lost.
CallFails ==
    /\ pc \in InTry \ {"ack"}
    /\ IF Exists(cur.job) THEN Fault ELSE UNCHANGED faults
    /\ GoTo("fail")
    /\ cause' = "call"
    /\ UNCHANGED <<rowVars, requestVars, queueVars, ran, sawOpen, orphaned>>

\* Fault seeded for OpenJobSettles: the end of the run is not recorded.
FinalStatusRunning == IF cancelled THEN "cancelled" ELSE Running(cur.pass)

FinalStatus == IF cancelled THEN "cancelled" ELSE "completed"

\* The migrator returned: the final status is the cancellation it saw, nothing
\* at all when SIGTERM cut it short, or its own.
Settle ==
    /\ pc = "settle"
    /\ \/ /\ stop /\ ~done /\ ~cancelled
          /\ Return
          /\ UNCHANGED status
       \/ /\ cancelled \/ done
          /\ Exists(cur.job)
          /\ status' = [status EXCEPT ![cur.job] = FinalStatus]
          /\ GoTo("ack")
    /\ UNCHANGED <<seq, floor, requestVars, queueVars, faults, historyVars>>

\* ThrottledError: a forced BACKING_OFF report whose failure is suppressed, then
\* the message goes back with a delay.  If that call fails the lease stays, which looks
\* the same, but the exception escapes and the rest of the batch is dropped.
BackOff ==
    /\ pc = "throttled"
    /\ IF Exists(cur.job) /\ cur.job \notin floor
       THEN /\ status' = [status EXCEPT ![cur.job] = "backing_off"]
            /\ floor' = floor \cup {cur.job}
            /\ paced' = paced \cup {cur.job}
       ELSE UNCHANGED <<status, floor, paced>>
    /\ Release
    /\ \/ UNCHANGED <<batch, faults>>
       \/ Fault /\ batch' = {}
    /\ pc' = "idle"
    /\ cur' = NoMsg
    /\ done' = FALSE
    /\ cancelled' = FALSE
    /\ UNCHANGED <<seq, requestVars, stop, historyVars>>

\* GraphError and the generic except write a failure status and go on to the ack.
WriteFailure ==
    /\ pc \in {"fatal", "fail"}
    /\ Exists(cur.job)
    /\ status' = [status EXCEPT ![cur.job] = "failed"]
    /\ GoTo("ackout")
    /\ UNCHANGED <<seq, floor, requestVars, queueVars, faults, historyVars>>

\* The GraphError handler's write fails: the exception escapes, nothing is acked.
FatalWriteFails ==
    /\ pc = "fatal"
    /\ IF Exists(cur.job) THEN Fault ELSE UNCHANGED faults
    /\ Escape
    /\ UNCHANGED <<rowVars, requestVars, queueVars, historyVars>>

\* The generic except suppresses its own write's failure and acks all the same.
FailureUnreported ==
    /\ pc = "fail"
    /\ IF Exists(cur.job) THEN Fault ELSE UNCHANGED faults
    /\ orphaned' = orphaned \cup {cur.job}
    /\ GoTo("ackout")
    /\ UNCHANGED <<rowVars, requestVars, queueVars, cause, ran, sawOpen>>

\* The queue deletes an acked message; under an expired lease it may not.
Delete(m) ==
    /\ \/ queue' = queue \ {m}
       \/ m \notin leased /\ queue' = queue
    /\ leased' = leased \ {m}
    /\ ran' = ran \cap (queue' \cup sends)

\* Fault seeded for PromiseSpec: one ack for every message pulled.
AckPulled ==
    /\ pc \in {"ack", "ackout", "discard"}
    /\ queue' = queue \ (batch \cup {cur})
    /\ leased' = leased \ (batch \cup {cur})
    /\ ran' = ran \cap (queue' \cup sends)
    /\ Return
    /\ cause' = "none"
    /\ sawOpen' = FALSE
    /\ UNCHANGED <<rowVars, requestVars, faults, orphaned>>

Ack ==
    /\ pc \in {"ack", "ackout", "discard"}
    /\ Delete(cur)
    /\ Return
    /\ cause' = "none"
    /\ sawOpen' = FALSE
    /\ UNCHANGED <<rowVars, requestVars, faults, orphaned>>

\* The ack call raises, applied or not. Inside the try that is one more failure
\* of the job; in the other branches it escapes.
AckFails ==
    /\ pc \in {"ack", "ackout", "discard"}
    /\ Fault
    /\ Delete(cur) \/ UNCHANGED <<queueVars, ran>>
    /\ IF pc = "ack"
       THEN GoTo("fail") /\ cause' = "ack" /\ UNCHANGED sawOpen
       ELSE Escape /\ cause' = "none" /\ sawOpen' = FALSE
    /\ UNCHANGED <<rowVars, requestVars, orphaned>>

-------------------------------------------------------------------------------
(* The process: SIGTERM, exit at the top of the loop, kill, restart. *)

Volatile ==
    /\ cur' = NoMsg
    /\ batch' = {}
    /\ done' = FALSE
    /\ cancelled' = FALSE
    /\ paced' = {}
    /\ stop' = FALSE
    /\ cause' = "none"
    /\ sawOpen' = FALSE

Sigterm ==
    /\ pc # "down" /\ ~stop
    /\ Fault
    /\ stop' = TRUE
    /\ UNCHANGED <<rowVars, requestVars, queueVars, pc, cur, batch, done, cancelled,
                   paced, historyVars>>

Exit ==
    /\ pc = "idle" /\ stop
    /\ pc' = "down"
    /\ Volatile
    /\ UNCHANGED <<rowVars, requestVars, queueVars, faults, ran, orphaned>>

Kill ==
    /\ pc # "down"
    /\ Fault
    /\ pc' = "down"
    /\ Volatile
    /\ UNCHANGED <<rowVars, requestVars, queueVars, ran, orphaned>>

Restart ==
    /\ pc = "down"
    /\ GoTo("idle")
    /\ UNCHANGED <<rowVars, requestVars, queueVars, faults, historyVars>>

-------------------------------------------------------------------------------
Init ==
    /\ status = [j \in Jobs |-> "none"]
    /\ seq = [j \in Jobs |-> 0]
    /\ floor = {}
    /\ checked = {}
    /\ sends = {}
    /\ queue = {}
    /\ leased = {}
    /\ pc = "idle"
    /\ cur = NoMsg
    /\ batch = {}
    /\ done = FALSE
    /\ cancelled = FALSE
    /\ stop = FALSE
    /\ paced = {}
    /\ faults = 0
    /\ cause = "none"
    /\ ran = {}
    /\ sawOpen = FALSE
    /\ orphaned = {}

Operator ==
    \/ \E j \in Jobs : CreateJob(j) \/ RequestDelta(j) \/ Cancel(j) \/ DeleteUser(j)
    \/ \E r \in Requests, j \in Jobs : RetryCheck(r, j) \/ RetryWrite(r, j)
    \/ \E m \in sends : Send(m) \/ LoseSend(m)

Time ==
    \/ \E m \in leased : LeaseExpires(m)
    \/ \E j \in Jobs : ServerFloorElapses(j) \/ ClientFloorElapses(j)

Engine ==
    \/ Pull
    \/ \E m \in batch : Claim(m)
    \/ Resume \/ ResumeFails \/ ConfigFails
    \/ MarkRunning \/ ReportProgress \/ SuppressProgress \/ ReportRefused
    \/ Heartbeat \/ LeaveEarly \/ LeaveLoop \/ Settle
    \/ Throttle \/ GraphFails \/ CallFails
    \/ BackOff \/ WriteFailure \/ FatalWriteFails \/ FailureUnreported
    \/ Ack \/ AckFails

Process == Sigterm \/ Exit \/ Kill \/ Restart

Next == Operator \/ Time \/ Engine \/ Process

Spec == Init /\ [][Next]_vars

\* The scheduling the code relies on: the Worker finishes the requests it has
\* begun, timers run out, the queue delivers every message that is visible time and
\* again, systemd restarts the engine, its event loop runs, and a migrator's loops are
\* finite. Failures and operators are under no obligation.
Fairness ==
    /\ \A m \in Msg : WF_vars(Send(m)) /\ WF_vars(LeaseExpires(m))
    /\ \A j \in Jobs : WF_vars(ServerFloorElapses(j)) /\ WF_vars(ClientFloorElapses(j))
    /\ \A m \in Msg : SF_vars(Pull /\ m \in batch')
    /\ WF_vars(\E m \in batch : Claim(m))
    /\ WF_vars(Resume) /\ WF_vars(ResumeFails)
    /\ WF_vars(MarkRunning \/ ReportProgress \/ SuppressProgress \/ ReportRefused)
    /\ SF_vars(LeaveLoop)
    /\ WF_vars(Settle) /\ WF_vars(BackOff)
    /\ WF_vars(WriteFailure \/ FailureUnreported \/ FatalWriteFails)
    /\ WF_vars(CallFails /\ ~Exists(cur.job)) /\ WF_vars(Ack)
    /\ WF_vars(Exit \/ Restart)

FairSpec == Spec /\ Fairness

-------------------------------------------------------------------------------
TypeOK ==
    /\ status \in [Jobs -> Active \cup Terminal \cup Absent]
    /\ seq \in [Jobs -> 0..MaxSeq]
    /\ floor \subseteq Jobs
    /\ checked \subseteq Requests \X Jobs
    /\ sends \subseteq Msg
    /\ queue \subseteq Msg
    /\ leased \subseteq Msg
    /\ pc \in PC
    /\ cur \in Msg \cup {NoMsg}
    /\ batch \subseteq Msg
    /\ done \in BOOLEAN /\ cancelled \in BOOLEAN /\ stop \in BOOLEAN
    /\ sawOpen \in BOOLEAN
    /\ paced \subseteq Jobs
    /\ faults \in 0..MaxFaults
    /\ cause \in {"none", "floor", "call", "ack"}
    /\ ran \subseteq Msg
    /\ orphaned \subseteq Jobs

(***************************************************************************)
(* An open job has a dispatch that is being sent or sits in the queue, so  *)
(* it comes back to the engine after any kill, SIGTERM, expired lease or   *)
(* back-off; the only jobs without one lost a send between the D1 write    *)
(* and the queue, or a failure report that the generic except suppressed.  *)
(***************************************************************************)
Carried(j) == \E m \in InFlight : m.job = j
NoJobStranded == \A j \in Jobs : Open(j) => Carried(j) \/ j \in orphaned

(***************************************************************************)
(* A dispatch number identifies one dispatch of a row: two messages of the *)
(* same job on their way or in the queue never share it, and none is ahead *)
(* of the row (number 0 marks the dispatches of deleted rows).             *)
(***************************************************************************)
DispatchNumbersUnique ==
    \A m \in InFlight :
        /\ m.seq <= seq[m.job]
        /\ \A n \in InFlight : n.job = m.job /\ n.seq = m.seq /\ m.seq > 0 => n = m

(***************************************************************************)
(* A settled job goes back to an open status only by a new dispatch of the *)
(* operator, or by a run that began while the job was open: the redelivery *)
(* of a message whose job is settled never reopens it.                     *)
(***************************************************************************)
ReopenedOnlyByRequestOrRun ==
    [][\A j \in Jobs :
          status[j] \in Terminal /\ status'[j] \in Active =>
              \/ seq'[j] > seq[j]
              \/ pc \in InTry \cup InExcept /\ cur.job = j /\ sawOpen]_vars

(***************************************************************************)
(* A run that has seen its job cancelled never reports it completed, even  *)
(* though its heartbeats have written a running status over the            *)
(* cancellation meanwhile.                                                 *)
(***************************************************************************)
SeenCancelNeverCompletes ==
    [][cancelled /\ pc \in InTry /\ status'[cur.job] = "completed" =>
          status[cur.job] = "completed"]_vars

(***************************************************************************)
(* An open job is settled in the end, whatever the failures, unless it was *)
(* orphaned.                                                               *)
(***************************************************************************)
OpenJobSettles == \A j \in Jobs : Open(j) ~> (~Open(j) \/ j \in orphaned)

\* The dispatch path this module implements.
Promise == INSTANCE JobPromise WITH
              Dispatches <- Msg,
              open <- {j \in Jobs : Open(j)},
              inflight <- InFlight,
              lost <- orphaned

PromiseSpec == Promise!Spec

-------------------------------------------------------------------------------
(* What comments and contracts say of the dispatch path and the code does   *)
(* not do; each is the subject of a run that refutes it.                    *)

(***************************************************************************)
(* A cancelled job stays cancelled until it is dispatched again: the engine *)
(* sees the status on its next poll and stops (worker/src/routes/jobs.ts).  *)
(***************************************************************************)
CancelIsNotOverwritten ==
    [][\A j \in Jobs :
          status[j] = "cancelled" /\ seq'[j] = seq[j] => status'[j] \notin Active]_vars

(***************************************************************************)
(* A 429 of the control plane is a soft error, never a failure of the job  *)
(* (engine/entrashift_engine/control_plane.py).                            *)
(***************************************************************************)
FloorIsNotFailure == ~(pc = "ackout" /\ cause = "floor")

(***************************************************************************)
(* Only a dispatch that an operator has superseded or cancelled, or that    *)
(* has already run, is taken for stale (dispatchSeq is the stale-message    *)
(* detection of shared/contracts.ts).                                       *)
(***************************************************************************)
OnlyStaleIsDiscarded ==
    [][pc = "claimed" /\ pc' = "discard" =>
          cur \in ran \/ cur.seq < seq[cur.job] \/ status[cur.job] = "cancelled"]_vars
===============================================================================
