------------------------------ MODULE JobPromise ------------------------------
(***************************************************************************)
(* What the dispatch path of EntraShift promises, without D1, queue leases *)
(* or engine: a job that is open has at least one dispatch in flight that  *)
(* will bring it to the engine, unless a call was lost in a way the code   *)
(* does not repair (the job is then excused).  JobLifecycle implements     *)
(* this module.                                                            *)
(***************************************************************************)

CONSTANTS Jobs,        \* the job rows: one per migration user and workload
          Dispatches   \* the dispatch messages, records with a field job

VARIABLES open,        \* jobs whose status is not terminal
          inflight,    \* dispatches being sent, queued, or leased and not acked
          lost         \* jobs excused: a send or a failure report was lost

vars == <<open, inflight, lost>>

TypeOK ==
    /\ open \subseteq Jobs
    /\ inflight \subseteq Dispatches
    /\ lost \subseteq Jobs

Carried(j) == \E d \in inflight : d.job = j

Init ==
    /\ open = {}
    /\ inflight = {}
    /\ lost = {}

\* An operator request (create, retry, delta) opens the job with a dispatch.
Dispatch(d) ==
    /\ open' = open \cup {d.job}
    /\ inflight' = inflight \cup {d}
    /\ lost' = lost \ {d.job}

\* A dispatch for a row that no longer exists: it opens nothing.
Stray(d) ==
    /\ inflight' = inflight \cup {d}
    /\ UNCHANGED <<open, lost>>

\* The run of a dispatch in flight reports a running status.
Reopen(j) ==
    /\ Carried(j)
    /\ open' = open \cup {j}
    /\ UNCHANGED <<inflight, lost>>

\* The job gets a terminal status, or its row is deleted.
Settle(j) ==
    /\ open' = open \ {j}
    /\ UNCHANGED <<inflight, lost>>

\* A dispatch leaves the queue: its job is settled, excused, or carried by another.
Discharge(d) ==
    /\ \/ d.job \notin open
       \/ d.job \in lost
       \/ \E e \in inflight \ {d} : e.job = d.job
    /\ inflight' = inflight \ {d}
    /\ UNCHANGED <<open, lost>>

\* A dispatch is lost on its way to the queue.
Lose(d) ==
    /\ inflight' = inflight \ {d}
    /\ lost' = lost \cup {d.job}
    /\ UNCHANGED open

\* A run ends without being able to say so.
Excuse(j) ==
    /\ lost' = lost \cup {j}
    /\ UNCHANGED <<open, inflight>>

Next ==
    \/ \E d \in Dispatches : Dispatch(d) \/ Stray(d) \/ Discharge(d) \/ Lose(d)
    \/ \E j \in Jobs : Reopen(j) \/ Settle(j) \/ Excuse(j)

Spec == Init /\ [][Next]_vars

(***************************************************************************)
(* No open job is forgotten: it is carried by a dispatch or excused.       *)
(***************************************************************************)
NoneForgotten == \A j \in open : Carried(j) \/ j \in lost
===============================================================================
