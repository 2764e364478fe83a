-------------------------- MODULE BacktestJobQueue --------------------------
(***************************************************************************)
(* The backtest job queue: services/backtest/job_runner.py, the worker     *)
(* loop of workers/backtest_worker.py, the row writes of unified_runner.py *)
(* and the cancel and delete endpoints of api/routes_backtest.py.  The     *)
(* rows of backtest_runs are shared by the API and by worker processes     *)
(* that may be killed and started again.                                   *)
(*                                                                         *)
(* Every database transaction that reads a row and later writes it back    *)
(* without a lock or a condition is two steps here where somebody else can *)
(* change the outcome in between (request_cancel, the delete endpoints,    *)
(* requeue_orphaned_runs, the fallback claim).  Progress, error and result *)
(* columns are left out: the queue never reads them back.                  *)
(***************************************************************************)
EXTENDS Integers, FiniteSets

CONSTANTS
    MaxRuns,     \* bound: how many runs are enqueued; run n is the n-th one
    Pids,        \* worker processes, each is started at most once
    NoPid,       \* no worker
    MaxAlive,    \* how many workers the deployment keeps alive at once
    Host,        \* per pid: the host it runs on, the first half of worker_id
    Faults,      \* kinds of failure that may happen
    MaxFaults    \* bound: how many failures happen in a behaviour

\* "claim" is a database error inside claim_next_queued_run, whose handler is
\* the non-locking fallback; "db" one in any other transaction of a worker.
ASSUME QueueAssumption ==
    /\ MaxRuns \in Nat /\ MaxAlive \in Nat /\ MaxFaults \in Nat
    /\ IsFiniteSet(Pids) /\ NoPid \notin Pids
    /\ Faults \subseteq {"crash", "taskCancel", "claim", "db", "overrun"}

Runs == 1 .. MaxRuns
NoRun == 0

VARIABLES
    status,      \* per run: the status column, or "absent"
    cancelReq,   \* per run: cancel_requested
    claimer,     \* per run: the pid in worker_id
    enqueued,    \* how many runs were enqueued
    proc,        \* per pid: where the worker loop is
    job,         \* per pid: the run it claimed
    verdict,     \* per pid: final_status of run_job
    orphans,     \* per pid: the rows requeue_orphaned_runs selected
    tasks,       \* fire-and-forget _persist_run_to_db tasks not yet run
    cancelling,  \* per run: the status request_cancel read, or "none"
    deleting,    \* runs a delete endpoint read as finished and will delete
    abandoned,   \* history: running rows a worker gave up on after an error
    budget       \* how many failures may still happen

rows == <<status, cancelReq, claimer, enqueued>>
workers == <<proc, job, verdict, orphans>>
requests == <<cancelling, deleting>>
vars == <<status, cancelReq, claimer, enqueued, proc, job,
          verdict, orphans, tasks, cancelling, deleting, abandoned, budget>>

Terminal == {"completed", "failed", "cancelled", "ok"}
Statuses == Terminal \cup {"absent", "queued", "running"}
\* The worker is somewhere in run_job with a run it claimed.
Executing == {"load", "discover", "replay", "final"}
Procs == Executing \cup {"unborn", "select", "requeue", "poll", "fallback", "claim", "dead"}
Task == [pid : Pids, run : Runs, ok : BOOLEAN]

Alive(p) == proc[p] \notin {"unborn", "dead"}
Exists(n) == status[n] # "absent"

Init == /\ status = [n \in Runs |-> "absent"]
        /\ cancelReq = [n \in Runs |-> FALSE]
        /\ claimer = [n \in Runs |-> NoPid]
        /\ enqueued = 0
        /\ proc = [p \in Pids |-> "unborn"]
        /\ job = [p \in Pids |-> NoRun]
        /\ verdict = [p \in Pids |-> "none"]
        /\ orphans = [p \in Pids |-> {}]
        /\ tasks = {}
        /\ cancelling = [n \in Runs |-> "none"]
        /\ deleting = {}
        /\ abandoned = {}
        /\ budget = MaxFaults

Goto(p, label) == proc' = [proc EXCEPT ![p] = label]
\* Control leaves the call: the run and final_status were locals of it.
Leave(p, label) == /\ Goto(p, label)
                   /\ job' = [job EXCEPT ![p] = NoRun]
                   /\ verdict' = [verdict EXCEPT ![p] = "none"]
Fault(kind) == kind \in Faults /\ budget > 0 /\ budget' = budget - 1
\* The row p claimed and executes: nobody else looks at it while p lives.
Own(p) == {n \in Runs : /\ proc[p] \in Executing /\ n = job[p]
                        /\ status[n] = "running" /\ claimer[n] = p}

(***************************************************************************)
(* The API: enqueue, cancel, delete.                                       *)
(***************************************************************************)

\* enqueue_run: a new row, newer than all the others.
EnqueueRun ==
    /\ enqueued < MaxRuns
    /\ enqueued' = enqueued + 1
    /\ status' = [status EXCEPT ![enqueued + 1] = "queued"]
    /\ UNCHANGED <<cancelReq, claimer, workers, tasks, requests, abandoned, budget>>

\* request_cancel reads the row; it returns False for a finished one ...
RequestCancelRead(n) ==
    /\ cancelling[n] = "none"
    /\ status[n] \in {"queued", "running"}
    /\ cancelling' = [cancelling EXCEPT ![n] = status[n]]
    /\ UNCHANGED <<rows, workers, tasks, deleting, abandoned, budget>>

\* ... and commits what it decided from that reading.  The UPDATE names the
\* row only by its key; a row deleted meanwhile makes it fail.
RequestCancelCommit(n) ==
    /\ cancelling[n] # "none"
    /\ cancelling' = [cancelling EXCEPT ![n] = "none"]
    /\ cancelReq' = [cancelReq EXCEPT ![n] = cancelReq[n] \/ Exists(n)]
    /\ status' = [status EXCEPT ![n] =
                    IF cancelling[n] = "queued" /\ Exists(n) THEN "cancelled" ELSE @]
    /\ UNCHANGED <<claimer, enqueued, workers, tasks, deleting, abandoned, budget>>

\* delete_run and bulk_delete_runs refuse queued and running rows ...
DeleteRunRead(n) ==
    /\ status[n] \in Terminal
    /\ n \notin deleting
    /\ deleting' = deleting \cup {n}
    /\ UNCHANGED <<rows, workers, tasks, cancelling, abandoned, budget>>

\* ... and then delete by key alone, whatever the row has become.
DeleteRunCommit(n) ==
    /\ n \in deleting
    /\ deleting' = deleting \ {n}
    /\ status' = [status EXCEPT ![n] = "absent"]
    /\ cancelReq' = [cancelReq EXCEPT ![n] = FALSE]
    /\ claimer' = [claimer EXCEPT ![n] = NoPid]
    /\ UNCHANGED <<enqueued, workers, tasks, cancelling, abandoned, budget>>

(***************************************************************************)
(* The worker loop: startup, orphan recovery, claim.                       *)
(***************************************************************************)

\* A worker process starts; start_loop begins with the orphan recovery.
StartWorker(p) ==
    /\ proc[p] = "unborn"
    /\ Cardinality({q \in Pids : Alive(q)}) < MaxAlive
    /\ Goto(p, "select")
    /\ UNCHANGED <<rows, job, verdict, orphans, tasks, requests, abandoned, budget>>

\* Rows of another process of this host that does not exist any more.
Orphaned(p) == {n \in Runs : /\ status[n] = "running"
                             /\ claimer[n] \in Pids \ {p}
                             /\ Host[claimer[n]] = Host[p]
                             /\ ~Alive(claimer[n])}

\* Mutant: only the 24 hour cap makes a row an orphan.
SelectOverrunOnly(p) ==
    /\ proc[p] = "select"
    /\ \E late \in SUBSET {n \in Runs : status[n] = "running"} :
          /\ late # {} => "overrun" \in Faults
          /\ orphans' = [orphans EXCEPT ![p] = late]
    /\ Goto(p, "requeue")
    /\ UNCHANGED <<rows, job, verdict, tasks, requests, abandoned, budget>>

\* requeue_orphaned_runs selects running rows whose pid is another, dead
\* process, or whose claim is older than the 24 hour cap ...
SelectOrphans(p) ==
    /\ proc[p] = "select"
    /\ \E late \in SUBSET {n \in Runs : status[n] = "running"} :
          /\ late # {} => "overrun" \in Faults
          /\ orphans' = [orphans EXCEPT ![p] = late \cup Orphaned(p)]
    /\ Goto(p, "requeue")
    /\ UNCHANGED <<rows, job, verdict, tasks, requests, abandoned, budget>>

\* ... and writes them back as queued, without looking at them again.  If one
\* of them is gone the commit fails as a whole and start_loop goes on.
RequeueOrphans(p) ==
    /\ proc[p] = "requeue"
    /\ LET back == IF \A n \in orphans[p] : Exists(n) THEN orphans[p] ELSE {}
       IN  /\ status' = [n \in Runs |-> IF n \in back THEN "queued" ELSE status[n]]
           /\ claimer' = [n \in Runs |-> IF n \in back THEN NoPid ELSE claimer[n]]
           /\ abandoned' = (abandoned \ back) \cup (Orphaned(p) \cap (orphans[p] \ back))
    /\ orphans' = [orphans EXCEPT ![p] = {}]
    /\ Goto(p, "poll")
    /\ UNCHANGED <<cancelReq, enqueued, job, verdict, tasks, requests, budget>>

\* The row with the smallest created_at among the queued ones.
OldestQueued(n) == /\ status[n] = "queued"
                   /\ \A m \in Runs : status[m] = "queued" => n <= m

\* The row n becomes p's.
Claim(p, n) == /\ status' = [status EXCEPT ![n] = "running"]
               /\ claimer' = [claimer EXCEPT ![n] = p]

\* claim_next_queued_run: UPDATE ... WHERE id IN (SELECT ... SKIP LOCKED).
ClaimNextQueuedRun(p) ==
    /\ proc[p] = "poll"
    /\ \E n \in Runs : /\ OldestQueued(n)
                       /\ Claim(p, n)
                       /\ job' = [job EXCEPT ![p] = n]
                       /\ abandoned' = abandoned \ {n}
    /\ Goto(p, "load")
    /\ UNCHANGED <<cancelReq, enqueued, verdict, orphans, tasks, requests, budget>>

\* The queue is empty: start_loop sleeps and polls again.
PollEmptyQueue(p) ==
    /\ proc[p] = "poll"
    /\ \A n \in Runs : status[n] # "queued"
    /\ UNCHANGED vars

\* The statement or its commit raises, the claim done or not (a lost reply).
\* Any error falls through to the fallback, unless the rollback raises too and
\* start_loop logs it and polls again.
ClaimFails(p) ==
    /\ proc[p] = "poll"
    /\ Fault("claim")
    /\ \/ UNCHANGED <<status, claimer, abandoned>>
       \/ \E n \in Runs : /\ OldestQueued(n)
                          /\ Claim(p, n)
                          /\ abandoned' = abandoned \cup {n}
    /\ \E label \in {"fallback", "poll"} : Goto(p, label)
    /\ UNCHANGED <<cancelReq, enqueued, job, verdict, orphans, tasks, requests>>

\* The non-locking claim reads a candidate, if there is one ...
FallbackClaimRead(p) ==
    /\ proc[p] = "fallback"
    /\ \/ /\ \E n \in Runs : OldestQueued(n) /\ job' = [job EXCEPT ![p] = n]
          /\ Goto(p, "claim")
       \/ /\ \A n \in Runs : status[n] # "queued"
          /\ Goto(p, "poll")
          /\ UNCHANGED job
    /\ UNCHANGED <<rows, verdict, orphans, tasks, requests, abandoned, budget>>

\* ... and writes it, or fails when the row is gone and polls again.
FallbackClaimWrite(p) ==
    /\ proc[p] = "claim"
    /\ IF Exists(job[p])
       THEN /\ Claim(p, job[p])
            /\ abandoned' = abandoned \ {job[p]}
            /\ Goto(p, "load")
            /\ UNCHANGED <<job, verdict>>
       ELSE Leave(p, "poll") /\ UNCHANGED <<status, claimer, abandoned>>
    /\ UNCHANGED <<cancelReq, enqueued, orphans, tasks, requests, budget>>

\* The database that failed the locking claim may fail the fallback too: its
\* read or commit without effect, its commit's reply or its refresh after the
\* row was written.  start_loop polls again.
FallbackClaimFails(p) ==
    /\ proc[p] \in {"fallback", "claim"}
    /\ \/ UNCHANGED <<status, claimer, abandoned>>
       \/ /\ proc[p] = "claim" /\ Exists(job[p])
          /\ Claim(p, job[p])
          /\ abandoned' = abandoned \cup {job[p]}
    /\ Leave(p, "poll")
    /\ UNCHANGED <<cancelReq, enqueued, orphans, tasks, requests, budget>>

(***************************************************************************)
(* run_job.                                                                *)
(***************************************************************************)

\* The row is reloaded: a missing row raises, a row that is not running any
\* more is skipped, and the loop polls again.
LoadRow(p) ==
    /\ proc[p] = "load"
    /\ IF status[job[p]] = "running"
       THEN Goto(p, "discover") /\ UNCHANGED <<job, verdict>>
       ELSE Leave(p, "poll")
    /\ UNCHANGED <<rows, orphans, tasks, requests, abandoned, budget>>

\* _on_progress during the discovery replay: BacktestCancelled reaches
\* run_job.
ProbeDiscovery(p) ==
    /\ proc[p] = "discover"
    /\ cancelReq[job[p]]
    /\ verdict' = [verdict EXCEPT ![p] = "cancelled"]
    /\ Goto(p, "final")
    /\ UNCHANGED <<rows, job, orphans, tasks, requests, abandoned, budget>>

\* The discovery ends; the callback is debounced and need not have looked.
StartReplay(p) ==
    /\ proc[p] = "discover"
    /\ Goto(p, "replay")
    /\ UNCHANGED <<rows, job, verdict, orphans, tasks, requests, abandoned, budget>>

\* _on_progress during the snapshot replay: BacktestEngine.run catches what
\* the callback raises, logs it and goes on.
ProbeReplay(p) ==
    /\ proc[p] = "replay"
    /\ cancelReq[job[p]]
    /\ UNCHANGED vars

\* Mutant: final_status is not assigned on the normal path.
EngineReturnsWithoutVerdict(p, ok) ==
    /\ proc[p] = "replay"
    /\ tasks' = tasks \cup {[pid |-> p, run |-> job[p], ok |-> ok]}
    /\ Goto(p, "final")
    /\ UNCHANGED <<rows, job, verdict, orphans, requests, abandoned, budget>>

\* run_unified_backtest returns: _store_run has scheduled a task that will
\* upsert the row, and run_job goes on to its own final write.  ok is
\* execution.success, which run_job does not look at.
EngineReturns(p, ok) ==
    /\ proc[p] = "replay"
    /\ tasks' = tasks \cup {[pid |-> p, run |-> job[p], ok |-> ok]}
    /\ verdict' = [verdict EXCEPT ![p] = "completed"]
    /\ Goto(p, "final")
    /\ UNCHANGED <<rows, job, orphans, requests, abandoned, budget>>

\* Mutant: the exception leaves run_job before the final write.
EngineRaisesThrough(p) ==
    /\ proc[p] \in {"discover", "replay"}
    /\ Leave(p, "poll")
    /\ UNCHANGED <<rows, orphans, tasks, requests, abandoned, budget>>

\* run_unified_backtest raises.
EngineRaises(p) ==
    /\ proc[p] \in {"discover", "replay"}
    /\ verdict' = [verdict EXCEPT ![p] = "failed"]
    /\ Goto(p, "final")
    /\ UNCHANGED <<rows, job, orphans, tasks, requests, abandoned, budget>>

\* The final write: by run id alone, whoever the row belongs to by now.
FinalWrite(p) ==
    /\ proc[p] = "final"
    /\ status' = [status EXCEPT ![job[p]] = IF Exists(job[p]) THEN verdict[p] ELSE @]
    /\ Leave(p, "poll")
    /\ UNCHANGED <<cancelReq, claimer, enqueued, orphans, tasks, requests, abandoned, budget>>

\* _persist_run_to_db: INSERT ... ON CONFLICT DO UPDATE of the status.  It
\* inserts the row when the row is gone.
PersistRun(t) ==
    /\ t \in tasks
    /\ tasks' = tasks \ {t}
    /\ status' = [status EXCEPT ![t.run] = IF t.ok THEN "ok" ELSE "failed"]
    /\ UNCHANGED <<cancelReq, claimer, enqueued, workers, requests, abandoned, budget>>

(***************************************************************************)
(* Failures.                                                               *)
(***************************************************************************)

\* The process dies, its background tasks with it.
Crash(p) ==
    /\ Alive(p)
    /\ Fault("crash")
    /\ Leave(p, "dead")
    /\ orphans' = [orphans EXCEPT ![p] = {}]
    /\ tasks' = {t \in tasks : t.pid # p}
    /\ UNCHANGED <<rows, requests, abandoned>>

\* The host cancels and respawns start_loop inside the same process.
RestartTask(p) ==
    /\ Alive(p)
    /\ Fault("taskCancel")
    /\ Leave(p, "select")
    /\ orphans' = [orphans EXCEPT ![p] = {}]
    /\ abandoned' = abandoned \cup Own(p)
    /\ UNCHANGED <<rows, tasks, requests>>

\* A transaction of the orphan recovery, run_job's reload or its final write
\* fails: it is logged and the loop polls on.
TransactionFails(p) ==
    /\ proc[p] \in {"select", "requeue", "load", "final"}
    /\ Fault("db")
    /\ Leave(p, "poll")
    /\ orphans' = [orphans EXCEPT ![p] = {}]
    /\ abandoned' = abandoned \cup (IF proc[p] \in {"select", "requeue"}
                                    THEN Orphaned(p) ELSE Own(p))
    /\ UNCHANGED <<rows, tasks, requests>>

\* The transaction of the persist task fails and is logged.
PersistFails(t) ==
    /\ t \in tasks
    /\ Fault("db")
    /\ tasks' = tasks \ {t}
    /\ UNCHANGED <<rows, workers, requests, abandoned>>

WorkerStep(p) ==
    \/ SelectOrphans(p) \/ RequeueOrphans(p)
    \/ ClaimNextQueuedRun(p) \/ FallbackClaimRead(p) \/ FallbackClaimWrite(p) \/ LoadRow(p)
    \/ ProbeDiscovery(p) \/ StartReplay(p) \/ EngineRaises(p) \/ FinalWrite(p)
    \/ \E ok \in BOOLEAN : EngineReturns(p, ok)

Next ==
    \/ EnqueueRun
    \/ \E n \in Runs : RequestCancelRead(n) \/ RequestCancelCommit(n)
                        \/ DeleteRunRead(n) \/ DeleteRunCommit(n)
    \/ \E p \in Pids : \/ StartWorker(p) \/ WorkerStep(p) \/ ProbeReplay(p)
                       \/ PollEmptyQueue(p) \/ ClaimFails(p) \/ FallbackClaimFails(p)
                       \/ Crash(p) \/ RestartTask(p) \/ TransactionFails(p)
    \/ \E t \in tasks : PersistRun(t) \/ PersistFails(t)

Spec == Init /\ [][Next]_vars

\* A live worker makes progress, a dead one is replaced, and the engine does
\* not replay for ever.
FairSpec == /\ Spec
            /\ \A p \in Pids : WF_vars(WorkerStep(p)) /\ WF_vars(StartWorker(p))

(***************************************************************************)
(* Properties.                                                             *)
(***************************************************************************)

\* The variables keep their types.
TypeOK ==
    /\ status \in [Runs -> Statuses]
    /\ cancelReq \in [Runs -> BOOLEAN]
    /\ claimer \in [Runs -> Pids \cup {NoPid}]
    /\ enqueued \in 0 .. MaxRuns
    /\ proc \in [Pids -> Procs]
    /\ job \in [Pids -> Runs \cup {NoRun}]
    /\ verdict \in [Pids -> {"none", "completed", "failed", "cancelled"}]
    /\ orphans \in [Pids -> SUBSET Runs]
    /\ tasks \subseteq Task
    /\ cancelling \in [Runs -> {"none", "queued", "running"}]
    /\ deleting \subseteq Runs
    /\ abandoned \subseteq Runs
    /\ budget \in Nat

\* Workers that poll independently are mutually exclusive: no run is executed
\* by two live workers.  job_runner.py:144-147 and backtest_worker.py:20-22 say
\* so of the claim; its fallback after a database error breaks it.
SingleExecutor ==
    \A p, q \in Pids : p # q /\ {proc[p], proc[q]} \subseteq Executing => job[p] # job[q]

\* No worker starts or respawns its loop while another one is between the
\* reading and the writing of its orphan recovery.
StartsAlone ==
    \A p \in Pids : proc'[p] = "select" /\ proc[p] # "select"
        => \A q \in Pids \ {p} : proc[q] \notin {"select", "requeue"}

\* A run that has an outcome is never executed again: the orphan recovery of a
\* restarted worker does not put it back in the queue and nobody claims it.
FinishedNeverRequeued ==
    [][\A n \in Runs : status[n] \in {"completed", "failed", "ok"}
                         => status'[n] \notin {"queued", "running"}]_vars

\* No row is left running unnoticed: its claimer is executing it, or is dead
\* and the next worker to start will requeue it, or an error made a worker give
\* it up (the queue has no heartbeat), whoever claimed, requeued, cancelled or
\* deleted it in between.
RunningHasExecutor ==
    \A n \in Runs : status[n] = "running" =>
        LET p == claimer[n] IN
        /\ p \in Pids
        /\ \/ proc[p] = "dead"
           \/ proc[p] \in Executing /\ job[p] = n
           \/ n \in abandoned

\* Every queued run is finished some day although workers die and their claims
\* overlap, unless it is deleted or an error made a worker give it up: the
\* recovery at startup finds the orphans of every dead worker.
EveryRunFinishes ==
    \A n \in Runs : status[n] = "queued"
        ~> (status[n] \in Terminal \cup {"absent"} \/ n \in abandoned)
=============================================================================
