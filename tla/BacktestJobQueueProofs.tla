----------------------- MODULE BacktestJobQueueProofs -----------------------
(***************************************************************************)
(* Proofs about BacktestJobQueue for any number of runs, any finite set of *)
(* worker processes and any number of failures.                            *)
(***************************************************************************)
EXTENDS BacktestJobQueue, FiniteSetTheorems, TLAPS

USE QueueAssumption

(***************************************************************************)
(* Types, for every kind of failure.                                       *)
(***************************************************************************)

\* A worker that has read or claimed a run knows which, and one that reached
\* the final write has a final_status to write.
Held == \A p \in Pids : /\ proc[p] \in Executing \cup {"claim"} => job[p] \in Runs
                        /\ proc[p] = "final" => verdict[p] # "none"

TypeInv == TypeOK /\ Held

\* The actions of the API keep TypeInv.
LEMMA ApiTypes ==
    ASSUME TypeInv, NEW n \in Runs,
           EnqueueRun \/ RequestCancelRead(n) \/ RequestCancelCommit(n)
             \/ DeleteRunRead(n) \/ DeleteRunCommit(n)
    PROVE  TypeInv'
<1> USE DEF TypeInv, TypeOK, Held, Statuses, Terminal, Runs, rows, workers, requests
<1>1. CASE EnqueueRun
  BY <1>1 DEF EnqueueRun
<1>2. CASE RequestCancelRead(n)
  BY <1>2 DEF RequestCancelRead
<1>3. CASE RequestCancelCommit(n)
  BY <1>3 DEF RequestCancelCommit, Exists
<1>4. CASE DeleteRunRead(n)
  BY <1>4 DEF DeleteRunRead
<1>5. CASE DeleteRunCommit(n)
  BY <1>5 DEF DeleteRunCommit
<1> QED
  BY <1>1, <1>2, <1>3, <1>4, <1>5

\* So do the startup and the two claims of a worker.
LEMMA ClaimTypes ==
    ASSUME TypeInv, NEW p \in Pids,
           StartWorker(p) \/ SelectOrphans(p) \/ RequeueOrphans(p) \/ ClaimNextQueuedRun(p)
             \/ PollEmptyQueue(p) \/ ClaimFails(p) \/ FallbackClaimRead(p)
             \/ FallbackClaimWrite(p) \/ FallbackClaimFails(p)
    PROVE  TypeInv'
<1> USE DEF TypeInv, TypeOK, Held, Statuses, Terminal, Procs, Executing, rows, workers,
            requests, Goto, Leave, NoRun
<1>1. CASE StartWorker(p)
  BY <1>1 DEF StartWorker
<1>2. CASE SelectOrphans(p)
  BY <1>2 DEF SelectOrphans, Orphaned
<1>3. CASE RequeueOrphans(p)
  BY <1>3 DEF RequeueOrphans
<1>4. CASE ClaimNextQueuedRun(p)
  BY <1>4 DEF ClaimNextQueuedRun, Claim
<1>5. CASE PollEmptyQueue(p)
  BY <1>5 DEF PollEmptyQueue, vars
<1>6. CASE ClaimFails(p)
  BY <1>6 DEF ClaimFails, Claim, Fault
<1>7. CASE FallbackClaimRead(p)
  BY <1>7 DEF FallbackClaimRead
<1>8. CASE FallbackClaimWrite(p)
  BY <1>8 DEF FallbackClaimWrite, Claim, Exists
<1>9. CASE FallbackClaimFails(p)
  BY <1>9 DEF FallbackClaimFails, Claim, Exists
<1> QED
  BY <1>1, <1>2, <1>3, <1>4, <1>5, <1>6, <1>7, <1>8, <1>9

\* So does run_job.
LEMMA JobTypes ==
    ASSUME TypeInv, NEW p \in Pids,
           \/ LoadRow(p) \/ ProbeDiscovery(p) \/ StartReplay(p) \/ ProbeReplay(p)
           \/ EngineRaises(p) \/ FinalWrite(p) \/ \E ok \in BOOLEAN : EngineReturns(p, ok)
    PROVE  TypeInv'
<1> USE DEF TypeInv, TypeOK, Held, Statuses, Terminal, Procs, Executing, rows, workers,
            requests, Goto, Leave, NoRun
<1>1. CASE LoadRow(p)
  BY <1>1 DEF LoadRow
<1>2. CASE ProbeDiscovery(p)
  BY <1>2 DEF ProbeDiscovery
<1>3. CASE StartReplay(p)
  BY <1>3 DEF StartReplay
<1>4. CASE ProbeReplay(p)
  BY <1>4 DEF ProbeReplay, vars
<1>5. CASE EngineRaises(p)
  BY <1>5 DEF EngineRaises
<1>6. CASE FinalWrite(p)
  BY <1>6 DEF FinalWrite, Exists
<1>7. ASSUME NEW ok \in BOOLEAN, EngineReturns(p, ok)
      PROVE  TypeInv'
  BY <1>7 DEF EngineReturns, Task
<1> QED
  BY <1>1, <1>2, <1>3, <1>4, <1>5, <1>6, <1>7

\* Control that leaves a call leaves nothing behind to be typed.
LEMMA LeaveTypes ==
    ASSUME TypeInv, NEW p \in Pids, NEW label \in {"poll", "dead", "select"}, Leave(p, label)
    PROVE  /\ proc' \in [Pids -> Procs]
           /\ job' \in [Pids -> Runs \cup {NoRun}]
           /\ verdict' \in [Pids -> {"none", "completed", "failed", "cancelled"}]
           /\ Held'
BY DEF TypeInv, TypeOK, Held, Leave, Goto, Procs, Executing

\* It changes nothing of the other workers.
LEMMA LeaveMoves ==
    ASSUME TypeInv, NEW p \in Pids, NEW label, Leave(p, label)
    PROVE  /\ proc'[p] = label
           /\ \A q \in Pids \ {p} : proc'[q] = proc[q] /\ job'[q] = job[q]
BY DEF TypeInv, TypeOK, Leave, Goto

\* So do the background upsert and the failures.
LEMMA FaultTypes ==
    ASSUME TypeInv,
           \/ \E t \in tasks : PersistRun(t) \/ PersistFails(t)
           \/ \E p \in Pids : Crash(p) \/ RestartTask(p) \/ TransactionFails(p)
    PROVE  TypeInv'
<1> USE DEF TypeInv, rows, workers, requests, Fault
<1>1. ASSUME NEW t \in tasks, PersistRun(t) PROVE TypeInv'
  BY <1>1 DEF PersistRun, Task, TypeOK, Held, Statuses, Terminal
<1>2. ASSUME NEW t \in tasks, PersistFails(t) PROVE TypeInv'
  BY <1>2 DEF PersistFails, TypeOK, Held
<1>3. ASSUME NEW p \in Pids, Crash(p) PROVE TypeInv'
  <2>1. Held' /\ TypeOK'
    BY <1>3, LeaveTypes DEF Crash, TypeOK
  <2> QED
    BY <2>1
<1>4. ASSUME NEW p \in Pids, RestartTask(p) PROVE TypeInv'
  <2>1. abandoned' \subseteq Runs
    BY <1>4 DEF RestartTask, Own, TypeOK
  <2>2. Held' /\ TypeOK'
    BY <1>4, <2>1, LeaveTypes DEF RestartTask, TypeOK
  <2> QED
    BY <2>2
<1>5. ASSUME NEW p \in Pids, TransactionFails(p) PROVE TypeInv'
  <2>1. abandoned' \subseteq Runs
    BY <1>5 DEF TransactionFails, Own, Orphaned, TypeOK, Held, Executing
  <2>2. Held' /\ TypeOK'
    BY <1>5, <2>1, LeaveTypes DEF TransactionFails, TypeOK
  <2> QED
    BY <2>2
<1> QED
  BY <1>1, <1>2, <1>3, <1>4, <1>5

\* TypeInv is inductive.
LEMMA TypeStep == TypeInv /\ [Next]_vars => TypeInv'
<1> SUFFICES ASSUME TypeInv, [Next]_vars PROVE TypeInv'
  OBVIOUS
<1>1. CASE EnqueueRun
  <2>1. 1 \in Runs
    BY <1>1 DEF EnqueueRun, TypeInv, TypeOK, Runs
  <2> QED
    BY <1>1, <2>1, ApiTypes
<1>2. ASSUME NEW n \in Runs, RequestCancelRead(n) \/ RequestCancelCommit(n)
                               \/ DeleteRunRead(n) \/ DeleteRunCommit(n)
      PROVE  TypeInv'
  BY <1>2, ApiTypes
<1>3. ASSUME NEW p \in Pids, \/ StartWorker(p) \/ WorkerStep(p) \/ ProbeReplay(p)
                             \/ PollEmptyQueue(p) \/ ClaimFails(p) \/ FallbackClaimFails(p)
      PROVE  TypeInv'
  BY <1>3, ClaimTypes, JobTypes DEF WorkerStep
<1>4. ASSUME \/ \E t \in tasks : PersistRun(t) \/ PersistFails(t)
             \/ \E p \in Pids : Crash(p) \/ RestartTask(p) \/ TransactionFails(p)
      PROVE  TypeInv'
  BY <1>4, FaultTypes
<1>5. CASE UNCHANGED vars
  BY <1>5 DEF vars, TypeInv, TypeOK, Held
<1> QED
  BY <1>1, <1>2, <1>3, <1>4, <1>5 DEF Next

\* The queue's variables keep their types and every row a worker touches
\* exists as a key, whatever fails.
THEOREM QueueTypeInv == Spec => []TypeInv
<1>1. Init => TypeInv
  BY DEF Init, TypeInv, TypeOK, Held, Statuses, Terminal, Procs, Executing, NoRun, Runs
<1> QED
  BY <1>1, TypeStep, PTL DEF Spec

\* Type correctness of the queue, for every kind of failure.
THEOREM QueueTypeCorrect == Spec => []TypeOK
BY QueueTypeInv, PTL DEF TypeInv

(***************************************************************************)
(* Mutual exclusion of the workers although they die: what it rests on     *)
(* beside SKIP LOCKED.  No claim falls back to the non-locking one, none   *)
(* outlives the 24 hour cap, and no two orphan recoveries overlap.         *)
(***************************************************************************)

\* Only an enqueued run has a row, and only it is worked on.
Enqueued == /\ \A n \in Runs : n > enqueued => status[n] = "absent"
            /\ \A t \in tasks : t.run <= enqueued

\* A worker in run_job has taken its run out of the queue, no other worker is
\* in run_job with it and nobody else has claimed its row.
Taken == \A p \in Pids : proc[p] \in Executing =>
            /\ job[p] <= enqueued /\ status[job[p]] # "queued"
            /\ claimer[job[p]] \in {p, NoPid}
            /\ \A q \in Pids : q # p /\ proc[q] \in Executing => job[q] # job[p]

\* What an orphan recovery has selected is still nobody's when it writes.
Unclaimed(n) == /\ n <= enqueued /\ status[n] # "queued"
                /\ \A p \in Pids : proc[p] \in Executing => job[p] # n

RecoveriesAlone == \A r \in Pids :
    /\ proc[r] \notin {"fallback", "claim"}
    /\ proc[r] # "requeue" => orphans[r] = {}
    /\ \A n \in orphans[r] : Unclaimed(n)
    /\ proc[r] \in {"select", "requeue"}
         => \A q \in Pids \ {r} : proc[q] \notin {"select", "requeue"}

ExclusionInv == TypeInv /\ Taken /\ RecoveriesAlone /\ Enqueued

\* A row is left as it is, or is written and stays out of the queue.
StaysOut(n) == status'[n] = status[n] \/ (status[n] # "absent" /\ status'[n] # "queued")

\* A worker that leaves the call it is in keeps ExclusionInv, whether it polls
\* again, dies or starts its recovery with nobody beside it.
LEMMA ExclusionLeaves ==
    ASSUME ExclusionInv, TypeInv', NEW p \in Pids, NEW label \in {"poll", "dead", "select"},
           Leave(p, label), label = "select" => StartsAlone,
           orphans'[p] = {}, \A q \in Pids \ {p} : orphans'[q] = orphans[q],
           UNCHANGED <<claimer, enqueued>>, tasks' \subseteq tasks,
           \A n \in Runs : StaysOut(n)
    PROVE  ExclusionInv'
<1>1. /\ proc'[p] = label
      /\ \A q \in Pids \ {p} : proc'[q] = proc[q] /\ job'[q] = job[q]
  BY LeaveMoves DEF ExclusionInv
<1>2. \A q \in Pids : proc'[q] \in Executing => q # p /\ proc[q] \in Executing /\ job'[q] = job[q]
  BY <1>1 DEF Executing
<1>3. \A q \in Pids : proc[q] \in Executing => job[q] \in Runs
  BY DEF ExclusionInv, TypeInv, Held
<1>4. Taken'
  BY <1>2, <1>3 DEF ExclusionInv, Taken, StaysOut
<1>5. \A n \in Runs : Unclaimed(n) => Unclaimed(n)'
  BY <1>2 DEF Unclaimed, StaysOut
<1>6. \A q \in Pids : orphans[q] \subseteq Runs
  BY DEF ExclusionInv, TypeInv, TypeOK
<1>7. \A q \in Pids : \A n \in orphans'[q] : Unclaimed(n)'
  BY <1>5, <1>6 DEF ExclusionInv, RecoveriesAlone
<1>8. ASSUME NEW q \in Pids, proc'[q] \in {"select", "requeue"}, NEW o \in Pids \ {q},
             proc'[o] \in {"select", "requeue"}
      PROVE  FALSE
  <2>1. CASE q # p /\ o # p
    BY <1>1, <1>8, <2>1 DEF ExclusionInv, RecoveriesAlone
  <2>2. CASE (q = p \/ o = p) /\ proc[p] = "select"
    BY <1>1, <1>8, <2>2 DEF ExclusionInv, RecoveriesAlone
  <2>3. CASE (q = p \/ o = p) /\ proc[p] # "select"
    <3>1. label = "select"
      BY <1>1, <1>8, <2>3
    <3> QED
      BY <1>1, <1>8, <2>3, <3>1 DEF StartsAlone
  <2> QED
    BY <2>1, <2>2, <2>3
<1>9. RecoveriesAlone'
  BY <1>1, <1>7, <1>8 DEF ExclusionInv, RecoveriesAlone
<1>10. Enqueued'
  <2>1. \A n \in Runs : n > enqueued => status'[n] = "absent"
    BY DEF ExclusionInv, Enqueued, StaysOut
  <2> QED
    BY <2>1 DEF ExclusionInv, Enqueued
<1> QED
  BY <1>4, <1>9, <1>10 DEF ExclusionInv

\* With these kinds of failure, every step that starts no recovery beside
\* another one keeps ExclusionInv.
LEMMA ExclusionStep ==
    ASSUME Faults \subseteq {"crash", "taskCancel", "db"}, ExclusionInv, [Next]_vars, StartsAlone
    PROVE  ExclusionInv'
<1> USE DEF ExclusionInv
<1>0. TypeInv'
  BY TypeStep
<1>6. ASSUME UNCHANGED vars PROVE ExclusionInv'
  <2>1. Taken' /\ Enqueued'
    BY <1>6 DEF vars, rows, workers, Taken, Enqueued
  <2>2. RecoveriesAlone'
    BY <1>6 DEF vars, rows, workers, RecoveriesAlone, Unclaimed
  <2> QED
    BY <1>0, <2>1, <2>2
<1>8. ASSUME NEW p \in Pids, FinalWrite(p) PROVE ExclusionInv'
  <2>1. orphans[p] = {} /\ verdict[p] # "queued" /\ job[p] \in Runs
    BY <1>8 DEF FinalWrite, RecoveriesAlone, TypeInv, TypeOK, Held, Executing
  <2>2. \A n \in Runs : StaysOut(n)
    BY <1>8, <2>1 DEF FinalWrite, StaysOut, Exists, TypeInv, TypeOK
  <2> QED
    BY <1>0, <1>8, <2>1, <2>2, ExclusionLeaves DEF FinalWrite
<1>9. ASSUME NEW p \in Pids, LoadRow(p) \/ Crash(p) \/ RestartTask(p) \/ TransactionFails(p)
      PROVE  ExclusionInv'
  <2>1. \A n \in Runs : StaysOut(n)
    BY <1>9 DEF LoadRow, Crash, RestartTask, TransactionFails, StaysOut, rows
  <2>2. orphans \in [Pids -> SUBSET Runs]
    BY DEF TypeInv, TypeOK
  <2>3. CASE LoadRow(p) /\ status[job[p]] = "running"
    <3>1. proc' = [proc EXCEPT ![p] = "discover"] /\ proc[p] = "load"
      BY <2>3 DEF LoadRow, Goto
    <3>2. UNCHANGED <<rows, job, orphans, tasks>>
      BY <2>3 DEF LoadRow
    <3> QED
      BY <1>0, <3>1, <3>2 DEF Taken, RecoveriesAlone, Unclaimed, Enqueued, Executing, rows,
                              TypeInv, TypeOK
  <2>4. CASE LoadRow(p) /\ status[job[p]] # "running"
    <3>1. orphans[p] = {}
      BY <2>4 DEF LoadRow, RecoveriesAlone
    <3> QED
      BY <1>0, <2>1, <2>4, <3>1, ExclusionLeaves DEF LoadRow, rows
  <2>5. CASE Crash(p)
    BY <1>0, <2>1, <2>2, <2>5, ExclusionLeaves DEF Crash, rows
  <2>6. CASE RestartTask(p)
    BY <1>0, <2>1, <2>2, <2>6, ExclusionLeaves DEF RestartTask, rows
  <2>7. CASE TransactionFails(p)
    BY <1>0, <2>1, <2>2, <2>7, ExclusionLeaves DEF TransactionFails, rows
  <2> QED
    BY <1>9, <2>3, <2>4, <2>5, <2>6, <2>7
<1> USE DEF TypeInv, TypeOK, Held, Taken, RecoveriesAlone, Unclaimed, Enqueued, Executing, Runs,
            Task, rows, workers, requests, Goto, NoRun
<1>1. CASE EnqueueRun
  BY <1>0, <1>1 DEF EnqueueRun
<1>2. ASSUME NEW n \in Runs, \/ RequestCancelRead(n) \/ RequestCancelCommit(n)
                             \/ DeleteRunRead(n) \/ DeleteRunCommit(n)
      PROVE  ExclusionInv'
  <2>1. CASE RequestCancelRead(n)
    BY <1>0, <2>1 DEF RequestCancelRead
  <2>2. CASE RequestCancelCommit(n)
    BY <1>0, <2>2 DEF RequestCancelCommit, Exists
  <2>3. CASE DeleteRunRead(n)
    BY <1>0, <2>3 DEF DeleteRunRead
  <2>4. CASE DeleteRunCommit(n)
    BY <1>0, <2>4 DEF DeleteRunCommit
  <2> QED
    BY <1>2, <2>1, <2>2, <2>3, <2>4
<1>3. ASSUME NEW p \in Pids, \/ StartWorker(p) \/ SelectOrphans(p) \/ RequeueOrphans(p)
                             \/ ClaimNextQueuedRun(p) \/ PollEmptyQueue(p) \/ ClaimFails(p)
                             \/ FallbackClaimRead(p) \/ FallbackClaimWrite(p)
                             \/ FallbackClaimFails(p)
      PROVE  ExclusionInv'
  <2>1. CASE StartWorker(p)
    BY <1>0, <2>1 DEF StartWorker, StartsAlone
  <2>2. CASE SelectOrphans(p)
    <3>1. orphans' = [orphans EXCEPT ![p] = Orphaned(p)]
      BY <2>2 DEF SelectOrphans
    <3>2. ASSUME NEW n \in Orphaned(p) PROVE Unclaimed(n)
      <4>1. n \in Runs /\ status[n] = "running" /\ claimer[n] \in Pids
            /\ proc[claimer[n]] \in {"unborn", "dead"}
        BY DEF Orphaned, Alive
      <4>2. n <= enqueued
        BY <4>1
      <4>3. ASSUME NEW q \in Pids, proc[q] \in Executing, job[q] = n PROVE FALSE
        BY <4>1, <4>3
      <4> QED
        BY <4>1, <4>2, <4>3
    <3>3. \A n \in Runs : Unclaimed(n) => Unclaimed(n)'
      BY <2>2 DEF SelectOrphans
    <3>4. RecoveriesAlone'
      BY <2>2, <3>1, <3>2, <3>3 DEF SelectOrphans, Orphaned
    <3>5. Taken' /\ Enqueued'
      BY <2>2 DEF SelectOrphans
    <3> QED
      BY <1>0, <3>4, <3>5
  <2>3. CASE RequeueOrphans(p)
    <3>1. proc[p] = "requeue" /\ proc' = [proc EXCEPT ![p] = "poll"] /\ job' = job
          /\ orphans' = [orphans EXCEPT ![p] = {}] /\ enqueued' = enqueued /\ tasks' = tasks
      BY <2>3 DEF RequeueOrphans
    <3>2. \A n \in Runs : n \notin orphans[p] => status'[n] = status[n] /\ claimer'[n] = claimer[n]
      BY <2>3 DEF RequeueOrphans
    <3>3. \A n \in Runs : status[n] = "absent" => status'[n] = "absent"
      BY <2>3 DEF RequeueOrphans, Exists
    <3>4. \A q \in Pids : orphans'[q] = {}
      BY <3>1
    <3>5. RecoveriesAlone'
      BY <3>1, <3>4
    <3>6. Taken'
      BY <3>1, <3>2
    <3>7. Enqueued'
      BY <3>1, <3>3
    <3> QED
      BY <1>0, <3>5, <3>6, <3>7
  <2>4. CASE ClaimNextQueuedRun(p)
    <3>1. PICK n \in Runs : /\ status[n] = "queued"
                           /\ status' = [status EXCEPT ![n] = "running"]
                           /\ claimer' = [claimer EXCEPT ![n] = p]
                           /\ job' = [job EXCEPT ![p] = n]
      BY <2>4 DEF ClaimNextQueuedRun, Claim, OldestQueued
    <3>2. /\ proc[p] = "poll" /\ proc' = [proc EXCEPT ![p] = "load"]
          /\ UNCHANGED <<enqueued, orphans, tasks>>
      BY <2>4 DEF ClaimNextQueuedRun
    <3>3. Taken'
      BY <3>1, <3>2
    <3>4. \A m \in Runs : Unclaimed(m) => Unclaimed(m)'
      BY <3>1, <3>2
    <3>5. RecoveriesAlone'
      BY <3>2, <3>4
    <3>6. Enqueued'
      BY <3>1, <3>2
    <3> QED
      BY <1>0, <3>3, <3>5, <3>6
  <2>5. CASE PollEmptyQueue(p)
    BY <1>6, <2>5 DEF PollEmptyQueue
  <2>6. /\ ~ClaimFails(p) /\ ~FallbackClaimRead(p)
        /\ ~FallbackClaimWrite(p) /\ ~FallbackClaimFails(p)
    BY DEF ClaimFails, FallbackClaimRead, FallbackClaimWrite, FallbackClaimFails, Fault
  <2> QED
    BY <1>3, <2>1, <2>2, <2>3, <2>4, <2>5, <2>6
<1>4. ASSUME NEW p \in Pids, \/ ProbeDiscovery(p) \/ StartReplay(p) \/ ProbeReplay(p)
                             \/ EngineRaises(p) \/ \E ok \in BOOLEAN : EngineReturns(p, ok)
      PROVE  ExclusionInv'
  <2>1. CASE ProbeDiscovery(p)
    BY <1>0, <2>1 DEF ProbeDiscovery
  <2>2. CASE StartReplay(p)
    BY <1>0, <2>2 DEF StartReplay
  <2>3. CASE ProbeReplay(p)
    BY <1>6, <2>3 DEF ProbeReplay
  <2>4. CASE EngineRaises(p)
    BY <1>0, <2>4 DEF EngineRaises
  <2>5. ASSUME NEW ok \in BOOLEAN, EngineReturns(p, ok) PROVE ExclusionInv'
    BY <1>0, <2>5 DEF EngineReturns
  <2> QED
    BY <1>4, <2>1, <2>2, <2>3, <2>4, <2>5
<1>5. ASSUME NEW t \in tasks, PersistRun(t) \/ PersistFails(t) PROVE ExclusionInv'
  <2>1. CASE PersistRun(t)
    BY <1>0, <2>1 DEF PersistRun
  <2>2. CASE PersistFails(t)
    BY <1>0, <2>2 DEF PersistFails
  <2> QED
    BY <1>5, <2>1, <2>2
<1> QED
  BY <1>1, <1>2, <1>3, <1>4, <1>5, <1>6, <1>8, <1>9 DEF Next, WorkerStep

\* Workers that poll independently never execute the same run, however many
\* there are, however often they die, are respawned or fail to write, as long
\* as the locking claim does not fall back, no claim outlives the cap and no
\* two of them are in the orphan recovery at once.
THEOREM WorkersExclude ==
    ASSUME Faults \subseteq {"crash", "taskCancel", "db"}
    PROVE  Spec /\ [][StartsAlone]_vars => []SingleExecutor
<1>1. Init => ExclusionInv
  BY DEF Init, ExclusionInv, TypeInv, TypeOK, Held, Taken, RecoveriesAlone, Unclaimed, Enqueued,
         Statuses, Terminal, Procs, Executing, NoRun, Runs
<1>2. ExclusionInv /\ [Next]_vars /\ [StartsAlone]_vars => ExclusionInv'
  <2>1. UNCHANGED vars => StartsAlone
    BY DEF vars, StartsAlone
  <2> QED
    BY <2>1, ExclusionStep
<1>3. ExclusionInv => SingleExecutor
  BY DEF ExclusionInv, Taken, SingleExecutor
<1> QED
  BY <1>1, <1>2, <1>3, PTL DEF Spec

(***************************************************************************)
(* No row is left running unnoticed.                                       *)
(***************************************************************************)

\* Every step keeps the executor of a running row or gives the row up, however
\* many workers there are.
LEMMA ExecutorStep ==
    ASSUME TypeInv, RunningHasExecutor, [Next]_vars
    PROVE  RunningHasExecutor'
<1> USE DEF TypeInv, TypeOK, Held, RunningHasExecutor, Executing, rows, workers, requests, Goto,
            Leave
<1>1. CASE EnqueueRun
  BY <1>1 DEF EnqueueRun
<1>2. ASSUME NEW n \in Runs, \/ RequestCancelRead(n) \/ RequestCancelCommit(n)
                             \/ DeleteRunRead(n) \/ DeleteRunCommit(n)
      PROVE  RunningHasExecutor'
  BY <1>2 DEF RequestCancelRead, RequestCancelCommit, DeleteRunRead, DeleteRunCommit
<1>3. ASSUME NEW p \in Pids, \/ StartWorker(p) \/ SelectOrphans(p) \/ RequeueOrphans(p)
                             \/ ClaimNextQueuedRun(p) \/ PollEmptyQueue(p) \/ ClaimFails(p)
                             \/ FallbackClaimRead(p) \/ FallbackClaimWrite(p)
                             \/ FallbackClaimFails(p)
      PROVE  RunningHasExecutor'
  <2>1. CASE StartWorker(p)
    BY <2>1 DEF StartWorker
  <2>2. CASE SelectOrphans(p)
    BY <2>2 DEF SelectOrphans
  <2>3. CASE RequeueOrphans(p)
    BY <2>3 DEF RequeueOrphans
  <2>4. CASE ClaimNextQueuedRun(p)
    BY <2>4 DEF ClaimNextQueuedRun, Claim
  <2>5. CASE PollEmptyQueue(p)
    BY <2>5 DEF PollEmptyQueue, vars
  <2>6. CASE FallbackClaimRead(p)
    BY <2>6 DEF FallbackClaimRead
  <2>7. CASE FallbackClaimWrite(p)
    BY <2>7 DEF FallbackClaimWrite, Claim
  <2>8. CASE ClaimFails(p)
    BY <2>8 DEF ClaimFails, Claim
  <2>9. CASE FallbackClaimFails(p)
    BY <2>9 DEF FallbackClaimFails, Claim
  <2> QED
    BY <1>3, <2>1, <2>2, <2>3, <2>4, <2>5, <2>6, <2>7, <2>8, <2>9
<1>4. ASSUME NEW p \in Pids, \/ LoadRow(p) \/ ProbeDiscovery(p) \/ StartReplay(p)
                             \/ ProbeReplay(p) \/ EngineRaises(p) \/ FinalWrite(p)
                             \/ \E ok \in BOOLEAN : EngineReturns(p, ok)
      PROVE  RunningHasExecutor'
  <2>1. CASE LoadRow(p)
    BY <2>1 DEF LoadRow
  <2>2. CASE ProbeDiscovery(p) \/ StartReplay(p) \/ EngineRaises(p)
    BY <2>2 DEF ProbeDiscovery, StartReplay, EngineRaises
  <2>3. CASE ProbeReplay(p)
    BY <2>3 DEF ProbeReplay, vars
  <2>4. CASE FinalWrite(p)
    BY <2>4 DEF FinalWrite, Exists
  <2>5. ASSUME NEW ok \in BOOLEAN, EngineReturns(p, ok) PROVE RunningHasExecutor'
    BY <2>5 DEF EngineReturns
  <2> QED
    BY <1>4, <2>1, <2>2, <2>3, <2>4, <2>5
<1>5. ASSUME NEW t \in tasks, PersistRun(t) \/ PersistFails(t) PROVE RunningHasExecutor'
  BY <1>5 DEF PersistRun, PersistFails, Task
<1>6. ASSUME NEW p \in Pids, Crash(p) \/ RestartTask(p) \/ TransactionFails(p)
      PROVE  RunningHasExecutor'
  <2>1. CASE Crash(p)
    BY <2>1 DEF Crash
  <2>2. CASE RestartTask(p)
    <3>1. /\ proc'[p] = "select" /\ \A q \in Pids \ {p} : proc'[q] = proc[q] /\ job'[q] = job[q]
          /\ UNCHANGED <<status, claimer>>
      BY <2>2, LeaveMoves DEF RestartTask
    <3>2. abandoned \subseteq abandoned'
          /\ Own(p) \subseteq abandoned'
      BY <2>2 DEF RestartTask
    <3>3. proc[p] # "dead"
      BY <2>2 DEF RestartTask, Alive
    <3> QED
      BY <3>1, <3>2, <3>3 DEF Own
  <2>3. CASE TransactionFails(p)
    BY <2>3 DEF TransactionFails, Own
  <2> QED
    BY <1>6, <2>1, <2>2, <2>3
<1>7. CASE UNCHANGED vars
  BY <1>7 DEF vars
<1> QED
  BY <1>1, <1>2, <1>3, <1>4, <1>5, <1>6, <1>7 DEF Next, WorkerStep

\* The claimer of a running row is executing it or is dead, or an error made a
\* worker give the row up: whatever fails, however many workers there are.
THEOREM RunningIsExecuted == Spec => []RunningHasExecutor
<1>1. Init => RunningHasExecutor
  BY DEF Init, RunningHasExecutor
<1>2. TypeInv /\ RunningHasExecutor /\ [Next]_vars => RunningHasExecutor'
  BY ExecutorStep
<1> QED
  BY <1>1, <1>2, QueueTypeInv, PTL DEF Spec

(***************************************************************************)
(* A run that has an outcome is not executed again.                        *)
(***************************************************************************)

HasOutcome(n) == status[n] \in {"completed", "failed", "ok"}

OneAlive == \A p, q \in Pids : Alive(p) /\ Alive(q) => p = q

\* A background upsert belongs to the one live worker, which is past its
\* orphan recovery, and its run is not in the queue nor about to be claimed.
TasksOfLive == \A t \in tasks :
    /\ proc[t.pid] \in Executing \cup {"poll", "fallback", "claim"}
    /\ status[t.run] # "queued"
    /\ proc[t.pid] = "claim" => job[t.pid] # t.run

\* What was read before the requeue, or before the non-locking claim, has not
\* got an outcome since.
ReadingsUnfinished == \A p \in Pids :
    /\ proc[p] = "requeue" => \A n \in orphans[p] : ~HasOutcome(n)
    /\ proc[p] = "claim" => ~HasOutcome(job[p])
    /\ proc[p] \in Executing \cup {"claim"} => job[p] <= enqueued
    /\ proc[p] \in Executing => status[job[p]] # "queued"

OutcomeInv == TypeInv /\ OneAlive /\ Enqueued /\ TasksOfLive /\ ReadingsUnfinished

\* The same said of the one live worker.
LiveFits(p) ==
    /\ \A t \in tasks : /\ t.pid = p /\ t.run \in Runs /\ t.run <= enqueued
                        /\ proc[p] \in Executing \cup {"poll", "fallback", "claim"}
                        /\ status[t.run] # "queued"
                        /\ proc[p] = "claim" => job[p] # t.run
    /\ proc[p] = "requeue" => \A n \in orphans[p] : ~HasOutcome(n)
    /\ proc[p] = "claim" => ~HasOutcome(job[p])
    /\ proc[p] \in Executing \cup {"claim"} => job[p] \in Runs /\ job[p] <= enqueued
    /\ proc[p] \in Executing => status[job[p]] # "queued"

\* Beside a live worker there are only processes that have not started or are
\* dead, and the background upserts are its own.
LEMMA OthersDown ==
    ASSUME OutcomeInv, NEW p \in Pids, Alive(p)
    PROVE  LiveFits(p) /\ \A q \in Pids \ {p} : proc[q] \in {"unborn", "dead"}
<1>1. \A q \in Pids \ {p} : proc[q] \in {"unborn", "dead"}
  BY DEF OutcomeInv, OneAlive, Alive
<1>2. \A t \in tasks : t.pid \in Pids /\ t.run \in Runs /\ proc[t.pid] \notin {"unborn", "dead"}
  BY DEF OutcomeInv, TypeInv, TypeOK, Task, TasksOfLive, Executing
<1>3. \A t \in tasks : t.pid = p
  BY <1>1, <1>2
<1>4. proc[p] \in Executing \cup {"claim"} => job[p] \in Runs
  BY DEF OutcomeInv, TypeInv, Held
<1>5. LiveFits(p)
  BY <1>2, <1>3, <1>4 DEF LiveFits, OutcomeInv, TasksOfLive, ReadingsUnfinished, Enqueued
<1> QED
  BY <1>1, <1>5

\* A step that moves the one live worker keeps OutcomeInv if it keeps LiveFits
\* of it and enqueues nothing.
LEMMA LiveMoves ==
    ASSUME OutcomeInv, TypeInv', NEW p \in Pids, Alive(p),
           \A q \in Pids \ {p} : proc'[q] = proc[q], enqueued' = enqueued,
           \A n \in Runs : n > enqueued /\ status[n] = "absent" => status'[n] = "absent",
           LiveFits(p)'
    PROVE  OutcomeInv'
<1>1. \A q \in Pids \ {p} : proc'[q] \in {"unborn", "dead"}
  BY OthersDown
<1>2. OneAlive'
  BY <1>1 DEF OneAlive, Alive
<1>6. \A n \in Runs : n > enqueued => status'[n] = "absent"
  BY DEF OutcomeInv, Enqueued
<1>7. ASSUME NEW t \in tasks'
      PROVE  /\ t.pid = p /\ t.run <= enqueued
             /\ proc'[p] \in Executing \cup {"poll", "fallback", "claim"}
             /\ status'[t.run] # "queued"
             /\ proc'[p] = "claim" => job'[p] # t.run
  BY DEF LiveFits
<1>3. Enqueued'
  BY <1>6, <1>7 DEF Enqueued
<1>4. TasksOfLive'
  BY <1>7 DEF TasksOfLive
<1>5. ReadingsUnfinished'
  BY <1>1 DEF ReadingsUnfinished, LiveFits, Executing
<1> QED
  BY <1>2, <1>3, <1>4, <1>5 DEF OutcomeInv

\* A worker that starts is alone.
LEMMA StartsWithNobody ==
    ASSUME MaxAlive <= 1, NEW p \in Pids, StartWorker(p)
    PROVE  \A q \in Pids : ~Alive(q)
<1> DEFINE live == {q \in Pids : Alive(q)}
<1>1. IsFiniteSet(live) /\ Cardinality(live) \in Nat
  BY FS_Subset, FS_CardinalityType
<1>2. Cardinality(live) = 0
  BY <1>1 DEF StartWorker
<1>3. live = {}
  BY <1>1, <1>2, FS_EmptySet
<1> QED
  BY <1>3

\* The startup and the claims of the one live worker keep LiveFits.
LEMMA ClaimFits ==
    ASSUME TypeInv, NEW p \in Pids, LiveFits(p),
           \/ SelectOrphans(p) \/ RequeueOrphans(p) \/ ClaimNextQueuedRun(p) \/ ClaimFails(p)
           \/ FallbackClaimRead(p) \/ FallbackClaimWrite(p) \/ FallbackClaimFails(p),
           Enqueued
    PROVE  LiveFits(p)'
<1> USE DEF LiveFits, HasOutcome, Executing, rows, workers, requests, Goto
<1>0. TypeOK
  BY DEF TypeInv
<1>1. CASE SelectOrphans(p)
  BY <1>0, <1>1 DEF SelectOrphans, Orphaned, TypeOK
<1>2. CASE RequeueOrphans(p)
  BY <1>0, <1>2 DEF RequeueOrphans, TypeOK
<1>3. CASE ClaimNextQueuedRun(p)
  <2>1. PICK n \in Runs : OldestQueued(n) /\ Claim(p, n) /\ job' = [job EXCEPT ![p] = n]
    BY <1>3 DEF ClaimNextQueuedRun
  <2>2. n <= enqueued
    BY <1>0, <2>1 DEF OldestQueued, Enqueued, TypeOK, Runs
  <2>3. job'[p] = n /\ proc'[p] = "load" /\ tasks' = tasks /\ enqueued' = enqueued
        /\ proc[p] = "poll"
    BY <1>0, <1>3, <2>1 DEF ClaimNextQueuedRun, TypeOK
  <2>4. status'[n] = "running" /\ \A k \in Runs \ {n} : status'[k] = status[k]
    BY <1>0, <2>1 DEF Claim, TypeOK
  <2> QED
    BY <2>2, <2>3, <2>4
<1>4. CASE ClaimFails(p)
  <2>1. \A n \in Runs : status'[n] = status[n] \/ status'[n] = "running"
    BY <1>0, <1>4 DEF ClaimFails, Claim, TypeOK
  <2>2. /\ proc[p] = "poll" /\ proc'[p] \in {"fallback", "poll"}
        /\ tasks' = tasks /\ enqueued' = enqueued
    BY <1>0, <1>4 DEF ClaimFails, TypeOK
  <2> QED
    BY <2>1, <2>2
<1>5. CASE FallbackClaimRead(p)
  <2>1. /\ proc[p] = "fallback" /\ UNCHANGED <<status, tasks, enqueued>>
    BY <1>5 DEF FallbackClaimRead
  <2>2. CASE \A n \in Runs : status[n] # "queued"
    <3>1. proc'[p] = "poll"
      BY <1>0, <1>5, <2>2 DEF FallbackClaimRead, OldestQueued, TypeOK
    <3> QED
      BY <2>1, <3>1
  <2>3. CASE \E n \in Runs : status[n] = "queued"
    <3>1. PICK n \in Runs : OldestQueued(n) /\ job' = [job EXCEPT ![p] = n]
      BY <1>5, <2>3 DEF FallbackClaimRead
    <3>2. proc'[p] = "claim" /\ job'[p] = n /\ status[n] = "queued"
      BY <1>0, <1>5, <2>3, <3>1 DEF FallbackClaimRead, OldestQueued, TypeOK
    <3>4. n \in Nat /\ enqueued \in Nat /\ ~(n > enqueued)
      BY <1>0, <3>2 DEF Enqueued, TypeOK, Runs
    <3>3. n <= enqueued
      BY <3>4
    <3> QED
      BY <2>1, <3>2, <3>3
  <2> QED
    BY <2>2, <2>3
<1>6. CASE FallbackClaimWrite(p)
  <2>1. /\ proc[p] = "claim" /\ UNCHANGED <<tasks, enqueued>>
    BY <1>6 DEF FallbackClaimWrite
  <2>2. CASE Exists(job[p])
    <3>1. proc'[p] = "load" /\ job' = job /\ Claim(p, job[p])
      BY <1>0, <1>6, <2>2 DEF FallbackClaimWrite, TypeOK
    <3>2. status'[job[p]] = "running" /\ \A k \in Runs \ {job[p]} : status'[k] = status[k]
      BY <1>0, <2>1, <3>1 DEF Claim, TypeOK
    <3> QED
      BY <2>1, <3>1, <3>2
  <2>3. CASE ~Exists(job[p])
    <3>1. proc'[p] = "poll" /\ status' = status
      BY <1>6, <2>3, LeaveMoves DEF FallbackClaimWrite
    <3> QED
      BY <2>1, <3>1
  <2> QED
    BY <2>2, <2>3
<1>7. CASE FallbackClaimFails(p)
  <2>1. /\ proc[p] \in {"fallback", "claim"} /\ UNCHANGED <<tasks, enqueued>>
    BY <1>7 DEF FallbackClaimFails
  <2>2. \A n \in Runs : status'[n] = status[n] \/ status'[n] = "running"
    BY <1>0, <1>7 DEF FallbackClaimFails, Claim, TypeOK
  <2>3. proc'[p] = "poll"
    BY <1>7, LeaveMoves DEF FallbackClaimFails
  <2> QED
    BY <2>1, <2>2, <2>3
<1> QED
  BY <1>1, <1>2, <1>3, <1>4, <1>5, <1>6, <1>7

\* So do run_job and the failures of the one live worker, which is not
\* respawned.
LEMMA JobFits ==
    ASSUME TypeInv, NEW p \in Pids, LiveFits(p),
           \/ LoadRow(p) \/ ProbeDiscovery(p) \/ StartReplay(p) \/ EngineRaises(p) \/ FinalWrite(p)
           \/ \E ok \in BOOLEAN : EngineReturns(p, ok)
           \/ Crash(p) \/ TransactionFails(p)
    PROVE  LiveFits(p)'
<1> USE DEF LiveFits, HasOutcome, Executing, rows, workers, requests, Goto
<1>0. TypeOK
  BY DEF TypeInv
<1>1. CASE LoadRow(p)
  <2>1. proc[p] = "load" /\ UNCHANGED <<status, tasks, enqueued>>
    BY <1>1 DEF LoadRow
  <2>2. (proc'[p] = "discover" /\ job' = job) \/ proc'[p] = "poll"
    BY <1>0, <1>1, LeaveMoves DEF LoadRow, TypeOK
  <2> QED
    BY <2>1, <2>2
<1>2. CASE ProbeDiscovery(p) \/ StartReplay(p) \/ EngineRaises(p)
  BY <1>0, <1>2 DEF ProbeDiscovery, StartReplay, EngineRaises, TypeOK
<1>3. CASE FinalWrite(p)
  <2>1. proc[p] = "final" /\ UNCHANGED <<tasks, enqueued>>
    BY <1>3 DEF FinalWrite
  <2>2. \A n \in Runs : status'[n] = status[n] \/ status'[n] # "queued"
    BY <1>0, <1>3 DEF FinalWrite, TypeOK
  <2>3. proc'[p] = "poll"
    BY <1>3, LeaveMoves DEF FinalWrite
  <2> QED
    BY <2>1, <2>2, <2>3
<1>4. ASSUME NEW ok \in BOOLEAN, EngineReturns(p, ok) PROVE LiveFits(p)'
  BY <1>0, <1>4 DEF EngineReturns, TypeOK
<1>5. CASE Crash(p)
  <2>1. proc'[p] = "dead"
    BY <1>5, LeaveMoves DEF Crash
  <2>3. \A t \in tasks : t.pid = p
    BY DEF LiveFits
  <2>2. \A t \in tasks' : FALSE
    BY <1>5, <2>3 DEF Crash
  <2> QED
    BY <2>1, <2>2
<1>6. CASE TransactionFails(p)
  <2>1. proc'[p] = "poll" /\ UNCHANGED <<status, tasks, enqueued>>
    BY <1>6, LeaveMoves DEF TransactionFails
  <2> QED
    BY <2>1
<1> QED
  BY <1>1, <1>2, <1>3, <1>4, <1>5, <1>6

\* With one worker at a time, whose loop is not respawned, every step keeps
\* OutcomeInv.
LEMMA OutcomeStep ==
    ASSUME MaxAlive <= 1, "taskCancel" \notin Faults, OutcomeInv, [Next]_vars
    PROVE  OutcomeInv'
<1>0. TypeInv' /\ TypeInv /\ Enqueued
  BY TypeStep DEF OutcomeInv
<1>1. CASE EnqueueRun
  BY <1>0, <1>1 DEF EnqueueRun, OutcomeInv, TypeInv, TypeOK, Held, OneAlive, Alive, Enqueued,
                    TasksOfLive, ReadingsUnfinished, HasOutcome, Executing, Runs, Task, workers
<1>2. ASSUME NEW n \in Runs, \/ RequestCancelRead(n) \/ RequestCancelCommit(n)
                             \/ DeleteRunRead(n) \/ DeleteRunCommit(n)
      PROVE  OutcomeInv'
  <2>1. UNCHANGED <<proc, job, orphans, tasks, enqueued>>
    BY <1>2 DEF RequestCancelRead, RequestCancelCommit, DeleteRunRead, DeleteRunCommit,
                rows, workers
  <2>2. \A k \in Runs : \/ status'[k] = status[k]
                        \/ status'[k] = "absent"
                        \/ status[k] # "absent" /\ status'[k] = "cancelled"
    BY <1>0, <1>2 DEF RequestCancelRead, RequestCancelCommit, DeleteRunRead, DeleteRunCommit,
                      rows, Exists, TypeInv, TypeOK
  <2>3. OneAlive' /\ Enqueued'
    BY <1>0, <2>1, <2>2 DEF OutcomeInv, OneAlive, Alive, Enqueued
  <2>4. TasksOfLive'
    BY <1>0, <2>1, <2>2 DEF OutcomeInv, TasksOfLive, TypeInv, TypeOK, Task
  <2>5. ReadingsUnfinished'
    BY <1>0, <2>1, <2>2 DEF OutcomeInv, ReadingsUnfinished, HasOutcome, TypeInv, TypeOK, Held
  <2> QED
    BY <1>0, <2>3, <2>4, <2>5 DEF OutcomeInv
<1>3. ASSUME NEW p \in Pids, StartWorker(p) PROVE OutcomeInv'
  <2>1. \A q \in Pids : proc[q] \in {"unborn", "dead"}
    BY <1>3, StartsWithNobody DEF Alive
  <2>2. tasks = {}
    BY <1>0, <2>1 DEF OutcomeInv, TasksOfLive, TypeInv, TypeOK, Task, Executing
  <2>3. /\ proc' = [proc EXCEPT ![p] = "select"]
        /\ UNCHANGED <<status, enqueued, job, orphans, tasks>>
    BY <1>3 DEF StartWorker, Goto, rows
  <2>4. proc'[p] = "select" /\ \A q \in Pids \ {p} : proc'[q] = proc[q]
    BY <1>0, <2>3 DEF TypeInv, TypeOK
  <2>5. OneAlive' /\ Enqueued' /\ TasksOfLive'
    BY <1>0, <2>1, <2>2, <2>3, <2>4 DEF OneAlive, Alive, Enqueued, TasksOfLive
  <2>6. ReadingsUnfinished'
    BY <2>1, <2>4 DEF ReadingsUnfinished, Executing
  <2> QED
    BY <1>0, <2>5, <2>6 DEF OutcomeInv
<1>4. ASSUME NEW p \in Pids,
             \/ SelectOrphans(p) \/ RequeueOrphans(p) \/ ClaimNextQueuedRun(p) \/ ClaimFails(p)
             \/ FallbackClaimRead(p) \/ FallbackClaimWrite(p) \/ FallbackClaimFails(p)
      PROVE  OutcomeInv'
  <2>1. Alive(p) /\ enqueued' = enqueued
    BY <1>4 DEF SelectOrphans, RequeueOrphans, ClaimNextQueuedRun, ClaimFails, FallbackClaimRead,
                FallbackClaimWrite, FallbackClaimFails, Alive, rows
  <2>2. \A q \in Pids \ {p} : proc'[q] = proc[q]
    BY <1>0, <1>4, LeaveMoves
       DEF SelectOrphans, RequeueOrphans, ClaimNextQueuedRun, ClaimFails, FallbackClaimRead,
           FallbackClaimWrite, FallbackClaimFails, Goto, TypeInv, TypeOK
  <2>3. \A n \in Runs : status[n] = "absent" => status'[n] = "absent"
    BY <1>0, <1>4 DEF SelectOrphans, RequeueOrphans, ClaimNextQueuedRun, ClaimFails,
                FallbackClaimRead, FallbackClaimWrite, FallbackClaimFails, Claim, OldestQueued,
                Exists, rows, TypeInv, TypeOK
  <2>4. LiveFits(p)'
    BY <1>0, <1>4, <2>1, OthersDown, ClaimFits
  <2> QED
    BY <1>0, <2>1, <2>2, <2>3, <2>4, LiveMoves
<1>5. ASSUME NEW p \in Pids,
             \/ LoadRow(p) \/ ProbeDiscovery(p) \/ StartReplay(p) \/ EngineRaises(p)
             \/ FinalWrite(p) \/ \E ok \in BOOLEAN : EngineReturns(p, ok)
             \/ Crash(p) \/ TransactionFails(p)
      PROVE  OutcomeInv'
  <2>1. Alive(p) /\ enqueued' = enqueued
    BY <1>5 DEF LoadRow, ProbeDiscovery, StartReplay, EngineRaises, FinalWrite, EngineReturns,
                Crash, TransactionFails, Alive, rows
  <2>2. \A q \in Pids \ {p} : proc'[q] = proc[q]
    BY <1>0, <1>5, LeaveMoves
       DEF LoadRow, ProbeDiscovery, StartReplay, EngineRaises, FinalWrite, EngineReturns,
           Crash, TransactionFails, Goto, TypeInv, TypeOK
  <2>3. \A n \in Runs : status[n] = "absent" => status'[n] = "absent"
    BY <1>0, <1>5 DEF LoadRow, ProbeDiscovery, StartReplay, EngineRaises, FinalWrite,
                EngineReturns, Crash, TransactionFails, Exists, rows, TypeInv, TypeOK
  <2>4. LiveFits(p)'
    BY <1>0, <1>5, <2>1, OthersDown, JobFits
  <2> QED
    BY <1>0, <2>1, <2>2, <2>3, <2>4, LiveMoves
<1>6. ASSUME NEW t \in tasks, PersistRun(t) \/ PersistFails(t) PROVE OutcomeInv'
  <2>1. t.pid \in Pids /\ t.run \in Runs
    BY <1>0 DEF TypeInv, TypeOK, Task
  <2>2. PICK p \in Pids : p = t.pid
    BY <2>1
  <2>3. Alive(p)
    BY <2>2 DEF OutcomeInv, TasksOfLive, Alive, Executing
  <2>4. LiveFits(p)
    BY <2>3, OthersDown
  <2>5. /\ UNCHANGED <<proc, job, orphans, enqueued>> /\ tasks' \subseteq tasks
        /\ \A n \in Runs : \/ status'[n] = status[n]
                           \/ n = t.run /\ status'[n] \in {"ok", "failed"}
    BY <1>0, <1>6 DEF PersistRun, PersistFails, rows, workers, TypeInv, TypeOK
  <2>10. /\ proc[p] \in Executing \cup {"poll", "fallback", "claim"}
         /\ proc[p] = "claim" => job[p] # t.run
    BY <2>4 DEF LiveFits
  <2>11. \A u \in tasks' : u \in tasks /\ status'[u.run] # "queued"
    BY <2>4, <2>5 DEF LiveFits
  <2>12. proc[p] = "claim" => ~HasOutcome(job[p])'
    BY <2>4, <2>5, <2>10 DEF LiveFits, HasOutcome
  <2>13. proc[p] \in Executing => status'[job[p]] # "queued"
    BY <2>4, <2>5 DEF LiveFits
  <2>6. LiveFits(p)'
    BY <2>4, <2>5, <2>10, <2>11, <2>12, <2>13 DEF LiveFits, Executing
  <2>7. t.run <= enqueued
    BY <1>0 DEF Enqueued
  <2>8. enqueued \in Nat
    BY <1>0 DEF TypeInv, TypeOK
  <2>9. \A n \in Runs : n > enqueued /\ status[n] = "absent" => status'[n] = "absent"
    BY <2>1, <2>5, <2>7, <2>8 DEF Runs
  <2> QED
    BY <1>0, <2>3, <2>5, <2>6, <2>9, LiveMoves
<1>7. ASSUME \/ UNCHANGED vars
             \/ \E p \in Pids : ProbeReplay(p) \/ PollEmptyQueue(p)
      PROVE  OutcomeInv'
  <2>1. UNCHANGED vars
    BY <1>7 DEF ProbeReplay, PollEmptyQueue
  <2> QED
    BY <1>0, <2>1 DEF vars, OutcomeInv, OneAlive, Alive, Enqueued, TasksOfLive,
                      ReadingsUnfinished, HasOutcome
<1>8. \A p \in Pids : ~RestartTask(p)
  BY DEF RestartTask, Fault
<1> QED
  BY <1>1, <1>2, <1>3, <1>4, <1>5, <1>6, <1>7, <1>8 DEF Next, WorkerStep

\* No step puts a run with an outcome back in the queue, as long as every
\* requeued and every re-claimed row was read without one and did not get one
\* since.
LEMMA OutcomeKept ==
    ASSUME TypeInv, Enqueued, [Next]_vars, NEW n \in Runs, HasOutcome(n),
           \A p \in Pids : /\ proc[p] = "requeue" => n \notin orphans[p]
                           /\ proc[p] = "claim" => job[p] # n
    PROVE  status'[n] \notin {"queued", "running"}
<1> USE DEF TypeInv, TypeOK, Held, Enqueued, HasOutcome, Executing, Runs, Task, Exists,
            rows, workers, requests
<1>1. CASE EnqueueRun
  BY <1>1 DEF EnqueueRun
<1>2. ASSUME NEW m \in Runs, \/ RequestCancelRead(m) \/ RequestCancelCommit(m)
                             \/ DeleteRunRead(m) \/ DeleteRunCommit(m)
      PROVE  status'[n] \notin {"queued", "running"}
  BY <1>2 DEF RequestCancelRead, RequestCancelCommit, DeleteRunRead, DeleteRunCommit
<1>3. ASSUME NEW p \in Pids, \/ RequeueOrphans(p) \/ ClaimNextQueuedRun(p) \/ ClaimFails(p)
                             \/ FallbackClaimWrite(p) \/ FallbackClaimFails(p)
      PROVE  status'[n] \notin {"queued", "running"}
  BY <1>3 DEF RequeueOrphans, ClaimNextQueuedRun, ClaimFails, Claim, OldestQueued,
              FallbackClaimWrite, FallbackClaimFails
<1>4. ASSUME NEW p \in Pids, FinalWrite(p)
      PROVE  status'[n] \notin {"queued", "running"}
  BY <1>4 DEF FinalWrite
<1>5. ASSUME NEW t \in tasks, PersistRun(t)
      PROVE  status'[n] \notin {"queued", "running"}
  BY <1>5 DEF PersistRun
<1>6. ASSUME \/ UNCHANGED vars
             \/ \E p \in Pids : \/ StartWorker(p) \/ SelectOrphans(p) \/ PollEmptyQueue(p)
                                \/ FallbackClaimRead(p) \/ LoadRow(p) \/ ProbeDiscovery(p)
                                \/ StartReplay(p) \/ ProbeReplay(p) \/ EngineRaises(p)
                                \/ Crash(p) \/ RestartTask(p) \/ TransactionFails(p)
                                \/ \E ok \in BOOLEAN : EngineReturns(p, ok)
             \/ \E t \in tasks : PersistFails(t)
      PROVE  status'[n] \notin {"queued", "running"}
  <2>1. UNCHANGED status
    BY <1>6 DEF vars, StartWorker, SelectOrphans, PollEmptyQueue, FallbackClaimRead, LoadRow,
                ProbeDiscovery, StartReplay, ProbeReplay, EngineRaises, Crash, RestartTask,
                TransactionFails, EngineReturns, PersistFails
  <2> QED
    BY <2>1
<1> QED
  BY <1>1, <1>2, <1>3, <1>4, <1>5, <1>6 DEF Next, WorkerStep

\* A finished run is never executed again while one worker at a time is alive
\* and its loop is not respawned: whatever crashes, falls back, outlives the
\* cap or fails to write.
THEOREM FinishedStaysFinished ==
    ASSUME MaxAlive <= 1, "taskCancel" \notin Faults
    PROVE  Spec => FinishedNeverRequeued
<1>1. Init => OutcomeInv
  BY DEF Init, OutcomeInv, TypeInv, TypeOK, Held, OneAlive, Alive, Enqueued, TasksOfLive,
         ReadingsUnfinished, Statuses, Terminal, Procs, Executing, NoRun, Runs
<1>2. OutcomeInv /\ [Next]_vars => OutcomeInv'
  BY OutcomeStep
<1>3. OutcomeInv /\ [Next]_vars
        => [\A n \in Runs : status[n] \in {"completed", "failed", "ok"}
              => status'[n] \notin {"queued", "running"}]_vars
  BY OutcomeKept DEF OutcomeInv, ReadingsUnfinished, HasOutcome
<1> QED
  BY <1>1, <1>2, <1>3, PTL DEF Spec, FinishedNeverRequeued
=============================================================================
