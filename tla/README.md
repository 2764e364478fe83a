# Verification of the EvoSport research workbench

The repository is a Homerun trading platform (FastAPI back end, worker
processes, PostgreSQL, a React front end) extended by EvoSport, a research
layer that freezes football data, replays a strategy on it and publishes
tamper-evident evidence. This directory holds TLA+ models of the parts whose
correctness depends on crashes, overlapping processes and the order of writes to
several stores, the TLC configurations that check them, and TLAPS proofs.

`PROJECT.json` maps every definition to the source lines it models and lists
the components, hazards, runs, mutants, findings and theorems.

## 1. Inventory

| component | state | operations | interacts with |
|---|---|---|---|
| experiment runner (`evosport/experiments/runner.py`) | staging directories, `RUNS/<fingerprint>/`, a lock file | look up, adopt an orphan, replay, stage, rename, hash, register, reconcile, clean up | registry table, catalog rows, gateway |
| publication registry (`registry.py`, `models.py`) | one row per fingerprint | get by fingerprint, insert | runner |
| football binding (`semantics/football_binding.py`) | none; reads catalog and settlement | read the execution identity, validate evidence | runner, settlement store |
| backtest job queue (`services/backtest/job_runner.py`, `workers/backtest_worker.py`) | `backtest_runs` rows | enqueue, claim, cancel, requeue orphans, run, final write | API, workers, unified runner |
| run endpoints (`api/routes_backtest.py`) | the same rows | cancel, delete, bulk delete | job queue |
| unified runner | in-memory history, background upserts | replay, progress callback, `_persist_run_to_db` | job queue |
| backtest engine (`engine.py`, `matching_engine.py`, `portfolio.py`, `venue_model.py`) | orders, residual books, indexes, cash, positions | submit, cancel, advance, settle, mark, close | unified runner |
| intent journal (`trader_orchestrator/intent_journal.py`) | append-only file, in-memory index | record intent, record result, load, compact | fast submission |
| fast submission (`fast_submit.py`, `fast_trader_runtime.py`, `reconcile_orphaned_fast_submissions`) | order rows, hot state, journal, the venue's order | submit, persist, close, recover, reconcile | journal, venue, database |
| live execution service (`live_execution_service.py`) | collateral keeper, balance cache, daily volume, order objects | gate, reserve, place with retries, cancel, snapshot, reconcile | venue, wallet, `order_manager` |
| position lifecycle and exit risk loop (`position_lifecycle.py`, `exit_risk_loop.py`) | `trader_orders` rows with their `pending_live_exit` | fire, retry, requote, block, close, write back | venue, wallet, ledger, three loops in two processes |
| session layer (`models/database.py`) | connection, transaction | shielded execute and commit, drain, commit retry | everybody |
| dataset freeze (`evosport/data/freeze.py`) | snapshot directory, manifest, lock | stage, verify, publish, materialize | settlement store |
| settlement semantics and store | settlement rows | settle a market, upsert | binding |
| market data plane, recorded event bus | segments, pins, event log | append, pin, prune, replay | backtests |
| the rest (scanner, strategies, news, weather, AI, feeds, front end, launcher) | - | data collection, network adapters, presentation | - |

What is hard in this code:

* **Two stores, one fact.** A file tree and a row (publication), a journal and a
  row (fast path), a row and an in-memory result (queue). Each pair is written
  in two steps and a process may die in between.
* **Processes that do not know of each other.** Two runs of one fingerprint, two
  workers at the queue, the API against a worker, a sweep against a live
  submission.
* **Ambiguous outcomes.** A commit whose reply is lost or that lands late, an
  order request that timed out, a shielded commit whose caller was cancelled.
* **Read, decide, write by key.** Cancel, delete, orphan recovery and the
  fallback claim write what they decided from an earlier reading; the loops that
  manage a position do it with whole rows, across calls to the venue.
* **Counters and indexes kept by hand.** Active orders per token, the working
  list, the collateral reserved, the retry and failure streaks: each is updated
  on many paths, and an error shows much later.

What makes each part correct:

* publication: one fingerprint has at most one registered evidence, every
  successful run answers with it, evidence produced on drifted values is never
  published, a published tree is never replaced, and crashes do not block later
  runs for ever;
* queue: no run is executed by two workers, a running row belongs to somebody, a
  finished run stays finished, every queued run ends (section 4 says where the
  first of these fails);
* fast path: an order at the venue is never forgotten, an open intent survives
  every restart, every orphan is resolved;
* backtest engine: an order trades within its size, its limit and its lifetime,
  takers do not draw the same liquidity twice, cash and positions add up, no
  shortcut of the replay delays an order, a resolved market is settled;
* collateral keeper: what it offers returns to what the wallet has, the daily
  volume counts no order that was not sent, a taker is not bought twice;
* exits: a position is closed only on evidence that it was sold (section 4 says
  where this fails), and no exit claims more than was sold.

## 2. Modules

| module | what it is |
|---|---|
| `WriteOnceEvidence` | abstract specification: a cell written at most once, which every answer reads |
| `EvidencePublication` | the runner, the artifact directory, the lock, the registry and the catalog; implements `WriteOnceEvidence` |
| `EvidencePublicationProofs` | inductive invariant, safety theorems and the refinement proof |
| `BacktestJobQueue` | API, workers, orphan recovery, background upserts over the queue rows |
| `BacktestJobQueueProofs` | types, mutual exclusion, executors of running rows, finished runs stay finished |
| `FastSubmission` | submission coroutine, journal file and index, recovery and reconciliation sweep, venue |
| `FastSubmissionProofs` | inductive invariants and theorems of the fast path |
| `MatchingEngine` | the order book and the life of an order in a backtest |
| `BacktestRun` | the replay loop and the portfolio; composes `MatchingEngine` (EXTENDS it, and its actions are steps of the loop) |
| `CollateralKeeper` | `place_order` and everything that moves the keeper's view of the wallet |
| `LiveExit` | the exit of one live position by three loops over one row |
| `SumTheorems` | facts about `SumFunctionOnSet` that the next four modules cite |
| `MatchingEngineProofs` | types, the two indexes, outcomes, limits, lifetimes and shared liquidity |
| `BacktestRunProofs` | types, positions, books, settlement and admission of the whole replay; uses the step lemmas of `MatchingEngineProofs` |
| `CollateralKeeperProofs` | types, the wallet is not overdrawn, volume, takers |
| `LiveExitProofs` | types, fills are not overstated |
| `MC...` | the modules TLC runs: symmetry sets, books, requests, intents |

### EvidencePublication

One fingerprint, any number of `Runners` (processes that call
`ExperimentRunner.run` for it). `pc[r]` is the place in `run`; `ev`, `sha`,
`owned` and `before` are its locals: the evidence it carries, the hashes it will
register, whether it created the directory, and the identity read before the
gateway. The disk is `dirEv`/`dirState` (the tree at the artifact path: sealed,
made writable, or emptied by a cleanup), `staging` and `lock`. `registry` is the
row (`run` is `homerun_run_id`, `sha` the two hashes), `inflight` the commits
whose client is gone. `current` is the catalog identity that other programs
change at any time. A piece of evidence is one gateway result: rendering,
canonical JSON and hashing are represented by which result it is, and
`PackageVerifies` accepts exactly a complete tree. `usedId` and `maker` are
history variables: the identity a result was computed on, and who made it.

Every system call that another process can see is a step: lookup, probe,
verification, the two identity readings, the replay, staging, `open(O_EXCL)` of
the lock, the existence test, the rename, unlinking the lock, hashing, the
INSERT, the reconciliation lookup and the three stages of the cleanup. Failures
are separate actions limited by `MaxFaults`: a killed process, an I/O error, a
gateway error, a failed INSERT (with no effect, with its effect, or with a
commit that lands later).

### BacktestJobQueue

Runs are numbered in the order they are enqueued. `status`, `cancelReq` and
`claimer` are columns; `proc[p]` is where worker process `p` is and `Host[p]` the
machine it runs on, the first half of `worker_id`: the orphan recovery looks at
rows of its own host only. Transactions that write what they read earlier
without a lock or a condition are two steps: `request_cancel`, the deletes,
`requeue_orphaned_runs` and the fallback claim. The locking claim is one step,
because `FOR UPDATE SKIP LOCKED` inside one UPDATE makes it one; any exception
of it (`ClaimFails`, the claim made or not) leads to the fallback, as in the
code. `tasks` are the fire-and-forget upserts. `abandoned` is a history
variable: running rows that a worker gave up on after a database error. A process
starts at most once with its pid; a restart inside the process is `RestartTask`.

The fault kinds are `crash`, `taskCancel` (the loop is respawned in the same
process), `claim` (a database error in the claim), `db` (one in any other
transaction of a worker) and `overrun` (a claim older than 24 hours).

### FastSubmission

One trader in live mode. `log` is the readable part of the journal file,
`synced` how much of it is on stable storage, `torn` that the file ends in a
partial line; `index` is the journal's memory. `stage[s]` is the place of the
coroutine of signal `s`; `own[s]` the row it inserts, `rec[s]` the recovery row
`fastjrnl-<trader>-<signal>`, `venue[s]` what the venue holds of its latest
order. `fate` is a history variable: the last thing written to the journal for a
signal, whether or not it survives. Adding a record, updating the index and a
compaction that follows are one step, because the journal call is synchronous on
the event loop. A kill keeps the page cache; a power loss keeps any prefix of
`log` from `synced` on, or brings back the file that the last compaction replaced
(`older`): the directory is not synced after `os.replace`. `older` is forgotten
at the next fsync, because a journalling file system (ext4, XFS) commits the
rename with it; on a file system that does not, the rename could be undone later.
A request whose caller gave up is `"flying"`, and `LandsLate` lets the venue take
it at any later time, or never.

Abstractions to know of: `RecoverIntent` reads the existing row and adds the
recovery row in one step; the journal's size threshold is a number of records
(`CompactAt`); errors of the journal file itself are not steps; a leg reported
`cancelled` is filed like a failed one, since neither is active; the sweep may
leave any eligible row for later, which stands for its 30 second age test.

### MatchingEngine and BacktestRun

`advance_to` is one synchronous call that loops over due cancels, pending orders,
working orders and price levels. Each iteration is an action in the order of the
code, `phase` says which loop runs and `todo` what it has left; a client acts
between two calls only. `used` is the residual book, `queue` an order's place
behind the displayed size, `cap` the limit the fill model draws for a snapshot.
Prices are ticks, requested prices half ticks (so that rounding happens), queue
positions hundredths of a share. `drawn` is a history variable: what orders
really took from each level shown.

`BacktestRun` adds cash, positions, the pending intents and the loop of
`engine.py`: settle what is due, skip the snapshot if nothing depends on its
token, submit the intents that are due, advance, book the fills, mark, ask for
exits, and close everything at the end. Money is half ticks times shares.
`openFees`, `bought`, `overclosed` and `marked` are history variables.

### CollateralKeeper

Every coroutine step from one await to the next is an action: the gate, the
reservation, the post, each possible answer, a cancelled task, `cancel_order`,
the snapshots and the three stages of the reconciler. The venue decides each
post by itself, so a transport error may leave an order there; copy `k` of an
order is its `k`-th post. `keeper` holds the last reading of the chain and the
sum reserved, `cached` the balance cache that gates may use instead.

The venue has its own view of the wallet, resting orders deducted (`Free`), and
refuses for want of balance, for a signature or a crossed price, or for another
reason (`Refusals`); the first two are retried as the code retries them
(`RetryRefused`), and the attempts they share with the transport retries may run
out (`AttemptsRunOut`). What `get_balance` reads (`Available`) is the deposit less
what was traded: resting orders are not deducted from it. Its minimum with the
allowance is the balance, as the allowance is taken to be unlimited. A venue that
does not know an order any more answers nothing, and the snapshot is synthesized
(`SnapshotNotFound`).

A release adjusts keeper and counter and then waits for the state to be persisted
(the place `closing`); a cancellation that arrives there makes the release a
second time. The locks of a release are taken to be free: the stats lock is held
over an await only by a refused order that queues for the keeper lock, and the
keeper lock only while the keeper is bootstrapped, when no order holds a keeper
reservation. Cancels that the
exchange has acknowledged and not applied are counted per order (`cancelling`),
which allows more of them than the handlers send.

### LiveExit

`row` is the `TraderOrder` reduced to what an exit needs: open or not, the
`pending_live_exit` record and the size closed. `pass[a]` is what loop `a` holds:
the copy of the row it read, the order it is about to place and where it is. A
loop reads and decides in one step (`TradingPass`, `ColdPass`, `RiskSweep`), then
cancels, places and writes in steps of their own; `Stored` says which columns a
write replaces. `WithoutOrders` is the cold plane's rule: it places nothing and
puts back the exit it had read. `AfterOrder` includes the effect of
`release_conn` on the row of the risk loop.

Nothing is assumed of what the data API shows of the wallet: `seen` may be any
size at first and after a `WalletBlip`, and a pass finds a row of the token, rows
of other tokens only, or no rows (`Readings`). The ledger has booked any part of
what was sold. A snapshot of an exit order may be missing, and then the status
and the fills of the record are used. An order trades at once, in part, later or
never (`Accept`, `Fill`, `Drop`), an immediate order may find nothing to match
(`UnmatchedExit`), and the venue refuses to sell shares that a working order has
claimed (`FreeShares`). Failures may happen any number of times. Cooldowns and
ages are a matter of waiting and are choices. Sizes are whole shares, so the
tolerances of the code (0.5 shares, 0.5 percent) mean all of a small position.

## 3. Runs

All bounds are constants of the modules. Failures are bounded by `MaxFaults`,
never by leaving a kind of failure out, unless the question of the run says so.

| run | result | bounds | question |
|---|---|---|---|
| `publication` | holds | 2 runners, 3 results, 2 identities, 2 failures of any kind | write-once refinement, `ReturnedIsRegistered`, `FreshEvidenceKept`, `OnlyValidEvidence`, `DirectoryNeverReplaced`, `OnlyMakerRemoves` |
| `publication_recovery` | holds | 2 runners, 4 results, 2 crashes or I/O errors | `CrashRecovery` (liveness) |
| `publication_overlap` | violated | 1 failed INSERT | `RegisteredEvidencePresent` |
| `queue_shared` | holds | 1 run, 3 processes of which 2 live at once, 1 failure of any kind | `RunningHasExecutor`, `EveryRunFinishes` (liveness) |
| `queue_claims` | violated | 2 runs, 2 workers, 1 error of a locking claim | `SingleExecutor` |
| `fast_submit` | holds | 2 signals, compaction at 3 records, 1 failure of any kind but a torn write | `OpenIntentRemembered`, `VenueOrderTracked`, `OrphansResolved` (liveness) |
| `fast_handover` | violated | 2 signals, kills and wire failures | `RecoveredHasRow` |
| `backtest_orders` | holds | 2 orders out of 6 requests, 3 prices, 4 books, latencies 0 and 2, 4 time steps | indexes, `OutcomeMatchesFills`, `TakersShareLiquidity`, `LimitRespected`, `FillsInsideLifetime`, `EndedStaysEnded` |
| `backtest_run` | holds | 2 tokens, 2 entry intents and the exits they lead to (4 orders), 4 time steps, one market that resolves | `BooksBalance`, `PositionsAreNetFills`, `AdmittedOnTime`, `ResolvedIsSettled` |
| `keeper` | holds | a post-only order and a taker that `order_manager` gates, against a wallet and a daily cap of 2, 1 cancel, 1 transport retry, 1 failure | `NoPhantomVolume`, `TakerBoughtOnce`, `KeeperConverges` (liveness) |
| `exit` | holds | 2 shares, 2 orders, passes of 2 loops at once, failures of every kind, any number of them | `FillsNotOverstated` |
| `exit_wallet` | violated | 2 shares, one pass at a time, venue errors and readings with gaps | `ClosedOnEvidence` |

Why the bounds are enough: the protocols are symmetric in runners, workers and
signals, and every interaction in the code is between two of them (two runs of a
fingerprint, two claims, a sweep and a submission). Two failures let a failure
meet the recovery from another one; three results let an orphan, a retry and a
competitor exist at once. `CompactAt = 3` makes compactions happen
before, between and after both signals. Two orders compete for one level, rest
behind each other and end in either order; a third adds no new pair. Two shares
are the smallest position that can be sold in part, and two orders the smallest
number that lets a requote, or a second exit beside the first, exist. Two loops
are enough for a copy to go stale while another loop orders or writes; races of
all three at once are not checked.
The ceilings of the exit are 1 to 3 where the code has 3 to 100: each of them
is reached in the runs, by failures and by orders that were refused. `exit` has
immediate orders only (`Triggers`): what such an order may do at the venue
(`Accept`, `Drop`) includes all that a resting one may, and more. `queue_shared`
has one run, for which the workers and the API compete; that the claim picks the
oldest of several runs matters to `queue_claims` only.
`backtest_orders`, `backtest_run`, `exit` and `exit_wallet` do not check deadlock,
because a replay and a closed position are over. Every safety property of the passing
runs is also proved for all values of the constants (section 5).

Liveness is checked under the `FairSpec` of each module:

* publication: every process keeps running and is started again when it ends,
  because the operator retries a run, and a lock file no live run holds is
  removed by hand, as the warning of `_release_publication_lock` asks. Failures
  are not fair, and the run leaves out failed INSERTs: a half-finished cleanup
  blocks the fingerprint on purpose.
* queue: a live worker makes progress (`start_loop` never waits for another
  worker) and dead workers are replaced; no fairness for the API. A run that a
  worker gave up on after a database error is excepted (`abandoned`): it waits for
  a restart after the process died, or for 24 hours.
* fast path: the event loop runs every coroutine that can run, the supervisor
  sweeps every 60 seconds, and a dead process is started again. Strong fairness
  of a sweep that decides every eligible row stands for the rows growing older
  than 30 seconds. The venue's answers and all failures are not fair.
* keeper: coroutines run on and the venue answers a post (one weak fairness for
  all of them, `Advance`, is enough, as every call takes finitely many steps), the
  reconciler's loop never ends and the balance cache expires. Orders and cancels
  are not fair.
* exits: no liveness. Nothing in the code makes an exit end: a requoted order is
  not touched again after `max_reprice_attempts` (`position_lifecycle.py:9398`)
  and trades only if the market wants it, and the gate that loads the wallet's
  history in the cold pass looks at `updated_at`, which every moved mark renews
  (7166-7206, 8383-8398). A fairness that closes these gaps would be the
  property itself.

## 4. What the violated runs show

* `publication_overlap`: `_cleanup_owned_directory` runs after a lookup and
  outside the publication lock. Between the lookup and the cleanup another run
  can adopt and register the same directory; the cleanup then removes registered
  evidence.
* `fast_handover`: the recovery closes the intent in the journal before it
  commits the recovery row.
* `queue_claims`: any exception of the locking claim, a database error or a lost
  commit reply included, is swallowed, and the same call claims again without a
  lock and writes by key. The run it has read may be claimed by another worker in
  between, and both execute it. The docstrings of `claim_next_queued_run` and of
  the worker call the claim mutually exclusive and the fallback one for tests.
* `exit_wallet`: an exit whose placement failed has no venue id; if the data API
  then shows the wallet's other tokens but not this one, the row is closed as
  absent although nothing was sold. The comment above the condition
  (`position_lifecycle.py:8645-8651`) says that a missing row is no authority to
  close, and describes a guard of 120 seconds that the condition does not have.

Other disagreements between the code and its texts are behaviours of the models
and have no run of their own; the properties are stated so that they hold beside
them, and the hazards name the lines.

* publication: the orphan branch verifies a directory and hashes it later, by
  path; if the tree is replaced in between, the row names one run and the hashes
  of another.
* queue: two workers that start together both select the orphan of a dead one,
  and the slower one requeues it after the faster one has claimed it, so that it
  is executed twice (`WorkersExclude` assumes that workers start one at a time);
  the same happens when a claim outlives the 24 hours; `BacktestEngine.run` catches
  every exception of the progress callback, `BacktestCancelled` included, so a
  cancel seen during the replay has no effect; a run claimed between the read and
  the commit of `request_cancel` executes although its row says cancelled; a
  deleted run comes back when its background upsert runs late. A worker with the
  pid of its predecessor does not requeue what that one left.
* fast path: `load` skips a partial last line but does not remove it, and the next
  intent is appended to it (the fault `"torn"`); the periodic recovery adds a row
  for a submission that is still on the wire; a compacted journal no longer knows
  a signal that was resolved long ago.
* backtest: `can_submit` reserves nothing, so intents that are each affordable can
  together drive cash below zero, although `portfolio.py:12` says that a buy
  reserves its cost; an exit is submitted again while an earlier one is on its
  way, and the later fill exceeds the position (`overclosed`); a resting fill is
  booked at the order's own price, so two resting orders can draw the same level.
* keeper: `_keeper_reconcile_once` settles the reservation of an order that is not
  posted yet, and another caller can reserve the same money until the next
  reading, against `live_execution_service.py:6438-6442`; a BUY that is gated
  after its own reservation needs its notional twice. The submission loop has a
  fixed number of attempts that all kinds of retry share; when the last one ends in
  a retry the loop is left without failing the order, and its volume is never
  given back, against the comment at `live_execution_service.py:5507-5509`
  (`Exhausted` in `NoPhantomVolume`). A task that is cancelled while its release is
  being persisted releases twice, and takes the volume of other orders with it.
* exits: the record that the risk loop sets after its order call is not written,
  because `release_conn` has detached the row (the comment at
  `exit_risk_loop.py:628` says it is); the cold plane writes back an exit record
  that it read before the trading plane placed an order, against
  `position_lifecycle.py:6302-6304`. Both leave an exit order that no row names,
  and a second exit is placed as soon as shares are free. A position that was sold by two
  orders is closed with no profit when only the latest trade is looked at
  (`ExternalFlatten`).

## 5. Proofs

`EvidencePublicationProofs`, for any finite or infinite sets of runners,
results and identities and any failures. None of the properties is inductive:
what a run may do at the artifact path depends on who holds the lock and who made
the tree that is there. The inductive invariant `IInv` adds

* `LockHeld`: a run between acquiring and releasing the lock holds it, so the
  existence test and the rename are one step with respect to other runs;
* `TargetFree`: between the test and the rename the target is absent;
* `Carried`, `InflightValid`: what a run carries, and what is on its way to the
  registry, is evidence that was checked against the manifest;
* `Ownership`, `OwnTree`: a run that owns a tree made it, and until its own
  cleanup the sealed tree is at the path;
* `CachedRow`: a run that takes the cached branch saw a row that is still there.

Theorems: `TypeCorrect`, `ReturnedRegistered`, `OwnEvidenceKept`,
`EvidenceValid`, `NeverReplaced`, `MakerRemoves`, and `Refinement`: the initial
states map to initial states of `WriteOnceEvidence`, and every step maps to a
write, an answer, the end of an answer, or a stutter.

`FastSubmissionProofs`, for any finite set of signals (`SignalsAssumption`; a
compaction lists the open intents). `PathInv` is enough for `FastTypeCorrect`
and `OrderTracked`: a signal whose coroutine is beyond the intent has an order
only in the stages that still close it. `JournalInv` adds that every intent
whose fate is open has a record in the synced prefix of the file with no later
record of its signal behind it (`Durable`), which survives every prefix a power
loss can leave and every compaction. `IntentsRemembered` assumes that no write
is cut short (`"torn" \notin Faults`); with such a write the property fails.
`Durable` says the same of the file that a power loss may bring back.

`BacktestJobQueueProofs`, for any number of runs and any finite set of pids.
What is assumed of the failures is stated in each theorem. The hypotheses are
close to tight: on an instance of one run, three pids and two failures TLC finds
`SingleExecutor` violated with `claim`, with `overrun`, and with `crash` when two
workers start together; and `FinishedNeverRequeued` with a respawned loop and an
overrun.

* `QueueTypeCorrect`: any failures. Needs `Held`: a worker that executes or
  claims has a run in hand.
* `RunningIsExecuted` (`RunningHasExecutor`): any failures, any number of workers
  at once; inductive beside the types.
* `WorkersExclude` (`SingleExecutor`, any number of workers at once): with crashes,
  respawned loops and errors of all transactions but the locking claim
  (`Faults \subseteq {"crash", "taskCancel", "db"}`), in behaviours in which a
  worker starts only while no other one is in its orphan recovery (`StartsAlone`).
  `ExclusionInv` adds `Taken`: the row of an executed run is claimed by its worker
  and is not queued; `RecoveriesAlone`: what the one recovery has selected is
  still unclaimed by anybody alive; `Enqueued`.
* `FinishedStaysFinished` (`FinishedNeverRequeued`; `MaxAlive <= 1`, no respawned
  loop, every other failure). `OutcomeInv` adds that late upserts belong to the
  living worker (`TasksOfLive`) and that what a worker has read and will act on
  has no outcome yet (`ReadingsUnfinished`). No run checks this property.

`SumTheorems`. The models add up money and shares with `SumFunctionOnSet`, a
recursive function on sets. Induction schemes over data cannot be instantiated
here, so the facts (`SumRemove`, `SumChange`, `SumAdd`, `SumMonotone`, `SumZero`)
are proved by a smallest counterexample: the set of sizes at which the statement
fails has a least element (`SmallestNat`, `SmallestSet`), and one element less
gives a contradiction.

`MatchingEngineProofs`, for any tokens, requests, books, latencies and numbers of
orders. `StepInv` says that the iteration of `advance_to` refers to orders and
levels that exist (`WalkKnown`, `TodoKnown`, `SnapshotKnown`) and that the working
list is exact; every step is described once (`Kept`, `Still`, `Sets`: what
happens to an order), and the eight theorems build on these descriptions.
`OutcomesMatchFills` needs that an order that waits has traded nothing, that a
fill-or-kill order never rests, and that one that is being matched is covered by
what is left of its walk (`FokCovered`), which is where the residual book and the
test in `_handle_admit` meet. `FillsWithinLifetime` needs that no cancel is due
once the cancel loop is over (`NothingDue`) and that what is matched has arrived.
`TakersShare` needs that the residual book is what was drawn (`BookedIsDrawn`)
and that a walk holds only what is left (`WalkIsLeft`).

`BacktestRunProofs`, for the whole loop and the portfolio. `LoopInv` is the type
invariant, the engine's `StepInv`, and the agreement of the loop with the
engine. `PositionsNet` and `BooksAlwaysBalance` are inductive beside it
(the latter by `SumChange` over the tokens). `OrdersAdmittedOnTime` needs
`WaitingIsLate`, `IntentsAhead` and `AllAdmitted`: what justifies the shortcut
that skips a snapshot is that the exact counter of active orders is 0.
`ResolvedSettles` needs `SweptIsDue`, `LatePositionsSeen` and `MarkedAtEnd`. A
first form of `SweptIsDue` was not inductive: a market that has resolved before
the first snapshot is not swept while nothing of it is held. The invariant says
so now; the property was not affected.

`CollateralKeeperProofs`, for any orders, costs, deposits, caps and retries.
`KeeperInv` adds `Control` (how many posts a coroutine at each place has made)
and `Affordable`: what the copies of all orders draw from the wallet is at most
the deposit. `TakerOnce` needs `TakerCopies`: a taker is posted again only after
the venue refused the copy before. `VolumeAccounted` is inductive beside
`KeeperInv`.

`LiveExitProofs`, for any position size, number of orders, ceilings, overlapping
passes (all three loops at once included, which the runs do not reach), failures
and readings of the wallet. `FillsNotOverstated` speaks of the row, but what is
written there comes from copies read long before. `ExitInv` therefore says the
same of every copy (`RowFits`, `PassFits`): selling only makes it easier
(`FitsStays`), so a copy never becomes wrong by waiting. `VenueInv` says that each
order's fills were sold, that the history shows no more than was sold, and that
working orders together claim no more than the wallet holds. `Sane` and
`PlanFits` bound the retries: an order is placed only for a record below the hard
ceiling.

Assumptions on the constants are the named `ASSUME`s of the models; TLC evaluates
them on every run. Beyond numbers and types they say that signals, pids, orders
and tokens are finite sets, that the soft ceiling of an exit's retries is below
the hard one, and that the intents of a replay are in the order they were emitted.

Only model-checked: the liveness properties `CrashRecovery`, `EveryRunFinishes`,
`OrphansResolved` and `KeeperConverges` (fairness and ENABLED are
outside the prover). The four violated properties are counterexamples and have no
theorem.

## 6. What is not modelled

* Data without a protocol: scanners, strategies, news, weather and AI services,
  report rendering, the front end, the launcher and the migrations.
* Network adapters to venues and feeds: their behaviour is not in the
  repository; the models represent a venue by what it may answer.
* In the backtest: laddered exits, price impact, metrics, several strategies in
  one run. The queue module keeps a replay as one step.
* In live execution: SELL orders, allowances, signatures, pricing, the session
  engine and the orchestrator's cycle.
* In the exits: laddered and take-profit exits, manual sells, market resolution,
  the audit that reopens terminal rows, prices, the cap on submissions per pass.
* Directory handles, file modes and hash checks inside `runner.py` and
  `freeze.py`: a tree is complete or it is not.
* In the queue: a container that is restarted with the same pid.
* A catalog identity that changes and changes back *between* the two readings is
  modelled (`ChangeIdentity` is enabled during the replay), but not the reading of
  the rows one by one inside one identity check.

## 7. Plan

1. Done: publication with refinement and proofs; job queue; fast submission with
   proofs; backtest engine; collateral keeper; exits of live positions.
2. Done: proofs of every safety and action property that a passing run checks.
   Open: a refinement of the fast path.
3. `RetryableSession`: shielded execute and commit, drain and invalidate, and the
   commit retry of `models/database.py`, against an abstract transaction that
   commits once or reports a failure.
4. `SnapshotFreeze`: staging, publication lock, verification and materialization
   of a dataset snapshot, and the settlement write that follows the manifest.
5. `FootballSettlement`: the settlement rules of totals markets as operators,
   against a reference definition over bounded scores; the settlement store's
   read-then-insert with two writers.
6. Market data pins against pruning; the recorded event bus.
7. Laddered and take-profit exits; the wallet positions of orphan reconciliation;
   refinement of the fast path to an abstract submission that is never lost.
