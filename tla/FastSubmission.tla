--------------------------- MODULE FastSubmission ---------------------------
(***************************************************************************)
(* The fast order path of one trader: `execute_fast_signal` and            *)
(* `recover_open_intents` of services/trader_orchestrator/fast_submit.py,  *)
(* the append-only `IntentJournal` they share (intent_journal.py), and the *)
(* periodic sweep of workers/fast_trader_runtime.py that resolves what a   *)
(* crash or an ambiguous wire failure left behind.                         *)
(*                                                                         *)
(* The intent is fsynced to the journal before the venue is called, the    *)
(* order row is committed after it, and the journal record is closed last. *)
(* One process owns a trader; it may be killed, its machine may lose power *)
(* and it is started again.  A signal may be delivered any number of times.*)
(*                                                                         *)
(* Only live orders are represented: a shadow intent has no venue order to *)
(* lose.  Rows of other writers, and the position lifecycle that later     *)
(* closes an order, are outside the module.                                *)
(***************************************************************************)
EXTENDS Naturals, Sequences, FiniteSets, FiniteSetsExt, SequencesExt

CONSTANTS
    Signals,     \* signals of the trader
    Cap,         \* max_open_orders
    CompactAt,   \* bound: journal length that triggers the compaction
    Faults,      \* kinds of failure that may happen
    MaxFaults    \* bound: how many failures happen in a behaviour

ASSUME SignalsAssumption == IsFiniteSet(Signals)
ASSUME BoundsAssumption ==
    /\ Cap \in Nat \ {0} /\ CompactAt \in Nat \ {0} /\ MaxFaults \in Nat
    /\ Faults \subseteq {"kill", "power", "torn", "wire", "db", "venue"}

VARIABLES
    up,        \* the process runs
    index,     \* journal._index: what it knows of each signal
    stage,     \* per signal: where its execute_fast_signal coroutine is
    hot,       \* signals of the orders counted by hot_state
    sweep,     \* the supervisor's sweep: idle, recovering or reconciling
    booting,   \* it is the startup sweep: no trader task runs yet
    todo,      \* intents of the sweep that are still to be examined
    merged,    \* recovery rows of its open transaction
    log,       \* the readable records of the journal file
    synced,    \* how many of them are on stable storage
    older,     \* contents a power loss may bring back: of the file the last
               \* compaction replaced, while the rename is not durable
    torn,      \* the file ends in a partial line without a newline
    own,       \* per signal: the row execute_fast_signal inserted
    rec,       \* per signal: the recovery row fastjrnl-<trader>-<signal>
    venue,     \* per signal: what the venue holds of its latest order
    fate,      \* history, per signal: the last thing journalled about it
    budget     \* how many failures may still happen

memory == <<index, stage, hot>>
sweeper == <<sweep, booting, todo, merged>>
file == <<log, synced, older, torn>>
rows == <<own, rec>>
vars == <<up, index, stage, hot, sweep, booting, todo, merged,
          log, synced, older, torn, own, rec, venue, fate, budget>>

Record == [k : {"intent", "result"}, sig : Signals]
Intent(s) == [k |-> "intent", sig |-> s]
Result(s) == [k |-> "result", sig |-> s]

Init == /\ up = FALSE
        /\ index = [s \in Signals |-> "none"]
        /\ stage = [s \in Signals |-> "idle"]
        /\ hot = {}
        /\ sweep = "idle" /\ booting = FALSE /\ todo = {} /\ merged = {}
        /\ log = <<>> /\ synced = 0 /\ older = {} /\ torn = FALSE
        /\ own = [s \in Signals |-> "none"]
        /\ rec = [s \in Signals |-> "none"]
        /\ venue = [s \in Signals |-> "none"]
        /\ fate = [s \in Signals |-> "none"]
        /\ budget = MaxFaults

Goto(s, label) == stage' = [stage EXCEPT ![s] = label]
Fault(kind) == kind \in Faults /\ budget > 0 /\ budget' = budget - 1

(***************************************************************************)
(* The journal.                                                            *)
(***************************************************************************)

\* load and _apply_record_locked: the last record of a signal decides.
Loaded(l) ==
    [s \in Signals |->
        LET I == {i \in DOMAIN l : l[i].sig = s}
        IN  IF I = {} THEN "none"
            ELSE IF l[Max(I)].k = "intent" THEN "open" ELSE "done"]

\* has_intent: any record of the signal, open or resolved.
HasIntent(s) == index[s] # "none"

\* open_intents and open_intent_count.
OpenIntents == {s \in Signals : index[s] = "open"}

\* The intents _compact rewrites the file with.
Survivors(ix) == {s \in Signals : ix[s] = "open"}

\* What a power loss may leave of a file: at least its synced records.
Remains(l, n) == {SubSeq(l, 1, i) : i \in n .. Len(l)}

\* A power loss may still happen: when none may, what it could bring back is
\* not kept.
PowerMayFail == "power" \in Faults /\ budget > 0

\* _append, _apply_record_locked and the _compact it may end with.  A record
\* written behind a partial line shares that line and cannot be read back.
\* The directory is not synced after the compaction's rename, so the replaced
\* file may come back until the next fsync, which on a journalling file system
\* commits the rename as well.
AppendRecord(r, fsync) ==
    LET written == IF torn THEN log ELSE Append(log, r)
        ix == [index EXCEPT ![r.sig] = IF r.k = "intent" THEN "open" ELSE "done"]
        kept == SetToSeq({Intent(s) : s \in Survivors(ix)})
        sure == IF fsync THEN Len(written) ELSE synced
    IN  /\ index' = ix
        /\ torn' = FALSE
        /\ IF Len(written) >= CompactAt
           THEN /\ log' = kept /\ synced' = Len(kept)
                /\ older' = IF PowerMayFail THEN Remains(written, sure) ELSE {}
           ELSE /\ log' = written /\ synced' = sure
                /\ older' = IF fsync \/ ~PowerMayFail THEN {} ELSE older

\* Mutant: the intent is not fsynced.
RecordIntentUnsynced(s) ==
    /\ AppendRecord(Intent(s), FALSE)
    /\ fate' = [fate EXCEPT ![s] = "open"]

\* record_intent returns after the fsync.
RecordIntent(s) ==
    /\ AppendRecord(Intent(s), TRUE)
    /\ fate' = [fate EXCEPT ![s] = "open"]

\* record_result does not sync.  The five terminal statuses differ only in who
\* closed the intent: the submission itself or the recovery.
RecordResult(s, closer) ==
    /\ AppendRecord(Result(s), FALSE)
    /\ fate' = [fate EXCEPT ![s] = closer]

(***************************************************************************)
(* execute_fast_signal.                                                    *)
(***************************************************************************)

\* The cap counts open orders and intents in flight.
BelowCap == Cardinality(hot) + Cardinality(OpenIntents) < Cap

\* The critical section: duplicate test, cap, durable intent.
Submit(s) ==
    /\ up /\ ~booting
    /\ stage[s] = "idle"
    /\ ~HasIntent(s) /\ BelowCap
    /\ RecordIntent(s)
    /\ venue' = [venue EXCEPT ![s] = "none"]
    /\ Goto(s, "wire")
    /\ UNCHANGED <<up, hot, sweeper, rows, budget>>

\* The gates of submit_execution_leg reject the leg before it is sent.
SkipLeg(s) ==
    /\ stage[s] = "wire"
    /\ RecordResult(s, "closed")
    /\ Goto(s, "idle")
    /\ UNCHANGED <<up, hot, sweeper, rows, venue, budget>>

\* The order reaches the venue, which may reject it.
Transmit(s) ==
    /\ stage[s] = "wire"
    /\ \E o \in {"none", "filled", "resting"} : venue' = [venue EXCEPT ![s] = o]
    /\ Goto(s, "sent")
    /\ UNCHANGED <<up, index, hot, sweeper, file, rows, fate, budget>>

\* The reply arrives in time.
WireReturns(s) ==
    /\ stage[s] = "sent"
    /\ Goto(s, "persist")
    /\ UNCHANGED <<up, index, hot, sweeper, file, rows, venue, fate, budget>>

\* Nobody waits any more for the orders of S: a request that was on the wire
\* may still arrive, or never.
LeftBehind(S) ==
    venue' = [s \in Signals |-> IF s \in S /\ stage[s] = "wire" THEN "flying" ELSE venue[s]]

\* Timeout, exception or cancellation, before or after the venue has the
\* order: the intent is left open.
WireFails(s) ==
    /\ stage[s] \in {"wire", "sent"}
    /\ Fault("wire")
    /\ LeftBehind({s})
    /\ Goto(s, "idle")
    /\ UNCHANGED <<up, index, hot, sweeper, file, rows, fate>>

\* The venue takes such an order late.
LandsLate(s) ==
    /\ venue[s] = "flying"
    /\ \E o \in {"filled", "resting"} : venue' = [venue EXCEPT ![s] = o]
    /\ UNCHANGED <<up, memory, sweeper, file, rows, fate, budget>>

\* Mutant: the status of the leg is stored as it comes.
LegStatus(s) == CASE venue[s] = "filled" -> "executed"
                  [] venue[s] = "resting" -> "open"
                  [] OTHER -> "failed"

\* The status of the row: a leg that is neither executed nor cancelled is
\* filed as failed.
OrderStatus(s) == IF venue[s] = "filled" THEN "executed" ELSE "failed"

\* The order row is committed.
Persist(s) ==
    /\ stage[s] = "persist"
    /\ own' = [own EXCEPT ![s] = OrderStatus(s)]
    /\ Goto(s, "close")
    /\ UNCHANGED <<up, index, hot, sweeper, file, rec, venue, fate, budget>>

\* Mutant: the failed commit is followed by the normal end of the handler.
PersistFailsAndCloses(s) ==
    /\ stage[s] = "persist"
    /\ Fault("db")
    /\ Goto(s, "close")
    /\ UNCHANGED <<up, index, hot, sweeper, file, rows, venue, fate>>

\* The commit raises, or its task is cancelled while the shielded commit goes
\* on: the row may be there or not, and the intent is left open.
PersistFails(s) ==
    /\ stage[s] = "persist"
    /\ Fault("db")
    /\ own' \in {own, [own EXCEPT ![s] = OrderStatus(s)]}
    /\ Goto(s, "idle")
    /\ UNCHANGED <<up, index, hot, sweeper, file, rec, venue, fate>>

\* hot_state first, then the journal.
CloseIntent(s) ==
    /\ stage[s] = "close"
    /\ hot' = IF OrderStatus(s) = "executed" THEN hot \cup {s} ELSE hot
    /\ RecordResult(s, "closed")
    /\ Goto(s, "idle")
    /\ UNCHANGED <<up, sweeper, rows, venue, budget>>

(***************************************************************************)
(* The supervisor: startup and the orphan sweep.                           *)
(***************************************************************************)

\* hot_state.seed, get_intent_journal and the startup sweep.
Start ==
    /\ ~up
    /\ up' = TRUE
    /\ index' = Loaded(log)
    /\ hot' = {s \in Signals : own[s] = "executed"}
    /\ sweep' = "recover" /\ booting' = TRUE
    /\ todo' = {s \in Signals : Loaded(log)[s] = "open"}
    /\ UNCHANGED <<stage, merged, file, rows, venue, fate, budget>>

\* The periodic sweep begins with recover_open_intents.
BeginSweep ==
    /\ up /\ sweep = "idle"
    /\ sweep' = "recover"
    /\ todo' = OpenIntents
    /\ UNCHANGED <<up, memory, booting, merged, file, rows, venue, fate, budget>>

\* Mutant: the recovery skips intents it finds no row for.
RecoverExistingOnly(s) ==
    /\ sweep = "recover" /\ s \in todo
    /\ todo' = todo \ {s}
    /\ IF own[s] = "none" /\ rec[s] = "none"
       THEN UNCHANGED <<index, file, fate>>
       ELSE RecordResult(s, "recovered")
    /\ UNCHANGED <<up, stage, hot, sweep, booting, merged, rows, venue, budget>>

\* One intent: a recovery row is added to the session unless the signal has a
\* row, and the intent is closed in the journal, before the commit.
RecoverIntent(s) ==
    /\ sweep = "recover" /\ s \in todo
    /\ todo' = todo \ {s}
    /\ merged' = IF own[s] = "none" /\ rec[s] = "none" THEN merged \cup {s} ELSE merged
    /\ RecordResult(s, "recovered")
    /\ UNCHANGED <<up, stage, hot, sweep, booting, rows, venue, budget>>

\* The commit of the recovery rows.
CommitRecovery ==
    /\ sweep = "recover" /\ todo = {}
    /\ rec' = [s \in Signals |-> IF s \in merged THEN "placing" ELSE rec[s]]
    /\ merged' = {}
    /\ sweep' = "reconcile"
    /\ UNCHANGED <<up, memory, booting, todo, file, own, venue, fate, budget>>

\* A database error: the rows are rolled back and the sweep goes on.
RecoveryFails ==
    /\ sweep = "recover"
    /\ Fault("db")
    /\ todo' = {} /\ merged' = {}
    /\ sweep' = "reconcile"
    /\ UNCHANGED <<up, memory, booting, file, rows, venue, fate>>

\* The rows reconcile_orphaned_fast_submissions may find: they must be older
\* than 30 seconds, and a submission on the wire is below its 5 second ceiling.
Eligible == {s \in Signals : rec[s] = "placing" /\ stage[s] \notin {"wire", "sent"}}

\* The rows that are old enough are decided.  A resting order with the key is
\* matched.  Any other row fails: a filled order is not on the book, and a
\* recovery row has no direction that a wallet position could be compared with.
ReconcileOrphans(old) ==
    /\ sweep = "reconcile" /\ old \subseteq Eligible
    /\ rec' = [s \in Signals |->
                 IF s \notin old THEN rec[s]
                 ELSE IF venue[s] = "resting" THEN "matched" ELSE "failed"]
    /\ sweep' = "idle" /\ booting' = FALSE
    /\ UNCHANGED <<up, memory, todo, merged, file, own, venue, fate, budget>>

\* The venue cannot be reached: nothing is decided.
VenueUnreachable ==
    /\ sweep = "reconcile"
    /\ Fault("venue")
    /\ sweep' = "idle" /\ booting' = FALSE
    /\ UNCHANGED <<up, memory, todo, merged, file, rows, venue, fate>>

(***************************************************************************)
(* Failures of the process and of the machine.                             *)
(***************************************************************************)

\* Everything in memory is gone: coroutines, index and open transactions.  A
\* request on the wire may still arrive.
Down ==
    /\ up
    /\ up' = FALSE
    /\ index' = [s \in Signals |-> "none"]
    /\ stage' = [s \in Signals |-> "idle"]
    /\ hot' = {}
    /\ sweep' = "idle" /\ booting' = FALSE /\ todo' = {} /\ merged' = {}
    /\ LeftBehind(Signals)
    /\ UNCHANGED <<rows, fate>>

\* The process is killed: what it wrote is in the page cache and survives.
Kill == Fault("kill") /\ Down /\ UNCHANGED file

\* The machine stops: records behind the last fsync may be lost, a replaced
\* file may come back, and the last write may be cut short, if a trader task
\* was writing.
PowerLoss ==
    /\ Fault("power")
    /\ Down
    /\ \E l \in Remains(log, synced) \cup older : log' = l /\ synced' = Len(l)
    /\ older' = {}
    /\ torn' \in {torn} \cup (IF "torn" \in Faults /\ ~booting THEN {TRUE} ELSE {})

SubmissionStep(s) ==
    \/ Transmit(s) \/ WireReturns(s) \/ Persist(s) \/ CloseIntent(s)

Next ==
    \/ \E s \in Signals :
          \/ Submit(s) \/ SkipLeg(s) \/ SubmissionStep(s)
          \/ WireFails(s) \/ LandsLate(s) \/ PersistFails(s) \/ RecoverIntent(s)
    \/ Start \/ BeginSweep \/ CommitRecovery \/ RecoveryFails
    \/ \E old \in SUBSET Signals : ReconcileOrphans(old)
    \/ VenueUnreachable \/ Kill \/ PowerLoss

Spec == Init /\ [][Next]_vars

\* The event loop runs every coroutine that can run, the supervisor sweeps
\* periodically, and a dead process is started again.  A row grows older from
\* sweep to sweep, so some sweep decides everything that is eligible.
FairSpec ==
    /\ Spec
    /\ \A s \in Signals : WF_vars(SubmissionStep(s)) /\ WF_vars(RecoverIntent(s))
    /\ WF_vars(Start) /\ WF_vars(BeginSweep)
    /\ WF_vars(CommitRecovery) /\ SF_vars(ReconcileOrphans(Eligible))

(***************************************************************************)
(* Properties.                                                             *)
(***************************************************************************)

\* The variables keep their types.
TypeOK ==
    /\ up \in BOOLEAN /\ booting \in BOOLEAN /\ torn \in BOOLEAN
    /\ index \in [Signals -> {"none", "open", "done"}]
    /\ stage \in [Signals -> {"idle", "wire", "sent", "persist", "close"}]
    /\ hot \subseteq Signals /\ todo \subseteq Signals /\ merged \subseteq Signals
    /\ sweep \in {"idle", "recover", "reconcile"}
    /\ log \in Seq(Record) /\ synced \in 0 .. Len(log) /\ older \subseteq Seq(Record)
    /\ own \in [Signals -> {"none", "executed", "failed"}]
    /\ rec \in [Signals -> {"none", "placing", "matched", "failed"}]
    /\ venue \in [Signals -> {"none", "flying", "filled", "resting"}]
    /\ fate \in [Signals -> {"none", "open", "closed", "recovered"}]
    /\ budget \in Nat

\* The duplicate test knows every unresolved intent, whatever crash, lost page
\* cache and compaction came before: no signal with an open intent is fired
\* again, and the sweep will find it.
OpenIntentRemembered ==
    up => \A s \in Signals : fate[s] = "open" => index[s] = "open"

\* The submission path forgets no order that the venue holds, or that is still
\* on its way to it: the row is
\* committed before the intent is closed, and every failure in between leaves
\* the intent open for the recovery.
VenueOrderTracked ==
    \A s \in Signals : venue[s] # "none" /\ stage[s] = "idle" =>
        own[s] # "none" \/ fate[s] \in {"open", "recovered"}

\* Every open intent is closed and every recovery row is decided some day.
OrphansResolved ==
    \A s \in Signals : (fate[s] = "open" \/ rec[s] = "placing")
                          ~> (fate[s] # "open" /\ rec[s] # "placing")

\* recover_open_intents: "ensure there is a TraderOrder recovery row".  An
\* intent the recovery closed has a row, or the row is about to be committed.
RecoveredHasRow ==
    \A s \in Signals : fate[s] = "recovered" =>
        own[s] # "none" \/ rec[s] # "none" \/ s \in merged
=============================================================================
