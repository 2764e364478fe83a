------------------------ MODULE EvidencePublication ------------------------
(***************************************************************************)
(* `ExperimentRunner.run` of src/backend/evosport/experiments/runner.py    *)
(* with the registry of registry.py, for ONE run fingerprint: several      *)
(* operating-system processes run the same experiment at once, share the   *)
(* artifact root and the SQL registry, and may be killed at any step.      *)
(*                                                                         *)
(* Runs with different fingerprints use different directories, different   *)
(* lock files and different rows, so one fingerprint loses no interaction. *)
(* Loading the spec, the manifest and the environment lock is a function   *)
(* of immutable inputs that the fingerprint is computed from; it can only  *)
(* raise before any state is touched and is not represented.               *)
(*                                                                         *)
(* A piece of evidence stands for everything one gateway execution yields: *)
(* the homerun_run_id, the result, and the directory tree (with its inode  *)
(* numbers) that the files are written to.                                 *)
(***************************************************************************)
EXTENDS Naturals

CONSTANTS
    Runners,      \* slots for `experiment run` processes
    NoOne,        \* the lock file does not exist
    Evidence,     \* identities of evidence
    Null,         \* no evidence, no directory
    Identities,   \* values of the catalog rows + settlement + coverage
    Valid,        \* those that match the frozen manifest
    Faults,       \* kinds of failure that may happen
    MaxFaults     \* bound: how many failures happen in a behaviour

ASSUME NamesAssumption == Null \notin Evidence /\ NoOne \notin Runners
ASSUME IdentityAssumption == Valid \subseteq Identities /\ Valid # {}
ASSUME FaultAssumption ==
    /\ Faults \subseteq {"crash", "gateway", "io", "db", "late"}
    /\ MaxFaults \in Nat

VARIABLES
    pc,        \* where each run is (a local of the process)
    ev,        \* the evidence it handles: its own, an orphan's, a record's
    sha,       \* the evidence whose files it hashed for the record
    owned,     \* owned_artifact is not None: the run itself made the tree
    before,    \* identity_before
    current,   \* the identity stored in the catalog now
    usedId,    \* per evidence: the identity the engine read (effective_football)
    maker,     \* history, per evidence: the runner that created its tree
    dirEv,     \* the tree at artifact_root/<fingerprint>, or Null
    dirState,  \* its condition: read-only, made writable, being emptied
    staging,   \* trees in temporary directories
    lock,      \* who created .<fingerprint>.lock
    registry,  \* the row of evidence_publications
    inflight,  \* commits whose reply was lost and that may still land
    budget     \* how many failures may still happen

locals == <<pc, ev, sha, owned, before>>
disk == <<dirEv, dirState, staging, lock>>
vars == <<pc, ev, sha, owned, before, current, usedId, maker,
          dirEv, dirState, staging, lock, registry, inflight, budget>>

RunRecord == [run : Evidence, sha : Evidence]
NoRecord == [run |-> Null, sha |-> Null]

Finished == {"idle", "returned", "raised"}
\* Between _create_publication_lock and _release_publication_lock.
Critical == {"check", "rename", "release", "abort"}
PCs == Finished \cup Critical \cup
       {"lookup", "cached", "probe", "orphan", "before", "execute", "after",
        "stage", "acquire", "unstage", "hash", "publish", "reconcile",
        "clean", "unlink", "rmdir"}

Init == /\ pc = [r \in Runners |-> "idle"]
        /\ ev = [r \in Runners |-> Null]
        /\ sha = [r \in Runners |-> Null]
        /\ owned = [r \in Runners |-> FALSE]
        /\ before = [r \in Runners |-> CHOOSE i \in Valid : TRUE]
        /\ current \in Valid
        /\ usedId = [e \in Evidence |-> CHOOSE i \in Identities : TRUE]
        /\ maker = [e \in Evidence |-> NoOne]
        /\ dirEv = Null
        /\ dirState = "sealed"
        /\ staging = {}
        /\ lock = NoOne
        /\ registry = NoRecord
        /\ inflight = {}
        /\ budget = MaxFaults

Goto(r, label) == pc' = [pc EXCEPT ![r] = label]
Intended(r) == [run |-> ev[r], sha |-> sha[r]]

\* One failure of the given kind happens.
Fault(kind) == kind \in Faults /\ budget > 0 /\ budget' = budget - 1

\* Evidence some process, directory, row or commit still refers to.  A new
\* execution gets an identity outside this set.
InUse == {ev[r] : r \in Runners} \cup {sha[r] : r \in Runners} \cup staging
         \cup {dirEv, registry.run, registry.sha}
         \cup {c.run : c \in inflight} \cup {c.sha : c \in inflight}

(***************************************************************************)
(* Checks the code makes on the catalog, on evidence and on directories.   *)
(***************************************************************************)

\* load_current_football_identity accepts what it reads: the projected market
\* and the stored settlement are the ones the frozen binding implies.
CatalogMatches == current \in Valid

\* validate_effective_football_evidence: the projected market and the token
\* settlements the engine used are the ones the frozen binding implies.
ValidEvidence(e) == usedId[e] \in Valid

\* _load_result_artifact and _verify_artifact_package at artifact_dir: the
\* tree is complete, read-only and hashes to its own manifest.
PackageVerifies == dirEv # Null /\ dirState = "sealed" /\ ValidEvidence(dirEv)

\* _verify_owned_artifact_tree and _verify_owned_entry: device and inode of
\* what is at the path are those of the tree this run staged.
VerifyOwned(r) == dirEv = ev[r]

(***************************************************************************)
(* The run, up to the choice between cached, orphaned and fresh evidence.  *)
(***************************************************************************)

\* A process starts: `run` up to _load_current_execution_identity, which
\* raises when the catalog no longer matches the frozen manifest.
Begin(r) ==
    /\ pc[r] \in Finished
    /\ Goto(r, IF CatalogMatches THEN "lookup" ELSE "raised")
    /\ ev' = [ev EXCEPT ![r] = Null]
    /\ sha' = [sha EXCEPT ![r] = Null]
    /\ owned' = [owned EXCEPT ![r] = FALSE]
    /\ UNCHANGED <<before, current, usedId, maker, disk, registry, inflight, budget>>

\* registry.get_by_fingerprint
LookupPublication(r) ==
    /\ pc[r] = "lookup"
    /\ IF registry = NoRecord
       THEN Goto(r, "probe") /\ UNCHANGED <<ev, sha>>
       ELSE /\ Goto(r, "cached")
            /\ ev' = [ev EXCEPT ![r] = registry.run]
            /\ sha' = [sha EXCEPT ![r] = registry.sha]
    /\ UNCHANGED <<owned, before, current, usedId, maker, disk, registry, inflight, budget>>

\* The cached branch: the directory must be the one the row describes.
AcceptCached(r) ==
    /\ pc[r] = "cached"
    /\ Goto(r, IF PackageVerifies /\ dirEv = ev[r] /\ dirEv = sha[r]
               THEN "returned" ELSE "raised")
    /\ UNCHANGED <<ev, sha, owned, before, current, usedId, maker, disk, registry, inflight, budget>>

\* os.path.lexists(artifact_dir)
ProbeArtifactDirectory(r) ==
    /\ pc[r] = "probe"
    /\ Goto(r, IF dirEv # Null THEN "orphan" ELSE "before")
    /\ UNCHANGED <<ev, sha, owned, before, current, usedId, maker, disk, registry, inflight, budget>>

\* Mutant: the adopter publishes without taking over the orphan's run id.
AdoptOrphanWithoutRunId(r) ==
    /\ pc[r] = "orphan"
    /\ Goto(r, IF PackageVerifies THEN "hash" ELSE "raised")
    /\ owned' = [owned EXCEPT ![r] = FALSE]
    /\ UNCHANGED <<ev, sha, before, current, usedId, maker, disk, registry, inflight, budget>>

\* Mutant: the adopter passes owned_artifact as if it had made the tree.
AdoptOrphanAsOwner(r) ==
    /\ pc[r] = "orphan"
    /\ IF PackageVerifies
       THEN Goto(r, "hash") /\ ev' = [ev EXCEPT ![r] = dirEv]
       ELSE Goto(r, "raised") /\ UNCHANGED ev
    /\ owned' = [owned EXCEPT ![r] = TRUE]
    /\ UNCHANGED <<sha, before, current, usedId, maker, disk, registry, inflight, budget>>

\* Mutant: an unregistered directory is an error instead of an orphan.
RefuseOrphan(r) ==
    /\ pc[r] = "orphan"
    /\ Goto(r, "raised")
    /\ UNCHANGED <<ev, sha, owned, before, current, usedId, maker, disk, registry, inflight, budget>>

\* The orphan branch: a directory without a row is verified and adopted.  The
\* adopter calls _publish_with_reconciliation without owned_artifact.
AdoptOrphan(r) ==
    /\ pc[r] = "orphan"
    /\ IF PackageVerifies
       THEN Goto(r, "hash") /\ ev' = [ev EXCEPT ![r] = dirEv]
       ELSE Goto(r, "raised") /\ UNCHANGED ev
    /\ owned' = [owned EXCEPT ![r] = FALSE]
    /\ UNCHANGED <<sha, before, current, usedId, maker, disk, registry, inflight, budget>>

(***************************************************************************)
(* The fresh branch: execute between two readings of the identity.         *)
(***************************************************************************)

\* identity_before
ReadIdentityBefore(r) ==
    /\ pc[r] = "before"
    /\ Goto(r, IF CatalogMatches THEN "execute" ELSE "raised")
    /\ before' = [before EXCEPT ![r] = current]
    /\ UNCHANGED <<ev, sha, owned, current, usedId, maker, disk, registry, inflight, budget>>

\* gateway.run: a new homerun_run_id; the engine reads the projected market
\* and the settlement from the database some time during the execution.
GatewayRun(r) ==
    /\ pc[r] = "execute"
    /\ \E e \in Evidence \ InUse :
          /\ ev' = [ev EXCEPT ![r] = e]
          /\ usedId' = [usedId EXCEPT ![e] = current]
          /\ maker' = [maker EXCEPT ![e] = r]
    /\ owned' = [owned EXCEPT ![r] = TRUE]
    /\ Goto(r, "after")
    /\ UNCHANGED <<sha, before, current, disk, registry, inflight, budget>>

\* Mutant: the two readings are compared, the evidence itself is not validated.
CheckIdentityOnly(r) ==
    /\ pc[r] = "after"
    /\ Goto(r, IF CatalogMatches /\ current = before[r] THEN "stage" ELSE "raised")
    /\ UNCHANGED <<ev, sha, owned, before, current, usedId, maker, disk, registry, inflight, budget>>

\* identity_after, its comparison with identity_before, and
\* _validate_gateway_result.
CheckIdentityAfter(r) ==
    /\ pc[r] = "after"
    /\ Goto(r, IF /\ CatalogMatches
                  /\ current = before[r]
                  /\ ValidEvidence(ev[r])
               THEN "stage" ELSE "raised")
    /\ UNCHANGED <<ev, sha, owned, before, current, usedId, maker, disk, registry, inflight, budget>>

\* _publish_artifacts up to the ownership snapshot: mkdtemp, write, verify,
\* chmod, verify, _owned_artifact_tree.
StageEvidence(r) ==
    /\ pc[r] = "stage"
    /\ staging' = staging \cup {ev[r]}
    /\ Goto(r, "acquire")
    /\ UNCHANGED <<ev, sha, owned, before, current, usedId, maker, dirEv, dirState, lock, registry, inflight, budget>>

\* _create_publication_lock: O_CREAT | O_EXCL; an existing lock raises.
AcquirePublicationLock(r) ==
    /\ pc[r] = "acquire"
    /\ IF lock = NoOne
       THEN lock' = r /\ Goto(r, "check")
       ELSE Goto(r, "unstage") /\ UNCHANGED lock
    /\ UNCHANGED <<ev, sha, owned, before, current, usedId, maker, dirEv, dirState, staging, registry, inflight, budget>>

\* Mutant: the target is not tested under the lock.
SkipTargetCheck(r) ==
    /\ pc[r] = "check"
    /\ Goto(r, "rename")
    /\ UNCHANGED <<ev, sha, owned, before, current, usedId, maker, disk, registry, inflight, budget>>

\* The lexists test of _publish_staging_directory.
CheckTarget(r) ==
    /\ pc[r] = "check"
    /\ Goto(r, IF dirEv = Null THEN "rename" ELSE "abort")
    /\ UNCHANGED <<ev, sha, owned, before, current, usedId, maker, disk, registry, inflight, budget>>

\* os.rename: POSIX replaces an empty target directory and refuses a
\* non-empty one.
RenameStaging(r) ==
    /\ pc[r] = "rename"
    /\ IF dirEv = Null \/ dirState = "emptied"
       THEN /\ dirEv' = ev[r]
            /\ dirState' = "sealed"
            /\ staging' = staging \ {ev[r]}
            /\ Goto(r, "release")
       ELSE Goto(r, "abort") /\ UNCHANGED <<dirEv, dirState, staging>>
    /\ UNCHANGED <<ev, sha, owned, before, current, usedId, maker, lock, registry, inflight, budget>>

\* _release_publication_lock: unlink by path, with missing_ok.
ReleasePublicationLock(r) ==
    /\ pc[r] \in {"release", "abort"}
    /\ lock' = NoOne
    /\ Goto(r, IF pc[r] = "release" THEN "hash" ELSE "unstage")
    /\ UNCHANGED <<ev, sha, owned, before, current, usedId, maker, dirEv, dirState, staging, registry, inflight, budget>>

\* _cleanup_staging_directory after the ownership snapshot; the error is
\* re-raised.
CleanupStaging(r) ==
    /\ pc[r] = "unstage"
    /\ staging' = staging \ {ev[r]}
    /\ Goto(r, "raised")
    /\ UNCHANGED <<ev, sha, owned, before, current, usedId, maker, dirEv, dirState, lock, registry, inflight, budget>>

(***************************************************************************)
(* Registering the evidence, and what happens when that fails.             *)
(***************************************************************************)

\* _sha256_file of artifact-manifest.json and result.json, evaluated as
\* arguments of _publish_with_reconciliation: they read whatever directory
\* is at the path by then.
HashArtifacts(r) ==
    /\ pc[r] = "hash"
    /\ IF dirEv # Null /\ dirState # "emptied"
       THEN sha' = [sha EXCEPT ![r] = dirEv] /\ Goto(r, "publish")
       ELSE Goto(r, "raised") /\ UNCHANGED sha
    /\ UNCHANGED <<ev, owned, before, current, usedId, maker, disk, registry, inflight, budget>>

\* Mutant: an upsert.
Upsert(row) == registry' = row

\* The effect of the INSERT of a row whose primary key is the fingerprint.
Insert(row) == registry' = IF registry = NoRecord THEN row ELSE registry

\* SqlRunRegistry.publish: a commit, or an IntegrityError followed by a
\* comparison with the row that is there.
Publish(r) ==
    /\ pc[r] = "publish"
    /\ Insert(Intended(r))
    /\ Goto(r, IF registry \in {NoRecord, Intended(r)} THEN "returned" ELSE "reconcile")
    /\ UNCHANGED <<ev, sha, owned, before, current, usedId, maker, disk, inflight, budget>>

\* Mutant: any row counts as the run's own.
ReconcileWithAnyRow(r) ==
    /\ pc[r] = "reconcile"
    /\ Goto(r, CASE registry # NoRecord -> "returned"
                 [] registry = NoRecord /\ owned[r] -> "clean"
                 [] OTHER -> "raised")
    /\ UNCHANGED <<ev, sha, owned, before, current, usedId, maker, disk, registry, inflight, budget>>

\* The except branch of _publish_with_reconciliation: only evidence this run
\* created, and that no row was seen for, is removed.
Reconcile(r) ==
    /\ pc[r] = "reconcile"
    /\ Goto(r, CASE registry = Intended(r) -> "returned"
                 [] registry = NoRecord /\ owned[r] -> "clean"
                 [] OTHER -> "raised")
    /\ UNCHANGED <<ev, sha, owned, before, current, usedId, maker, disk, registry, inflight, budget>>

\* _cleanup_owned_directory: the tree must have the inodes of the tree this
\* run staged; then its directories become writable ...
CleanupOwned(r) ==
    /\ pc[r] = "clean"
    /\ IF VerifyOwned(r)
       THEN dirState' = "writable" /\ Goto(r, "unlink")
       ELSE Goto(r, "raised") /\ UNCHANGED dirState
    /\ UNCHANGED <<ev, sha, owned, before, current, usedId, maker, dirEv, staging, lock, registry, inflight, budget>>

\* ... its files are unlinked, each after _verify_owned_entry ...
UnlinkFiles(r) ==
    /\ pc[r] = "unlink"
    /\ IF VerifyOwned(r)
       THEN dirState' = "emptied" /\ Goto(r, "rmdir")
       ELSE Goto(r, "raised") /\ UNCHANGED dirState
    /\ UNCHANGED <<ev, sha, owned, before, current, usedId, maker, dirEv, staging, lock, registry, inflight, budget>>

\* ... and its directories are removed.  The publish error is re-raised.
RemoveDirectories(r) ==
    /\ pc[r] = "rmdir"
    /\ IF VerifyOwned(r)
       THEN dirEv' = Null /\ dirState' = "sealed"
       ELSE UNCHANGED <<dirEv, dirState>>
    /\ Goto(r, "raised")
    /\ UNCHANGED <<ev, sha, owned, before, current, usedId, maker, staging, lock, registry, inflight, budget>>

(***************************************************************************)
(* Failures.                                                               *)
(***************************************************************************)

\* The process is killed; its files, its lock and its commits stay.
Crash(r) ==
    /\ pc[r] \notin Finished
    /\ Fault("crash")
    /\ Goto(r, "idle")
    /\ UNCHANGED <<ev, sha, owned, before, current, usedId, maker, disk, registry, inflight>>

\* An await or a call raises before it changed anything: the lookup of the
\* row, the gateway, the lookup made to reconcile (the evidence is kept).
CallFails(r) ==
    /\ \/ pc[r] \in {"lookup", "reconcile"} /\ Fault("db")
       \/ pc[r] = "execute" /\ Fault("gateway")
    /\ Goto(r, "raised")
    /\ UNCHANGED <<ev, sha, owned, before, current, usedId, maker, disk, registry, inflight>>

\* Writing the staging tree fails.  _cleanup_staging_directory has no tree
\* snapshot yet: it removes an empty directory and leaves any other.
StageFails(r) ==
    /\ pc[r] = "stage"
    /\ Fault("io")
    /\ staging' \in {staging, staging \cup {ev[r]}}
    /\ Goto(r, "raised")
    /\ UNCHANGED <<ev, sha, owned, before, current, usedId, maker, dirEv, dirState, lock, registry, inflight>>

\* The lock file cannot be unlinked: a warning, and the run goes on.
ReleaseFails(r) ==
    /\ pc[r] \in {"release", "abort"}
    /\ Fault("io")
    /\ Goto(r, IF pc[r] = "release" THEN "hash" ELSE "unstage")
    /\ UNCHANGED <<ev, sha, owned, before, current, usedId, maker, disk, registry, inflight>>

\* A chmod, unlink or rmdir fails: the cleanup stops where it is, and what it
\* did to other entries of the run's own tree stays.
CleanupFails(r) ==
    /\ pc[r] \in {"unstage", "clean", "unlink", "rmdir"}
    /\ Fault("io")
    /\ dirState' \in {dirState} \cup
         (CASE pc[r] = "clean" /\ VerifyOwned(r) -> {"writable"}
            [] pc[r] = "unlink" /\ VerifyOwned(r) -> {"emptied"}
            [] OTHER -> {})
    /\ Goto(r, "raised")
    /\ UNCHANGED <<ev, sha, owned, before, current, usedId, maker, dirEv, staging, lock, registry, inflight>>

\* publish raises although the commit was sent: it never happened, it
\* happened and the reply was lost, or it is still on its way.
PublishFails(r) ==
    /\ pc[r] = "publish"
    /\ Fault("db")
    /\ \/ UNCHANGED <<registry, inflight>>
       \/ Insert(Intended(r)) /\ UNCHANGED inflight
       \/ /\ "late" \in Faults
          /\ inflight' = inflight \cup {Intended(r)}
          /\ UNCHANGED registry
    /\ Goto(r, "reconcile")
    /\ UNCHANGED <<ev, sha, owned, before, current, usedId, maker, disk>>

(***************************************************************************)
(* The environment.                                                        *)
(***************************************************************************)

\* The server finishes, or gives up, a commit nobody waits for any more.
LateCommit(row) ==
    /\ row \in inflight
    /\ inflight' = inflight \ {row}
    /\ \/ Insert(row)
       \/ UNCHANGED registry
    /\ UNCHANGED <<locals, current, usedId, maker, disk, budget>>

\* Another program updates the catalog rows, the settlement or the coverage.
ChangeIdentity(id) ==
    /\ id # current
    /\ current' = id
    /\ UNCHANGED <<locals, usedId, maker, disk, registry, inflight, budget>>

\* The operator removes a lock file that no live run holds, as the warning of
\* _release_publication_lock asks.
RemoveStaleLock ==
    /\ lock # NoOne
    /\ pc[lock] \notin Critical
    /\ lock' = NoOne
    /\ UNCHANGED <<locals, current, usedId, maker, dirEv, dirState, staging, registry, inflight, budget>>

RunStep(r) ==
    \/ Begin(r) \/ LookupPublication(r) \/ AcceptCached(r)
    \/ ProbeArtifactDirectory(r) \/ AdoptOrphan(r)
    \/ ReadIdentityBefore(r) \/ GatewayRun(r) \/ CheckIdentityAfter(r)
    \/ StageEvidence(r) \/ AcquirePublicationLock(r) \/ CheckTarget(r)
    \/ RenameStaging(r) \/ ReleasePublicationLock(r) \/ CleanupStaging(r)
    \/ HashArtifacts(r) \/ Publish(r) \/ Reconcile(r)
    \/ CleanupOwned(r) \/ UnlinkFiles(r) \/ RemoveDirectories(r)

FaultStep(r) ==
    \/ Crash(r) \/ CallFails(r) \/ StageFails(r) \/ ReleaseFails(r)
    \/ CleanupFails(r) \/ PublishFails(r)

Next ==
    \/ \E r \in Runners : RunStep(r) \/ FaultStep(r)
    \/ \E row \in inflight : LateCommit(row)
    \/ \E id \in Identities : ChangeIdentity(id)
    \/ RemoveStaleLock

Spec == Init /\ [][Next]_vars

\* Every process keeps running and is started again when it ends (the operator
\* retries), and a stale lock is eventually removed.  Failures are not fair.
FairSpec == /\ Spec
            /\ \A r \in Runners : WF_vars(RunStep(r))
            /\ WF_vars(RemoveStaleLock)

(***************************************************************************)
(* Properties.                                                             *)
(***************************************************************************)

\* The variables keep their types.
TypeOK ==
    /\ pc \in [Runners -> PCs]
    /\ ev \in [Runners -> Evidence \cup {Null}]
    /\ sha \in [Runners -> Evidence \cup {Null}]
    /\ owned \in [Runners -> BOOLEAN]
    /\ before \in [Runners -> Identities]
    /\ current \in Identities
    /\ usedId \in [Evidence -> Identities]
    /\ maker \in [Evidence -> Runners \cup {NoOne}]
    /\ dirEv \in Evidence \cup {Null}
    /\ dirState \in {"sealed", "writable", "emptied"}
    /\ staging \subseteq Evidence
    /\ lock \in Runners \cup {NoOne}
    /\ registry \in RunRecord \cup {NoRecord}
    /\ inflight \subseteq RunRecord
    /\ budget \in Nat

\* A run that returned SUCCEEDED returned the evidence of the one registered
\* row, whichever branch (cached, orphan, fresh, reconciled) it took and
\* whatever the other runs did meanwhile.
ReturnedIsRegistered ==
    \A r \in Runners : pc[r] = "returned" => registry # NoRecord /\ registry.run = ev[r]

\* Evidence that reached the artifact path or the registry was executed on
\* catalog and settlement values that match the frozen manifest, also when
\* they drifted and came back while the gateway ran.
OnlyValidEvidence ==
    /\ dirEv # Null => ValidEvidence(dirEv)
    /\ registry # NoRecord => ValidEvidence(registry.run) /\ ValidEvidence(registry.sha)

\* The directory of a fingerprint is never replaced by other evidence: the
\* lock makes the existence test and the rename one step.
DirectoryNeverReplaced == [][dirEv # Null => dirEv' \in {dirEv, Null}]_vars

\* Only the run that created a published tree ever changes or removes it, and
\* only after its own publish failed; an adopter never does.
OnlyMakerRemoves ==
    [][dirEv # Null /\ <<dirEv, dirState>>' # <<dirEv, dirState>> =>
         /\ maker[dirEv] \in Runners
         /\ pc[maker[dirEv]] \in {"clean", "unlink", "rmdir"}
         /\ ev[maker[dirEv]] = dirEv]_vars

\* A run that published evidence of its own and returned finds its sealed tree
\* at the path and its own hashes in the row: no other run's cleanup, adoption
\* or late commit got in between.
FreshEvidenceKept ==
    \A r \in Runners : pc[r] = "returned" /\ owned[r] =>
        /\ dirEv = ev[r] /\ dirState = "sealed"
        /\ registry = [run |-> ev[r], sha |-> ev[r]]

\* The quickstart's "Each immutable RUNS/<fingerprint>/": a registered row has
\* its sealed directory, also for the runs that adopted it.
RegisteredEvidencePresent ==
    registry # NoRecord => dirEv = registry.sha /\ dirState = "sealed"

\* Once the failures are over, runs that keep being retried stop raising and
\* go on returning: orphaned directories are adopted, stale locks removed.
CrashRecovery ==
    /\ <>[](\A r \in Runners : pc[r] # "raised")
    /\ []<>(\E r \in Runners : pc[r] = "returned")

\* The runs of one fingerprint implement a cell that is written once.
Cell == INSTANCE WriteOnceEvidence
          WITH cell <- registry.run,
               answer <- [r \in Runners |-> IF pc[r] = "returned" THEN ev[r] ELSE Null]

\* Equal fingerprints give equal conclusions (design, section 11.3): what the
\* processes do with files, locks and rows is a write-once cell of evidence.
ImplementsWriteOnce == Cell!Spec
=============================================================================
