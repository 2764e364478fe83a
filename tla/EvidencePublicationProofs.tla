--------------------- MODULE EvidencePublicationProofs ---------------------
(***************************************************************************)
(* Proofs about EvidencePublication for any number of runs, any supply of  *)
(* evidence, any identities and any failures.                              *)
(***************************************************************************)
EXTENDS EvidencePublication, TLAPS

(***************************************************************************)
(* The inductive invariant.  ReturnedIsRegistered and OnlyValidEvidence    *)
(* are not inductive by themselves: they depend on what a run carries with *)
(* it between a check and the use of what was checked.                     *)
(***************************************************************************)

\* Program points at which ev[r] has been validated by this run or by the run
\* that registered it.
Carrying == Critical \cup {"cached", "returned", "stage", "acquire", "unstage",
                           "hash", "publish", "reconcile", "clean", "unlink", "rmdir"}

LockHeld == \A r \in Runners : pc[r] \in Critical => lock = r

TargetFree == \A r \in Runners : pc[r] = "rename" => dirEv = Null

Carried ==
    \A r \in Runners :
        /\ pc[r] = "after" => ev[r] \in Evidence
        /\ pc[r] \in Carrying => ev[r] \in Evidence /\ ValidEvidence(ev[r])
        /\ pc[r] \in {"publish", "reconcile"} => sha[r] \in Evidence /\ ValidEvidence(sha[r])

InflightValid == \A c \in inflight : ValidEvidence(c.run) /\ ValidEvidence(c.sha)

Ownership ==
    \A r \in Runners :
        /\ pc[r] \in {"lookup", "cached"} => ~owned[r]
        /\ owned[r] => ev[r] \in Evidence /\ maker[ev[r]] = r
        /\ pc[r] \in {"clean", "unlink", "rmdir"} => owned[r]
        /\ pc[r] \in {"unlink", "rmdir"} => dirEv = ev[r]

\* From its rename on, the tree of a run stays sealed at the path until the run
\* itself cleans it up, and it is the tree the run hashes.
OwnTree ==
    \A r \in Runners : owned[r] =>
        /\ pc[r] \in {"release", "hash", "publish", "reconcile", "clean", "returned"}
             => dirEv = ev[r] /\ dirState = "sealed"
        /\ pc[r] \in {"publish", "reconcile"} => sha[r] = ev[r]

\* A cached lookup carries the row that is registered.
CachedRow == \A r \in Runners : pc[r] = "cached" => registry # NoRecord /\ registry.run = ev[r]

IInv == /\ TypeOK
        /\ LockHeld
        /\ TargetFree
        /\ Carried
        /\ InflightValid
        /\ Ownership
        /\ OwnTree
        /\ CachedRow
        /\ ReturnedIsRegistered
        /\ FreshEvidenceKept
        /\ OnlyValidEvidence

USE NamesAssumption, IdentityAssumption, FaultAssumption

\* The invariant holds in the initial states.
LEMMA InvariantInit == Init => IInv
BY DEF Init, IInv, TypeOK, LockHeld, TargetFree, Carried, InflightValid, Ownership, OwnTree,
       CachedRow, FreshEvidenceKept, ReturnedIsRegistered, OnlyValidEvidence, ValidEvidence, Carrying,
       Critical, Finished, PCs, RunRecord, NoRecord

\* Every step of a run, every failure and every step of the environment keeps
\* the invariant.
LEMMA InvariantStep == ASSUME IInv, [Next]_vars PROVE IInv'
<1> USE DEF IInv, TypeOK, LockHeld, TargetFree, Carried, InflightValid, Ownership, OwnTree,
            CachedRow, FreshEvidenceKept, ReturnedIsRegistered, OnlyValidEvidence, ValidEvidence, Carrying,
            Critical, Finished, PCs, RunRecord, NoRecord, CatalogMatches, VerifyOwned, Goto, Intended, disk, locals
<1>1. ASSUME NEW r \in Runners, Begin(r) PROVE IInv'
  BY <1>1 DEF Begin
<1>2. ASSUME NEW r \in Runners, LookupPublication(r) PROVE IInv'
  BY <1>2 DEF LookupPublication
<1>3. ASSUME NEW r \in Runners, AcceptCached(r) PROVE IInv'
  BY <1>3 DEF AcceptCached, PackageVerifies
<1>4. ASSUME NEW r \in Runners, ProbeArtifactDirectory(r) PROVE IInv'
  BY <1>4 DEF ProbeArtifactDirectory
<1>5. ASSUME NEW r \in Runners, AdoptOrphan(r) PROVE IInv'
  BY <1>5 DEF AdoptOrphan, PackageVerifies
<1>6. ASSUME NEW r \in Runners, ReadIdentityBefore(r) PROVE IInv'
  BY <1>6 DEF ReadIdentityBefore
<1>7. ASSUME NEW r \in Runners, GatewayRun(r) PROVE IInv'
  BY <1>7 DEF GatewayRun, InUse
<1>8. ASSUME NEW r \in Runners, CheckIdentityAfter(r) PROVE IInv'
  BY <1>8 DEF CheckIdentityAfter
<1>9. ASSUME NEW r \in Runners, StageEvidence(r) PROVE IInv'
  BY <1>9 DEF StageEvidence
<1>10. ASSUME NEW r \in Runners, AcquirePublicationLock(r) PROVE IInv'
  BY <1>10 DEF AcquirePublicationLock
<1>11. ASSUME NEW r \in Runners, CheckTarget(r) PROVE IInv'
  BY <1>11 DEF CheckTarget
<1>12. ASSUME NEW r \in Runners, RenameStaging(r) PROVE IInv'
  BY <1>12 DEF RenameStaging
<1>13. ASSUME NEW r \in Runners, ReleasePublicationLock(r) PROVE IInv'
  BY <1>13 DEF ReleasePublicationLock
<1>14. ASSUME NEW r \in Runners, CleanupStaging(r) PROVE IInv'
  BY <1>14 DEF CleanupStaging
<1>15. ASSUME NEW r \in Runners, HashArtifacts(r) PROVE IInv'
  BY <1>15 DEF HashArtifacts
<1>16. ASSUME NEW r \in Runners, Publish(r) PROVE IInv'
  BY <1>16 DEF Publish, Insert
<1>17. ASSUME NEW r \in Runners, Reconcile(r) PROVE IInv'
  BY <1>17 DEF Reconcile
<1>18. ASSUME NEW r \in Runners, CleanupOwned(r) PROVE IInv'
  BY <1>18 DEF CleanupOwned
<1>19. ASSUME NEW r \in Runners, UnlinkFiles(r) PROVE IInv'
  BY <1>19 DEF UnlinkFiles
<1>20. ASSUME NEW r \in Runners, RemoveDirectories(r) PROVE IInv'
  BY <1>20 DEF RemoveDirectories
<1>21. ASSUME NEW r \in Runners, Crash(r) PROVE IInv'
  BY <1>21 DEF Crash, Fault
<1>22. ASSUME NEW r \in Runners, CallFails(r) PROVE IInv'
  BY <1>22 DEF CallFails, Fault
<1>23. ASSUME NEW r \in Runners, StageFails(r) PROVE IInv'
  BY <1>23 DEF StageFails, Fault
<1>24. ASSUME NEW r \in Runners, ReleaseFails(r) PROVE IInv'
  BY <1>24 DEF ReleaseFails, Fault
<1>25. ASSUME NEW r \in Runners, CleanupFails(r) PROVE IInv'
  BY <1>25 DEF CleanupFails, Fault
<1>26. ASSUME NEW r \in Runners, PublishFails(r) PROVE IInv'
  BY <1>26 DEF PublishFails, Fault, Insert
<1>27. ASSUME NEW row \in inflight, LateCommit(row) PROVE IInv'
  BY <1>27 DEF LateCommit, Insert
<1>28. ASSUME NEW id \in Identities, ChangeIdentity(id) PROVE IInv'
  BY <1>28 DEF ChangeIdentity
<1>29. CASE RemoveStaleLock
  BY <1>29 DEF RemoveStaleLock
<1>30. CASE UNCHANGED vars
  BY <1>30 DEF vars
<1> HIDE DEF IInv
<1> QED
  BY <1>1, <1>2, <1>3, <1>4, <1>5, <1>6, <1>7, <1>8, <1>9, <1>10, <1>11, <1>12, <1>13, <1>14, <1>15, <1>16, <1>17, <1>18, <1>19, <1>20, <1>21, <1>22, <1>23, <1>24, <1>25, <1>26, <1>27, <1>28, <1>29, <1>30
  DEF Next, RunStep, FaultStep
\* The inductive invariant holds in every reachable state.
THEOREM Invariance == Spec => []IInv
BY InvariantInit, InvariantStep, PTL DEF Spec

\* Type correctness of the runner, the artifact root and the registry.
THEOREM TypeCorrect == Spec => []TypeOK
<1>1. IInv => TypeOK
  BY DEF IInv
<1> QED
  BY <1>1, Invariance, PTL

\* Every run that returns SUCCEEDED, through any of the four ways `run` and
\* _publish_with_reconciliation can return, answers with the registered row.
THEOREM ReturnedRegistered == Spec => []ReturnedIsRegistered
<1>1. IInv => ReturnedIsRegistered
  BY DEF IInv
<1> QED
  BY <1>1, Invariance, PTL

\* A run that succeeded with evidence of its own has its sealed tree at the
\* artifact path and its own hashes in the row, whatever the others do.
THEOREM OwnEvidenceKept == Spec => []FreshEvidenceKept
<1>1. IInv => FreshEvidenceKept
  BY DEF IInv
<1> QED
  BY <1>1, Invariance, PTL

\* Only evidence executed on values that match the frozen manifest reaches the
\* artifact directory or the registry, however the catalog drifts.
THEOREM EvidenceValid == Spec => []OnlyValidEvidence
<1>1. IInv => OnlyValidEvidence
  BY DEF IInv
<1> QED
  BY <1>1, Invariance, PTL

\* The artifact directory is touched by the rename and by the cleanup only.
LEMMA OtherStepsKeepDirectory ==
    ASSUME Next
    PROVE  \/ UNCHANGED <<dirEv, dirState>>
           \/ \E r \in Runners : \/ RenameStaging(r) \/ CleanupOwned(r) \/ UnlinkFiles(r)
                                 \/ RemoveDirectories(r) \/ CleanupFails(r)
BY DEF Next, RunStep, FaultStep, disk, Begin, LookupPublication, AcceptCached,
       ProbeArtifactDirectory, AdoptOrphan, ReadIdentityBefore, GatewayRun,
       CheckIdentityAfter, StageEvidence, AcquirePublicationLock, CheckTarget,
       ReleasePublicationLock, CleanupStaging, HashArtifacts, Publish, Reconcile,
       Crash, CallFails, StageFails, ReleaseFails, PublishFails, LateCommit,
       ChangeIdentity, RemoveStaleLock

\* A step never puts other evidence in the place of a published directory.
THEOREM NeverReplaced == Spec => DirectoryNeverReplaced
<1>1. IInv /\ [Next]_vars => [dirEv # Null => dirEv' \in {dirEv, Null}]_vars
  <2> SUFFICES ASSUME IInv, Next, dirEv # Null PROVE dirEv' \in {dirEv, Null}
    OBVIOUS
  <2>1. ASSUME NEW r \in Runners, RenameStaging(r) PROVE dirEv' = dirEv
    \* The only step that fills the path; by TargetFree the path is free.
    BY <2>1 DEF RenameStaging, IInv, TargetFree
  <2>2. ASSUME NEW r \in Runners,
               CleanupOwned(r) \/ UnlinkFiles(r) \/ RemoveDirectories(r) \/ CleanupFails(r)
        PROVE  dirEv' \in {dirEv, Null}
    BY <2>2 DEF CleanupOwned, UnlinkFiles, RemoveDirectories, CleanupFails
  <2>3. CASE UNCHANGED dirEv
    BY <2>3
  <2> QED
    BY <2>1, <2>2, <2>3, OtherStepsKeepDirectory
<1> QED
  BY <1>1, Invariance, PTL DEF Spec, DirectoryNeverReplaced

\* Only the run that created a published tree changes or removes it.
THEOREM MakerRemoves == Spec => OnlyMakerRemoves
<1> DEFINE ByMaker == dirEv # Null /\ <<dirEv, dirState>>' # <<dirEv, dirState>> =>
                        /\ maker[dirEv] \in Runners
                        /\ pc[maker[dirEv]] \in {"clean", "unlink", "rmdir"}
                        /\ ev[maker[dirEv]] = dirEv
<1>1. IInv /\ [Next]_vars => [ByMaker]_vars
  <2> SUFFICES ASSUME IInv, Next, dirEv # Null PROVE ByMaker
    OBVIOUS
  <2>1. ASSUME NEW r \in Runners, RenameStaging(r) PROVE ByMaker
    BY <2>1 DEF RenameStaging, IInv, TargetFree
  <2>2. ASSUME NEW r \in Runners,
               CleanupOwned(r) \/ UnlinkFiles(r) \/ RemoveDirectories(r) \/ CleanupFails(r)
        PROVE  ByMaker
    \* A cleaning run owns its evidence, and the owner is the maker.
    BY <2>2 DEF CleanupOwned, UnlinkFiles, RemoveDirectories, CleanupFails, VerifyOwned,
                IInv, Ownership
  <2>3. CASE UNCHANGED <<dirEv, dirState>>
    BY <2>3
  <2> QED
    BY <2>1, <2>2, <2>3, OtherStepsKeepDirectory
<1> QED
  BY <1>1, Invariance, PTL DEF Spec, OnlyMakerRemoves

(***************************************************************************)
(* Refinement of the write-once cell.                                      *)
(***************************************************************************)

\* What the runs have answered, as the cell sees it.
Answers == [r \in Runners |-> IF pc[r] = "returned" THEN ev[r] ELSE Null]

\* A step that leaves the row alone and moves one run, from a point that is
\* not "returned" to one that is not "returned", is invisible to the cell.
LEMMA Invisible ==
    ASSUME TypeOK, NEW r \in Runners, NEW label \in PCs \ {"returned"},
           pc[r] # "returned", Goto(r, label), UNCHANGED registry,
           \A s \in Runners \ {r} : ev'[s] = ev[s]
    PROVE  UNCHANGED Cell!vars
<1>1. Answers' = Answers
  BY DEF Answers, Goto, TypeOK
<1> QED
  BY <1>1 DEF Answers, Cell!vars

\* A run that ends successfully with the registered evidence answers.
LEMMA AnswerStep ==
    ASSUME TypeOK, NEW r \in Runners, registry # NoRecord, registry.run = ev[r],
           Goto(r, "returned"), UNCHANGED <<ev, registry>>
    PROVE  Cell!Answer(r)
<1>1. Answers' = [Answers EXCEPT ![r] = registry.run]
  BY DEF Answers, Goto, TypeOK
<1>2. registry.run # Null
  BY DEF TypeOK, RunRecord, NoRecord
<1> QED
  BY <1>1, <1>2 DEF Answers, Cell!Answer

\* A step that moves no run to "returned" and leaves the row alone.
Silent(r) ==
    \/ LookupPublication(r) \/ ProbeArtifactDirectory(r) \/ AdoptOrphan(r)
    \/ ReadIdentityBefore(r) \/ GatewayRun(r) \/ CheckIdentityAfter(r) \/ StageEvidence(r)
    \/ AcquirePublicationLock(r) \/ CheckTarget(r) \/ RenameStaging(r)
    \/ ReleasePublicationLock(r) \/ CleanupStaging(r) \/ HashArtifacts(r)
    \/ CleanupOwned(r) \/ UnlinkFiles(r) \/ RemoveDirectories(r)
    \/ Crash(r) \/ CallFails(r) \/ StageFails(r) \/ ReleaseFails(r) \/ CleanupFails(r)

LEMMA SilentStep == ASSUME TypeOK, NEW r \in Runners, Silent(r) PROVE UNCHANGED Cell!vars
<1>1. PICK label \in PCs \ {"returned"} : Goto(r, label)
  BY DEF Silent, PCs, Finished, Critical, LookupPublication, ProbeArtifactDirectory,
         AdoptOrphan, ReadIdentityBefore, GatewayRun, CheckIdentityAfter, StageEvidence,
         AcquirePublicationLock, CheckTarget, RenameStaging, ReleasePublicationLock,
         CleanupStaging, HashArtifacts, CleanupOwned, UnlinkFiles, RemoveDirectories,
         Crash, CallFails, StageFails, ReleaseFails, CleanupFails
<1>2. /\ pc[r] # "returned"
      /\ UNCHANGED registry
      /\ \A s \in Runners \ {r} : ev'[s] = ev[s]
  BY DEF TypeOK, Silent, Finished, LookupPublication, ProbeArtifactDirectory,
         AdoptOrphan, ReadIdentityBefore, GatewayRun, CheckIdentityAfter, StageEvidence,
         AcquirePublicationLock, CheckTarget, RenameStaging, ReleasePublicationLock,
         CleanupStaging, HashArtifacts, CleanupOwned, UnlinkFiles, RemoveDirectories,
         Crash, CallFails, StageFails, ReleaseFails, CleanupFails
<1> QED
  BY <1>1, <1>2, Invisible

\* Every step of the runs, of the failures and of the environment is a step of
\* the cell or leaves it alone.
LEMMA CellStep == ASSUME IInv, [Next]_vars PROVE [Cell!Next]_(Cell!vars)
<1> USE DEF IInv
<1>1. ASSUME NEW r \in Runners, Begin(r) PROVE Cell!Forget(r)
  <2>1. Answers' = [Answers EXCEPT ![r] = Null]
    BY <1>1 DEF Begin, Goto, Answers, TypeOK
  <2> QED
    BY <1>1, <2>1 DEF Begin, Answers, Cell!Forget
<1>2. ASSUME NEW r \in Runners, Silent(r) PROVE UNCHANGED Cell!vars
  BY <1>2, SilentStep
<1>3. ASSUME NEW r \in Runners, AcceptCached(r) PROVE UNCHANGED Cell!vars \/ Cell!Answer(r)
  <2>1. CASE Goto(r, "returned")
    BY <1>3, <2>1, AnswerStep DEF AcceptCached, CachedRow
  <2>2. CASE Goto(r, "raised")
    BY <1>3, <2>2, Invisible DEF AcceptCached, PCs, Finished
  <2> QED
    BY <1>3, <2>1, <2>2 DEF AcceptCached
<1>4. ASSUME NEW r \in Runners, Reconcile(r) PROVE UNCHANGED Cell!vars \/ Cell!Answer(r)
  <2>1. CASE registry = Intended(r)
    <3>1. registry # NoRecord /\ registry.run = ev[r] /\ Goto(r, "returned")
      BY <1>4, <2>1 DEF Reconcile, Intended, NoRecord, Carried, Carrying
    <3> QED
      BY <1>4, <3>1, AnswerStep DEF Reconcile
  <2>2. CASE registry # Intended(r)
    BY <1>4, <2>2, Invisible DEF Reconcile, PCs, Finished
  <2> QED
    BY <2>1, <2>2
<1>5. ASSUME NEW r \in Runners, Publish(r)
      PROVE  UNCHANGED Cell!vars \/ Cell!Answer(r) \/ Cell!DecideAndAnswer(r, ev[r])
  <2>1. CASE registry = NoRecord
    <3>1. Answers' = [Answers EXCEPT ![r] = ev[r]]
      BY <1>5, <2>1 DEF Publish, Goto, Answers, TypeOK
    <3>2. registry.run = Null /\ registry'.run = ev[r]
      BY <1>5, <2>1 DEF Publish, Insert, Intended, NoRecord
    <3> QED
      BY <3>1, <3>2 DEF Answers, Cell!DecideAndAnswer
  <2>2. CASE registry # NoRecord /\ registry = Intended(r)
    BY <1>5, <2>2, AnswerStep DEF Publish, Insert, Intended
  <2>3. CASE registry \notin {NoRecord, Intended(r)}
    BY <1>5, <2>3, Invisible DEF Publish, Insert, PCs
  <2> QED
    BY <2>1, <2>2, <2>3
<1>6. ASSUME NEW r \in Runners, PublishFails(r)
      PROVE  UNCHANGED Cell!vars \/ Cell!Decide(ev[r])
  <2>1. CASE UNCHANGED registry
    BY <1>6, <2>1, Invisible DEF PublishFails, PCs
  <2>2. CASE ~UNCHANGED registry
    <3>1. Answers' = Answers
      BY <1>6 DEF PublishFails, Goto, Answers, TypeOK
    <3>2. registry.run = Null /\ registry'.run = ev[r]
      BY <1>6, <2>2 DEF PublishFails, Insert, Intended, NoRecord
    <3> QED
      BY <3>1, <3>2 DEF Answers, Cell!Decide
  <2> QED
    BY <2>1, <2>2
<1>7. ASSUME NEW row \in inflight, LateCommit(row)
      PROVE  UNCHANGED Cell!vars \/ Cell!Decide(row.run)
  BY <1>7 DEF LateCommit, Insert, NoRecord, locals, Answers, Cell!Decide, Cell!vars
<1>8. ASSUME NEW id \in Identities, ChangeIdentity(id) PROVE UNCHANGED Cell!vars
  BY <1>8 DEF ChangeIdentity, locals, Cell!vars
<1>9. CASE RemoveStaleLock
  BY <1>9 DEF RemoveStaleLock, locals, Cell!vars
<1>10. CASE UNCHANGED vars
  BY <1>10 DEF vars, Cell!vars
<1>11. ASSUME NEW r \in Runners, RunStep(r) \/ FaultStep(r) PROVE [Cell!Next]_(Cell!vars)
  <2>1. Publish(r) \/ PublishFails(r) => ev[r] \in Evidence
    BY DEF Publish, PublishFails, Carried, Carrying
  <2>2. \/ UNCHANGED Cell!vars
        \/ Cell!Answer(r)
        \/ Cell!Forget(r)
        \/ ev[r] \in Evidence /\ (Cell!Decide(ev[r]) \/ Cell!DecideAndAnswer(r, ev[r]))
    BY <1>1, <1>2, <1>3, <1>4, <1>5, <1>6, <1>11, <2>1 DEF RunStep, FaultStep, Silent
  <2> QED
    BY <2>2 DEF Cell!Next, Cell!Decide, Cell!DecideAndAnswer
<1>12. ASSUME NEW row \in inflight, LateCommit(row) PROVE [Cell!Next]_(Cell!vars)
  <2>1. row.run \in Evidence
    BY DEF TypeOK, RunRecord
  <2> QED
    BY <1>7, <1>12, <2>1 DEF Cell!Next
<1> HIDE DEF IInv
<1> QED
  BY <1>8, <1>9, <1>10, <1>11, <1>12 DEF Next

\* The runs of a fingerprint implement a cell that is written at most once and
\* that every successful run answers with, through crashes, lost replies, late
\* commits and overlapping runs.
THEOREM Refinement == Spec => ImplementsWriteOnce
<1>1. Init => Cell!Init
  BY DEF Init, Cell!Init, NoRecord
<1> QED
  BY <1>1, Invariance, CellStep, PTL DEF Spec, ImplementsWriteOnce, Cell!Spec
=============================================================================
