----------------------- MODULE StagedPublicationProofs -----------------------
(***************************************************************************)
(* Proofs about StagedPublication, for any number of publishers, inodes    *)
(* and power losses, and whether or not the metadata calls may fail.       *)
(***************************************************************************)
EXTENDS StagedPublication, TLAPS

\* The stages at which the private name is known to be the staged file.
Named == {"copying", "validating", "syncing", "linking", "syncingParent", "retiring"}

\* The stages after the sync of the destination directory.
Synced == {"retiring", "syncingRetired", "reporting"}

InOrchestrator == Stages \ {"idle", "done"}

\* No two backends hold the same inode, and none holds a free one.
FilesAreOwn ==
    /\ \A p \in Publishers :
            pc[p] \in InOrchestrator \/ outcome[p] \in Aborted => file[p] \in Files
    /\ \A p \in Publishers : file[p] \in Files => data[file[p]] # "free"
    /\ \A p, q \in Publishers : p # q /\ file[p] \in Files => file[p] # file[q]

\* A synced file is complete, and nobody writes to it any more.
SyncedIsFull ==
    /\ \A i \in synced : data[i] = "full"
    /\ \A p \in Publishers : pc[p] = "copying" => file[p] \notin synced
    /\ \A p \in Publishers : pc[p] = "syncing" => data[file[p]] = "full"
    /\ \A p \in Publishers : pc[p] = "linking" => file[p] \in synced

\* Whatever the destination may be, now or after a power loss, is synced; a
\* power loss keeps it or takes it away.
DestIsSynced ==
    /\ dest \in destDisk
    /\ destDisk \subseteq {dest, NoFile}
    /\ \A e \in destDisk : e \in Files => e \in synced

\* How far a publisher's link has got.
LinkProgress ==
    /\ \A p \in Publishers : pc[p] \in Named => name[p] = file[p]
    /\ \A p \in Publishers : pc[p] = "syncingParent" => dest = file[p]
    /\ \A p \in Publishers : pc[p] \in Synced => dest = file[p] /\ destDisk = {dest}

\* What the outcome of an attempt, running or reported, says about the names.
OutcomeIsRight ==
    \A p \in Publishers :
        /\ pc[p] \in Named \cup Synced => outcome[p] = "none"
        /\ pc[p] \in {"copying", "validating", "syncing", "linking"} => file[p] \notin destDisk
        /\ outcome[p] \in Aborted =>
              /\ name[p] \in {file[p], NoFile}
              /\ MetadataMayFail \/ dest # file[p]
        /\ outcome[p] = "Exists" => dest # NoFile
        /\ outcome[p] \in Indeterminate => file[p] \in Files /\ name[p] = file[p]

\* How far the removal of a private name has got.
CleanupProgress ==
    \A p \in Publishers :
        /\ pc[p] \in {"aborting", "syncingAborted"} => outcome[p] \in Aborted
        /\ pc[p] = "aborting" => cleanup[p] = "retrying" \/ name[p] = file[p]
        /\ pc[p] \in {"syncingRetired", "syncingAborted"} => name[p] = NoFile
        /\ cleanup[p] = "ok" => nameDisk[p] = {NoFile} /\ name[p] = NoFile

IInv ==
    /\ TypeOK
    /\ FilesAreOwn
    /\ SyncedIsFull
    /\ DestIsSynced
    /\ LinkProgress
    /\ DurableSurvives
    /\ OutcomeIsRight
    /\ CleanupProgress
-----------------------------------------------------------------------------
(* The inductive invariant holds initially and no step breaks it. *)

\* No publisher has begun, and the destination is absent or somebody else's.
LEMMA InitIInv == Init => IInv
  BY ConstantsAssumption
  DEF Init, IInv, TypeOK, FilesAreOwn, SyncedIsFull, DestIsSynced, LinkProgress,
      DurableSurvives, OutcomeIsRight, CleanupProgress, Stages, Outcomes, Aborted,
      Indeterminate, Cleanups, Contents, Entries, InOrchestrator, Named, Synced

\* One step of the orchestrator.
LEMMA AttemptInv ==
    ASSUME IInv, NEW p \in Publishers, Attempt(p)
    PROVE  IInv'
  <1>. USE ConstantsAssumption DEF IInv, TypeOK, FilesAreOwn, SyncedIsFull,
          DestIsSynced, LinkProgress, DurableSurvives, OutcomeIsRight, CleanupProgress,
          Stages, Outcomes, Aborted, Indeterminate, Cleanups, Contents, Entries,
          InOrchestrator, Named, Synced
  \* A refused begin touches nothing, so what an earlier attempt left stays.
  <1>1. CASE BeginFails(p)
    BY <1>1 DEF BeginFails, Goto, contents, staging, destVars
  \* A fresh inode is nobody's, is not synced and so is not the destination.
  <1>2. CASE BeginPrivate(p)
    BY <1>2 DEF BeginPrivate, Goto, SetName, destVars
  \* The copy writes to a file that is not synced and that nobody else holds.
  <1>3. CASE CopyDone(p)
    BY <1>3 DEF CopyDone, Goto, Step, staging, destVars
  \* A failed copy goes to the abort with the file still private.
  <1>4. CASE CopyFails(p)
    BY <1>4 DEF CopyFails, Goto, contents, staging, destVars
  \* Only a complete file gets past the validation.
  <1>5. CASE ValidateOk(p)
    BY <1>5 DEF ValidateOk, Goto, Step, contents, staging, destVars
  \* A file that does not validate is aborted.
  <1>6. CASE ValidateFails(p)
    BY <1>6 DEF ValidateFails, Goto, contents, staging, destVars
  \* The file that is synced is complete and its own publisher's.
  <1>7. CASE SyncPrivate(p)
    BY <1>7 DEF SyncPrivate, Goto, Step, staging, destVars
  \* A file that cannot be synced is aborted.
  <1>8. CASE SyncPrivateFails(p)
    BY <1>8 DEF SyncPrivateFails, Goto, contents, staging, destVars
  \* The link is made to a synced file, and only when nothing was there.
  <1>9. CASE Linked(p)
    BY <1>9 DEF Linked, Goto, Step, SetDest, contents, staging
  \* The destination is another file: this one has never been linked.
  <1>10. CASE DestinationExists(p)
    BY <1>10 DEF DestinationExists, Goto, contents, staging, destVars
  \* No link was made.
  <1>11. CASE LinkFails(p)
    BY <1>11 DEF LinkFails, Goto, contents, staging, destVars
  \* The link was made; the private name stays unless a metadata call fails too.
  <1>12. CASE LinkAppliedButFails(p)
    BY <1>12 DEF LinkAppliedButFails, Goto, SetDest, contents, staging
  \* After the fsync the disk holds the link for certain.
  <1>13. CASE SyncParent(p)
    BY <1>13 DEF SyncParent, Goto, Step, contents, staging
  \* A failed fsync leaves the link in doubt and the private name in place.
  <1>14. CASE SyncParentFails(p)
    BY <1>14 DEF SyncParentFails, Goto, contents, staging
  \* The private name goes after the link is durable.
  <1>15. CASE RetirePrivate(p)
    BY <1>15 DEF RetirePrivate, Goto, Step, SetName, contents, destVars
  \* The staging directory is synced without the private name.
  <1>16. CASE SyncRetired(p)
    BY <1>16 DEF SyncRetired, Goto, Step, SyncStagingDirectory, contents, destVars
  \* A failed retirement leaves the destination alone.
  <1>17. CASE RetireFails(p)
    BY <1>17 DEF RetireFails, Goto, Step, contents, staging, destVars
  \* What is reported durable is what the disk holds.
  <1>18. CASE ReportDurable(p)
    BY <1>18 DEF ReportDurable, Goto, contents, staging, destVars
  \* The abort removes the private name of an attempt that did not publish.
  <1>19. CASE AbortRemoves(p)
    BY <1>19 DEF AbortRemoves, Goto, Step, SetName, contents, destVars
  \* The staging directory is synced without the private name.
  <1>20. CASE SyncAborted(p)
    BY <1>20 DEF SyncAborted, Goto, Step, SyncStagingDirectory, AbortOk, contents,
        destVars
  \* Only a retried abort can find no name.
  <1>21. CASE AbortFindsNothing(p)
    BY <1>21 DEF AbortFindsNothing, Goto, Step, AbortOk, contents, staging, destVars
  \* A failed abort leaves the backend active.
  <1>22. CASE AbortFails(p)
    BY <1>22 DEF AbortFails, Goto, Step, contents, staging, destVars
  <1>. QED  BY <1>1, <1>2, <1>3, <1>4, <1>5, <1>6, <1>7, <1>8, <1>9, <1>10, <1>11,
        <1>12, <1>13, <1>14, <1>15, <1>16, <1>17, <1>18, <1>19, <1>20, <1>21, <1>22 DEF Attempt

\* One step of a caller or of its process.
LEMMA CallerInv ==
    ASSUME IInv, NEW p \in Publishers, Caller(p)
    PROVE  IInv'
  <1>. USE ConstantsAssumption DEF IInv, TypeOK, FilesAreOwn, SyncedIsFull,
          DestIsSynced, LinkProgress, DurableSurvives, OutcomeIsRight, CleanupProgress,
          Stages, Outcomes, Aborted, Indeterminate, Cleanups, Contents, Entries,
          InOrchestrator, Named, Synced
  \* The next attempt starts from the backend as it was left.
  <1>1. CASE Again(p)
    BY <1>1 DEF Again, contents, staging, destVars
  \* The abort is called again for the file it failed to remove.
  <1>2. CASE RetryAbort(p)
    BY <1>2 DEF RetryAbort, Goto, Step, contents, staging, destVars
  \* A dead process leaves its file and its names behind.
  <1>3. CASE ProcessExit(p)
    BY <1>3 DEF ProcessExit, Reset, contents, staging, destVars
  <1>. QED  BY <1>1, <1>2, <1>3 DEF Caller

\* One step of the rest of the world.
LEMMA EnvironmentInv ==
    ASSUME IInv, ForeignCreates \/ PowerLoss
    PROVE  IInv'
  <1>. USE ConstantsAssumption DEF IInv, TypeOK, FilesAreOwn, SyncedIsFull,
          DestIsSynced, LinkProgress, DurableSurvives, OutcomeIsRight, CleanupProgress,
          Stages, Outcomes, Aborted, Indeterminate, Cleanups, Contents, Entries,
          InOrchestrator, Named, Synced
  \* Somebody else's destination is never one of the staged files.
  <1>1. CASE ForeignCreates
    BY <1>1 DEF ForeignCreates, SetDest, contents, staging, process
  \* The disk holds one of the values it may hold: for the destination a synced
  \* file, and the reported one once one is reported.
  <1>2. CASE PowerLoss
    BY <1>2 DEF PowerLoss, Reset
  <1>. QED  BY <1>1, <1>2

\* Every step of anybody preserves the invariant: attempts, callers, environment.
LEMMA NextIInv == IInv /\ [Next]_vars => IInv'
  <1>. SUFFICES ASSUME IInv, [Next]_vars PROVE IInv'
    OBVIOUS
  <1>1. ASSUME NEW p \in Publishers, Attempt(p) PROVE IInv'
    BY <1>1, AttemptInv
  <1>2. ASSUME NEW p \in Publishers, Caller(p) PROVE IInv'
    BY <1>2, CallerInv
  <1>3. CASE ForeignCreates \/ PowerLoss
    BY <1>3, EnvironmentInv
  <1>4. CASE UNCHANGED vars
    BY <1>4
    DEF vars, process, contents, staging, destVars, IInv, TypeOK, FilesAreOwn,
        SyncedIsFull, DestIsSynced, LinkProgress, DurableSurvives, OutcomeIsRight,
        CleanupProgress
  <1>. QED  BY <1>1, <1>2, <1>3, <1>4 DEF Next

\* The inductive invariant holds in every reachable state.
LEMMA Invariance == Spec => []IInv
  BY InitIInv, NextIInv, PTL DEF Spec
-----------------------------------------------------------------------------
(* The theorems. *)

\* Every variable keeps its type, whatever fails and in whatever order.
THEOREM TypeCorrect == Spec => []TypeOK
  <1>1. IInv => TypeOK
    BY DEF IInv
  <1>. QED  BY <1>1, Invariance, PTL

\* A reader of the destination never sees a part of an artifact: the bytes are
\* synced before the name is linked.
THEOREM DestinationAlwaysComplete == Spec => []DestinationComplete
  <1>1. IInv => DestinationComplete
    BY DEF IInv, DestIsSynced, SyncedIsFull, DestinationComplete
  <1>. QED  BY <1>1, Invariance, PTL

\* An artifact reported PublishedAndDurable stays the destination for good.
THEOREM DurableForGood == Spec => []DurableSurvives
  <1>1. IInv => DurableSurvives
    BY DEF IInv
  <1>. QED  BY <1>1, Invariance, PTL

\* As long as the metadata calls after a failed hard_link do not fail as well,
\* every outcome and error the orchestrator reports is true of the names.
THEOREM ReportsAlwaysTrue == ~MetadataMayFail /\ Spec => []ReportsAreTrue
  <1>1. ~MetadataMayFail /\ IInv => ReportsAreTrue
    <2>. SUFFICES ASSUME ~MetadataMayFail, IInv, NEW p \in Publishers, pc[p] = "done"
                  PROVE  /\ outcome[p] \in Aborted => dest # file[p]
                         /\ outcome[p] = "Exists" => dest # NoFile
                         /\ outcome[p] \in Indeterminate => file[p] # NoFile /\ name[p] = file[p]
      BY DEF ReportsAreTrue
    <2>. QED  BY ConstantsAssumption DEF IInv, OutcomeIsRight
  <1>2. ~MetadataMayFail => [](~MetadataMayFail)
    OBVIOUS
  <1>. QED  BY <1>1, <1>2, Invariance, PTL

\* A cleanup reported without an error is on the disk.
THEOREM CleanupAlwaysDurable == Spec => []CleanupIsDurable
  <1>1. IInv => CleanupIsDurable
    BY DEF IInv, CleanupProgress, CleanupIsDurable
  <1>. QED  BY <1>1, Invariance, PTL

\* Under the same condition, no program removes the private name of an artifact
\* that is linked but may still be lost.
THEOREM NeverDoubtfulRemoval == ~MetadataMayFail /\ Spec => NoDoubtfulRemoval
  <1>. DEFINE Doubtful(p) ==
        /\ name[p] # NoFile /\ name'[p] = NoFile
        /\ dest = name[p] /\ crashes' = crashes
  <1>1. ASSUME ~MetadataMayFail, IInv, [Next]_vars, NEW p \in Publishers, Doubtful(p)
        PROVE  destDisk = {dest}
    <2>1. ASSUME NEW q \in Publishers, Attempt(q) PROVE destDisk = {dest}
      \* Only a retirement or an abort takes a name away, and only its own.
      <3>1. RetirePrivate(q) \/ AbortRemoves(q)
        BY <1>1, <2>1, ConstantsAssumption
        DEF Attempt, BeginFails, BeginPrivate, CopyDone, CopyFails, ValidateOk,
            ValidateFails, SyncPrivate, SyncPrivateFails, Linked, DestinationExists,
            LinkFails, LinkAppliedButFails, SyncParent, SyncParentFails, SyncRetired,
            RetireFails, ReportDurable, SyncAborted, AbortFindsNothing, AbortFails,
            AbortOk, SetName, SyncStagingDirectory, staging, IInv, TypeOK, Entries
      <3>2. q = p
        BY <1>1, <3>1 DEF RetirePrivate, AbortRemoves, SetName, IInv, TypeOK
      <3>3. CASE RetirePrivate(p)
        BY <1>1, <3>3 DEF RetirePrivate, IInv, LinkProgress, Synced
      <3>4. CASE AbortRemoves(p)
        BY <1>1, <3>4 DEF AbortRemoves, IInv, CleanupProgress, OutcomeIsRight
      <3>. QED  BY <3>1, <3>2, <3>3, <3>4
    <2>2. ASSUME NEW q \in Publishers, Caller(q) PROVE FALSE
      BY <1>1, <2>2 DEF Caller, Again, RetryAbort, ProcessExit, staging
    <2>3. ~ForeignCreates
      BY <1>1 DEF ForeignCreates, staging
    <2>4. ~PowerLoss
      BY <1>1, ConstantsAssumption DEF PowerLoss, IInv, TypeOK
    <2>5. ~UNCHANGED vars
      BY <1>1 DEF vars, staging
    <2>. QED  BY <1>1, <2>1, <2>2, <2>3, <2>4, <2>5 DEF Next
  <1>2. ~MetadataMayFail /\ IInv /\ [Next]_vars
            => [\A p \in Publishers : Doubtful(p) => destDisk = {dest}]_vars
    BY <1>1
  <1>3. ~MetadataMayFail => [](~MetadataMayFail)
    OBVIOUS
  <1>. QED  BY <1>2, <1>3, Invariance, PTL DEF Spec, NoDoubtfulRemoval

\* Staging implements the register: the destination is written at most once,
\* with a complete artifact, and loses only what nobody was told is durable.
THEOREM StagingImplementsRegister == Spec => ImplementsRegister
  <1>1. Init => Register!Init
    BY ConstantsAssumption DEF Init, Register!Init, Visible
  <1>2. ASSUME IInv, IInv', [Next]_vars PROVE [Register!Next]_(Register!vars)
    <2>1. Visible = dest /\ Visible' = dest'
      BY <1>2 DEF IInv, DestIsSynced, SyncedIsFull, Visible
    <2>2. ASSUME NEW p \in Publishers, Linked(p) \/ LinkAppliedButFails(p)
          PROVE  Register!Publish(name[p]) /\ name[p] \in Files
      BY <1>2, <2>1, <2>2
      DEF Linked, LinkAppliedButFails, SetDest, Register!Publish, IInv, LinkProgress,
          FilesAreOwn, Named, InOrchestrator, Stages
    <2>3. ASSUME NEW p \in Publishers, ReportDurable(p)
          PROVE  Register!Acknowledge(file[p]) /\ file[p] \in Files
      BY <1>2, <2>1, <2>3
      DEF ReportDurable, destVars, Register!Acknowledge, IInv, LinkProgress, Synced,
          FilesAreOwn, InOrchestrator, Stages
    <2>4. ASSUME NEW p \in Publishers, Attempt(p)
          PROVE  \/ Linked(p) \/ LinkAppliedButFails(p) \/ ReportDurable(p)
                 \/ UNCHANGED <<dest, told>>
      BY <2>4
      DEF Attempt, BeginFails, BeginPrivate, CopyDone, CopyFails, ValidateOk,
          ValidateFails, SyncPrivate, SyncPrivateFails, DestinationExists, LinkFails,
          SyncParent, SyncParentFails, RetirePrivate, SyncRetired, RetireFails,
          AbortRemoves, SyncAborted, AbortFindsNothing, AbortFails, AbortOk, destVars
    <2>5. ASSUME NEW p \in Publishers, Caller(p) PROVE UNCHANGED <<dest, told>>
      BY <2>5 DEF Caller, Again, RetryAbort, ProcessExit, destVars
    <2>6. CASE ForeignCreates
      BY <2>1, <2>6 DEF ForeignCreates, SetDest, Register!Next, Register!Publish
    <2>7. CASE PowerLoss
      \* The destination stays, or a value that was never reported goes.
      <3>1. dest' = dest \/ (dest' = NoFile /\ dest \notin told)
        BY <1>2, <2>7 DEF PowerLoss, IInv, DestIsSynced, DurableSurvives
      <3>. QED  BY <2>1, <2>7, <3>1 DEF PowerLoss, Register!Next, Register!Lose, Register!vars
    <2>8. CASE UNCHANGED vars
      BY <2>1, <2>8 DEF vars, destVars, Register!vars
    <2>. QED
      BY <1>2, <2>1, <2>2, <2>3, <2>4, <2>5, <2>6, <2>7, <2>8
      DEF Next, Register!Next, Register!vars
  <1>. QED  BY <1>1, <1>2, Invariance, PTL DEF Spec, ImplementsRegister, Register!Spec
=============================================================================
