-------------------------- MODULE StagedPublication --------------------------
(***************************************************************************)
(* Private staging and no-overwrite publication on a Unix file system:     *)
(*                                                                         *)
(*   persistent_staged_publication.rs   the orchestrator                   *)
(*   persistent_unix_staging.rs         the backend it drives              *)
(*                                                                         *)
(* Several publishers, each with a private name in one shared staging      *)
(* directory, race for one destination name.  Each runs                    *)
(* stage_and_publish_versioned_source_with_tail: begin, copy, validate,    *)
(* sync the file, hard-link it without replacement, sync the destination   *)
(* directory, retire the private name; or, on a failure before the link,   *)
(* abort.  Every system call may fail, a process may die between two of    *)
(* them, and the machine may lose power.                                   *)
(*                                                                         *)
(* The file system is external.  A directory entry has the value programs  *)
(* see and the set of values it may have after a power loss: every change  *)
(* since the last fsync of the directory may or may not have reached the   *)
(* disk.  A file's bytes survive for certain only once it is synced.       *)
(***************************************************************************)
EXTENDS Naturals, FiniteSets

CONSTANTS
    Publishers,      \* callers, each with an ownership token of its own
    Files,           \* inodes the file system can hand out
    NoFile,          \* a name that does not exist
    Foreign,         \* a destination made by somebody else
    MetadataMayFail, \* may fs::metadata fail after a failed hard_link?
    MaxCrashes       \* bound on the number of power losses

ASSUME ConstantsAssumption ==
    /\ NoFile \notin Files
    /\ Foreign \notin Files
    /\ Foreign # NoFile
    /\ MetadataMayFail \in BOOLEAN
    /\ MaxCrashes \in Nat

VARIABLES
    pc,        \* where each publisher is in the orchestrator
    active,    \* backend.staged_path is Some
    file,      \* the inode of the backend's staged file
    outcome,   \* the outcome or error of the attempt
    cleanup,   \* what became of the private name: cleanup_error
    data,      \* the bytes of each inode
    synced,    \* the inodes whose bytes are known to be on disk
    name,      \* the private directory entries
    nameDisk,  \* the values a power loss may leave them with
    dest,      \* the destination entry
    destDisk,  \* the values a power loss may leave it with
    told,      \* the inodes reported PublishedAndDurable, ever
    crashes    \* power losses so far

process    == <<pc, active, file, outcome, cleanup>>
contents   == <<data, synced>>
staging    == <<name, nameDisk>>
destVars   == <<dest, destDisk>>
vars       == <<process, contents, staging, destVars, told, crashes>>

Stages == {"idle", "copying", "validating", "syncing", "linking",
           "syncingParent", "retiring", "syncingRetired",
           "aborting", "syncingAborted", "reporting", "done"}

Indeterminate == {"IndeterminateLink", "IndeterminateParent"}
Aborted       == {"CopyError", "ValidateError", "SyncError", "LinkError", "Exists"}
Outcomes      == {"none", "BeginError", "Durable"} \cup Aborted \cup Indeterminate

Cleanups == {"none", "ok", "failed", "retrying", "retriedOk"}
Contents == {"free", "partial", "full"}
Entries  == Files \cup {NoFile}

TypeOK ==
    /\ pc \in [Publishers -> Stages]
    /\ active \in [Publishers -> BOOLEAN]
    /\ file \in [Publishers -> Entries]
    /\ outcome \in [Publishers -> Outcomes]
    /\ cleanup \in [Publishers -> Cleanups]
    /\ data \in [Files -> Contents]
    /\ synced \subseteq Files
    /\ name \in [Publishers -> Entries]
    /\ nameDisk \in [Publishers -> SUBSET Entries]
    /\ dest \in Entries \cup {Foreign}
    /\ destDisk \subseteq Entries \cup {Foreign}
    /\ told \subseteq Files
    /\ crashes \in 0..MaxCrashes

Init ==
    /\ pc = [p \in Publishers |-> "idle"]
    /\ active = [p \in Publishers |-> FALSE]
    /\ file = [p \in Publishers |-> NoFile]
    /\ outcome = [p \in Publishers |-> "none"]
    /\ cleanup = [p \in Publishers |-> "none"]
    /\ data = [i \in Files |-> "free"]
    /\ synced = {}
    /\ name = [p \in Publishers |-> NoFile]
    /\ nameDisk = [p \in Publishers |-> {NoFile}]
    /\ dest \in {NoFile, Foreign}
    /\ destDisk = {dest}
    /\ told = {}
    /\ crashes = 0
-----------------------------------------------------------------------------
(* The file system's part. *)

\* A change of p's private entry: what was on disk may still be there.
SetName(p, e) ==
    /\ name' = [name EXCEPT ![p] = e]
    /\ nameDisk' = [nameDisk EXCEPT ![p] = @ \cup {e}]

\* A change of the destination entry.
SetDest(e) ==
    /\ dest' = e
    /\ destDisk' = destDisk \cup {e}

\* fsync of the staging directory, which all publishers share.
SyncStagingDirectory ==
    /\ nameDisk' = [p \in Publishers |-> {name[p]}]
    /\ UNCHANGED name

\* Where the orchestrator goes, with the outcome it is going to report.
Goto(p, stage, result) ==
    /\ pc' = [pc EXCEPT ![p] = stage]
    /\ outcome' = [outcome EXCEPT ![p] = result]

Step(p, stage) == Goto(p, stage, outcome[p])
-----------------------------------------------------------------------------
(* begin_private. *)

\* A backend that still holds a staged path refuses; so does the exclusive
\* creation when the name is there; a directory may fail its checks.  The
\* orchestrator returns without an abort: what is there is left alone.
BeginFails(p) ==
    /\ pc[p] = "idle"
    /\ Goto(p, "done", "BeginError")
    /\ cleanup' = [cleanup EXCEPT ![p] = "none"]
    /\ UNCHANGED <<active, file, contents, staging, destVars, told, crashes>>

BeginPrivate(p) ==
    /\ pc[p] = "idle"
    /\ ~active[p]
    /\ name[p] = NoFile
    /\ \E i \in Files :
        /\ data[i] = "free"
        /\ data' = [data EXCEPT ![i] = "partial"]
        /\ SetName(p, i)
        /\ file' = [file EXCEPT ![p] = i]
    /\ active' = [active EXCEPT ![p] = TRUE]
    /\ cleanup' = [cleanup EXCEPT ![p] = "none"]
    /\ Goto(p, "copying", "none")
    /\ UNCHANGED <<synced, destVars, told, crashes>>
-----------------------------------------------------------------------------
(* The copy, the validation and the two syncs before the link. *)

\* All of base and tail were accepted by the file; what the device stored is
\* either all of those bytes or not.
CopyDone(p) ==
    /\ pc[p] = "copying"
    /\ \E stored \in {"full", "partial"} :
            data' = [data EXCEPT ![file[p]] = stored]
    /\ Step(p, "validating")
    /\ UNCHANGED <<active, file, cleanup, synced, staging, destVars, told, crashes>>

\* The source changed, a read or a write failed: some prefix is in the file.
CopyFails(p) ==
    /\ pc[p] = "copying"
    /\ Goto(p, "aborting", "CopyError")
    /\ UNCHANGED <<active, file, cleanup, contents, staging, destVars, told, crashes>>

\* validate_private reads the file back and compares length and SHA-256.
ValidateOk(p) ==
    /\ pc[p] = "validating"
    /\ data[file[p]] = "full"
    /\ Step(p, "syncing")
    /\ UNCHANGED <<active, file, cleanup, contents, staging, destVars, told, crashes>>

ValidateFails(p) ==
    /\ pc[p] = "validating"
    /\ Goto(p, "aborting", "ValidateError")
    /\ UNCHANGED <<active, file, cleanup, contents, staging, destVars, told, crashes>>

\* Mutant: the private file is linked without fsync.
SyncPrivateSkipped(p) ==
    /\ pc[p] = "syncing"
    /\ Step(p, "linking")
    /\ UNCHANGED <<active, file, cleanup, contents, staging, destVars, told, crashes>>

SyncPrivate(p) ==
    /\ pc[p] = "syncing"
    /\ synced' = synced \cup {file[p]}
    /\ Step(p, "linking")
    /\ UNCHANGED <<active, file, cleanup, data, staging, destVars, told, crashes>>

SyncPrivateFails(p) ==
    /\ pc[p] = "syncing"
    /\ Goto(p, "aborting", "SyncError")
    /\ UNCHANGED <<active, file, cleanup, contents, staging, destVars, told, crashes>>
-----------------------------------------------------------------------------
(* publish_no_replace: hard_link, and after an error the two metadata calls. *)

\* Mutant: a rename, which replaces, instead of a hard link.
Renamed(p) ==
    /\ pc[p] = "linking"
    /\ SetDest(name[p])
    /\ Step(p, "syncingParent")
    /\ UNCHANGED <<active, file, cleanup, contents, staging, told, crashes>>

Linked(p) ==
    /\ pc[p] = "linking"
    /\ dest = NoFile
    /\ SetDest(name[p])
    /\ Step(p, "syncingParent")
    /\ UNCHANGED <<active, file, cleanup, contents, staging, told, crashes>>

DestinationExists(p) ==
    /\ pc[p] = "linking"
    /\ dest # NoFile
    /\ Goto(p, "aborting", "Exists")
    /\ UNCHANGED <<active, file, cleanup, contents, staging, destVars, told, crashes>>

\* hard_link reports an error and made no link: the two names differ.
LinkFails(p) ==
    /\ pc[p] = "linking"
    /\ Goto(p, "aborting", "LinkError")
    /\ UNCHANGED <<active, file, cleanup, contents, staging, destVars, told, crashes>>

\* Mutant: every error of hard_link is taken for a link not made.
LinkErrorAborts(p) ==
    /\ pc[p] = "linking"
    /\ dest = NoFile
    /\ SetDest(name[p])
    /\ Goto(p, "aborting", "LinkError")
    /\ UNCHANGED <<active, file, cleanup, contents, staging, told, crashes>>

\* hard_link reports an error although the link was made.  Both names have
\* the same inode, and the outcome is Indeterminate; but when one of the two
\* metadata calls fails as well, publish_no_replace is an error, and aborts.
LinkAppliedButFails(p) ==
    /\ pc[p] = "linking"
    /\ dest = NoFile
    /\ SetDest(name[p])
    /\ \/ Goto(p, "done", "IndeterminateLink")
       \/ MetadataMayFail /\ Goto(p, "aborting", "LinkError")
    /\ UNCHANGED <<active, file, cleanup, contents, staging, told, crashes>>
-----------------------------------------------------------------------------
(* sync_parent and retire_private. *)

\* Mutant: the destination directory is not synced.
SyncParentSkipped(p) ==
    /\ pc[p] = "syncingParent"
    /\ Step(p, "retiring")
    /\ UNCHANGED <<active, file, cleanup, contents, staging, destVars, told, crashes>>

SyncParent(p) ==
    /\ pc[p] = "syncingParent"
    /\ destDisk' = {dest}
    /\ Step(p, "retiring")
    /\ UNCHANGED <<active, file, cleanup, contents, staging, dest, told, crashes>>

\* Mutant: a failed sync of the destination directory is ignored.
SyncParentIgnored(p) ==
    /\ pc[p] = "syncingParent"
    /\ Step(p, "retiring")
    /\ UNCHANGED <<active, file, cleanup, contents, staging, destVars, told, crashes>>

\* A failed fsync may or may not have done its work.
SyncParentFails(p) ==
    /\ pc[p] = "syncingParent"
    /\ destDisk' \in {destDisk, {dest}}
    /\ Goto(p, "done", "IndeterminateParent")
    /\ UNCHANGED <<active, file, cleanup, contents, staging, dest, told, crashes>>

RetirePrivate(p) ==
    /\ pc[p] = "retiring"
    /\ name[p] # NoFile
    /\ SetName(p, NoFile)
    /\ Step(p, "syncingRetired")
    /\ UNCHANGED <<active, file, cleanup, contents, destVars, told, crashes>>

\* The sync succeeded: the backend forgets its private state.
SyncRetired(p) ==
    /\ pc[p] = "syncingRetired"
    /\ SyncStagingDirectory
    /\ active' = [active EXCEPT ![p] = FALSE]
    /\ cleanup' = [cleanup EXCEPT ![p] = "ok"]
    /\ Step(p, "reporting")
    /\ UNCHANGED <<file, contents, destVars, told, crashes>>

\* Either call fails; the publication stays what it is.
RetireFails(p) ==
    /\ pc[p] \in {"retiring", "syncingRetired"}
    /\ cleanup' = [cleanup EXCEPT ![p] = "failed"]
    /\ Step(p, "reporting")
    /\ UNCHANGED <<active, file, contents, staging, destVars, told, crashes>>

\* The report PublishedAndDurable { cleanup_pending }.
ReportDurable(p) ==
    /\ pc[p] = "reporting"
    /\ told' = told \cup {file[p]}
    /\ Goto(p, "done", "Durable")
    /\ UNCHANGED <<active, file, cleanup, contents, staging, destVars, crashes>>
-----------------------------------------------------------------------------
(* abort_private. *)

AbortRemoves(p) ==
    /\ pc[p] = "aborting"
    /\ name[p] # NoFile
    /\ SetName(p, NoFile)
    /\ Step(p, "syncingAborted")
    /\ UNCHANGED <<active, file, cleanup, contents, destVars, told, crashes>>

\* Both ways to clear_private_state.
AbortOk(p) ==
    /\ active' = [active EXCEPT ![p] = FALSE]
    /\ cleanup' = [cleanup EXCEPT
            ![p] = IF @ = "retrying" THEN "retriedOk" ELSE "ok"]
    /\ Step(p, "done")
    /\ UNCHANGED <<file, contents, destVars, told, crashes>>

\* Mutant: the staging directory is not synced.
SyncAbortedSkipped(p) ==
    /\ pc[p] = "syncingAborted"
    /\ UNCHANGED staging
    /\ AbortOk(p)

SyncAborted(p) ==
    /\ pc[p] = "syncingAborted"
    /\ SyncStagingDirectory
    /\ AbortOk(p)

\* NotFound: nothing to remove, and nothing is synced.
AbortFindsNothing(p) ==
    /\ pc[p] = "aborting"
    /\ name[p] = NoFile
    /\ UNCHANGED staging
    /\ AbortOk(p)

AbortFails(p) ==
    /\ pc[p] \in {"aborting", "syncingAborted"}
    /\ cleanup' = [cleanup EXCEPT ![p] = "failed"]
    /\ Step(p, "done")
    /\ UNCHANGED <<active, file, contents, staging, destVars, told, crashes>>
-----------------------------------------------------------------------------
(* The caller, its process and the machine. *)

\* Another attempt with the backend as it is.
Again(p) ==
    /\ pc[p] = "done"
    /\ pc' = [pc EXCEPT ![p] = "idle"]
    /\ UNCHANGED <<active, file, outcome, cleanup, contents, staging, destVars,
                   told, crashes>>

\* The caller calls abort_private again after a reported cleanup_error.
RetryAbort(p) ==
    /\ pc[p] = "done"
    /\ outcome[p] \in Aborted
    /\ cleanup[p] = "failed"
    /\ cleanup' = [cleanup EXCEPT ![p] = "retrying"]
    /\ Step(p, "aborting")
    /\ UNCHANGED <<active, file, contents, staging, destVars, told, crashes>>

Reset(P) ==
    /\ pc' = [p \in Publishers |-> IF p \in P THEN "idle" ELSE pc[p]]
    /\ active' = [p \in Publishers |-> active[p] /\ p \notin P]
    /\ file' = [p \in Publishers |-> IF p \in P THEN NoFile ELSE file[p]]
    /\ outcome' = [p \in Publishers |-> IF p \in P THEN "none" ELSE outcome[p]]
    /\ cleanup' = [p \in Publishers |-> IF p \in P THEN "none" ELSE cleanup[p]]

\* The process dies, or drops its backend: its next one starts afresh.
ProcessExit(p) ==
    /\ pc[p] # "idle"
    /\ Reset({p})
    /\ UNCHANGED <<contents, staging, destVars, told, crashes>>

\* Somebody else creates the destination.
ForeignCreates ==
    /\ dest = NoFile
    /\ SetDest(Foreign)
    /\ UNCHANGED <<process, contents, staging, told, crashes>>

\* Power loss: every process is gone, every entry has one of the values the
\* disk may hold, a file that was not synced has lost any part of its bytes.
PowerLoss ==
    /\ crashes < MaxCrashes
    /\ crashes' = crashes + 1
    /\ Reset(Publishers)
    /\ dest' \in destDisk
    /\ destDisk' = {dest'}
    /\ name' \in {n \in [Publishers -> Entries] :
                      \A p \in Publishers : n[p] \in nameDisk[p]}
    /\ nameDisk' = [p \in Publishers |-> {name'[p]}]
    /\ data' \in {d \in [Files -> Contents] :
                      \A i \in Files :
                          IF i \in synced \/ data[i] = "free"
                          THEN d[i] = data[i] ELSE d[i] # "free"}
    /\ UNCHANGED <<synced, told>>
-----------------------------------------------------------------------------
Attempt(p) ==
    \/ BeginFails(p) \/ BeginPrivate(p)
    \/ CopyDone(p) \/ CopyFails(p)
    \/ ValidateOk(p) \/ ValidateFails(p)
    \/ SyncPrivate(p) \/ SyncPrivateFails(p)
    \/ Linked(p) \/ DestinationExists(p)
    \/ LinkFails(p) \/ LinkAppliedButFails(p)
    \/ SyncParent(p) \/ SyncParentFails(p)
    \/ RetirePrivate(p) \/ SyncRetired(p) \/ RetireFails(p)
    \/ ReportDurable(p)
    \/ AbortRemoves(p) \/ SyncAborted(p) \/ AbortFindsNothing(p)
    \/ AbortFails(p)

Caller(p) == Again(p) \/ RetryAbort(p) \/ ProcessExit(p)

Next ==
    \/ \E p \in Publishers : Attempt(p) \/ Caller(p)
    \/ ForeignCreates
    \/ PowerLoss

Spec == Init /\ [][Next]_vars
-----------------------------------------------------------------------------
(* Safety. *)

\* Whatever a reader finds under the destination name is a complete artifact,
\* after a power loss too: the bytes are synced before the link is made
\* (sync_private before publish_no_replace), so no order in which the disk
\* gets the bytes and the link can expose a part of them.
DestinationComplete == dest \in Files => data[dest] = "full"

\* PublishedAndDurable is never taken back: once reported, the destination is
\* that artifact, now and after any power loss, whatever else failed.
DurableSurvives == \A i \in told : dest = i /\ destDisk = {i}

\* What stage_and_publish tells its caller is so: after a refusal or an error
\* the destination is not this attempt's artifact, after a refusal there is
\* another one, and after an indeterminate outcome the private name is there
\* to decide it by.
ReportsAreTrue ==
    \A p \in Publishers : pc[p] = "done" =>
        /\ outcome[p] \in Aborted => dest # file[p]
        /\ outcome[p] = "Exists" => dest # NoFile
        /\ outcome[p] \in Indeterminate => file[p] # NoFile /\ name[p] = file[p]

\* A cleanup without cleanup_error (abort_private or retire_private after the
\* one publication they belong to) has removed the private name for good.
CleanupIsDurable ==
    \A p \in Publishers : cleanup[p] = "ok" /\ pc[p] = "done" => nameDisk[p] = {NoFile}

\* The private name is the only handle on an artifact whose publication is in
\* doubt: no step of a program removes it while the destination refers to the
\* same inode and that entry may still be lost.
NoDoubtfulRemoval ==
    [][ \A p \in Publishers :
            /\ name[p] # NoFile /\ name'[p] = NoFile
            /\ dest = name[p] /\ crashes' = crashes
            => destDisk = {dest} ]_vars

\* Documentation of stage_and_publish: an abort, and so an error, only comes
\* from "failures before a definite link attempt"; a link that may be there is
\* reported as indeterminate.
LinkErrorMeansNotPublished ==
    \A p \in Publishers :
        pc[p] = "done" /\ outcome[p] = "LinkError" => dest # file[p]

-----------------------------------------------------------------------------
(* Refinement. *)

\* What a reader of the destination sees.
Visible == IF dest \in Files /\ data[dest] # "full" THEN "Torn" ELSE dest

Register == INSTANCE NoReplaceRegister
    WITH Artifacts <- Files \cup {Foreign}, Absent <- NoFile,
         value <- Visible, durable <- told

\* The destination is a register that is written at most once and loses only
\* what nobody was told is durable.
ImplementsRegister == Register!Spec
=============================================================================
