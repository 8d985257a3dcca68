----------------------------- MODULE TaskLifecycle -----------------------------
(***************************************************************************)
(* The commands of a task's life: StartRun and Package under their V12     *)
(* operations, archive, soft delete and restore, withdrawal, and the purge *)
(* (internal/app/lifecycle_mutation_service.go, lifecycle_services.go,     *)
(* release_deletion_service.go, local_package.go;                          *)
(* internal/harbor/store/v12_lifecycle_operations.go, v7_purge.go).        *)
(*                                                                         *)
(* One task with one reviewed revision.  A command is a saga of SQLite     *)
(* transactions and of steps on directories that no transaction covers;    *)
(* its caller is a process that may die between any two of them, and any   *)
(* number of processes may repeat a command under its idempotency key.     *)
(* Each action is one transaction, one read or one step on a directory.    *)
(* All Package commands name one release version, so one directory.        *)
(***************************************************************************)
EXTENDS Integers, FiniteSets

CONSTANTS
    Callers,         \* processes that run commands
    StartKeys, PackageKeys, PurgeKeys,   \* idempotency keys by command
    None,
    MaxTaskVersion,  \* bound: changes of the task's row
    MaxPurgeVersion, \* bound: leases a purge is granted
    MaxCalls         \* bound: calls of a command, each of which may die

ASSUME TaskLifecycleAssumption ==
    /\ MaxTaskVersion \in Nat \ {0} /\ MaxPurgeVersion \in Nat \ {0} /\ MaxCalls \in Nat
    /\ StartKeys \cap PackageKeys = {} /\ StartKeys \cap PurgeKeys = {}
    /\ PackageKeys \cap PurgeKeys = {}
    /\ None \notin StartKeys \cup PackageKeys \cup PurgeKeys

CommandKeys == StartKeys \cup PackageKeys

VARIABLES
    caller,   \* caller[c]: where process c stands and what it has read
    task,     \* the task's row
    current,  \* is the revision still the task's current one?
    rev,      \* the revision's row
    op,       \* op[k]: the V12 operation of a command and its checkpoint
    run,      \* run[k]: the Run of a StartRun command
    runDir,   \* runDir[k]: its directory
    pkgDir,   \* the directory of the release version: its receipt is readable
              \* before the call that writes it knows that it is on disk
    release,  \* the release's row: the command that wrote it, if withdrawn,
              \* and the directory as that command found it (history)
    taskDir,  \* the managed directory of the task
    purge,    \* purge[p]: the purge operation of key p and its lease
    calls     \* calls of commands so far

files == <<runDir, pkgDir, taskDir>>
rows == <<task, current, rev, op, run, release, purge>>
vars == <<caller, task, current, rev, op, run, runDir, pkgDir, release, taskDir, purge, calls>>

TaskState == {"draft", "ready", "published", "archived", "deleted"}
Step == {"idle", "check", "mkdir", "write", "commit", "undo", "look", "prepare", "seal",
         "confirm", "promote", "record", "publish", "finish", "remove", "failed"}

Idle == [at |-> "idle", key |-> None, made |-> FALSE, won |-> FALSE, taken |-> None,
         rev |-> None, task |-> [state |-> None, version |-> 0], seen |-> 0]

Goto(c, step) == caller' = [caller EXCEPT ![c].at = step]
Return(c) == caller' = [caller EXCEPT ![c] = Idle]
Finish(c) == caller' = [caller EXCEPT ![c] = [Idle EXCEPT !.at = "finish", !.key = caller[c].key]]
At(c, step, keys) == caller[c].at = step /\ caller[c].key \in keys

-----------------------------------------------------------------------------
(* The fence of the purge, and the task's own transitions. *)

\* Mutant: an interrupted purge fences the task only while its lease lasts.
Mut_Fenced == \E p \in PurgeKeys : purge[p].state = "completed" \/ purge[p].lease = "held"

\* guardTaskPurgeMutationTx: a lease never outlives its operation (TypeOK).
Fenced == \E p \in PurgeKeys : purge[p].state \in {"in_progress", "completed"}

\* validTaskLifecycleTransition.
Successors(s) ==
    CASE s = "draft"     -> {"draft", "ready", "deleted"}
      [] s = "ready"     -> {"ready", "published", "deleted"}
      [] s = "published" -> {"published", "archived", "deleted"}
      [] s = "archived"  -> {"archived", "deleted"}
      [] s = "deleted"   -> TaskState

\* The write of the task's row in ExecuteLifecycleTaskTransition and UpdateTaskV2.
MoveTask(to) ==
    /\ ~Fenced
    /\ to \in Successors(task.state)
    /\ task.version < MaxTaskVersion
    /\ task' = [state |-> to, version |-> task.version + 1]

\* Archive, soft delete and restore, whose target is any other state: begin and
\* execute in one step, as the second transaction compares the task's version
\* with the checkpoint of the first.
TransitionTask ==
    /\ \E to \in TaskState : MoveTask(to)
    /\ UNCHANGED <<caller, current, rev, op, run, release, purge, files, calls>>

\* Another reviewed revision becomes the task's current one.
PromoteTaskCurrentRevision ==
    /\ current
    /\ ~Fenced
    /\ task.version < MaxTaskVersion
    /\ current' = FALSE
    /\ task' = [task EXCEPT !.version = @ + 1]
    /\ UNCHANGED <<caller, rev, op, run, release, purge, files, calls>>

-----------------------------------------------------------------------------
(* Begin and complete of a command's operation. *)

\* BeginLifecycleOperation: the first call freezes the checkpoint; a completed
\* operation answers with its receipt and changes nothing.
BeginCommand(c, k) ==
    /\ caller[c].at = "idle" /\ calls < MaxCalls /\ calls' = calls + 1
    /\ op[k].state # "completed"
    /\ op' = [op EXCEPT ![k] = IF @.state = "prepared" THEN @
                 ELSE [state |-> "prepared", task |-> task.version, rev |-> rev.version]]
    /\ caller' = [caller EXCEPT ![c] = [Idle EXCEPT !.at = "check", !.key = k]]
    /\ UNCHANGED <<task, current, rev, run, release, purge, files>>

\* validateCheckpoint, outside the transaction of the mutation it protects.
CheckpointHolds(k) == op[k].task = task.version /\ op[k].rev = rev.version

\* CompleteLifecycleOperation after the command's effect.
FinishCommand(c) ==
    /\ caller[c].at = "finish"
    /\ op' = [op EXCEPT ![caller[c].key].state = "completed"]
    /\ Return(c)
    /\ UNCHANGED <<task, current, rev, run, release, purge, files, calls>>

-----------------------------------------------------------------------------
(* StartRun: the frozen inputs go to the Run's directory, then the row. *)

CheckStart(c) ==
    /\ At(c, "check", StartKeys)
    /\ \/ run[caller[c].key] # "none" /\ Finish(c)
       \/ run[caller[c].key] = "none" /\ CheckpointHolds(caller[c].key) /\ Goto(c, "mkdir")
       \/ run[caller[c].key] = "none" /\ ~CheckpointHolds(caller[c].key) /\ Return(c)
    /\ UNCHANGED <<rows, files, calls>>

\* The exclusive mkdir: who finds a directory adopts its manifest, or fails.
MakeRunDirectory(c) ==
    LET k == caller[c].key IN
    /\ caller[c].at = "mkdir"
    /\ \/ /\ runDir[k] = "none"
          /\ runDir' = [runDir EXCEPT ![k] = "partial"]
          /\ caller' = [caller EXCEPT ![c].at = "write", ![c].made = TRUE]
       \/ runDir[k] = "manifest" /\ Goto(c, "commit") /\ UNCHANGED runDir
       \/ runDir[k] = "partial" /\ Return(c) /\ UNCHANGED runDir
    /\ UNCHANGED <<rows, pkgDir, taskDir, calls>>

\* Profile, specification and, last, the manifest.  An input refused before
\* the cleanup is deferred leaves the directory; a later error removes it.
WriteRunInputs(c) ==
    LET k == caller[c].key IN
    /\ caller[c].at = "write"
    /\ \/ runDir' = [runDir EXCEPT ![k] = "manifest"] /\ Goto(c, "commit")
       \/ Return(c) /\ UNCHANGED runDir
       \/ Goto(c, "undo") /\ UNCHANGED runDir
    /\ UNCHANGED <<rows, pkgDir, taskDir, calls>>

\* The deferred cleanup runs whenever this call did not commit the row.
AfterCommit(c, won) ==
    caller' = [caller EXCEPT ![c] = CASE @.made -> [@ EXCEPT !.at = "undo", !.won = won]
                                      [] ~@.made /\ won -> [Idle EXCEPT !.at = "finish", !.key = caller[c].key]
                                      [] OTHER -> Idle]

\* CreateWorkflowRun: the row and its coordinator, unless the task is fenced or
\* the row exists (another call of the same key won, and its Run is returned).
CommitRun(c) ==
    LET k == caller[c].key IN
    /\ caller[c].at = "commit"
    /\ \/ /\ ~Fenced /\ run[k] = "none"
          /\ run' = [run EXCEPT ![k] = "active"]
          /\ Finish(c)
       \/ ~Fenced /\ run[k] # "none" /\ AfterCommit(c, TRUE) /\ UNCHANGED run
       \/ AfterCommit(c, FALSE) /\ UNCHANGED run
    /\ UNCHANGED <<task, current, rev, op, release, purge, files, calls>>

RemoveRunDirectory(c) ==
    /\ caller[c].at = "undo"
    /\ runDir' = [runDir EXCEPT ![caller[c].key] = "none"]
    /\ IF caller[c].won THEN Finish(c) ELSE Return(c)
    /\ UNCHANGED <<rows, pkgDir, taskDir, calls>>

\* The Run ends, with artifacts that pin the task or without.
EndRun(k) ==
    /\ run[k] = "active"
    /\ \E s \in {"kept", "empty"} : run' = [run EXCEPT ![k] = s]
    /\ UNCHANGED <<caller, task, current, rev, op, release, purge, files, calls>>

\* CommitContinuationExecution opens an ended Run again; it knows no fence.
ContinueRun(k) ==
    /\ run[k] \in {"kept", "empty"}
    /\ run' = [run EXCEPT ![k] = "active"]
    /\ UNCHANGED <<caller, task, current, rev, op, release, purge, files, calls>>

-----------------------------------------------------------------------------
(* Package: directory and receipt, revision, release row, task, in this order. *)

\* A directory with a receipt, which existingLocalPackage takes for a package.
Packaged == {"readable", "sealed"}

\* This call goes on with the package it found, or made.
Take(c, dir) == caller' = [caller EXCEPT ![c].at = "promote", ![c].taken = dir]

CheckPackage(c) ==
    /\ At(c, "check", PackageKeys)
    /\ IF release.key = caller[c].key \/ CheckpointHolds(caller[c].key)
       THEN Goto(c, "look") ELSE Return(c)
    /\ UNCHANGED <<rows, files, calls>>

\* PackageRevision reads the rows it works on; with the release of its own key
\* recorded it only verifies the package again and publishes (replayLocalPackage).
LookPackage(c) ==
    /\ caller[c].at = "look"
    /\ \/ ~current /\ Return(c)
       \/ /\ current /\ release.key # caller[c].key
          /\ caller' = [caller EXCEPT ![c].at = "prepare", ![c].rev = rev.state, ![c].task = task]
       \/ /\ current /\ release.key = caller[c].key
          /\ IF pkgDir \in Packaged
             THEN caller' = [caller EXCEPT ![c].at = "publish", ![c].task = task]
             ELSE Return(c)
    /\ UNCHANGED <<rows, files, calls>>

\* Mutant: any directory of the version is taken for a finished package.
Mut_PreparePackage(c) ==
    /\ caller[c].at = "prepare"
    /\ \/ pkgDir # "none" /\ Take(c, pkgDir) /\ UNCHANGED pkgDir
       \/ pkgDir = "none" /\ taskDir = "intact" /\ pkgDir' = "partial" /\ Goto(c, "seal")
    /\ UNCHANGED <<rows, runDir, taskDir, calls>>

\* existingLocalPackage and the exclusive mkdir of packageManagedSnapshot.
PreparePackage(c) ==
    /\ caller[c].at = "prepare"
    /\ \/ pkgDir \in Packaged /\ Take(c, pkgDir) /\ UNCHANGED pkgDir
       \/ pkgDir = "none" /\ taskDir = "intact" /\ pkgDir' = "partial" /\ Goto(c, "seal")
       \/ /\ pkgDir = "partial" \/ (pkgDir = "none" /\ taskDir # "intact")
          /\ Return(c) /\ UNCHANGED pkgDir
    /\ UNCHANGED <<rows, runDir, taskDir, calls>>

\* The archive and, last, its receipt, which any call may read as soon as it is
\* written; an error up to there removes what this call made.
SealPackage(c) ==
    /\ caller[c].at = "seal"
    /\ \/ pkgDir' = "readable" /\ Goto(c, "confirm")
       \/ pkgDir' = "none" /\ Return(c)
    /\ UNCHANGED <<rows, runDir, taskDir, calls>>

\* Sync and Close of writeNewJSON.  When one fails the call removes the
\* directory, which another call may have taken; nobody reads that error.
ConfirmReceipt(c) ==
    /\ caller[c].at = "confirm"
    /\ \/ pkgDir' = "sealed" /\ Take(c, "sealed")
       \/ pkgDir' \in {"none", "partial", pkgDir} /\ Return(c)
    /\ UNCHANGED <<rows, runDir, taskDir, calls>>

\* TransitionTaskRevisionState, compared with the version of the checkpoint.
PromoteRevision(c) ==
    LET k == caller[c].key IN
    /\ caller[c].at = "promote"
    /\ \/ caller[c].rev = "released" /\ Goto(c, "record") /\ UNCHANGED rev
       \/ /\ caller[c].rev = "validated" /\ ~Fenced /\ rev.version = op[k].rev
          /\ rev' = [state |-> "released", version |-> rev.version + 1]
          /\ Goto(c, "record")
       \/ /\ caller[c].rev = "validated" /\ (Fenced \/ rev.version # op[k].rev)
          /\ Return(c) /\ UNCHANGED rev
    /\ UNCHANGED <<task, current, op, run, release, purge, files, calls>>

\* The release of this version, or CreateLocalPackageRelease, which asks for a
\* released revision and knows no fence.
RecordRelease(c) ==
    /\ caller[c].at = "record"
    /\ \/ /\ release.key = None /\ rev.state = "released"
          /\ release' = [key |-> caller[c].key, withdrawn |-> FALSE, taken |-> caller[c].taken]
          /\ Goto(c, "publish")
       \/ release.key = caller[c].key /\ Goto(c, "publish") /\ UNCHANGED release
       \/ release.key \notin {None, caller[c].key} /\ Return(c) /\ UNCHANGED release
    /\ UNCHANGED <<task, current, rev, op, run, purge, files, calls>>

\* publishPackagedTask: a ready task, as it was read, becomes published.
PublishTask(c) ==
    LET read == caller[c].task IN
    /\ caller[c].at = "publish"
    /\ \/ read.state # "ready" /\ Finish(c) /\ UNCHANGED task
       \/ read.state = "ready" /\ task.version = read.version /\ MoveTask("published")
          /\ Finish(c)
       \/ read.state = "ready" /\ (Fenced \/ task.version # read.version)
          /\ Return(c) /\ UNCHANGED task
    /\ UNCHANGED <<current, rev, op, run, release, purge, files, calls>>

\* ExecuteReleaseWithdraw: the row, its package and its pin stay.
Withdraw ==
    /\ release.key # None /\ ~release.withdrawn
    /\ release' = [release EXCEPT !.withdrawn = TRUE]
    /\ UNCHANGED <<caller, task, current, rev, op, run, purge, files, calls>>

-----------------------------------------------------------------------------
(* The purge. *)

\* queryPurgeDependenciesForTask: an active Run stands for its jobs, leases and
\* events, a kept one for its artifacts; a withdrawn release pins as well.
Pinned ==
    \/ \E k \in StartKeys : run[k] \in {"active", "kept"}
    \/ release.key # None

Purging(c, p) == caller' = [caller EXCEPT ![c] =
    [Idle EXCEPT !.at = "remove", !.key = p, !.seen = purge'[p].version]]

\* PrepareTaskPurge of a fresh key, for the task as the operator reviewed it.
PreparePurge(c, p) ==
    /\ caller[c].at = "idle" /\ calls < MaxCalls /\ calls' = calls + 1
    /\ purge[p].state = "none"
    /\ task.state = "deleted"
    /\ \A q \in PurgeKeys : purge[q].state # "completed"
    /\ \/ /\ Pinned
          /\ purge' = [purge EXCEPT ![p] = [state |-> "blocked", task |-> task.version,
                                            version |-> 1, lease |-> "none"]]
          /\ UNCHANGED caller
       \/ /\ ~Pinned
          /\ \A q \in PurgeKeys : purge[q].state # "in_progress"
          /\ purge' = [purge EXCEPT ![p] = [state |-> "in_progress", task |-> task.version,
                                            version |-> 1, lease |-> "held"]]
          /\ Purging(c, p)
    /\ UNCHANGED <<task, current, rev, op, run, release, files>>

\* replayTaskPurgeTx: the same key takes over when the lease is gone or late.
ReplayPurge(c, p) ==
    /\ caller[c].at = "idle" /\ calls < MaxCalls /\ calls' = calls + 1
    /\ purge[p].state = "in_progress"
    /\ task.version = purge[p].task /\ task.state = "deleted"
    /\ purge[p].lease # "held"
    /\ purge[p].version < MaxPurgeVersion
    /\ purge' = [purge EXCEPT ![p].version = @ + 1, ![p].lease = "held"]
    /\ Purging(c, p)
    /\ UNCHANGED <<task, current, rev, op, run, release, files>>

PurgeLeaseLapses(p) ==
    /\ purge[p].lease = "held"
    /\ purge' = [purge EXCEPT ![p].lease = "lapsed"]
    /\ UNCHANGED <<caller, task, current, rev, op, run, release, files, calls>>

\* The comparisons of FinalizeTaskPurge before it looks at the dependencies.
MayRemove(c) ==
    LET p == caller[c].key IN
    /\ purge[p].state = "in_progress" /\ purge[p].version = caller[c].seen
    /\ purge[p].lease = "held"
    /\ task.version = purge[p].task /\ task.state = "deleted"

Removable(c) == MayRemove(c) /\ ~Pinned

\* The operation's last version, with its lease released.
ClosePurge(p, s) == purge' = [purge EXCEPT ![p].state = s, ![p].version = @ + 1, ![p].lease = "none"]

\* removeManagedTaskDirectory reports an error with some of its work done; an
\* absent directory is none.
RemovalFails == taskDir # "gone" /\ taskDir' \in {taskDir, "damaged"}

\* FinalizeTaskPurge: dependencies and removal in one writer transaction.  The
\* directory does not roll back with it when the process dies before the commit.
FinalizePurge(c) ==
    /\ caller[c].at = "remove"
    /\ \/ ~MayRemove(c) /\ Return(c) /\ UNCHANGED <<purge, taskDir>>
       \/ /\ MayRemove(c) /\ ~Removable(c)
          /\ ClosePurge(caller[c].key, "blocked") /\ Return(c)
          /\ UNCHANGED taskDir
       \/ /\ Removable(c) /\ taskDir' = "gone" /\ Return(c)
          /\ ClosePurge(caller[c].key, "completed") \/ UNCHANGED purge
       \/ /\ Removable(c) /\ RemovalFails /\ Goto(c, "failed")
          /\ UNCHANGED purge
    /\ UNCHANGED <<task, current, rev, op, run, runDir, pkgDir, release, calls>>

\* RecordTaskPurgeFailure gives the lease back for a replay of the key.
RecordPurgeFailure(c) ==
    LET p == caller[c].key IN
    /\ caller[c].at = "failed"
    /\ IF purge[p].state = "in_progress" /\ purge[p].version = caller[c].seen /\ purge[p].lease = "held"
       THEN purge' = [purge EXCEPT ![p].version = @ + 1, ![p].lease = "none"]
       ELSE UNCHANGED purge
    /\ Return(c)
    /\ UNCHANGED <<task, current, rev, op, run, release, files, calls>>

-----------------------------------------------------------------------------
Crash(c) ==
    /\ caller[c].at # "idle"
    /\ Return(c)
    /\ UNCHANGED <<rows, files, calls>>

Init ==
    /\ caller = [c \in Callers |-> Idle]
    /\ task = [state |-> "ready", version |-> 1]
    /\ current = TRUE
    /\ rev = [state |-> "validated", version |-> 1]
    /\ op = [k \in CommandKeys |-> [state |-> "none", task |-> 0, rev |-> 0]]
    /\ run = [k \in StartKeys |-> "none"]
    /\ runDir = [k \in StartKeys |-> "none"]
    /\ pkgDir = "none"
    /\ release = [key |-> None, withdrawn |-> FALSE, taken |-> None]
    /\ taskDir = "intact"
    /\ purge = [p \in PurgeKeys |-> [state |-> "none", task |-> 0, version |-> 0, lease |-> "none"]]
    /\ calls = 0

Start(c) == CheckStart(c) \/ MakeRunDirectory(c) \/ WriteRunInputs(c) \/ CommitRun(c) \/ RemoveRunDirectory(c)

Package(c) ==
    \/ CheckPackage(c) \/ LookPackage(c) \/ PreparePackage(c) \/ SealPackage(c)
    \/ ConfirmReceipt(c) \/ PromoteRevision(c) \/ RecordRelease(c) \/ PublishTask(c)

Purge(c) ==
    \/ \E p \in PurgeKeys : PreparePurge(c, p) \/ ReplayPurge(c, p)
    \/ FinalizePurge(c) \/ RecordPurgeFailure(c)

Next ==
    \/ \E c \in Callers :
        \/ \E k \in CommandKeys : BeginCommand(c, k)
        \/ Start(c) \/ Package(c) \/ Purge(c) \/ FinishCommand(c) \/ Crash(c)
    \/ TransitionTask \/ PromoteTaskCurrentRevision \/ Withdraw
    \/ \E k \in StartKeys : EndRun(k) \/ ContinueRun(k)
    \/ \E p \in PurgeKeys : PurgeLeaseLapses(p)

Spec == Init /\ [][Next]_vars

-----------------------------------------------------------------------------
\* The shape of the state; a purge's lease is open only while the purge is, and
\* one purge of the task is open or done at a time.
TypeOK ==
    /\ \A c \in Callers : caller[c].at \in Step /\ caller[c].made \in BOOLEAN
    /\ task.state \in TaskState /\ task.version \in 1 .. MaxTaskVersion
    /\ current \in BOOLEAN
    /\ rev \in {[state |-> "validated", version |-> 1], [state |-> "released", version |-> 2]}
    /\ \A k \in CommandKeys : op[k].state \in {"none", "prepared", "completed"}
    /\ run \in [StartKeys -> {"none", "active", "kept", "empty"}]
    /\ runDir \in [StartKeys -> {"none", "partial", "manifest"}]
    /\ pkgDir \in {"none", "partial"} \cup Packaged /\ taskDir \in {"intact", "damaged", "gone"}
    /\ release.key \in PackageKeys \cup {None}
    /\ \A p \in PurgeKeys : /\ purge[p].state \in {"none", "in_progress", "blocked", "completed"}
                            /\ purge[p].lease # "none" => purge[p].state = "in_progress"
    /\ \A p, q \in PurgeKeys :
        {purge[p].state, purge[q].state} \subseteq {"in_progress", "completed"} => p = q
    /\ calls \in 0 .. MaxCalls

\* A release stands on a released revision and on a sealed package, and a
\* completed operation on its own release, although the directory is made,
\* sealed and removed outside every transaction by whichever caller of
\* whichever key comes first.  The one way to a release without its package is
\* a command that took the directory while the call that wrote its receipt
\* could still fail and remove it (PackageRevision, packageManagedSnapshot).
ReleaseIsPackaged ==
    /\ release.key # None =>
        /\ rev.state = "released"
        /\ pkgDir = "sealed" \/ release.taken = "readable"
    /\ \A k \in PackageKeys : op[k].state = "completed" => release.key = k

\* A purge in progress or done finds the task exactly as its operator reviewed
\* it, through expired leases, takeovers and processes that die: no caller of
\* another command that read the task earlier may still move it
\* (guardTaskPurgeMutationTx, FinalizeTaskPurge).
PurgedAsReviewed ==
    \A p \in PurgeKeys : purge[p].state \in {"in_progress", "completed"} =>
        task.state = "deleted" /\ task.version = purge[p].task

\* A Run's row is never without the frozen inputs in its directory (StartRun:
\* "The resolved manifest is written before the run row so a durable record
\* never points at a definition compiled from later code or mutable options").
RunKeepsItsInputs == \A k \in StartKeys : run[k] # "none" => runDir[k] = "manifest"
=============================================================================
