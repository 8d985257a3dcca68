---------------------------- MODULE AuthoringLaunch ----------------------------
(***************************************************************************)
(* Standard authoring: the launch that captures a repository and starts a  *)
(* Run over what it captured, the restart of such a Run, and the stage     *)
(* that gives the draft Task its first revision                            *)
(* (internal/app/standard_authoring_launch_service.go, _recovery.go,       *)
(* authoring_run_service.go, authoring_run_restart.go,                     *)
(* standard_authoring_materializer.go; internal/harbor/store/              *)
(* v22_authoring.go).                                                      *)
(*                                                                         *)
(* A launch is a saga over a directory of write-once files, the object     *)
(* store, five SQLite transactions and the directory of its Run.  Callers  *)
(* of one launch take turns by two flocks, which a dead process leaves     *)
(* behind free; those of a restart take none.  A key stands for everything *)
(* the code derives from it: operation, Task, session and Run.  All        *)
(* launches name one repository and commit, for those of different ones    *)
(* share nothing.                                                          *)
(***************************************************************************)
EXTENDS Integers

CONSTANTS
    Callers,      \* processes that run launches and restarts
    Launches, Restarts,   \* idempotency keys
    Workers,      \* deliveries of the stage that materializes the Task
    Digests,      \* the archives that a capture of the commit may produce
    Deployments,  \* execution profile and operation catalog, as installed
    None,
    MaxCalls,           \* bound: calls of a launch or a restart
    MaxMoves,           \* bound: transitions of Runs
    MaxCaptures         \* bound: captures of a launch

Keys == Launches \cup Restarts
Status == {"queued", "running", "held", "canceled", "ended"}
SessionOf == [digest : Digests, definition : Deployments]
RunOf == [status : Status, version : Nat, digest : Digests, definition : Deployments]
ReadRun == [run : Keys, version : Nat, status : Status]

ASSUME AuthoringLaunchAssumption ==
    /\ MaxCalls \in Nat /\ MaxMoves \in Nat /\ MaxCaptures \in Nat \ {0}
    /\ Launches \cap Restarts = {}
    /\ None \notin Keys \cup Digests \cup Deployments
    /\ None \notin SessionOf /\ None \notin RunOf

VARIABLES
    caller,     \* caller[c]: where process c stands and what it holds
    op,         \* op[k]: the V12 operation; a restart's froze the Run it read
    file,       \* file[l]: the write-once files of launch l
    objects,    \* archives in the object store
    source,     \* source[d]: the launch that recorded archive d as a source
    task,       \* task[k]: the Task
    session,    \* session[k]: the authoring session
    dir,        \* dir[k]: is there a directory of the Run?
    run,        \* run[k]: the Run
    worker,     \* worker[w]: the Run a materialization read, as it read it
    installed,  \* the installed deployment
    captures,       \* captures[l]: archives fetched from Git
    lost,           \* lost[l]: those that never reached a receipt
    calls, moves    \* calls and transitions of Runs so far

launchVars == <<file, objects, source, captures, lost>>
runVars == <<task, session, dir, run>>
bounds == <<calls, moves>>
vars == <<caller, op, launchVars, runVars, worker, installed, bounds>>

AdmissionSteps == {"lease", "prepare", "request"}
LeaseSteps == {"prepare", "request", "capture", "seal", "source", "create",
               "task", "session", "run", "commit", "complete"}
Step == {"idle", "begin", "lease"} \cup LeaseSteps

Idle == [at |-> "idle", key |-> None, definition |-> None, digest |-> None, old |-> None]

Goto(c, step) == caller' = [caller EXCEPT ![c].at = step]
Return(c) == caller' = [caller EXCEPT ![c] = Idle]
Call(c) == caller[c].at = "idle" /\ calls < MaxCalls /\ calls' = calls + 1
HoldsAdmission(c, l) == caller[c].key = l /\ caller[c].at \in AdmissionSteps

\* Mutant: the lock of the operation is not waited for.
Mut_HoldsLease(c, l) == FALSE

HoldsLease(c, l) == caller[c].key = l /\ caller[c].at \in LeaseSteps

-----------------------------------------------------------------------------
(* Start, under the admission lock: the operation and its write-once files. *)

\* Start up to BeginLifecycleOperation: the deployment is frozen for a fresh key
\* only; a completed operation answers with its receipt and changes nothing.
BeginLaunch(c, l) ==
    /\ Call(c)
    /\ \A d \in Callers : ~HoldsAdmission(d, l)
    /\ op[l].state # "completed"
    /\ op' = [op EXCEPT ![l].state = "prepared"]
    /\ caller' = [caller EXCEPT ![c] = [Idle EXCEPT !.at = "lease", !.key = l,
            !.definition = IF op[l].state = "none" THEN installed ELSE None]]
    /\ UNCHANGED <<launchVars, runVars, worker, installed, moves>>

\* What the board lists and retries: a launch whose capture left a failure mark
\* and nothing else (listFailedPreTaskLaunches).
Retryable(l) ==
    /\ op[l].state = "prepared" /\ task[l] = "absent"
    /\ file[l].request /\ file[l].preparation # None
    /\ file[l].failure /\ file[l].receipt = None

RetryLaunch(c, l) == Retryable(l) /\ BeginLaunch(c, l)

\* The flock of the operation, and ReplayCompleted behind it.
TakeLease(c) ==
    LET l == caller[c].key IN
    /\ caller[c].at = "lease"
    /\ \A d \in Callers : ~HoldsLease(d, l)
    /\ IF op[l].state = "completed" THEN Return(c) ELSE Goto(c, "prepare")
    /\ UNCHANGED <<op, launchVars, runVars, worker, installed, bounds>>

\* A fresh key writes the deployment it froze; any other call needs the one
\* that was written to be there and still installed.
Prepare(c) ==
    LET l == caller[c].key  frozen == caller[c].definition IN
    /\ caller[c].at = "prepare"
    /\ \/ /\ frozen # None
          /\ file' = [file EXCEPT ![l].preparation = frozen]
          /\ caller' = [caller EXCEPT ![c].at = "request", ![c].definition = None]
       \/ frozen = None /\ file[l].preparation = installed /\ Goto(c, "request") /\ UNCHANGED file
       \/ frozen = None /\ file[l].preparation # installed /\ Return(c) /\ UNCHANGED file
    /\ UNCHANGED <<op, objects, source, captures, lost, runVars, worker, installed, bounds>>

\* The request record; the admission lock is free from here.
RecordRequest(c) ==
    /\ caller[c].at = "request"
    /\ file' = [file EXCEPT ![caller[c].key].request = TRUE]
    /\ Goto(c, "capture")
    /\ UNCHANGED <<op, objects, source, captures, lost, runVars, worker, installed, bounds>>

-----------------------------------------------------------------------------
(* The capture: Git, the object store, and the receipt that seals them.    *)

ReuseCapture(c) ==
    LET receipt == file[caller[c].key].receipt IN
    /\ caller[c].at = "capture" /\ receipt \in objects
    /\ caller' = [caller EXCEPT ![c].at = "source", ![c].digest = receipt]
    /\ UNCHANGED <<op, launchVars, runVars, worker, installed, bounds>>

\* Git packs what it likes: the archive of one commit has no fixed bytes.
CaptureSource(c) ==
    LET l == caller[c].key IN
    /\ caller[c].at = "capture" /\ file[l].receipt = None
    /\ captures[l] < MaxCaptures
    /\ \E d \in Digests :
        /\ objects' = objects \cup {d}
        /\ caller' = [caller EXCEPT ![c].at = "seal", ![c].digest = d]
    /\ captures' = [captures EXCEPT ![l] = @ + 1]
    /\ UNCHANGED <<op, file, source, lost, runVars, worker, installed, bounds>>

\* durableCaptureFailure, before anything was fetched.
CaptureFails(c) ==
    LET l == caller[c].key IN
    /\ caller[c].at = "capture" /\ file[l].receipt = None
    /\ file' = [file EXCEPT ![l].failure = TRUE]
    /\ Return(c)
    /\ UNCHANGED <<op, objects, source, captures, lost, runVars, worker, installed, bounds>>

\* A receipt that is there already wins (standardAuthoringWriteNewImmutableFileAt).
SealReceipt(c) ==
    LET l == caller[c].key
        receipt == IF file[l].receipt = None THEN caller[c].digest ELSE file[l].receipt IN
    /\ caller[c].at = "seal"
    /\ file' = [file EXCEPT ![l].receipt = receipt]
    /\ caller' = [caller EXCEPT ![c].at = "source", ![c].digest = receipt]
    /\ UNCHANGED <<op, objects, source, captures, lost, runVars, worker, installed, bounds>>

\* The object or the receipt cannot be written: the capture is lost.
SealFails(c) ==
    LET l == caller[c].key IN
    /\ caller[c].at = "seal"
    /\ file' = [file EXCEPT ![l].failure = TRUE]
    /\ lost' = [lost EXCEPT ![l] = @ + 1]
    /\ Return(c)
    /\ UNCHANGED <<op, objects, source, captures, runVars, worker, installed, bounds>>

-----------------------------------------------------------------------------
(* Source, Task and session.                                               *)

\* Mutant: a source of the same repository and commit is reused, whatever
\* archive it stands for.
Mut_LookUpSource(c) ==
    /\ caller[c].at = "source"
    /\ \/ \E d \in Digests :
            /\ source[d] # None
            /\ caller' = [caller EXCEPT ![c].at = "task", ![c].digest = d]
       \/ (\A d \in Digests : source[d] = None) /\ Goto(c, "create")
    /\ UNCHANGED <<op, launchVars, runVars, worker, installed, bounds>>

\* The launch's own source or, by repository, commit and archive, another's.
LookUpSource(c) ==
    /\ caller[c].at = "source"
    /\ IF source[caller[c].digest] # None THEN Goto(c, "task") ELSE Goto(c, "create")
    /\ UNCHANGED <<op, launchVars, runVars, worker, installed, bounds>>

\* CreateAuthoringSource; who collides with another launch takes its source.
CreateSource(c) ==
    /\ caller[c].at = "create"
    /\ source' = [source EXCEPT ![caller[c].digest] = IF @ = None THEN caller[c].key ELSE @]
    /\ Goto(c, "task")
    /\ UNCHANGED <<op, file, objects, captures, lost, runVars, worker, installed, bounds>>

\* ensureAuthoringDraftTask and createRestartAuthoringDraftTask: a Task that is
\* there must still be a draft without a revision.
EnsureTask(c) ==
    LET k == caller[c].key IN
    /\ caller[c].at = "task"
    /\ \/ task[k] # "revised" /\ task' = [task EXCEPT ![k] = "draft"] /\ Goto(c, "session")
       \/ task[k] = "revised" /\ Return(c) /\ UNCHANGED task
    /\ UNCHANGED <<op, launchVars, session, dir, run, worker, installed, bounds>>

\* A launch binds the archive it captured and the deployment it prepared, a
\* restart those of the Run it restarts.
Inputs(c) ==
    LET k == caller[c].key IN
    IF k \in Launches
    THEN [digest |-> caller[c].digest, definition |-> file[k].preparation]
    ELSE session[op[k].old.run]

\* freezeStandardAuthoringDefinition resolves the deployment of a launch again;
\* then CreateAuthoringSession, which returns what its key has created.
CreateSession(c) ==
    LET k == caller[c].key IN
    /\ caller[c].at = "session"
    /\ \/ /\ k \in Launches => Inputs(c).definition = installed
          /\ session' = [session EXCEPT ![k] = IF @ = None THEN Inputs(c) ELSE @]
          /\ caller' = [caller EXCEPT ![c].at = "run", ![c].digest = None]
       \/ k \in Launches /\ Inputs(c).definition # installed /\ Return(c) /\ UNCHANGED session
    /\ UNCHANGED <<op, launchVars, task, dir, run, worker, installed, bounds>>

-----------------------------------------------------------------------------
(* StartAuthoringRun and the end of the operation.                         *)

\* The catalog of the session must be the installed one; a Run that exists is
\* answered; the mkdir is exclusive, and a directory without a Run is refused.
StartAuthoringRun(c) ==
    LET k == caller[c].key  bound == session[k].definition = installed IN
    /\ caller[c].at = "run"
    /\ \/ bound /\ run[k] # None /\ Goto(c, "complete") /\ UNCHANGED dir
       \/ bound /\ run[k] = None /\ ~dir[k] /\ dir' = [dir EXCEPT ![k] = TRUE] /\ Goto(c, "commit")
       \/ (~bound \/ (run[k] = None /\ dir[k])) /\ Return(c) /\ UNCHANGED dir
    /\ UNCHANGED <<op, launchVars, task, session, run, worker, installed, bounds>>

\* CreateAuthoringWorkflowRun: Run, source input, coordinator and event.
CommitRun(c) ==
    LET k == caller[c].key IN
    /\ caller[c].at = "commit"
    /\ run' = [run EXCEPT ![k] = [status |-> "queued", version |-> 1,
            digest |-> session[k].digest, definition |-> session[k].definition]]
    /\ Goto(c, "complete")
    /\ UNCHANGED <<op, launchVars, task, session, dir, worker, installed, bounds>>

\* An error before the commit takes the directory back.
CommitFails(c) ==
    /\ caller[c].at = "commit"
    /\ dir' = [dir EXCEPT ![caller[c].key] = FALSE]
    /\ Return(c)
    /\ UNCHANGED <<op, launchVars, task, session, run, worker, installed, bounds>>

Complete(c) ==
    /\ caller[c].at = "complete"
    /\ op' = [op EXCEPT ![caller[c].key].state = "completed"]
    /\ Return(c)
    /\ UNCHANGED <<launchVars, runVars, worker, installed, bounds>>

\* A call ends anywhere: its process dies, its context is canceled or a store
\* call fails.  Its flocks are free again, what it wrote stays.
Crash(c) ==
    LET l == caller[c].key IN
    /\ caller[c].at # "idle"
    /\ IF caller[c].at = "seal" THEN lost' = [lost EXCEPT ![l] = @ + 1] ELSE UNCHANGED lost
    /\ Return(c)
    /\ UNCHANGED <<op, file, objects, source, captures, runVars, worker, installed, bounds>>

-----------------------------------------------------------------------------
(* RestartAuthoringRun.                                                    *)

\* restartableAuthoringRunStatus.
Restartable == {"ended", "canceled"}

\* The Run and its Task as they are read, before any transaction.
ReadRestarted(c, k, r) ==
    /\ Call(c) /\ k # r
    /\ run[r] # None
    /\ run[r].status \in Restartable /\ task[r] = "draft"
    /\ caller' = [caller EXCEPT ![c] = [Idle EXCEPT !.at = "begin", !.key = k,
            !.old = [run |-> r, version |-> run[r].version, status |-> run[r].status]]]
    /\ UNCHANGED <<op, launchVars, runVars, worker, installed, moves>>

\* The request of the operation names the Run and the version that was read: the
\* same key with another is refused, and a completed one is answered.
BeginRestart(c) ==
    LET k == caller[c].key  old == caller[c].old IN
    /\ caller[c].at = "begin"
    /\ \/ /\ op[k].state = "none" \/ (op[k].state = "prepared" /\ op[k].old = old)
          /\ op' = [op EXCEPT ![k] = [state |-> "prepared", old |-> old]]
          /\ caller' = [caller EXCEPT ![c].at = "task", ![c].old = None]
       \/ /\ op[k].state = "completed" \/ (op[k].state = "prepared" /\ op[k].old # old)
          /\ Return(c) /\ UNCHANGED op
    /\ UNCHANGED <<launchVars, runVars, worker, installed, bounds>>

-----------------------------------------------------------------------------
(* The life of a Run, and its last stage.                                  *)

\* validWorkflowRunTransition: "held" is any status of a Run that neither runs
\* nor is finished, "ended" is succeeded or failed_terminal.
Successors(status) ==
    CASE status = "queued"   -> {"running", "held", "canceled"}
      [] status = "running"  -> {"held", "canceled", "ended"}
      [] status = "held"     -> {"running", "held", "canceled", "ended"}
      [] status = "canceled" -> {"running"}
      [] status = "ended"    -> {}

MoveRun(k) ==
    /\ run[k] # None /\ moves < MaxMoves /\ moves' = moves + 1
    /\ \E s \in Successors(run[k].status) :
        run' = [run EXCEPT ![k].status = s, ![k].version = @ + 1]
    /\ UNCHANGED <<caller, op, launchVars, task, session, dir, worker, installed, calls>>

\* ExecuteHarborBuiltin reads the Run and its subject; with a revision there it
\* only builds its outputs again.
ReadSubject(w, k) ==
    /\ worker[w].key = None
    /\ run[k] # None
    /\ run[k].status = "running" /\ task[k] = "draft"
    /\ worker' = [worker EXCEPT ![w] = [key |-> k, seen |-> run[k].version]]
    /\ UNCHANGED <<caller, op, launchVars, runVars, installed, bounds>>

\* Mutant: the transaction trusts what the stage read of the Run.
Mut_Materializable(k, seen) == task[k] = "draft"

Materializable(k, seen) ==
    /\ task[k] = "draft"
    /\ run[k].version = seen /\ run[k].status = "running"

\* MaterializeAuthoringTask; no dispatch fence covers it, so the worker may have
\* lost its delivery.  It may also be refused for another reason, or die.
Materialize(w) ==
    LET k == worker[w].key IN
    /\ k # None
    /\ \/ Materializable(k, worker[w].seen) /\ task' = [task EXCEPT ![k] = "revised"]
       \/ UNCHANGED task
    /\ worker' = [worker EXCEPT ![w] = [key |-> None, seen |-> 0]]
    /\ UNCHANGED <<caller, op, launchVars, session, dir, run, installed, bounds>>

\* Another deployment is installed.
Install ==
    /\ installed' \in Deployments
    /\ UNCHANGED <<caller, op, launchVars, runVars, worker, bounds>>

-----------------------------------------------------------------------------
Init ==
    /\ caller = [c \in Callers |-> Idle]
    /\ op = [k \in Keys |-> [state |-> "none", old |-> None]]
    /\ file = [l \in Launches |-> [preparation |-> None, request |-> FALSE,
                                   failure |-> FALSE, receipt |-> None]]
    /\ objects = {}
    /\ source = [d \in Digests |-> None]
    /\ task = [k \in Keys |-> "absent"]
    /\ session = [k \in Keys |-> None]
    /\ dir = [k \in Keys |-> FALSE]
    /\ run = [k \in Keys |-> None]
    /\ worker = [w \in Workers |-> [key |-> None, seen |-> 0]]
    /\ installed \in Deployments
    /\ captures = [l \in Launches |-> 0]
    /\ lost = [l \in Launches |-> 0]
    /\ calls = 0 /\ moves = 0

Launch(c) ==
    \/ \E l \in Launches : BeginLaunch(c, l) \/ RetryLaunch(c, l)
    \/ TakeLease(c) \/ Prepare(c) \/ RecordRequest(c)
    \/ ReuseCapture(c) \/ CaptureSource(c) \/ CaptureFails(c) \/ SealReceipt(c) \/ SealFails(c)
    \/ LookUpSource(c) \/ CreateSource(c)

Restart(c) ==
    \/ \E k \in Restarts, r \in Keys : ReadRestarted(c, k, r)
    \/ BeginRestart(c)

Finish(c) ==
    \/ EnsureTask(c) \/ CreateSession(c)
    \/ StartAuthoringRun(c) \/ CommitRun(c) \/ CommitFails(c) \/ Complete(c)

Next ==
    \/ \E c \in Callers : Launch(c) \/ Restart(c) \/ Finish(c) \/ Crash(c)
    \/ \E k \in Keys : MoveRun(k) \/ \E w \in Workers : ReadSubject(w, k)
    \/ \E w \in Workers : Materialize(w)
    \/ Install

Spec == Init /\ [][Next]_vars

-----------------------------------------------------------------------------
\* The shape of the state.
TypeOK ==
    /\ caller \in [Callers -> [at : Step, key : Keys \cup {None},
                               definition : Deployments \cup {None},
                               digest : Digests \cup {None}, old : ReadRun \cup {None}]]
    /\ op \in [Keys -> [state : {"none", "prepared", "completed"}, old : ReadRun \cup {None}]]
    /\ file \in [Launches -> [preparation : Deployments \cup {None}, request : BOOLEAN,
                              failure : BOOLEAN, receipt : Digests \cup {None}]]
    /\ objects \subseteq Digests
    /\ source \in [Digests -> Launches \cup {None}]
    /\ task \in [Keys -> {"absent", "draft", "revised"}]
    /\ session \in [Keys -> SessionOf \cup {None}]
    /\ dir \in [Keys -> BOOLEAN]
    /\ run \in [Keys -> RunOf \cup {None}]
    /\ worker \in [Workers -> [key : Keys \cup {None}, seen : Nat]]
    /\ installed \in Deployments
    /\ captures \in [Launches -> Nat] /\ lost \in [Launches -> Nat]
    /\ calls \in 0 .. MaxCalls /\ moves \in 0 .. MaxMoves

\* However often a launch is repeated, interrupted or overtaken by a launch of
\* the same commit, its Run works on the archive its receipt sealed, which is in
\* the object store and recorded as a source, under the deployment it prepared;
\* the Run of a restart works on what the restarted Run worked on; and a
\* completed operation has its Run (Start, RestartAuthoringRun).
RunBoundToReceipt ==
    /\ \A l \in Launches : run[l] # None =>
        /\ run[l].digest = file[l].receipt /\ run[l].definition = file[l].preparation
        /\ run[l].digest \in objects /\ source[run[l].digest] # None
    /\ \A k \in Restarts : run[k] # None =>
        /\ run[k].digest = run[op[k].old.run].digest
        /\ run[k].definition = run[op[k].old.run].definition
    /\ \A k \in Keys : op[k].state = "completed" => run[k] # None

\* Git is asked again only when a capture was lost before its receipt: two
\* callers of one launch never fetch side by side, and a sealed launch never
\* fetches again (ensureStandardAuthoringLaunchCaptureReceipt: "a retry that
\* sees this receipt must never contact Git again").
RecaptureOnlyAfterInterruption ==
    \A l \in Launches : captures[l] <= 1 + lost[l]

\* A Run that had succeeded or failed for good when it was restarted leaves its
\* Task a draft for ever: no stage of it that is still under way gives the Task
\* a revision beside the restart's ("The old Run, session, and Task remain
\* immutable history", RestartAuthoringRun; MaterializeAuthoringTask).
RestartedRunIsHistory ==
    \A k \in Restarts : op[k].state # "none" /\ op[k].old.status = "ended" =>
        task[op[k].old.run] = "draft"
=============================================================================
