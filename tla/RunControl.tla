----------------------------- MODULE RunControl ------------------------------
(***************************************************************************)
(* Pause, cancel_stage and terminate on a running WorkflowRun, and the     *)
(* continuations that reopen it                                            *)
(* (internal/harbor/store/v5_control.go, v5_continuation_commit.go;        *)
(* internal/app/execution_control_service.go, task_continuation_service.go,*)
(* frozen_execution_runtime.go, run_worker_session.go).                    *)
(*                                                                         *)
(* One worker serves the Run; operators request controls and continuations *)
(* at any time.  As in RunRecovery a handler is a `plan' of store          *)
(* transactions executed one by one.  The worker keeps what it read of the *)
(* Run (`seen'); an operator's write in between makes it stale and its     *)
(* next compare-and-swap of the Run is refused.  Quota, artifacts and      *)
(* the fine steps of recovery are those of QuotaLedger and RunRecovery.    *)
(***************************************************************************)
EXTENDS Integers, Sequences, FiniteSets, SequencesExt, FiniteSetsExt

CONSTANTS
    N,                 \* the stages are 1 .. N, in topological order
    Layer,             \* Layer[s]: the batch of the initial plan stage s is in
    External,          \* stages with the effect external_side_effect
    Outcomes,          \* what a provider may report
    Controls,          \* control operations that may be requested, once each
    Action,            \* Action[c]
    Target,            \* Target[c]: the stage a cancel_stage addresses
    MaxRequests,       \* bound: controls requested
    MaxContinuations,  \* bound: continuations committed
    MaxFaults          \* bound: lost workers and failed control polls

Stages == 1 .. N
Plans == 0 .. MaxContinuations
NoControl == "none"

ASSUME ControlAssumption ==
    /\ N \in Nat \ {0}
    /\ Layer \in [Stages -> Nat]
    /\ \A s, t \in Stages : s < t => Layer[s] <= Layer[t]
    /\ External \subseteq Stages
    /\ Outcomes \subseteq {"pass", "needs_repair", "reject", "infra_failed",
                           "interrupted", "in_doubt"}
    /\ NoControl \notin Controls
    /\ Action \in [Controls -> {"pause", "cancel_stage", "terminate"}]
    /\ Target \in [Controls -> Stages]
    /\ MaxRequests \in Nat /\ MaxContinuations \in Nat /\ MaxFaults \in Nat

VARIABLES
    run,         \* status of the workflow_runs row
    draft,       \* the stages of a frozen continuation plan whose checkpoint
                 \* is current; no plan is empty
    plan,        \* plan[p]: the stages plan p schedules; p > 0 is a continuation
    execution,   \* execution[p]: state of the continuation execution
    runAttempt,  \* runAttempt[p]: status of the run attempt of plan p
    attempt,     \* attempt[p][s]: execution status, or verdict once completed
    latest,      \* latest[s]: the plan of the newest attempt of s
    control,     \* control[c]: status of a control operation
    base,        \* base[c]: the newest plan when c was requested, or that of
                 \* the stage attempt a cancel_stage addresses
    recent,      \* the pending controls, last updated first
    job,         \* job[j]: state of a durable job
    queue,       \* the queued jobs in dispatch order
    worker,      \* phase, job at hand, plan, what it saw, what its monitor holds
    faults

runRow  == <<run, draft>>
plans   == <<plan, execution, runAttempt>>
stages  == <<attempt, latest>>
ctl     == <<control, base, recent>>
jobs    == <<job, queue>>
vars == <<run, draft, plan, execution, runAttempt, attempt, latest,
          control, base, recent, job, queue, worker, faults>>

StageJob(p, s) == <<"stage", p, s, 0>>
Coordinator(p, cause, round) == <<"coordinator", p, cause, round>>
StageJobs == {StageJob(p, s) : p \in Plans, s \in Stages}
Coordinators ==
    {Coordinator(p, c, n) : p \in Plans, c \in Stages \cup {0}, n \in 0 .. MaxFaults}
Jobs == StageJobs \cup Coordinators
NoJob == <<"none", 0, 0, 0>>

RunStatus ==
    {"queued", "running", "pause_requested", "pausing", "paused", "resume_requested",
     "waiting_continuation", "cancel_requested", "stop_requested", "canceled", "succeeded",
     "failed_recoverable", "failed_terminal", "interrupted", "in_doubt"}
FinishedRun == {"succeeded", "failed_recoverable", "failed_terminal", "canceled", "interrupted"}
Completed == {"pass", "needs_repair", "reject"}
TerminalAttempt == Completed \cup {"infra_failed", "interrupted", "canceled"}
AttemptStatus == {"absent", "queued", "running", "in_doubt"} \cup TerminalAttempt
ExecutionState == {"absent", "queued", "running", "completed", "failed", "canceled",
                   "reconcile_required"}
Pending == {"requested", "propagating"}
ControlStatus == {"absent", "acknowledged", "reconcile_required", "failed"} \cup Pending
\* "lapsed": still running in its row, the worker and its lease are gone;
\* "lost": in_doubt with failure code job.lease_lost.
JobState == {"absent", "queued", "running", "lapsed", "succeeded", "failed",
             "interrupted", "canceled", "in_doubt", "lost"}

IdleWorker == [phase |-> "idle", job |-> NoJob, plan |-> <<>>, seen |-> "queued",
               fresh |-> FALSE, held |-> NoControl, pollFailed |-> FALSE]

TypeOK ==
    /\ run \in RunStatus
    /\ draft \subseteq Stages
    /\ plan \in [Plans -> SUBSET Stages]
    /\ execution \in [Plans -> ExecutionState]
    /\ runAttempt \in [Plans -> {"none", "queued", "running"} \cup FinishedRun \cup {"failed"}]
    /\ attempt \in [Plans -> [Stages -> AttemptStatus]]
    /\ latest \in [Stages -> Plans]
    /\ control \in [Controls -> ControlStatus]
    /\ base \in [Controls -> Plans]
    /\ ToSet(recent) = {c \in Controls : control[c] \in Pending}
    /\ job \in [Jobs -> JobState]
    /\ ToSet(queue) = {j \in Jobs : job[j] = "queued"}
    /\ worker.phase \in {"idle", "look", "handle", "recover"} /\ worker.job \in Jobs \cup {NoJob}
    /\ worker.seen \in RunStatus /\ worker.held \in Controls \cup {NoControl}
    /\ faults \in 0 .. MaxFaults

Init ==
    /\ run = "queued" /\ draft = {}
    /\ plan = [p \in Plans |-> IF p = 0 THEN Stages ELSE {}]
    /\ execution = [p \in Plans |-> "absent"]
    /\ runAttempt = [p \in Plans |-> "none"]
    /\ attempt = [p \in Plans |-> [s \in Stages |-> "absent"]]
    /\ latest = [s \in Stages |-> 0]
    /\ control = [c \in Controls |-> "absent"]
    /\ base = [c \in Controls |-> 0]
    /\ recent = <<>>
    /\ job = [j \in Jobs |-> IF j = Coordinator(0, 0, 0) THEN "queued" ELSE "absent"]
    /\ queue = <<Coordinator(0, 0, 0)>>
    /\ worker = IdleWorker
    /\ faults = 0

ValidRunTransition(from, to) ==
    CASE from = "queued"           -> to \in {"running", "cancel_requested", "canceled", "in_doubt"}
      [] from = "running"          -> to \notin {"running", "queued", "pausing", "paused", "resume_requested"}
      [] from = "pause_requested"  -> to \in {"pausing", "cancel_requested", "interrupted", "in_doubt"}
      [] from = "pausing"          -> to \in {"paused", "interrupted", "in_doubt"}
      [] from = "paused"           -> to \in {"resume_requested", "cancel_requested", "canceled"}
      [] from = "resume_requested" -> to \in {"running", "cancel_requested", "interrupted"}
      [] from = "waiting_continuation" -> to \in {"running", "cancel_requested", "canceled", "in_doubt"}
      [] from \in {"cancel_requested", "stop_requested"} -> to \in {"canceled", "in_doubt", "interrupted"}
      [] from = "in_doubt"         -> to \in FinishedRun \cup {"running"}
      [] from = "failed_recoverable" -> to \in {"running", "resume_requested", "canceled", "in_doubt"}
      [] from \in {"interrupted", "canceled"} -> to = "running"
      [] OTHER                     -> FALSE

\* A write of the Run makes every older checkpoint of it stale.
SetRun(status) == run' = status /\ draft' = {}

-----------------------------------------------------------------------------
(* The operators.                                                          *)

Committed == Cardinality({p \in Plans : p > 0 /\ plan[p] # {}})
Attempt(s) == attempt[latest[s]][s]

\* requestControlTargetTransitionTx: the Run's status on a request.  It names
\* a pausing Run too, but such a Run has no valid transition to make.
Requested(c) ==
    CASE Action[c] = "pause" /\ run = "running" -> "pause_requested"
      [] Action[c] = "terminate" /\ run = "running" -> "stop_requested"
      [] Action[c] = "terminate" /\ run \in {"queued", "pause_requested", "paused",
             "resume_requested", "waiting_continuation"} -> "cancel_requested"
      [] OTHER -> "refused"

Requestable(c) ==
    /\ control[c] = "absent"
    /\ Cardinality({d \in Controls : control[d] # "absent"}) < MaxRequests
    /\ IF Action[c] = "cancel_stage"
       THEN Attempt(Target[c]) \in {"queued", "running", "in_doubt"}
       ELSE Requested(c) # "refused"

\* The control and the Run's new status are one transaction.  An operation
\* key that is known returns its operation and changes nothing.
Request(c) ==
    /\ Requestable(c)
    /\ IF Action[c] = "cancel_stage"
       THEN /\ base' = [base EXCEPT ![c] = latest[Target[c]]]
            /\ UNCHANGED <<runRow, worker>>
       ELSE /\ base' = [base EXCEPT ![c] = Committed]
            /\ SetRun(Requested(c))
            /\ worker' = [worker EXCEPT !.fresh = FALSE]
    /\ control' = [control EXCEPT ![c] = "requested"]
    /\ recent' = <<c>> \o recent
    /\ UNCHANGED <<plans, stages, jobs, faults>>

\* Whatever its verdict, a completed stage has reusable artifacts.
Reusable(s) == Attempt(s) \in Completed

\* PlanInvalidation: the recomputed stages, those without artifacts, and all
\* that depends on them.
Invalidated(targets) ==
    {s \in Stages : \E t \in Stages :
        /\ t = s \/ Layer[t] < Layer[s]
        /\ t \in targets \/ ~Reusable(t)}

\* continuationTargets with no stage selected.
DefaultTargets ==
    LET failed == {s \in Stages :
            \/ Attempt(s) \in {"infra_failed", "interrupted", "canceled"}
            \/ run = "paused" /\ Attempt(s) \in {"queued", "running"}}
    IN  IF failed # {} THEN failed
        ELSE IF run \in {"canceled", "paused", "failed_recoverable",
                         "waiting_continuation", "interrupted"} THEN {1}
        ELSE {}

\* Freezes a plan against the Run as it stands.  An external stage that is
\* not confirmed is left out of the schedule.
PlanContinuation ==
    /\ draft = {} /\ Committed < MaxContinuations
    /\ run # "in_doubt"
    /\ \A p \in Plans, s \in Stages : attempt[p][s] # "in_doubt"
    /\ \E targets \in {DefaultTargets} \cup {{s} : s \in Stages} :
         \E unconfirmed \in SUBSET (Invalidated(targets) \cap External) :
            /\ targets # {} /\ Invalidated(targets) # unconfirmed
            /\ draft' = Invalidated(targets) \ unconfirmed
    /\ UNCHANGED <<run, plans, stages, ctl, jobs, worker, faults>>

\* continuationRunIsReconciledTx.
Reconciled ==
    /\ \A p \in Plans, s \in Stages : attempt[p][s] # "in_doubt"
    /\ \A j \in Jobs : job[j] \notin {"lost", "in_doubt"}
    /\ \A c \in Controls : control[c] # "reconcile_required"
    /\ \A p \in Plans : execution[p] # "reconcile_required"

\* The plan's checkpoint, the Run, the execution and its job are one
\* transaction.
CommitContinuation ==
    LET p == Committed + 1
        j == Coordinator(p, 0, 0)
    IN  /\ draft # {}
        /\ run # "in_doubt" /\ Reconciled
        /\ run \in {"paused", "running"} \/ ValidRunTransition(run, "running")
        /\ SetRun("running")
        /\ plan' = [plan EXCEPT ![p] = draft]
        /\ execution' = [execution EXCEPT ![p] = "queued"]
        /\ job' = [job EXCEPT ![j] = "queued"]
        /\ queue' = Append(queue, j)
        /\ worker' = [worker EXCEPT !.fresh = FALSE]
        /\ UNCHANGED <<runAttempt, stages, ctl, faults>>

-----------------------------------------------------------------------------
(* The worker's loop.                                                      *)

\* A mutant: a paused Run serves every job.
Mut_Claimable ==
    IF worker.seen \in {"waiting_continuation", "failed_recoverable"}
    THEN {j \in Coordinators : j[2] > 0}
    ELSE IF worker.seen \in {"succeeded", "failed_terminal", "canceled", "interrupted", "in_doubt"}
    THEN {} ELSE Jobs

\* runWorkerEligibleCommandTypes, for the status the session read last.
Claimable ==
    CASE worker.seen \in {"queued", "running", "pause_requested", "pausing", "resume_requested",
                          "cancel_requested", "stop_requested"} -> Jobs
      [] worker.seen \in {"waiting_continuation", "paused", "failed_recoverable"} ->
            {j \in Coordinators : j[2] > 0}
      [] OTHER -> {}

\* The session reads the Run, and only then lists and claims its jobs.
Look ==
    /\ worker.phase = "idle"
    /\ \E j \in Jobs : job[j] \in {"queued", "lapsed", "lost"}
    /\ worker' = [IdleWorker EXCEPT !.phase = "look", !.seen = run]
    /\ UNCHANGED <<runRow, plans, stages, ctl, jobs, faults>>

Read == <<<<"read">>>>

LoadPlan(j) ==
    LET begin == <<<<"controls">>>> \o Read \o
                 <<<<"begin">>, <<"run_attempt">>, <<"decide">>, <<"deliver", "succeeded">>>>
    IN  IF j \in StageJobs THEN <<<<"load">>>>
        ELSE IF j[2] = 0 THEN Read \o begin
        ELSE Read \o <<<<"inputs">>, <<"start_execution">>>> \o begin

\* The places of the queue the session may claim, the first one first.
Eligible == {i \in DOMAIN queue : queue[i] \in Claimable}

Claim ==
    /\ worker.phase = "look"
    /\ IF Eligible = {}
       THEN worker' = IdleWorker /\ UNCHANGED jobs
       ELSE LET j == queue[Min(Eligible)]
            IN  /\ job' = [job EXCEPT ![j] = "running"]
                /\ queue' = RemoveAt(queue, Min(Eligible))
                /\ worker' = [IdleWorker EXCEPT !.phase = "handle", !.job = j,
                                                !.plan = LoadPlan(j)]
    /\ UNCHANGED <<runRow, plans, stages, ctl, faults>>

-----------------------------------------------------------------------------
(* Executing a plan.                                                       *)

At(op) == worker.plan # <<>> /\ Head(worker.plan)[1] = op
Arg(n) == Head(worker.plan)[n]
Proceed(ops) == worker' = [worker EXCEPT !.plan = ops \o Tail(@)]
Divert(ops) == worker' = [worker EXCEPT !.plan = ops]
\* An error fails the handler's job, and ends a recovery.
Refuse == Divert(<<<<"deliver", "failed">>>>)
P == worker.job[2]        \* the plan, and the stage, of the job at hand
S == worker.job[3]

ReadRun ==
    /\ At("read")
    /\ worker' = [worker EXCEPT !.plan = Tail(@), !.seen = run, !.fresh = TRUE]
    /\ UNCHANGED <<runRow, plans, stages, ctl, jobs, faults>>

\* TransitionWorkflowRun from the version that was read.
Move ==
    /\ At("move")
    /\ IF worker.fresh /\ ValidRunTransition(run, Arg(2))
       THEN /\ SetRun(Arg(2))
            /\ worker' = [worker EXCEPT !.plan = Tail(@), !.seen = Arg(2)]
       ELSE Refuse /\ UNCHANGED runRow
    /\ UNCHANGED <<plans, stages, ctl, jobs, faults>>

Finish(target) == Read \o <<<<"finish", target>>>>

\* finishRunWithStatus.
FinishRun ==
    LET target == Arg(2)
    IN  /\ At("finish")
        /\ IF worker.seen = target THEN Proceed(<<>>) /\ UNCHANGED runRow
           ELSE IF worker.seen \in FinishedRun \/ ~worker.fresh
                   \/ ~ValidRunTransition(run, target)
           THEN Refuse /\ UNCHANGED runRow
           ELSE /\ SetRun(target)
                /\ Proceed(IF target \in FinishedRun THEN <<<<"finish_attempts", target>>>>
                           ELSE <<>>)
        /\ UNCHANGED <<plans, stages, ctl, jobs, faults>>

FinishRunAttempts ==
    LET outcome == IF Arg(2) \in {"succeeded", "canceled", "interrupted"} THEN Arg(2) ELSE "failed"
    IN  /\ At("finish_attempts")
        /\ runAttempt' = [p \in Plans |->
              IF runAttempt[p] = "running" THEN outcome ELSE runAttempt[p]]
        /\ Proceed(<<>>)
        /\ UNCHANGED <<runRow, plan, execution, stages, ctl, jobs, faults>>

TransitionStageAttempt ==
    /\ At("attempt")
    /\ IF attempt[P][S] = Arg(2)
       THEN attempt' = [attempt EXCEPT ![P][S] = Arg(3)] /\ Proceed(<<>>)
       ELSE Refuse /\ UNCHANGED attempt
    /\ UNCHANGED <<runRow, plans, latest, ctl, jobs, faults>>

\* The pending controls but c.
Without(c) == IF \E i \in DOMAIN recent : recent[i] = c
              THEN RemoveAt(recent, CHOOSE i \in DOMAIN recent : recent[i] = c)
              ELSE recent

\* A mutant: a settled control stays listed as pending.
Mut_SetControl(c, status) ==
    /\ control' = [control EXCEPT ![c] = status]
    /\ recent' = <<c>> \o Without(c)
    /\ UNCHANGED base

\* TransitionExecutionControlOperation.
SetControl(c, status) ==
    /\ control' = [control EXCEPT ![c] = status]
    /\ recent' = (IF status \in Pending THEN <<c>> ELSE <<>>) \o Without(c)
    /\ UNCHANGED base

\* ackControl and requireControlReconcile propagate a requested control
\* first; failControl does not.
SettleControl ==
    LET c == Arg(2)
        target == Arg(3)
    IN  /\ At("control")
        /\ CASE control[c] = target -> Proceed(<<>>) /\ UNCHANGED ctl
             [] control[c] = "requested" /\ target # "failed" ->
                   SetControl(c, "propagating") /\ UNCHANGED worker
             [] control[c] = "propagating" \/ (control[c] = "requested" /\ target = "failed") ->
                   SetControl(c, target) /\ Proceed(<<>>)
             [] OTHER -> Refuse /\ UNCHANGED ctl
        /\ UNCHANGED <<runRow, plans, stages, jobs, faults>>

\* finishContinuationForRunOutcome.
FinishExecution ==
    /\ At("execution")
    /\ CASE P = 0 \/ execution[P] = Arg(2) -> Proceed(<<>>) /\ UNCHANGED execution
         [] P > 0 /\ execution[P] = "running" ->
               execution' = [execution EXCEPT ![P] = Arg(2)] /\ Proceed(<<>>)
         [] OTHER -> Refuse /\ UNCHANGED execution
    /\ UNCHANGED <<runRow, plan, runAttempt, stages, ctl, jobs, faults>>

Enqueue ==
    LET j == Arg(2)
    IN  /\ At("enqueue")
        /\ IF job[j] = "absent"
           THEN job' = [job EXCEPT ![j] = "queued"] /\ queue' = Append(queue, j)
           ELSE UNCHANGED jobs
        /\ Proceed(<<>>)
        /\ UNCHANGED <<runRow, plans, stages, ctl, faults>>

Deliver ==
    /\ At("deliver")
    /\ job' = IF worker.phase = "handle" THEN [job EXCEPT ![worker.job] = Arg(2)] ELSE job
    /\ worker' = IdleWorker
    /\ UNCHANGED <<runRow, plans, stages, ctl, queue, faults>>

-----------------------------------------------------------------------------
(* The coordinators: handleWorkflowRun and handleContinuation.             *)

\* Inputs a continuation preserves may have changed since its commit.
ValidateInputs ==
    /\ At("inputs")
    /\ \/ Proceed(<<>>) /\ UNCHANGED <<runRow, execution>>
       \/ /\ plan[P] # Stages
          /\ Refuse
          /\ IF /\ execution[P] \in {"queued", "running"}
                /\ run = "in_doubt" \/ ValidRunTransition(run, "in_doubt")
             THEN /\ execution' = [execution EXCEPT ![P] = "reconcile_required"]
                  /\ IF run = "in_doubt" THEN UNCHANGED runRow ELSE SetRun("in_doubt")
             ELSE UNCHANGED <<runRow, execution>>
    /\ UNCHANGED <<plan, runAttempt, stages, ctl, jobs, faults>>

StartExecution ==
    /\ At("start_execution")
    /\ IF execution[P] \in {"queued", "running"}
       THEN execution' = [execution EXCEPT ![P] = "running"] /\ Proceed(<<>>)
       ELSE Refuse /\ UNCHANGED execution
    /\ UNCHANGED <<runRow, plan, runAttempt, stages, ctl, jobs, faults>>

Ack(c) == <<<<"control", c, "acknowledged">>>>
Pause == <<<<"move", "pausing">>, <<"move", "paused">>>>

\* A mutant: the termination is acknowledged before the Run is canceled.
Mut_AckQueued(c) ==
    IF Action[c] = "pause" THEN Pause \o Ack(c) \o <<<<"deliver", "interrupted">>>>
    ELSE Ack(c) \o <<<<"move", "canceled">>, <<"deliver", "canceled">>>>

\* ackQueuedPause and ackQueuedTermination.
AckQueued(c) ==
    IF Action[c] = "pause" THEN Pause \o Ack(c) \o <<<<"deliver", "interrupted">>>>
    ELSE <<<<"move", "canceled">>>> \o Ack(c) \o <<<<"deliver", "canceled">>>>

\* handlePreExecutionControl, with the Run as it was loaded.  A terminate of
\* a running Run, which asks it to stop, is not for a coordinator.
PreExecutionControl ==
    LET addressed == {i \in DOMAIN recent :
            \/ Action[recent[i]] = "pause" /\ worker.seen = "pause_requested"
            \/ Action[recent[i]] = "terminate" /\ worker.seen = "cancel_requested"}
    IN  /\ At("controls")
        /\ IF addressed = {} THEN Proceed(<<>>) ELSE Divert(AckQueued(recent[Min(addressed)]))
        /\ UNCHANGED <<runRow, plans, stages, ctl, jobs, faults>>

\* transitionRunToRunning.
BeginRun ==
    /\ At("begin")
    /\ CASE worker.seen = "running" -> Proceed(<<>>)
         [] worker.seen \in {"queued", "resume_requested", "waiting_continuation",
                             "failed_recoverable", "interrupted", "canceled"} ->
               Proceed(<<<<"move", "running">>>>)
         [] worker.seen = "paused" ->
               Proceed(<<<<"move", "resume_requested">>, <<"move", "running">>>>)
         [] OTHER -> Refuse
    /\ UNCHANGED <<runRow, plans, stages, ctl, jobs, faults>>

EnsureRunAttempt ==
    /\ At("run_attempt")
    /\ runAttempt' = [runAttempt EXCEPT ![P] =
          CASE @ = "none" -> "queued" [] @ = "queued" -> "running" [] OTHER -> @]
    /\ IF runAttempt[P] = "none" THEN UNCHANGED worker ELSE Proceed(<<>>)
    /\ UNCHANGED <<runRow, plan, execution, stages, ctl, jobs, faults>>

Scheduled(s) == job[StageJob(P, s)] # "absent"
Passed(s) == Scheduled(s) /\ attempt[P][s] = "pass"
Blocked == \E s \in plan[P] :
    Scheduled(s) /\ attempt[P][s] \notin {"queued", "running", "pass"}

\* The initial plan runs in batches, a continuation stage by stage.
Before(t, s) == IF P = 0 THEN Layer[t] < Layer[s] ELSE t < s
NextBatch == {s \in plan[P] : ~Scheduled(s) /\ \A t \in plan[P] : Before(t, s) => Passed(t)}

\* One stage after the other, each attempt before its job.
Admissions(order) ==
    [i \in 1 .. 2 * Len(order) |->
        IF i % 2 = 1 THEN <<"plan_attempt", order[(i + 1) \div 2]>>
                     ELSE <<"enqueue", StageJob(P, order[i \div 2])>>]

DecideCoordinator ==
    /\ At("decide")
    /\ Proceed(IF Blocked THEN <<>>
               ELSE IF NextBatch # {} THEN Admissions(SetToSeq(NextBatch))
               ELSE IF \A s \in plan[P] : Passed(s) THEN Read \o <<<<"complete">>>>
               ELSE <<>>)
    /\ UNCHANGED <<runRow, plans, stages, ctl, jobs, faults>>

PlanStageAttempt ==
    LET s == Arg(2)
    IN  /\ At("plan_attempt")
        /\ IF attempt[P][s] = "absent"
           THEN /\ attempt' = [attempt EXCEPT ![P][s] = "queued"]
                /\ latest' = [latest EXCEPT ![s] = P]
           ELSE UNCHANGED stages
        /\ Proceed(<<>>)
        /\ UNCHANGED <<runRow, plans, ctl, jobs, faults>>

\* A mutant: the newest attempts are not looked at again.
Mut_CompleteRun ==
    /\ At("complete")
    /\ Proceed(Finish("succeeded") \o <<<<"close_execution">>>>)
    /\ UNCHANGED <<runRow, plans, stages, ctl, jobs, faults>>

\* completeRunIfSatisfied looks at the newest attempt of the planned stages.
CompleteRun ==
    /\ At("complete")
    /\ CASE worker.seen = "succeeded" -> Proceed(<<<<"close_execution">>>>)
         [] worker.seen = "running" /\ \A s \in plan[P] : Attempt(s) = "pass" ->
               Proceed(Finish("succeeded") \o <<<<"close_execution">>>>)
         [] OTHER -> Refuse
    /\ UNCHANGED <<runRow, plans, stages, ctl, jobs, faults>>

CloseExecution ==
    /\ At("close_execution")
    /\ execution' = [execution EXCEPT ![P] = IF @ = "running" THEN "completed" ELSE @]
    /\ Proceed(<<>>)
    /\ UNCHANGED <<runRow, plan, runAttempt, stages, ctl, jobs, faults>>

-----------------------------------------------------------------------------
(* The stage job: handleStageAttempt.                                      *)

\* The places of the pending controls that address the stage at hand.
Addresses(c) == Action[c] = "cancel_stage" => Target[c] = S /\ base[c] = P
Addressed == {i \in DOMAIN recent : Addresses(recent[i])}

Priority(c) == CASE Action[c] = "terminate" -> 3 [] Action[c] = "cancel_stage" -> 2
                 [] Action[c] = "pause" -> 1

\* handlePreStageControl: what control c makes of a stage not yet started.
AtBoundary(c) ==
    CASE Action[c] = "pause" -> Read \o <<<<"boundary_pause", c>>>>
      [] Action[c] = "cancel_stage" ->
            <<<<"attempt", "queued", "canceled">>>> \o Ack(c)
            \o Finish("failed_recoverable") \o <<<<"deliver", "canceled">>>>
      [] Action[c] = "terminate" ->
            <<<<"attempt", "queued", "canceled">>>> \o Finish("canceled")
            \o Ack(c) \o <<<<"deliver", "canceled">>>>

Start == <<<<"attempt", "queued", "running">>, <<"execute">>>>

\* pendingStageControl takes the strongest control, the newest among equals.
LoadStage ==
    LET strongest == {i \in Addressed :
            \A k \in Addressed : Priority(recent[k]) <= Priority(recent[i])}
        c == recent[Min(strongest)]
    IN  /\ At("load")
        /\ IF attempt[P][S] \in TerminalAttempt
           THEN Divert(<<<<"deliver", "succeeded">>>>) /\ UNCHANGED ctl
           ELSE IF Addressed = {} THEN Divert(Start) /\ UNCHANGED ctl
           ELSE /\ Divert(AtBoundary(c))
                /\ IF control[c] = "requested"
                   THEN SetControl(c, "propagating")
                   ELSE UNCHANGED ctl
        /\ UNCHANGED <<runRow, plans, stages, jobs, faults>>

\* A pause that finds the Run in another status does not hold the stage up.
BoundaryPause ==
    /\ At("boundary_pause")
    /\ Divert(IF worker.seen = "pause_requested"
              THEN <<<<"attempt", "queued", "running">>, <<"attempt", "running", "interrupted">>>>
                   \o Pause \o Ack(Arg(2)) \o <<<<"deliver", "interrupted">>>>
              ELSE Start)
    /\ UNCHANGED <<runRow, plans, stages, ctl, jobs, faults>>

\* The monitor takes the first control of the list that addresses the stage,
\* and drops it when it holds one at least as strong.
PollControls ==
    LET c == recent[Min(Addressed)]
        replaces == worker.held = NoControl \/ Priority(worker.held) < Priority(c)
    IN  /\ At("execute")
        /\ IF Addressed = {}
           THEN /\ worker.pollFailed
                /\ worker' = [worker EXCEPT !.pollFailed = FALSE]
                /\ UNCHANGED ctl
           ELSE /\ worker' = [worker EXCEPT !.held = IF replaces THEN c ELSE @,
                                            !.pollFailed = FALSE]
                /\ IF control[c] = "requested" THEN SetControl(c, "propagating")
                   ELSE UNCHANGED ctl
        /\ UNCHANGED <<runRow, plans, stages, jobs, faults>>

PollFails ==
    /\ At("execute") /\ ~worker.pollFailed
    /\ faults < MaxFaults /\ faults' = faults + 1
    /\ worker' = [worker EXCEPT !.pollFailed = TRUE]
    /\ UNCHANGED <<runRow, plans, stages, ctl, jobs>>

Close(execution_, delivery) == <<<<"execution", execution_>>, <<"deliver", delivery>>>>

\* afterStageTerminal with no control held.  The automatic repair loop after a
\* needs_repair or reject verdict is in CandidateChange.
AfterTerminal(status) ==
    CASE status = "pass" ->
            <<<<"enqueue", Coordinator(P, S, 0)>>, <<"deliver", "succeeded">>>>
      [] status = "needs_repair" ->
            Finish("waiting_continuation") \o Close("completed", "succeeded")
      [] status = "reject" -> Finish("failed_terminal") \o Close("failed", "succeeded")
      [] status = "infra_failed" -> Finish("failed_recoverable") \o Close("failed", "succeeded")
      [] status = "interrupted" -> Finish("interrupted") \o Close("failed", "succeeded")
      [] status = "canceled" -> Finish("failed_recoverable") \o Close("canceled", "succeeded")

\* afterStageTerminal with control c held.
ControlledTerminal(c, status, resumable) ==
    CASE Action[c] = "pause" /\ status = "interrupted" /\ ~resumable ->
            <<<<"control", c, "failed">>>> \o Finish("interrupted")
            \o <<<<"deliver", "interrupted">>>>
      [] Action[c] = "pause" /\ (status # "interrupted" \/ resumable) ->
            Read \o <<<<"pause_run">>>> \o Ack(c) \o <<<<"deliver", "interrupted">>>>
      [] Action[c] = "cancel_stage" ->
            Ack(c) \o IF status \in Completed THEN AfterTerminal(status)
                      ELSE Finish("failed_recoverable") \o <<<<"deliver", "canceled">>>>
      [] Action[c] = "terminate" ->
            Finish("canceled") \o Ack(c) \o <<<<"deliver", "canceled">>>>

\* projectStageTerminal: what the control held makes of the outcome.
Projected(outcome) ==
    LET ended == /\ worker.held # NoControl /\ Action[worker.held] # "pause"
                 /\ outcome \notin Completed
    IN  IF \/ outcome = "in_doubt" \/ worker.pollFailed
           \/ ended /\ Action[worker.held] = "terminate" /\ S \in External
        THEN "in_doubt"
        ELSE IF ended THEN "canceled" ELSE outcome

ExecuteStage ==
    /\ At("execute")
    /\ \E outcome \in Outcomes, resumable \in BOOLEAN :
         LET status == Projected(outcome)
             c == worker.held
         IN  Divert(<<<<"attempt", "running", status>>>> \o
                (CASE status = "in_doubt" -> Finish("in_doubt") \o
                       (IF c = NoControl THEN <<>>
                        ELSE <<<<"control", c, "reconcile_required">>>>)
                       \o <<<<"deliver", "in_doubt">>>>
                   [] status # "in_doubt" /\ c = NoControl -> AfterTerminal(status)
                   [] status # "in_doubt" /\ c # NoControl ->
                       ControlledTerminal(c, status, resumable)))
    /\ UNCHANGED <<runRow, plans, stages, ctl, jobs, faults>>

PauseRun ==
    /\ At("pause_run")
    /\ CASE worker.seen = "paused" -> Proceed(<<>>)
         [] worker.seen = "pause_requested" -> Proceed(Pause)
         [] OTHER -> Refuse
    /\ UNCHANGED <<runRow, plans, stages, ctl, jobs, faults>>

-----------------------------------------------------------------------------
(* A worker is lost; the next one scans and recovers what it left.         *)

Lose ==
    /\ worker.phase \in {"handle", "recover"}
    /\ faults < MaxFaults /\ faults' = faults + 1
    /\ job' = IF worker.phase = "handle" THEN [job EXCEPT ![worker.job] = "lapsed"] ELSE job
    /\ worker' = IdleWorker
    /\ UNCHANGED <<runRow, plans, stages, ctl, queue>>

\* A lost coordinator is recovered by the scan that finds it.
CoordinatorRecovery(j) ==
    IF /\ run \in {"queued", "running", "resume_requested"}
       /\ j[2] > 0 => execution[j[2]] \in {"queued", "running"}
    THEN <<<<"enqueue", Coordinator(j[2], j[3], j[4] + 1)>>>>
    ELSE <<>>

\* The lost delivery and the Run's pending controls are marked together.
Scan ==
    /\ worker.phase = "look"
    /\ Claimable = Jobs \/ Eligible # {}
    /\ \E j \in Jobs :
          /\ job[j] = "lapsed"
          /\ job' = [job EXCEPT ![j] = "lost"]
          /\ worker' = [worker EXCEPT !.phase = "recover", !.job = j,
                 !.plan = (IF j \in Coordinators THEN CoordinatorRecovery(j) ELSE <<>>)
                          \o <<<<"deliver", "none">>>>]
    /\ control' = [c \in Controls |->
          IF control[c] \in Pending THEN "reconcile_required" ELSE control[c]]
    /\ recent' = <<>>
    /\ UNCHANGED <<runRow, plans, stages, base, queue, faults>>

\* What a pass may do about lost stage job s of plan p.  While a control of
\* the Run has to be reconciled its running attempt is left alone.
StageRecoveries(p, s) ==
    LET status == attempt[p][s]
        end == <<<<"deliver", "none">>>>
        failed == <<<<"attempt", status, "interrupted">>>> \o Finish("failed_recoverable")
                  \o <<<<"execution", "failed">>, <<"settle">>>> \o end
        uncertain == <<<<"attempt", status, "in_doubt">>>> \o Finish("in_doubt") \o end
    IN  CASE /\ status \in {"running", "in_doubt"}
             /\ \A c \in Controls : control[c] # "reconcile_required" ->
               {failed} \cup (IF s \in External THEN {uncertain} ELSE {})
          [] status = "interrupted" /\ run = "failed_recoverable" -> {<<<<"settle">>>> \o end}
          [] status \in TerminalAttempt /\ run = "running" -> {<<<<"after", status>>>>}
          [] OTHER -> {}

\* A lost stage job is looked at in every pass.
Recover ==
    /\ worker.phase = "look"
    /\ Claimable = Jobs \/ Eligible # {}
    /\ \E p \in Plans, s \in Stages :
          /\ job[StageJob(p, s)] = "lost"
          /\ \E ops \in StageRecoveries(p, s) :
               worker' = [worker EXCEPT !.phase = "recover", !.job = StageJob(p, s), !.plan = ops]
    /\ UNCHANGED <<runRow, plans, stages, ctl, jobs, faults>>

RestoreTerminal ==
    /\ At("after")
    /\ Divert(AfterTerminal(Arg(2)))
    /\ UNCHANGED <<runRow, plans, stages, ctl, jobs, faults>>

SettleDelivery ==
    /\ At("settle")
    /\ job' = [job EXCEPT ![worker.job] = IF @ = "lost" THEN "interrupted" ELSE @]
    /\ Proceed(<<>>)
    /\ UNCHANGED <<runRow, plans, stages, ctl, queue, faults>>

-----------------------------------------------------------------------------
Coordinate ==
    \/ ValidateInputs \/ StartExecution \/ PreExecutionControl \/ BeginRun \/ EnsureRunAttempt
    \/ DecideCoordinator \/ PlanStageAttempt \/ CompleteRun \/ CloseExecution

Execute == LoadStage \/ BoundaryPause \/ ExecuteStage \/ PauseRun

Commit ==
    \/ ReadRun \/ Move \/ FinishRun \/ FinishRunAttempts \/ TransitionStageAttempt
    \/ SettleControl \/ FinishExecution \/ Enqueue \/ Deliver

Recovery == Scan \/ Recover \/ RestoreTerminal \/ SettleDelivery

Work == Look \/ Claim \/ Coordinate \/ Execute \/ Commit \/ Recovery

Next ==
    \/ \E c \in Controls : Request(c)
    \/ PlanContinuation \/ CommitContinuation
    \/ Work \/ PollControls
    \/ PollFails \/ Lose

Spec == Init /\ [][Next]_vars

-----------------------------------------------------------------------------
(* What was acknowledged was done and stays done: a terminate ended the Run *)
(* until an operator commits another continuation, a cancel_stage ended the *)
(* attempt it addressed.                                                    *)
AcknowledgedIsDone ==
    \A c \in Controls : control[c] = "acknowledged" =>
        CASE Action[c] = "terminate"    -> run = "canceled" \/ Committed > base[c]
          [] Action[c] = "cancel_stage" -> attempt[base[c]][Target[c]] \in TerminalAttempt
          [] OTHER                      -> TRUE

(* A paused Run is left only by an operator's terminate, by the commit of a *)
(* continuation, or by a coordinator of one: no stage job, recovery or     *)
(* coordinator of the initial plan moves it.                               *)
PauseHolds ==
    [][run = "paused" /\ run' # "paused" =>
          \/ run' = "cancel_requested"
          \/ Committed' > Committed
          \/ worker.phase = "handle" /\ worker.job \in Coordinators /\ P > 0]_vars

(* A Run succeeds only when every stage of a plan that was begun passed in  *)
(* its newest attempt, whichever plan made that, and it stays so whatever   *)
(* the other plans still have queued.                                      *)
SucceededMeansPassed ==
    run = "succeeded" => \E p \in Plans :
        /\ p = 0 \/ execution[p] \in {"running", "completed"}
        /\ \A s \in plan[p] : Attempt(s) = "pass"
=============================================================================
