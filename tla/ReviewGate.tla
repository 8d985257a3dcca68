------------------------------ MODULE ReviewGate ------------------------------
(***************************************************************************)
(* Review gates: a stage that hands a Run to an operator and takes it back *)
(* (internal/harbor/store/v15_review_gates.go and                          *)
(* v22_authoring_review_gates.go; internal/app/review_gate_runtime.go,     *)
(* review_gate_resolution_runtime.go, review_gate_service.go and their     *)
(* authoring counterparts; frozen_execution_runtime.go).                   *)
(*                                                                         *)
(* A worker opens a gate, operators decide it from copies that may be      *)
(* stale, a resolution job completes the stage with the decision's verdict *)
(* and moves the Run on.  Deliveries lose their leases; a recovery pass    *)
(* handles what was lost.  Each action is one store transaction or one     *)
(* read.  A copy of the Run or of a stage is current until the next write  *)
(* of its row: that is what the versions are compared for.  The node       *)
(* attempt of a gate follows its stage attempt and the review request is   *)
(* closed with the decision, so neither has a variable.                    *)
(* What the Run does between two gates is the coordinator's choice         *)
(* (RunControl and RunRecovery have its steps).                            *)
(***************************************************************************)
EXTENDS Integers, Sequences, FiniteSets, FiniteSetsExt, SequencesExt

CONSTANTS
    Workers,        \* deliveries that can be under way at once
    Operators,      \* operators that read a gate and decide it
    Recovery,       \* the recovery pass of a new session or of an operator
    MaxGates,       \* bound: gates the Run comes to
    MaxRequests,    \* bound: terminations and continuations an operator asks for
    MaxFaults       \* bound: deliveries that lose their lease

ASSUME ReviewAssumption ==
    /\ MaxGates \in Nat \ {0} /\ MaxRequests \in Nat /\ MaxFaults \in Nat
    /\ Recovery \notin Workers
    /\ Operators \cap (Workers \cup {Recovery}) = {}

Gates == 1 .. MaxGates
Actors == Workers \cup {Recovery}
Start(a) == <<"start", a>>           \* stage_attempt.execute
Resolve(a) == <<"resolve", a>>       \* review_gate.resolve
Coordinate(a) == <<"coordinate", a>> \* workflow_run.execute after gate a
Continue == <<"continue", 0>>        \* task_continuation.execute
Coordinators == {Coordinate(a) : a \in 0 .. MaxGates} \cup {Continue}
Jobs == Coordinators \cup {Start(a) : a \in Gates} \cup {Resolve(a) : a \in Gates}
NoJob == <<"none", 0>>

Actions == {"approve", "request_changes", "reject_terminal"}

VARIABLES
    subject,   \* "task": a task revision; "authoring": an authoring session
    run,       \* status of the Run
    stage,     \* stage[a]: status and verdict of gate a's attempt
    current,   \* the copies that are still of the row's version: <<owner, row>>
    decision,  \* decision[a]: the operator's action on gate a
    control,   \* the terminate operation
    job,       \* job[j]: state of the durable job
    lost,      \* the jobs in doubt, oldest first
    actor,     \* actor[x]: the handler a worker or the recovery pass is in
    todo,      \* what is left of the recovery pass
    operator,  \* operator[o]: the gate whose versions o has read, or 0
    faults

gates == <<stage, decision>>
queue == <<job, lost>>
vars == <<subject, run, stage, current, decision, control, job, lost, actor, todo, operator, faults>>

RunStatus == {"queued", "running", "waiting_review", "waiting_continuation",
              "failed_recoverable", "failed_terminal", "cancel_requested",
              "stop_requested", "canceled", "succeeded"}
FinishedRun == {"succeeded", "failed_recoverable", "failed_terminal", "canceled"}
StageStatus == {"absent", "queued", "running", "waiting", "completed", "canceled",
                "interrupted"}
Verdicts == {"none", "pass", "needs_repair", "reject"}
JobState == {"absent", "queued", "running", "lapsed", "in_doubt", "succeeded", "failed",
             "canceled", "interrupted"}
Phase == {"idle", "look", "begin", "open", "complete", "project", "move", "enqueue",
          "done", "refused"}

Idle == [phase |-> "idle", job |-> NoJob]
RunRow == 0
Rows == {RunRow} \cup Gates

TypeOK ==
    /\ subject \in {"task", "authoring"}
    /\ run \in RunStatus
    /\ stage \in [Gates -> [status : StageStatus, verdict : Verdicts]]
    /\ current \subseteq (Actors \cup Operators) \X Rows
    /\ decision \in [Gates -> Actions \cup {"none"}]
    /\ control \in {"absent", "requested", "acknowledged"}
    /\ job \in [Jobs -> JobState]
    /\ lost \in Seq(Jobs) /\ \A i \in DOMAIN lost : job[lost[i]] = "in_doubt"
    /\ actor \in [Actors -> [phase : Phase, job : Jobs \cup {NoJob}]]
    /\ todo \in Seq(Jobs)
    /\ operator \in [Operators -> Gates \cup {0}]
    /\ faults \in 0 .. MaxFaults

Init ==
    /\ subject \in {"task", "authoring"}
    /\ run = "queued"
    /\ stage = [a \in Gates |-> [status |-> "absent", verdict |-> "none"]]
    /\ current = {}
    /\ decision = [a \in Gates |-> "none"]
    /\ control = "absent"
    /\ job = [j \in Jobs |-> IF j = Coordinate(0) THEN "queued" ELSE "absent"]
    /\ lost = <<>>
    /\ actor = [x \in Actors |-> Idle]
    /\ todo = <<>>
    /\ operator = [o \in Operators |-> 0]
    /\ faults = 0

-----------------------------------------------------------------------------
(* The Run, the stage attempts and the jobs.                               *)

\* validWorkflowRunTransition, for the statuses a Run takes here.
ValidRunTransition(from, to) ==
    CASE from = "queued"   -> to \in {"running", "cancel_requested", "canceled"}
      [] from = "running"  -> to \notin {"running", "queued"}
      [] from = "waiting_review" ->
            to \in {"running", "waiting_continuation", "failed_terminal", "cancel_requested",
                    "canceled"}
      [] from = "waiting_continuation" -> to \in {"running", "cancel_requested", "canceled"}
      [] from \in {"cancel_requested", "stop_requested"} -> to = "canceled"
      [] from = "failed_recoverable" -> to \in {"running", "canceled"}
      [] from = "canceled" -> to = "running"
      [] OTHER             -> FALSE

SetStage(a, status, verdict) ==
    stage' = [stage EXCEPT ![a] = [status |-> status, verdict |-> verdict]]

\* Rows are written: every copy of them is out of date.
Write(rows) == current' = {c \in current : c[2] \notin rows}

\* Process p has copies of `taken' and of nothing else, and writes `rows'.
Hold(p, taken, rows) ==
    current' = {c \in current : c[1] # p /\ c[2] \notin rows} \cup ({p} \X taken)
Holds(p, rows) == {p} \X rows \subseteq current

\* runWorkerEligibleCommandTypes.
Eligible(j) ==
    CASE run \in {"queued", "running", "cancel_requested", "stop_requested"} -> TRUE
      [] run = "waiting_review" -> j[1] = "resolve"
      [] run \in {"waiting_continuation", "failed_recoverable"} -> j = Continue
      [] OTHER -> FALSE

Enqueue(j) == job' = [job EXCEPT ![j] = IF @ = "absent" THEN "queued" ELSE @]

\* The dispatch fence of worker x; the recovery pass has none.
Authorised(x) == x = Recovery \/ job[actor[x].job] = "running"

Gate(x) == actor[x].job[2]

Go(x, phase) == actor' = [actor EXCEPT ![x].phase = phase]
Refuse(x) == Go(x, "refused") /\ Hold(x, {}, {}) /\ UNCHANGED <<run, stage>>

\* Workers, and operators, are alike: the first free one takes the work.
Free(x) == x = CHOOSE y \in Workers : actor[y] = Idle

-----------------------------------------------------------------------------
(* The rest of the workflow.                                               *)

Unused == {a \in Gates : stage[a].status = "absent"}

\* A coordinator's delivery.  It acknowledges a termination, or starts the
\* Run and comes to the next gate or to the end of its plan, or fails.
RunCoordinator(j) ==
    /\ job[j] = "queued" /\ Eligible(j)
    /\ IF control = "requested" /\ run = "cancel_requested"
       THEN /\ run' = "canceled" /\ control' = "acknowledged"
            /\ job' = [job EXCEPT ![j] = "canceled"]
            /\ Write({RunRow}) /\ UNCHANGED gates
       ELSE IF run = "stop_requested" \/ run = "cancel_requested"
       THEN /\ job' = [job EXCEPT ![j] = "failed"]
            /\ UNCHANGED <<run, gates, current, control>>
       ELSE /\ \/ /\ Unused # {}
                  /\ LET a == Min(Unused) IN
                     /\ SetStage(a, "queued", "none")
                     /\ job' = [job EXCEPT ![j] = "succeeded", ![Start(a)] = "queued"]
                  /\ run' = "running"
               \/ /\ run' \in {"succeeded", "failed_recoverable"}
                  /\ job' = [job EXCEPT ![j] = "succeeded"]
                  /\ UNCHANGED stage
            /\ Write(IF run' = run THEN {} ELSE {RunRow})
            /\ UNCHANGED <<decision, control>>
    /\ UNCHANGED <<subject, lost, actor, todo, operator, faults>>

Requests == Cardinality({j \in {Continue} : job[j] # "absent"})
            + Cardinality({c \in {control} : c # "absent"})

\* CommitContinuationExecution, once; the checkpoint is taken with it.
CommitContinuation ==
    /\ Requests < MaxRequests
    /\ job[Continue] = "absent" /\ Unused # {}
    /\ lost = <<>>
    /\ run = "running" \/ ValidRunTransition(run, "running")
    /\ run' = "running" /\ Write({RunRow})
    /\ Enqueue(Continue)
    /\ UNCHANGED <<subject, gates, control, lost, actor, todo, operator, faults>>

\* requestControlTargetTransitionTx, for terminate.  A Run that waits for
\* review is terminated too; nothing but a coordinator acknowledges it.
Terminate ==
    /\ Requests < MaxRequests
    /\ control = "absent"
    /\ \/ run = "running" /\ run' = "stop_requested"
       \/ run \in {"queued", "waiting_review", "waiting_continuation"}
          /\ run' = "cancel_requested"
    /\ control' = "requested" /\ Write({RunRow})
    /\ UNCHANGED <<subject, gates, queue, actor, todo, operator, faults>>

-----------------------------------------------------------------------------
(* A worker opens a gate.                                                  *)

Claim(x) ==
    /\ x \in Workers /\ actor[x] = Idle /\ Free(x)
    /\ \E j \in Jobs \ Coordinators :
          /\ job[j] = "queued" /\ Eligible(j)
          /\ job' = [job EXCEPT ![j] = "running"]
          /\ actor' = [actor EXCEPT ![x].phase = "look", ![x].job = j]
    /\ UNCHANGED <<subject, run, gates, current, control, lost, todo, operator, faults>>

Handles(x, kind, phase) == actor[x].job[1] = kind /\ actor[x].phase = phase

\* handleStageAttempt: a stage that waits or has ended needs nothing; a
\* termination cancels it (handlePreStageControl).
LookAtGate(x) ==
    LET a == Gate(x)
    IN  /\ x \in Workers /\ Handles(x, "start", "look")
        /\ IF stage[a].status \in {"waiting", "completed", "interrupted", "canceled"}
           THEN Go(x, "done") /\ UNCHANGED <<run, stage, current, control, job>>
           ELSE IF control # "requested"
           THEN Go(x, "begin") /\ Hold(x, {RunRow, a}, {})
                /\ UNCHANGED <<run, stage, control, job>>
           ELSE IF ~Authorised(x)
           THEN Refuse(x) /\ UNCHANGED <<control, job>>
           ELSE /\ SetStage(a, "canceled", "none") /\ Write({RunRow, a})
                /\ IF ValidRunTransition(run, "canceled") /\ run \notin FinishedRun
                   THEN /\ run' = "canceled" /\ control' = "acknowledged"
                        /\ job' = [job EXCEPT ![Start(a)] = "canceled"]
                        /\ actor' = [actor EXCEPT ![x] = Idle]
                   ELSE Go(x, "refused") /\ UNCHANGED <<run, control, job>>
        /\ UNCHANGED <<subject, decision, lost, todo, operator, faults>>

\* TransitionStageAttempt to running.
BeginGate(x) ==
    LET a == Gate(x)
    IN  /\ Handles(x, "start", "begin")
        /\ IF Authorised(x) /\ Holds(x, {a}) /\ stage[a].status = "queued"
           THEN /\ SetStage(a, "running", "none") /\ Go(x, "open")
                /\ Hold(x, {a} \cup {r \in {RunRow} : Holds(x, {r})}, {a})
                /\ UNCHANGED run
           ELSE Refuse(x)
        /\ UNCHANGED <<subject, decision, control, queue, todo, operator, faults>>

\* loadAuthoringReviewOpenStateTx, and the same checks inline in OpenReviewGate.
OpenState(x) ==
    /\ Holds(x, {RunRow, Gate(x)}) /\ run = "running"
    /\ stage[Gate(x)].status \in {"queued", "running"}

\* What both kinds of gate write.  The transaction is not fenced: a worker
\* whose delivery was lost still opens its gate.
Open(x) ==
    /\ Handles(x, "start", "open")
    /\ IF OpenState(x)
       THEN /\ SetStage(Gate(x), "waiting", "none")
            /\ run' = "waiting_review"
            /\ Go(x, "done") /\ Hold(x, {}, {RunRow, Gate(x)})
       ELSE Refuse(x)
    /\ UNCHANGED <<subject, decision, control, queue, todo, operator, faults>>

OpenReviewGate(x) == subject = "task" /\ Open(x)
OpenAuthoringReviewGate(x) == subject = "authoring" /\ Open(x)

-----------------------------------------------------------------------------
(* The operators.                                                          *)

Waiting(a) == run = "waiting_review" /\ stage[a].status = "waiting"

Take(o, a) ==
    /\ operator[o] = 0 /\ o = CHOOSE p \in Operators : operator[p] = 0
    /\ operator' = [operator EXCEPT ![o] = a]
    /\ Hold(o, {RunRow, a}, {})
    /\ UNCHANGED <<subject, run, gates, control, queue, actor, todo, faults>>

\* decideReviewGate reads the decisions, the Run and the stage of a gate.
ReadGate(o) ==
    /\ subject = "task"
    /\ \E a \in Gates : stage[a].status = "waiting" /\ decision[a] = "none" /\ Take(o, a)

\* CaptureCheckpoint of an authoring gate, decided or not.
CaptureCheckpoint(o) ==
    /\ subject = "authoring"
    /\ \E a \in Gates : stage[a].status = "waiting" /\ Take(o, a)

\* A mutant: a second decision replaces the first.
Mut_Record(o) ==
    LET a == operator[o]
    IN  /\ a # 0
        /\ operator' = [operator EXCEPT ![o] = 0]
        /\ \E action \in Actions : decision' = [decision EXCEPT ![a] = action]
        /\ Enqueue(Resolve(a))
        /\ Hold(o, {}, {})
        /\ UNCHANGED <<subject, run, stage, control, lost, actor, todo, faults>>

\* What both kinds of decision write: the decision, the closed request and the
\* queued resolution; or nothing.
Record(o) ==
    LET a == operator[o]
    IN  /\ a # 0
        /\ operator' = [operator EXCEPT ![o] = 0]
        /\ IF decision[a] = "none" /\ Waiting(a) /\ Holds(o, {RunRow, a})
           THEN /\ \E action \in Actions : decision' = [decision EXCEPT ![a] = action]
                /\ Enqueue(Resolve(a))
           ELSE UNCHANGED <<decision, job>>
        /\ Hold(o, {}, {})
        /\ UNCHANGED <<subject, run, stage, control, lost, actor, todo, faults>>

RecordReviewGateDecision(o) == subject = "task" /\ Record(o)
DecideAuthoringReviewGate(o) == subject = "authoring" /\ Record(o)

-----------------------------------------------------------------------------
(* A resolution, run by a worker or by the recovery pass.                  *)

\* reviewGateVerdict.
Verdict(action) ==
    CASE action = "approve"         -> "pass"
      [] action = "request_changes" -> "needs_repair"
      [] action = "reject_terminal" -> "reject"

\* A mutant: a completed stage leaves nothing to do.
Mut_Handle(x) ==
    /\ Handles(x, "resolve", "look")
    /\ IF stage[Gate(x)].status = "waiting"
       THEN Go(x, "complete") /\ Hold(x, {RunRow, Gate(x)}, {})
       ELSE Go(x, "done") /\ UNCHANGED current
    /\ UNCHANGED <<subject, run, gates, control, queue, todo, operator, faults>>

\* What both handlers do with what they have read.
Handle(x) ==
    LET a == Gate(x)
    IN  /\ Handles(x, "resolve", "look")
        /\ \/ stage[a].status = "waiting" /\ Go(x, "complete") /\ Hold(x, {RunRow, a}, {})
           \/ stage[a].status = "completed" /\ Go(x, "project") /\ UNCHANGED current
           \/ stage[a].status \notin {"waiting", "completed"} /\ Go(x, "refused")
              /\ UNCHANGED current
        /\ UNCHANGED <<subject, run, gates, control, queue, todo, operator, faults>>

HandleReviewGateResolution(x) == subject = "task" /\ Handle(x)
HandleAuthoringReviewGateResolution(x) == subject = "authoring" /\ Handle(x)

\* What both completions check and write.  A gate completed by another
\* delivery is replayed; it has the one decision's verdict.
Complete(x) ==
    LET a == Gate(x)
    IN  /\ Handles(x, "resolve", "complete")
        /\ IF Authorised(x) /\ stage[a].status = "completed"
           THEN Go(x, "project") /\ Hold(x, {}, {}) /\ UNCHANGED <<run, stage>>
           ELSE IF Authorised(x) /\ Waiting(a) /\ Holds(x, {RunRow, a})
           THEN /\ SetStage(a, "completed", Verdict(decision[a]))
                /\ Go(x, "project") /\ Hold(x, {}, {a}) /\ UNCHANGED run
           ELSE Refuse(x)
        /\ UNCHANGED <<subject, decision, control, queue, todo, operator, faults>>

CompleteReviewGateResolution(x) == subject = "task" /\ Complete(x)
CompleteAuthoringReviewGateResolution(x) == subject = "authoring" /\ Complete(x)

Target(action) ==
    CASE action = "approve"         -> "running"
      [] action = "request_changes" -> "waiting_continuation"
      [] action = "reject_terminal" -> "failed_terminal"

\* A mutant: requested changes leave the Run to its operator.
Mut_Projection(action) ==
    IF action = "approve" THEN IF run = "running" THEN "enqueue" ELSE "move"
    ELSE IF action = "reject_terminal" THEN "move" ELSE "done"

\* transitionRunToRunning and finishRunWithStatus read the Run again: it is
\* there already, it is to be moved, or the projection is refused.
Projection(action) ==
    LET next == IF action = "approve" THEN "enqueue" ELSE "done"
    IN  IF run = Target(action) THEN next
        ELSE IF action = "approve"
        THEN IF run \in {"queued", "waiting_review", "waiting_continuation",
                                "failed_recoverable", "canceled"} THEN "move" ELSE "refused"
        ELSE IF run \in FinishedRun THEN "refused" ELSE "move"

Project(x) ==
    /\ Handles(x, "resolve", "project")
    /\ LET phase == Projection(decision[Gate(x)]) IN
       Go(x, phase) /\ Hold(x, IF phase = "move" THEN {RunRow} ELSE {}, {})
    /\ UNCHANGED <<subject, run, gates, control, queue, todo, operator, faults>>

ProjectResolvedReviewGate(x) == subject = "task" /\ Project(x)
ProjectResolvedAuthoringReviewGate(x) == subject = "authoring" /\ Project(x)

\* TransitionWorkflowRun with the version that was read.
MoveRun(x) ==
    LET action == decision[Gate(x)]
    IN  /\ Handles(x, "resolve", "move")
        /\ IF Authorised(x) /\ Holds(x, {RunRow}) /\ ValidRunTransition(run, Target(action))
           THEN /\ run' = Target(action)
                /\ Go(x, IF action = "approve" THEN "enqueue" ELSE "done")
                /\ Hold(x, {}, {RunRow}) /\ UNCHANGED stage
           ELSE Refuse(x)
        /\ UNCHANGED <<subject, decision, control, queue, todo, operator, faults>>

\* enqueueNextCoordinator: the key names the stage job, a second call is a replay.
EnqueueNext(x) ==
    /\ Handles(x, "resolve", "enqueue")
    /\ IF Authorised(x)
       THEN Enqueue(Coordinate(Gate(x))) /\ Go(x, "done")
       ELSE Go(x, "refused") /\ UNCHANGED job
    /\ UNCHANGED <<subject, run, gates, current, control, lost, todo, operator, faults>>

\* The worker records how its handler returned, if the job is still its own.
Deliver(x) ==
    /\ x \in Workers /\ actor[x].phase \in {"done", "refused"}
    /\ job' = IF Authorised(x)
              THEN [job EXCEPT ![actor[x].job] =
                       IF actor[x].phase = "done" THEN "succeeded" ELSE "failed"]
              ELSE job
    /\ actor' = [actor EXCEPT ![x] = Idle]
    /\ UNCHANGED <<subject, run, gates, current, control, lost, todo, operator, faults>>

-----------------------------------------------------------------------------
(* Faults and recovery.                                                    *)

\* A delivery's lease runs out; its worker may be gone, or go on unaware.
LoseLease ==
    /\ faults < MaxFaults
    /\ \E x \in Workers :
          /\ actor[x].phase # "idle" /\ job[actor[x].job] = "running"
          /\ job' = [job EXCEPT ![actor[x].job] = "lapsed"]
          /\ \/ UNCHANGED <<actor, current>>
             \/ actor' = [actor EXCEPT ![x] = Idle] /\ Hold(x, {}, {})
    /\ faults' = faults + 1
    /\ UNCHANGED <<subject, run, gates, control, lost, todo, operator>>

\* A mutant: the scan reports what it has not marked.
Mut_Scan ==
    /\ \E j \in Jobs : job[j] = "lapsed"
    /\ lost' = lost \o SetToSeq({j \in Jobs : job[j] = "lapsed"})
    /\ UNCHANGED <<subject, run, gates, current, control, job, actor, todo, operator, faults>>

\* ScanExpiredDurableJobs.
Scan ==
    /\ \E j \in Jobs : job[j] = "lapsed"
    /\ LET found == {j \in Jobs : job[j] = "lapsed"} IN
       /\ job' = [j \in Jobs |-> IF j \in found THEN "in_doubt" ELSE job[j]]
       /\ lost' = lost \o SetToSeq(found)
    /\ UNCHANGED <<subject, run, gates, current, control, actor, todo, operator, faults>>

\* rebuildDurableJobRecoveries: every pass takes every job in doubt.
StartPass ==
    /\ todo = <<>> /\ actor[Recovery] = Idle /\ lost # <<>>
    /\ todo' = lost
    /\ UNCHANGED <<subject, run, gates, current, control, queue, actor, operator, faults>>

\* The next resolution is handled again as if it had been claimed.
RecoverResolution ==
    /\ todo # <<>> /\ actor[Recovery] = Idle /\ Head(todo)[1] = "resolve"
    /\ actor' = [actor EXCEPT ![Recovery].phase = "look", ![Recovery].job = Head(todo)]
    /\ todo' = Tail(todo)
    /\ UNCHANGED <<subject, run, gates, current, control, queue, operator, faults>>

\* Nothing is written of the delivery: it stays in doubt.  An error ends the pass.
EndRecovery ==
    /\ actor[Recovery].phase \in {"done", "refused"}
    /\ actor' = [actor EXCEPT ![Recovery] = Idle]
    /\ todo' = IF actor[Recovery].phase = "done" THEN todo ELSE <<>>
    /\ UNCHANGED <<subject, run, gates, current, control, queue, operator, faults>>

\* reconcileRecoveredStageJob for a gate.  A running stage is interrupted and
\* its Run closed; the end of a completed one is projected once more; a
\* waiting one needs nothing, and its delivery stays in doubt.
RecoverStart ==
    LET j == Head(todo)
        a == j[2]
        status == stage[a].status
        Settle == /\ job' = [job EXCEPT ![j] = "interrupted"]
                  /\ \E i \in DOMAIN lost : lost[i] = j /\ lost' = RemoveAt(lost, i)
                  /\ todo' = Tail(todo)
    IN  /\ todo # <<>> /\ actor[Recovery] = Idle /\ j[1] = "start"
        /\ \/ /\ status = "running"
              /\ SetStage(a, "interrupted", "none")
              /\ IF run \in {"running", "failed_recoverable"}
                 THEN run' = "failed_recoverable" /\ Write({RunRow, a}) /\ Settle
                 ELSE todo' = <<>> /\ Write({a}) /\ UNCHANGED <<run, queue>>
           \/ /\ status = "interrupted" /\ run = "failed_recoverable"
              /\ Settle
              /\ UNCHANGED <<run, stage, current>>
           \/ /\ status = "completed" /\ run = "running"
              /\ IF stage[a].verdict = "pass"
                 THEN Enqueue(Coordinate(a)) /\ UNCHANGED <<run, current>>
                 ELSE run' = Target(decision[a]) /\ Write({RunRow}) /\ UNCHANGED job
              /\ todo' = Tail(todo)
              /\ UNCHANGED <<stage, lost>>
           \/ /\ status # "running"
              /\ ~(status = "interrupted" /\ run = "failed_recoverable")
              /\ ~(status = "completed" /\ run = "running")
              /\ todo' = Tail(todo)
              /\ UNCHANGED <<run, stage, current, queue>>
        /\ UNCHANGED <<subject, decision, control, actor, operator, faults>>

-----------------------------------------------------------------------------
Handler(x) ==
    \/ OpenReviewGate(x) \/ OpenAuthoringReviewGate(x)
    \/ HandleReviewGateResolution(x) \/ HandleAuthoringReviewGateResolution(x)
    \/ CompleteReviewGateResolution(x) \/ CompleteAuthoringReviewGateResolution(x)
    \/ ProjectResolvedReviewGate(x) \/ ProjectResolvedAuthoringReviewGate(x)
    \/ MoveRun(x) \/ EnqueueNext(x)

Worker(x) == Claim(x) \/ LookAtGate(x) \/ BeginGate(x) \/ Handler(x) \/ Deliver(x)

Recover ==
    \/ Scan \/ StartPass \/ RecoverResolution \/ Handler(Recovery) \/ EndRecovery
    \/ RecoverStart

Operator(o) ==
    \/ ReadGate(o) \/ CaptureCheckpoint(o)
    \/ RecordReviewGateDecision(o) \/ DecideAuthoringReviewGate(o)

Next ==
    \/ \E j \in Coordinators : RunCoordinator(j)
    \/ CommitContinuation \/ Terminate
    \/ \E x \in Workers : Worker(x)
    \/ \E o \in Operators : Operator(o)
    \/ LoseLease \/ Recover

Spec == Init /\ [][Next]_vars

\* Deliveries proceed: a queued resolution has a session (RunActivation).
\* Nothing is assumed here of the recovery: no resident process makes a pass.
FairSpec == Spec /\ WF_vars(\E x \in Workers : Worker(x))

-----------------------------------------------------------------------------
\* A gate completes only with the verdict of its own decision, and that
\* decision is the one the gate was resolved with ever after, although several
\* operators decide from copies read at different times and resolutions are
\* repeated.
VerdictIsDecision ==
    \A a \in Gates : stage[a].status = "completed" => stage[a].verdict = Verdict(decision[a])

\* A Run that waits for review has something to wait for: a gate an operator
\* may decide, or a decided one whose outcome is still to be projected.
ReviewHasGate ==
    run = "waiting_review" =>
        \E a \in Gates :
           \/ stage[a].status = "waiting"
           \/ stage[a].status = "completed"
              /\ job[Resolve(a)] \in {"running", "lapsed", "in_doubt"}

\* The Run waits for gate a, which has been decided, and for no other.
DecidedWait(a) ==
    /\ run = "waiting_review" /\ decision[a] # "none"
    /\ \A b \in Gates \ {a} : stage[b].status # "waiting"

\* Whoever finds a lost delivery sees the pass through: a session of the Run
\* that is still there, the next one, or an operator who reconciles it.
RecoveryIsMade == WF_vars(Recover)

\* A decision ends the wait it was made for, even when the delivery of its
\* resolution is lost at any point and the Run is written in between; provided
\* that somebody makes the recovery passes, which the program leaves to its
\* operators when no session of the Run is left.
DecisionIsServed == RecoveryIsMade => \A a \in Gates : DecidedWait(a) ~> ~DecidedWait(a)
=============================================================================
