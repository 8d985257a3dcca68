----------------------------- MODULE RunRecovery -----------------------------
(***************************************************************************)
(* One WorkflowRun from its first coordinator job to an outcome, with the  *)
(* semantic recovery of lost deliveries                                    *)
(* (internal/app/frozen_execution_runtime.go, run_worker_session.go,       *)
(* local_runtime_service.go; pkg/workflowkit/coordinator.go).              *)
(*                                                                         *)
(* A handler is a sequence of store transactions.  What an agent still has *)
(* to commit is its `plan'; every step executes the head of one plan, so a *)
(* crash, a store failure or the other agent falls between any two.  The   *)
(* transitions are optimistic: a row that moved since it was read refuses  *)
(* them.  Claims, leases and fences are those of DurableDispatch: a worker *)
(* that lost its lease writes nothing more, which is all `Lose' says.      *)
(***************************************************************************)
EXTENDS Integers, Sequences, FiniteSets, SequencesExt

CONSTANTS
    Stages,
    Layer,         \* Layer[s]: the batch of the frozen plan stage s is in
    Agents,        \* "worker", and "operator" for the run reconcile command
    Outcomes,      \* what a provider may report
    Effectful,     \* stages that leave artifacts or start external effects
    LossWindows,   \* the critical windows in which a worker may be lost too
    StoreFaults,   \* whether a store call may fail for good
    MaxFaults      \* bound: losses and store failures together

Start == "start"       \* the cause of the first coordinator job

ASSUME RunAssumption ==
    /\ IsFiniteSet(Stages) /\ Start \notin Stages
    /\ Layer \in [Stages -> Nat]
    /\ Agents \subseteq {"worker", "operator"}
    /\ Outcomes \subseteq {"pass", "needs_repair", "reject", "infra_failed", "unknown"}
    /\ Effectful \subseteq Stages
    /\ LossWindows \subseteq
          {"coordinator_unrecovered", "run_unrecovered", "run_unstarted", "stage_unstarted"}
    /\ StoreFaults \in BOOLEAN
    /\ MaxFaults \in Nat

VARIABLES
    run,          \* status of the workflow_runs row
    runAttempt,   \* status of the run attempt of the initial plan
    attempt,      \* attempt[s]: execution status, or verdict once completed
    evidence,     \* evidence[s]: an artifact or an external effect is recorded
    quota,        \* quota[s]: the admission leases of the stage job of s
    job,          \* job[j]: the state of a durable job
    queue,        \* the queued jobs in dispatch order
    agent,        \* agent[a]: phase, jobs to recover, job at hand, plan
    faults        \* losses and store failures so far

vars == <<run, runAttempt, attempt, evidence, quota, job, queue, agent, faults>>

(* Jobs are named by their idempotency keys.  The coordinator that follows *)
(* a stage job, or the recovery of a coordinator, is enqueued once.        *)
StageJob(s) == <<"stage", s, 0>>
Coordinator(cause, round) == <<"coordinator", cause, round>>
StageJobs == {StageJob(s) : s \in Stages}
Coordinators == {Coordinator(c, n) : c \in Stages \cup {Start}, n \in 0 .. MaxFaults}
Jobs == StageJobs \cup Coordinators
NoJob == <<"none", Start, 0>>

RunStatus == {"queued", "running", "waiting_continuation", "succeeded",
              "failed_recoverable", "failed_terminal", "interrupted", "in_doubt"}
FinishedRun == {"succeeded", "failed_recoverable", "failed_terminal", "interrupted"}
Verdicts == {"pass", "needs_repair", "reject"}
TerminalAttempt == Verdicts \cup {"infra_failed", "interrupted"}
AttemptStatus ==
    {"absent", "queued", "running", "in_doubt", "reconciling"} \cup TerminalAttempt

\* "lapsed": still running in its row, but its dispatch lease has expired;
\* "lost": in_doubt with failure code job.lease_lost.
JobState == {"absent", "queued", "running", "lapsed", "lost",
             "succeeded", "failed", "in_doubt", "interrupted"}

IdleAgent == [phase |-> "idle", todo |-> {}, job |-> NoJob, plan |-> <<>>]

TypeOK ==
    /\ run \in RunStatus
    /\ runAttempt \in {"none", "queued", "running", "succeeded", "failed", "interrupted"}
    /\ attempt \in [Stages -> AttemptStatus]
    /\ evidence \in [Stages -> BOOLEAN]
    /\ quota \in [Stages -> {"none", "active", "uncertain", "settled"}]
    /\ job \in [Jobs -> JobState]
    /\ \A j \in Jobs : job[j] = "queued" <=> \E i \in DOMAIN queue : queue[i] = j
    /\ \A a \in Agents : agent[a].phase \in {"idle", "scan", "recover", "claim", "handle"}
    /\ \A a \in Agents : agent[a].todo \subseteq Jobs /\ agent[a].job \in Jobs \cup {NoJob}
    /\ faults \in 0 .. MaxFaults

Init ==
    /\ run = "queued"
    /\ runAttempt = "none"
    /\ attempt = [s \in Stages |-> "absent"]
    /\ evidence = [s \in Stages |-> FALSE]
    /\ quota = [s \in Stages |-> "none"]
    /\ job = [j \in Jobs |-> IF j = Coordinator(Start, 0) THEN "queued" ELSE "absent"]
    /\ queue = <<Coordinator(Start, 0)>>
    /\ agent = [a \in Agents |-> IdleAgent]
    /\ faults = 0

-----------------------------------------------------------------------------
(* The agents' loops.                                                      *)

\* Outside these statuses no job modelled here is eligible and the session
\* stops.  The answer is not looked at again before the claim.
Eligible ==
    \/ run = "running"
    \/ run = "queued" /\ \E j \in Jobs : job[j] \in {"queued", "running", "lost"}

BeginCycle(a) ==
    /\ agent[a].phase = "idle"
    /\ a = "worker" => Eligible
    /\ agent' = [agent EXCEPT ![a].phase = "scan"]
    /\ UNCHANGED <<run, runAttempt, attempt, evidence, quota, job, queue, faults>>

Handled(j) == \E a \in Agents : agent[a].phase = "handle" /\ agent[a].job = j

Lapse(j) ==
    /\ job[j] = "running"
    /\ ~Handled(j)
    /\ job' = [job EXCEPT ![j] = "lapsed"]
    /\ UNCHANGED <<run, runAttempt, attempt, evidence, quota, queue, agent, faults>>

\* The operator's reconcile hands on only the stage jobs it scanned; both
\* agents add the lost stage jobs that the rows still show.
Scan(a) ==
    LET found == {j \in Jobs : job[j] = "lapsed"}
        handed == IF a = "operator" THEN found \cap StageJobs ELSE found
        listed == {j \in StageJobs : job[j] = "lost"}
    IN  /\ agent[a].phase = "scan"
        /\ job' = [j \in Jobs |-> IF j \in found THEN "lost" ELSE job[j]]
        /\ agent' = [agent EXCEPT ![a].phase = "recover", ![a].todo = handed \cup listed]
        /\ UNCHANGED <<run, runAttempt, attempt, evidence, quota, queue, faults>>

EndRecovery(a) ==
    /\ agent[a].phase = "recover"
    /\ agent[a].todo = {} /\ agent[a].plan = <<>>
    /\ agent' = [agent EXCEPT ![a] =
          IF a = "worker" THEN [IdleAgent EXCEPT !.phase = "claim"] ELSE IdleAgent]
    /\ UNCHANGED <<run, runAttempt, attempt, evidence, quota, job, queue, faults>>

LoadPlan(j) ==
    IF j \in StageJobs THEN <<<<"load">>>>
    ELSE <<<<"begin">>, <<"run_attempt">>, <<"decide">>, <<"deliver", "succeeded">>>>

\* The claim takes the oldest queued job of the Run, whatever became of it.
Claim(a) ==
    /\ agent[a].phase = "claim"
    /\ IF queue = <<>>
       THEN /\ agent' = [agent EXCEPT ![a] = IdleAgent]
            /\ UNCHANGED <<job, queue>>
       ELSE /\ job' = [job EXCEPT ![Head(queue)] = "running"]
            /\ queue' = Tail(queue)
            /\ agent' = [agent EXCEPT ![a] =
                  [IdleAgent EXCEPT !.phase = "handle", !.job = Head(queue),
                                    !.plan = LoadPlan(Head(queue))]]
    /\ UNCHANGED <<run, runAttempt, attempt, evidence, quota, faults>>

-----------------------------------------------------------------------------
(* Executing a plan.                                                       *)

At(a, op) == agent[a].plan # <<>> /\ Head(agent[a].plan)[1] = op
Arg(a, n) == Head(agent[a].plan)[n]

\* The head of the plan is done; what it calls for comes first.
Proceed(a, ops) == agent' = [agent EXCEPT ![a].plan = ops \o Tail(@)]

\* Where the handler goes on after an error: past an uncertain settlement, and
\* anywhere in failAdmittedStageIntegrity, the only plan that ends in a failure.
BestEffort(plan) ==
    \/ Head(plan)[1] = "quota" /\ Head(plan)[4] = "uncertain"
    \/ Len(plan) > 1 /\ plan[Len(plan)] = <<"deliver", "failed">>

\* An error fails the handler's job otherwise, and ends a recovery pass.
Refused(self) ==
    IF self.phase # "handle" THEN IdleAgent
    ELSE [self EXCEPT !.plan =
             IF BestEffort(@) THEN Tail(@) ELSE <<<<"deliver", "failed">>>>]
Refuse(a) == agent' = [agent EXCEPT ![a] = Refused(@)]

\* Mutant: the idempotency key is not looked up.
Mut_Enqueue(a) ==
    /\ At(a, "enqueue")
    /\ job' = [job EXCEPT ![Arg(a, 2)] = "queued"]
    /\ queue' = Append(queue, Arg(a, 2))
    /\ Proceed(a, <<>>)
    /\ UNCHANGED <<run, runAttempt, attempt, evidence, quota, faults>>

\* CreateDurableJob returns the job its idempotency key already names.
Enqueue(a) ==
    LET j == Arg(a, 2)
    IN  /\ At(a, "enqueue")
        /\ IF job[j] = "absent"
           THEN /\ job' = [job EXCEPT ![j] = "queued"]
                /\ queue' = Append(queue, j)
           ELSE UNCHANGED <<job, queue>>
        /\ Proceed(a, <<>>)
        /\ UNCHANGED <<run, runAttempt, attempt, evidence, quota, faults>>

TransitionStageAttempt(a) ==
    LET s == Arg(a, 2)
    IN  /\ At(a, "attempt")
        /\ IF attempt[s] = Arg(a, 3)
           THEN /\ attempt' = [attempt EXCEPT ![s] = Arg(a, 4)]
                /\ Proceed(a, <<>>)
           ELSE /\ Refuse(a)
                /\ UNCHANGED attempt
        /\ UNCHANGED <<run, runAttempt, evidence, quota, job, queue, faults>>

SettleQuota(a) ==
    /\ At(a, "quota")
    /\ quota' = [quota EXCEPT ![Arg(a, 2)] = IF @ \in Arg(a, 3) THEN Arg(a, 4) ELSE @]
    /\ Proceed(a, <<>>)
    /\ UNCHANGED <<run, runAttempt, attempt, evidence, job, queue, faults>>

ValidRunTransition(from, to) ==
    \/ from = "running" /\ to # "queued"
    \/ from = "queued" /\ to \in {"running", "in_doubt"}
    \/ from \in {"waiting_continuation", "failed_recoverable"} /\ to \in {"running", "in_doubt"}
    \/ from = "interrupted" /\ to = "running"
    \/ from = "in_doubt" /\ to \in FinishedRun \cup {"running"}

\* finishRunWithStatus: a Run that has the target status is left alone, run
\* attempts included; one that is finished otherwise refuses it.
FinishRun(a) ==
    LET target == Arg(a, 2)
    IN  /\ At(a, "finish")
        /\ IF run = target
           THEN Proceed(a, <<>>) /\ UNCHANGED run
           ELSE IF run \in FinishedRun \/ ~ValidRunTransition(run, target)
           THEN Refuse(a) /\ UNCHANGED run
           ELSE /\ run' = target
                /\ Proceed(a, IF target \in FinishedRun
                              THEN <<<<"finish_attempts", target>>>> ELSE <<>>)
        /\ UNCHANGED <<runAttempt, attempt, evidence, quota, job, queue, faults>>

FinishRunAttempts(a) ==
    LET outcome == CASE Arg(a, 2) = "succeeded" -> "succeeded"
                     [] Arg(a, 2) = "interrupted" -> "interrupted"
                     [] OTHER -> "failed"
    IN  /\ At(a, "finish_attempts")
        /\ runAttempt' = IF runAttempt = "running" THEN outcome ELSE runAttempt
        /\ Proceed(a, <<>>)
        /\ UNCHANGED <<run, attempt, evidence, quota, job, queue, faults>>

-----------------------------------------------------------------------------
(* The coordinator job: handleWorkflowRun.                                 *)

\* transitionRunToRunning opens finished but recoverable Runs as well.
BeginRun(a) ==
    /\ At(a, "begin")
    /\ IF run \in {"running", "queued", "waiting_continuation",
                   "failed_recoverable", "interrupted"}
       THEN run' = "running" /\ Proceed(a, <<>>)
       ELSE Refuse(a) /\ UNCHANGED run
    /\ UNCHANGED <<runAttempt, attempt, evidence, quota, job, queue, faults>>

EnsureRunAttempt(a) ==
    /\ At(a, "run_attempt")
    /\ IF runAttempt = "none"
       THEN runAttempt' = "queued" /\ UNCHANGED agent
       ELSE /\ runAttempt' = IF runAttempt = "queued" THEN "running" ELSE runAttempt
            /\ Proceed(a, <<>>)
    /\ UNCHANGED <<run, attempt, evidence, quota, job, queue, faults>>

\* A stage is known to the coordinator only through its job.
Scheduled(s) == job[StageJob(s)] # "absent"
Blocked == \E s \in Stages :
    Scheduled(s) /\ attempt[s] \notin {"queued", "running", "pass"}
Passed(s) == Scheduled(s) /\ attempt[s] = "pass"

\* Mutant: a batch opens when its predecessors are admitted, not passed.
Mut_NextBatch ==
    {s \in Stages : ~Scheduled(s) /\ \A t \in Stages : Layer[t] < Layer[s] => Scheduled(t)}

\* The unscheduled stages of the first batch that is not finished.
NextBatch ==
    {s \in Stages : ~Scheduled(s) /\ \A t \in Stages : Layer[t] < Layer[s] => Passed(t)}

\* One stage after the other, each attempt before its job.
Admissions(order) ==
    [i \in 1 .. 2 * Len(order) |->
        IF i % 2 = 1 THEN <<"plan_attempt", order[(i + 1) \div 2]>>
                     ELSE <<"enqueue", StageJob(order[i \div 2])>>]

DecideCoordinator(a) ==
    /\ At(a, "decide")
    /\ Proceed(a, IF Blocked THEN <<>>
                  ELSE IF NextBatch # {} THEN Admissions(SetToSeq(NextBatch))
                  ELSE IF \A s \in Stages : Passed(s) THEN <<<<"complete">>>>
                  ELSE <<>>)
    /\ UNCHANGED <<run, runAttempt, attempt, evidence, quota, job, queue, faults>>

PlanStageAttempt(a) ==
    LET s == Arg(a, 2)
    IN  /\ At(a, "plan_attempt")
        /\ attempt' = [attempt EXCEPT ![s] = IF @ = "absent" THEN "queued" ELSE @]
        /\ Proceed(a, <<>>)
        /\ UNCHANGED <<run, runAttempt, evidence, quota, job, queue, faults>>

CompleteRun(a) ==
    /\ At(a, "complete")
    /\ IF run = "succeeded" THEN Proceed(a, <<>>)
       ELSE IF run = "running" /\ \A s \in Stages : attempt[s] = "pass"
       THEN Proceed(a, <<<<"finish", "succeeded">>>>)
       ELSE Refuse(a)
    /\ UNCHANGED <<run, runAttempt, attempt, evidence, quota, job, queue, faults>>

-----------------------------------------------------------------------------
(* The stage job: handleStageAttempt, projectStageTerminal and             *)
(* afterStageTerminal.                                                     *)

AfterTerminal(s, status) ==
    CASE status = "pass"         -> <<<<"enqueue", Coordinator(s, 0)>>>>
      [] status = "needs_repair" -> <<<<"finish", "waiting_continuation">>>>
      [] status = "reject"       -> <<<<"finish", "failed_terminal">>>>
      [] status = "infra_failed" -> <<<<"finish", "failed_recoverable">>>>
      [] status = "interrupted"  -> <<<<"finish", "interrupted">>>>

\* Mutant: the stage ends before its quota is settled.
Mut_ProjectionEnds(s, outcome) ==
    <<<<"attempt", s, "running", outcome>>, <<"quota", s, {"active"}, "settled">>>>
        \o AfterTerminal(s, outcome) \o <<<<"deliver", "succeeded">>>>

Projection(s, outcome) ==
    <<<<"quota", s, {"active"}, "settled">>, <<"attempt", s, "running", outcome>>>>
        \o AfterTerminal(s, outcome) \o <<<<"deliver", "succeeded">>>>

Unresolved(s, delivery) ==
    <<<<"quota", s, {"active"}, "uncertain">>, <<"attempt", s, "running", "in_doubt">>,
      <<"finish", "in_doubt">>, <<"deliver", delivery>>>>

\* The stage attempt as the claimed job finds it.
LoadStage(a) ==
    LET s == agent[a].job[2]
    IN  /\ At(a, "load")
        /\ CASE attempt[s] \in TerminalAttempt -> Proceed(a, <<<<"deliver", "succeeded">>>>)
             [] attempt[s] = "queued" ->
                   Proceed(a, <<<<"attempt", s, "queued", "running">>, <<"admit", s>>>>)
             [] attempt[s] = "running" -> Proceed(a, <<<<"admit", s>>>>)
             [] OTHER -> Refuse(a)
        /\ UNCHANGED <<run, runAttempt, attempt, evidence, quota, job, queue, faults>>

\* A refused admission, or a failed charge of one that was granted, is an
\* infrastructure failure projected without a reservation to settle.
AdmitStageQuota(a) ==
    LET s == Arg(a, 2)
        refused == [agent EXCEPT ![a].plan = Tail(Projection(s, "infra_failed"))]
    IN  /\ At(a, "admit")
        /\ \/ /\ quota' = [quota EXCEPT ![s] = "active"]
              /\ Proceed(a, <<<<"execute", s>>>>)
              /\ UNCHANGED faults
           \/ /\ "infra_failed" \in Outcomes
              /\ agent' = refused
              /\ UNCHANGED <<quota, faults>>
           \/ /\ StoreFaults /\ faults < MaxFaults
              /\ quota' = [quota EXCEPT ![s] = "active"]
              /\ agent' = refused
              /\ faults' = faults + 1
        /\ UNCHANGED <<run, runAttempt, attempt, evidence, job, queue>>

\* The provider starts an external effect, journalled before it is called.
StartEffect(a) ==
    LET s == Arg(a, 2)
    IN  /\ At(a, "execute")
        /\ s \in Effectful /\ ~evidence[s]
        /\ evidence' = [evidence EXCEPT ![s] = TRUE]
        /\ UNCHANGED <<run, runAttempt, attempt, quota, job, queue, agent, faults>>

ExecuteStage(a) ==
    LET s == Arg(a, 2)
    IN  /\ At(a, "execute")
        /\ \E outcome \in Outcomes :
              Proceed(a, IF outcome = "unknown" THEN Unresolved(s, "in_doubt")
                         ELSE <<<<"persist", s>>>> \o Projection(s, outcome))
        /\ UNCHANGED <<run, runAttempt, attempt, evidence, quota, job, queue, faults>>

\* failAdmittedStageIntegrity: a node or retry fact could not be recorded.
FailAdmittedStage(a) ==
    /\ At(a, "execute")
    /\ StoreFaults /\ faults < MaxFaults
    /\ Proceed(a, Unresolved(Arg(a, 2), "failed"))
    /\ faults' = faults + 1
    /\ UNCHANGED <<run, runAttempt, attempt, evidence, quota, job, queue>>

\* Artifacts that cannot be persisted turn the outcome into a failure.
PersistArtifacts(a) ==
    LET s == Arg(a, 2)
    IN  /\ At(a, "persist")
        /\ \/ /\ evidence' = [evidence EXCEPT ![s] = @ \/ s \in Effectful]
              /\ Proceed(a, <<>>)
              /\ UNCHANGED faults
           \/ /\ StoreFaults /\ faults < MaxFaults /\ s \in Effectful
              /\ agent' = [agent EXCEPT ![a].plan = Projection(s, "infra_failed")]
              /\ faults' = faults + 1
              /\ UNCHANGED evidence
        /\ UNCHANGED <<run, runAttempt, attempt, quota, job, queue>>

\* The worker's own transition of the job it handled.
Deliver(a) ==
    /\ At(a, "deliver")
    /\ job' = [job EXCEPT ![agent[a].job] = Arg(a, 2)]
    /\ agent' = [agent EXCEPT ![a] = IdleAgent]
    /\ UNCHANGED <<run, runAttempt, attempt, evidence, quota, queue, faults>>

-----------------------------------------------------------------------------
(* Semantic recovery: reconcileRecoveredStageJob and its coordinator twin. *)

Requeueable == run \in {"queued", "running"}

\* Mutant: the uncertain quota is left for later.
Mut_StageRecoveryUncertain(s) ==
    IF attempt[s] \in {"running", "in_doubt", "reconciling"} /\ ~evidence[s]
    THEN <<<<"quota", s, {"active"}, "uncertain">>, <<"interrupt", s>>,
           <<"finish", "failed_recoverable">>, <<"settle", StageJob(s)>>>>
    ELSE <<>>

\* Mutant: a stage that is in doubt already is taken for one without evidence.
Mut_StageRecoveryBlind(s) ==
    CASE attempt[s] = "running" /\ evidence[s] ->
            <<<<"quota", s, {"active"}, "uncertain">>, <<"doubt", s>>, <<"finish", "in_doubt">>>>
      [] attempt[s] \in {"running", "in_doubt", "reconciling"} ->
            <<<<"quota", s, {"active"}, "uncertain">>, <<"quota", s, {"uncertain"}, "settled">>,
              <<"interrupt", s>>, <<"finish", "failed_recoverable">>, <<"settle", StageJob(s)>>>>
      [] OTHER -> <<>>

\* A lost attempt without evidence is interrupted; with it, it stays in
\* doubt.  A finished one only gets the projection it may be missing.
StageRecovery(s) ==
    CASE attempt[s] \in {"running", "in_doubt", "reconciling"} /\ evidence[s] ->
            <<<<"quota", s, {"active"}, "uncertain">>, <<"doubt", s>>, <<"finish", "in_doubt">>>>
      [] attempt[s] \in {"running", "in_doubt", "reconciling"} /\ ~evidence[s] ->
            <<<<"quota", s, {"active"}, "uncertain">>, <<"quota", s, {"uncertain"}, "settled">>,
              <<"interrupt", s>>, <<"finish", "failed_recoverable">>, <<"settle", StageJob(s)>>>>
      [] attempt[s] = "interrupted" /\ run = "failed_recoverable" ->
            <<<<"settle", StageJob(s)>>>>
      [] attempt[s] \in TerminalAttempt /\ run = "running" -> AfterTerminal(s, attempt[s])
      [] OTHER -> <<>>

CoordinatorRecovery(j) ==
    IF Requeueable THEN <<<<"enqueue", Coordinator(j[2], j[3] + 1)>>>> ELSE <<>>

Recover(a) ==
    /\ agent[a].phase = "recover" /\ agent[a].plan = <<>>
    /\ \E j \in agent[a].todo :
          agent' = [agent EXCEPT ![a].todo = @ \ {j}, ![a].job = j, ![a].plan =
                       IF j \in StageJobs THEN StageRecovery(j[2]) ELSE CoordinatorRecovery(j)]
    /\ UNCHANGED <<run, runAttempt, attempt, evidence, quota, job, queue, faults>>

\* The attempt is read again; the chain starts where it stands now.
InterruptAttempt(a) ==
    LET s == Arg(a, 2)
        end == <<<<"attempt", s, "reconciling", "interrupted">>>>
        middle == <<<<"attempt", s, "in_doubt", "reconciling">>>> \o end
    IN  /\ At(a, "interrupt")
        /\ Proceed(a, CASE attempt[s] = "running" ->
                              <<<<"attempt", s, "running", "in_doubt">>>> \o middle
                        [] attempt[s] = "in_doubt" -> middle
                        [] attempt[s] = "reconciling" -> end
                        [] OTHER -> <<>>)
        /\ UNCHANGED <<run, runAttempt, attempt, evidence, quota, job, queue, faults>>

DoubtAttempt(a) ==
    /\ At(a, "doubt")
    /\ attempt' = [attempt EXCEPT ![Arg(a, 2)] = IF @ = "running" THEN "in_doubt" ELSE @]
    /\ Proceed(a, <<>>)
    /\ UNCHANGED <<run, runAttempt, evidence, quota, job, queue, faults>>

SettleDelivery(a) ==
    LET j == Arg(a, 2)
    IN  /\ At(a, "settle")
        /\ IF job[j] = "lost"
           THEN job' = [job EXCEPT ![j] = "interrupted"] /\ Proceed(a, <<>>)
           ELSE Refuse(a) /\ UNCHANGED job
        /\ UNCHANGED <<run, runAttempt, attempt, evidence, quota, queue, faults>>

-----------------------------------------------------------------------------
(* Faults.                                                                 *)

Windows == {"coordinator_unrecovered", "run_unrecovered", "run_unstarted", "stage_unstarted"}
InWindow(a, window) ==
    LET self == agent[a]
    IN  \/ /\ window = "coordinator_unrecovered" /\ self.phase = "recover"
           /\ \/ self.todo \cap Coordinators # {}
              \/ self.job \in Coordinators /\ At(a, "enqueue")
        \/ /\ window = "run_unrecovered" /\ self.phase = "recover" /\ At(a, "finish")
        \/ /\ window = "run_unstarted" /\ self.phase = "handle"
           /\ self.job \in Coordinators /\ run = "queued"
        \/ /\ window = "stage_unstarted" /\ self.phase = "handle"
           /\ self.job \in StageJobs /\ attempt[self.job[2]] = "queued"

\* A crash, a lost lease, or the reply of a claim or transition that is lost.
Lose(a) ==
    /\ a = "worker"
    /\ agent[a].phase \in {"recover", "handle"}
    /\ {window \in Windows : InWindow(a, window)} \subseteq LossWindows
    /\ faults < MaxFaults
    /\ faults' = faults + 1
    /\ agent' = [agent EXCEPT ![a] = IdleAgent]
    /\ UNCHANGED <<run, runAttempt, attempt, evidence, quota, job, queue>>

\* A store call the code gives up on.
StoreFails(a) ==
    /\ StoreFaults
    /\ agent[a].plan # <<>>
    /\ ~At(a, "admit") /\ ~At(a, "execute") /\ ~At(a, "persist") /\ ~At(a, "deliver")
    /\ faults < MaxFaults
    /\ faults' = faults + 1
    /\ Refuse(a)
    /\ UNCHANGED <<run, runAttempt, attempt, evidence, quota, job, queue>>

Loop(a) == BeginCycle(a) \/ Scan(a) \/ Recover(a) \/ EndRecovery(a) \/ Claim(a)

Coordinate(a) ==
    \/ BeginRun(a) \/ EnsureRunAttempt(a) \/ DecideCoordinator(a)
    \/ PlanStageAttempt(a) \/ CompleteRun(a)

Execute(a) ==
    \/ LoadStage(a) \/ AdmitStageQuota(a) \/ StartEffect(a) \/ ExecuteStage(a)
    \/ FailAdmittedStage(a) \/ PersistArtifacts(a)

Commit(a) ==
    \/ Enqueue(a) \/ TransitionStageAttempt(a) \/ SettleQuota(a) \/ FinishRun(a)
    \/ FinishRunAttempts(a) \/ InterruptAttempt(a) \/ DoubtAttempt(a)
    \/ SettleDelivery(a) \/ Deliver(a)

Work(a) == Loop(a) \/ Coordinate(a) \/ Execute(a) \/ Commit(a)

Next ==
    \/ \E a \in Agents : Work(a) \/ Lose(a) \/ StoreFails(a)
    \/ \E j \in Jobs : Lapse(j)

Spec == Init /\ [][Next]_vars

(* A worker is activated again whenever the Run has work for it, an        *)
(* operator, where there is one, reconciles again and again, and dispatch  *)
(* leases nobody renews lapse.                                             *)
Fairness ==
    /\ \A a \in Agents : WF_vars(Work(a))
    /\ \A j \in Jobs : WF_vars(Lapse(j))

FairSpec == Spec /\ Fairness

-----------------------------------------------------------------------------
(* "a process crash cannot make a later batch run before its predecessor   *)
(* has a trustworthy terminal StageAttempt" (commitCoordinatorDecision):   *)
(* whatever coordinators were lost, repeated or overtaken.                 *)
PredecessorsPassed ==
    \A s, t \in Stages : attempt[s] # "absent" /\ Layer[t] < Layer[s] => attempt[t] = "pass"

(* A delivery is settled only once everything it left behind is: its stage *)
(* attempt interrupted, its quota neither held nor uncertain, and the Run  *)
(* told.  A settled delivery is never looked at again.                     *)
SettledMeansRecovered ==
    \A s \in Stages : job[StageJob(s)] = "interrupted" =>
        /\ attempt[s] = "interrupted"
        /\ quota[s] \in {"none", "settled"}
        /\ run # "queued"

(* A stage that passed and whose delivery is closed has handed on to a     *)
(* coordinator: no crash between the two writes loses the rest of the Run. *)
PassIsHandedOn ==
    \A s \in Stages : attempt[s] = "pass" /\ job[StageJob(s)] = "succeeded" =>
        job[Coordinator(s, 0)] # "absent"

(* However a stage's delivery was closed, by its worker or by a recovery,   *)
(* whatever the crashes in between: nothing it owed the Run is left.        *)
ClosedDeliveryLeavesNothing == SettledMeansRecovered /\ PassIsHandedOn

(* A stage ends with its admission still active only if it was admitted    *)
(* and never executed: an infrastructure failure without evidence.         *)
(* Whatever store call fails and whoever ends the stage, what a provider   *)
(* may have consumed is settled, or uncertain, before the stage ends.      *)
QuotaClosedWithStage ==
    \A s \in Stages : attempt[s] \in TerminalAttempt /\ quota[s] = "active" =>
        attempt[s] = "infra_failed" /\ ~evidence[s]

(* A stage in doubt whose outcome left evidence stays so, its uncertain    *)
(* charge is not given back and the Run is not completed over it, whatever *)
(* happens to its siblings and whoever recovers it again.                  *)
Doubtful(s) == attempt[s] = "in_doubt" /\ evidence[s]
InDoubtIsKept ==
    [][\A s \in Stages : Doubtful(s) =>
          /\ attempt'[s] = "in_doubt" /\ run' # "succeeded"
          /\ quota[s] = "uncertain" => quota'[s] = "uncertain"]_vars

(* A Run without a queued or attachable job does not stay `running' for    *)
(* ever (the invariant of docs/STUCK_RUNNING_LEASE_RECOVERY_REFACTOR_PLAN, *)
(* section 4.3): the sessions and reconciles that still come tell it what  *)
(* became of it.                                                           *)
Idle == \A j \in Jobs : job[j] \notin {"queued", "running", "lapsed"}
RunIsNotStranded == (run = "running" /\ Idle) ~> (run # "running" \/ ~Idle)
=============================================================================
