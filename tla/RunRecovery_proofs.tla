------------------------- MODULE RunRecovery_proofs -------------------------
(***************************************************************************)
(* Proofs about one Run and the recovery of its lost deliveries, for every *)
(* frozen plan, every set of stages and outcomes and any number of faults: *)
(* what is left of every plan still leads where the rows need it to.       *)
(***************************************************************************)
EXTENDS RunRecovery, FiniteSetTheorems, TLAPS

-----------------------------------------------------------------------------
(* The inductive invariant.                                                *)

AgentFields == {"phase", "todo", "job", "plan"}
RunAttemptStatus == {"none", "queued", "running", "succeeded", "failed", "interrupted"}
QuotaState == {"none", "active", "uncertain", "settled"}

Shapes ==
    /\ run \in RunStatus
    /\ runAttempt \in RunAttemptStatus
    /\ attempt \in [Stages -> AttemptStatus]
    /\ evidence \in [Stages -> BOOLEAN]
    /\ quota \in [Stages -> QuotaState]
    /\ job \in [Jobs -> JobState]
    /\ queue \in Seq(Jobs)
    /\ DOMAIN agent = Agents
    /\ \A a \in Agents : DOMAIN agent[a] = AgentFields
    /\ faults \in 0 .. MaxFaults

Gone == {"lost", "interrupted"}
Ended == {"pass", "needs_repair", "reject", "infra_failed"}
LowerPassed(s) == \A t \in Stages : Layer[t] < Layer[s] => attempt[t] = "pass"
AllPassed == \A s \in Stages : attempt[s] = "pass"
Closed(s) == quota[s] \in {"none", "settled"}
HandedOn(s) == attempt[s] = "pass" => job[Coordinator(s, 0)] # "absent"

\* A stage that may end in o without its admission settled was never executed.
Unspent(s, o) == quota[s] # "active" \/ (o = "infra_failed" /\ ~evidence[s])

\* What the rows of a stage say of each other, whoever works on it.
RowFits(s) ==
    /\ attempt[s] # "absent" => LowerPassed(s)
    /\ job[StageJob(s)] = "absent" => attempt[s] \in {"absent", "queued"} /\ quota[s] = "none"
    /\ job[StageJob(s)] = "queued" => attempt[s] = "queued" /\ quota[s] = "none"
    /\ job[StageJob(s)] # "absent" => attempt[s] # "absent" /\ run # "queued"
    /\ job[StageJob(s)] = "interrupted" => attempt[s] = "interrupted"
    /\ job[StageJob(s)] = "succeeded" => HandedOn(s)
    /\ attempt[s] = "interrupted" => Closed(s) /\ job[StageJob(s)] \in Gone
    /\ attempt[s] \in TerminalAttempt => Unspent(s, attempt[s])
    /\ quota[s] = "none" => ~evidence[s]

RunFits == run = "succeeded" => AllPassed

QueueFits ==
    /\ \A i, k \in 1 .. Len(queue) : queue[i] = queue[k] => i = k
    /\ \A j \in Jobs : job[j] = "queued" <=> \E i \in 1 .. Len(queue) : queue[i] = j

\* Every round of a coordinator but the first costs a fault.
RoundFits(j) ==
    /\ job[j] # "absent" => j[3] <= faults
    /\ \/ job[j] \in {"lapsed", "lost", "interrupted"}
       \/ job[j] = "running" /\ ~Handled(j)
       => j[3] + 1 <= faults

Told == {"waiting_continuation", "failed_terminal", "failed_recoverable", "interrupted"}
NextOps(s, status) ==
    IF status = "pass" THEN {<<"enqueue", Coordinator(s, 0)>>}
                       ELSE {<<"finish", target>> : target \in Told}

Settles(s) == <<"quota", s, {"active"}, "settled">>
Doubts(s) == <<"quota", s, {"active"}, "uncertain">>
Returns(s) == <<"quota", s, {"uncertain"}, "settled">>
Moves(s, from, to) == <<"attempt", s, from, to>>
Finish(target) == <<"finish", target>>
Closes(target) == <<"finish_attempts", target>>
Done(outcome) == <<"deliver", outcome>>

\* What is left of the handler of a stage job: before its attempt runs, before
\* its admission, before its outcome, at the outcome, after it, and in doubt.
Starting(s) == {<<<<"load">>>>, <<Moves(s, "queued", "running"), <<"admit", s>>>>}
Admitting(s) == {<<<<"admit", s>>>>}
Ending(s, o) == {<<Moves(s, "running", o), op, Done("succeeded")>> : op \in NextOps(s, o)}
Settling(s, o) ==
    {<<Settles(s), Moves(s, "running", o), op, Done("succeeded")>> : op \in NextOps(s, o)}
Persisting(s, o) ==
    {<<<<"persist", s>>, Settles(s), Moves(s, "running", o), op, Done("succeeded")>> :
        op \in NextOps(s, o)}
Telling(s, o) == {<<op, Done("succeeded")>> : op \in NextOps(s, o)}
Closing == {<<Closes(target), Done("succeeded")>> : target \in FinishedRun}
Doubting(s) ==
    {<<Doubts(s), Moves(s, "running", "in_doubt"), Finish("in_doubt"), Done(d)>> :
        d \in {"in_doubt", "failed"}}
    \cup {<<Moves(s, "running", "in_doubt"), Finish("in_doubt"), Done(d)>> :
        d \in {"in_doubt", "failed"}}
Failing ==
    {<<Finish("in_doubt"), Done(d)>> : d \in {"in_doubt", "failed"}}
    \cup {<<Done(d)>> : d \in {"in_doubt", "failed"}}

StagePlan(s, p) ==
    \/ attempt[s] = "queued" /\ quota[s] = "none" /\ p \in Starting(s)
    \/ attempt[s] = "running" /\ quota[s] = "none" /\ p \in Admitting(s)
    \/ attempt[s] = "running" /\ quota[s] # "none" /\ p \in {<<<<"execute", s>>>>}
    \/ attempt[s] = "running" /\ quota[s] # "none" /\ \E o \in Ended : p \in Persisting(s, o)
    \/ attempt[s] = "running" /\ p \in Doubting(s)
    \/ attempt[s] = "running" /\ \E o \in Ended : p \in Settling(s, o)
    \/ attempt[s] = "running" /\ \E o \in Ended : p \in Ending(s, o) /\ Unspent(s, o)
    \/ attempt[s] \in Ended /\ p \in Telling(s, attempt[s])
    \/ attempt[s] \in Ended /\ HandedOn(s) /\ p \in {<<Done("succeeded")>>} \cup Closing
    \/ p \in Failing

\* The admissions of a batch: a job comes after its attempt.
AdmitsAt(p, i) ==
    \/ \E s \in Stages : p[i] = <<"plan_attempt", s>> /\ LowerPassed(s)
    \/ \E s \in Stages :
          /\ p[i] = <<"enqueue", StageJob(s)>>
          /\ attempt[s] # "absent" \/ (i > 1 /\ p[i - 1] = <<"plan_attempt", s>>)

Admits(p) ==
    /\ Len(p) \in Nat \ {0} /\ p = [i \in 1 .. Len(p) |-> p[i]]
    /\ p[Len(p)] = Done("succeeded")
    /\ \A i \in 1 .. Len(p) - 1 : AdmitsAt(p, i)

Beginning == {<<<<"begin">>, <<"run_attempt">>, <<"decide">>, Done("succeeded")>>}
Deciding ==
    {<<<<"run_attempt">>, <<"decide">>, Done("succeeded")>>,
     <<<<"decide">>, Done("succeeded")>>, <<<<"complete">>, Done("succeeded")>>}
Completing ==
    {<<Finish("succeeded"), Done("succeeded")>>, <<Closes("succeeded"), Done("succeeded")>>}
Decided == {<<Done(d)>> : d \in {"succeeded", "failed"}}

CoordinatorPlan(p) ==
    \/ p \in Beginning \cup Decided
    \/ run # "queued" /\ (p \in Deciding \/ Admits(p))
    \/ AllPassed /\ p \in Completing

\* What is left of the recovery of a lost stage: what its outcome calls for, or
\* a stage in doubt with evidence, or one to interrupt, in four parts.
Projecting(s) ==
    {<<>>, <<<<"enqueue", Coordinator(s, 0)>>>>}
    \cup {<<Finish(target)>> : target \in Told \cup {"in_doubt"}}
    \cup {<<Closes(target)>> : target \in FinishedRun}
    \cup {<<Doubts(s), <<"doubt", s>>, Finish("in_doubt")>>,
          <<<<"doubt", s>>, Finish("in_doubt")>>}
Losing(s) ==
    {<<Doubts(s), Returns(s), <<"interrupt", s>>, Finish("failed_recoverable"),
       <<"settle", StageJob(s)>>>>}
Returning(s) ==
    {<<Returns(s), <<"interrupt", s>>, Finish("failed_recoverable"), <<"settle", StageJob(s)>>>>}
Interrupting(s) ==
    {<<<<"interrupt", s>>, Finish("failed_recoverable"), <<"settle", StageJob(s)>>>>,
     <<Moves(s, "running", "in_doubt"), Moves(s, "in_doubt", "reconciling"),
       Moves(s, "reconciling", "interrupted"), Finish("failed_recoverable"),
       <<"settle", StageJob(s)>>>>,
     <<Moves(s, "in_doubt", "reconciling"), Moves(s, "reconciling", "interrupted"),
       Finish("failed_recoverable"), <<"settle", StageJob(s)>>>>,
     <<Moves(s, "reconciling", "interrupted"), Finish("failed_recoverable"),
       <<"settle", StageJob(s)>>>>}
Interrupted(s) ==
    {<<Finish("failed_recoverable"), <<"settle", StageJob(s)>>>>,
     <<Closes("failed_recoverable"), <<"settle", StageJob(s)>>>>, <<<<"settle", StageJob(s)>>>>}

Interruptible(s) ==
    ~evidence[s] /\ attempt[s] \in {"running", "in_doubt", "reconciling", "interrupted"}

RecoveryPlan(s, p) ==
    \/ p \in Projecting(s)
    \/ Interruptible(s) /\ p \in Losing(s)
    \/ Interruptible(s) /\ quota[s] # "active" /\ p \in Returning(s)
    \/ Interruptible(s) /\ Closed(s) /\ p \in Interrupting(s)
    \/ attempt[s] = "interrupted" /\ p \in Interrupted(s)

HandlerFits(a) ==
    /\ a = "worker" /\ agent[a].job \in Jobs /\ job[agent[a].job] = "running"
    /\ \/ \E s \in Stages : agent[a].job = StageJob(s) /\ StagePlan(s, agent[a].plan)
       \/ agent[a].job \in Coordinators /\ CoordinatorPlan(agent[a].plan)

RecovererFits(a) ==
    /\ agent[a].todo \subseteq Jobs /\ \A j \in agent[a].todo : job[j] \in Gone
    /\ \/ agent[a].job \in Jobs \cup {NoJob} /\ agent[a].plan = <<>>
       \/ \E s \in Stages : /\ agent[a].job = StageJob(s) /\ job[StageJob(s)] \in Gone
                            /\ RecoveryPlan(s, agent[a].plan)
       \/ \E c \in Stages \cup {Start}, n \in 0 .. MaxFaults :
             /\ agent[a].job = Coordinator(c, n) /\ n + 1 <= faults
             /\ agent[a].plan = <<<<"enqueue", Coordinator(c, n + 1)>>>>

AgentFits(a) ==
    \/ /\ agent[a].phase \in {"idle", "scan", "claim"}
       /\ agent[a].todo = {} /\ agent[a].job = NoJob /\ agent[a].plan = <<>>
       /\ agent[a].phase = "claim" => a = "worker"
    \/ agent[a].phase = "recover" /\ RecovererFits(a)
    \/ agent[a].phase = "handle" /\ agent[a].todo = {} /\ HandlerFits(a)

IInv ==
    /\ Shapes /\ RunFits /\ QueueFits
    /\ \A s \in Stages : RowFits(s)
    /\ \A j \in Jobs : RoundFits(j)
    /\ \A a \in Agents : AgentFits(a)

-----------------------------------------------------------------------------
(* What a step may do to the rows of a stage, to a job and to the Run,     *)
(* seen by an agent that does not take it.                                 *)

Delivered == {"succeeded", "failed", "in_doubt"}
WorkerMoves == agent'["worker"] # agent["worker"]
Executes(s) ==
    /\ Handled(StageJob(s)) /\ attempt[s] = "running" /\ quota[s] # "none"
    /\ Head(agent["worker"].plan)[1] \in {"execute", "persist"}

RowMoves(s) ==
    \/ /\ attempt'[s] = attempt[s] /\ quota'[s] = quota[s]
       /\ evidence'[s] = evidence[s] \/ Executes(s)
    \/ /\ attempt[s] = "absent" /\ LowerPassed(s)
       /\ attempt'[s] = "queued" /\ quota'[s] = quota[s] /\ evidence'[s] = evidence[s]
    \/ /\ Handled(StageJob(s)) /\ WorkerMoves /\ evidence'[s] = evidence[s]
       /\ attempt[s] \in {"queued", "running"}
       /\ attempt'[s] \in {"queued", "running", "in_doubt"} \cup Ended
       /\ attempt'[s] \in Ended => Unspent(s, attempt[s])'
       /\ quota'[s] = "none" => quota[s] = "none"
    \/ /\ job[StageJob(s)] \in Gone /\ evidence'[s] = evidence[s]
       /\ \/ attempt'[s] = attempt[s]
          \/ attempt[s] = "running" /\ attempt'[s] = "in_doubt"
          \/ attempt[s] = "in_doubt" /\ attempt'[s] = "reconciling" /\ ~evidence[s]
          \/ attempt[s] = "reconciling" /\ attempt'[s] = "interrupted" /\ Closed(s)
       /\ \/ quota'[s] = quota[s]
          \/ quota[s] = "active" /\ quota'[s] = "uncertain"
          \/ quota[s] = "uncertain" /\ quota'[s] = "settled" /\ ~evidence[s]

JobMoves(j) ==
    \/ /\ job'[j] = job[j]
       /\ job[j] = "running" /\ Handled(j) => Handled(j)' \/ faults' = faults + 1
    \/ /\ job[j] = "absent" /\ job'[j] = "queued" /\ j[3] <= faults
       /\ j \in StageJobs => attempt[j[2]] = "queued" /\ run # "queued"
    \/ job[j] = "queued" /\ job'[j] = "running" /\ Handled(j)'
    \/ job[j] = "running" /\ job'[j] = "lapsed" /\ ~Handled(j)
    \/ job[j] = "lapsed" /\ job'[j] = "lost"
    \/ /\ job[j] = "running" /\ job'[j] \in Delivered /\ WorkerMoves
       /\ j \in StageJobs /\ job'[j] = "succeeded" => HandedOn(j[2])'
    \/ job[j] = "lost" /\ job'[j] = "interrupted" /\ attempt[j[2]] = "interrupted"

RunMoves ==
    /\ run # "queued" => run' # "queued"
    /\ run' = "succeeded" => run = "succeeded" \/ AllPassed

Moved ==
    /\ \A s \in Stages : RowMoves(s)
    /\ \A j \in Jobs : JobMoves(j)
    /\ RunMoves /\ faults' >= faults

-----------------------------------------------------------------------------
(* Steps that keep to these rules keep the invariant.                      *)

USE RunAssumption

LEMMA JobsOfStage ==
    \A s \in Stages : /\ StageJob(s) \in Jobs /\ StageJob(s) \in StageJobs
                      /\ StageJob(s)[2] = s /\ StageJob(s)[3] = 0
                      /\ Coordinator(s, 0) \in Jobs /\ Coordinator(s, 0) \in Coordinators
                      /\ \A t \in Stages : StageJob(s) = StageJob(t) => s = t
BY DEF Jobs, StageJobs, Coordinators, StageJob, Coordinator

LEMMA NoStageJobIsCoordinator == \A j \in Coordinators : j \notin StageJobs
BY DEF StageJobs, Coordinators, StageJob, Coordinator

LEMMA HandledRuns ==
    ASSUME IInv, NEW j, Handled(j)
    PROVE  j \in Jobs /\ job[j] = "running"
BY DEF IInv, AgentFits, Handled, HandlerFits

LEMMA PassedStays ==
    ASSUME IInv, Moved, NEW s \in Stages, attempt[s] = "pass"
    PROVE  attempt'[s] = "pass"
BY DEF Moved, RowMoves

LEMMA LowerPassedStays ==
    ASSUME IInv, Moved, NEW s \in Stages, LowerPassed(s)
    PROVE  LowerPassed(s)'
BY PassedStays DEF LowerPassed

LEMMA AllPassedStays ==
    ASSUME IInv, Moved, AllPassed
    PROVE  AllPassed'
BY PassedStays DEF AllPassed

LEMMA AttemptStays ==
    ASSUME IInv, Moved, NEW s \in Stages, attempt[s] # "absent"
    PROVE  attempt'[s] # "absent"
BY DEF Moved, RowMoves, Ended

LEMMA JobStays ==
    ASSUME IInv, Moved, NEW j \in Jobs, job[j] # "absent"
    PROVE  job'[j] # "absent"
BY DEF Moved, JobMoves, Delivered

LEMMA GoneStays ==
    ASSUME IInv, Moved, NEW j \in Jobs, job[j] \in Gone
    PROVE  job'[j] \in Gone
BY DEF Moved, JobMoves, Delivered, Gone

(* The rows of a stage whose delivery is lost are moved by recoverers only. *)
LEMMA GoneRowMoves ==
    ASSUME IInv, Moved, NEW s \in Stages, job[StageJob(s)] \in Gone
    PROVE  /\ evidence'[s] = evidence[s]
           /\ \/ attempt'[s] = attempt[s]
              \/ attempt[s] = "running" /\ attempt'[s] = "in_doubt"
              \/ attempt[s] = "in_doubt" /\ attempt'[s] = "reconciling" /\ ~evidence[s]
              \/ attempt[s] = "reconciling" /\ attempt'[s] = "interrupted" /\ Closed(s)
           /\ \/ quota'[s] = quota[s]
              \/ quota[s] = "active" /\ quota'[s] = "uncertain"
              \/ quota[s] = "uncertain" /\ quota'[s] = "settled" /\ ~evidence[s]
<1>1. ~Handled(StageJob(s))
  BY HandledRuns DEF Gone
<1>2. attempt[s] # "absent"
  BY DEF IInv, RowFits, Gone
<1>3. RowMoves(s)
  BY DEF Moved
<1> QED
  BY <1>1, <1>2, <1>3 DEF RowMoves, Executes

LEMMA HandedOnStays ==
    ASSUME IInv, Moved, NEW s \in Stages, attempt[s] \in TerminalAttempt, HandedOn(s)
    PROVE  HandedOn(s)'
<1>1. attempt[s] = "pass" => job'[Coordinator(s, 0)] # "absent"
  BY JobStays, JobsOfStage DEF HandedOn
<1>2. attempt'[s] = "pass" => attempt[s] = "pass"
  BY DEF Moved, RowMoves, Ended, TerminalAttempt, Verdicts
<1> QED
  BY <1>1, <1>2 DEF HandedOn

LEMMA RowIsKept ==
    ASSUME IInv, Moved, Shapes', NEW s \in Stages
    PROVE  RowFits(s)'
<1> DEFINE j == StageJob(s)
<1>0. RowFits(s) /\ RowMoves(s) /\ JobMoves(j) /\ RunMoves /\ j \in StageJobs /\ j[2] = s
      /\ (Handled(j) => job[j] = "running")
  BY JobsOfStage, HandledRuns DEF IInv, Moved
<1> HIDE DEF j
<1>1. attempt'[s] # "absent" => LowerPassed(s)'
  BY <1>0, LowerPassedStays DEF RowFits, RowMoves
<1>2. job'[j] = "absent" => attempt'[s] \in {"absent", "queued"} /\ quota'[s] = "none"
  BY <1>0 DEF RowFits, RowMoves, JobMoves, Delivered, Gone, j
<1>3. job'[j] = "queued" => attempt'[s] = "queued" /\ quota'[s] = "none"
  BY <1>0 DEF RowFits, RowMoves, JobMoves, Delivered, Gone, j
<1>4. job'[j] # "absent" => attempt'[s] # "absent" /\ run' # "queued"
  <2>1. CASE job[j] # "absent"
    BY <1>0, <2>1, AttemptStays DEF RowFits, RunMoves, j
  <2>2. CASE job[j] = "absent" /\ job'[j] # "absent"
    BY <1>0, <2>2, AttemptStays DEF JobMoves, RunMoves
  <2> QED
    BY <2>1, <2>2
<1>5. job'[j] = "interrupted" => attempt'[s] = "interrupted"
  BY <1>0 DEF RowFits, RowMoves, JobMoves, Delivered, Gone, j
<1>6. job'[j] = "succeeded" => HandedOn(s)'
  <2>1. CASE job[j] = "succeeded"
    <3>1. attempt'[s] = attempt[s]
      BY <1>0, <2>1 DEF RowFits, RowMoves, Gone, j
    <3>2. HandedOn(s)
      BY <1>0, <2>1 DEF RowFits, j
    <3> QED
      BY <3>1, <3>2, JobStays, JobsOfStage DEF HandedOn
  <2>2. CASE job[j] # "succeeded" /\ job'[j] = "succeeded"
    BY <1>0, <2>2 DEF JobMoves
  <2> QED
    BY <2>1, <2>2
<1>7. attempt'[s] = "interrupted" => Closed(s)' /\ job'[j] \in Gone
  <2>1. CASE job[j] \in Gone
    BY <1>0, <2>1, GoneRowMoves, GoneStays, JobsOfStage DEF RowFits, Closed, j
  <2>2. CASE job[j] \notin Gone
    BY <1>0, <2>2 DEF RowFits, RowMoves, Ended, j
  <2> QED
    BY <2>1, <2>2
<1>8. attempt'[s] \in TerminalAttempt => Unspent(s, attempt[s])'
  BY <1>0 DEF RowFits, RowMoves, Executes, Unspent, Ended, TerminalAttempt, Verdicts, Closed, j
<1>9. quota'[s] = "none" => ~evidence'[s]
  BY <1>0 DEF RowFits, RowMoves, Executes
<1> QED
  BY <1>1, <1>2, <1>3, <1>4, <1>5, <1>6, <1>7, <1>8, <1>9 DEF RowFits, j

LEMMA RoundIsKept ==
    ASSUME IInv, Moved, Shapes', NEW j \in Jobs
    PROVE  RoundFits(j)'
<1>1. RoundFits(j) /\ JobMoves(j) /\ faults' >= faults
  BY DEF IInv, Moved
<1>2. faults \in Int /\ faults' \in Int /\ j[3] \in Int
  BY DEF IInv, Shapes, Jobs, StageJobs, Coordinators, StageJob, Coordinator
<1> QED
  BY <1>1, <1>2 DEF RoundFits, JobMoves, Delivered

LEMMA RecoveryIsKept ==
    ASSUME IInv, Moved, NEW s \in Stages, job[StageJob(s)] \in Gone, NEW p, RecoveryPlan(s, p)
    PROVE  RecoveryPlan(s, p)'
<1>1. RowFits(s)
  BY DEF IInv
<1> QED
  BY <1>1, GoneRowMoves DEF RecoveryPlan, Interruptible, Closed, Projecting, Losing, Returning,
     Interrupting, Interrupted

LEMMA RecovererIsKept ==
    ASSUME IInv, Moved, Shapes', NEW a \in Agents, agent'[a] = agent[a], RecovererFits(a)
    PROVE  RecovererFits(a)'
<1>1. \A j \in agent[a].todo : j \in Jobs /\ job'[j] \in Gone
  BY GoneStays DEF RecovererFits
<1>2. \A s \in Stages : job[StageJob(s)] \in Gone => job'[StageJob(s)] \in Gone
  BY GoneStays, JobsOfStage
<1>3. faults \in Int /\ faults' \in Int /\ faults' >= faults
  BY DEF IInv, Shapes, Moved
<1>4. \A n \in 0 .. MaxFaults : n + 1 <= faults => n + 1 <= faults'
  BY <1>3
<1> QED
  BY <1>1, <1>2, <1>4, RecoveryIsKept DEF RecovererFits

LEMMA StagePlanIsKept ==
    ASSUME IInv, Moved, NEW s \in Stages, Handled(StageJob(s)), ~WorkerMoves,
           NEW p, StagePlan(s, p), p = agent["worker"].plan
    PROVE  StagePlan(s, p)'
<1>1. job[StageJob(s)] = "running" /\ RowMoves(s) /\ RowFits(s)
  BY HandledRuns DEF IInv, Moved
<1>2. attempt'[s] = attempt[s] /\ quota'[s] = quota[s]
  BY <1>1 DEF RowMoves, RowFits, Gone
<1>3. attempt[s] \in Ended /\ HandedOn(s) => HandedOn(s)'
  BY HandedOnStays DEF Ended, TerminalAttempt, Verdicts
<1>4. \A o : p \in Ending(s, o) => Head(p)[1] = "attempt"
  BY DEF Ending, Moves
<1>5. \A o : p \in Ending(s, o) /\ Unspent(s, o) => Unspent(s, o)'
  BY <1>1, <1>2, <1>4 DEF RowMoves, RowFits, Gone, Executes, Unspent
<1> QED
  BY <1>2, <1>3, <1>5 DEF StagePlan

LEMMA CoordinatorPlanIsKept ==
    ASSUME IInv, Moved, NEW p, CoordinatorPlan(p)
    PROVE  CoordinatorPlan(p)'
<1>1. \A i : AdmitsAt(p, i) => AdmitsAt(p, i)'
  BY LowerPassedStays, AttemptStays DEF AdmitsAt
<1>2. Admits(p) => Admits(p)'
  BY <1>1 DEF Admits
<1>3. run # "queued" => run' # "queued"
  BY DEF Moved, RunMoves
<1> QED
  BY <1>2, <1>3, AllPassedStays DEF CoordinatorPlan

LEMMA HandlerIsKept ==
    ASSUME IInv, Moved, NEW a \in Agents, agent'[a] = agent[a], agent[a].phase = "handle",
           HandlerFits(a)
    PROVE  HandlerFits(a)'
<1>1. a = "worker" /\ ~WorkerMoves
  BY DEF HandlerFits, WorkerMoves
<1>0. PICK j \in Jobs : j = agent[a].job /\ job[j] = "running"
  BY DEF HandlerFits
<1>2. job[j] = "running" /\ JobMoves(j) /\ Handled(j)
  BY <1>0 DEF Moved, Handled
<1>3. job'[j] = "running"
  BY <1>1, <1>2 DEF JobMoves, Delivered
<1> QED
  BY <1>0, <1>1, <1>2, <1>3, StagePlanIsKept, CoordinatorPlanIsKept DEF HandlerFits

LEMMA MovedKeeps ==
    ASSUME IInv, Moved, Shapes', QueueFits',
           \A a \in Agents : agent'[a] = agent[a] \/ AgentFits(a)'
    PROVE  IInv'
<1>1. RunFits'
  BY AllPassedStays DEF IInv, RunFits, Moved, RunMoves
<1>2. \A s \in Stages : RowFits(s)'
  BY RowIsKept
<1>3. \A j \in Jobs : RoundFits(j)'
  BY RoundIsKept
<1>4. \A a \in Agents : AgentFits(a)'
  BY RecovererIsKept, HandlerIsKept DEF IInv, AgentFits
<1> QED
  BY <1>1, <1>2, <1>3, <1>4 DEF IInv

-----------------------------------------------------------------------------
(* Plans: what their first operation is, and what is left after it.        *)

Rest(p) == <<>> \o Tail(p)
FirstIs(p, op) == p # <<>> /\ Head(p)[1] = op

LEMMA Pair == \A x, y : <<x>> \o <<y>> = <<x, y>>
<1> SUFFICES ASSUME NEW x, NEW y
             PROVE  <<x>> \o <<y>> = <<x, y>>
  OBVIOUS
<1> DEFINE q == <<x>> \o <<y>>
<1>1. q \in Seq({x, y}) /\ Len(q) = 2 /\ q[1] = x /\ q[2] = y
  OBVIOUS
<1>2. q = [i \in 1 .. 2 |-> q[i]] /\ \A i \in 1 .. 2 : q[i] = <<x, y>>[i]
  BY <1>1
<1>3. <<x, y>> = [i \in 1 .. 2 |-> <<x, y>>[i]]
  OBVIOUS
<1> HIDE DEF q
<1>4. q = <<x, y>>
  BY <1>2, <1>3
<1> QED
  BY <1>4 DEF q

LEMMA SameSequence ==
    ASSUME NEW S, NEW f \in Seq(S), NEW g \in Seq(S), Len(f) = Len(g),
           \A i \in 1 .. Len(f) : f[i] = g[i]
    PROVE  f = g
<1>1. f = [i \in 1 .. Len(f) |-> f[i]] /\ g = [i \in 1 .. Len(g) |-> g[i]]
  OBVIOUS
<1> QED
  BY <1>1

LEMMA Concatenations ==
    /\ \A x, y, z : <<x, y>> \o <<z>> = <<x, y, z>>
    /\ \A x, y, z, u : <<x, y, z>> \o <<u>> = <<x, y, z, u>>
    /\ \A x, y, z : <<x>> \o <<y, z>> = <<x, y, z>>
    /\ \A x, y, z, u, v : <<x>> \o <<y, z, u, v>> = <<x, y, z, u, v>>
    /\ \A x, y, z, u : <<x, y>> \o <<z, u>> = <<x, y, z, u>>
    /\ \A x, y, z, u, v : <<x, y, z>> \o <<u, v>> = <<x, y, z, u, v>>
<1>1. ASSUME NEW x, NEW y, NEW z
      PROVE  <<x, y>> \o <<z>> = <<x, y, z>>
  <2> DEFINE q == <<x, y>> \o <<z>>
  <2>1. q \in Seq({x, y, z}) /\ Len(q) = 3
    OBVIOUS
  <2>2. q[1] = x /\ q[2] = y /\ q[3] = z
    OBVIOUS
  <2> HIDE DEF q
  <2>3. \A i \in 1 .. 3 : q[i] = <<x, y, z>>[i]
    BY <2>2
  <2>4. <<x, y, z>> \in Seq({x, y, z}) /\ Len(<<x, y, z>>) = 3
    OBVIOUS
  <2>5. q = <<x, y, z>>
    BY <2>1, <2>3, <2>4, SameSequence
  <2> QED
    BY <2>5 DEF q
<1>2. ASSUME NEW x, NEW y, NEW z, NEW u
      PROVE  <<x, y, z>> \o <<u>> = <<x, y, z, u>>
  <2> DEFINE q == <<x, y, z>> \o <<u>>
  <2>1. q \in Seq({x, y, z, u}) /\ Len(q) = 4
    OBVIOUS
  <2>2. q[1] = x /\ q[2] = y /\ q[3] = z /\ q[4] = u
    OBVIOUS
  <2> HIDE DEF q
  <2>3. \A i \in 1 .. 4 : q[i] = <<x, y, z, u>>[i]
    BY <2>2
  <2>4. <<x, y, z, u>> \in Seq({x, y, z, u}) /\ Len(<<x, y, z, u>>) = 4
    OBVIOUS
  <2>5. q = <<x, y, z, u>>
    BY <2>1, <2>3, <2>4, SameSequence
  <2> QED
    BY <2>5 DEF q
<1>3. ASSUME NEW x, NEW y, NEW z
      PROVE  <<x>> \o <<y, z>> = <<x, y, z>>
  <2> DEFINE q == <<x>> \o <<y, z>>
  <2>1. q \in Seq({x, y, z}) /\ Len(q) = 3
    OBVIOUS
  <2>2. q[1] = x /\ q[2] = y /\ q[3] = z
    OBVIOUS
  <2> HIDE DEF q
  <2>3. \A i \in 1 .. 3 : q[i] = <<x, y, z>>[i]
    BY <2>2
  <2>4. <<x, y, z>> \in Seq({x, y, z}) /\ Len(<<x, y, z>>) = 3
    OBVIOUS
  <2>5. q = <<x, y, z>>
    BY <2>1, <2>3, <2>4, SameSequence
  <2> QED
    BY <2>5 DEF q
<1>4. ASSUME NEW x, NEW y, NEW z, NEW u, NEW v
      PROVE  <<x>> \o <<y, z, u, v>> = <<x, y, z, u, v>>
  <2> DEFINE q == <<x>> \o <<y, z, u, v>>
  <2>1. q \in Seq({x, y, z, u, v}) /\ Len(q) = 5
    OBVIOUS
  <2>2. q[1] = x /\ q[2] = y /\ q[3] = z /\ q[4] = u /\ q[5] = v
    OBVIOUS
  <2> HIDE DEF q
  <2>3. \A i \in 1 .. 5 : q[i] = <<x, y, z, u, v>>[i]
    BY <2>2
  <2>4. <<x, y, z, u, v>> \in Seq({x, y, z, u, v}) /\ Len(<<x, y, z, u, v>>) = 5
    OBVIOUS
  <2>5. q = <<x, y, z, u, v>>
    BY <2>1, <2>3, <2>4, SameSequence
  <2> QED
    BY <2>5 DEF q
<1>5. ASSUME NEW x, NEW y, NEW z, NEW u
      PROVE  <<x, y>> \o <<z, u>> = <<x, y, z, u>>
  <2> DEFINE q == <<x, y>> \o <<z, u>>
  <2>1. q \in Seq({x, y, z, u}) /\ Len(q) = 4
    OBVIOUS
  <2>2. q[1] = x /\ q[2] = y /\ q[3] = z /\ q[4] = u
    OBVIOUS
  <2> HIDE DEF q
  <2>3. \A i \in 1 .. 4 : q[i] = <<x, y, z, u>>[i]
    BY <2>2
  <2>4. <<x, y, z, u>> \in Seq({x, y, z, u}) /\ Len(<<x, y, z, u>>) = 4
    OBVIOUS
  <2>5. q = <<x, y, z, u>>
    BY <2>1, <2>3, <2>4, SameSequence
  <2> QED
    BY <2>5 DEF q
<1>6. ASSUME NEW x, NEW y, NEW z, NEW u, NEW v
      PROVE  <<x, y, z>> \o <<u, v>> = <<x, y, z, u, v>>
  <2> DEFINE q == <<x, y, z>> \o <<u, v>>
  <2>1. q \in Seq({x, y, z, u, v}) /\ Len(q) = 5
    OBVIOUS
  <2>2. q[1] = x /\ q[2] = y /\ q[3] = z /\ q[4] = u /\ q[5] = v
    OBVIOUS
  <2> HIDE DEF q
  <2>3. \A i \in 1 .. 5 : q[i] = <<x, y, z, u, v>>[i]
    BY <2>2
  <2>4. <<x, y, z, u, v>> \in Seq({x, y, z, u, v}) /\ Len(<<x, y, z, u, v>>) = 5
    OBVIOUS
  <2>5. q = <<x, y, z, u, v>>
    BY <2>1, <2>3, <2>4, SameSequence
  <2> QED
    BY <2>5 DEF q
<1> QED
  BY <1>1, <1>2, <1>3, <1>4, <1>5, <1>6

LEMMA Tails ==
    /\ \A x : Tail(<<x>>) = <<>> /\ Rest(<<x>>) = <<>>
    /\ \A x, y : Tail(<<x, y>>) = <<y>> /\ Rest(<<x, y>>) = <<y>>
    /\ \A x, y, z : Tail(<<x, y, z>>) = <<y, z>> /\ Rest(<<x, y, z>>) = <<y, z>>
    /\ \A x, y, z, u : Tail(<<x, y, z, u>>) = <<y, z, u>> /\ Rest(<<x, y, z, u>>) = <<y, z, u>>
    /\ \A x, y, z, u, v : Rest(<<x, y, z, u, v>>) = <<y, z, u, v>>
<1>1. \A x : Tail(<<x>>) = <<>> /\ Rest(<<x>>) = <<>>
  BY DEF Rest
<1>2. \A x, y : Tail(<<x, y>>) = <<y>> /\ Rest(<<x, y>>) = <<y>>
  BY DEF Rest
<1>3. \A x, y, z : Tail(<<x, y, z>>) = <<y, z>> /\ Rest(<<x, y, z>>) = <<y, z>>
  BY DEF Rest
<1>4. \A x, y, z, u : Tail(<<x, y, z, u>>) = <<y, z, u>> /\ Rest(<<x, y, z, u>>) = <<y, z, u>>
  BY DEF Rest
<1>5. \A x, y, z, u, v : Rest(<<x, y, z, u, v>>) = <<y, z, u, v>>
  BY DEF Rest
<1> QED
  BY <1>1, <1>2, <1>3, <1>4, <1>5

LEMMA StageHeads ==
    ASSUME NEW s, NEW o, NEW p
    PROVE  /\ p \in Starting(s) => \/ p = <<<<"load">>>> /\ FirstIs(p, "load")
                                   \/ Head(p) = Moves(s, "queued", "running") /\ FirstIs(p, "attempt")
           /\ p \in Admitting(s) => Head(p) = <<"admit", s>> /\ FirstIs(p, "admit")
           /\ p \in Ending(s, o) => Head(p) = Moves(s, "running", o) /\ FirstIs(p, "attempt")
           /\ p \in Settling(s, o) => Head(p) = Settles(s) /\ FirstIs(p, "quota")
           /\ p \in Persisting(s, o) => Head(p) = <<"persist", s>> /\ FirstIs(p, "persist")
           /\ p \in Closing => FirstIs(p, "finish_attempts")
           /\ p \in Doubting(s) =>
                \/ Head(p) = Doubts(s) /\ FirstIs(p, "quota")
                \/ Head(p) = Moves(s, "running", "in_doubt") /\ FirstIs(p, "attempt")
           /\ p \in Failing =>
                \/ Head(p) = Finish("in_doubt") /\ FirstIs(p, "finish")
                \/ \E d \in {"in_doubt", "failed"} : p = <<Done(d)>> /\ FirstIs(p, "deliver")
BY DEF Starting, Admitting, Ending, Settling, Persisting, Closing, Doubting, Failing, FirstIs,
       Moves, Settles, Doubts, Finish, Done, Closes

LEMMA TellingHeads ==
    ASSUME NEW s, NEW o, NEW p \in Telling(s, o)
    PROVE  \/ o = "pass" /\ Head(p) = <<"enqueue", Coordinator(s, 0)>> /\ FirstIs(p, "enqueue")
           \/ /\ o # "pass" /\ FirstIs(p, "finish")
              /\ \E target \in Told : Head(p) = Finish(target)
BY DEF Telling, NextOps, Finish, FirstIs, Done

LEMMA DoneHead ==
    ASSUME NEW d
    PROVE  FirstIs(<<Done(d)>>, "deliver") /\ Head(<<Done(d)>>) = Done(d)
BY DEF FirstIs, Done

LEMMA StageTails ==
    ASSUME NEW s, NEW o, NEW p
    PROVE  /\ p \in Starting(s) /\ FirstIs(p, "attempt") => Rest(p) \in Admitting(s)
           /\ p \in Ending(s, o) => Rest(p) \in Telling(s, o)
           /\ p \in Settling(s, o) => Rest(p) \in Ending(s, o)
           /\ p \in Persisting(s, o) => Rest(p) \in Settling(s, o)
           /\ p \in Telling(s, o) \cup Closing => Rest(p) = <<Done("succeeded")>>
           /\ p \in Doubting(s) /\ FirstIs(p, "quota") =>
                 Rest(p) \in Doubting(s) /\ ~FirstIs(Rest(p), "quota")
           /\ p \in Doubting(s) /\ FirstIs(p, "attempt") => Rest(p) \in Failing
           /\ p \in Failing /\ FirstIs(p, "finish") => Rest(p) \in Failing
<1>5. p \in Starting(s) /\ FirstIs(p, "attempt") => Rest(p) \in Admitting(s)
  BY Tails DEF Starting, Admitting, FirstIs
<1>6. p \in Ending(s, o) => Rest(p) \in Telling(s, o)
  BY Tails DEF Ending, Telling
<1>7. p \in Settling(s, o) => Rest(p) \in Ending(s, o)
  BY Tails DEF Ending, Settling
<1>8. p \in Persisting(s, o) => Rest(p) \in Settling(s, o)
  BY Tails DEF Persisting, Settling
<1>9. p \in Telling(s, o) \cup Closing => Rest(p) = <<Done("succeeded")>>
  BY Tails DEF Telling, Closing
<1>10. p \in Doubting(s) /\ FirstIs(p, "quota") =>
         Rest(p) \in Doubting(s) /\ ~FirstIs(Rest(p), "quota")
  BY Tails DEF Doubting, FirstIs, Moves
<1>11. p \in Doubting(s) /\ FirstIs(p, "attempt") => Rest(p) \in Failing
  BY Tails DEF Doubting, Failing, FirstIs, Doubts
<1>12. p \in Failing /\ FirstIs(p, "finish") => Rest(p) \in Failing
  BY Tails DEF Failing, FirstIs, Done
<1> QED
  BY <1>5, <1>6, <1>7, <1>8, <1>9, <1>10, <1>11, <1>12

LEMMA ProjectingHeads ==
    ASSUME NEW s, NEW p \in Projecting(s)
    PROVE  \/ p = <<>>
           \/ Head(p) = <<"enqueue", Coordinator(s, 0)>> /\ FirstIs(p, "enqueue")
           \/ /\ FirstIs(p, "finish")
              /\ \E target \in Told \cup {"in_doubt"} : p = <<Finish(target)>>
           \/ \E target \in FinishedRun : Head(p) = Closes(target) /\ FirstIs(p, "finish_attempts")
           \/ Head(p) = Doubts(s) /\ FirstIs(p, "quota")
           \/ Head(p) = <<"doubt", s>> /\ FirstIs(p, "doubt")
BY DEF Projecting, Finish, Closes, Doubts, FirstIs

LEMMA InterruptHeads ==
    ASSUME NEW s, NEW p
    PROVE  /\ p \in Losing(s) => Head(p) = Doubts(s) /\ FirstIs(p, "quota")
           /\ p \in Returning(s) => Head(p) = Returns(s) /\ FirstIs(p, "quota")
           /\ p \in Interrupting(s) =>
                \/ Head(p) = <<"interrupt", s>> /\ FirstIs(p, "interrupt")
                \/ /\ FirstIs(p, "attempt")
                   /\ \/ Head(p) = Moves(s, "running", "in_doubt") /\ Rest(p) \in Interrupting(s)
                      \/ Head(p) = Moves(s, "in_doubt", "reconciling") /\ Rest(p) \in Interrupting(s)
                      \/ Head(p) = Moves(s, "reconciling", "interrupted") /\ Rest(p) \in Interrupted(s)
           /\ p \in Interrupted(s) =>
                \/ Head(p) = Finish("failed_recoverable") /\ FirstIs(p, "finish")
                \/ Head(p) = Closes("failed_recoverable") /\ FirstIs(p, "finish_attempts")
                \/ Head(p) = <<"settle", StageJob(s)>> /\ FirstIs(p, "settle")
<1>5. p \in Losing(s) => Head(p) = Doubts(s) /\ FirstIs(p, "quota")
  BY DEF Losing, Doubts, FirstIs
<1>6. p \in Returning(s) => Head(p) = Returns(s) /\ FirstIs(p, "quota")
  BY DEF Returning, Returns, FirstIs
<1>7. p \in Interrupting(s) =>
                \/ Head(p) = <<"interrupt", s>> /\ FirstIs(p, "interrupt")
                \/ /\ FirstIs(p, "attempt")
                   /\ \/ Head(p) = Moves(s, "running", "in_doubt") /\ Rest(p) \in Interrupting(s)
                      \/ Head(p) = Moves(s, "in_doubt", "reconciling") /\ Rest(p) \in Interrupting(s)
                      \/ Head(p) = Moves(s, "reconciling", "interrupted") /\ Rest(p) \in Interrupted(s)
  BY Tails DEF Interrupting, Interrupted, Moves, FirstIs
<1>8. p \in Interrupted(s) =>
                \/ Head(p) = Finish("failed_recoverable") /\ FirstIs(p, "finish")
                \/ Head(p) = Closes("failed_recoverable") /\ FirstIs(p, "finish_attempts")
                \/ Head(p) = <<"settle", StageJob(s)>> /\ FirstIs(p, "settle")
  BY DEF Interrupted, Finish, Closes, FirstIs
<1> QED
  BY <1>5, <1>6, <1>7, <1>8

LEMMA RecoveryTails ==
    ASSUME NEW s, NEW p
    PROVE  /\ p \in Projecting(s) /\ p # <<>> => Rest(p) \in Projecting(s)
           /\ p \in Losing(s) => Rest(p) \in Returning(s)
           /\ p \in Returning(s) => Rest(p) \in Interrupting(s)
           /\ p \in Interrupted(s) /\ ~FirstIs(p, "settle") => Rest(p) \in Interrupted(s)
           /\ p \in Interrupted(s) /\ FirstIs(p, "settle") => Rest(p) = <<>>
           /\ p \in Interrupted(s) /\ FirstIs(p, "finish") =>
                 <<Closes("failed_recoverable")>> \o Tail(p) \in Interrupted(s)
<1>6. p \in Projecting(s) /\ p # <<>> => Rest(p) \in Projecting(s)
  BY Tails DEF Projecting
<1>7. p \in Losing(s) => Rest(p) \in Returning(s)
  BY Tails DEF Losing, Returning
<1>8. p \in Returning(s) => Rest(p) \in Interrupting(s)
  BY Tails DEF Returning, Interrupting
<1>9. p \in Interrupted(s) /\ ~FirstIs(p, "settle") => Rest(p) \in Interrupted(s)
  BY Tails DEF Interrupted, FirstIs
<1>10. p \in Interrupted(s) /\ FirstIs(p, "settle") => Rest(p) = <<>>
  BY Tails DEF Interrupted, FirstIs, Finish, Closes
<1>11. p \in Interrupted(s) /\ FirstIs(p, "finish") =>
                 <<Closes("failed_recoverable")>> \o Tail(p) \in Interrupted(s)
  <2> SUFFICES ASSUME p \in Interrupted(s), FirstIs(p, "finish")
               PROVE  <<Closes("failed_recoverable")>> \o Tail(p) \in Interrupted(s)
    OBVIOUS
  <2>1. p = <<Finish("failed_recoverable"), <<"settle", StageJob(s)>>>>
    BY DEF Interrupted, FirstIs, Closes
  <2>2. Tail(p) = <<<<"settle", StageJob(s)>>>>
    BY <2>1, Tails
  <2>3. <<Closes("failed_recoverable")>> \o Tail(p)
           = <<Closes("failed_recoverable"), <<"settle", StageJob(s)>>>>
    BY <2>2, Pair
  <2> QED
    BY <2>3 DEF Interrupted
<1> QED
  BY <1>6, <1>7, <1>8, <1>9, <1>10, <1>11

LEMMA CoordinatorHeads ==
    ASSUME NEW p
    PROVE  /\ p \in Beginning => FirstIs(p, "begin") /\ Rest(p) \in Deciding
           /\ p \in Deciding =>
                \/ FirstIs(p, "run_attempt") /\ Rest(p) \in Deciding
                \/ FirstIs(p, "decide") /\ Tail(p) = <<Done("succeeded")>>
                \/ FirstIs(p, "complete") /\ Tail(p) = <<Done("succeeded")>>
           /\ p \in Completing =>
                \/ FirstIs(p, "finish") /\ Head(p) = Finish("succeeded") /\ Tail(p) = <<Done("succeeded")>>
                \/ /\ FirstIs(p, "finish_attempts") /\ Head(p) = Closes("succeeded")
                   /\ Rest(p) = <<Done("succeeded")>>
           /\ p \in Decided => FirstIs(p, "deliver") /\ Head(p)[2] \in Delivered
<1>4. p \in Beginning => FirstIs(p, "begin") /\ Rest(p) \in Deciding
  BY Tails DEF Beginning, Deciding, FirstIs
<1>5. p \in Deciding =>
                \/ FirstIs(p, "run_attempt") /\ Rest(p) \in Deciding
                \/ FirstIs(p, "decide") /\ Tail(p) = <<Done("succeeded")>>
                \/ FirstIs(p, "complete") /\ Tail(p) = <<Done("succeeded")>>
  <2>1. CASE p = <<<<"run_attempt">>, <<"decide">>, Done("succeeded")>>
    BY <2>1, Tails DEF Deciding, FirstIs
  <2>2. CASE p = <<<<"decide">>, Done("succeeded")>>
    BY <2>2, Tails DEF FirstIs
  <2>3. CASE p = <<<<"complete">>, Done("succeeded")>>
    BY <2>3, Tails DEF FirstIs
  <2> QED
    BY <2>1, <2>2, <2>3 DEF Deciding
<1>6. p \in Completing =>
                \/ FirstIs(p, "finish") /\ Head(p) = Finish("succeeded") /\ Tail(p) = <<Done("succeeded")>>
                \/ /\ FirstIs(p, "finish_attempts") /\ Head(p) = Closes("succeeded")
                   /\ Rest(p) = <<Done("succeeded")>>
  <2>1. CASE p = <<Finish("succeeded"), Done("succeeded")>>
    BY <2>1, Tails DEF FirstIs, Finish
  <2>2. CASE p = <<Closes("succeeded"), Done("succeeded")>>
    BY <2>2, Tails DEF FirstIs, Closes
  <2> QED
    BY <2>1, <2>2 DEF Completing
<1>7. p \in Decided => FirstIs(p, "deliver") /\ Head(p)[2] \in Delivered
  BY DEF Decided, FirstIs, Done, Delivered
<1> QED
  BY <1>4, <1>5, <1>6, <1>7

(* The rest of a batch is a batch, once its first operation is done.       *)
LEMMA AdmitsHead ==
    ASSUME NEW p, Admits(p)
    PROVE  /\ Rest(p) = Tail(p)
           /\ \/ p = <<Done("succeeded")>>
              \/ \E s \in Stages : /\ Head(p) = <<"plan_attempt", s>> /\ LowerPassed(s)
                                   /\ FirstIs(p, "plan_attempt")
              \/ \E s \in Stages : /\ Head(p) = <<"enqueue", StageJob(s)>> /\ attempt[s] # "absent"
                                   /\ FirstIs(p, "enqueue")
<1>1. p \in Seq({p[i] : i \in 1 .. Len(p)}) /\ Len(p) \in Nat \ {0} /\ p # <<>> /\ Head(p) = p[1]
  BY DEF Admits
<1>2. Rest(p) = Tail(p)
  BY <1>1 DEF Rest
<1>3. CASE Len(p) = 1
  <2>1. p = <<Done("succeeded")>>
    BY <1>1, <1>3 DEF Admits
  <2> QED
    BY <1>2, <2>1
<1>4. CASE Len(p) # 1
  <2>1. AdmitsAt(p, 1)
    BY <1>1, <1>4 DEF Admits
  <2> QED
    BY <1>1, <1>2, <2>1 DEF AdmitsAt, FirstIs
<1> QED
  BY <1>1, <1>3, <1>4

LEMMA AdmitsTail ==
    ASSUME NEW p, Admits(p), p # <<Done("succeeded")>>, IInv, Moved,
           \A s \in Stages : Head(p) = <<"plan_attempt", s>> => attempt'[s] # "absent"
    PROVE  Admits(Rest(p))'
<1>1. p \in Seq({p[i] : i \in 1 .. Len(p)}) /\ Len(p) \in Nat \ {0} /\ p # <<>> /\ Head(p) = p[1]
  BY DEF Admits
<1>2. Rest(p) = Tail(p)
  BY AdmitsHead
<1>3. Len(p) > 1
  BY <1>1 DEF Admits
<1> DEFINE q == Tail(p)
<1>4. q \in Seq({p[i] : i \in 1 .. Len(p)}) /\ Len(q) = Len(p) - 1
      /\ \A i \in 1 .. Len(q) : q[i] = p[i + 1]
  BY <1>1, <1>3
<1>5. \A i \in 1 .. Len(q) - 1 : AdmitsAt(q, i)'
  <2> SUFFICES ASSUME NEW i \in 1 .. Len(q) - 1 PROVE AdmitsAt(q, i)'
    OBVIOUS
  <2>1. AdmitsAt(p, i + 1) /\ q[i] = p[i + 1] /\ i + 1 > 1 /\ (i + 1) - 1 = i
    BY <1>1, <1>3, <1>4 DEF Admits
  <2>2. i > 1 => q[i - 1] = p[i]
    BY <1>1, <1>3, <1>4
  <2>3. CASE \E s \in Stages : p[i + 1] = <<"plan_attempt", s>> /\ LowerPassed(s)
    BY <2>1, <2>3, LowerPassedStays DEF AdmitsAt
  <2>4. ASSUME NEW s \in Stages, p[i + 1] = <<"enqueue", StageJob(s)>>,
               attempt[s] # "absent" \/ p[i] = <<"plan_attempt", s>>
        PROVE  AdmitsAt(q, i)'
    <3>1. CASE attempt[s] # "absent"
      BY <2>1, <2>4, <3>1, AttemptStays DEF AdmitsAt
    <3>2. CASE p[i] = <<"plan_attempt", s>> /\ i = 1
      BY <1>1, <2>1, <2>4, <3>2 DEF AdmitsAt
    <3>3. CASE p[i] = <<"plan_attempt", s>> /\ i # 1
      BY <2>1, <2>2, <2>4, <3>3 DEF AdmitsAt
    <3> QED
      BY <2>4, <3>1, <3>2, <3>3
  <2> QED
    BY <2>1, <2>3, <2>4 DEF AdmitsAt
<1>6. q[Len(q)] = Done("succeeded") /\ Len(q) \in Nat \ {0}
  BY <1>1, <1>3, <1>4 DEF Admits
<1>7. q = [i \in 1 .. Len(q) |-> q[i]]
  <2> HIDE DEF q
  <2> QED
    BY <1>4
<1> QED
  BY <1>2, <1>5, <1>6, <1>7 DEF Admits

-----------------------------------------------------------------------------
(* What the agent that takes a step is doing.                              *)

HandlesStage(a, s, p) ==
    /\ agent[a].phase = "handle" /\ agent[a].todo = {} /\ a = "worker"
    /\ agent[a].job = StageJob(s) /\ job[StageJob(s)] = "running"
    /\ agent[a].plan = p /\ StagePlan(s, p)

Coordinates(a, j, p) ==
    /\ agent[a].phase = "handle" /\ agent[a].todo = {} /\ a = "worker"
    /\ agent[a].job = j /\ job[j] = "running"
    /\ agent[a].plan = p /\ CoordinatorPlan(p)

Recovers(a) ==
    /\ agent[a].phase = "recover"
    /\ agent[a].todo \subseteq Jobs /\ \A j \in agent[a].todo : job[j] \in Gone

RecoversStage(a, s, p) ==
    /\ Recovers(a) /\ agent[a].job = StageJob(s) /\ job[StageJob(s)] \in Gone
    /\ agent[a].plan = p /\ RecoveryPlan(s, p)

RecoversCoordinator(a, c, n) ==
    /\ Recovers(a) /\ agent[a].job = Coordinator(c, n) /\ n + 1 <= faults
    /\ agent[a].plan = <<<<"enqueue", Coordinator(c, n + 1)>>>>

LEMMA Acting ==
    ASSUME IInv, NEW a \in Agents, agent[a].plan # <<>>
    PROVE  \/ \E s \in Stages, p \in {agent[a].plan} : HandlesStage(a, s, p)
           \/ \E j \in Coordinators, p \in {agent[a].plan} : Coordinates(a, j, p)
           \/ \E s \in Stages, p \in {agent[a].plan} : RecoversStage(a, s, p)
           \/ \E c \in Stages \cup {Start}, n \in 0 .. MaxFaults : RecoversCoordinator(a, c, n)
<1>1. AgentFits(a)
  BY DEF IInv
<1>2. CASE agent[a].phase = "recover" /\ RecovererFits(a)
  BY <1>2 DEF RecovererFits, RecoversStage, RecoversCoordinator, Recovers
<1>3. CASE agent[a].phase = "handle" /\ agent[a].todo = {} /\ HandlerFits(a)
  BY <1>3 DEF HandlerFits, HandlesStage, Coordinates
<1> QED
  BY <1>1, <1>2, <1>3 DEF AgentFits

LEMMA PlanChanges ==
    ASSUME Shapes, NEW a \in Agents, NEW q, agent' = [agent EXCEPT ![a].plan = q]
    PROVE  /\ DOMAIN agent' = Agents /\ \A b \in Agents : DOMAIN agent'[b] = AgentFields
           /\ agent'[a].plan = q /\ agent'[a].phase = agent[a].phase
           /\ agent'[a].todo = agent[a].todo /\ agent'[a].job = agent[a].job
           /\ \A b \in Agents : b # a => agent'[b] = agent[b]
           /\ \A j : Handled(j)' <=> Handled(j)
           /\ a = "worker" /\ q # agent[a].plan => WorkerMoves
BY DEF Shapes, AgentFields, Handled, WorkerMoves

(* The agent at work goes on with the rest of its plan.                    *)
LEMMA StageFits ==
    ASSUME Shapes, NEW a \in Agents, NEW s \in Stages, NEW p, HandlesStage(a, s, p),
           NEW q, agent' = [agent EXCEPT ![a].plan = q],
           job'[StageJob(s)] = "running", StagePlan(s, q)'
    PROVE  AgentFits(a)'
<1>1. /\ agent'[a].phase = "handle" /\ agent'[a].todo = {} /\ a = "worker"
      /\ agent'[a].job = StageJob(s) /\ agent'[a].plan = q
  BY PlanChanges DEF HandlesStage
<1>2. HandlerFits(a)'
  BY <1>1, JobsOfStage DEF HandlerFits
<1> QED
  BY <1>1, <1>2 DEF AgentFits

LEMMA CoordinatorFits ==
    ASSUME Shapes, NEW a \in Agents, NEW j \in Coordinators, NEW p, Coordinates(a, j, p),
           NEW q, agent' = [agent EXCEPT ![a].plan = q],
           job'[j] = "running", CoordinatorPlan(q)'
    PROVE  AgentFits(a)'
<1>1. /\ agent'[a].phase = "handle" /\ agent'[a].todo = {} /\ a = "worker"
      /\ agent'[a].job = j /\ agent'[a].plan = q
  BY PlanChanges DEF Coordinates
<1>2. HandlerFits(a)'
  BY <1>1 DEF HandlerFits, Jobs
<1> QED
  BY <1>1, <1>2 DEF AgentFits

LEMMA RecovererFitsAgain ==
    ASSUME Shapes, NEW a \in Agents, NEW s \in Stages, NEW p, RecoversStage(a, s, p),
           NEW q, agent' = [agent EXCEPT ![a].plan = q],
           job'[StageJob(s)] \in Gone, \A j \in agent[a].todo : job'[j] \in Gone,
           RecoveryPlan(s, q)'
    PROVE  AgentFits(a)'
<1>1. /\ agent'[a].phase = "recover" /\ agent'[a].todo = agent[a].todo
      /\ agent'[a].job = StageJob(s) /\ agent'[a].plan = q
      /\ agent[a].todo \subseteq Jobs
  BY PlanChanges DEF RecoversStage, Recovers
<1>2. RecovererFits(a)'
  BY <1>1 DEF RecovererFits
<1> QED
  BY <1>1, <1>2 DEF AgentFits

SameRows == UNCHANGED <<attempt, quota, evidence>>

LEMMA RowsStay == ASSUME SameRows PROVE \A s \in Stages : RowMoves(s)
BY DEF RowMoves, SameRows

LEMMA JobsStay ==
    ASSUME UNCHANGED job, \A j : Handled(j)' <=> Handled(j)
    PROVE  \A j \in Jobs : JobMoves(j)
BY DEF JobMoves

LEMMA PlanJobsStay ==
    ASSUME Shapes, UNCHANGED job,
           NEW a \in Agents, NEW q, agent' = [agent EXCEPT ![a].plan = q]
    PROVE  \A j \in Jobs : JobMoves(j)
<1>1. \A j : Handled(j)' <=> Handled(j)
  BY PlanChanges
<1> QED
  BY <1>1, JobsStay

LEMMA QueueStays == ASSUME QueueFits, UNCHANGED <<job, queue>> PROVE QueueFits'
BY DEF QueueFits

(* A step that changes only a plan.                                        *)
Quiet == /\ SameRows /\ UNCHANGED <<run, job, queue>>
         /\ runAttempt' \in RunAttemptStatus /\ faults' \in faults .. MaxFaults

LEMMA QuietKeeps ==
    ASSUME IInv, Quiet, DOMAIN agent' = Agents, \A b \in Agents : DOMAIN agent'[b] = AgentFields,
           \A j : Handled(j) => Handled(j)' \/ faults' = faults + 1,
           \A b \in Agents : agent'[b] = agent[b] \/ AgentFits(b)'
    PROVE  IInv' /\ Moved
<1>1. Shapes'
  BY DEF IInv, Shapes, Quiet, SameRows
<1>2. \A j \in Jobs : JobMoves(j)
  BY DEF JobMoves, Quiet
<1>3. faults' >= faults /\ RunMoves
  BY DEF IInv, Shapes, Quiet, RunMoves
<1>4. QueueFits'
  BY QueueStays DEF IInv, Quiet
<1>5. Moved
  BY <1>2, <1>3, RowsStay DEF Moved, Quiet
<1> QED
  BY <1>1, <1>4, <1>5, MovedKeeps

LEMMA SamePlans ==
    ASSUME IInv, Quiet
    PROVE  /\ \A s, p : StagePlan(s, p) => StagePlan(s, p)'
           /\ \A p : CoordinatorPlan(p) => CoordinatorPlan(p)'
           /\ \A s, p : RecoveryPlan(s, p) => RecoveryPlan(s, p)'
<1>1. \A s, p : StagePlan(s, p) => StagePlan(s, p)'
  BY DEF StagePlan, HandedOn, Unspent, Quiet, SameRows
<1>2. \A p : CoordinatorPlan(p) => CoordinatorPlan(p)'
  BY DEF CoordinatorPlan, Admits, AdmitsAt, LowerPassed, AllPassed, Quiet, SameRows
<1>3. \A s, p : RecoveryPlan(s, p) => RecoveryPlan(s, p)'
  BY DEF RecoveryPlan, Interruptible, Closed, Quiet, SameRows
<1> QED
  BY <1>1, <1>2, <1>3

LEMMA QuietStage ==
    ASSUME IInv, Quiet, NEW a \in Agents, NEW s \in Stages, NEW p, HandlesStage(a, s, p),
           NEW q, agent' = [agent EXCEPT ![a].plan = q], StagePlan(s, q)
    PROVE  IInv' /\ Moved
<1>1. Shapes
  BY DEF IInv
<1>2. StagePlan(s, q)'
  BY SamePlans
<1>3. AgentFits(a)'
  BY <1>1, <1>2, StageFits DEF Quiet, HandlesStage
<1> QED
  BY <1>1, <1>3, PlanChanges, QuietKeeps

LEMMA QuietCoordinator ==
    ASSUME IInv, Quiet, NEW a \in Agents, NEW j \in Coordinators, NEW p, Coordinates(a, j, p),
           NEW q, agent' = [agent EXCEPT ![a].plan = q], CoordinatorPlan(q)
    PROVE  IInv' /\ Moved
<1>1. Shapes
  BY DEF IInv
<1>2. CoordinatorPlan(q)'
  BY SamePlans
<1>3. AgentFits(a)'
  BY <1>1, <1>2, CoordinatorFits DEF Quiet, Coordinates
<1> QED
  BY <1>1, <1>3, PlanChanges, QuietKeeps

LEMMA QuietRecovery ==
    ASSUME IInv, Quiet, NEW a \in Agents, NEW s \in Stages, NEW p, RecoversStage(a, s, p),
           NEW q, agent' = [agent EXCEPT ![a].plan = q], RecoveryPlan(s, q)
    PROVE  IInv' /\ Moved
<1>1. Shapes
  BY DEF IInv
<1>2. RecoveryPlan(s, q)'
  BY SamePlans
<1>3. AgentFits(a)'
  BY <1>1, <1>2, RecovererFitsAgain DEF Quiet, RecoversStage, Recovers
<1> QED
  BY <1>1, <1>3, PlanChanges, QuietKeeps

(* An agent gives up: the worker of a lost job, or a recovery pass.        *)
LEMMA IdleKeeps ==
    ASSUME IInv, Quiet, NEW a \in Agents, agent' = [agent EXCEPT ![a] = IdleAgent],
           agent[a].phase # "handle" \/ faults' = faults + 1
    PROVE  IInv' /\ Moved
<1>1. /\ DOMAIN agent' = Agents /\ \A b \in Agents : DOMAIN agent'[b] = AgentFields
      /\ agent'[a] = IdleAgent /\ \A b \in Agents : b # a => agent'[b] = agent[b]
  BY DEF IInv, Shapes, IdleAgent, AgentFields
<1>2. AgentFits(a)'
  BY <1>1 DEF AgentFits, IdleAgent
<1>3. \A j : Handled(j) => Handled(j)' \/ faults' = faults + 1
  BY <1>1 DEF Handled
<1> QED
  BY <1>1, <1>2, <1>3, QuietKeeps

(* Where a handler goes on after an error, the rest of its plan still fits. *)
LEMMA BestEffortEnds ==
    ASSUME NEW s, NEW p, BestEffort(p)
    PROVE  /\ \A o : p \notin Starting(s) \cup Admitting(s) \cup Ending(s, o) \cup Settling(s, o)
                              \cup Persisting(s, o) \cup Telling(s, o) \cup Closing
           /\ p \notin Beginning \cup Deciding \cup Completing \cup Decided
           /\ p \notin {<<<<"execute", s>>>>, <<Done("succeeded")>>}
           /\ p \in Doubting(s) => Tail(p) \in Doubting(s) \cup Failing
           /\ p \in Failing => Tail(p) \in Failing
<1>0. /\ \A x, y, z : BestEffort(<<x, y, z>>) =>
            z = Done("failed") \/ (x[1] = "quota" /\ x[4] = "uncertain")
      /\ \A x, y, z, u : BestEffort(<<x, y, z, u>>) =>
            u = Done("failed") \/ (x[1] = "quota" /\ x[4] = "uncertain")
      /\ \A x, y, z, u, v : BestEffort(<<x, y, z, u, v>>) =>
            v = Done("failed") \/ (x[1] = "quota" /\ x[4] = "uncertain")
  BY DEF BestEffort, Done
<1>1. ASSUME NEW o
      PROVE  p \notin Ending(s, o) /\ p \notin Settling(s, o) /\ p \notin Persisting(s, o)
  <2>1. Done("succeeded") # Done("failed")
    BY DEF Done
  <2>2. p \notin Ending(s, o)
    BY <1>0, <2>1 DEF Ending, Moves
  <2>3. p \notin Settling(s, o)
    BY <1>0, <2>1 DEF Settling, Settles
  <2>4. p \notin Persisting(s, o)
    BY <1>0, <2>1 DEF Persisting
  <2> QED
    BY <2>2, <2>3, <2>4
<1>2. p \notin Starting(s) /\ p \notin Admitting(s) /\ p \notin Closing
  BY DEF BestEffort, Starting, Admitting, Closing, Moves, Closes, Done
<1>3. \A o : p \notin Telling(s, o)
  BY DEF BestEffort, Telling, NextOps, Finish, Done
<1>4. p \notin Beginning \cup Deciding \cup Completing \cup Decided
  BY DEF BestEffort, Beginning, Deciding, Completing, Decided, Finish, Closes, Done
<1>5. p \notin {<<<<"execute", s>>>>, <<Done("succeeded")>>}
  BY DEF BestEffort, Done
<1>6. ASSUME p \in Doubting(s) PROVE Tail(p) \in Doubting(s) \cup Failing
  <2>1. PICK d \in {"in_doubt", "failed"} :
           \/ p = <<Doubts(s), Moves(s, "running", "in_doubt"), Finish("in_doubt"), Done(d)>>
           \/ p = <<Moves(s, "running", "in_doubt"), Finish("in_doubt"), Done(d)>>
    BY <1>6 DEF Doubting
  <2>2. \/ Tail(p) = <<Moves(s, "running", "in_doubt"), Finish("in_doubt"), Done(d)>>
        \/ Tail(p) = <<Finish("in_doubt"), Done(d)>>
    <3> DEFINE doubts == Doubts(s)
               moves == Moves(s, "running", "in_doubt")
               finish == Finish("in_doubt")
               done == Done(d)
    <3>1. \/ p = <<doubts, moves, finish, done>>
          \/ p = <<moves, finish, done>>
      BY <2>1
    <3> HIDE DEF doubts, moves, finish, done
    <3>2. CASE p = <<doubts, moves, finish, done>>
      <4>1. Tail(<<doubts, moves, finish, done>>) = <<moves, finish, done>>
        OBVIOUS
      <4> QED
        BY <3>2, <4>1 DEF doubts, moves, finish, done
    <3>3. CASE p = <<moves, finish, done>>
      <4>1. Tail(<<moves, finish, done>>) = <<finish, done>>
        OBVIOUS
      <4> QED
        BY <3>3, <4>1 DEF doubts, moves, finish, done
    <3> QED
      BY <3>1, <3>2, <3>3
  <2> QED
    BY <2>2 DEF Doubting, Failing
<1>7. ASSUME p \in Failing PROVE Tail(p) \in Failing
  <2>1. PICK d \in {"in_doubt", "failed"} : p = <<Finish("in_doubt"), Done(d)>> \/ p = <<Done(d)>>
    BY <1>7 DEF Failing
  <2>2. p # <<Done(d)>>
    BY DEF BestEffort, Done
  <2>3. Tail(p) = <<Done(d)>>
    <3>1. Tail(<<Finish("in_doubt"), Done(d)>>) = <<Done(d)>>
      BY Tails, Zenon
    <3> QED
      BY <2>1, <2>2, <3>1, Zenon
  <2> QED
    BY <2>3 DEF Failing
<1> QED
  BY <1>1, <1>2, <1>3, <1>4, <1>5, <1>6, <1>7

LEMMA BestEffortStage ==
    ASSUME NEW s \in Stages, NEW p, StagePlan(s, p), BestEffort(p)
    PROVE  StagePlan(s, Tail(p))
<1>1. (attempt[s] = "running" /\ p \in Doubting(s)) \/ p \in Failing
  BY BestEffortEnds DEF StagePlan
<1> QED
  BY <1>1, BestEffortEnds DEF StagePlan

LEMMA NoCoordinatorGoesOn ==
    ASSUME NEW p, CoordinatorPlan(p)
    PROVE  ~BestEffort(p)
<1>1. CASE p \in Beginning \cup Decided \cup Deciding \cup Completing
  BY <1>1, BestEffortEnds
<1>2. CASE Admits(p)
  <2>1. Head(p)[1] # "quota"
    BY <1>2, AdmitsHead DEF FirstIs, Done
  <2>2. p[Len(p)] = <<"deliver", "succeeded">>
    BY <1>2 DEF Admits, Done
  <2> QED
    BY <2>1, <2>2 DEF BestEffort
<1> QED
  BY <1>1, <1>2 DEF CoordinatorPlan

LEMMA RefusedKeeps ==
    ASSUME IInv, Quiet, NEW a \in Agents, agent[a].plan # <<>>, Refuse(a)
    PROVE  IInv' /\ Moved
<1>1. CASE agent[a].phase # "handle"
  <2>1. agent' = [agent EXCEPT ![a] = IdleAgent]
    BY <1>1 DEF Refuse, Refused
  <2> QED
    BY <1>1, <2>1, IdleKeeps
<1>2. CASE agent[a].phase = "handle"
  <2> DEFINE failed == <<Done("failed")>>
             q == IF BestEffort(agent[a].plan) THEN Tail(agent[a].plan) ELSE failed
  <2>1. agent' = [agent EXCEPT ![a].plan = q]
    BY <1>2 DEF Refuse, Refused, Done, IInv, Shapes
  <2>2. /\ \A s : StagePlan(s, failed)
        /\ CoordinatorPlan(failed)
    BY DEF StagePlan, Failing, CoordinatorPlan, Decided
  <2>3. ASSUME NEW s \in Stages, HandlesStage(a, s, agent[a].plan)
        PROVE  IInv' /\ Moved
    <3>1. StagePlan(s, q)
      BY <2>2, <2>3, BestEffortStage DEF HandlesStage
    <3> HIDE DEF q
    <3> QED
      BY <2>1, <2>3, <3>1, QuietStage
  <2>4. ASSUME NEW j \in Coordinators, Coordinates(a, j, agent[a].plan)
        PROVE  IInv' /\ Moved
    <3>1. CoordinatorPlan(q)
      BY <2>2, <2>4, NoCoordinatorGoesOn DEF Coordinates
    <3> HIDE DEF q
    <3> QED
      BY <2>1, <2>4, <3>1, QuietCoordinator
  <2> HIDE DEF q
  <2> QED
    BY <1>2, <2>3, <2>4, Acting DEF RecoversStage, RecoversCoordinator, Recovers
<1> QED
  BY <1>1, <1>2

(* The plans by their first operation.                                     *)
LEMMA StageFirst ==
    ASSUME NEW s \in Stages, NEW p, StagePlan(s, p)
    PROVE  \/ attempt[s] = "queued" /\ quota[s] = "none" /\ p = <<<<"load">>>> /\ FirstIs(p, "load")
           \/ /\ attempt[s] = "queued" /\ quota[s] = "none" /\ FirstIs(p, "attempt")
              /\ Head(p) = Moves(s, "queued", "running") /\ Rest(p) \in Admitting(s)
           \/ /\ attempt[s] = "running" /\ quota[s] = "none" /\ FirstIs(p, "admit")
              /\ p = <<<<"admit", s>>>>
           \/ /\ attempt[s] = "running" /\ quota[s] # "none" /\ FirstIs(p, "execute")
              /\ p = <<<<"execute", s>>>>
           \/ /\ attempt[s] = "running" /\ quota[s] # "none" /\ FirstIs(p, "persist")
              /\ Head(p) = <<"persist", s>> /\ \E o \in Ended : Rest(p) \in Settling(s, o)
           \/ /\ attempt[s] = "running" /\ FirstIs(p, "quota") /\ Head(p) = Settles(s)
              /\ \E o \in Ended : Rest(p) \in Ending(s, o)
           \/ /\ attempt[s] = "running" /\ FirstIs(p, "attempt")
              /\ \E o \in Ended : /\ Head(p) = Moves(s, "running", o) /\ Rest(p) \in Telling(s, o)
                                  /\ Unspent(s, o)
           \/ /\ attempt[s] = "running" /\ FirstIs(p, "quota") /\ Head(p) = Doubts(s)
              /\ Rest(p) \in Doubting(s) /\ ~FirstIs(Rest(p), "quota")
           \/ /\ attempt[s] = "running" /\ FirstIs(p, "attempt")
              /\ Head(p) = Moves(s, "running", "in_doubt") /\ Rest(p) \in Failing
           \/ /\ attempt[s] = "pass" /\ FirstIs(p, "enqueue")
              /\ Head(p) = <<"enqueue", Coordinator(s, 0)>> /\ Rest(p) = <<Done("succeeded")>>
           \/ /\ attempt[s] \in Ended \ {"pass"} /\ FirstIs(p, "finish")
              /\ \E target \in Told : Head(p) = Finish(target)
              /\ Rest(p) = <<Done("succeeded")>> /\ Tail(p) = <<Done("succeeded")>>
           \/ /\ attempt[s] \in Ended /\ HandedOn(s) /\ FirstIs(p, "finish_attempts")
              /\ Rest(p) = <<Done("succeeded")>>
           \/ /\ attempt[s] \in Ended /\ HandedOn(s) /\ FirstIs(p, "deliver")
              /\ p = <<Done("succeeded")>>
           \/ FirstIs(p, "finish") /\ Head(p) = Finish("in_doubt") /\ Rest(p) \in Failing
           \/ \E d \in {"in_doubt", "failed"} : FirstIs(p, "deliver") /\ p = <<Done(d)>>
<1>1. CASE attempt[s] = "queued" /\ quota[s] = "none" /\ p \in Starting(s)
  BY <1>1, StageHeads, StageTails
<1>2. CASE attempt[s] = "running" /\ quota[s] = "none" /\ p \in Admitting(s)
  BY <1>2, StageHeads DEF Admitting
<1>3. CASE attempt[s] = "running" /\ quota[s] # "none" /\ p \in {<<<<"execute", s>>>>}
  BY <1>3 DEF FirstIs
<1>4. CASE attempt[s] = "running" /\ p \in Doubting(s)
  BY <1>4, StageHeads, StageTails
<1>5. ASSUME NEW o \in Ended, attempt[s] = "running", p \in Persisting(s, o)
      PROVE  /\ FirstIs(p, "persist") /\ Head(p) = <<"persist", s>>
             /\ Rest(p) \in Settling(s, o)
  BY <1>5, StageHeads, StageTails
<1>6. ASSUME NEW o \in Ended, attempt[s] = "running", p \in Settling(s, o)
      PROVE  FirstIs(p, "quota") /\ Head(p) = Settles(s) /\ Rest(p) \in Ending(s, o)
  BY <1>6, StageHeads, StageTails
<1>7. ASSUME NEW o \in Ended, attempt[s] = "running", p \in Ending(s, o), Unspent(s, o)
      PROVE  /\ FirstIs(p, "attempt") /\ Unspent(s, o)
             /\ Head(p) = Moves(s, "running", o) /\ Rest(p) \in Telling(s, o)
  BY <1>7, StageHeads, StageTails
<1>8. CASE attempt[s] \in Ended /\ p \in Telling(s, attempt[s])
  <2>0. PICK op : p = <<op, Done("succeeded")>>
    BY <1>8 DEF Telling
  <2>1. Rest(p) = <<Done("succeeded")>> /\ Tail(p) = <<Done("succeeded")>>
    BY <2>0, Tails
  <2> QED
    BY <1>8, <2>1, TellingHeads
<1>9. CASE attempt[s] \in Ended /\ HandedOn(s) /\ p \in {<<Done("succeeded")>>} \cup Closing
  BY <1>9, StageHeads, StageTails, DoneHead
<1>10. CASE p \in Failing
  BY <1>10, StageHeads, StageTails
<1> QED
  BY <1>1, <1>2, <1>3, <1>4, <1>5, <1>6, <1>7, <1>8, <1>9, <1>10 DEF StagePlan

LEMMA CoordinatorFirst ==
    ASSUME NEW p, CoordinatorPlan(p)
    PROVE  \/ FirstIs(p, "begin") /\ Rest(p) \in Deciding
           \/ run # "queued" /\ FirstIs(p, "run_attempt") /\ p \in Deciding /\ Rest(p) \in Deciding
           \/ run # "queued" /\ FirstIs(p, "decide") /\ Tail(p) = <<Done("succeeded")>>
           \/ run # "queued" /\ FirstIs(p, "complete") /\ Tail(p) = <<Done("succeeded")>>
           \/ /\ AllPassed /\ FirstIs(p, "finish") /\ Head(p) = Finish("succeeded")
              /\ Tail(p) = <<Done("succeeded")>>
           \/ AllPassed /\ FirstIs(p, "finish_attempts") /\ Rest(p) = <<Done("succeeded")>>
           \/ FirstIs(p, "deliver") /\ Head(p)[2] \in Delivered
           \/ /\ run # "queued" /\ Admits(p) /\ FirstIs(p, "plan_attempt")
              /\ \E s \in Stages : Head(p) = <<"plan_attempt", s>> /\ LowerPassed(s)
           \/ /\ run # "queued" /\ Admits(p) /\ FirstIs(p, "enqueue")
              /\ \E s \in Stages : Head(p) = <<"enqueue", StageJob(s)>> /\ attempt[s] # "absent"
<1>1. CASE p \in Beginning \cup Decided
  BY <1>1, CoordinatorHeads
<1>2. CASE run # "queued" /\ p \in Deciding
  BY <1>2, CoordinatorHeads
<1>3. CASE run # "queued" /\ Admits(p)
  <2>1. CASE p = <<Done("succeeded")>>
    BY <2>1, CoordinatorHeads DEF Decided
  <2>2. CASE p # <<Done("succeeded")>>
    BY <1>3, <2>2, AdmitsHead
  <2> QED
    BY <2>1, <2>2
<1>4. CASE AllPassed /\ p \in Completing
  BY <1>4, CoordinatorHeads
<1> QED
  BY <1>1, <1>2, <1>3, <1>4 DEF CoordinatorPlan

LEMMA RecoveryFirst ==
    ASSUME NEW s \in Stages, NEW p, RecoveryPlan(s, p), p # <<>>
    PROVE  \/ /\ FirstIs(p, "enqueue") /\ Head(p) = <<"enqueue", Coordinator(s, 0)>>
              /\ Rest(p) \in Projecting(s)
           \/ /\ FirstIs(p, "finish") /\ Rest(p) \in Projecting(s)
              /\ \E target \in Told \cup {"in_doubt"} : p = <<Finish(target)>>
           \/ FirstIs(p, "finish_attempts") /\ Rest(p) \in Projecting(s)
           \/ FirstIs(p, "quota") /\ Head(p) = Doubts(s) /\ Rest(p) \in Projecting(s)
           \/ FirstIs(p, "doubt") /\ Head(p) = <<"doubt", s>> /\ Rest(p) \in Projecting(s)
           \/ /\ Interruptible(s) /\ FirstIs(p, "quota") /\ Head(p) = Doubts(s)
              /\ Rest(p) \in Returning(s)
           \/ /\ Interruptible(s) /\ quota[s] # "active" /\ FirstIs(p, "quota")
              /\ Head(p) = Returns(s) /\ Rest(p) \in Interrupting(s)
           \/ /\ Interruptible(s) /\ Closed(s) /\ FirstIs(p, "interrupt")
              /\ Head(p) = <<"interrupt", s>> /\ p \in Interrupting(s)
           \/ /\ Interruptible(s) /\ Closed(s) /\ FirstIs(p, "attempt")
              /\ \/ Head(p) = Moves(s, "running", "in_doubt") /\ Rest(p) \in Interrupting(s)
                 \/ Head(p) = Moves(s, "in_doubt", "reconciling") /\ Rest(p) \in Interrupting(s)
                 \/ Head(p) = Moves(s, "reconciling", "interrupted") /\ Rest(p) \in Interrupted(s)
           \/ /\ attempt[s] = "interrupted" /\ FirstIs(p, "finish")
              /\ Head(p) = Finish("failed_recoverable") /\ Rest(p) \in Interrupted(s)
              /\ <<Closes("failed_recoverable")>> \o Tail(p) \in Interrupted(s)
           \/ attempt[s] = "interrupted" /\ FirstIs(p, "finish_attempts") /\ Rest(p) \in Interrupted(s)
           \/ /\ attempt[s] = "interrupted" /\ FirstIs(p, "settle")
              /\ Head(p) = <<"settle", StageJob(s)>> /\ Rest(p) = <<>>
<1>1. CASE p \in Projecting(s)
  BY <1>1, ProjectingHeads, RecoveryTails
<1>2. CASE Interruptible(s) /\ p \in Losing(s)
  BY <1>2, InterruptHeads, RecoveryTails
<1>3. CASE Interruptible(s) /\ quota[s] # "active" /\ p \in Returning(s)
  BY <1>3, InterruptHeads, RecoveryTails
<1>4. CASE Interruptible(s) /\ Closed(s) /\ p \in Interrupting(s)
  BY <1>4, InterruptHeads
<1>5. CASE attempt[s] = "interrupted" /\ p \in Interrupted(s)
  <2>1. FirstIs(p, "settle") => ~FirstIs(p, "finish") /\ ~FirstIs(p, "finish_attempts")
    BY DEF FirstIs
  <2>2. FirstIs(p, "finish") \/ FirstIs(p, "finish_attempts") => ~FirstIs(p, "settle")
    BY DEF FirstIs
  <2> QED
    BY <1>5, <2>1, <2>2, InterruptHeads, RecoveryTails
<1> QED
  BY <1>1, <1>2, <1>3, <1>4, <1>5 DEF RecoveryPlan

(* An operation of a plan, and what it leaves of it.                       *)
LEMMA AtFirst ==
    ASSUME NEW a \in Agents, NEW op, At(a, op)
    PROVE  /\ agent[a].plan # <<>> /\ FirstIs(agent[a].plan, op)
           /\ Head(agent[a].plan)[1] = op
           /\ \A n : Arg(a, n) = Head(agent[a].plan)[n]
           /\ \A p \in {agent[a].plan} : FirstIs(p, op) /\ \A n : Arg(a, n) = Head(p)[n]
           /\ Proceed(a, <<>>) => agent' = [agent EXCEPT ![a].plan = Rest(agent[a].plan)]
BY DEF At, Arg, Proceed, Rest, FirstIs

(* A step of one agent's plan that keeps to the rules.                     *)
LEMMA PlanMoves ==
    ASSUME IInv, NEW a \in Agents, NEW q, agent' = [agent EXCEPT ![a].plan = q], Moved,
           run' \in RunStatus, runAttempt' \in RunAttemptStatus,
           attempt' \in [Stages -> AttemptStatus], evidence' \in [Stages -> BOOLEAN],
           quota' \in [Stages -> QuotaState], job' \in [Jobs -> JobState], queue' \in Seq(Jobs),
           faults' \in 0 .. MaxFaults, QueueFits', AgentFits(a)'
    PROVE  IInv'
<1>1. Shapes
  BY DEF IInv
<1>2. Shapes' /\ \A b \in Agents : agent'[b] = agent[b] \/ AgentFits(b)'
  BY <1>1, PlanChanges DEF Shapes
<1> QED
  BY <1>2, MovedKeeps

-----------------------------------------------------------------------------
(* The agents' loops.                                                      *)

LEMMA BeginCycleInvariant ==
    ASSUME IInv, NEW a \in Agents, BeginCycle(a)
    PROVE  IInv' /\ Moved
<1>1. Quiet /\ Shapes
  BY DEF IInv, Shapes, BeginCycle, Quiet, SameRows
<1>2. /\ DOMAIN agent' = Agents /\ \A b \in Agents : DOMAIN agent'[b] = AgentFields
      /\ agent'[a].phase = "scan" /\ agent'[a].todo = agent[a].todo
      /\ agent'[a].job = agent[a].job /\ agent'[a].plan = agent[a].plan
      /\ \A b \in Agents : b # a => agent'[b] = agent[b]
  BY <1>1 DEF Shapes, BeginCycle, AgentFields
<1>3. AgentFits(a) /\ agent[a].phase = "idle"
  BY DEF IInv, BeginCycle
<1>4. AgentFits(a)'
  BY <1>2, <1>3 DEF AgentFits
<1>5. \A j : Handled(j) => Handled(j)'
  <2>1. agent[a].phase # "handle"
    BY <1>3
  <2>2. \A b \in Agents : agent[b].phase = "handle" => agent'[b] = agent[b]
    BY <1>2, <2>1
  <2> QED
    BY <2>2 DEF Handled
<1> QED
  BY <1>1, <1>2, <1>4, <1>5, QuietKeeps

LEMMA EndRecoveryInvariant ==
    ASSUME IInv, NEW a \in Agents, EndRecovery(a)
    PROVE  IInv' /\ Moved
<1>1. Quiet /\ Shapes
  BY DEF IInv, Shapes, EndRecovery, Quiet, SameRows
<1>2. /\ DOMAIN agent' = Agents /\ \A b \in Agents : DOMAIN agent'[b] = AgentFields
      /\ agent'[a].phase \in {"idle", "claim"} /\ agent'[a].todo = {}
      /\ agent'[a].job = NoJob /\ agent'[a].plan = <<>>
      /\ agent'[a].phase = "claim" => a = "worker"
      /\ \A b \in Agents : b # a => agent'[b] = agent[b]
  BY <1>1 DEF Shapes, EndRecovery, IdleAgent, AgentFields
<1>3. agent[a].phase = "recover"
  BY DEF EndRecovery
<1>4. AgentFits(a)'
  BY <1>2 DEF AgentFits
<1>5. \A j : Handled(j) => Handled(j)'
  BY <1>2, <1>3 DEF Handled
<1> QED
  BY <1>1, <1>2, <1>4, <1>5, QuietKeeps

LEMMA ScanInvariant ==
    ASSUME IInv, NEW a \in Agents, Scan(a)
    PROVE  IInv' /\ Moved
<1>0. Shapes /\ AgentFits(a) /\ agent[a].phase = "scan"
  BY DEF IInv, Scan
<1>1. PICK todo \in SUBSET Jobs :
        /\ agent' = [agent EXCEPT ![a].phase = "recover", ![a].todo = todo]
        /\ \A j \in todo : job[j] \in {"lapsed", "lost"}
  <2> DEFINE found == {j \in Jobs : job[j] = "lapsed"}
             todo == (IF a = "operator" THEN found \cap StageJobs ELSE found)
                        \cup {j \in StageJobs : job[j] = "lost"}
  <2>1. todo \in SUBSET Jobs /\ \A j \in todo : job[j] \in {"lapsed", "lost"}
    BY DEF Jobs
  <2>2. agent' = [agent EXCEPT ![a].phase = "recover", ![a].todo = todo]
    BY DEF Scan
  <2> HIDE DEF todo
  <2> QED
    BY <2>1, <2>2
<1>2. /\ DOMAIN agent' = Agents /\ \A b \in Agents : DOMAIN agent'[b] = AgentFields
      /\ agent'[a].phase = "recover" /\ agent'[a].todo = todo
      /\ agent'[a].job = agent[a].job /\ agent'[a].plan = agent[a].plan
      /\ \A b \in Agents : b # a => agent'[b] = agent[b]
  BY <1>0, <1>1 DEF Shapes, AgentFields
<1>3. /\ UNCHANGED <<run, runAttempt, attempt, evidence, quota, queue, faults>>
      /\ job' \in [Jobs -> JobState]
      /\ \A j \in Jobs : IF job[j] = "lapsed" THEN job'[j] = "lost" ELSE job'[j] = job[j]
  BY <1>0 DEF Shapes, Scan, JobState
<1>4. \A j : Handled(j) => Handled(j)'
  BY <1>0, <1>2 DEF Handled
<1>5. \A j \in Jobs : JobMoves(j)
  BY <1>3, <1>4 DEF JobMoves
<1>6. SameRows /\ RunMoves /\ faults' >= faults
  BY <1>0, <1>3 DEF SameRows, RunMoves, Shapes
<1>7. Moved
  BY <1>5, <1>6, RowsStay DEF Moved
<1>8. Shapes'
  BY <1>0, <1>2, <1>3 DEF Shapes
<1>9. QueueFits'
  BY <1>3 DEF IInv, QueueFits
<1>10. AgentFits(a)'
  <2>1. agent[a].job = NoJob /\ agent[a].plan = <<>>
    BY <1>0 DEF AgentFits
  <2>2. \A j \in todo : job'[j] \in Gone
    BY <1>1, <1>3 DEF Gone
  <2>3. RecovererFits(a)'
    BY <1>2, <2>1, <2>2 DEF RecovererFits
  <2> QED
    BY <1>2, <2>3 DEF AgentFits
<1> QED
  BY <1>2, <1>7, <1>8, <1>9, <1>10, MovedKeeps

LEMMA ClaimInvariant ==
    ASSUME IInv, NEW a \in Agents, Claim(a)
    PROVE  IInv' /\ Moved
<1>0. /\ Shapes /\ QueueFits /\ AgentFits(a) /\ agent[a].phase = "claim"
      /\ UNCHANGED <<run, runAttempt, attempt, evidence, quota, faults>>
  BY DEF IInv, Claim
<1>1. CASE queue = <<>>
  <2>1. Quiet /\ agent' = [agent EXCEPT ![a] = IdleAgent]
    BY <1>0, <1>1 DEF Claim, Quiet, SameRows, Shapes
  <2> QED
    BY <1>0, <2>1, IdleKeeps
<1>2. CASE queue # <<>>
  <2>1. PICK j \in Jobs : j = Head(queue) /\ j = queue[1]
    BY <1>0, <1>2 DEF Shapes
  <2>2. PICK plan : plan = LoadPlan(j)
    OBVIOUS
  <2>3. /\ job' = [job EXCEPT ![j] = "running"] /\ queue' = Tail(queue)
        /\ agent' = [agent EXCEPT ![a] =
              [IdleAgent EXCEPT !.phase = "handle", !.job = j, !.plan = plan]]
    BY <1>2, <2>1, <2>2 DEF Claim
  <2>4. /\ DOMAIN agent' = Agents /\ \A b \in Agents : DOMAIN agent'[b] = AgentFields
        /\ agent'[a].phase = "handle" /\ agent'[a].todo = {} /\ agent'[a].job = j
        /\ agent'[a].plan = plan /\ \A b \in Agents : b # a => agent'[b] = agent[b]
    BY <1>0, <2>3 DEF Shapes, AgentFields, IdleAgent
  <2>5. /\ job' \in [Jobs -> JobState] /\ job'[j] = "running"
        /\ \A k \in Jobs : k # j => job'[k] = job[k]
    BY <1>0, <2>3 DEF Shapes, JobState
  <2>6. /\ queue' \in Seq(Jobs) /\ Len(queue') = Len(queue) - 1 /\ Len(queue) \in Nat \ {0}
        /\ \A i \in 1 .. Len(queue') : queue'[i] = queue[i + 1]
    BY <1>0, <1>2, <2>3 DEF Shapes
  <2>7. job[j] = "queued"
    BY <1>0, <2>1, <2>6 DEF QueueFits
  <2>8. QueueFits'
    <3>1. \A i, k \in 1 .. Len(queue') : queue'[i] = queue'[k] => i = k
      BY <1>0, <2>6 DEF QueueFits
    <3>2. \A i \in 1 .. Len(queue') : queue'[i] # j
      BY <1>0, <2>1, <2>6 DEF QueueFits
    <3>3. ASSUME NEW k \in Jobs, k # j, NEW i \in 1 .. Len(queue), queue[i] = k
          PROVE  \E l \in 1 .. Len(queue') : queue'[l] = k
      <4>1. i # 1 /\ i - 1 \in 1 .. Len(queue')
        BY <2>1, <2>6, <3>3
      <4>2. queue'[i - 1] = k
        BY <2>6, <3>3, <4>1
      <4> QED
        BY <4>1, <4>2
    <3>4. ASSUME NEW k \in Jobs, NEW i \in 1 .. Len(queue'), queue'[i] = k
          PROVE  job'[k] = "queued"
      <4>1. k # j /\ i + 1 \in 1 .. Len(queue) /\ queue[i + 1] = k
        BY <2>6, <3>2, <3>4
      <4> QED
        BY <1>0, <2>5, <4>1 DEF QueueFits
    <3>5. ASSUME NEW k \in Jobs, job'[k] = "queued"
          PROVE  \E l \in 1 .. Len(queue') : queue'[l] = k
      <4>1. k # j /\ job[k] = "queued"
        BY <2>5, <3>5
      <4> QED
        BY <1>0, <3>3, <4>1 DEF QueueFits
    <3> QED
      BY <3>1, <3>4, <3>5 DEF QueueFits
  <2>9. \A k : Handled(k) => Handled(k)'
    <3>1. agent[a].phase # "handle"
      BY <1>0
    <3>2. \A b \in Agents : agent[b].phase = "handle" => agent'[b] = agent[b]
      BY <2>4, <3>1
    <3> QED
      BY <3>2 DEF Handled
  <2>10. Handled(j)'
    BY <2>4 DEF Handled
  <2>11. \A k \in Jobs : JobMoves(k)
    BY <2>5, <2>7, <2>9, <2>10 DEF JobMoves
  <2>12. Moved
    BY <1>0, <2>11, RowsStay DEF Moved, SameRows, RunMoves, Shapes
  <2>13. Shapes'
    BY <1>0, <2>4, <2>5, <2>6 DEF Shapes
  <2>14. HandlerFits(a)'
    <3>1. a = "worker" /\ agent'[a].job \in Jobs /\ job'[agent'[a].job] = "running"
      BY <1>0, <2>4, <2>5 DEF AgentFits
    <3>2. ASSUME NEW s \in Stages, j = StageJob(s)
          PROVE  StagePlan(s, plan)'
      <4>1. attempt[s] = "queued" /\ quota[s] = "none"
        BY <2>7, <3>2 DEF IInv, RowFits
      <4>2. plan \in Starting(s)
        BY <2>2, <3>2, JobsOfStage DEF LoadPlan, Starting
      <4> QED
        BY <1>0, <4>1, <4>2 DEF StagePlan
    <3>3. ASSUME j \in Coordinators
          PROVE  CoordinatorPlan(plan)'
      <4>1. plan \in Beginning
        BY <2>2, <3>3, NoStageJobIsCoordinator DEF LoadPlan, Beginning, Done
      <4> QED
        BY <4>1 DEF CoordinatorPlan
    <3>4. \/ \E s \in Stages : j = StageJob(s)
          \/ j \in Coordinators
      BY DEF Jobs, StageJobs
    <3> QED
      BY <2>4, <3>1, <3>2, <3>3, <3>4 DEF HandlerFits
  <2>15. AgentFits(a)'
    BY <2>4, <2>14 DEF AgentFits
  <2> QED
    BY <2>4, <2>8, <2>12, <2>13, <2>15, MovedKeeps
<1> QED
  BY <1>1, <1>2

(* What a recovery does is what the attempt it finds calls for.            *)
LEMMA StageRecoveryFits ==
    ASSUME NEW s \in Stages
    PROVE  RecoveryPlan(s, StageRecovery(s))
<1> DEFINE doubt == attempt[s] \in {"running", "in_doubt", "reconciling"}
<1>1. CASE doubt /\ evidence[s]
  <2>1. StageRecovery(s) =
          <<<<"quota", s, {"active"}, "uncertain">>, <<"doubt", s>>, <<"finish", "in_doubt">>>>
    BY <1>1 DEF StageRecovery, TerminalAttempt, Verdicts
  <2>2. StageRecovery(s) = <<Doubts(s), <<"doubt", s>>, Finish("in_doubt")>>
    BY <2>1, Zenon DEF Doubts, Finish
  <2> QED
    BY <2>2 DEF RecoveryPlan, Projecting
<1>2. CASE doubt /\ ~evidence[s]
  <2>1. StageRecovery(s) =
          <<<<"quota", s, {"active"}, "uncertain">>, <<"quota", s, {"uncertain"}, "settled">>,
            <<"interrupt", s>>, <<"finish", "failed_recoverable">>, <<"settle", StageJob(s)>>>>
    BY <1>2 DEF StageRecovery, TerminalAttempt, Verdicts
  <2>2. StageRecovery(s) \in Losing(s)
    BY <2>1, Zenon DEF Losing, Doubts, Returns, Finish
  <2> QED
    BY <1>2, <2>2 DEF RecoveryPlan, Interruptible
<1>3. CASE attempt[s] = "interrupted" /\ run = "failed_recoverable"
  <2>1. StageRecovery(s) = <<<<"settle", StageJob(s)>>>>
    BY <1>3 DEF StageRecovery
  <2> QED
    BY <1>3, <2>1 DEF RecoveryPlan, Interrupted
<1>4. CASE attempt[s] \in TerminalAttempt /\ run = "running"
  <2>1. StageRecovery(s) = AfterTerminal(s, attempt[s])
    BY <1>4 DEF StageRecovery, TerminalAttempt, Verdicts
  <2>2. AfterTerminal(s, attempt[s]) \in Projecting(s)
    BY <1>4 DEF AfterTerminal, Projecting, TerminalAttempt, Verdicts, Finish, Told
  <2> QED
    BY <2>1, <2>2 DEF RecoveryPlan
<1>5. CASE /\ ~doubt /\ ~(attempt[s] = "interrupted" /\ run = "failed_recoverable")
           /\ ~(attempt[s] \in TerminalAttempt /\ run = "running")
  <2>1. StageRecovery(s) = <<>>
    BY <1>5 DEF StageRecovery
  <2> QED
    BY <2>1 DEF RecoveryPlan, Projecting
<1> QED
  BY <1>1, <1>2, <1>3, <1>4, <1>5

LEMMA RecoverInvariant ==
    ASSUME IInv, NEW a \in Agents, Recover(a)
    PROVE  IInv' /\ Moved
<1>0. Shapes /\ AgentFits(a) /\ agent[a].phase = "recover" /\ agent[a].plan = <<>> /\ Quiet
  BY DEF IInv, Recover, Quiet, SameRows, Shapes
<1>1. Recovers(a)
  BY <1>0 DEF AgentFits, RecovererFits, Recovers
<1>2. PICK j \in agent[a].todo :
        agent' = [agent EXCEPT ![a].todo = @ \ {j}, ![a].job = j, ![a].plan =
            IF j \in StageJobs THEN StageRecovery(j[2]) ELSE CoordinatorRecovery(j)]
  BY DEF Recover
<1>3. PICK plan :
        plan = IF j \in StageJobs THEN StageRecovery(j[2]) ELSE CoordinatorRecovery(j)
  OBVIOUS
<1>4. /\ DOMAIN agent' = Agents /\ \A b \in Agents : DOMAIN agent'[b] = AgentFields
      /\ agent'[a].phase = "recover" /\ agent'[a].todo = agent[a].todo \ {j}
      /\ agent'[a].job = j /\ agent'[a].plan = plan
      /\ \A b \in Agents : b # a => agent'[b] = agent[b]
  <2>1. agent' = [agent EXCEPT ![a].todo = @ \ {j}, ![a].job = j, ![a].plan = plan]
    BY <1>2, <1>3
  <2> QED
    BY <1>0, <2>1 DEF Shapes, AgentFields
<1>5. j \in Jobs /\ job[j] \in Gone
  BY <1>1 DEF Recovers
<1>6. \A k \in agent'[a].todo : k \in Jobs /\ job'[k] \in Gone
  BY <1>0, <1>1, <1>4 DEF Recovers, Quiet
<1>7. ASSUME j \in StageJobs
      PROVE  AgentFits(a)'
  <2>1. PICK s \in Stages : j = StageJob(s)
    BY <1>7 DEF StageJobs
  <2>2. RecoveryPlan(s, plan)
    BY <1>3, <1>7, <2>1, JobsOfStage, StageRecoveryFits
  <2>3. RecoveryPlan(s, plan)'
    BY <1>0, <2>2, SamePlans
  <2>4. job'[StageJob(s)] \in Gone
    BY <1>0, <1>5, <2>1 DEF Quiet
  <2>5. RecovererFits(a)'
    BY <1>4, <1>6, <2>1, <2>3, <2>4 DEF RecovererFits
  <2> QED
    BY <1>4, <2>5 DEF AgentFits
<1>8. ASSUME j \notin StageJobs
      PROVE  AgentFits(a)'
  <2>1. PICK c \in Stages \cup {Start}, n \in 0 .. MaxFaults : j = Coordinator(c, n)
    BY <1>5, <1>8 DEF Jobs, Coordinators
  <2>2. j[2] = c /\ j[3] = n
    BY <2>1 DEF Coordinator
  <2>3. plan = <<>> \/ plan = <<<<"enqueue", Coordinator(c, n + 1)>>>>
    BY <1>3, <1>8, <2>2 DEF CoordinatorRecovery
  <2>4. n + 1 <= faults
    BY <1>5, <2>2 DEF IInv, RoundFits, Gone
  <2>5. n + 1 <= faults'
    BY <1>0, <2>4 DEF Quiet, Shapes
  <2>6. RecovererFits(a)'
    BY <1>4, <1>5, <1>6, <2>1, <2>3, <2>5 DEF RecovererFits
  <2> QED
    BY <1>4, <2>6 DEF AgentFits
<1>9. AgentFits(a)'
  BY <1>7, <1>8
<1>10. \A k : Handled(k) => Handled(k)'
  <2>1. agent[a].phase # "handle"
    BY <1>0
  <2>2. \A b \in Agents : agent[b].phase = "handle" => agent'[b] = agent[b]
    BY <1>4, <2>1
  <2> QED
    BY <2>2 DEF Handled
<1> QED
  BY <1>0, <1>4, <1>9, <1>10, QuietKeeps

(* Some operations are of one kind of plan only.                           *)
LEMMA CoordinatorAtWork ==
    ASSUME IInv, NEW a \in Agents,
           NEW op \in {"begin", "run_attempt", "decide", "plan_attempt", "complete"}, At(a, op)
    PROVE  \E j \in Coordinators, p \in {agent[a].plan} :
              Coordinates(a, j, p) /\ FirstIs(p, op) /\ Head(p)[1] = op
<1> DEFINE p == agent[a].plan
<1>1. p # <<>> /\ FirstIs(p, op) /\ Head(p)[1] = op
  BY AtFirst
<1>2. \A s \in Stages : ~HandlesStage(a, s, p)
  <2> SUFFICES ASSUME NEW s \in Stages, StagePlan(s, p) PROVE FALSE
    BY DEF HandlesStage
  <2> HIDE DEF p
  <2> QED
    BY <1>1, StageFirst DEF FirstIs
<1>3. \A s \in Stages : ~RecoversStage(a, s, p)
  <2> SUFFICES ASSUME NEW s \in Stages, RecoveryPlan(s, p) PROVE FALSE
    BY DEF RecoversStage
  <2> HIDE DEF p
  <2> QED
    BY <1>1, RecoveryFirst DEF FirstIs
<1>4. \A c \in Stages \cup {Start}, n \in 0 .. MaxFaults : ~RecoversCoordinator(a, c, n)
  BY <1>1 DEF RecoversCoordinator, FirstIs
<1> QED
  BY <1>1, <1>2, <1>3, <1>4, Acting

LEMMA StageAtWork ==
    ASSUME IInv, NEW a \in Agents, NEW op \in {"load", "admit", "execute", "persist"}, At(a, op)
    PROVE  \E s \in Stages, p \in {agent[a].plan} :
              HandlesStage(a, s, p) /\ FirstIs(p, op) /\ Head(p)[1] = op
<1> DEFINE p == agent[a].plan
<1>1. p # <<>> /\ FirstIs(p, op) /\ Head(p)[1] = op
  BY AtFirst
<1>2. \A j \in Coordinators : ~Coordinates(a, j, p)
  <2> SUFFICES ASSUME CoordinatorPlan(p) PROVE FALSE
    BY DEF Coordinates
  <2> HIDE DEF p
  <2> QED
    BY <1>1, CoordinatorFirst DEF FirstIs
<1>3. \A s \in Stages : ~RecoversStage(a, s, p)
  <2> SUFFICES ASSUME NEW s \in Stages, RecoveryPlan(s, p) PROVE FALSE
    BY DEF RecoversStage
  <2> HIDE DEF p
  <2> QED
    BY <1>1, RecoveryFirst DEF FirstIs
<1>4. \A c \in Stages \cup {Start}, n \in 0 .. MaxFaults : ~RecoversCoordinator(a, c, n)
  BY <1>1 DEF RecoversCoordinator, FirstIs
<1> QED
  BY <1>1, <1>2, <1>3, <1>4, Acting

LEMMA RecoveryAtWork ==
    ASSUME IInv, NEW a \in Agents, NEW op \in {"interrupt", "doubt", "settle"}, At(a, op)
    PROVE  \E s \in Stages, p \in {agent[a].plan} :
              RecoversStage(a, s, p) /\ FirstIs(p, op) /\ Head(p)[1] = op
<1> DEFINE p == agent[a].plan
<1>1. p # <<>> /\ FirstIs(p, op) /\ Head(p)[1] = op
  BY AtFirst
<1>2. \A j \in Coordinators : ~Coordinates(a, j, p)
  <2> SUFFICES ASSUME CoordinatorPlan(p) PROVE FALSE
    BY DEF Coordinates
  <2> HIDE DEF p
  <2> QED
    BY <1>1, CoordinatorFirst DEF FirstIs
<1>3. \A s \in Stages : ~HandlesStage(a, s, p)
  <2> SUFFICES ASSUME NEW s \in Stages, StagePlan(s, p) PROVE FALSE
    BY DEF HandlesStage
  <2> HIDE DEF p
  <2> QED
    BY <1>1, StageFirst DEF FirstIs
<1>4. \A c \in Stages \cup {Start}, n \in 0 .. MaxFaults : ~RecoversCoordinator(a, c, n)
  BY <1>1 DEF RecoversCoordinator, FirstIs
<1> QED
  BY <1>1, <1>2, <1>3, <1>4, Acting

-----------------------------------------------------------------------------
(* The coordinator job.                                                    *)

LEMMA BeginRunInvariant ==
    ASSUME IInv, NEW a \in Agents, BeginRun(a)
    PROVE  IInv' /\ Moved
<1>0. /\ At(a, "begin") /\ Shapes /\ QueueFits
      /\ UNCHANGED <<runAttempt, attempt, evidence, quota, job, queue, faults>>
  BY DEF IInv, BeginRun
<1>1. PICK j \in Coordinators, p \in {agent[a].plan} :
        Coordinates(a, j, p) /\ FirstIs(p, "begin") /\ Head(p)[1] = "begin"
  BY <1>0, CoordinatorAtWork
<1>2. Rest(p) \in Deciding
  BY <1>1, CoordinatorFirst DEF Coordinates, FirstIs
<1>3. CASE run' = "running" /\ Proceed(a, <<>>)
  <2> DEFINE q == Rest(p)
  <2>1. agent' = [agent EXCEPT ![a].plan = q]
    BY <1>0, <1>1, <1>3, AtFirst
  <2>2. Moved
    <3>1. RunMoves /\ faults' >= faults
      BY <1>0, <1>3 DEF RunMoves, Shapes
    <3> QED
      BY <1>0, <2>1, <3>1, PlanJobsStay, RowsStay DEF Moved, SameRows
  <2>3. CoordinatorPlan(q)' /\ job'[j] = "running"
    BY <1>0, <1>1, <1>2, <1>3 DEF CoordinatorPlan, Coordinates
  <2>4. AgentFits(a)'
    BY <1>0, <1>1, <2>1, <2>3, CoordinatorFits
  <2>5. QueueFits'
    BY <1>0, QueueStays
  <2> QED
    BY <1>0, <1>3, <2>1, <2>2, <2>4, <2>5, PlanMoves DEF Shapes, RunStatus
<1>4. CASE Refuse(a) /\ UNCHANGED run
  <2>1. Quiet
    BY <1>0, <1>4 DEF Quiet, SameRows, Shapes
  <2> QED
    BY <1>0, <1>4, <2>1, AtFirst, RefusedKeeps
<1> QED
  BY <1>3, <1>4 DEF BeginRun

LEMMA EnsureRunAttemptInvariant ==
    ASSUME IInv, NEW a \in Agents, EnsureRunAttempt(a)
    PROVE  IInv' /\ Moved
<1>0. At(a, "run_attempt") /\ Shapes
  BY DEF IInv, EnsureRunAttempt
<1>1. Quiet
  BY <1>0 DEF Quiet, SameRows, Shapes, EnsureRunAttempt, RunAttemptStatus
<1>2. CASE UNCHANGED agent
  <2>1. DOMAIN agent' = Agents /\ \A b \in Agents : DOMAIN agent'[b] = AgentFields
    BY <1>0, <1>2 DEF Shapes
  <2>2. \A j : Handled(j) => Handled(j)'
    BY <1>2 DEF Handled
  <2> QED
    BY <1>1, <1>2, <2>1, <2>2, QuietKeeps
<1>3. CASE Proceed(a, <<>>)
  <2>1. PICK j \in Coordinators, p \in {agent[a].plan} :
          Coordinates(a, j, p) /\ FirstIs(p, "run_attempt") /\ Head(p)[1] = "run_attempt"
    BY <1>0, CoordinatorAtWork
  <2>2. run # "queued" /\ Rest(p) \in Deciding
    BY <2>1, CoordinatorFirst DEF Coordinates, FirstIs
  <2>3. agent' = [agent EXCEPT ![a].plan = Rest(p)] /\ CoordinatorPlan(Rest(p))
    BY <1>0, <1>3, <2>1, <2>2, AtFirst DEF CoordinatorPlan
  <2> QED
    BY <1>1, <2>1, <2>3, QuietCoordinator
<1> QED
  BY <1>2, <1>3 DEF EnsureRunAttempt

LEMMA CompleteRunInvariant ==
    ASSUME IInv, NEW a \in Agents, CompleteRun(a)
    PROVE  IInv' /\ Moved
<1>0. At(a, "complete") /\ Shapes
  BY DEF IInv, CompleteRun
<1>1. Quiet
  BY <1>0 DEF Quiet, SameRows, Shapes, CompleteRun
<1>2. PICK j \in Coordinators, p \in {agent[a].plan} :
        Coordinates(a, j, p) /\ FirstIs(p, "complete") /\ Head(p)[1] = "complete"
  BY <1>0, CoordinatorAtWork
<1>3. p = agent[a].plan /\ Tail(p) = <<Done("succeeded")>>
  BY <1>2, CoordinatorFirst DEF Coordinates, FirstIs
<1>4. CASE Proceed(a, <<>>)
  <2>1. CoordinatorPlan(Rest(p))
    BY <1>3 DEF CoordinatorPlan, Decided, Rest
  <2>2. agent' = [agent EXCEPT ![a].plan = Rest(p)]
    BY <1>0, <1>3, <1>4, AtFirst
  <2> QED
    BY <1>1, <1>2, <2>1, <2>2, QuietCoordinator
<1>5. CASE AllPassed /\ Proceed(a, <<<<"finish", "succeeded">>>>)
  <2> DEFINE q == <<Finish("succeeded"), Done("succeeded")>>
  <2>1. <<Finish("succeeded")>> \o Tail(p) = q
    BY <1>3, Pair
  <2>2. agent' = [agent EXCEPT ![a].plan = q]
    BY <1>3, <1>5, <2>1 DEF Proceed, Finish
  <2>3. CoordinatorPlan(q)
    BY <1>5 DEF CoordinatorPlan, Completing
  <2> QED
    BY <1>1, <1>2, <2>2, <2>3, QuietCoordinator
<1>6. CASE Refuse(a)
  BY <1>0, <1>1, <1>6, AtFirst, RefusedKeeps
<1> QED
  BY <1>4, <1>5, <1>6 DEF CompleteRun, AllPassed

LEMMA PlanStageAttemptInvariant ==
    ASSUME IInv, NEW a \in Agents, PlanStageAttempt(a)
    PROVE  IInv' /\ Moved
<1>0. /\ At(a, "plan_attempt") /\ Shapes /\ QueueFits
      /\ UNCHANGED <<run, runAttempt, evidence, quota, job, queue, faults>>
  BY DEF IInv, PlanStageAttempt
<1>1. PICK j \in Coordinators, p \in {agent[a].plan} :
        Coordinates(a, j, p) /\ FirstIs(p, "plan_attempt") /\ Head(p)[1] = "plan_attempt"
  BY <1>0, CoordinatorAtWork
<1>2. PICK s \in Stages :
        /\ run # "queued" /\ Admits(p) /\ Head(p) = <<"plan_attempt", s>> /\ LowerPassed(s)
  BY <1>1, CoordinatorFirst DEF Coordinates, FirstIs
<1>3. p = agent[a].plan /\ Arg(a, 2) = s
  BY <1>0, <1>1, <1>2, AtFirst
<1> DEFINE q == Rest(p)
<1>4. /\ attempt' = [attempt EXCEPT ![s] = IF @ = "absent" THEN "queued" ELSE @]
      /\ agent' = [agent EXCEPT ![a].plan = q]
  BY <1>0, <1>3, AtFirst DEF PlanStageAttempt
<1>5. /\ attempt' \in [Stages -> AttemptStatus] /\ attempt'[s] # "absent"
      /\ \A t \in Stages : t # s => attempt'[t] = attempt[t]
      /\ attempt'[s] = IF attempt[s] = "absent" THEN "queued" ELSE attempt[s]
  BY <1>0, <1>4 DEF Shapes, AttemptStatus
<1>6. \A t \in Stages : RowMoves(t)
  <2> SUFFICES ASSUME NEW t \in Stages PROVE RowMoves(t)
    OBVIOUS
  <2>1. quota'[t] = quota[t] /\ evidence'[t] = evidence[t]
    BY <1>0
  <2>2. attempt'[t] = attempt[t] \/ (attempt[t] = "absent" /\ LowerPassed(t) /\ attempt'[t] = "queued")
    <3>1. CASE t = s
      <4>1. LowerPassed(s)
        BY <1>2
      <4>2. attempt'[s] = attempt[s] \/ (attempt[s] = "absent" /\ attempt'[s] = "queued")
        BY <1>5
      <4> QED
        BY <3>1, <4>1, <4>2, Zenon
    <3>2. CASE t # s
      BY <1>5, <3>2
    <3> QED
      BY <3>1, <3>2
  <2> QED
    BY <2>1, <2>2 DEF RowMoves
<1>7. Moved
  <2>1. RunMoves /\ faults' >= faults
    BY <1>0 DEF RunMoves, Shapes
  <2> QED
    BY <1>0, <1>4, <1>6, <2>1, PlanJobsStay DEF Moved
<1>8. p # <<Done("succeeded")>>
  BY <1>1 DEF Done
<1>9. CoordinatorPlan(q)' /\ job'[j] = "running"
  <2>1. Admits(q)'
    BY <1>2, <1>5, <1>7, <1>8, AdmitsTail
  <2> QED
    BY <1>0, <1>1, <1>2, <2>1 DEF CoordinatorPlan, Coordinates
<1>10. AgentFits(a)'
  BY <1>0, <1>1, <1>4, <1>9, CoordinatorFits
<1>11. QueueFits'
  BY <1>0, QueueStays
<1> QED
  BY <1>0, <1>4, <1>5, <1>7, <1>10, <1>11, PlanMoves DEF Shapes

(* A batch is admitted in some order: an attempt, then its job.            *)
LEMMA BatchOrder ==
    SetToSeq(NextBatch) \in Seq(NextBatch) /\ (NextBatch # {} => SetToSeq(NextBatch) # <<>>)
<1> DEFINE n == Cardinality(NextBatch)
<1>1. IsFiniteSet(NextBatch)
  <2>1. NextBatch \subseteq Stages
    BY DEF NextBatch
  <2> QED
    BY <2>1, FS_Subset
<1>2. n \in Nat /\ ExistsBijection(1 .. n, NextBatch)
  BY <1>1, FS_CardinalityType
<1>3. \E f \in [1 .. n -> NextBatch] : IsInjective(f)
  BY <1>2 DEF ExistsBijection, Bijection, Injection, IsInjective
<1>4. SetToSeq(NextBatch) \in [1 .. n -> NextBatch]
  BY <1>3 DEF SetToSeq
<1>5. NextBatch # {} => n # 0
  BY <1>2 DEF ExistsBijection, Bijection, Surjection
<1> HIDE DEF n
<1> QED
  BY <1>2, <1>4, <1>5

LEMMA AdmissionsAdmit ==
    ASSUME NEW order \in Seq(Stages), order # <<>>,
           \A i \in 1 .. Len(order) : LowerPassed(order[i])
    PROVE  Admits(Admissions(order) \o <<Done("succeeded")>>)
<1> DEFINE n == Len(order)
           A == Admissions(order)
           last == Done("succeeded")
           p == A \o <<last>>
           O == {A[i] : i \in 1 .. 2 * n} \cup {last}
<1>1. n \in Nat \ {0}
  OBVIOUS
<1>2. PICK m \in Nat : m = 2 * n
  BY <1>1
<1>3. \A i \in 1 .. 2 * n : A[i] = IF i % 2 = 1 THEN <<"plan_attempt", order[(i + 1) \div 2]>>
                                   ELSE <<"enqueue", StageJob(order[i \div 2])>>
  BY DEF Admissions
<1>4. /\ p \in Seq(O) /\ Len(p) = 2 * n + 1 /\ p[2 * n + 1] = last
      /\ \A i \in 1 .. 2 * n : p[i] = A[i]
  <2>1. A = [i \in 1 .. m |-> A[i]]
    BY <1>2 DEF Admissions
  <2>2. last \in O /\ \A i \in 1 .. m : A[i] \in O
    BY <1>2
  <2> HIDE DEF A, O, n, last
  <2>3. A \in [1 .. m -> O]
    BY <2>1, <2>2
  <2>4. A \in Seq(O) /\ Len(A) = m
    <3>1. m \in Nat
      BY <1>2
    <3>2. A \in Seq(O)
      BY <2>3, <3>1
    <3>3. DOMAIN A = 1 .. m
      BY <2>3
    <3> QED
      BY <3>1, <3>2, <3>3
  <2>5. <<last>> \in Seq(O) /\ Len(<<last>>) = 1 /\ <<last>>[1] = last
    BY <2>2
  <2>6. p \in Seq(O) /\ Len(p) = m + 1 /\ p[m + 1] = last /\ \A i \in 1 .. m : p[i] = A[i]
    BY <1>2, <2>4, <2>5
  <2> QED
    BY <1>2, <2>6
<1>5. ASSUME NEW i \in 1 .. 2 * n
      PROVE  AdmitsAt(p, i)
  <2>1. CASE i % 2 = 1
    <3>1. (i + 1) \div 2 \in 1 .. n
      BY <1>1, <2>1
    <3>2. order[(i + 1) \div 2] \in Stages /\ LowerPassed(order[(i + 1) \div 2])
      BY <3>1
    <3>3. p[i] = <<"plan_attempt", order[(i + 1) \div 2]>>
      BY <1>3, <1>4, <2>1
    <3> QED
      BY <3>2, <3>3 DEF AdmitsAt
  <2>2. CASE i % 2 # 1
    <3>1. /\ i \div 2 \in 1 .. n /\ i > 1 /\ i - 1 \in 1 .. 2 * n
          /\ (i - 1) % 2 = 1 /\ ((i - 1) + 1) \div 2 = i \div 2
      BY <1>1, <2>2
    <3>2. order[i \div 2] \in Stages
      BY <3>1
    <3>3. p[i] = <<"enqueue", StageJob(order[i \div 2])>>
      BY <1>3, <1>4, <2>2
    <3>4. p[i - 1] = <<"plan_attempt", order[i \div 2]>>
      BY <1>3, <1>4, <3>1
    <3> QED
      BY <3>1, <3>2, <3>3, <3>4 DEF AdmitsAt
  <2> QED
    BY <2>1, <2>2
<1>6. p = [i \in 1 .. Len(p) |-> p[i]] /\ Len(p) \in Nat \ {0}
  <2> HIDE DEF p, A, O, n
  <2> QED
    BY <1>1, <1>4
<1>7. p[Len(p)] = Done("succeeded") /\ \A i \in 1 .. Len(p) - 1 : AdmitsAt(p, i)
  <2> HIDE DEF p, A, O
  <2> QED
    BY <1>1, <1>4, <1>5
<1> QED
  BY <1>6, <1>7 DEF Admits

LEMMA DecideCoordinatorInvariant ==
    ASSUME IInv, NEW a \in Agents, DecideCoordinator(a)
    PROVE  IInv' /\ Moved
<1>0. At(a, "decide") /\ Shapes
  BY DEF IInv, DecideCoordinator
<1>1. Quiet
  BY <1>0 DEF Quiet, SameRows, Shapes, DecideCoordinator
<1>2. PICK j \in Coordinators, p \in {agent[a].plan} :
        Coordinates(a, j, p) /\ FirstIs(p, "decide") /\ Head(p)[1] = "decide"
  BY <1>0, CoordinatorAtWork
<1>3. p = agent[a].plan /\ run # "queued" /\ Tail(p) = <<Done("succeeded")>>
  BY <1>2, CoordinatorFirst DEF Coordinates, FirstIs
<1>4. CASE Proceed(a, <<>>)
  <2>1. CoordinatorPlan(Rest(p))
    BY <1>3 DEF CoordinatorPlan, Decided, Rest
  <2>2. agent' = [agent EXCEPT ![a].plan = Rest(p)]
    BY <1>0, <1>3, <1>4, AtFirst
  <2> QED
    BY <1>1, <1>2, <2>1, <2>2, QuietCoordinator
<1>5. CASE Proceed(a, <<<<"complete">>>>)
  <2> DEFINE q == <<<<"complete">>, Done("succeeded")>>
  <2>1. <<<<"complete">>>> \o Tail(p) = q
    BY <1>3, Pair
  <2>2. agent' = [agent EXCEPT ![a].plan = q]
    BY <1>3, <1>5, <2>1 DEF Proceed
  <2>3. CoordinatorPlan(q)
    BY <1>3 DEF CoordinatorPlan, Deciding
  <2> QED
    BY <1>1, <1>2, <2>2, <2>3, QuietCoordinator
<1>6. CASE NextBatch # {} /\ Proceed(a, Admissions(SetToSeq(NextBatch)))
  <2> DEFINE order == SetToSeq(NextBatch)
             q == Admissions(order) \o <<Done("succeeded")>>
  <2>1. order \in Seq(NextBatch) /\ order # <<>>
    BY <1>6, BatchOrder
  <2>2. \A s \in NextBatch : s \in Stages /\ LowerPassed(s)
    BY DEF NextBatch, LowerPassed, Passed
  <2>3. order \in Seq(Stages) /\ \A i \in 1 .. Len(order) : LowerPassed(order[i])
    <3> HIDE DEF order
    <3>1. \A i \in 1 .. Len(order) : order[i] \in NextBatch
      BY <2>1
    <3>2. NextBatch \subseteq Stages
      BY <2>2
    <3> QED
      BY <2>1, <2>2, <3>1, <3>2
  <2>4. Admits(q)
    BY <2>1, <2>3, AdmissionsAdmit
  <2>5. agent' = [agent EXCEPT ![a].plan = q]
    BY <1>3, <1>6 DEF Proceed
  <2> HIDE DEF q
  <2>6. CoordinatorPlan(q)
    BY <1>3, <2>4 DEF CoordinatorPlan
  <2> QED
    BY <1>1, <1>2, <2>5, <2>6, QuietCoordinator
<1>7. \/ Proceed(a, <<>>)
      \/ Proceed(a, <<<<"complete">>>>)
      \/ NextBatch # {} /\ Proceed(a, Admissions(SetToSeq(NextBatch)))
  <2>1. CASE Blocked
    BY <2>1 DEF DecideCoordinator
  <2>2. CASE ~Blocked /\ NextBatch # {}
    BY <2>2 DEF DecideCoordinator
  <2>3. CASE ~Blocked /\ NextBatch = {} /\ \A s \in Stages : Passed(s)
    BY <2>3 DEF DecideCoordinator
  <2>4. CASE ~Blocked /\ NextBatch = {} /\ ~\A s \in Stages : Passed(s)
    BY <2>4 DEF DecideCoordinator
  <2> QED
    BY <2>1, <2>2, <2>3, <2>4
<1> QED
  BY <1>4, <1>5, <1>6, <1>7

-----------------------------------------------------------------------------
(* The stage job.                                                          *)

LEMMA ProjectionPlans ==
    ASSUME NEW s \in Stages, NEW o \in Ended
    PROVE  /\ Projection(s, o) \in Settling(s, o)
           /\ Tail(Projection(s, o)) \in Ending(s, o)
           /\ <<<<"persist", s>>>> \o Projection(s, o) \in Persisting(s, o)
<1>1. PICK op \in NextOps(s, o) : AfterTerminal(s, o) = <<op>>
  BY DEF Ended, NextOps, AfterTerminal, Told
<1>2. Projection(s, o) = <<Settles(s), Moves(s, "running", o), op, Done("succeeded")>>
  <2>1. Projection(s, o) =
          (<<Settles(s), Moves(s, "running", o)>> \o <<op>>) \o <<Done("succeeded")>>
    BY <1>1 DEF Projection, Settles, Moves, Done
  <2>2. ASSUME NEW x, NEW y, NEW z, NEW u
        PROVE  (<<x, y>> \o <<z>>) \o <<u>> = <<x, y, z, u>>
    <3>1. <<x, y>> \o <<z>> = <<x, y, z>>
      BY Concatenations
    <3>2. <<x, y, z>> \o <<u>> = <<x, y, z, u>>
      BY Concatenations
    <3> QED
      BY <3>1, <3>2
  <2> QED
    BY <2>1, <2>2, Zenon
<1>3. \A x, y, z, u, v : <<x>> \o <<y, z, u, v>> = <<x, y, z, u, v>>
  BY Concatenations
<1>4. \A x, y, z, u : Tail(<<x, y, z, u>>) = <<y, z, u>>
  OBVIOUS
<1> QED
  BY <1>2, <1>3, <1>4 DEF Settling, Ending, Persisting

LEMMA UnresolvedPlans ==
    ASSUME NEW s \in Stages, NEW d \in {"in_doubt", "failed"}
    PROVE  Unresolved(s, d) \in Doubting(s)
BY DEF Unresolved, Doubting, Doubts, Moves, Finish, Done

LEMMA LoadStageInvariant ==
    ASSUME IInv, NEW a \in Agents, LoadStage(a)
    PROVE  IInv' /\ Moved
<1>0. At(a, "load") /\ Shapes
  BY DEF IInv, LoadStage
<1>1. Quiet
  BY <1>0 DEF Quiet, SameRows, Shapes, LoadStage
<1>2. PICK s \in Stages, p \in {agent[a].plan} :
        HandlesStage(a, s, p) /\ FirstIs(p, "load") /\ Head(p)[1] = "load"
  BY <1>0, StageAtWork
<1>3. /\ p = agent[a].plan /\ p = <<<<"load">>>> /\ attempt[s] = "queued" /\ quota[s] = "none"
      /\ agent[a].job[2] = s
  BY <1>2, StageFirst, JobsOfStage DEF HandlesStage, FirstIs
<1> DEFINE q == <<Moves(s, "queued", "running"), <<"admit", s>>>>
<1>4. Proceed(a, q)
  BY <1>3 DEF LoadStage, TerminalAttempt, Verdicts, Moves
<1>5. q \o Tail(p) = q
  BY <1>3, Tails
<1>6. agent' = [agent EXCEPT ![a].plan = q]
  BY <1>3, <1>4, <1>5 DEF Proceed
<1>7. StagePlan(s, q)
  BY <1>3 DEF StagePlan, Starting
<1> QED
  BY <1>1, <1>2, <1>6, <1>7, QuietStage

LEMMA AdmitStageQuotaInvariant ==
    ASSUME IInv, NEW a \in Agents, AdmitStageQuota(a)
    PROVE  IInv' /\ Moved
<1>0. /\ At(a, "admit") /\ Shapes /\ QueueFits
      /\ UNCHANGED <<run, runAttempt, attempt, evidence, job, queue>>
  BY DEF IInv, AdmitStageQuota
<1>1. PICK s \in Stages, p \in {agent[a].plan} :
        HandlesStage(a, s, p) /\ FirstIs(p, "admit") /\ Head(p)[1] = "admit"
  BY <1>0, StageAtWork
<1>2. /\ p = agent[a].plan /\ p = <<<<"admit", s>>>> /\ attempt[s] = "running"
      /\ quota[s] = "none" /\ ~evidence[s] /\ a = "worker"
  BY <1>1, StageFirst DEF HandlesStage, FirstIs, IInv, RowFits
<1>3. Arg(a, 2) = s
  BY <1>2 DEF Arg
<1> DEFINE refused == [agent EXCEPT ![a].plan = Tail(Projection(s, "infra_failed"))]
<1>4. ASSUME NEW q, q # p, agent' = [agent EXCEPT ![a].plan = q],
             quota' = [quota EXCEPT ![s] = "active"], faults' \in faults .. MaxFaults,
             StagePlan(s, q)'
      PROVE  IInv' /\ Moved
  <2>1. /\ quota' \in [Stages -> QuotaState] /\ quota'[s] = "active"
        /\ \A t \in Stages : t # s => quota'[t] = quota[t]
    BY <1>0, <1>4 DEF Shapes, QuotaState
  <2>2. Handled(StageJob(s)) /\ WorkerMoves
    <3>1. Handled(StageJob(s))
      BY <1>1 DEF HandlesStage, Handled
    <3>2. q # agent[a].plan
      BY <1>2, <1>4
    <3> QED
      BY <1>0, <1>2, <1>4, <3>1, <3>2, PlanChanges
  <2>3. RowMoves(s)
    BY <1>0, <1>2, <2>1, <2>2 DEF RowMoves, Ended
  <2>4. \A t \in Stages : t # s => RowMoves(t)
    <3> SUFFICES ASSUME NEW t \in Stages, t # s PROVE RowMoves(t)
      OBVIOUS
    <3>1. attempt'[t] = attempt[t] /\ quota'[t] = quota[t] /\ evidence'[t] = evidence[t]
      BY <1>0, <2>1
    <3> QED
      BY <3>1 DEF RowMoves
  <2>5. RunMoves /\ faults' >= faults /\ faults' \in 0 .. MaxFaults
    BY <1>0, <1>4 DEF RunMoves, Shapes
  <2>6. Moved
    BY <1>0, <1>4, <2>3, <2>4, <2>5, PlanJobsStay DEF Moved
  <2>7. job'[StageJob(s)] = "running"
    BY <1>0, <1>1 DEF HandlesStage
  <2>8. AgentFits(a)'
    BY <1>0, <1>1, <1>4, <2>7, StageFits
  <2>9. QueueFits'
    BY <1>0, QueueStays
  <2> QED
    BY <1>0, <1>4, <2>1, <2>5, <2>6, <2>8, <2>9, PlanMoves DEF Shapes
<1>5. Tail(Projection(s, "infra_failed")) \in Ending(s, "infra_failed")
  BY ProjectionPlans DEF Ended
<1>6. CASE /\ quota' = [quota EXCEPT ![s] = "active"]
           /\ Proceed(a, <<<<"execute", s>>>>) /\ UNCHANGED faults
  <2> DEFINE q == <<<<"execute", s>>>>
  <2>1. q \o Tail(p) = q /\ q # p
    BY <1>2, Tails
  <2>2. agent' = [agent EXCEPT ![a].plan = q]
    BY <1>2, <1>6, <2>1 DEF Proceed
  <2>3. StagePlan(s, q)'
    <3>1. quota'[s] = "active"
      BY <1>0, <1>6 DEF Shapes
    <3> QED
      BY <1>0, <1>2, <3>1 DEF StagePlan
  <2>4. faults' \in faults .. MaxFaults
    BY <1>0, <1>6 DEF Shapes
  <2> HIDE DEF q
  <2> QED
    BY <1>4, <1>6, <2>1, <2>2, <2>3, <2>4
<1>7. CASE agent' = refused /\ UNCHANGED <<quota, faults>>
  <2>1. StagePlan(s, Tail(Projection(s, "infra_failed")))
    BY <1>2, <1>5 DEF StagePlan, Ended, Unspent
  <2>2. Quiet
    BY <1>0, <1>7 DEF Quiet, SameRows, Shapes
  <2> QED
    BY <1>1, <1>7, <2>1, <2>2, QuietStage
<1>8. CASE /\ StoreFaults /\ faults < MaxFaults /\ quota' = [quota EXCEPT ![s] = "active"]
           /\ agent' = refused /\ faults' = faults + 1
  <2> DEFINE q == Tail(Projection(s, "infra_failed"))
  <2>1. StagePlan(s, q)'
    BY <1>0, <1>2, <1>5, <1>8 DEF StagePlan, Ended, Unspent
  <2>2. faults' \in faults .. MaxFaults
    BY <1>0, <1>8 DEF Shapes
  <2>3. q # p
    <3>1. FirstIs(q, "attempt")
      BY <1>5, StageHeads
    <3> HIDE DEF q
    <3> QED
      BY <1>1, <3>1 DEF FirstIs
  <2> HIDE DEF q
  <2>4. agent' = [agent EXCEPT ![a].plan = q]
    BY <1>8 DEF q
  <2> QED
    BY <1>4, <1>8, <2>1, <2>2, <2>3, <2>4
<1> QED
  BY <1>3, <1>6, <1>7, <1>8 DEF AdmitStageQuota

(* A step of a plan that moves the rows of one stage only.                 *)
LEMMA RowPlanMoves ==
    ASSUME IInv, NEW a \in Agents, NEW q, agent' = [agent EXCEPT ![a].plan = q],
           UNCHANGED <<run, runAttempt, job, queue>>, faults' \in faults .. MaxFaults,
           attempt' \in [Stages -> AttemptStatus], evidence' \in [Stages -> BOOLEAN],
           quota' \in [Stages -> QuotaState], NEW s \in Stages, RowMoves(s),
           \A t \in Stages : t # s => attempt'[t] = attempt[t] /\ quota'[t] = quota[t]
                                      /\ evidence'[t] = evidence[t]
    PROVE  Moved /\ (AgentFits(a)' => IInv')
<1>0. Shapes /\ QueueFits
  BY DEF IInv
<1>1. \A t \in Stages : RowMoves(t)
  <2> SUFFICES ASSUME NEW t \in Stages, t # s PROVE RowMoves(t)
    OBVIOUS
  <2>1. attempt'[t] = attempt[t] /\ quota'[t] = quota[t] /\ evidence'[t] = evidence[t]
    OBVIOUS
  <2> QED
    BY <2>1 DEF RowMoves
<1>2. RunMoves /\ faults' >= faults /\ faults' \in 0 .. MaxFaults
  BY <1>0 DEF RunMoves, Shapes
<1>3. Moved
  BY <1>0, <1>1, <1>2, PlanJobsStay DEF Moved
<1>4. QueueFits'
  BY <1>0, QueueStays
<1> QED
  BY <1>0, <1>2, <1>3, <1>4, PlanMoves DEF Shapes

LEMMA StartEffectInvariant ==
    ASSUME IInv, NEW a \in Agents, StartEffect(a)
    PROVE  IInv' /\ Moved
<1>0. /\ At(a, "execute") /\ Shapes /\ QueueFits
      /\ UNCHANGED <<run, runAttempt, attempt, quota, job, queue, agent, faults>>
  BY DEF IInv, StartEffect
<1>1. PICK s \in Stages, p \in {agent[a].plan} :
        HandlesStage(a, s, p) /\ FirstIs(p, "execute") /\ Head(p)[1] = "execute"
  BY <1>0, StageAtWork
<1>2. Arg(a, 2) = s
  BY <1>1, StageFirst DEF HandlesStage, FirstIs, Arg
<1>3. /\ evidence' \in [Stages -> BOOLEAN]
      /\ \A t \in Stages : t # s => evidence'[t] = evidence[t]
  BY <1>0, <1>2 DEF StartEffect, Shapes
<1>4. Executes(s)
  BY <1>1, StageFirst DEF HandlesStage, Handled, Executes, FirstIs
<1>5. \A t \in Stages : RowMoves(t)
  <2> SUFFICES ASSUME NEW t \in Stages PROVE RowMoves(t)
    OBVIOUS
  <2>1. attempt'[t] = attempt[t] /\ quota'[t] = quota[t]
    BY <1>0
  <2>2. evidence'[t] = evidence[t] \/ Executes(t)
    BY <1>3, <1>4
  <2> QED
    BY <2>1, <2>2 DEF RowMoves
<1>6. \A j : Handled(j)' <=> Handled(j)
  BY <1>0 DEF Handled
<1>7. RunMoves /\ faults' >= faults
  BY <1>0 DEF RunMoves, Shapes
<1>8. Moved
  BY <1>0, <1>5, <1>6, <1>7, JobsStay DEF Moved
<1>9. Shapes' /\ QueueFits'
  BY <1>0, <1>3, QueueStays DEF Shapes
<1> QED
  BY <1>0, <1>8, <1>9, MovedKeeps

LEMMA ExecuteStageInvariant ==
    ASSUME IInv, NEW a \in Agents, ExecuteStage(a)
    PROVE  IInv' /\ Moved
<1>0. At(a, "execute") /\ Shapes
  BY DEF IInv, ExecuteStage
<1>1. Quiet
  BY <1>0 DEF Quiet, SameRows, Shapes, ExecuteStage
<1>2. PICK s \in Stages, p \in {agent[a].plan} :
        HandlesStage(a, s, p) /\ FirstIs(p, "execute") /\ Head(p)[1] = "execute"
  BY <1>0, StageAtWork
<1>3. /\ p = agent[a].plan /\ p = <<<<"execute", s>>>> /\ attempt[s] = "running"
      /\ quota[s] # "none"
  BY <1>2, StageFirst DEF HandlesStage, FirstIs
<1>4. Arg(a, 2) = s
  BY <1>3 DEF Arg
<1>5. PICK outcome \in Outcomes :
        Proceed(a, IF outcome = "unknown" THEN Unresolved(s, "in_doubt")
                   ELSE <<<<"persist", s>>>> \o Projection(s, outcome))
  BY <1>4 DEF ExecuteStage
<1>6. CASE outcome = "unknown"
  <2> DEFINE q == Unresolved(s, "in_doubt")
  <2>1. q \in Doubting(s)
    BY UnresolvedPlans
  <2>2. q \o Tail(p) = q
    BY <1>3, Tails DEF Unresolved
  <2>3. agent' = [agent EXCEPT ![a].plan = q]
    BY <1>3, <1>5, <1>6, <2>2 DEF Proceed
  <2>4. StagePlan(s, q)
    BY <1>3, <2>1 DEF StagePlan
  <2> HIDE DEF q
  <2> QED
    BY <1>1, <1>2, <2>3, <2>4, QuietStage
<1>7. CASE outcome # "unknown"
  <2> DEFINE q == <<<<"persist", s>>>> \o Projection(s, outcome)
  <2>1. outcome \in Ended
    BY <1>7 DEF Ended
  <2>2. q \in Persisting(s, outcome)
    BY <2>1, ProjectionPlans
  <2>3. q \o Tail(p) = q
    <3>1. PICK op : q = <<<<"persist", s>>, Settles(s), Moves(s, "running", outcome), op,
                          Done("succeeded")>>
      BY <2>2 DEF Persisting
    <3> QED
      BY <1>3, <3>1, Tails
  <2>4. agent' = [agent EXCEPT ![a].plan = q]
    BY <1>3, <1>5, <1>7, <2>3 DEF Proceed
  <2> HIDE DEF q
  <2>5. StagePlan(s, q)
    BY <1>3, <2>1, <2>2 DEF StagePlan
  <2> QED
    BY <1>1, <1>2, <2>4, <2>5, QuietStage
<1> QED
  BY <1>6, <1>7

LEMMA FailAdmittedStageInvariant ==
    ASSUME IInv, NEW a \in Agents, FailAdmittedStage(a)
    PROVE  IInv' /\ Moved
<1>0. At(a, "execute") /\ Shapes
  BY DEF IInv, FailAdmittedStage
<1>1. Quiet
  BY <1>0 DEF Quiet, SameRows, Shapes, FailAdmittedStage
<1>2. PICK s \in Stages, p \in {agent[a].plan} :
        HandlesStage(a, s, p) /\ FirstIs(p, "execute") /\ Head(p)[1] = "execute"
  BY <1>0, StageAtWork
<1>3. p = agent[a].plan /\ p = <<<<"execute", s>>>> /\ attempt[s] = "running"
  BY <1>2, StageFirst DEF HandlesStage, FirstIs
<1>4. Arg(a, 2) = s
  BY <1>3 DEF Arg
<1> DEFINE q == Unresolved(s, "failed")
<1>5. q \in Doubting(s)
  BY UnresolvedPlans
<1>6. q \o Tail(p) = q
  BY <1>3, Tails DEF Unresolved
<1>7. agent' = [agent EXCEPT ![a].plan = q]
  BY <1>3, <1>4, <1>6 DEF Proceed, FailAdmittedStage
<1>8. StagePlan(s, q)
  BY <1>3, <1>5 DEF StagePlan
<1> HIDE DEF q
<1> QED
  BY <1>1, <1>2, <1>7, <1>8, QuietStage

LEMMA PersistArtifactsInvariant ==
    ASSUME IInv, NEW a \in Agents, PersistArtifacts(a)
    PROVE  IInv' /\ Moved
<1>0. /\ At(a, "persist") /\ Shapes
      /\ UNCHANGED <<run, runAttempt, attempt, quota, job, queue>>
  BY DEF IInv, PersistArtifacts
<1>1. PICK s \in Stages, p \in {agent[a].plan} :
        HandlesStage(a, s, p) /\ FirstIs(p, "persist") /\ Head(p)[1] = "persist"
  BY <1>0, StageAtWork
<1>2. PICK o \in Ended :
        /\ p = agent[a].plan /\ attempt[s] = "running" /\ Head(p) = <<"persist", s>>
        /\ Rest(p) \in Settling(s, o)
  BY <1>1, StageFirst DEF HandlesStage, FirstIs
<1>3. Arg(a, 2) = s
  BY <1>2 DEF Arg
<1>4. CASE /\ evidence' = [evidence EXCEPT ![s] = @ \/ s \in Effectful]
           /\ Proceed(a, <<>>) /\ UNCHANGED faults
  <2>1. agent' = [agent EXCEPT ![a].plan = Rest(p)]
    BY <1>0, <1>2, <1>4, AtFirst
  <2>2. /\ evidence' \in [Stages -> BOOLEAN]
        /\ \A t \in Stages : t # s => evidence'[t] = evidence[t]
    BY <1>0, <1>4 DEF Shapes
  <2>3. Executes(s)
    BY <1>1, StageFirst DEF HandlesStage, Handled, Executes, FirstIs
  <2>4. RowMoves(s)
    BY <1>0, <2>3 DEF RowMoves
  <2>5. /\ \A t \in Stages : attempt'[t] = attempt[t] /\ quota'[t] = quota[t]
        /\ faults' \in faults .. MaxFaults
        /\ attempt' \in [Stages -> AttemptStatus] /\ quota' \in [Stages -> QuotaState]
    BY <1>0, <1>4 DEF Shapes
  <2>6. StagePlan(s, Rest(p))' /\ job'[StageJob(s)] = "running"
    BY <1>0, <1>1, <1>2 DEF StagePlan, HandlesStage
  <2>7. AgentFits(a)'
    BY <1>0, <1>1, <2>1, <2>6, StageFits
  <2> QED
    BY <1>0, <2>1, <2>2, <2>4, <2>5, <2>7, RowPlanMoves
<1>5. CASE /\ faults < MaxFaults /\ faults' = faults + 1 /\ UNCHANGED evidence
           /\ agent' = [agent EXCEPT ![a].plan = Projection(s, "infra_failed")]
  <2>1. StagePlan(s, Projection(s, "infra_failed"))
    <3>1. Projection(s, "infra_failed") \in Settling(s, "infra_failed") /\ "infra_failed" \in Ended
      BY ProjectionPlans DEF Ended
    <3> QED
      BY <1>2, <3>1 DEF StagePlan
  <2>2. Quiet
    BY <1>0, <1>5 DEF Quiet, SameRows, Shapes
  <2> QED
    BY <1>1, <1>5, <2>1, <2>2, QuietStage
<1> QED
  BY <1>3, <1>4, <1>5 DEF PersistArtifacts

-----------------------------------------------------------------------------
(* The writes that handlers and recoveries share.                          *)

\* What may be enqueued: a stage with its attempt, a round there was a fault for.
MayEnqueue(j) ==
    /\ j \in Jobs /\ j[3] <= faults
    /\ \A s \in Stages : j = StageJob(s) => attempt[s] # "absent" /\ run # "queued"

LEMMA EnqueueMoves ==
    ASSUME IInv, NEW a \in Agents, Enqueue(a), NEW j, Arg(a, 2) = j, MayEnqueue(j)
    PROVE  /\ Moved /\ job'[j] # "absent" /\ (AgentFits(a)' => IInv')
           /\ \A k \in Jobs : k # j => job'[k] = job[k]
           /\ \A k \in Jobs : job[k] # "absent" => job'[k] = job[k]
           /\ UNCHANGED <<run, attempt, evidence, quota, faults>>
           /\ agent' = [agent EXCEPT ![a].plan = Rest(agent[a].plan)]
<1>0. /\ Shapes /\ QueueFits /\ At(a, "enqueue") /\ j \in Jobs
      /\ UNCHANGED <<run, runAttempt, attempt, evidence, quota, faults>>
  BY DEF IInv, Enqueue, MayEnqueue
<1>1. agent' = [agent EXCEPT ![a].plan = Rest(agent[a].plan)]
  BY <1>0, AtFirst DEF Enqueue
<1>2. SameRows /\ RunMoves /\ faults' >= faults
  BY <1>0 DEF SameRows, RunMoves, Shapes
<1>3. CASE job[j] # "absent" /\ UNCHANGED <<job, queue>>
  <2>1. Moved
    BY <1>0, <1>1, <1>2, <1>3, PlanJobsStay, RowsStay DEF Moved
  <2>2. QueueFits'
    BY <1>0, <1>3, QueueStays
  <2> QED
    BY <1>0, <1>1, <1>3, <2>1, <2>2, PlanMoves DEF Shapes
<1>4. CASE /\ job[j] = "absent" /\ job' = [job EXCEPT ![j] = "queued"]
           /\ queue' = Append(queue, j)
  <2>1. /\ job' \in [Jobs -> JobState] /\ job'[j] = "queued"
        /\ \A k \in Jobs : k # j => job'[k] = job[k]
    BY <1>0, <1>4 DEF Shapes, JobState
  <2>2. /\ queue' \in Seq(Jobs) /\ Len(queue') = Len(queue) + 1 /\ Len(queue) \in Nat
        /\ queue'[Len(queue) + 1] = j
        /\ \A i \in 1 .. Len(queue) : queue'[i] = queue[i]
    BY <1>0, <1>4 DEF Shapes
  <2>3. \A i \in 1 .. Len(queue) : queue[i] # j
    BY <1>0, <1>4 DEF QueueFits
  <2>4. QueueFits'
    <3>1. \A i, k \in 1 .. Len(queue') : queue'[i] = queue'[k] => i = k
      <4> SUFFICES ASSUME NEW i \in 1 .. Len(queue'), NEW k \in 1 .. Len(queue'),
                          queue'[i] = queue'[k]
                   PROVE  i = k
        OBVIOUS
      <4>1. CASE i \in 1 .. Len(queue) /\ k \in 1 .. Len(queue)
        BY <1>0, <2>2, <4>1 DEF QueueFits
      <4>2. CASE i \notin 1 .. Len(queue) \/ k \notin 1 .. Len(queue)
        BY <2>2, <2>3, <4>2
      <4> QED
        BY <4>1, <4>2
    <3>2. ASSUME NEW k \in Jobs
          PROVE  job'[k] = "queued" <=> \E i \in 1 .. Len(queue') : queue'[i] = k
      <4>1. CASE k = j
        BY <2>1, <2>2, <4>1
      <4>2. CASE k # j
        <5>1. job[k] = "queued" <=> \E i \in 1 .. Len(queue) : queue[i] = k
          BY <1>0 DEF QueueFits
        <5>2. (\E i \in 1 .. Len(queue') : queue'[i] = k)
                <=> (\E i \in 1 .. Len(queue) : queue[i] = k)
          BY <2>2, <4>2
        <5> QED
          BY <2>1, <4>2, <5>1, <5>2
      <4> QED
        BY <4>1, <4>2
    <3> QED
      BY <3>1, <3>2 DEF QueueFits
  <2>5. JobMoves(j)
    <3>1. ASSUME NEW s \in Stages, j = StageJob(s)
          PROVE  attempt[j[2]] = "queued" /\ run # "queued"
      <4>1. attempt[s] # "absent" /\ run # "queued"
        BY <3>1 DEF MayEnqueue
      <4>2. RowFits(s) /\ j[2] = s
        BY <3>1, JobsOfStage DEF IInv
      <4> QED
        BY <1>4, <3>1, <4>1, <4>2 DEF RowFits
    <3>2. j \in StageJobs => attempt[j[2]] = "queued" /\ run # "queued"
      BY <3>1 DEF StageJobs
    <3>3. j[3] <= faults
      BY DEF MayEnqueue
    <3> QED
      BY <1>4, <2>1, <3>2, <3>3 DEF JobMoves
  <2>6. \A k \in Jobs : JobMoves(k)
    <3> SUFFICES ASSUME NEW k \in Jobs, k # j PROVE JobMoves(k)
      BY <2>5
    <3>1. job'[k] = job[k]
      BY <2>1
    <3>2. Handled(k)' <=> Handled(k)
      BY <1>0, <1>1, PlanChanges
    <3> QED
      BY <3>1, <3>2 DEF JobMoves
  <2>7. Moved
    BY <1>2, <2>6, RowsStay DEF Moved
  <2> QED
    BY <1>0, <1>1, <1>4, <2>1, <2>2, <2>4, <2>7, PlanMoves DEF Shapes
<1> QED
  BY <1>0, <1>3, <1>4 DEF Enqueue

LEMMA EnqueueInvariant ==
    ASSUME IInv, NEW a \in Agents, Enqueue(a)
    PROVE  IInv' /\ Moved
<1>0. Shapes /\ At(a, "enqueue") /\ faults \in 0 .. MaxFaults
  BY DEF IInv, Enqueue, Shapes
<1>1. PICK p \in {agent[a].plan} :
        /\ p = agent[a].plan /\ p # <<>>
        /\ FirstIs(p, "enqueue") /\ \A n : Arg(a, n) = Head(p)[n]
  BY <1>0, AtFirst
<1>2. ASSUME NEW s \in Stages
      PROVE  MayEnqueue(Coordinator(s, 0))
  <2>1. Coordinator(s, 0) \in Jobs /\ Coordinator(s, 0)[3] = 0 /\ 0 <= faults
    BY <1>0, JobsOfStage DEF Coordinator
  <2>2. \A t \in Stages : Coordinator(s, 0) # StageJob(t)
    BY JobsOfStage, NoStageJobIsCoordinator
  <2> QED
    BY <2>1, <2>2 DEF MayEnqueue
<1>3. ASSUME NEW s \in Stages, HandlesStage(a, s, p)
      PROVE  IInv' /\ Moved
  <2>1. StagePlan(s, p)
    BY <1>3 DEF HandlesStage
  <2>2. /\ attempt[s] = "pass" /\ Head(p) = <<"enqueue", Coordinator(s, 0)>>
        /\ Rest(p) = <<Done("succeeded")>>
    BY <1>1, <2>1, StageFirst DEF FirstIs
  <2>3. Arg(a, 2) = Coordinator(s, 0)
    BY <1>1, <2>2
  <2>4. /\ Moved /\ job'[Coordinator(s, 0)] # "absent" /\ (AgentFits(a)' => IInv')
        /\ \A k \in Jobs : job[k] # "absent" => job'[k] = job[k]
        /\ attempt' = attempt /\ agent' = [agent EXCEPT ![a].plan = Rest(p)]
    BY <1>2, <2>3, <1>1, EnqueueMoves
  <2>5. StagePlan(s, Rest(p))'
    BY <2>2, <2>4 DEF StagePlan, HandedOn, Ended
  <2>6. job'[StageJob(s)] = "running"
    BY <1>3, <2>4, JobsOfStage DEF HandlesStage
  <2>7. AgentFits(a)'
    BY <1>0, <1>3, <2>4, <2>5, <2>6, StageFits
  <2> QED
    BY <2>4, <2>7
<1>4. ASSUME NEW j \in Coordinators, Coordinates(a, j, p)
      PROVE  IInv' /\ Moved
  <2>1. CoordinatorPlan(p)
    BY <1>4 DEF Coordinates
  <2>2. PICK s \in Stages :
          /\ run # "queued" /\ Admits(p) /\ Head(p) = <<"enqueue", StageJob(s)>>
          /\ attempt[s] # "absent"
    BY <1>1, <2>1, CoordinatorFirst DEF FirstIs
  <2>3. MayEnqueue(StageJob(s))
    BY <1>0, <2>2, JobsOfStage DEF MayEnqueue
  <2>4. Arg(a, 2) = StageJob(s)
    BY <1>1, <2>2
  <2>5. /\ Moved /\ (AgentFits(a)' => IInv') /\ run' = run
        /\ \A k \in Jobs : job[k] # "absent" => job'[k] = job[k]
        /\ agent' = [agent EXCEPT ![a].plan = Rest(p)]
    BY <2>3, <2>4, <1>1, EnqueueMoves
  <2>6. p # <<Done("succeeded")>> /\ \A t \in Stages : Head(p) # <<"plan_attempt", t>>
    BY <1>1, <2>2 DEF FirstIs, Done
  <2>7. Admits(Rest(p))'
    BY <2>2, <2>5, <2>6, AdmitsTail
  <2>8. CoordinatorPlan(Rest(p))' /\ job'[j] = "running"
    BY <1>4, <2>2, <2>5, <2>7 DEF CoordinatorPlan, Coordinates, Jobs
  <2>9. AgentFits(a)'
    BY <1>0, <1>4, <2>5, <2>8, CoordinatorFits
  <2> QED
    BY <2>5, <2>9
<1>5. ASSUME NEW s \in Stages, RecoversStage(a, s, p)
      PROVE  IInv' /\ Moved
  <2>1. RecoveryPlan(s, p)
    BY <1>5 DEF RecoversStage
  <2>2. Head(p) = <<"enqueue", Coordinator(s, 0)>> /\ Rest(p) \in Projecting(s)
    BY <1>1, <2>1, RecoveryFirst DEF FirstIs
  <2>3. Arg(a, 2) = Coordinator(s, 0)
    BY <1>1, <2>2
  <2>4. /\ Moved /\ (AgentFits(a)' => IInv')
        /\ \A k \in Jobs : job[k] # "absent" => job'[k] = job[k]
        /\ agent' = [agent EXCEPT ![a].plan = Rest(p)]
    BY <1>2, <2>3, <1>1, EnqueueMoves
  <2>5. RecoveryPlan(s, Rest(p))'
    BY <2>2 DEF RecoveryPlan, Projecting
  <2>6. job'[StageJob(s)] \in Gone /\ \A j \in agent[a].todo : job'[j] \in Gone
    BY <1>5, <2>4, JobsOfStage DEF RecoversStage, Recovers, Gone
  <2>7. AgentFits(a)'
    BY <1>0, <1>5, <2>4, <2>5, <2>6, RecovererFitsAgain
  <2> QED
    BY <2>4, <2>7
<1>6. ASSUME NEW c \in Stages \cup {Start}, NEW n \in 0 .. MaxFaults, RecoversCoordinator(a, c, n)
      PROVE  IInv' /\ Moved
  <2> DEFINE j == Coordinator(c, n + 1)
  <2>1. p = <<<<"enqueue", j>>>> /\ n + 1 <= faults
    BY <1>1, <1>6 DEF RecoversCoordinator
  <2>2. n + 1 \in 0 .. MaxFaults
    BY <1>0, <2>1
  <2>3. j \in Coordinators /\ j[3] = n + 1
    BY <2>2 DEF Coordinators, Coordinator
  <2>4. MayEnqueue(j)
    BY <2>1, <2>3, JobsOfStage, NoStageJobIsCoordinator DEF MayEnqueue, Jobs
  <2>5. Arg(a, 2) = j /\ Rest(p) = <<>>
    BY <1>1, <2>1, Tails
  <2> HIDE DEF j
  <2>6. /\ Moved /\ (AgentFits(a)' => IInv')
        /\ \A k \in Jobs : job[k] # "absent" => job'[k] = job[k]
        /\ agent' = [agent EXCEPT ![a].plan = <<>>]
    BY <1>1, <2>4, <2>5, EnqueueMoves
  <2>7. /\ agent'[a].phase = "recover" /\ agent'[a].todo = agent[a].todo
        /\ agent'[a].job = Coordinator(c, n) /\ agent'[a].plan = <<>>
    BY <1>0, <1>6, <2>6, PlanChanges DEF RecoversCoordinator, Recovers
  <2>8. agent[a].todo \subseteq Jobs /\ \A k \in agent[a].todo : job'[k] \in Gone
    BY <1>6, <2>6 DEF RecoversCoordinator, Recovers, Gone
  <2>9. Coordinator(c, n) \in Jobs
    BY DEF Jobs, Coordinators
  <2>10. AgentFits(a)'
    BY <2>7, <2>8, <2>9 DEF AgentFits, RecovererFits
  <2> QED
    BY <2>6, <2>10
<1> QED
  BY <1>1, <1>3, <1>4, <1>5, <1>6, Acting

LEMMA TransitionStageAttemptInvariant ==
    ASSUME IInv, NEW a \in Agents, TransitionStageAttempt(a)
    PROVE  IInv' /\ Moved
<1>0. /\ Shapes /\ At(a, "attempt")
      /\ UNCHANGED <<run, runAttempt, evidence, quota, job, queue, faults>>
  BY DEF IInv, TransitionStageAttempt
<1>1. PICK p \in {agent[a].plan} :
        /\ p = agent[a].plan /\ p # <<>>
        /\ FirstIs(p, "attempt") /\ \A n : Arg(a, n) = Head(p)[n]
  BY <1>0, AtFirst
<1>2. CASE Refuse(a) /\ UNCHANGED attempt
  <2>1. Quiet
    BY <1>0, <1>2 DEF Quiet, SameRows, Shapes
  <2> QED
    BY <1>1, <1>2, <2>1, RefusedKeeps
<1>3. ASSUME NEW s \in Stages, NEW from, NEW to \in AttemptStatus, Head(p) = Moves(s, from, to),
             attempt[s] = from, ~(Refuse(a) /\ UNCHANGED attempt)
      PROVE  /\ agent' = [agent EXCEPT ![a].plan = Rest(p)]
             /\ attempt' \in [Stages -> AttemptStatus] /\ attempt'[s] = to
             /\ RowMoves(s) /\ AgentFits(a)' => IInv' /\ Moved
  <2>1. Arg(a, 2) = s /\ Arg(a, 3) = from /\ Arg(a, 4) = to
    BY <1>1, <1>3 DEF Moves
  <2>2. attempt' = [attempt EXCEPT ![s] = to] /\ Proceed(a, <<>>)
    BY <1>3, <2>1 DEF TransitionStageAttempt
  <2>3. /\ agent' = [agent EXCEPT ![a].plan = Rest(p)]
        /\ attempt' \in [Stages -> AttemptStatus] /\ attempt'[s] = to
        /\ \A t \in Stages : t # s => attempt'[t] = attempt[t]
    BY <1>0, <1>1, <2>2, AtFirst DEF Shapes
  <2>4. /\ \A t \in Stages : quota'[t] = quota[t] /\ evidence'[t] = evidence[t]
        /\ faults' \in faults .. MaxFaults
        /\ quota' \in [Stages -> QuotaState] /\ evidence' \in [Stages -> BOOLEAN]
    BY <1>0 DEF Shapes
  <2> QED
    BY <1>0, <2>3, <2>4, RowPlanMoves
<1>4. ASSUME NEW s \in Stages, NEW from, NEW to, Head(p) = Moves(s, from, to)
      PROVE  attempt[s] = from \/ (Refuse(a) /\ UNCHANGED attempt)
  <2>1. Arg(a, 2) = s /\ Arg(a, 3) = from
    BY <1>1, <1>4 DEF Moves
  <2> QED
    BY <2>1 DEF TransitionStageAttempt
<1>5. ASSUME NEW s \in Stages, HandlesStage(a, s, p), ~(Refuse(a) /\ UNCHANGED attempt)
      PROVE  IInv' /\ Moved
  <2>1. StagePlan(s, p) /\ Handled(StageJob(s)) /\ a = "worker"
    BY <1>5 DEF HandlesStage, Handled
  <2>2. job'[StageJob(s)] = "running"
    BY <1>0, <1>5 DEF HandlesStage
  <2>4. ASSUME NEW from \in {"queued", "running"}, NEW to \in AttemptStatus,
               Head(p) = Moves(s, from, to), attempt[s] = from, ~FirstIs(Rest(p), "attempt"),
               to \in {"running", "in_doubt"} \cup Ended,
               to \in Ended => Unspent(s, to),
               attempt' \in [Stages -> AttemptStatus] /\ attempt'[s] = to => StagePlan(s, Rest(p))'
        PROVE  IInv' /\ Moved
    <3>1. /\ agent' = [agent EXCEPT ![a].plan = Rest(p)]
          /\ attempt' \in [Stages -> AttemptStatus] /\ attempt'[s] = to
          /\ RowMoves(s) /\ AgentFits(a)' => IInv' /\ Moved
      BY <1>3, <1>5, <2>4
    <3>2. WorkerMoves
      <4>1. Rest(p) # agent[a].plan
        BY <1>1, <2>4
      <4> QED
        BY <1>0, <2>1, <3>1, <4>1, PlanChanges
    <3>3. RowMoves(s)
      BY <1>0, <2>1, <2>4, <3>1, <3>2 DEF RowMoves, Unspent
    <3>4. AgentFits(a)'
      BY <1>0, <1>5, <2>2, <2>4, <3>1, StageFits
    <3> QED
      BY <3>1, <3>3, <3>4
  <2>5. CASE /\ attempt[s] = "queued" /\ quota[s] = "none"
             /\ Head(p) = Moves(s, "queued", "running") /\ Rest(p) \in Admitting(s)
    <3>1. ASSUME attempt'[s] = "running" PROVE StagePlan(s, Rest(p))'
      BY <1>0, <2>5, <3>1 DEF StagePlan, Admitting
    <3>2. ~FirstIs(Rest(p), "attempt")
      BY <2>5, StageHeads DEF FirstIs
    <3> QED
      BY <2>4, <2>5, <3>1, <3>2 DEF AttemptStatus, Ended
  <2>6. ASSUME NEW o \in Ended, attempt[s] = "running", Unspent(s, o),
               Head(p) = Moves(s, "running", o), Rest(p) \in Telling(s, o)
        PROVE  IInv' /\ Moved
    <3>1. ASSUME attempt'[s] = o PROVE StagePlan(s, Rest(p))'
      BY <2>6, <3>1 DEF StagePlan, Telling, NextOps
    <3>2. ~FirstIs(Rest(p), "attempt")
      BY <2>6, TellingHeads DEF FirstIs
    <3> QED
      BY <2>4, <2>6, <3>1, <3>2 DEF AttemptStatus, Ended, TerminalAttempt, Verdicts
  <2>7. CASE /\ attempt[s] = "running" /\ Head(p) = Moves(s, "running", "in_doubt")
             /\ Rest(p) \in Failing
    <3>1. StagePlan(s, Rest(p))'
      BY <2>7 DEF StagePlan, Failing
    <3>2. ~FirstIs(Rest(p), "attempt")
      BY <2>7, StageHeads DEF FirstIs
    <3> QED
      BY <2>4, <2>7, <3>1, <3>2 DEF AttemptStatus, Ended
  <2> QED
    BY <1>1, <2>1, <2>5, <2>6, <2>7, StageFirst DEF FirstIs
<1>6. ASSUME NEW s \in Stages, RecoversStage(a, s, p), ~(Refuse(a) /\ UNCHANGED attempt)
      PROVE  IInv' /\ Moved
  <2>1. /\ RecoveryPlan(s, p) /\ job[StageJob(s)] \in Gone
        /\ job'[StageJob(s)] \in Gone /\ \A j \in agent[a].todo : job'[j] \in Gone
    BY <1>0, <1>6 DEF RecoversStage, Recovers
  <2>2. /\ Interruptible(s) /\ Closed(s)
        /\ \/ Head(p) = Moves(s, "running", "in_doubt") /\ Rest(p) \in Interrupting(s)
           \/ Head(p) = Moves(s, "in_doubt", "reconciling") /\ Rest(p) \in Interrupting(s)
           \/ Head(p) = Moves(s, "reconciling", "interrupted") /\ Rest(p) \in Interrupted(s)
    BY <1>1, <2>1, RecoveryFirst DEF FirstIs
  <2>3. ASSUME NEW from, NEW to \in AttemptStatus, Head(p) = Moves(s, from, to),
               attempt[s] = from,
               \/ from = "running" /\ to = "in_doubt"
               \/ from = "in_doubt" /\ to = "reconciling"
               \/ from = "reconciling" /\ to = "interrupted",
               attempt'[s] = to => RecoveryPlan(s, Rest(p))'
        PROVE  IInv' /\ Moved
    <3>1. /\ agent' = [agent EXCEPT ![a].plan = Rest(p)] /\ attempt'[s] = to
          /\ RowMoves(s) /\ AgentFits(a)' => IInv' /\ Moved
      BY <1>3, <1>6, <2>3
    <3>2. evidence'[s] = evidence[s] /\ quota'[s] = quota[s]
      BY <1>0
    <3>3. RowMoves(s)
      BY <2>1, <2>2, <2>3, <3>1, <3>2 DEF RowMoves, Interruptible
    <3>4. AgentFits(a)'
      BY <1>0, <1>6, <2>1, <2>3, <3>1, RecovererFitsAgain
    <3> QED
      BY <3>1, <3>3, <3>4
  <2>4. ASSUME NEW to \in {"in_doubt", "reconciling"}, attempt'[s] = to,
               Rest(p) \in Interrupting(s)
        PROVE  RecoveryPlan(s, Rest(p))'
    BY <1>0, <2>2, <2>4 DEF RecoveryPlan, Interruptible, Closed, Interrupting
  <2>5. ASSUME attempt'[s] = "interrupted", Rest(p) \in Interrupted(s)
        PROVE  RecoveryPlan(s, Rest(p))'
    BY <2>5 DEF RecoveryPlan, Interrupted
  <2>6. CASE Head(p) = Moves(s, "running", "in_doubt") /\ Rest(p) \in Interrupting(s)
    BY <1>4, <1>6, <2>3, <2>4, <2>6 DEF AttemptStatus
  <2>7. CASE Head(p) = Moves(s, "in_doubt", "reconciling") /\ Rest(p) \in Interrupting(s)
    BY <1>4, <1>6, <2>3, <2>4, <2>7 DEF AttemptStatus
  <2>8. CASE Head(p) = Moves(s, "reconciling", "interrupted") /\ Rest(p) \in Interrupted(s)
    BY <1>4, <1>6, <2>3, <2>5, <2>8 DEF AttemptStatus, TerminalAttempt
  <2> QED
    BY <2>2, <2>6, <2>7, <2>8
<1>7. \A j \in Coordinators : ~Coordinates(a, j, p)
  BY <1>1, CoordinatorFirst DEF Coordinates, FirstIs
<1>8. \A c \in Stages \cup {Start}, n \in 0 .. MaxFaults : ~RecoversCoordinator(a, c, n)
  BY <1>1 DEF RecoversCoordinator, FirstIs
<1> QED
  BY <1>1, <1>2, <1>5, <1>6, <1>7, <1>8, Acting

LEMMA SettleQuotaInvariant ==
    ASSUME IInv, NEW a \in Agents, SettleQuota(a)
    PROVE  IInv' /\ Moved
<1>0. /\ Shapes /\ At(a, "quota")
      /\ UNCHANGED <<run, runAttempt, attempt, evidence, job, queue, faults>>
  BY DEF IInv, SettleQuota
<1>1. PICK p \in {agent[a].plan} :
        /\ p = agent[a].plan /\ p # <<>>
        /\ FirstIs(p, "quota") /\ \A n : Arg(a, n) = Head(p)[n]
        /\ agent' = [agent EXCEPT ![a].plan = Rest(p)]
  BY <1>0, AtFirst DEF SettleQuota
<1>2. ASSUME NEW s \in Stages, NEW from, NEW to \in QuotaState, Head(p) = <<"quota", s, {from}, to>>
      PROVE  /\ quota' \in [Stages -> QuotaState]
             /\ quota'[s] = IF quota[s] = from THEN to ELSE quota[s]
             /\ attempt'[s] = attempt[s] /\ evidence'[s] = evidence[s]
             /\ RowMoves(s) /\ AgentFits(a)' => IInv' /\ Moved
  <2>1. Arg(a, 2) = s /\ Arg(a, 3) = {from} /\ Arg(a, 4) = to
    BY <1>1, <1>2
  <2>2. quota' = [quota EXCEPT ![s] = IF @ \in {from} THEN to ELSE @]
    BY <2>1 DEF SettleQuota
  <2>3. /\ quota' \in [Stages -> QuotaState]
        /\ quota'[s] = IF quota[s] = from THEN to ELSE quota[s]
        /\ \A t \in Stages : t # s => quota'[t] = quota[t]
    BY <1>0, <2>2 DEF Shapes
  <2>4. /\ \A t \in Stages : attempt'[t] = attempt[t] /\ evidence'[t] = evidence[t]
        /\ faults' \in faults .. MaxFaults
        /\ attempt' \in [Stages -> AttemptStatus] /\ evidence' \in [Stages -> BOOLEAN]
    BY <1>0 DEF Shapes
  <2> QED
    BY <1>0, <1>1, <2>3, <2>4, RowPlanMoves
<1>3. ASSUME NEW s \in Stages, HandlesStage(a, s, p)
      PROVE  IInv' /\ Moved
  <2>1. StagePlan(s, p) /\ Handled(StageJob(s)) /\ a = "worker"
    BY <1>3 DEF HandlesStage, Handled
  <2>2. job'[StageJob(s)] = "running"
    BY <1>0, <1>3 DEF HandlesStage
  <2>3. ASSUME NEW to \in QuotaState, Head(p) = <<"quota", s, {"active"}, to>>,
               to # "none", attempt[s] = "running", ~FirstIs(Rest(p), "quota"),
               quota'[s] = (IF quota[s] = "active" THEN to ELSE quota[s]) => StagePlan(s, Rest(p))'
        PROVE  IInv' /\ Moved
    <3>1. /\ quota'[s] = IF quota[s] = "active" THEN to ELSE quota[s]
          /\ attempt'[s] = attempt[s] /\ evidence'[s] = evidence[s]
          /\ RowMoves(s) /\ AgentFits(a)' => IInv' /\ Moved
      <4>1. Head(p) = <<"quota", s, {"active"}, to>>
        BY <2>3
      <4> QED
        BY <1>2, <4>1, Zenon
    <3>2. WorkerMoves
      <4>1. Rest(p) # agent[a].plan
        BY <1>1, <2>3
      <4> QED
        BY <1>0, <1>1, <2>1, <4>1, PlanChanges
    <3>3. RowMoves(s)
      BY <2>1, <2>3, <3>1, <3>2 DEF RowMoves, Ended
    <3>4. AgentFits(a)'
      BY <1>0, <1>1, <1>3, <2>2, <2>3, <3>1, StageFits
    <3> QED
      BY <3>1, <3>3, <3>4
  <2>4. ASSUME NEW o \in Ended, attempt[s] = "running", Head(p) = Settles(s),
               Rest(p) \in Ending(s, o)
        PROVE  IInv' /\ Moved
    <3>1. ASSUME quota'[s] = IF quota[s] = "active" THEN "settled" ELSE quota[s]
          PROVE  StagePlan(s, Rest(p))'
      BY <1>0, <2>4, <3>1 DEF StagePlan, Ending, Unspent
    <3>2. ~FirstIs(Rest(p), "quota")
      BY <2>4, StageHeads DEF FirstIs
    <3> QED
      BY <2>3, <2>4, <3>1, <3>2 DEF QuotaState, Settles
  <2>5. CASE /\ attempt[s] = "running" /\ Head(p) = Doubts(s) /\ Rest(p) \in Doubting(s)
             /\ ~FirstIs(Rest(p), "quota")
    <3>1. StagePlan(s, Rest(p))'
      BY <1>0, <2>5 DEF StagePlan, Doubting
    <3>2. ~FirstIs(Rest(p), "quota")
      BY <2>5
    <3> QED
      BY <2>3, <2>5, <3>1, <3>2 DEF QuotaState, Doubts
  <2> QED
    BY <1>1, <2>1, <2>4, <2>5, StageFirst DEF FirstIs
<1>4. ASSUME NEW s \in Stages, RecoversStage(a, s, p)
      PROVE  IInv' /\ Moved
  <2>1. /\ RecoveryPlan(s, p) /\ job[StageJob(s)] \in Gone
        /\ job'[StageJob(s)] \in Gone /\ \A j \in agent[a].todo : job'[j] \in Gone
    BY <1>0, <1>4 DEF RecoversStage, Recovers
  <2>2. ASSUME NEW from, NEW to \in QuotaState, Head(p) = <<"quota", s, {from}, to>>,
               \/ from = "active" /\ to = "uncertain"
               \/ from = "uncertain" /\ to = "settled" /\ ~evidence[s],
               (/\ quota' \in [Stages -> QuotaState]
                /\ quota'[s] = IF quota[s] = from THEN to ELSE quota[s])
                  => RecoveryPlan(s, Rest(p))'
        PROVE  IInv' /\ Moved
    <3>1. /\ quota' \in [Stages -> QuotaState]
          /\ quota'[s] = IF quota[s] = from THEN to ELSE quota[s]
          /\ attempt'[s] = attempt[s] /\ evidence'[s] = evidence[s]
          /\ RowMoves(s) /\ AgentFits(a)' => IInv' /\ Moved
      BY <1>2, <2>2
    <3>2. RowMoves(s)
      BY <2>1, <2>2, <3>1 DEF RowMoves
    <3>3. AgentFits(a)'
      BY <1>0, <1>1, <1>4, <2>1, <2>2, <3>1, RecovererFitsAgain
    <3> QED
      BY <3>1, <3>2, <3>3
  <2>3. CASE Head(p) = Doubts(s) /\ Rest(p) \in Projecting(s)
    <3>1. RecoveryPlan(s, Rest(p))'
      BY <2>3 DEF RecoveryPlan, Projecting
    <3> QED
      BY <2>2, <2>3, <3>1 DEF QuotaState, Doubts
  <2>4. CASE Interruptible(s) /\ Head(p) = Doubts(s) /\ Rest(p) \in Returning(s)
    <3>1. ASSUME quota'[s] = IF quota[s] = "active" THEN "uncertain" ELSE quota[s]
          PROVE  RecoveryPlan(s, Rest(p))'
      BY <1>0, <2>4, <3>1 DEF RecoveryPlan, Interruptible, Returning
    <3> QED
      BY <2>2, <2>4, <3>1 DEF QuotaState, Doubts
  <2>5. CASE /\ Interruptible(s) /\ quota[s] # "active"
             /\ Head(p) = Returns(s) /\ Rest(p) \in Interrupting(s)
    <3>1. ASSUME quota' \in [Stages -> QuotaState],
                 quota'[s] = IF quota[s] = "uncertain" THEN "settled" ELSE quota[s]
          PROVE  RecoveryPlan(s, Rest(p))'
      <4>1. quota'[s] \in {"none", "settled"}
        BY <1>0, <2>5, <3>1 DEF Shapes, QuotaState
      <4> QED
        BY <1>0, <2>5, <4>1 DEF RecoveryPlan, Interruptible, Closed, Interrupting
    <3>2. ~evidence[s]
      BY <2>5 DEF Interruptible
    <3> QED
      BY <2>2, <2>5, <3>1, <3>2 DEF QuotaState, Returns
  <2> QED
    BY <1>1, <2>1, <2>3, <2>4, <2>5, RecoveryFirst DEF FirstIs
<1>5. \A j \in Coordinators : ~Coordinates(a, j, p)
  BY <1>1, CoordinatorFirst DEF Coordinates, FirstIs
<1>6. \A c \in Stages \cup {Start}, n \in 0 .. MaxFaults : ~RecoversCoordinator(a, c, n)
  BY <1>1 DEF RecoversCoordinator, FirstIs
<1> QED
  BY <1>1, <1>3, <1>4, <1>5, <1>6, Acting

LEMMA FinishRunInvariant ==
    ASSUME IInv, NEW a \in Agents, FinishRun(a)
    PROVE  IInv' /\ Moved
<1>0. /\ Shapes /\ QueueFits /\ At(a, "finish")
      /\ UNCHANGED <<runAttempt, attempt, evidence, quota, job, queue, faults>>
  BY DEF IInv, FinishRun
<1>1. PICK p \in {agent[a].plan} :
        /\ p = agent[a].plan /\ p # <<>>
        /\ FirstIs(p, "finish") /\ \A n : Arg(a, n) = Head(p)[n]
  BY <1>0, AtFirst
<1> DEFINE Target == Told \cup {"in_doubt", "succeeded"}
           After(target) == IF target \in FinishedRun THEN <<Closes(target)>> \o Tail(p) ELSE Rest(p)
<1>2. CASE Refuse(a) /\ UNCHANGED run
  <2>1. Quiet
    BY <1>0, <1>2 DEF Quiet, SameRows, Shapes
  <2> QED
    BY <1>1, <1>2, <2>1, RefusedKeeps
<1>3. ASSUME NEW target, Head(p) = Finish(target), ~(Refuse(a) /\ UNCHANGED run)
      PROVE  \/ agent' = [agent EXCEPT ![a].plan = Rest(p)] /\ UNCHANGED run
             \/ agent' = [agent EXCEPT ![a].plan = After(target)] /\ run' = target
  <2>1. Arg(a, 2) = target
    BY <1>1, <1>3 DEF Finish
  <2>2. CASE run = target
    BY <1>0, <1>1, <2>1, <2>2, AtFirst DEF FinishRun
  <2>3. CASE run # target
    <3>1. run' = target /\ Proceed(a, IF target \in FinishedRun
                                     THEN <<<<"finish_attempts", target>>>> ELSE <<>>)
      BY <1>3, <2>1, <2>3 DEF FinishRun
    <3>2. agent' = [agent EXCEPT ![a].plan = After(target)]
      BY <1>0, <1>1, <3>1, AtFirst DEF Proceed, Closes
    <3> QED
      BY <3>1, <3>2
  <2> QED
    BY <2>2, <2>3
<1>4. ASSUME NEW target \in Target, NEW q, agent' = [agent EXCEPT ![a].plan = q], run' = target,
             target = "succeeded" => AllPassed
      PROVE  Moved /\ (AgentFits(a)' => IInv')
  <2>1. SameRows /\ RunMoves /\ faults' >= faults
    BY <1>0, <1>4 DEF SameRows, RunMoves, Shapes, Told
  <2>2. Moved
    BY <1>0, <1>4, <2>1, PlanJobsStay, RowsStay DEF Moved
  <2>3. run' \in RunStatus /\ QueueFits'
    BY <1>0, <1>4, QueueStays DEF RunStatus, Told
  <2> QED
    BY <1>0, <1>4, <2>2, <2>3, PlanMoves DEF Shapes
<1> HIDE DEF After
<1>5. ASSUME NEW s \in Stages, HandlesStage(a, s, p), ~(Refuse(a) /\ UNCHANGED run)
      PROVE  IInv' /\ Moved
  <2>1. StagePlan(s, p) /\ job'[StageJob(s)] = "running"
    BY <1>0, <1>5 DEF HandlesStage
  <2>2. ASSUME NEW target \in Told \cup {"in_doubt"}, Head(p) = Finish(target),
               StagePlan(s, Rest(p)), StagePlan(s, After(target))
        PROVE  IInv' /\ Moved
    <3>1. \A q : StagePlan(s, q) => StagePlan(s, q)'
      BY <1>0 DEF StagePlan, HandedOn, Unspent
    <3>2. CASE agent' = [agent EXCEPT ![a].plan = Rest(p)] /\ UNCHANGED run
      <4>1. Quiet
        BY <1>0, <3>2 DEF Quiet, SameRows, Shapes
      <4> QED
        BY <1>5, <2>2, <3>2, <4>1, QuietStage
    <3>3. CASE agent' = [agent EXCEPT ![a].plan = After(target)] /\ run' = target
      <4>1. AgentFits(a)'
        BY <1>0, <1>5, <2>1, <2>2, <3>1, <3>3, StageFits
      <4>2. target \in Target /\ target # "succeeded"
        BY DEF Told
      <4> QED
        BY <1>4, <3>3, <4>1, <4>2
    <3> QED
      BY <1>3, <1>5, <2>2, <3>2, <3>3
  <2>3. ASSUME NEW target \in Told, attempt[s] \in Ended \ {"pass"}, Head(p) = Finish(target),
               Rest(p) = <<Done("succeeded")>>, Tail(p) = <<Done("succeeded")>>
        PROVE  IInv' /\ Moved
    <3>1. HandedOn(s)
      BY <2>3 DEF HandedOn
    <3>2. StagePlan(s, Rest(p))
      BY <2>3, <3>1 DEF StagePlan
    <3>3. target \in FinishedRun => After(target) \in Closing
      <4>1. <<Closes(target)>> \o Tail(p) = <<Closes(target), Done("succeeded")>>
        BY <2>3, Pair
      <4> QED
        BY <4>1 DEF After, Closing
    <3>4. StagePlan(s, After(target))
      BY <2>3, <3>1, <3>2, <3>3 DEF StagePlan, After
    <3> QED
      BY <2>2, <2>3, <3>2, <3>4
  <2>4. CASE Head(p) = Finish("in_doubt") /\ Rest(p) \in Failing
    <3>1. StagePlan(s, Rest(p)) /\ StagePlan(s, After("in_doubt"))
      BY <2>4 DEF StagePlan, Failing, After, FinishedRun
    <3> QED
      BY <2>2, <2>4, <3>1
  <2> QED
    BY <1>1, <2>1, <2>3, <2>4, StageFirst DEF FirstIs
<1>6. ASSUME NEW j \in Coordinators, Coordinates(a, j, p), ~(Refuse(a) /\ UNCHANGED run)
      PROVE  IInv' /\ Moved
  <2>1. CoordinatorPlan(p) /\ job'[j] = "running"
    BY <1>0, <1>6 DEF Coordinates
  <2>2. AllPassed /\ Head(p) = Finish("succeeded") /\ Tail(p) = <<Done("succeeded")>>
    BY <1>1, <2>1, CoordinatorFirst DEF FirstIs
  <2>3. CASE agent' = [agent EXCEPT ![a].plan = Rest(p)] /\ UNCHANGED run
    <3>1. Quiet
      BY <1>0, <2>3 DEF Quiet, SameRows, Shapes
    <3>2. CoordinatorPlan(Rest(p))
      BY <2>2 DEF CoordinatorPlan, Decided, Rest
    <3> QED
      BY <1>6, <2>3, <3>1, <3>2, QuietCoordinator
  <2>4. CASE agent' = [agent EXCEPT ![a].plan = After("succeeded")] /\ run' = "succeeded"
    <3>1. After("succeeded") \in Completing
      BY <2>2, Pair DEF After, Completing, FinishedRun
    <3>2. CoordinatorPlan(After("succeeded"))'
      BY <1>0, <2>2, <3>1 DEF CoordinatorPlan, AllPassed
    <3>3. AgentFits(a)'
      BY <1>0, <1>6, <2>1, <2>4, <3>2, CoordinatorFits
    <3> QED
      BY <1>4, <2>2, <2>4, <3>3
  <2> QED
    BY <1>3, <1>6, <2>2, <2>3, <2>4
<1>7. ASSUME NEW s \in Stages, RecoversStage(a, s, p), ~(Refuse(a) /\ UNCHANGED run)
      PROVE  IInv' /\ Moved
  <2>1. /\ RecoveryPlan(s, p) /\ job'[StageJob(s)] \in Gone
        /\ \A j \in agent[a].todo : job'[j] \in Gone
    BY <1>0, <1>7 DEF RecoversStage, Recovers
  <2>2. ASSUME NEW target \in Told \cup {"in_doubt"}, Head(p) = Finish(target),
               RecoveryPlan(s, Rest(p)), RecoveryPlan(s, After(target))
        PROVE  IInv' /\ Moved
    <3>1. \A q : RecoveryPlan(s, q) => RecoveryPlan(s, q)'
      BY <1>0 DEF RecoveryPlan, Interruptible, Closed
    <3>2. CASE agent' = [agent EXCEPT ![a].plan = Rest(p)] /\ UNCHANGED run
      <4>1. Quiet
        BY <1>0, <3>2 DEF Quiet, SameRows, Shapes
      <4> QED
        BY <1>7, <2>2, <3>2, <4>1, QuietRecovery
    <3>3. CASE agent' = [agent EXCEPT ![a].plan = After(target)] /\ run' = target
      <4>1. AgentFits(a)'
        BY <1>0, <1>7, <2>1, <2>2, <3>1, <3>3, RecovererFitsAgain
      <4>2. target \in Target /\ target # "succeeded"
        BY DEF Told
      <4> QED
        BY <1>4, <3>3, <4>1, <4>2
    <3> QED
      BY <1>3, <1>7, <2>2, <3>2, <3>3
  <2>3. ASSUME NEW target \in Told \cup {"in_doubt"}, p = <<Finish(target)>>,
               Rest(p) \in Projecting(s)
        PROVE  IInv' /\ Moved
    <3>1. Tail(p) = <<>> /\ Head(p) = Finish(target)
      BY <2>3, Tails
    <3>2. target \in FinishedRun => After(target) = <<Closes(target)>>
      <4>1. \A x : <<x>> \o <<>> = <<x>>
        OBVIOUS
      <4>2. <<Closes(target)>> \o Tail(p) = <<Closes(target)>>
        BY <3>1, <4>1, Zenon
      <4> QED
        BY <4>2 DEF After
    <3>3. After(target) \in Projecting(s)
      BY <2>3, <3>2 DEF After, Projecting
    <3>4. RecoveryPlan(s, Rest(p)) /\ RecoveryPlan(s, After(target))
      BY <2>3, <3>3 DEF RecoveryPlan
    <3> QED
      BY <2>2, <3>1, <3>4
  <2>4. CASE /\ attempt[s] = "interrupted"
             /\ Head(p) = Finish("failed_recoverable") /\ Rest(p) \in Interrupted(s)
             /\ <<Closes("failed_recoverable")>> \o Tail(p) \in Interrupted(s)
    <3>1. RecoveryPlan(s, Rest(p)) /\ RecoveryPlan(s, After("failed_recoverable"))
      BY <2>4 DEF RecoveryPlan, After, FinishedRun
    <3> QED
      BY <2>2, <2>4, <3>1 DEF Told
  <2> QED
    BY <1>1, <2>1, <2>3, <2>4, RecoveryFirst DEF FirstIs
<1>8. \A c \in Stages \cup {Start}, n \in 0 .. MaxFaults : ~RecoversCoordinator(a, c, n)
  BY <1>1 DEF RecoversCoordinator, FirstIs
<1> QED
  BY <1>1, <1>2, <1>5, <1>6, <1>7, <1>8, Acting

LEMMA FinishRunAttemptsInvariant ==
    ASSUME IInv, NEW a \in Agents, FinishRunAttempts(a)
    PROVE  IInv' /\ Moved
<1>0. Shapes /\ At(a, "finish_attempts")
  BY DEF IInv, FinishRunAttempts
<1>1. PICK p \in {agent[a].plan} :
        /\ p = agent[a].plan /\ p # <<>> /\ FirstIs(p, "finish_attempts")
        /\ agent' = [agent EXCEPT ![a].plan = Rest(p)]
  BY <1>0, AtFirst DEF FinishRunAttempts
<1>2. Quiet
  BY <1>0 DEF Quiet, SameRows, Shapes, FinishRunAttempts, RunAttemptStatus
<1>3. ASSUME NEW s \in Stages, HandlesStage(a, s, p)
      PROVE  IInv' /\ Moved
  <2>1. StagePlan(s, p)
    BY <1>3 DEF HandlesStage
  <2>2. attempt[s] \in Ended /\ HandedOn(s) /\ Rest(p) = <<Done("succeeded")>>
    BY <1>1, <2>1, StageFirst DEF FirstIs
  <2>3. StagePlan(s, Rest(p))
    BY <2>2 DEF StagePlan
  <2> QED
    BY <1>1, <1>2, <1>3, <2>3, QuietStage
<1>4. ASSUME NEW j \in Coordinators, Coordinates(a, j, p)
      PROVE  IInv' /\ Moved
  <2>1. CoordinatorPlan(p)
    BY <1>4 DEF Coordinates
  <2>2. Rest(p) = <<Done("succeeded")>>
    BY <1>1, <2>1, CoordinatorFirst DEF FirstIs
  <2>3. CoordinatorPlan(Rest(p))
    BY <2>2 DEF CoordinatorPlan, Decided
  <2> QED
    BY <1>1, <1>2, <1>4, <2>3, QuietCoordinator
<1>5. ASSUME NEW s \in Stages, RecoversStage(a, s, p)
      PROVE  IInv' /\ Moved
  <2>1. RecoveryPlan(s, p)
    BY <1>5 DEF RecoversStage
  <2>2. \/ Rest(p) \in Projecting(s)
        \/ attempt[s] = "interrupted" /\ Rest(p) \in Interrupted(s)
    BY <1>1, <2>1, RecoveryFirst DEF FirstIs
  <2>3. RecoveryPlan(s, Rest(p))
    BY <2>2 DEF RecoveryPlan
  <2> QED
    BY <1>1, <1>2, <1>5, <2>3, QuietRecovery
<1>6. \A c \in Stages \cup {Start}, n \in 0 .. MaxFaults : ~RecoversCoordinator(a, c, n)
  BY <1>1 DEF RecoversCoordinator, FirstIs
<1> QED
  BY <1>1, <1>3, <1>4, <1>5, <1>6, Acting

LEMMA DeliverInvariant ==
    ASSUME IInv, NEW a \in Agents, Deliver(a)
    PROVE  IInv' /\ Moved
<1>0. /\ Shapes /\ QueueFits /\ At(a, "deliver")
      /\ UNCHANGED <<run, runAttempt, attempt, evidence, quota, queue, faults>>
      /\ agent' = [agent EXCEPT ![a] = IdleAgent]
  BY DEF IInv, Deliver
<1>1. PICK p \in {agent[a].plan} :
        /\ p = agent[a].plan /\ p # <<>>
        /\ FirstIs(p, "deliver") /\ \A n : Arg(a, n) = Head(p)[n]
  BY <1>0, AtFirst
<1>2. ASSUME NEW s \in Stages, HandlesStage(a, s, p)
      PROVE  Arg(a, 2) \in Delivered /\ (Arg(a, 2) = "succeeded" => HandedOn(s))
  <2>1. StagePlan(s, p)
    BY <1>2 DEF HandlesStage
  <2>2. \/ HandedOn(s) /\ p = <<Done("succeeded")>>
        \/ \E d \in {"in_doubt", "failed"} : p = <<Done(d)>>
    BY <1>1, <2>1, StageFirst DEF FirstIs
  <2> QED
    BY <1>1, <2>2 DEF Delivered, Done
<1>3. ASSUME NEW j \in Coordinators, Coordinates(a, j, p)
      PROVE  Arg(a, 2) \in Delivered
  <2>1. CoordinatorPlan(p)
    BY <1>3 DEF Coordinates
  <2>2. Head(p)[2] \in Delivered
    BY <1>1, <2>1, CoordinatorFirst DEF FirstIs
  <2> QED
    BY <1>1, <2>2
<1>4. \A s \in Stages : ~RecoversStage(a, s, p)
  BY <1>1, RecoveryFirst DEF RecoversStage, FirstIs
<1>5. \A c \in Stages \cup {Start}, n \in 0 .. MaxFaults : ~RecoversCoordinator(a, c, n)
  BY <1>1 DEF RecoversCoordinator, FirstIs
<1>6. PICK j \in Jobs, d \in Delivered :
        /\ agent[a].job = j /\ Arg(a, 2) = d /\ job[j] = "running" /\ a = "worker"
        /\ agent[a].phase = "handle"
        /\ \A s \in Stages : j = StageJob(s) /\ d = "succeeded" => HandedOn(s)
  <2>1. ASSUME NEW s \in Stages, HandlesStage(a, s, p)
        PROVE  \E j \in Jobs, d \in Delivered :
                  /\ agent[a].job = j /\ Arg(a, 2) = d /\ job[j] = "running" /\ a = "worker"
                  /\ agent[a].phase = "handle"
                  /\ \A t \in Stages : j = StageJob(t) /\ d = "succeeded" => HandedOn(t)
    <3>1. StageJob(s) \in Jobs /\ \A t \in Stages : StageJob(s) = StageJob(t) => s = t
      BY JobsOfStage
    <3> QED
      BY <1>2, <2>1, <3>1 DEF HandlesStage
  <2>2. ASSUME NEW j \in Coordinators, Coordinates(a, j, p)
        PROVE  /\ j \in Jobs /\ agent[a].job = j /\ job[j] = "running" /\ a = "worker"
               /\ agent[a].phase = "handle" /\ Arg(a, 2) \in Delivered
               /\ \A t \in Stages : j # StageJob(t)
    BY <1>3, <2>2, JobsOfStage, NoStageJobIsCoordinator DEF Coordinates, Jobs
  <2> QED
    BY <1>1, <1>4, <1>5, <2>1, <2>2, Acting
<1>7. job' = [job EXCEPT ![j] = d]
  BY <1>6 DEF Deliver
<1>8. /\ job' \in [Jobs -> JobState] /\ job'[j] = d
      /\ \A k \in Jobs : k # j => job'[k] = job[k]
  BY <1>0, <1>7 DEF Shapes, JobState, Delivered
<1>9. /\ DOMAIN agent' = Agents /\ \A b \in Agents : DOMAIN agent'[b] = AgentFields
      /\ agent'[a] = IdleAgent /\ \A b \in Agents : b # a => agent'[b] = agent[b]
  BY <1>0 DEF Shapes, IdleAgent, AgentFields
<1>10. WorkerMoves
  BY <1>6, <1>9 DEF WorkerMoves, IdleAgent
<1>11. JobMoves(j)
  <2>1. ASSUME NEW s \in Stages, j = StageJob(s), d = "succeeded"
        PROVE  HandedOn(j[2])'
    <3>1. HandedOn(s) /\ j[2] = s
      BY <1>6, <2>1, JobsOfStage
    <3>2. job'[Coordinator(s, 0)] # "absent" <=> job[Coordinator(s, 0)] # "absent"
      BY <1>6, <1>8, JobsOfStage DEF Delivered
    <3>3. HandedOn(s)'
      BY <1>0, <3>1, <3>2 DEF HandedOn
    <3> QED
      BY <3>1, <3>3
  <2>2. j \in StageJobs /\ job'[j] = "succeeded" => HandedOn(j[2])'
    BY <1>8, <2>1 DEF StageJobs
  <2> QED
    BY <1>6, <1>8, <1>10, <2>2 DEF JobMoves
<1>12. \A k \in Jobs : JobMoves(k)
  <2> SUFFICES ASSUME NEW k \in Jobs, k # j PROVE JobMoves(k)
    BY <1>11
  <2>1. job'[k] = job[k]
    BY <1>8
  <2>2. Handled(k) => Handled(k)'
    BY <1>6, <1>9 DEF Handled
  <2> QED
    BY <2>1, <2>2 DEF JobMoves
<1>13. SameRows /\ RunMoves /\ faults' >= faults
  BY <1>0 DEF SameRows, RunMoves, Shapes
<1>14. Moved
  BY <1>12, <1>13, RowsStay DEF Moved
<1>15. QueueFits'
  <2>1. \A k \in Jobs : job'[k] = "queued" <=> job[k] = "queued"
    BY <1>6, <1>8 DEF Delivered
  <2> QED
    BY <1>0, <2>1 DEF QueueFits
<1>16. Shapes'
  BY <1>0, <1>8, <1>9 DEF Shapes
<1>17. AgentFits(a)'
  BY <1>9 DEF AgentFits, IdleAgent
<1> QED
  BY <1>9, <1>14, <1>15, <1>16, <1>17, MovedKeeps

-----------------------------------------------------------------------------
(* Semantic recovery.                                                      *)

LEMMA InterruptAttemptInvariant ==
    ASSUME IInv, NEW a \in Agents, InterruptAttempt(a)
    PROVE  IInv' /\ Moved
<1>0. Shapes /\ At(a, "interrupt")
  BY DEF IInv, InterruptAttempt
<1>1. Quiet
  BY <1>0 DEF Quiet, SameRows, Shapes, InterruptAttempt
<1>2. PICK s \in Stages, p \in {agent[a].plan} :
        RecoversStage(a, s, p) /\ FirstIs(p, "interrupt") /\ Head(p)[1] = "interrupt"
  BY <1>0, RecoveryAtWork
<1>3. /\ p = agent[a].plan /\ Interruptible(s) /\ Closed(s)
      /\ Head(p) = <<"interrupt", s>> /\ p \in Interrupting(s)
  BY <1>2, RecoveryFirst DEF RecoversStage, FirstIs
<1>4. Arg(a, 2) = s
  BY <1>3 DEF Arg
<1> DEFINE e == Moves(s, "reconciling", "interrupted")
           m == Moves(s, "in_doubt", "reconciling")
           b == Moves(s, "running", "in_doubt")
           f == Finish("failed_recoverable")
           d == <<"settle", StageJob(s)>>
<1>5. p = <<<<"interrupt", s>>, f, d>>
  BY <1>3 DEF Interrupting, Moves
<1>6. Tail(p) = <<f, d>> /\ Rest(p) = <<f, d>>
  BY <1>5, Tails
<1>7. CASE attempt[s] = "running"
  <2>1. Proceed(a, <<b>> \o (<<m>> \o <<e>>))
    BY <1>4, <1>7 DEF InterruptAttempt, Moves
  <2> HIDE DEF b, m, e, f, d
  <2>2. <<b>> \o (<<m>> \o <<e>>) = <<b, m, e>>
    <3>1. <<m>> \o <<e>> = <<m, e>>
      BY Pair
    <3>2. <<b>> \o <<m, e>> = <<b, m, e>>
      BY Concatenations
    <3> QED
      BY <3>1, <3>2
  <2>3. <<b, m, e>> \o Tail(p) = <<b, m, e, f, d>>
    <3>1. <<b, m, e>> \o <<f, d>> = <<b, m, e, f, d>>
      BY Concatenations
    <3> QED
      BY <1>6, <3>1
  <2>4. agent' = [agent EXCEPT ![a].plan = <<b, m, e, f, d>>]
    BY <1>3, <2>1, <2>2, <2>3 DEF Proceed
  <2>5. RecoveryPlan(s, <<b, m, e, f, d>>)
    BY <1>3 DEF RecoveryPlan, Interrupting, b, m, e, f, d
  <2> QED
    BY <1>1, <1>2, <2>4, <2>5, QuietRecovery
<1>8. CASE attempt[s] = "in_doubt"
  <2>1. Proceed(a, <<m>> \o <<e>>)
    BY <1>4, <1>8 DEF InterruptAttempt, Moves
  <2> HIDE DEF m, e, f, d
  <2>2. <<m>> \o <<e>> = <<m, e>>
    BY Pair
  <2>3. <<m, e>> \o Tail(p) = <<m, e, f, d>>
    <3>1. <<m, e>> \o <<f, d>> = <<m, e, f, d>>
      BY Concatenations
    <3> QED
      BY <1>6, <3>1
  <2>4. agent' = [agent EXCEPT ![a].plan = <<m, e, f, d>>]
    BY <1>3, <2>1, <2>2, <2>3 DEF Proceed
  <2>5. RecoveryPlan(s, <<m, e, f, d>>)
    BY <1>3 DEF RecoveryPlan, Interrupting, m, e, f, d
  <2> QED
    BY <1>1, <1>2, <2>4, <2>5, QuietRecovery
<1>9. CASE attempt[s] = "reconciling"
  <2>1. Proceed(a, <<e>>)
    BY <1>4, <1>9 DEF InterruptAttempt, Moves
  <2> HIDE DEF e, f, d
  <2>2. <<e>> \o Tail(p) = <<e, f, d>>
    <3>1. <<e>> \o <<f, d>> = <<e, f, d>>
      BY Concatenations
    <3> QED
      BY <1>6, <3>1
  <2>3. agent' = [agent EXCEPT ![a].plan = <<e, f, d>>]
    BY <1>3, <2>1, <2>2 DEF Proceed
  <2>4. RecoveryPlan(s, <<e, f, d>>)
    BY <1>3 DEF RecoveryPlan, Interrupting, e, f, d
  <2> QED
    BY <1>1, <1>2, <2>3, <2>4, QuietRecovery
<1>10. CASE attempt[s] = "interrupted"
  <2>1. Proceed(a, <<>>)
    BY <1>4, <1>10 DEF InterruptAttempt
  <2>2. agent' = [agent EXCEPT ![a].plan = Rest(p)]
    BY <1>0, <1>3, <2>1, AtFirst
  <2>3. RecoveryPlan(s, Rest(p))
    BY <1>6, <1>10 DEF RecoveryPlan, Interrupted
  <2> QED
    BY <1>1, <1>2, <2>2, <2>3, QuietRecovery
<1> QED
  BY <1>3, <1>7, <1>8, <1>9, <1>10 DEF Interruptible

LEMMA DoubtAttemptInvariant ==
    ASSUME IInv, NEW a \in Agents, DoubtAttempt(a)
    PROVE  IInv' /\ Moved
<1>0. /\ Shapes /\ At(a, "doubt")
      /\ UNCHANGED <<run, runAttempt, evidence, quota, job, queue, faults>>
  BY DEF IInv, DoubtAttempt
<1>1. PICK s \in Stages, p \in {agent[a].plan} :
        RecoversStage(a, s, p) /\ FirstIs(p, "doubt") /\ Head(p)[1] = "doubt"
  BY <1>0, RecoveryAtWork
<1>2. p = agent[a].plan /\ Head(p) = <<"doubt", s>> /\ Rest(p) \in Projecting(s)
  BY <1>1, RecoveryFirst DEF RecoversStage, FirstIs
<1>3. Arg(a, 2) = s
  BY <1>2 DEF Arg
<1>4. /\ agent' = [agent EXCEPT ![a].plan = Rest(p)]
      /\ attempt' = [attempt EXCEPT ![s] = IF @ = "running" THEN "in_doubt" ELSE @]
  BY <1>0, <1>2, <1>3, AtFirst DEF DoubtAttempt
<1>5. /\ attempt' \in [Stages -> AttemptStatus]
      /\ attempt'[s] = IF attempt[s] = "running" THEN "in_doubt" ELSE attempt[s]
      /\ \A t \in Stages : t # s => attempt'[t] = attempt[t]
  BY <1>0, <1>4 DEF Shapes, AttemptStatus
<1>6. /\ \A t \in Stages : quota'[t] = quota[t] /\ evidence'[t] = evidence[t]
      /\ faults' \in faults .. MaxFaults
      /\ quota' \in [Stages -> QuotaState] /\ evidence' \in [Stages -> BOOLEAN]
  BY <1>0 DEF Shapes
<1>7. /\ job[StageJob(s)] \in Gone /\ job'[StageJob(s)] \in Gone
      /\ \A j \in agent[a].todo : job'[j] \in Gone
  BY <1>0, <1>1 DEF RecoversStage, Recovers
<1>8. RowMoves(s)
  BY <1>5, <1>6, <1>7 DEF RowMoves
<1>9. RecoveryPlan(s, Rest(p))'
  BY <1>2 DEF RecoveryPlan, Projecting
<1>10. AgentFits(a)'
  BY <1>0, <1>1, <1>4, <1>7, <1>9, RecovererFitsAgain
<1> QED
  BY <1>0, <1>4, <1>5, <1>6, <1>8, <1>10, RowPlanMoves

LEMMA SettleDeliveryInvariant ==
    ASSUME IInv, NEW a \in Agents, SettleDelivery(a)
    PROVE  IInv' /\ Moved
<1>0. /\ Shapes /\ QueueFits /\ At(a, "settle")
      /\ UNCHANGED <<run, runAttempt, attempt, evidence, quota, queue, faults>>
  BY DEF IInv, SettleDelivery
<1>1. PICK s \in Stages, p \in {agent[a].plan} :
        RecoversStage(a, s, p) /\ FirstIs(p, "settle") /\ Head(p)[1] = "settle"
  BY <1>0, RecoveryAtWork
<1>2. /\ p = agent[a].plan /\ attempt[s] = "interrupted"
      /\ Head(p) = <<"settle", StageJob(s)>> /\ Rest(p) = <<>>
  BY <1>1, RecoveryFirst DEF RecoversStage, FirstIs
<1>3. PICK j \in Jobs : j = StageJob(s) /\ j[2] = s
  BY JobsOfStage
<1>4. Arg(a, 2) = j
  BY <1>2, <1>3 DEF Arg
<1>5. CASE Refuse(a) /\ UNCHANGED job
  <2>1. Quiet
    BY <1>0, <1>5 DEF Quiet, SameRows, Shapes
  <2> QED
    BY <1>0, <1>5, <2>1, AtFirst, RefusedKeeps
<1>6. CASE job[j] = "lost" /\ job' = [job EXCEPT ![j] = "interrupted"] /\ Proceed(a, <<>>)
  <2>1. agent' = [agent EXCEPT ![a].plan = Rest(p)]
    BY <1>0, <1>2, <1>6, AtFirst
  <2>2. /\ job' \in [Jobs -> JobState] /\ job'[j] = "interrupted"
        /\ \A k \in Jobs : k # j => job'[k] = job[k]
    BY <1>0, <1>6 DEF Shapes, JobState
  <2>3. JobMoves(j)
    BY <1>2, <1>3, <1>6, <2>2 DEF JobMoves
  <2>4. \A k \in Jobs : JobMoves(k)
    <3> SUFFICES ASSUME NEW k \in Jobs, k # j PROVE JobMoves(k)
      BY <2>3
    <3>1. job'[k] = job[k]
      BY <2>2
    <3>2. Handled(k)' <=> Handled(k)
      BY <1>0, <2>1, PlanChanges
    <3> QED
      BY <3>1, <3>2 DEF JobMoves
  <2>5. SameRows /\ RunMoves /\ faults' >= faults
    BY <1>0 DEF SameRows, RunMoves, Shapes
  <2>6. Moved
    BY <2>4, <2>5, RowsStay DEF Moved
  <2>7. QueueFits'
    <3>1. \A k \in Jobs : job'[k] = "queued" <=> job[k] = "queued"
      BY <1>6, <2>2
    <3> QED
      BY <1>0, <3>1 DEF QueueFits
  <2>8. job'[StageJob(s)] \in Gone /\ \A k \in agent[a].todo : job'[k] \in Gone
    <3>1. \A k \in agent[a].todo : k \in Jobs /\ job[k] \in Gone
      BY <1>1 DEF RecoversStage, Recovers
    <3> QED
      BY <1>3, <2>2, <3>1 DEF Gone
  <2>9. RecoveryPlan(s, Rest(p))'
    BY <1>2 DEF RecoveryPlan, Projecting
  <2>10. AgentFits(a)'
    BY <1>0, <1>1, <2>1, <2>8, <2>9, RecovererFitsAgain
  <2> QED
    BY <1>0, <2>1, <2>2, <2>6, <2>7, <2>10, PlanMoves DEF Shapes
<1> QED
  BY <1>4, <1>5, <1>6 DEF SettleDelivery

-----------------------------------------------------------------------------
(* Faults.                                                                 *)

LEMMA LoseInvariant ==
    ASSUME IInv, NEW a \in Agents, Lose(a)
    PROVE  IInv' /\ Moved
<1>1. Quiet
  BY DEF IInv, Quiet, SameRows, Shapes, Lose
<1>2. agent' = [agent EXCEPT ![a] = IdleAgent] /\ faults' = faults + 1
  BY DEF Lose
<1> QED
  BY <1>1, <1>2, IdleKeeps

LEMMA StoreFailsInvariant ==
    ASSUME IInv, NEW a \in Agents, StoreFails(a)
    PROVE  IInv' /\ Moved
<1>1. Quiet
  BY DEF IInv, Quiet, SameRows, Shapes, StoreFails
<1>2. Refuse(a) /\ agent[a].plan # <<>>
  BY DEF StoreFails
<1> QED
  BY <1>1, <1>2, RefusedKeeps

LEMMA LapseInvariant ==
    ASSUME IInv, NEW j \in Jobs, Lapse(j)
    PROVE  IInv' /\ Moved
<1>0. /\ Shapes /\ QueueFits /\ job[j] = "running" /\ ~Handled(j)
      /\ job' = [job EXCEPT ![j] = "lapsed"]
      /\ UNCHANGED <<run, runAttempt, attempt, evidence, quota, queue, agent, faults>>
  BY DEF IInv, Lapse
<1>1. /\ job' \in [Jobs -> JobState] /\ job'[j] = "lapsed"
      /\ \A k \in Jobs : k # j => job'[k] = job[k]
  BY <1>0 DEF Shapes, JobState
<1>2. \A k : Handled(k)' <=> Handled(k)
  BY <1>0 DEF Handled
<1>3. \A k \in Jobs : JobMoves(k)
  BY <1>0, <1>1, <1>2 DEF JobMoves
<1>4. SameRows /\ RunMoves /\ faults' >= faults
  BY <1>0 DEF SameRows, RunMoves, Shapes
<1>5. Moved
  BY <1>3, <1>4, RowsStay DEF Moved
<1>6. QueueFits'
  <2>1. \A k \in Jobs : job'[k] = "queued" <=> job[k] = "queued"
    BY <1>0, <1>1
  <2> QED
    BY <1>0, <2>1 DEF QueueFits
<1>7. Shapes'
  BY <1>0, <1>1 DEF Shapes
<1> QED
  BY <1>0, <1>5, <1>6, <1>7, MovedKeeps

-----------------------------------------------------------------------------
(* The invariant holds.                                                    *)

LEMMA InitInvariant == Init => IInv
<1> SUFFICES ASSUME Init PROVE IInv
  OBVIOUS
<1> DEFINE first == Coordinator(Start, 0)
<1>1. first \in Jobs /\ first \in Coordinators /\ first[3] = 0 /\ 0 \in 0 .. MaxFaults
  BY DEF Jobs, Coordinators, Coordinator
<1>2. /\ job[first] = "queued" /\ \A j \in Jobs : j # first => job[j] = "absent"
      /\ job \in [Jobs -> JobState]
  BY <1>1 DEF Init, JobState
<1> HIDE DEF first
<1>3. Shapes
  <2>1. queue \in Seq(Jobs)
    BY <1>1 DEF Init, first
  <2>2. DOMAIN agent = Agents /\ \A a \in Agents : DOMAIN agent[a] = AgentFields
    BY DEF Init, IdleAgent, AgentFields
  <2> QED
    BY <1>1, <1>2, <2>1, <2>2
       DEF Init, Shapes, RunStatus, RunAttemptStatus, AttemptStatus, QuotaState
<1>4. RunFits
  BY DEF Init, RunFits
<1>5. QueueFits
  <2>1. Len(queue) = 1 /\ queue[1] = first
    BY DEF Init, first
  <2> QED
    BY <1>2, <2>1 DEF QueueFits
<1>6. ASSUME NEW s \in Stages PROVE RowFits(s)
  <2>1. job[StageJob(s)] = "absent"
    BY <1>1, <1>2, JobsOfStage, NoStageJobIsCoordinator
  <2>2. attempt[s] = "absent" /\ quota[s] = "none" /\ evidence[s] = FALSE
    BY DEF Init
  <2> QED
    BY <2>1, <2>2 DEF RowFits, TerminalAttempt, Verdicts
<1>7. ASSUME NEW j \in Jobs PROVE RoundFits(j)
  <2>1. faults = 0
    BY DEF Init
  <2> QED
    BY <1>1, <1>2, <2>1 DEF RoundFits
<1>8. ASSUME NEW a \in Agents PROVE AgentFits(a)
  BY DEF Init, AgentFits, IdleAgent
<1> QED
  BY <1>3, <1>4, <1>5, <1>6, <1>7, <1>8 DEF IInv

LEMMA StutterInvariant ==
    ASSUME IInv, UNCHANGED vars
    PROVE  IInv' /\ Moved
<1>0. /\ UNCHANGED <<run, runAttempt, attempt, evidence, quota, job, queue, agent, faults>>
      /\ Shapes
  BY DEF vars, IInv
<1>1. Quiet
  BY <1>0 DEF Quiet, SameRows, Shapes
<1>2. DOMAIN agent' = Agents /\ \A a \in Agents : DOMAIN agent'[a] = AgentFields
  BY <1>0 DEF Shapes
<1>3. \A j : Handled(j) => Handled(j)'
  BY <1>0 DEF Handled
<1> QED
  BY <1>0, <1>1, <1>2, <1>3, QuietKeeps

LEMMA NextInvariant == IInv /\ [Next]_vars => IInv' /\ Moved
<1> SUFFICES ASSUME IInv, [Next]_vars PROVE IInv' /\ Moved
  OBVIOUS
<1>1. ASSUME NEW a \in Agents, Loop(a) PROVE IInv' /\ Moved
  BY <1>1, BeginCycleInvariant, ScanInvariant, RecoverInvariant, EndRecoveryInvariant,
     ClaimInvariant DEF Loop
<1>2. ASSUME NEW a \in Agents, Coordinate(a) PROVE IInv' /\ Moved
  BY <1>2, BeginRunInvariant, EnsureRunAttemptInvariant, DecideCoordinatorInvariant,
     PlanStageAttemptInvariant, CompleteRunInvariant DEF Coordinate
<1>3. ASSUME NEW a \in Agents, Execute(a) PROVE IInv' /\ Moved
  BY <1>3, LoadStageInvariant, AdmitStageQuotaInvariant, StartEffectInvariant,
     ExecuteStageInvariant, FailAdmittedStageInvariant, PersistArtifactsInvariant DEF Execute
<1>4. ASSUME NEW a \in Agents, Commit(a) PROVE IInv' /\ Moved
  BY <1>4, EnqueueInvariant, TransitionStageAttemptInvariant, SettleQuotaInvariant,
     FinishRunInvariant, FinishRunAttemptsInvariant, InterruptAttemptInvariant,
     DoubtAttemptInvariant, SettleDeliveryInvariant, DeliverInvariant DEF Commit
<1>5. ASSUME NEW a \in Agents, Lose(a) \/ StoreFails(a) PROVE IInv' /\ Moved
  BY <1>5, LoseInvariant, StoreFailsInvariant
<1>6. ASSUME NEW j \in Jobs, Lapse(j) PROVE IInv' /\ Moved
  BY <1>6, LapseInvariant
<1>7. CASE UNCHANGED vars
  BY <1>7, StutterInvariant
<1> QED
  BY <1>1, <1>2, <1>3, <1>4, <1>5, <1>6, <1>7 DEF Next, Work

-----------------------------------------------------------------------------
(* What it says.                                                           *)

(* Every row of the Run keeps to the statuses its table allows, a job is    *)
(* queued when and only when its queue holds it, and no history takes more *)
(* faults than there were.                                                 *)
THEOREM RecoveryTypes == Spec => []TypeOK
<1>1. IInv => TypeOK
  <2> SUFFICES ASSUME IInv PROVE TypeOK
    OBVIOUS
  <2>1. Shapes /\ QueueFits /\ \A a \in Agents : AgentFits(a)
    BY DEF IInv
  <2>2. DOMAIN queue = 1 .. Len(queue)
    BY <2>1 DEF Shapes
  <2>3. \A a \in Agents :
          /\ agent[a].phase \in {"idle", "scan", "recover", "claim", "handle"}
          /\ agent[a].todo \subseteq Jobs /\ agent[a].job \in Jobs \cup {NoJob}
    <3> SUFFICES ASSUME NEW a \in Agents
                 PROVE  /\ agent[a].phase \in {"idle", "scan", "recover", "claim", "handle"}
                        /\ agent[a].todo \subseteq Jobs /\ agent[a].job \in Jobs \cup {NoJob}
      OBVIOUS
    <3>1. CASE agent[a].phase = "recover" /\ RecovererFits(a)
      <4>1. \A c \in Stages \cup {Start}, n \in 0 .. MaxFaults : Coordinator(c, n) \in Jobs
        BY DEF Jobs, Coordinators
      <4> QED
        BY <3>1, <4>1, JobsOfStage DEF RecovererFits
    <3>2. CASE agent[a].phase = "handle" /\ agent[a].todo = {} /\ HandlerFits(a)
      BY <3>2 DEF HandlerFits
    <3> QED
      BY <2>1, <3>1, <3>2 DEF AgentFits
  <2> QED
    BY <2>1, <2>2, <2>3 DEF TypeOK, Shapes, RunAttemptStatus, QuotaState, QueueFits
<1> QED
  BY <1>1, InitInvariant, NextInvariant, PTL DEF Spec

(* A stage has an attempt only when every stage of every earlier batch     *)
(* passed, whatever coordinators were lost, repeated or overtaken.         *)
THEOREM RecoveryPredecessorsPassed == Spec => []PredecessorsPassed
<1>1. IInv => PredecessorsPassed
  BY DEF IInv, RowFits, LowerPassed, PredecessorsPassed
<1> QED
  BY <1>1, InitInvariant, NextInvariant, PTL DEF Spec

(* A delivery that is settled, or one that succeeded, owes the Run nothing: *)
(* after any number of crashes, store failures and overlapping recoveries.  *)
THEOREM RecoveryClosedDeliveries == Spec => []ClosedDeliveryLeavesNothing
<1>1. IInv => SettledMeansRecovered
  BY JobsOfStage DEF IInv, RowFits, Closed, SettledMeansRecovered
<1>2. IInv => PassIsHandedOn
  BY JobsOfStage DEF IInv, RowFits, HandedOn, PassIsHandedOn
<1>3. IInv => ClosedDeliveryLeavesNothing
  BY <1>1, <1>2 DEF ClosedDeliveryLeavesNothing
<1> QED
  BY <1>3, InitInvariant, NextInvariant, PTL DEF Spec

(* Whatever store calls fail, for good or not, and whoever ends a stage:   *)
(* one that ends with its admission active was never executed.             *)
THEOREM RecoveryQuotaClosed == Spec => []QuotaClosedWithStage
<1>1. IInv => QuotaClosedWithStage
  BY DEF IInv, RowFits, Unspent, QuotaClosedWithStage
<1> QED
  BY <1>1, InitInvariant, NextInvariant, PTL DEF Spec

(* No step, of a worker, of an operator or of a recovery, takes a stage in  *)
(* doubt that left evidence out of doubt, gives its uncertain charge back   *)
(* or completes the Run over it.                                           *)
THEOREM RecoveryInDoubtIsKept == Spec => InDoubtIsKept
<1> DEFINE Keeps == \A s \in Stages : Doubtful(s) =>
                       /\ attempt'[s] = "in_doubt" /\ run' # "succeeded"
                       /\ quota[s] = "uncertain" => quota'[s] = "uncertain"
<1>1. ASSUME IInv, Moved PROVE Keeps
  <2> SUFFICES ASSUME NEW s \in Stages, Doubtful(s)
               PROVE  /\ attempt'[s] = "in_doubt" /\ run' # "succeeded"
                      /\ quota[s] = "uncertain" => quota'[s] = "uncertain"
    OBVIOUS
  <2>1. attempt[s] = "in_doubt" /\ evidence[s]
    BY DEF Doubtful
  <2>2. RowMoves(s) /\ RunMoves /\ RunFits
    BY <1>1 DEF Moved, IInv
  <2>3. attempt'[s] = "in_doubt" /\ (quota[s] = "uncertain" => quota'[s] = "uncertain")
    BY <2>1, <2>2 DEF RowMoves
  <2>4. run' # "succeeded"
    BY <2>1, <2>2 DEF RunMoves, RunFits, AllPassed
  <2> QED
    BY <2>3, <2>4
<1>2. IInv /\ [Next]_vars => [Keeps]_vars
  BY <1>1, NextInvariant
<1>3. IInv /\ [Next]_vars => IInv'
  BY NextInvariant
<1> QED
  BY <1>2, <1>3, InitInvariant, PTL DEF Spec, InDoubtIsKept
=============================================================================
