---------------------------- MODULE CandidateChange ----------------------------
(***************************************************************************)
(* Content changes of a task between two Runs: the revision candidate, the *)
(* provider that writes its checkout, the frozen plan and the child Run    *)
(* (internal/app/change_provider_service.go, repair_loop_service.go;       *)
(* internal/harbor/store/v8_candidates.go, v5_continuation_commit.go).     *)
(*                                                                         *)
(* One source Run waits for a continuation.  The next automatic repair     *)
(* round is planned by a worker's repair_session.advance job, by its       *)
(* recovery after a loss and by operators' reconciles, all under one       *)
(* deterministic command; humans plan changes of the same task under their *)
(* own.  Each action is one transaction, one read, or one step of a        *)
(* provider or of the file system.  A row's version is its state: every    *)
(* write of a candidate or of an operation changes it.  Errors of the      *)
(* store and of the file system itself are left out.                       *)
(* The names of variables and of the specification are this module's own,  *)
(* so that it can be extended together with ReviewGate.                    *)
(***************************************************************************)
EXTENDS Integers, FiniteSets

CONSTANTS
    Reconcilers,   \* operators that reconcile the Run
    Humans,        \* each asks for a manual change under a command of its own
    Base,          \* content of the base revision
    None,
    MaxIncidents   \* bound: workers that die, other writes of the task

RoundWorker == "worker"   \* delivers repair_session.advance, or recovers it
Callers == {RoundWorker} \cup Reconcilers \cup Humans

Commands == {"round"} \cup Humans
CommandOf(c) == IF c \in Humans THEN c ELSE "round"

\* What a checkout holds: the base, or what a caller's provider has written.
Content == Callers \cup {Base}

ASSUME CandidateAssumption ==
    /\ RoundWorker \notin Reconcilers \cup Humans
    /\ IsFiniteSet(Humans) /\ "round" \notin Humans
    /\ None \notin Content \cup [run : Nat, task : Nat]
                            \cup [run : Nat, task : Nat, content : Content]
    /\ MaxIncidents \in Nat


VARIABLES
    caller,    \* caller[c]: where c stands, what its copies say
    advance,   \* the repair_session.advance job
    session,   \* the repair session
    runVersion, taskVersion,   \* of the source Run and of the task
    expected,  \* expected[k]: the checkpoint frozen with command k
    cand, op,  \* cand[k], op[k]: state of the candidate and of its operation
    creator,   \* creator[k]: whose lease the candidate was created with
    slot,      \* whose lease of the task is active and unexpired
    fresh,     \* the callers whose copy of that lease has its version
    checkout,  \* checkout[k]: what the candidate's directory holds
    receipt,   \* receipt[k]: the content the finished operation recorded
    snapshot,  \* snapshot[k]: the content of the final snapshot
    plan,      \* plan[k]: "none", "frozen" or, past its deadline, "late"
    child,     \* child[k]: the versions its commit found and what it sealed
    incidents

leases == <<slot, fresh>>
files == <<checkout, snapshot>>
rows == <<cand, op, creator, receipt, plan>>
env == <<runVersion, taskVersion, incidents>>
changeVars == <<caller, advance, session, runVersion, taskVersion, expected, cand, op, creator,
                slot, fresh, checkout, receipt, snapshot, plan, child, incidents>>

CallerPhase == {"idle", "recover", "look", "acquire", "create", "operate", "start", "apply", "written",
          "finalize", "snapshot", "bind", "execute", "failed", "done"}
CandidateState == {"absent", "ready", "applying", "prepared", "no_op",
                   "reconcile_required", "committed", "discarded"}
Finalized == {"prepared", "no_op", "committed", "discarded"}
ActiveCandidate == {"ready", "applying", "prepared", "reconcile_required"}

AtRest == [phase |-> "idle", prepared |-> FALSE, digest |-> None]

ChangeTypeOK ==
    /\ caller \in [Callers -> [phase : CallerPhase, prepared : BOOLEAN,
                               digest : Content \cup {None}]]
    /\ advance \in {"queued", "running", "in_doubt", "succeeded"}
    /\ session \in {"open", "needs_human"}
    /\ runVersion \in 1 .. 1 + Cardinality(Commands)
    /\ taskVersion \in 1 .. 1 + MaxIncidents
    /\ \A k \in Commands :
          /\ expected[k] \in {None} \cup [run : 1 .. runVersion, task : 1 .. taskVersion]
          /\ cand[k] \in CandidateState
          /\ op[k] \in {"absent", "prepared", "running", "unknown", "succeeded"}
          /\ creator[k] \in Callers \cup {None} /\ checkout[k] \in Content
          /\ receipt[k] \in Content \cup {None} /\ snapshot[k] \in Content \cup {None}
          /\ plan[k] \in {"none", "frozen", "late"}
          /\ cand[k] \in Finalized <=> op[k] = "succeeded"
          /\ cand[k] \in Finalized <=> receipt[k] # None
          /\ plan[k] # "none" => cand[k] \in Finalized \ {"no_op"}
          /\ child[k] # None <=> cand[k] = "committed"
    /\ \A k, l \in Commands :
          {cand[k], cand[l]} \subseteq ActiveCandidate => k = l
    /\ slot \in Callers \cup {None} /\ fresh \subseteq Callers
    /\ incidents \in 0 .. MaxIncidents

ChangeInit ==
    /\ caller = [c \in Callers |-> AtRest]
    /\ advance = "queued" /\ session = "open"
    /\ runVersion = 1 /\ taskVersion = 1
    /\ expected = [k \in Commands |-> None]
    /\ cand = [k \in Commands |-> "absent"] /\ op = [k \in Commands |-> "absent"]
    /\ creator = [k \in Commands |-> None]
    /\ slot = None /\ fresh = {}
    /\ checkout = [k \in Commands |-> Base]
    /\ receipt = [k \in Commands |-> None] /\ snapshot = [k \in Commands |-> None]
    /\ plan = [k \in Commands |-> "none"] /\ child = [k \in Commands |-> None]
    /\ incidents = 0

At(c, phase) == caller[c].phase = phase
GoOn(c, phase) == caller' = [caller EXCEPT ![c].phase = phase]
\* The error or the result of a job is recorded; other callers get it back.
Leave(c, phase) ==
    caller' = [caller EXCEPT ![c] =
                  [AtRest EXCEPT !.phase = IF c = RoundWorker THEN phase ELSE @]]
Fail(c) == Leave(c, "failed")
Done(c) == Leave(c, "done")
Checkpoint == [run |-> runVersion, task |-> taskVersion]
SessionOpen(c) == c \in Humans \/ session = "open"

\* The lease the candidate was created with is still active.
Fenced(k) == slot # None /\ slot = creator[k]
\* ReleaseLease, and releaseRevisionCandidateLeaseTx: of the own lease only.
Release(owner) ==
    IF slot = owner THEN slot' = None /\ fresh' = {} ELSE UNCHANGED leases

-----------------------------------------------------------------------------
(* A caller plans its change.                                              *)

\* The job of a worker that has died is found by its successor, which recovers
\* it, or by an operator, whose pass hands on stage jobs only.  No later pass
\* reads the loss again: a job without a stage attempt is not listed.
FindLoss(c) ==
    /\ advance = "running" /\ At(RoundWorker, "idle") /\ At(c, "idle")
    /\ advance' = "in_doubt"
    /\ IF c = RoundWorker THEN GoOn(c, "recover") ELSE UNCHANGED caller
    /\ UNCHANGED <<session, env, expected, rows, leases, files, child>>

\* A worker claims the job, or recovers the one it has found.
\* AdvanceRunOutcome and RecoverRunOutcome look at the session first.  The
\* command is created once, with the checkpoint of that moment.
Begin(c) ==
    /\ \/ At(c, "idle") /\ (c = RoundWorker => advance = "queued")
       \/ At(c, "recover")
    /\ advance' = IF c = RoundWorker /\ advance = "queued" THEN "running" ELSE advance
    /\ IF SessionOpen(c)
       THEN /\ GoOn(c, "look")
            /\ expected' = [expected EXCEPT ![CommandOf(c)] =
                               IF @ = None THEN Checkpoint ELSE @]
       ELSE Done(c) /\ UNCHANGED expected
    /\ UNCHANGED <<session, env, rows, leases, files, child>>

PlanIsLate(k) == plan[k] = "late" /\ cand[k] # "committed"

\* PlanTaskChange: a plan is executed; a command without one must still be at
\* its checkpoint, and goes on with its candidate or makes one.
PlanTaskChange(c) ==
    LET k == CommandOf(c)
    IN  /\ At(c, "look") /\ (~PlanIsLate(k) \/ ~SessionOpen(c))
        /\ CASE ~SessionOpen(c) -> Fail(c)
             [] plan[k] # "none" -> GoOn(c, "execute")
             [] expected[k] # Checkpoint -> Fail(c)
             [] cand[k] = "absent" -> GoOn(c, "acquire")
             [] OTHER -> caller' = [caller EXCEPT ![c].phase = "operate",
                                                  ![c].prepared = receipt[k] # None]
        /\ UNCHANGED <<advance, session, env, expected, rows, leases, files, child>>

\* ensureCandidate: AcquireLease on the task; the base is materialised.
Acquire(c) ==
    /\ At(c, "acquire")
    /\ IF slot = None
       THEN slot' = c /\ fresh' = {c} /\ GoOn(c, "create")
       ELSE Fail(c) /\ UNCHANGED leases
    /\ UNCHANGED <<advance, session, env, expected, rows, files, child>>

\* The unique index idx_revision_candidates_v8_active_task: one open change.
TaskHasOpenCandidate == \E k \in Commands : cand[k] \in ActiveCandidate

\* A candidate that cannot be created gives the lease back.
CreateRevisionCandidate(c) ==
    LET k == CommandOf(c)
    IN  /\ At(c, "create")
        /\ IF /\ cand[k] = "absent" /\ ~TaskHasOpenCandidate
              /\ taskVersion = expected[k].task /\ SessionOpen(c)
              /\ slot = c /\ c \in fresh
           THEN /\ cand' = [cand EXCEPT ![k] = "ready"]
                /\ creator' = [creator EXCEPT ![k] = c]
                /\ GoOn(c, "operate") /\ UNCHANGED leases
           ELSE Release(c) /\ Fail(c) /\ UNCHANGED <<cand, creator>>
        /\ UNCHANGED <<advance, session, env, expected, op, receipt, plan, files, child>>

-----------------------------------------------------------------------------
(* The provider changes the checkout (prepareCandidateChange).             *)

\* Keep nothing of the candidate read earlier.
Reread(c, phase) == caller' = [caller EXCEPT ![c] = [AtRest EXCEPT !.phase = phase]]

\* The operation is found or created.  One that has ended is replayed if the
\* copy of the candidate says so; one that was started needs reconciliation;
\* for a new one the lease is read.
CreateChangeOperation(c) ==
    LET k == CommandOf(c)
        new == op[k] = "absent" /\ cand[k] = "ready"
    IN  /\ At(c, "operate")
        /\ op' = IF new THEN [op EXCEPT ![k] = "prepared"] ELSE op
        /\ CASE (new \/ op[k] = "prepared") /\ Fenced(k) ->
                    GoOn(c, "start") /\ fresh' = fresh \cup {c}
             [] op[k] = "succeeded" /\ caller[c].prepared ->
                    Reread(c, "snapshot") /\ UNCHANGED fresh
             [] OTHER -> Fail(c) /\ UNCHANGED fresh
        /\ UNCHANGED <<advance, session, env, expected, cand, creator, receipt, plan, slot,
                       files, child>>

\* StartChangeOperation and the renewal of the lease before the provider is
\* called.  An operation that runs already is started again without a look at
\* the lease: two callers of a command may apply at once.
StartChangeOperation(c) ==
    LET k == CommandOf(c)
        again == op[k] = "running"
        first == op[k] = "prepared" /\ c \in fresh
    IN  /\ At(c, "start")
        /\ IF Fenced(k) /\ (again \/ first)
           THEN /\ op' = [op EXCEPT ![k] = "running"]
                /\ cand' = [cand EXCEPT ![k] = "applying"]
                /\ fresh' = {c} /\ GoOn(c, "apply")
           ELSE /\ op' = [op EXCEPT ![k] = IF again THEN "unknown" ELSE @]
                /\ cand' = [cand EXCEPT ![k] = IF again THEN "reconcile_required" ELSE @]
                /\ Fail(c) /\ UNCHANGED fresh
        /\ UNCHANGED <<advance, session, env, expected, creator, receipt, plan, slot, files,
                       child>>

Applying(c) == caller[c].phase \in {"apply", "written"}

\* applyWithCandidateLeaseHeartbeat: both appliers have the owner and the
\* fence of the lease, so each takes the other's version for its own.
Heartbeat(c) ==
    /\ Applying(c) /\ c \notin fresh /\ Fenced(CommandOf(c))
    /\ fresh' = {c}
    /\ UNCHANGED <<caller, advance, session, env, expected, rows, slot, files, child>>

\* provider.Apply writes the checkout.
Apply(c) ==
    /\ At(c, "apply")
    /\ checkout' = [checkout EXCEPT ![CommandOf(c)] = c]
    /\ GoOn(c, "written")
    /\ UNCHANGED <<advance, session, env, expected, rows, leases, snapshot, child>>

\* provider.Apply returns, having written or not: the digest of the checkout
\* is what the receipt will record.
ApplyReturns(c) ==
    /\ Applying(c)
    /\ caller' = [caller EXCEPT ![c].phase = "finalize",
                                ![c].digest = checkout[CommandOf(c)]]
    /\ UNCHANGED <<advance, session, env, expected, rows, leases, files, child>>

\* A mutant: an operation that has ended is marked all the same.
Mut_MarkChangeOperationUnknown(c) ==
    LET k == CommandOf(c)
    IN  /\ Applying(c)
        /\ op' = [op EXCEPT ![k] = "unknown"]
        /\ cand' = [cand EXCEPT ![k] = IF @ = "applying" THEN "reconcile_required" ELSE @]
        /\ Fail(c)
        /\ UNCHANGED <<advance, session, env, expected, creator, receipt, plan, leases, files,
                       child>>

\* The lease was lost, the provider failed or ran out of time, or its output
\* violates the policy or its own receipt.
MarkChangeOperationUnknown(c) ==
    LET k == CommandOf(c)
    IN  /\ Applying(c)
        /\ IF op[k] = "running"
           THEN /\ op' = [op EXCEPT ![k] = "unknown"]
                /\ cand' = [cand EXCEPT ![k] = "reconcile_required"]
           ELSE UNCHANGED <<op, cand>>
        /\ Fail(c)
        /\ UNCHANGED <<advance, session, env, expected, creator, receipt, plan, leases, files,
                       child>>

\* The first applier with the lease's newest version records the result.
FinalizeChangeOperation(c) ==
    LET k == CommandOf(c)
        digest == caller[c].digest
    IN  /\ At(c, "finalize")
        /\ IF op[k] = "running" /\ Fenced(k) /\ c \in fresh
           THEN /\ op' = [op EXCEPT ![k] = "succeeded"]
                /\ cand' = [cand EXCEPT ![k] = IF digest = Base THEN "no_op" ELSE "prepared"]
                /\ receipt' = [receipt EXCEPT ![k] = digest]
                /\ IF digest = Base THEN Release(creator[k]) ELSE UNCHANGED leases
                /\ Reread(c, "snapshot")
           ELSE Fail(c) /\ UNCHANGED <<op, cand, receipt, leases>>
        /\ UNCHANGED <<advance, session, env, expected, creator, plan, files, child>>

-----------------------------------------------------------------------------
(* The plan is frozen and executed.                                        *)

\* A mutant: the snapshot is not compared with the receipt.
Mut_FreezeCandidatePlan(c) ==
    LET k == CommandOf(c)
    IN  /\ At(c, "snapshot")
        /\ IF cand[k] = "prepared" /\ plan[k] = "none"
           THEN /\ snapshot' = [snapshot EXCEPT ![k] = IF @ = None THEN checkout[k] ELSE @]
                /\ GoOn(c, "bind")
           ELSE Fail(c) /\ UNCHANGED snapshot
        /\ UNCHANGED <<advance, session, env, expected, rows, leases, checkout, child>>

\* PlanTaskChange reads the candidate again, and does not take over a plan
\* another caller has bound.  ensureCandidateFinalSnapshot takes the snapshot
\* once; one that differs from the receipt stays and fails every attempt.
FreezeCandidatePlan(c) ==
    LET k == CommandOf(c)
    IN  /\ At(c, "snapshot")
        /\ IF cand[k] = "prepared" /\ plan[k] = "none"
           THEN /\ snapshot' = [snapshot EXCEPT ![k] = IF @ = None THEN checkout[k] ELSE @]
                /\ IF snapshot'[k] = receipt[k] THEN GoOn(c, "bind") ELSE Fail(c)
           ELSE Fail(c) /\ UNCHANGED snapshot
        /\ UNCHANGED <<advance, session, env, expected, rows, leases, checkout, child>>

CreateAndBindRevisionCandidatePlan(c) ==
    LET k == CommandOf(c)
    IN  /\ At(c, "bind")
        /\ IF plan[k] = "none" /\ cand[k] = "prepared"
           THEN plan' = [plan EXCEPT ![k] = "frozen"] /\ GoOn(c, "execute")
           ELSE Fail(c) /\ UNCHANGED plan
        /\ UNCHANGED <<advance, session, env, expected, cand, op, creator, receipt, leases,
                       files, child>>

\* The candidate becomes a sealed revision with a queued child Run.
Commit(c) ==
    LET k == CommandOf(c)
    IN  /\ cand' = [cand EXCEPT ![k] = "committed"]
        /\ child' = [child EXCEPT ![k] = [run |-> runVersion, task |-> taskVersion,
                                          content |-> snapshot[k]]]
        /\ runVersion' = runVersion + 1
        /\ Release(creator[k])
        /\ Done(c)

\* A mutant: the checkpoint the command was frozen with is not compared.
Mut_CommitRevisionCandidateContinuation(c) ==
    LET k == CommandOf(c)
        Stay == UNCHANGED <<cand, child, runVersion, leases>>
    IN  /\ At(c, "execute") /\ ~PlanIsLate(k)
        /\ CASE cand[k] = "committed" -> Done(c) /\ Stay
             [] cand[k] = "prepared" /\ advance # "in_doubt" -> Commit(c)
             [] OTHER -> Fail(c) /\ Stay
        /\ UNCHANGED <<advance, session, taskVersion, incidents, expected, op, creator, receipt,
                       plan, files>>

\* ExecuteTaskChange: a committed plan is replayed; otherwise the source Run
\* must be at the checkpoint and have no job in doubt.
CommitRevisionCandidateContinuation(c) ==
    LET k == CommandOf(c)
        Stay == UNCHANGED <<cand, child, runVersion, leases>>
    IN  /\ At(c, "execute") /\ ~PlanIsLate(k)
        /\ CASE cand[k] = "committed" -> Done(c) /\ Stay
             [] /\ cand[k] = "prepared"
                /\ expected[k] = Checkpoint /\ advance # "in_doubt" -> Commit(c)
             [] OTHER -> Fail(c) /\ Stay
        /\ UNCHANGED <<advance, session, taskVersion, incidents, expected, op, creator, receipt,
                       plan, files>>

\* A plan found late, before or in its execution, is put away.
ExpireRevisionCandidate(c) ==
    LET k == CommandOf(c)
    IN  /\ At(c, "execute") \/ (At(c, "look") /\ SessionOpen(c))
        /\ PlanIsLate(k)
        /\ IF cand[k] = "prepared"
           THEN cand' = [cand EXCEPT ![k] = "discarded"] /\ Release(creator[k])
           ELSE UNCHANGED <<cand, leases>>
        /\ Fail(c)
        /\ UNCHANGED <<advance, session, env, expected, op, creator, receipt, plan, files,
                       child>>

-----------------------------------------------------------------------------
(* The end of a job; a reconcile and a human's command report the error.   *)


\* A round that failed is handed to a human.
HandleDurableJob ==
    /\ At(RoundWorker, "failed") /\ Done(RoundWorker)
    /\ session' = "needs_human"
    /\ UNCHANGED <<advance, env, expected, rows, leases, files, child>>

\* The delivery of a job that is still running is recorded.
DeliverAdvance ==
    /\ At(RoundWorker, "done")
    /\ advance' = IF advance = "running" THEN "succeeded" ELSE advance
    /\ caller' = [caller EXCEPT ![RoundWorker] = AtRest]
    /\ UNCHANGED <<session, env, expected, rows, leases, files, child>>

-----------------------------------------------------------------------------
(* What happens around it.                                                 *)

\* The worker dies, or a recovery pass of its session fails.  An operator or a
\* human that dies is one that takes no further step.
Crash ==
    /\ incidents < MaxIncidents /\ incidents' = incidents + 1
    /\ ~At(RoundWorker, "idle")
    /\ caller' = [caller EXCEPT ![RoundWorker] = AtRest]
    /\ UNCHANGED <<advance, session, runVersion, taskVersion, expected, rows, leases, files,
                   child>>

LeaseExpires ==
    /\ slot # None /\ slot' = None /\ fresh' = {}
    /\ UNCHANGED <<caller, advance, session, env, expected, rows, files, child>>

PlanExpires ==
    /\ \E k \in Commands : plan[k] = "frozen" /\ plan' = [plan EXCEPT ![k] = "late"]
    /\ UNCHANGED <<caller, advance, session, env, expected, cand, op, creator, receipt, leases,
                   files, child>>

\* Another command writes the task.  The source Run is written by commits.
OtherWrite ==
    /\ incidents < MaxIncidents /\ incidents' = incidents + 1
    /\ \E k \in Commands : expected[k] # None
    /\ taskVersion' = taskVersion + 1
    /\ UNCHANGED <<caller, advance, session, runVersion, expected, rows, leases, files, child>>

-----------------------------------------------------------------------------
Step(c) ==
    \/ Begin(c) \/ PlanTaskChange(c) \/ Acquire(c) \/ CreateRevisionCandidate(c)
    \/ CreateChangeOperation(c) \/ StartChangeOperation(c) \/ Apply(c) \/ ApplyReturns(c)
    \/ MarkChangeOperationUnknown(c) \/ FinalizeChangeOperation(c)
    \/ FreezeCandidatePlan(c) \/ CreateAndBindRevisionCandidatePlan(c)
    \/ CommitRevisionCandidateContinuation(c) \/ ExpireRevisionCandidate(c)

EndJob == HandleDurableJob \/ DeliverAdvance

ChangeNext ==
    \/ \E c \in Callers : Step(c) \/ Heartbeat(c)
    \/ \E c \in {RoundWorker} \cup Reconcilers : FindLoss(c)
    \/ EndJob \/ Crash
    \/ LeaseExpires \/ PlanExpires \/ OtherWrite

ChangeSpec == ChangeInit /\ [][ChangeNext]_changeVars

\* What a worker has taken up it goes on with while it lives; a provider's call
\* has a budget of time.
FairChangeSpec ==
    ChangeSpec /\ WF_changeVars((~At(RoundWorker, "idle") /\ Step(RoundWorker)) \/ EndJob)

\* Activations of the Run keep bringing a worker.  No process does that by
\* itself, so it is a premise and no fairness of the specification.
WorkersComeBack == WF_changeVars(Begin(RoundWorker) \/ FindLoss(RoundWorker))

-----------------------------------------------------------------------------
\* The comments on FinalizeChangeOperation and applyWithCandidateLeaseHeartbeat
\* promise that no late result is sealed: what a child Run starts from is the
\* content its receipt recorded, although a second caller of the command may
\* still write the checkout, and it is never the unchanged base.
SealedMatchesReceipt ==
    \A k \in Commands :
        cand[k] = "committed" => child[k].content = receipt[k] /\ receipt[k] # Base

\* A plan is executed on the Run and the task its command was frozen with and
\* on nothing else: of two changes of the same state of a Run at most one
\* gets a child, however far both have come.
OneChildPerCheckpoint ==
    \A k \in Commands : cand[k] = "committed" =>
        /\ child[k].run = expected[k].run /\ child[k].task = expected[k].task
        /\ \A l \in Commands \ {k} :
              cand[l] = "committed" => child[k].run # child[l].run

\* Nobody is left to recover the job.
LossIsConsumed == advance = "in_doubt" /\ At(RoundWorker, "idle")

=============================================================================
