---------------------------- MODULE RunActivation ----------------------------
(***************************************************************************)
(* How a queued job gets a worker process: the outbox event of the job, the*)
(* Drain that delivers it, the run-worker handoff that launches at most one*)
(* child per Run, and the supervisor lease the child claims                *)
(* (internal/harbor/store/v9_outbox.go, v16_run_worker_handoff.go;         *)
(* internal/app/outbox_dispatcher.go, run_activation_service.go,           *)
(* run_worker_handoff_service.go, run_worker_session.go).                  *)
(*                                                                         *)
(* Each action is one store transaction or one read of a Drain or of a     *)
(* worker.  A deadline or an expiry that the clock has passed is a member  *)
(* of `late'.  What a job's handler does to its Run is reduced to the new  *)
(* status and the jobs it queues; a job whose worker dies is `lost' here   *)
(* and recovered in RunRecovery.                                           *)
(***************************************************************************)
EXTENDS Integers, FiniteSets, FiniteSetsExt

CONSTANTS
    Runs, Jobs,
    RunOf,          \* RunOf[j]: the Run job j belongs to
    Kind,           \* Kind[j]: "execute" or "continuation"
    Creates,        \* Creates[j]: the jobs the handler of j may queue
    Initial,        \* the jobs of the Runs that have been started
    Operators,      \* command-line or board processes that run a Drain
    MaxHandoffs,    \* bound: handoffs that are open or still in use
    MaxFaults       \* bound: failed launches, killed processes, leases that
                    \* run out under a live process, other writes of a Run
                    \* row, workers started by hand

ASSUME ActivationAssumption ==
    /\ RunOf \in [Jobs -> Runs] /\ Kind \in [Jobs -> {"execute", "continuation"}]
    /\ Creates \in [Jobs -> SUBSET Jobs] /\ Initial \subseteq Jobs
    /\ MaxHandoffs \in Nat \ {0} /\ MaxFaults \in Nat
    /\ Operators \cap (0 .. MaxHandoffs) = {}

Handoffs == 1 .. MaxHandoffs
Direct == 0                        \* a worker started without a handoff
Workers == {Direct} \cup Handoffs  \* worker h is the child of handoff h
Drainers == Operators \cup Workers
NoJob == "no job"

VARIABLES
    run,       \* run[r]: status and version of the Run
    job,       \* job[j]: state of the durable job
    event,     \* event[j]: state and fencing token of its queued event
    delivered, \* delivered[j]: the handler of the current claim returned no error
    handoff,   \* handoff[h]: Run, expected version, state, fencing token of its lease
    lease,     \* lease[r]: the newest supervisor lease of the Run
    late,      \* what is past its deadline or expiry
    drain,     \* drain[a]: where the Drain of process a stands
    worker,    \* worker[w]: where the session of worker w stands
    faults

outbox == <<event, delivered>>
vars == <<run, job, event, delivered, handoff, lease, late, drain, worker, faults>>

Event(j) == <<"event", j>>
Deadline(h) == <<"handoff", h>>
Expiry(r) == <<"lease", r>>

RunStatus == {"absent", "queued", "running", "failed_recoverable", "succeeded"}
DrainPhase == {"idle", "claim", "read", "reconcile", "list", "reserve", "launch",
               "record", "settle", "sweep"}
WorkerPhase == {"none", "booting", "claiming", "serving", "working", "draining",
                "stopping"}
Alive == {"serving", "working", "draining", "stopping"}

IdleDrain == [phase |-> "idle", event |-> NoJob, fence |-> 0, run |-> 0, seen |-> 0,
              handoff |-> 0, ok |-> TRUE, todo |-> {}]
NoWorker == [phase |-> "none", run |-> 0, seen |-> "absent", job |-> NoJob, fence |-> 0]
NoHandoff == [state |-> "none", run |-> 0, expected |-> 0, fence |-> 0]

TypeOK ==
    /\ run \in [Runs -> [status : RunStatus, version : Nat]]
    /\ job \in [Jobs -> {"absent", "queued", "running", "done", "lost"}]
    /\ event \in [Jobs -> [state : {"absent", "pending", "leased", "delayed", "published"},
                           fence : Nat]]
    /\ delivered \in [Jobs -> BOOLEAN]
    /\ \A h \in Handoffs :
          /\ handoff[h].state \in {"none", "launching", "handed_off", "released",
                                   "failed", "expired"}
          /\ handoff[h].state \in {"launching", "handed_off"} => handoff[h].run \in Runs
          /\ handoff[h].state = "handed_off" => handoff[h].fence > 0
    /\ lease \in [Runs -> [state : {"none", "active", "released", "expired"}, fence : Nat]]
    /\ late \subseteq {Event(j) : j \in Jobs} \cup {Deadline(h) : h \in Handoffs}
                      \cup {Expiry(r) : r \in Runs}
    /\ \A a \in Drainers : drain[a].phase \in DrainPhase /\ drain[a].todo \subseteq Jobs
    /\ \A w \in Workers : worker[w].phase \in WorkerPhase
    /\ faults \in 0 .. MaxFaults

Init ==
    /\ run = [r \in Runs |-> [status |-> IF \E j \in Initial : RunOf[j] = r
                                         THEN "queued" ELSE "absent", version |-> 1]]
    /\ job = [j \in Jobs |-> IF j \in Initial THEN "queued" ELSE "absent"]
    /\ event = [j \in Jobs |-> [state |-> IF j \in Initial THEN "pending" ELSE "absent",
                                fence |-> 0]]
    /\ delivered = [j \in Jobs |-> FALSE]
    /\ handoff = [h \in Handoffs |-> NoHandoff]
    /\ lease = [r \in Runs |-> [state |-> "none", fence |-> 0]]
    /\ late = {}
    /\ drain = [a \in Drainers |-> IdleDrain]
    /\ worker = [w \in Workers |-> NoWorker]
    /\ faults = 0

-----------------------------------------------------------------------------
(* Which work a Run in a given status may hand to a worker.                *)

\* runWorkerEligibleCommandTypes, runWorkerJobIsEligible.
Eligible(status, j) ==
    \/ status \in {"queued", "running"}
    \/ status = "failed_recoverable" /\ Kind[j] = "continuation"

QueuedJobs(r) == {j \in Jobs : RunOf[j] = r /\ job[j] = "queued"}
Work(r, status) == {j \in QueuedJobs(r) : Eligible(status, j)}

\* runWorkerHandoffRunnableTx.
Runnable(r) == run[r].status \in {"queued", "running"} \/ QueuedJobs(r) # {}

ActiveHandoffs(r) ==
    {h \in Handoffs : handoff[h].run = r /\ handoff[h].state \in {"launching", "handed_off"}}
LeaseHeld(r) == lease[r].state = "active" /\ Expiry(r) \notin late
OwnsLease(h) == LET r == handoff[h].run
                IN  lease[r].state = "active" /\ lease[r].fence = handoff[h].fence

\* A mutant: a claimed handoff is still measured by its launch deadline.
Mut_ShouldExpire(h) ==
    \/ handoff[h].state = "launching" /\ Deadline(h) \in late
    \/ handoff[h].state = "handed_off"

\* shouldExpireRunWorkerHandoffTx.
ShouldExpire(h) ==
    \/ handoff[h].state = "launching" /\ Deadline(h) \in late
    \/ /\ handoff[h].state = "handed_off"
       /\ ~(OwnsLease(h) /\ LeaseHeld(handoff[h].run))

\* expireRunWorkerHandoffTx; expireLeaseTx for the leases of Run r.  Of a
\* closed handoff only the state is ever looked at.
Closed(state) == [NoHandoff EXCEPT !.state = state]
ExpireHandoffs(H) ==
    handoff' = [h \in Handoffs |-> IF h \in H THEN Closed("expired") ELSE handoff[h]]
\* Only an open handoff and an active lease can be late.
Forget == late' = late \ ({Deadline(h) : h \in {k \in Handoffs : handoff'[k].state # "launching"}}
                           \cup {Expiry(r) : r \in {q \in Runs : lease'[q].state # "active"}})
ExpireLease(r) == lease' = [lease EXCEPT ![r].state = "expired"]

-----------------------------------------------------------------------------
(* A Drain.                                                                *)

Go(a, phase) == drain' = [drain EXCEPT ![a].phase = phase]

\* ensureRunWorkerHandoff is done with its Run.
Settle(a, ok) ==
    drain' = [drain EXCEPT ![a].phase = "settle", ![a].ok = ok, ![a].run = 0,
                           ![a].seen = 0, ![a].handoff = 0]

\* The Drain returns.  A worker goes on with its loop, or with its error.
Return(a, ok) ==
    /\ drain' = [drain EXCEPT ![a] = IdleDrain]
    /\ worker' = IF a \in Workers
                 THEN [worker EXCEPT ![a].phase = IF ok THEN "serving" ELSE "stopping",
                                     ![a].seen = run[worker[a].run].status]
                 ELSE worker

StartDrain(a) ==
    /\ a \in Operators /\ drain[a].phase = "idle"
    /\ Go(a, "claim")
    /\ UNCHANGED <<run, job, outbox, handoff, lease, late, worker, faults>>

Overdue == {j \in Jobs : event[j].state = "leased" /\ Event(j) \in late}

\* ClaimOutboxEvents: requeue what is overdue, lease one ready event.
ClaimEvent(a) ==
    /\ drain[a].phase = "claim"
    /\ \E j \in {k \in Jobs : event[k].state = "pending"} \cup Overdue :
          /\ event' = [k \in Jobs |->
                IF k = j THEN [state |-> "leased", fence |-> event[k].fence + 1]
                ELSE IF k \in Overdue THEN [event[k] EXCEPT !.state = "pending"]
                ELSE event[k]]
          /\ delivered' = [delivered EXCEPT ![j] = FALSE]
          /\ drain' = [drain EXCEPT ![a].phase = "read", ![a].event = j,
                                    ![a].fence = event[j].fence + 1, ![a].ok = TRUE]
    /\ late' = late \ {Event(j) : j \in Overdue}
    /\ UNCHANGED <<run, job, handoff, lease, worker, faults>>

\* A mutant: a Drain is over when the outbox is empty.
Mut_ToSweep == {}

ToSweep == {j \in Jobs : job[j] = "queued"}

\* The poll is empty: sweepQueuedRunJobs lists the queued jobs.
ListQueued(a) ==
    /\ drain[a].phase = "claim"
    /\ \A j \in Jobs : event[j].state # "pending" /\ j \notin Overdue
    /\ drain' = [drain EXCEPT ![a].phase = "sweep", ![a].event = NoJob,
                              ![a].todo = ToSweep]
    /\ UNCHANGED <<run, job, outbox, handoff, lease, late, worker, faults>>

\* activationForEvent: the store, not the payload, says which Run needs a worker.
ReadEvent(a) ==
    LET j == drain[a].event
        r == RunOf[j]
    IN  /\ drain[a].phase = "read"
        /\ drain' = IF job[j] = "queued" /\ Eligible(run[r].status, j)
                    THEN [drain EXCEPT ![a].phase = "reconcile", ![a].run = r,
                                       ![a].seen = run[r].version]
                    ELSE [drain EXCEPT ![a].phase = "settle"]
        /\ UNCHANGED <<run, job, outbox, handoff, lease, late, worker, faults>>

\* One job of the sweep: its Run is read again; a Run is seen to once.
SweepJob(a) ==
    /\ drain[a].phase = "sweep"
    /\ \E j \in drain[a].todo :
         LET r == RunOf[j]
         IN  drain' = IF Eligible(run[r].status, j)
                THEN [drain EXCEPT ![a].phase = "reconcile", ![a].run = r,
                                   ![a].seen = run[r].version, ![a].ok = TRUE,
                                   ![a].todo = {k \in @ : RunOf[k] # r}]
                ELSE [drain EXCEPT ![a].todo = @ \ {j}]
    /\ UNCHANGED <<run, job, outbox, handoff, lease, late, worker, faults>>

FinishSweep(a) ==
    /\ drain[a].phase = "sweep" /\ drain[a].todo = {}
    /\ Return(a, TRUE)
    /\ UNCHANGED <<run, job, outbox, handoff, lease, late, faults>>

\* ReconcileRunWorkerHandoffs.
Reconcile(a) ==
    LET r == drain[a].run
        H == {h \in ActiveHandoffs(r) : ShouldExpire(h)}
    IN  /\ drain[a].phase = "reconcile"
        /\ ExpireHandoffs(H)
        /\ IF \E h \in H : handoff[h].state = "handed_off" /\ OwnsLease(h) /\ ~LeaseHeld(r)
           THEN ExpireLease(r) ELSE UNCHANGED lease
        /\ Go(a, "list")
        /\ Forget
        /\ UNCHANGED <<run, job, outbox, worker, faults>>

ListHandoffs(a) ==
    /\ drain[a].phase = "list"
    /\ IF ActiveHandoffs(drain[a].run) # {} THEN Settle(a, TRUE) ELSE Go(a, "reserve")
    /\ UNCHANGED <<run, job, outbox, handoff, lease, late, worker, faults>>

MayReserve(r) == (\A h \in ActiveHandoffs(r) : ShouldExpire(h)) /\ ~LeaseHeld(r)

\* A closed handoff whose child and parent are done with it is forgotten, and
\* its number used again for a new row.
Unused == {h \in Handoffs :
    /\ handoff[h].state \notin {"launching", "handed_off"}
    /\ worker[h] = NoWorker
    /\ \A a \in Drainers : drain[a].handoff # h}

\* ReserveRunWorkerHandoff.
Reserve(a) ==
    LET r == drain[a].run
    IN  /\ drain[a].phase = "reserve"
        /\ run[r].version = drain[a].seen /\ Runnable(r) /\ MayReserve(r)
        /\ Unused # {}
        /\ LET h == Min(Unused) IN
           /\ handoff' = [k \in Handoffs |->
                 IF k = h THEN [NoHandoff EXCEPT !.state = "launching", !.run = r,
                                                 !.expected = drain[a].seen]
                 ELSE IF k \in ActiveHandoffs(r) /\ ShouldExpire(k) THEN Closed("expired")
                 ELSE handoff[k]]
           /\ drain' = [drain EXCEPT ![a].phase = "launch", ![a].handoff = h]
        /\ IF lease[r].state = "active" THEN ExpireLease(r) ELSE UNCHANGED lease
        /\ Forget
        /\ UNCHANGED <<run, job, outbox, worker, faults>>

\* A stale checkpoint or a finished Run is an error; ErrLeaseHeld is not.
ReserveRefused(a) ==
    LET r == drain[a].run
        sound == run[r].version = drain[a].seen /\ Runnable(r)
    IN  /\ drain[a].phase = "reserve"
        /\ ~sound \/ ~MayReserve(r)
        /\ Settle(a, sound)
        /\ UNCHANGED <<run, job, outbox, handoff, lease, late, worker, faults>>

\* LaunchRunWorker: exec.Start.
Launch(a) ==
    LET h == drain[a].handoff
    IN  /\ drain[a].phase = "launch"
        /\ worker' = [worker EXCEPT ![h] = [NoWorker EXCEPT !.phase = "booting",
                                                            !.run = drain[a].run]]
        /\ Go(a, "record")
        /\ UNCHANGED <<run, job, outbox, handoff, lease, late, faults>>

\* No child was started: FailRunWorkerHandoff.
LaunchFails(a) ==
    LET h == drain[a].handoff
    IN  /\ drain[a].phase = "launch" /\ faults < MaxFaults
        /\ handoff' = IF handoff[h].state = "launching"
                      THEN [handoff EXCEPT ![h] = Closed("failed")] ELSE handoff
        /\ Settle(a, FALSE)
        /\ UNCHANGED lease /\ Forget
        /\ faults' = faults + 1
        /\ UNCHANGED <<run, job, outbox, worker>>

\* RecordRunWorkerHandoffSpawned.  The receipt decides nothing later: the
\* child may have claimed first with the same one, and an expired handoff is
\* an error with the receipt or without it.
Record(a) ==
    LET h == drain[a].handoff
    IN  /\ drain[a].phase = "record"
        /\ Settle(a, handoff[h].state # "expired")
        /\ UNCHANGED <<run, job, outbox, handoff, lease, late, worker, faults>>

\* A mutant: the acknowledgement asks for any unexpired lease of the event.
Mut_LeaseIsMine(a) ==
    LET j == drain[a].event IN event[j].state = "leased" /\ Event(j) \notin late

\* verifyOutboxLease.
LeaseIsMine(a) ==
    LET j == drain[a].event
    IN  event[j].state = "leased" /\ event[j].fence = drain[a].fence /\ Event(j) \notin late

\* The handler's result counts for the claim it was called with.
NoteDelivery(a) ==
    LET j == drain[a].event
    IN  delivered' = [delivered EXCEPT ![j] =
            @ \/ (drain[a].ok /\ drain[a].fence = event[j].fence)]

\* AckOutboxEvent; the Drain claims the next event.
Acknowledge(a) ==
    /\ drain[a].phase = "settle" /\ drain[a].event # NoJob
    /\ drain[a].ok /\ LeaseIsMine(a)
    /\ event' = [event EXCEPT ![drain[a].event].state = "published"]
    /\ NoteDelivery(a)
    /\ drain' = [drain EXCEPT ![a] = [IdleDrain EXCEPT !.phase = "claim"]]
    /\ UNCHANGED <<run, job, handoff, lease, late, worker, faults>>

\* NackOutboxEvent: the event is available again after a delay; the error
\* ends the whole Drain.
Retry(a) ==
    /\ drain[a].phase = "settle" /\ drain[a].event # NoJob
    /\ ~drain[a].ok /\ LeaseIsMine(a)
    /\ event' = [event EXCEPT ![drain[a].event].state = "delayed"]
    /\ Return(a, FALSE)
    /\ UNCHANGED <<run, job, delivered, handoff, lease, late, faults>>

\* The event's lease was lost: neither is written.
DeliveryLost(a) ==
    /\ drain[a].phase = "settle" /\ drain[a].event # NoJob
    /\ ~LeaseIsMine(a)
    /\ NoteDelivery(a)
    /\ Return(a, FALSE)
    /\ UNCHANGED <<run, job, event, handoff, lease, late, faults>>

SweptOne(a) ==
    /\ drain[a].phase = "settle" /\ drain[a].event = NoJob
    /\ IF drain[a].ok THEN Go(a, "sweep") /\ UNCHANGED worker ELSE Return(a, FALSE)
    /\ UNCHANGED <<run, job, outbox, handoff, lease, late, faults>>

-----------------------------------------------------------------------------
(* A worker.                                                               *)

\* The session ends, whatever it has read of its Run.
Stop(w) == worker' = [worker EXCEPT ![w].phase = "stopping", ![w].seen = "absent",
                                    ![w].job = NoJob]
Exit(w) == worker' = [worker EXCEPT ![w] = NoWorker]

\* An operator runs `run worker' without a handoff.
StartDirect ==
    /\ faults < MaxFaults /\ worker[Direct].phase = "none"
    /\ \E r \in Runs :
          /\ run[r].status # "absent"
          /\ worker' = [worker EXCEPT ![Direct] =
                [NoWorker EXCEPT !.phase = "booting", !.run = r]]
    /\ faults' = faults + 1
    /\ UNCHANGED <<run, job, outbox, handoff, lease, late, drain>>

\* A job of Run r is being executed by a worker.
Executing(r) == \E j \in Jobs : RunOf[j] = r /\ job[j] = "running"

\* eligibleQueuedRunWork for a Run read with this status.
Ready(r, status) ==
    Work(r, status) # {} \/ (status \in {"queued", "running"} /\ Executing(r))

\* A child with nothing to do leaves before it claims its handoff.
Boot(w) ==
    LET r == worker[w].run
        s == run[r].status
    IN  /\ worker[w].phase = "booting"
        /\ IF Ready(r, s) \/ s = "running"
           THEN worker' = [worker EXCEPT ![w].seen = s, ![w].phase = "claiming"]
           ELSE Exit(w)
        /\ UNCHANGED <<run, job, outbox, handoff, lease, late, drain, faults>>

\* A mutant: the highest token in use is given again.
Mut_NextFence(r) == lease[r].fence

\* acquireRunWorkerSupervisorLeaseTx: one more than the highest so far.
NextFence(r) == lease[r].fence + 1

MayClaim(h) ==
    /\ handoff[h].state = "launching" /\ Deadline(h) \notin late
    /\ run[handoff[h].run].version = handoff[h].expected
    /\ Runnable(handoff[h].run) /\ ~LeaseHeld(handoff[h].run)

\* ClaimRunWorkerHandoff: receipt, supervisor lease and handed_off at once.
ClaimHandoff(w) ==
    LET r == worker[w].run
        f == NextFence(r)
    IN  /\ worker[w].phase = "claiming" /\ w # Direct /\ MayClaim(w)
        /\ handoff' = [handoff EXCEPT ![w] = [@ EXCEPT !.state = "handed_off",
                                                       !.expected = 0, !.fence = f]]
        /\ lease' = [lease EXCEPT ![r] = [state |-> "active", fence |-> f]]
        /\ late' = late \ {Expiry(r), Deadline(w)}
        /\ worker' = [worker EXCEPT ![w].phase = "serving", ![w].fence = f]
        /\ UNCHANGED <<run, job, outbox, drain, faults>>

\* A refused child exits.  Only a missed deadline is written down: a stale
\* checkpoint leaves the handoff launching until its deadline.
ClaimRefused(w) ==
    /\ worker[w].phase = "claiming" /\ w # Direct /\ ~MayClaim(w)
    /\ ExpireHandoffs(IF handoff[w].state = "launching" /\ Deadline(w) \in late
                      THEN {w} ELSE {})
    /\ UNCHANGED lease /\ Forget
    /\ Exit(w)
    /\ UNCHANGED <<run, job, outbox, drain, faults>>

\* AcquireLease, without a handoff.
Acquire(w) ==
    LET r == worker[w].run
        f == NextFence(r)
    IN  /\ worker[w].phase = "claiming" /\ w = Direct
        /\ IF LeaseHeld(r)
           THEN Exit(w) /\ UNCHANGED <<lease, late>>
           ELSE /\ lease' = [lease EXCEPT ![r] = [state |-> "active", fence |-> f]]
                /\ late' = late \ {Expiry(r)}
                /\ worker' = [worker EXCEPT ![w].phase = "serving",
                                            ![w].fence = f]
        /\ UNCHANGED <<run, job, outbox, handoff, drain, faults>>

Supervises(w) ==
    LET r == worker[w].run
    IN  LeaseHeld(r) /\ lease[r].fence = worker[w].fence

SetRun(r, status) ==
    run' = [run EXCEPT ![r] = [status |-> status, version |-> @.version + 1]]

\* RunOnceForCommandTypes claims a job; the first one starts the Run.
TakeJob(w) ==
    LET r == worker[w].run
    IN  /\ worker[w].phase = "serving"
        /\ \E j \in Work(r, worker[w].seen) :
              /\ job' = [job EXCEPT ![j] = "running"]
              /\ worker' = [worker EXCEPT ![w].phase = "working", ![w].job = j,
                                          ![w].seen = "absent"]
        /\ IF run[r].status = "queued" THEN SetRun(r, "running") ELSE UNCHANGED run
        /\ UNCHANGED <<outbox, handoff, lease, late, drain, faults>>

\* The handler returns.  It may have queued further jobs, each with its
\* event, of its own Run or of a Run it created; a Run it leaves without
\* work is closed.
FinishJob(w) ==
    LET r == worker[w].run
        j == worker[w].job
    IN  /\ worker[w].phase = "working"
        /\ \E new \in SUBSET {k \in Creates[j] : job[k] = "absent"} :
           \E status \in {run[r].status} \cup
                 (IF run[r].status = "running" THEN {"failed_recoverable", "succeeded"}
                                               ELSE {}) :
              /\ (\E k \in new : RunOf[k] = r) => status = run[r].status
              /\ job' = [k \in Jobs |-> IF k = j THEN "done"
                                        ELSE IF k \in new THEN "queued" ELSE job[k]]
              /\ event' = [k \in Jobs |-> IF k \in new THEN [event[k] EXCEPT !.state = "pending"]
                                          ELSE event[k]]
              /\ run' = [q \in Runs |->
                    IF q = r /\ status # run[r].status
                    THEN [status |-> status, version |-> run[r].version + 1]
                    ELSE IF run[q].status = "absent" /\ \E k \in new : RunOf[k] = q
                    THEN [run[q] EXCEPT !.status = "queued"]
                    ELSE run[q]]
        /\ worker' = [worker EXCEPT ![w].phase = "draining", ![w].job = NoJob]
        /\ drain' = [drain EXCEPT ![w].phase = "claim"]
        /\ UNCHANGED <<delivered, handoff, lease, late, faults>>

\* An empty cycle: the session reads the Run again.  A running Run without
\* any work is an inconsistency that ends it.
EmptyCycle(w) ==
    LET r == worker[w].run
    IN  /\ worker[w].phase = "serving"
        /\ Work(r, worker[w].seen) = {}
        /\ Ready(r, worker[w].seen) \/ worker[w].seen = "running"
        /\ worker' = [worker EXCEPT ![w].seen = run[r].status,
               ![w].phase = IF ~Executing(r) /\ run[r].status = "running"
                            THEN "stopping" ELSE "serving"]
        /\ UNCHANGED <<run, job, outbox, handoff, lease, late, drain, faults>>

\* The Run is quiescent for this session.
Quiesce(w) ==
    /\ worker[w].phase = "serving"
    /\ ~Ready(worker[w].run, worker[w].seen) /\ worker[w].seen # "running"
    /\ Stop(w)
    /\ UNCHANGED <<run, job, outbox, handoff, lease, late, drain, faults>>

\* The heartbeat found the supervisor lease gone; a running job is aborted.
LoseSupervision(w) ==
    /\ worker[w].phase \in {"serving", "working"} /\ ~Supervises(w)
    /\ job' = IF worker[w].phase = "working"
              THEN [job EXCEPT ![worker[w].job] = "lost"] ELSE job
    /\ Stop(w)
    /\ UNCHANGED <<run, outbox, handoff, lease, late, drain, faults>>

\* ReleaseRunWorkerHandoff, or ReleaseLease of a direct worker; neither looks
\* at the expiry, and an error is ignored.
Leave(w) ==
    LET r == worker[w].run
        mine == lease[r].state = "active" /\ lease[r].fence = worker[w].fence
        bound == w = Direct \/ handoff[w].state = "handed_off"
    IN  /\ worker[w].phase = "stopping"
        /\ IF mine /\ bound
           THEN /\ lease' = [lease EXCEPT ![r].state = "released"]
                /\ handoff' = IF w = Direct THEN handoff
                              ELSE [handoff EXCEPT ![w] = Closed("released")]
           ELSE UNCHANGED <<lease, handoff>>
        /\ Forget
        /\ Exit(w)
        /\ UNCHANGED <<run, job, outbox, drain, faults>>

-----------------------------------------------------------------------------
(* The environment.                                                        *)

\* An operator commits a continuation of a Run that failed recoverably.
CommitContinuation ==
    /\ \E j \in Jobs :
          /\ Kind[j] = "continuation" /\ job[j] = "absent"
          /\ run[RunOf[j]].status \in {"running", "failed_recoverable"}
          /\ SetRun(RunOf[j], "running")
          /\ job' = [job EXCEPT ![j] = "queued"]
          /\ event' = [event EXCEPT ![j].state = "pending"]
    /\ UNCHANGED <<delivered, handoff, lease, late, drain, worker, faults>>

\* Any other write of a Run row that keeps its work eligible, such as a
\* control request: the checkpoint of a launching handoff is stale.
WriteRun ==
    /\ faults < MaxFaults
    /\ \E r \in Runs : run[r].status \in {"queued", "running"} /\ SetRun(r, run[r].status)
    /\ faults' = faults + 1
    /\ UNCHANGED <<job, outbox, handoff, lease, late, drain, worker>>

\* An operator's process is killed in the middle of a Drain.
KillDrain ==
    /\ faults < MaxFaults
    /\ \E a \in Operators : drain[a].phase # "idle" /\ drain' = [drain EXCEPT ![a] = IdleDrain]
    /\ faults' = faults + 1
    /\ UNCHANGED <<run, job, outbox, handoff, lease, late, worker>>

\* A worker is killed.  The delivery of its job is lost.
KillWorker ==
    /\ faults < MaxFaults
    /\ \E w \in Workers :
          /\ worker[w].phase \in Alive \cup {"booting", "claiming"}
          /\ worker' = [worker EXCEPT ![w] = NoWorker]
          /\ drain' = [drain EXCEPT ![w] = IdleDrain]
          /\ job' = IF worker[w].job = NoJob THEN job
                    ELSE [job EXCEPT ![worker[w].job] = "lost"]
    /\ faults' = faults + 1
    /\ UNCHANGED <<run, outbox, handoff, lease, late>>

\* What is still served by a live process: its heartbeat, or the child that
\* is about to claim it, is expected in time.
Delivering(j) == \E a \in Drainers : drain[a].event = j /\ drain[a].fence = event[j].fence
Launching(h) ==
    \/ worker[h].phase \in {"booting", "claiming"}
    \/ \E a \in Drainers : drain[a].phase = "launch" /\ drain[a].handoff = h
Supervised(r) ==
    \E w \in Workers : worker[w].phase \in Alive /\ worker[w].run = r
                       /\ worker[w].fence = lease[r].fence

Running ==
    {<<Event(j), Delivering(j)>> : j \in {k \in Jobs : event[k].state = "leased"}}
    \cup {<<Deadline(h), Launching(h)>> : h \in {k \in Handoffs : handoff[k].state = "launching"}}
    \cup {<<Expiry(r), Supervised(r)>> : r \in {q \in Runs : lease[q].state = "active"}}

\* Time runs out on what nobody serves.
Lapse ==
    /\ \E x \in Running : ~x[2] /\ x[1] \notin late /\ late' = late \cup {x[1]}
    /\ UNCHANGED <<run, job, outbox, handoff, lease, drain, worker, faults>>

\* A live process is held up past its lease or deadline.
LapseEarly ==
    /\ faults < MaxFaults
    /\ \E x \in Running : x[2] /\ x[1] \notin late /\ late' = late \cup {x[1]}
    /\ faults' = faults + 1
    /\ UNCHANGED <<run, job, outbox, handoff, lease, drain, worker>>

\* The retry delay of a refused event is over.
DelayEnds ==
    /\ \E j \in Jobs : event[j].state = "delayed"
                       /\ event' = [event EXCEPT ![j].state = "pending"]
    /\ UNCHANGED <<run, job, delivered, handoff, lease, late, drain, worker, faults>>

-----------------------------------------------------------------------------
DrainStep(a) ==
    \/ StartDrain(a) \/ ClaimEvent(a) \/ ListQueued(a) \/ ReadEvent(a)
    \/ SweepJob(a) \/ FinishSweep(a) \/ Reconcile(a) \/ ListHandoffs(a)
    \/ Reserve(a) \/ ReserveRefused(a) \/ Launch(a) \/ Record(a)
    \/ Acknowledge(a) \/ Retry(a) \/ DeliveryLost(a) \/ SweptOne(a)

WorkerStep(w) ==
    \/ Boot(w) \/ ClaimHandoff(w) \/ ClaimRefused(w) \/ Acquire(w)
    \/ TakeJob(w) \/ FinishJob(w) \/ EmptyCycle(w) \/ Quiesce(w)
    \/ LoseSupervision(w) \/ Leave(w) \/ DrainStep(w)

Environment ==
    \/ StartDirect \/ CommitContinuation \/ WriteRun \/ KillDrain \/ KillWorker
    \/ LapseEarly \/ \E a \in Drainers : LaunchFails(a)

Clock == Lapse \/ DelayEnds

Next ==
    \/ \E a \in Operators : DrainStep(a)
    \/ \E w \in Workers : WorkerStep(w)
    \/ Environment \/ Clock

Spec == Init /\ [][Next]_vars

\* Every process takes its steps, the clock runs, and an operator comes back
\* for another Drain: no resident process would.
FairSpec ==
    /\ Spec
    /\ \A a \in Operators : WF_vars(DrainStep(a))
    /\ \A w \in Workers : WF_vars(WorkerStep(w))
    /\ WF_vars(Clock)

-----------------------------------------------------------------------------
\* At most one handoff of a Run is open, and while the lease of a claimed
\* child runs its handoff stays open: a second child is never launched beside
\* the first, whatever Drains, deadlines and stale checkpoints come in between.
OneChildPerRun ==
    /\ \A r \in Runs : Cardinality(ActiveHandoffs(r)) <= 1
    /\ \A h \in Handoffs :
          worker[h].phase \in Alive /\ Supervises(h) => handoff[h].state = "handed_off"

\* An event is published only for a claim whose own handler succeeded: a
\* Drain that was superseded cannot acknowledge the delivery of another.
PublishedWasDelivered ==
    \A j \in Jobs : event[j].state = "published" => delivered[j]

\* A queued job that its Run admits is picked up by some worker, or the Run
\* stops admitting it: no wake-up is lost for good between the event, the
\* Drain, the launch, the child's claim and the exit of the previous worker.
QueuedJobIsServed ==
    \A j \in Jobs : (job[j] = "queued" /\ Eligible(run[RunOf[j]].status, j))
                    ~> ~(job[j] = "queued" /\ Eligible(run[RunOf[j]].status, j))
=============================================================================
