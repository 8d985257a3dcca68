-------------------------- MODULE DurableDispatch --------------------------
(***************************************************************************)
(* The durable job queue: claims, dispatch and capacity leases, the fence  *)
(* every worker mutation proves, the loss scan and the settlement          *)
(* (internal/harbor/store: v2_jobs.go, v5_dispatcher.go,                   *)
(* dispatch_fence.go; internal/app/durable_worker.go).                     *)
(*                                                                         *)
(* A job never returns to `queued', so it has one dispatch lease and one   *)
(* claim at most: both are kept per job.  Of a capacity slot only the      *)
(* newest lease row is kept; older rows are never active again (module     *)
(* LeaseTable).  `left' counts the ticks before expires_at; `synced' says  *)
(* whether the version a worker remembers is still the row's.              *)
(***************************************************************************)
EXTENDS Integers

CONSTANTS
    Workers,
    NumJobs,       \* jobs are numbered in dispatch order: priority, created_at, id
    MaxCapacity,   \* bound: the largest capacity an operator configures
    TTL,           \* lease lifetime in ticks
    MaxEffects,    \* bound: fenced writes of one handler
    Outcomes,      \* the delivery-final states a handler may return
    Nobody         \* no worker

Jobs == 1 .. NumJobs
Slots == 1 .. MaxCapacity
None == 0          \* no job, no slot

ASSUME DispatchAssumption ==
    /\ NumJobs \in Nat /\ MaxEffects \in Nat
    /\ MaxCapacity \in Nat \ {0} /\ TTL \in Nat \ {0}
    /\ Nobody \notin Workers
    /\ Outcomes \subseteq {"succeeded", "failed", "canceled", "interrupted", "in_doubt"}

VARIABLES
    job,        \* job[j]: the jobs row
    dispatch,   \* dispatch[j]: the job_dispatch lease of j
    claim,      \* claim[j]: the state of the dispatch claim of j
    slot,       \* slot[s]: the newest capacity_slot lease of s
    capacity,   \* the configured capacity of the pool
    worker      \* worker[w]: what process w knows of the job it handles

vars == <<job, dispatch, claim, slot, capacity, worker>>

DeliveryFinal == {"succeeded", "failed", "canceled", "interrupted", "in_doubt"}
JobState == {"absent", "queued", "running"} \cup DeliveryFinal
LeaseState == {"none", "active", "expired", "released"}

Job == [state : JobState, leaseLost : BOOLEAN, effects : 0 .. MaxEffects]
DispatchLease == [state : LeaseState, owner : Workers \cup {Nobody}, left : 0 .. TTL]
SlotLease == [state : LeaseState, job : Jobs \cup {None}, left : 0 .. TTL, token : Nat]
Worker == [phase : {"idle", "handling", "beating", "completing"},
           job : Jobs \cup {None}, left : 0 .. TTL, synced : BOOLEAN,
           slot : Slots \cup {None}, token : Nat, slotSynced : BOOLEAN,
           lost : BOOLEAN]

IdleWorker == [phase |-> "idle", job |-> None, left |-> 0, synced |-> TRUE,
               slot |-> None, token |-> 0, slotSynced |-> TRUE, lost |-> FALSE]

TypeOK ==
    /\ job \in [Jobs -> Job]
    /\ dispatch \in [Jobs -> DispatchLease]
    /\ claim \in [Jobs -> {"none", "active", "released", "expired"}]
    /\ slot \in [Slots -> SlotLease]
    /\ capacity \in Slots
    /\ worker \in [Workers -> Worker]

Init ==
    /\ job = [j \in Jobs |-> [state |-> "absent", leaseLost |-> FALSE, effects |-> 0]]
    /\ dispatch = [j \in Jobs |-> [state |-> "none", owner |-> Nobody, left |-> 0]]
    /\ claim = [j \in Jobs |-> "none"]
    /\ slot = [s \in Slots |-> [state |-> "none", job |-> None, left |-> 0, token |-> 0]]
    /\ capacity = MaxCapacity
    /\ worker = [w \in Workers |-> IdleWorker]

-----------------------------------------------------------------------------
CreateDurableJob(j) ==
    /\ job[j].state = "absent"
    /\ job' = [job EXCEPT ![j].state = "queued"]
    /\ UNCHANGED <<dispatch, claim, slot, capacity, worker>>

ConfigureCapacityPool(n) ==
    /\ n # capacity
    /\ capacity' = n
    /\ UNCHANGED <<job, dispatch, claim, slot, worker>>

-----------------------------------------------------------------------------
(* ClaimNextDurableJob: job, dispatch lease, capacity lease and claim in   *)
(* one transaction; no free slot rolls the whole claim back.               *)

Live(lease) == lease.state = "active" /\ lease.left > 0

\* The expiry of a row that is no longer active is never looked at again.
Closed(lease, state) == [lease EXCEPT !.state = state, !.left = 0]

Claimable(j) == job[j].state = "queued" /\ ~Live(dispatch[j])

FreeSlots == {s \in 1 .. capacity : ~Live(slot[s])}

Granted(j, s) ==
    [phase |-> "handling", job |-> j, left |-> TTL, synced |-> TRUE,
     slot |-> s, token |-> slot[s].token + 1, slotSynced |-> TRUE, lost |-> FALSE]

\* The first job of the queue into the first free slot of the pool.
Claim(w) ==
    /\ worker[w].phase = "idle"
    /\ \E j \in Jobs, s \in FreeSlots :
          /\ Claimable(j) /\ \A k \in Jobs : Claimable(k) => j <= k
          /\ \A t \in FreeSlots : s <= t
          /\ job' = [job EXCEPT ![j].state = "running"]
          /\ dispatch' = [dispatch EXCEPT ![j] =
                 [state |-> "active", owner |-> w, left |-> TTL]]
          /\ slot' = [slot EXCEPT ![s] =
                 [state |-> "active", job |-> j, left |-> TTL, token |-> @.token + 1]]
          /\ claim' = [claim EXCEPT ![j] = "active"]
          /\ \/ worker' = [worker EXCEPT ![w] = Granted(j, s)]
             \/ UNCHANGED worker      \* committed, but the reply was lost
    /\ UNCHANGED capacity

-----------------------------------------------------------------------------
(* The worker's heartbeat goroutine.  It renews the dispatch lease, then   *)
(* the capacity lease, holding the guard's mutex throughout (`beating'),   *)
(* so that no write of the same worker falls in between.                   *)

\* A lost guard is lost for good: what the copies said no longer matters.
Lost(self) == [phase |-> "handling", job |-> self.job, left |-> 0, synced |-> TRUE,
               slot |-> self.slot, token |-> self.token, slotSynced |-> TRUE, lost |-> TRUE]

Held(w) == dispatch[worker[w].job]
HeldSlot(w) == slot[worker[w].slot]
Beats(w) == worker[w].phase = "handling" /\ ~worker[w].lost
OwnsSlot(w) == HeldSlot(w).token = worker[w].token /\ HeldSlot(w).state = "active"

RenewDispatch(w) ==
    /\ Beats(w)
    /\ worker[w].synced
    /\ worker[w].left > 0
    /\ Live(Held(w))
    /\ dispatch' = [dispatch EXCEPT ![worker[w].job].left = TTL]
    /\ \/ worker' = [worker EXCEPT ![w].left = TTL, ![w].phase = "beating"]
       \/ worker' = [worker EXCEPT ![w].synced = FALSE]     \* acknowledgement lost
    /\ UNCHANGED <<job, claim, slot, capacity>>

RenewSlot(w) ==
    /\ worker[w].phase = "beating"
    /\ worker[w].slotSynced
    /\ OwnsSlot(w)
    /\ Live(HeldSlot(w))
    /\ slot' = [slot EXCEPT ![worker[w].slot].left = TTL]
    /\ \/ worker' = [worker EXCEPT ![w].phase = "handling"]
       \/ worker' = [worker EXCEPT ![w].phase = "handling", ![w].slotSynced = FALSE]
    /\ UNCHANGED <<job, dispatch, claim, capacity>>

\* A refused capacity heartbeat: a lapsed lease is marked expired and the
\* guard lost; a version that moved is looked at again by refreshLeases.
SlotRefused(w) ==
    /\ worker[w].phase = "beating"
    /\ ~(worker[w].slotSynced /\ OwnsSlot(w) /\ Live(HeldSlot(w)))
    /\ IF worker[w].slotSynced /\ OwnsSlot(w)
       THEN /\ slot' = [slot EXCEPT ![worker[w].slot] = Closed(@, "expired")]
            /\ worker' = [worker EXCEPT ![w] = Lost(@)]
       ELSE /\ worker' = [worker EXCEPT ![w].phase = "handling", ![w].slotSynced = FALSE]
            /\ UNCHANGED slot
    /\ UNCHANGED <<job, dispatch, claim, capacity>>

\* SQLITE_BUSY and its like: the round ends without effect and is retried.
SlotStoreTransient(w) ==
    /\ worker[w].phase = "beating"
    /\ worker' = [worker EXCEPT ![w].phase = "handling"]
    /\ UNCHANGED <<job, dispatch, claim, slot, capacity>>

DispatchStillMine(w) == Held(w).owner = w /\ Live(Held(w))

SlotStillMine(w) == OwnsSlot(w) /\ Live(HeldSlot(w))

\* refreshLeases after ErrOptimisticLock: both rows must still be the
\* worker's own, active and unexpired, or the fence is lost.
RefreshLeases(w) ==
    /\ Beats(w)
    /\ worker[w].left > 0
    /\ ~worker[w].synced \/ ~worker[w].slotSynced
    /\ worker' = [worker EXCEPT ![w] =
          IF DispatchStillMine(w) /\ SlotStillMine(w)
          THEN [@ EXCEPT !.left = Held(w).left, !.synced = TRUE, !.slotSynced = TRUE]
          ELSE Lost(@)]
    /\ UNCHANGED <<job, dispatch, claim, slot, capacity>>

\* Deadline reached, a non-transient store failure, or a heartbeat that meets
\* a row already out of force: the guard is lost, which cancels the handler.
LoseGuard(w) ==
    /\ Beats(w)
    /\ worker' = [worker EXCEPT ![w] = Lost(@)]
    /\ \/ UNCHANGED dispatch
       \/ /\ Held(w).state = "active" /\ Held(w).left = 0
          /\ dispatch' = [dispatch EXCEPT ![worker[w].job] = Closed(@, "expired")]
    /\ UNCHANGED <<job, claim, slot, capacity>>

-----------------------------------------------------------------------------
(* Fenced mutations (beginDispatchFenceTx): the guard is not lost, and the *)
(* dispatch lease is active, unexpired and the worker's own.               *)

\* Mutant: the in-memory guard alone decides, no row is read.
Mut_FenceHolds(w) == ~worker[w].lost

FenceHolds(w) == ~worker[w].lost /\ DispatchStillMine(w)

\* Any write of the handler: attempts, artifacts, quota, controls, new jobs.
HandlerWrites(w) ==
    /\ worker[w].phase = "handling"
    /\ FenceHolds(w)
    /\ job[worker[w].job].effects < MaxEffects
    /\ job' = [job EXCEPT ![worker[w].job].effects = @ + 1]
    /\ UNCHANGED <<dispatch, claim, slot, capacity, worker>>

\* The handler returned and the heartbeats were stopped.  The worker reads
\* the job; it goes on only if the job is still running.
HandlerReturns(w) ==
    /\ worker[w].phase = "handling"
    /\ worker' = [worker EXCEPT ![w] =
          IF worker[w].lost \/ job[worker[w].job].state # "running"
          THEN IdleWorker
          ELSE [@ EXCEPT !.phase = "completing", !.synced = TRUE, !.slotSynced = TRUE]]
    /\ UNCHANGED <<job, dispatch, claim, slot, capacity>>

\* releaseJobLeasesTx: whatever lease of the job is still active.
ReleasedDispatch(S) ==
    [j \in Jobs |-> IF j \in S /\ dispatch[j].state = "active"
                    THEN Closed(dispatch[j], "released")
                    ELSE dispatch[j]]

\* Mutant: only the dispatch lease is released with the job.
Mut_ReleasedSlots(S) == slot

ReleasedSlots(S) ==
    [s \in Slots |-> IF slot[s].job \in S /\ slot[s].state = "active"
                     THEN Closed(slot[s], "released")
                     ELSE slot[s]]

TransitionDurableJob(w, outcome) ==
    LET j == worker[w].job
    IN  /\ worker[w].phase = "completing"
        /\ FenceHolds(w)
        /\ job[j].state = "running"      \* the version read is still current
        /\ job' = [job EXCEPT ![j].state = outcome]
        /\ dispatch' = ReleasedDispatch({j})
        /\ slot' = ReleasedSlots({j})
        /\ claim' = [claim EXCEPT ![j] = "released"]
        /\ worker' = [worker EXCEPT ![w] = IdleWorker]
        /\ UNCHANGED capacity

\* The transition is refused or fails; the job is left to the loss scan.
TransitionFails(w) ==
    /\ worker[w].phase = "completing"
    /\ worker' = [worker EXCEPT ![w] = IdleWorker]
    /\ UNCHANGED <<job, dispatch, claim, slot, capacity>>

Crash(w) ==
    /\ worker[w].phase # "idle"
    /\ worker' = [worker EXCEPT ![w] = IdleWorker]
    /\ UNCHANGED <<job, dispatch, claim, slot, capacity>>
-----------------------------------------------------------------------------
(* Loss detection and settlement.  Neither is fenced: any worker, or an    *)
(* operator's reconcile, runs them.                                        *)

\* Mutant: only rows somebody already marked are suspected, not lapsed ones.
Mut_SuspectsMarked == {j \in Jobs : claim[j] = "active" /\ dispatch[j].state # "active"}

\* Mutant: a lease that is about to expire counts as lost.
Mut_Suspects == {j \in Jobs : claim[j] = "active" /\ dispatch[j].left <= 1}

Suspects == {j \in Jobs : claim[j] = "active" /\ ~Live(dispatch[j])}

\* An active lease is expired first; releaseJobLeasesTx then finds none.
ClosedDispatch(S) ==
    [j \in Jobs |-> IF j \in S /\ dispatch[j].state = "active"
                    THEN Closed(dispatch[j], "expired")
                    ELSE dispatch[j]]

ScanExpiredDurableJobs ==
    /\ Suspects # {}
    /\ job' = [j \in Jobs |->
          IF j \in Suspects /\ job[j].state \notin DeliveryFinal
          THEN [job[j] EXCEPT !.state = "in_doubt", !.leaseLost = TRUE]
          ELSE job[j]]
    /\ dispatch' = ClosedDispatch(Suspects)
    /\ slot' = ReleasedSlots(Suspects)
    /\ claim' = [j \in Jobs |-> IF j \in Suspects THEN "expired" ELSE claim[j]]
    /\ UNCHANGED <<capacity, worker>>

Settleable(j) == job[j].state = "in_doubt" /\ job[j].leaseLost

SettleInDoubtDurableJob(j) ==
    /\ Settleable(j)
    /\ job' = [job EXCEPT ![j].state = "interrupted", ![j].leaseLost = FALSE]
    /\ dispatch' = ReleasedDispatch({j})
    /\ slot' = ReleasedSlots({j})
    /\ claim' = [claim EXCEPT ![j] = IF @ = "active" THEN "released" ELSE @]
    /\ UNCHANGED <<capacity, worker>>

\* ExpireLeasesForRun: marks lapsed rows, leaves jobs and claims alone.
ExpireLeases ==
    LET Mark(lease) == IF lease.state = "active" /\ lease.left = 0
                       THEN Closed(lease, "expired") ELSE lease
    IN  /\ dispatch' = [j \in Jobs |-> Mark(dispatch[j])]
        /\ slot' = [s \in Slots |-> Mark(slot[s])]
        /\ UNCHANGED <<job, claim, capacity, worker>>

Less(n) == IF n = 0 THEN 0 ELSE n - 1

Tick ==
    /\ dispatch' = [j \in Jobs |-> [dispatch[j] EXCEPT !.left = Less(@)]]
    /\ slot' = [s \in Slots |-> [slot[s] EXCEPT !.left = Less(@)]]
    /\ worker' = [w \in Workers |-> [worker[w] EXCEPT !.left = Less(@)]]
    /\ UNCHANGED <<job, claim, capacity>>

Beat(w) ==
    \/ RenewDispatch(w) \/ RenewSlot(w) \/ SlotRefused(w) \/ SlotStoreTransient(w)
    \/ RefreshLeases(w) \/ LoseGuard(w)

Finish(w) ==
    \/ HandlerReturns(w)
    \/ TransitionFails(w)
    \/ \E outcome \in Outcomes : TransitionDurableJob(w, outcome)

Next ==
    \/ \E w \in Workers : Claim(w) \/ Beat(w) \/ HandlerWrites(w) \/ Finish(w) \/ Crash(w)
    \/ \E j \in Jobs : CreateDurableJob(j) \/ SettleInDoubtDurableJob(j)
    \/ \E n \in Slots : ConfigureCapacityPool(n)
    \/ ScanExpiredDurableJobs
    \/ ExpireLeases
    \/ Tick

Spec == Init /\ [][Next]_vars

(* Time passes; the heartbeat ticker fires, and the store does not refuse  *)
(* every call of a kind; a handler whose context was cancelled returns,    *)
(* and one that has returned is completed.  Nothing is assumed of how long *)
(* other handlers take, nor of who comes to scan and to claim.             *)
Dismissed(w) == worker[w].lost /\ HandlerReturns(w)
Completes(w) == worker[w].phase = "completing" /\ Finish(w)
Fairness ==
    /\ WF_vars(Tick)
    /\ \A w \in Workers :
          /\ WF_vars(Beat(w))
          /\ SF_vars(SlotRefused(w))
          /\ SF_vars(RefreshLeases(w))
          /\ WF_vars(Dismissed(w))
          /\ WF_vars(Completes(w))

FairSpec == Spec /\ Fairness

-----------------------------------------------------------------------------
(* Until the deadline it knows, a worker is right about its job: whatever  *)
(* acknowledgements were lost, the job is still running and the dispatch   *)
(* lease in force and its own, so no scan has declared the delivery lost.  *)
BeliefMatchesJob ==
    \A w \in Workers :
        worker[w].phase # "idle" /\ worker[w].left > 0 =>
            /\ job[worker[w].job].state = "running"
            /\ DispatchStillMine(w)

(* "a pool slot is held only while a worker owns a running job"            *)
(* (v5_types.go): however a delivery ends, no slot outlives it.            *)
SlotHeldOnlyWhileRunning ==
    \A s \in Slots :
        slot[s].state = "active" =>
            /\ job[slot[s].job].state = "running"
            /\ claim[slot[s].job] = "active"

(* The queue implements its promise: one delivery per job, every write and *)
(* every outcome under an authority in force, a loss declared only after   *)
(* the authority lapsed, only declared losses settled.                     *)
Stage == [j \in Jobs |-> IF job[j].leaseLost THEN "lost" ELSE job[j].state]
Authority == [j \in Jobs |-> IF Live(dispatch[j]) THEN dispatch[j].owner ELSE Nobody]
Effects == [j \in Jobs |-> job[j].effects]
Delivery == INSTANCE JobDelivery WITH
    stage <- Stage, authority <- Authority, effects <- Effects
ImplementsDelivery == Delivery!Spec

(* A delivery nobody handles any more does not stay running: its lease     *)
(* lapses and a scan declares it lost.                                     *)
Abandoned(j) == job[j].state = "running" /\ \A w \in Workers : worker[w].job # j
LostDeliveryIsFound == \A j \in Jobs : Abandoned(j) ~> job[j].state # "running"

(* If handlers end, every queued job is claimed: neither crashes, lost     *)
(* replies, leaked slots nor a shrunken pool keep the queue from draining. *)
HandlersEnd == \A w \in Workers : []<>(worker[w].phase = "idle")
QueuedIsClaimed ==
    HandlersEnd => \A j \in Jobs : job[j].state = "queued" ~> job[j].state # "queued"

(* Somebody comes for the work there is: a session's next cycle or, since   *)
(* a full pool, an error of the store or a crash ends a session and the     *)
(* code starts no other, the session an operator's next command starts.     *)
(* Every cycle scans before it claims.  Nobody comes while no slot is free. *)
SessionsComeBack ==
    WF_vars(ScanExpiredDurableJobs) /\ WF_vars(\E w \in Workers : Claim(w))

(* While sessions come back, no job waits for ever, neither for a worker    *)
(* nor after one has gone.                                                  *)
NothingWaitsForEver == SessionsComeBack => LostDeliveryIsFound /\ QueuedIsClaimed
=============================================================================
