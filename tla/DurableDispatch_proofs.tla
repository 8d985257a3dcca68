----------------------- MODULE DurableDispatch_proofs -----------------------
(* The durable queue for any number of workers and jobs, any pool and any   *)
(* lease lifetime: its types, what workers believe, who holds a slot, and   *)
(* that it implements JobDelivery.                                          *)
EXTENDS DurableDispatch, TLAPS

(* Claims and dispatch leases in force belong to running jobs, and the mark *)
(* of a lost lease to jobs in doubt.                                        *)
ClaimsAreRunning ==
    \A j \in Jobs :
        /\ claim[j] = "active" => job[j].state = "running"
        /\ dispatch[j].state = "active" => claim[j] = "active"
        /\ job[j].leaseLost => job[j].state = "in_doubt"

SlotsAreClaimed ==
    \A s \in Slots :
        slot[s].state = "active" => slot[s].job \in Jobs /\ claim[slot[s].job] = "active"

BusyWorkersHaveJobs ==
    \A w \in Workers :
        worker[w].phase # "idle" => worker[w].job \in Jobs /\ worker[w].slot \in Slots

(* What a worker believes is true and ends no later than it thinks.         *)
Backed(self, w) ==
    self.phase # "idle" /\ self.left > 0 =>
        /\ dispatch[self.job].state = "active"
        /\ dispatch[self.job].owner = w
        /\ dispatch[self.job].left >= self.left

BeliefIsBacked == \A w \in Workers : Backed(worker[w], w)

IInv ==
    /\ TypeOK
    /\ ClaimsAreRunning
    /\ SlotsAreClaimed
    /\ BusyWorkersHaveJobs
    /\ BeliefIsBacked

USE DispatchAssumption

(* The invariant is strong enough for what workers believe.                 *)
LEMMA InvariantImpliesBelief == IInv => BeliefMatchesJob
  BY DEF IInv, TypeOK, ClaimsAreRunning, BusyWorkersHaveJobs, BeliefIsBacked, Backed,
         BeliefMatchesJob, DispatchStillMine, Held, Live, Worker, DispatchLease

(* And for who holds a slot.                                                *)
LEMMA InvariantImpliesSlots == IInv => SlotHeldOnlyWhileRunning
  BY DEF IInv, ClaimsAreRunning, SlotsAreClaimed, SlotHeldOnlyWhileRunning

(* An empty queue and idle workers satisfy the invariant.                   *)
LEMMA InitInvariant == Init => IInv
  <1>1. SUFFICES ASSUME Init PROVE IInv
    OBVIOUS
  <1>2. TypeOK
    <2>1. [state |-> "absent", leaseLost |-> FALSE, effects |-> 0] \in Job
      BY DEF Job, JobState
    <2>2. [state |-> "none", owner |-> Nobody, left |-> 0] \in DispatchLease
      BY DEF DispatchLease, LeaseState
    <2>3. [state |-> "none", job |-> None, left |-> 0, token |-> 0] \in SlotLease
      BY DEF SlotLease, LeaseState
    <2>4. IdleWorker \in Worker
      BY DEF IdleWorker, Worker
    <2>5. MaxCapacity \in Slots
      BY DEF Slots
    <2>6. QED
      BY <1>1, <2>1, <2>2, <2>3, <2>4, <2>5 DEF Init, TypeOK
  <1>3. ClaimsAreRunning /\ SlotsAreClaimed
    BY <1>1 DEF Init, ClaimsAreRunning, SlotsAreClaimed
  <1>4. BusyWorkersHaveJobs /\ BeliefIsBacked
    BY <1>1 DEF Init, BusyWorkersHaveJobs, BeliefIsBacked, Backed, IdleWorker
  <1>5. QED
    BY <1>2, <1>3, <1>4 DEF IInv

(* A step of one worker that writes no row only has to leave it with a      *)
(* memory the rows support.                                                 *)
LEMMA MemoryStep ==
  ASSUME IInv, NEW w \in Workers, NEW self \in Worker,
         worker' = [worker EXCEPT ![w] = self],
         UNCHANGED <<job, dispatch, claim, slot, capacity>>,
         self.phase # "idle" => self.job \in Jobs /\ self.slot \in Slots,
         Backed(self, w)
  PROVE  IInv'
  <1>1. TypeOK'
    BY DEF IInv, TypeOK
  <1>2. worker'[w] = self /\ \A v \in Workers \ {w} : worker'[v] = worker[v]
    BY DEF IInv, TypeOK
  <1>3. BusyWorkersHaveJobs'
    BY <1>2 DEF IInv, BusyWorkersHaveJobs
  <1>4. BeliefIsBacked'
    BY <1>2 DEF IInv, BeliefIsBacked, Backed
  <1>5. ClaimsAreRunning' /\ SlotsAreClaimed'
    BY DEF IInv, ClaimsAreRunning, SlotsAreClaimed
  <1>6. QED
    BY <1>1, <1>3, <1>4, <1>5 DEF IInv

(* What a busy worker may rely on.                                          *)
LEMMA BusyFacts ==
  ASSUME IInv, NEW w \in Workers, worker[w].phase # "idle"
  PROVE  /\ worker[w] \in Worker
         /\ worker[w].job \in Jobs /\ worker[w].slot \in Slots
         /\ Held(w) \in DispatchLease
         /\ HeldSlot(w) \in SlotLease
         /\ Backed(worker[w], w)
  BY DEF IInv, TypeOK, BusyWorkersHaveJobs, BeliefIsBacked, Held, HeldSlot

(* A worker whose guard is lost still has a job, and believes nothing.      *)
LEMMA LostWorker ==
  ASSUME IInv, NEW w \in Workers, worker[w].phase # "idle"
  PROVE  /\ Lost(worker[w]) \in Worker
         /\ Lost(worker[w]).phase # "idle"
         /\ Lost(worker[w]).left = 0
         /\ Lost(worker[w]).job \in Jobs /\ Lost(worker[w]).slot \in Slots
  <1>1. worker[w] \in Worker /\ worker[w].job \in Jobs /\ worker[w].slot \in Slots
    BY BusyFacts
  <1>2. QED
    BY <1>1 DEF Lost, Worker

(* An idle worker believes nothing.                                         *)
LEMMA IdleIsBacked ==
  ASSUME NEW w \in Workers
  PROVE  IdleWorker \in Worker /\ IdleWorker.phase = "idle" /\ Backed(IdleWorker, w)
  BY DEF IdleWorker, Worker, Backed

(* A closed row is still a row, and stays with its job and its owner.       *)
LEMMA ClosedRow ==
  ASSUME NEW state \in {"expired", "released"}
  PROVE  /\ \A d \in DispatchLease :
               /\ Closed(d, state) \in DispatchLease
               /\ Closed(d, state).state = state
         /\ \A r \in SlotLease :
               /\ Closed(r, state) \in SlotLease
               /\ Closed(r, state).state = state
               /\ Closed(r, state).job = r.job
  <1>1. state \in LeaseState /\ 0 \in 0 .. TTL
    BY DEF LeaseState
  <1>2. ASSUME NEW d \in DispatchLease
        PROVE  Closed(d, state) \in DispatchLease /\ Closed(d, state).state = state
    <2> DEFINE a == [d EXCEPT !.state = state]
               b == [a EXCEPT !.left = 0]
    <2>1. a \in DispatchLease /\ a.state = state
      BY <1>1 DEF DispatchLease
    <2>2. Closed(d, state) = b
      BY DEF Closed
    <2> HIDE DEF a
    <2>3. b \in DispatchLease /\ b.state = state
      BY <1>1, <2>1 DEF DispatchLease
    <2>4. QED
      BY <2>2, <2>3
  <1>3. ASSUME NEW r \in SlotLease
        PROVE  /\ Closed(r, state) \in SlotLease /\ Closed(r, state).state = state
               /\ Closed(r, state).job = r.job
    <2> DEFINE a == [r EXCEPT !.state = state]
               b == [a EXCEPT !.left = 0]
    <2>1. a \in SlotLease /\ a.state = state /\ a.job = r.job
      BY <1>1 DEF SlotLease
    <2>2. Closed(r, state) = b
      BY DEF Closed
    <2> HIDE DEF a
    <2>3. b \in SlotLease /\ b.state = state /\ b.job = r.job
      BY <1>1, <2>1 DEF SlotLease
    <2>4. QED
      BY <2>2, <2>3
  <1>4. QED
    BY <1>2, <1>3

(* A new job has neither claim nor lease.                                   *)
LEMMA CreateInvariant ==
  ASSUME IInv, NEW j \in Jobs, CreateDurableJob(j)
  PROVE  IInv'
  <1>1. job[j] \in Job /\ job' = [job EXCEPT ![j] = [job[j] EXCEPT !.state = "queued"]]
    BY DEF CreateDurableJob, IInv, TypeOK
  <1>2. [job[j] EXCEPT !.state = "queued"] \in Job
    BY <1>1 DEF Job, JobState
  <1>3. TypeOK'
    BY <1>1, <1>2 DEF CreateDurableJob, IInv, TypeOK
  <1>4. /\ job'[j].leaseLost = job[j].leaseLost
        /\ \A k \in Jobs \ {j} : job'[k] = job[k]
    BY <1>1 DEF Job, IInv, TypeOK
  <1>5. ClaimsAreRunning'
    BY <1>4 DEF CreateDurableJob, IInv, ClaimsAreRunning
  <1>6. SlotsAreClaimed' /\ BusyWorkersHaveJobs' /\ BeliefIsBacked'
    BY DEF CreateDurableJob, IInv, SlotsAreClaimed, BusyWorkersHaveJobs, BeliefIsBacked, Backed
  <1>7. QED
    BY <1>3, <1>5, <1>6 DEF IInv

(* The size of the pool is in none of the conjuncts.                        *)
LEMMA ConfigureInvariant ==
  ASSUME IInv, NEW n \in Slots, ConfigureCapacityPool(n)
  PROVE  IInv'
  BY DEF ConfigureCapacityPool, IInv, TypeOK, ClaimsAreRunning, SlotsAreClaimed,
         BusyWorkersHaveJobs, BeliefIsBacked, Backed

(* The claimed job was queued, so nobody believed in it, and the rows the   *)
(* claim writes say what its worker is told.                                *)
LEMMA ClaimInvariant ==
  ASSUME IInv, NEW w \in Workers, Claim(w)
  PROVE  IInv'
  <1> PICK j \in Jobs, s \in FreeSlots :
          /\ Claimable(j)
          /\ job' = [job EXCEPT ![j].state = "running"]
          /\ dispatch' = [dispatch EXCEPT ![j] =
                 [state |-> "active", owner |-> w, left |-> TTL]]
          /\ slot' = [slot EXCEPT ![s] =
                 [state |-> "active", job |-> j, left |-> TTL, token |-> @.token + 1]]
          /\ claim' = [claim EXCEPT ![j] = "active"]
          /\ worker' = [worker EXCEPT ![w] = Granted(j, s)] \/ UNCHANGED worker
    BY DEF Claim
  <1>1. s \in Slots /\ slot[s] \in SlotLease /\ job[j] \in Job
    BY DEF FreeSlots, Slots, IInv, TypeOK
  <1>2. /\ [job[j] EXCEPT !.state = "running"] \in Job
        /\ job' = [job EXCEPT ![j] = [job[j] EXCEPT !.state = "running"]]
    BY <1>1 DEF Job, JobState
  <1>3. [state |-> "active", owner |-> w, left |-> TTL] \in DispatchLease
    BY DEF DispatchLease, LeaseState
  <1>4. [state |-> "active", job |-> j, left |-> TTL, token |-> slot[s].token + 1] \in SlotLease
    BY <1>1 DEF SlotLease, LeaseState
  <1>5. /\ Granted(j, s) \in Worker
        /\ Granted(j, s).job = j /\ Granted(j, s).slot = s /\ Granted(j, s).left = TTL
        /\ Granted(j, s).phase = "handling"
    BY <1>1 DEF Granted, Worker, IdleWorker, SlotLease
  <1>6. TypeOK'
    <2>1. /\ job' \in [Jobs -> Job]
          /\ dispatch' \in [Jobs -> DispatchLease]
          /\ claim' \in [Jobs -> {"none", "active", "released", "expired"}]
      BY <1>1, <1>2, <1>3 DEF IInv, TypeOK
    <2>2. slot' \in [Slots -> SlotLease]
      BY <1>1, <1>4 DEF IInv, TypeOK
    <2>3. worker' \in [Workers -> Worker] /\ capacity' \in Slots
      BY <1>5 DEF Claim, IInv, TypeOK
    <2>4. QED
      BY <2>1, <2>2, <2>3 DEF TypeOK
  <1>7. /\ job[j].state = "queued"
        /\ job'[j].state = "running"
        /\ job'[j].leaseLost = job[j].leaseLost
        /\ \A k \in Jobs \ {j} : job'[k] = job[k]
    BY <1>1, <1>2 DEF Claimable, Job, IInv, TypeOK
  <1>8. /\ claim'[j] = "active"
        /\ \A k \in Jobs \ {j} : claim'[k] = claim[k] /\ dispatch'[k] = dispatch[k]
    BY DEF IInv, TypeOK
  <1>9. ClaimsAreRunning'
    BY <1>7, <1>8 DEF IInv, ClaimsAreRunning
  <1>10. SlotsAreClaimed'
    BY <1>1, <1>8 DEF IInv, TypeOK, SlotsAreClaimed
  <1>11. BusyWorkersHaveJobs'
    BY <1>1, <1>5 DEF IInv, TypeOK, BusyWorkersHaveJobs
  <1>12. \A v \in Workers : Backed(worker[v], v) => Backed(worker[v], v)'
         \/ worker'[v] # worker[v]
    <2>1. SUFFICES ASSUME NEW v \in Workers, worker'[v] = worker[v], Backed(worker[v], v),
                          worker[v].phase # "idle", worker[v].left > 0
                   PROVE  worker[v].job \in Jobs \ {j}
      BY <1>8 DEF Backed
    <2>2. QED
      BY <1>7, <2>1 DEF Backed, IInv, BusyWorkersHaveJobs, ClaimsAreRunning
  <1>13. BeliefIsBacked'
    <2>1. SUFFICES ASSUME NEW v \in Workers PROVE Backed(worker[v], v)'
      BY DEF BeliefIsBacked
    <2>2. CASE worker'[v] = worker[v]
      BY <1>12, <2>2 DEF IInv, BeliefIsBacked
    <2>3. CASE worker'[v] # worker[v]
      <3>1. v = w /\ worker'[v] = Granted(j, s)
        BY <2>3 DEF IInv, TypeOK
      <3>2. dispatch'[j] = [state |-> "active", owner |-> w, left |-> TTL]
        BY DEF IInv, TypeOK
      <3>3. QED
        BY <1>5, <3>1, <3>2 DEF Backed
    <2>4. QED
      BY <2>2, <2>3
  <1>14. QED
    BY <1>6, <1>9, <1>10, <1>11, <1>13 DEF IInv

(* A renewal moves the row and the worker's copy together, or only the row. *)
LEMMA RenewDispatchInvariant ==
  ASSUME IInv, NEW w \in Workers, RenewDispatch(w)
  PROVE  IInv'
  <1> DEFINE j == worker[w].job
  <1>1. worker[w].phase # "idle"
    BY DEF RenewDispatch, Beats
  <1>2. /\ worker[w] \in Worker
        /\ j \in Jobs /\ worker[w].slot \in Slots
        /\ dispatch[j] \in DispatchLease
        /\ Backed(worker[w], w)
    BY <1>1, BusyFacts DEF Held
  <1>3. /\ dispatch[j].state = "active" /\ dispatch[j].owner = w
    BY <1>1, <1>2 DEF RenewDispatch, Backed
  <1>4. /\ dispatch' = [dispatch EXCEPT ![j] = [dispatch[j] EXCEPT !.left = TTL]]
        /\ [dispatch[j] EXCEPT !.left = TTL] \in DispatchLease
    BY <1>2 DEF RenewDispatch, DispatchLease, IInv, TypeOK
  <1>5. PICK self \in Worker :
          /\ worker' = [worker EXCEPT ![w] = self]
          /\ self.job = j /\ self.slot = worker[w].slot
          /\ self.left \in {TTL, worker[w].left}
    <2>1. CASE worker' = [worker EXCEPT ![w].left = TTL, ![w].phase = "beating"]
      <3> DEFINE a == [worker[w] EXCEPT !.left = TTL]
                 b == [a EXCEPT !.phase = "beating"]
      <3>0. TTL \in 0 .. TTL
        OBVIOUS
      <3>0a. a \in Worker /\ a.job = j /\ a.slot = worker[w].slot /\ a.left = TTL
        BY <1>2, <3>0 DEF Worker
      <3>1. b \in Worker /\ b.job = j /\ b.slot = worker[w].slot /\ b.left = TTL
        <4> HIDE DEF a
        <4> QED
          BY <3>0a DEF Worker
      <3>2. worker' = [worker EXCEPT ![w] = b]
        BY <2>1 DEF IInv, TypeOK
      <3> HIDE DEF b
      <3>3. QED
        BY <3>1, <3>2
    <2>2. CASE worker' = [worker EXCEPT ![w].synced = FALSE]
      <3>1. [worker[w] EXCEPT !.synced = FALSE] \in Worker
        BY <1>2 DEF Worker
      <3>2. worker' = [worker EXCEPT ![w] = [worker[w] EXCEPT !.synced = FALSE]]
        BY <2>2 DEF IInv, TypeOK
      <3>3. QED
        BY <1>2, <3>1, <3>2 DEF Worker
    <2>3. QED
      BY <2>1, <2>2 DEF RenewDispatch
  <1>6. TypeOK'
    BY <1>2, <1>4, <1>5 DEF RenewDispatch, IInv, TypeOK
  <1>7. /\ dispatch'[j].state = "active" /\ dispatch'[j].owner = w /\ dispatch'[j].left = TTL
        /\ \A k \in Jobs \ {j} : dispatch'[k] = dispatch[k]
    BY <1>2, <1>3, <1>4 DEF DispatchLease, IInv, TypeOK
  <1>8. ClaimsAreRunning' /\ SlotsAreClaimed'
    BY <1>3, <1>7 DEF RenewDispatch, IInv, ClaimsAreRunning, SlotsAreClaimed
  <1>9. BusyWorkersHaveJobs'
    BY <1>2, <1>5 DEF IInv, TypeOK, BusyWorkersHaveJobs
  <1>10. BeliefIsBacked'
    <2>1. SUFFICES ASSUME NEW v \in Workers, worker'[v].phase # "idle", worker'[v].left > 0
                   PROVE  /\ dispatch'[worker'[v].job].state = "active"
                          /\ dispatch'[worker'[v].job].owner = v
                          /\ dispatch'[worker'[v].job].left >= worker'[v].left
      BY DEF BeliefIsBacked, Backed
    <2>2. CASE v = w
      BY <1>2, <1>5, <1>7, <2>2 DEF Worker, IInv, TypeOK
    <2>3. CASE v # w
      <3>1. worker'[v] = worker[v] /\ worker[v] \in Worker /\ worker[v].job \in Jobs
        BY <1>5, <2>1, <2>3 DEF IInv, TypeOK, BusyWorkersHaveJobs
      <3>2. /\ dispatch[worker[v].job].state = "active"
            /\ dispatch[worker[v].job].owner = v
            /\ dispatch[worker[v].job].left >= worker[v].left
        BY <2>1, <3>1 DEF IInv, BeliefIsBacked, Backed
      <3>3. worker[v].job # j
        BY <1>3, <2>3, <3>2
      <3>4. QED
        BY <1>7, <3>1, <3>2, <3>3
    <2>4. QED
      BY <2>2, <2>3
  <1>11. QED
    BY <1>6, <1>8, <1>9, <1>10 DEF IInv

(* The three ends of a capacity heartbeat replace one capacity lease at     *)
(* most, and none of them activates one.                                    *)
LEMMA RenewSlotInvariant ==
  ASSUME IInv, NEW w \in Workers, RenewSlot(w) \/ SlotRefused(w) \/ SlotStoreTransient(w)
  PROVE  IInv'
  <1> DEFINE s == worker[w].slot
  <1>1. worker[w].phase # "idle"
    BY DEF RenewSlot, SlotRefused, SlotStoreTransient
  <1>2. /\ worker[w] \in Worker
        /\ worker[w].job \in Jobs /\ s \in Slots
        /\ slot[s] \in SlotLease
        /\ Backed(worker[w], w)
    BY <1>1, BusyFacts DEF HeldSlot
  <1>3. PICK self \in Worker :
          /\ worker' = [worker EXCEPT ![w] = self]
          /\ self.job = worker[w].job /\ self.slot = s
          /\ self.left \in {0, worker[w].left}
    <2> DEFINE a == [worker[w] EXCEPT !.phase = "handling"]
               b == [worker[w] EXCEPT !.phase = "handling", !.slotSynced = FALSE]
               c == Lost(worker[w])
    <2>1. a \in Worker /\ b \in Worker /\ c \in Worker
      BY <1>1, <1>2, LostWorker DEF Worker
    <2>2. /\ a.job = worker[w].job /\ a.slot = s /\ a.left = worker[w].left
          /\ b.job = worker[w].job /\ b.slot = s /\ b.left = worker[w].left
      BY <1>2 DEF Worker
    <2>2a. c.job = worker[w].job /\ c.slot = s /\ c.left = 0
      BY DEF Lost
    <2>3. worker' \in {[worker EXCEPT ![w] = x] : x \in {a, b, c}}
      BY DEF RenewSlot, SlotRefused, SlotStoreTransient, IInv, TypeOK
    <2>4. QED
      BY <2>1, <2>2, <2>2a, <2>3
  <1>4. PICK row \in SlotLease :
          /\ slot' = [slot EXCEPT ![s] = row]
          /\ row.job = slot[s].job
          /\ row.state = "active" => slot[s].state = "active"
    <2>1. CASE slot' = slot
      BY <1>2, <2>1 DEF IInv, TypeOK
    <2>2. CASE slot' # slot
      <3> DEFINE a == [slot[s] EXCEPT !.left = TTL]
                 b == Closed(slot[s], "expired")
      <3>0. TTL \in 0 .. TTL
        OBVIOUS
      <3>1. a \in SlotLease /\ a.job = slot[s].job /\ a.state = slot[s].state
        BY <1>2, <3>0 DEF SlotLease
      <3>2. b \in SlotLease /\ b.job = slot[s].job /\ b.state = "expired"
        BY <1>2, ClosedRow
      <3>3. slot' = [slot EXCEPT ![s] = a] \/ slot' = [slot EXCEPT ![s] = b]
        BY <2>2 DEF RenewSlot, SlotRefused, SlotStoreTransient, IInv, TypeOK
      <3>4. QED
        BY <3>1, <3>2, <3>3
    <2>3. QED
      BY <2>1, <2>2
  <1>5. UNCHANGED <<job, dispatch, claim, capacity>>
    BY DEF RenewSlot, SlotRefused, SlotStoreTransient
  <1>6. TypeOK'
    BY <1>3, <1>4, <1>5 DEF IInv, TypeOK
  <1>7. ClaimsAreRunning'
    BY <1>5 DEF IInv, ClaimsAreRunning
  <1>8. SlotsAreClaimed'
    BY <1>2, <1>4, <1>5 DEF IInv, TypeOK, SlotsAreClaimed
  <1>9. BusyWorkersHaveJobs'
    BY <1>2, <1>3 DEF IInv, TypeOK, BusyWorkersHaveJobs
  <1>10. BeliefIsBacked'
    BY <1>1, <1>2, <1>3, <1>5 DEF IInv, TypeOK, BeliefIsBacked, Backed, Worker
  <1>11. QED
    BY <1>6, <1>7, <1>8, <1>9, <1>10 DEF IInv

(* A refresh copies a row in force or gives the guard up.                   *)
LEMMA RefreshInvariant ==
  ASSUME IInv, NEW w \in Workers, RefreshLeases(w)
  PROVE  IInv'
  <1>1. worker[w].phase # "idle"
    BY DEF RefreshLeases, Beats
  <1>2. /\ worker[w] \in Worker
        /\ worker[w].job \in Jobs /\ worker[w].slot \in Slots
        /\ Held(w) \in DispatchLease
    BY <1>1, BusyFacts
  <1>3. CASE DispatchStillMine(w) /\ SlotStillMine(w)
    <2> DEFINE self == [worker[w] EXCEPT !.left = Held(w).left, !.synced = TRUE, !.slotSynced = TRUE]
    <2>1. /\ self \in Worker
          /\ self.job = worker[w].job /\ self.slot = worker[w].slot
          /\ self.left = Held(w).left
      BY <1>2 DEF Worker, DispatchLease
    <2>2. worker' = [worker EXCEPT ![w] = self]
      BY <1>3 DEF RefreshLeases, IInv, TypeOK
    <2>3. Backed(self, w)
      BY <1>2, <1>3, <2>1 DEF Backed, DispatchStillMine, Held, Live, DispatchLease
    <2> HIDE DEF self
    <2>4. QED
      BY <1>2, <2>1, <2>2, <2>3, MemoryStep DEF RefreshLeases
  <1>4. CASE ~(DispatchStillMine(w) /\ SlotStillMine(w))
    <2>1. worker' = [worker EXCEPT ![w] = Lost(worker[w])]
      BY <1>4 DEF RefreshLeases, IInv, TypeOK
    <2>2. Backed(Lost(worker[w]), w)
      BY <1>1, LostWorker DEF Backed
    <2>3. QED
      BY <1>1, <2>1, <2>2, LostWorker, MemoryStep DEF RefreshLeases
  <1>5. QED
    BY <1>3, <1>4

(* A lost guard believes nothing; the row it may mark had lapsed, so nobody *)
(* else believed in it.                                                     *)
LEMMA LoseGuardInvariant ==
  ASSUME IInv, NEW w \in Workers, LoseGuard(w)
  PROVE  IInv'
  <1> DEFINE j == worker[w].job
  <1>1. worker[w].phase # "idle"
    BY DEF LoseGuard, Beats
  <1>2. worker' = [worker EXCEPT ![w] = Lost(worker[w])]
    BY DEF LoseGuard, IInv, TypeOK
  <1>3. Backed(Lost(worker[w]), w)
    BY <1>1, LostWorker DEF Backed
  <1>4. CASE UNCHANGED dispatch
    BY <1>1, <1>2, <1>3, <1>4, LostWorker, MemoryStep DEF LoseGuard
  <1>5. CASE /\ dispatch[j].state = "active" /\ dispatch[j].left = 0
             /\ dispatch' = [dispatch EXCEPT ![j] = Closed(dispatch[j], "expired")]
    <2>1. j \in Jobs /\ dispatch[j] \in DispatchLease
      BY <1>1, BusyFacts DEF Held
    <2>2. /\ Closed(dispatch[j], "expired") \in DispatchLease
          /\ Closed(dispatch[j], "expired").state = "expired"
      BY <2>1, ClosedRow
    <2>3. /\ \A k \in Jobs \ {j} : dispatch'[k] = dispatch[k]
          /\ dispatch'[j].state = "expired"
      BY <1>5, <2>1, <2>2 DEF IInv, TypeOK
    <2>4. TypeOK'
      BY <1>1, <1>2, <1>5, <2>1, <2>2, LostWorker DEF LoseGuard, IInv, TypeOK
    <2>5. ClaimsAreRunning' /\ SlotsAreClaimed'
      BY <2>3 DEF LoseGuard, IInv, ClaimsAreRunning, SlotsAreClaimed
    <2>6. BusyWorkersHaveJobs'
      BY <1>1, <1>2, LostWorker DEF IInv, TypeOK, BusyWorkersHaveJobs
    <2>7. BeliefIsBacked'
      <3>1. SUFFICES ASSUME NEW v \in Workers,
                            worker'[v].phase # "idle", worker'[v].left > 0
                     PROVE  Backed(worker[v], v)'
        BY DEF BeliefIsBacked, Backed
      <3>2. v # w
        BY <1>1, <1>2, <3>1, LostWorker DEF IInv, TypeOK
      <3>3. worker'[v] = worker[v] /\ worker[v] \in Worker
        BY <1>2, <3>2 DEF IInv, TypeOK
      <3>4. Backed(worker[v], v) /\ worker[v].job \in Jobs
        BY <3>1, <3>3 DEF IInv, BeliefIsBacked, BusyWorkersHaveJobs
      <3>5. worker[v].job # j
        BY <1>5, <3>1, <3>3, <3>4 DEF Backed, Worker
      <3>6. QED
        BY <2>3, <3>3, <3>4, <3>5 DEF Backed
    <2>8. QED
      BY <2>4, <2>5, <2>6, <2>7 DEF IInv
  <1>6. QED
    BY <1>4, <1>5 DEF LoseGuard, Held, IInv, TypeOK

(* A fenced write counts an effect.                                         *)
LEMMA WriteInvariant ==
  ASSUME IInv, NEW w \in Workers, HandlerWrites(w)
  PROVE  IInv'
  <1> DEFINE j == worker[w].job
             row == [job[j] EXCEPT !.effects = @ + 1]
  <1>1. j \in Jobs /\ job[j] \in Job
    BY BusyFacts DEF HandlerWrites, IInv, TypeOK
  <1>2. job' = [job EXCEPT ![j] = row] /\ job[j].effects < MaxEffects
    BY DEF HandlerWrites, IInv, TypeOK
  <1>3. row \in Job /\ row.state = job[j].state /\ row.leaseLost = job[j].leaseLost
    BY <1>1, <1>2 DEF Job
  <1> HIDE DEF row
  <1>4. TypeOK'
    BY <1>1, <1>2, <1>3 DEF HandlerWrites, IInv, TypeOK
  <1>5. ClaimsAreRunning'
    BY <1>1, <1>2, <1>3 DEF HandlerWrites, IInv, TypeOK, ClaimsAreRunning
  <1>6. SlotsAreClaimed' /\ BusyWorkersHaveJobs' /\ BeliefIsBacked'
    BY DEF HandlerWrites, IInv, SlotsAreClaimed, BusyWorkersHaveJobs, BeliefIsBacked, Backed
  <1>7. QED
    BY <1>4, <1>5, <1>6 DEF IInv

(* A worker that goes idle, or that carries its belief into completion.     *)
LEMMA EndInvariant ==
  ASSUME IInv, NEW w \in Workers, HandlerReturns(w) \/ TransitionFails(w) \/ Crash(w)
  PROVE  IInv'
  <1>1. worker[w].phase # "idle"
    BY DEF HandlerReturns, TransitionFails, Crash
  <1>2. UNCHANGED <<job, dispatch, claim, slot, capacity>>
    BY DEF HandlerReturns, TransitionFails, Crash
  <1>3. CASE worker' = [worker EXCEPT ![w] = IdleWorker]
    BY <1>2, <1>3, IdleIsBacked, MemoryStep
  <1>4. CASE worker' # [worker EXCEPT ![w] = IdleWorker]
    <2> DEFINE a == [worker[w] EXCEPT !.phase = "completing"]
               self == [a EXCEPT !.synced = TRUE, !.slotSynced = TRUE]
    <2>1. worker' = [worker EXCEPT ![w] = self]
      BY <1>4 DEF HandlerReturns, TransitionFails, Crash, IInv, TypeOK
    <2>2. /\ worker[w] \in Worker /\ worker[w].job \in Jobs /\ worker[w].slot \in Slots
          /\ Backed(worker[w], w)
      BY <1>1, BusyFacts
    <2>3. a \in Worker /\ a.job = worker[w].job /\ a.slot = worker[w].slot /\ a.left = worker[w].left
      BY <2>2 DEF Worker
    <2> HIDE DEF a
    <2>4. /\ self \in Worker /\ self.job = worker[w].job
          /\ self.slot = worker[w].slot /\ self.left = worker[w].left
      BY <2>3 DEF Worker
    <2> HIDE DEF self
    <2>5. Backed(self, w)
      BY <1>1, <2>2, <2>4 DEF Backed
    <2>6. QED
      BY <1>2, <2>1, <2>2, <2>4, <2>5, MemoryStep
  <1>5. QED
    BY <1>3, <1>4

(* Leases released with their jobs: the rows stay rows, no lease of the     *)
(* jobs released is left active, and no other is touched.                   *)
LEMMA ReleaseFacts ==
  ASSUME IInv, NEW S \in SUBSET Jobs
  PROVE  /\ ReleasedDispatch(S) \in [Jobs -> DispatchLease]
         /\ ClosedDispatch(S) \in [Jobs -> DispatchLease]
         /\ \A j \in Jobs \ S : /\ ReleasedDispatch(S)[j] = dispatch[j]
                               /\ ClosedDispatch(S)[j] = dispatch[j]
         /\ \A j \in S : /\ ReleasedDispatch(S)[j].state # "active"
                         /\ ClosedDispatch(S)[j].state # "active"
         /\ ReleasedSlots(S) \in [Slots -> SlotLease]
         /\ \A s \in Slots :
               ReleasedSlots(S)[s].state = "active" =>
                  ReleasedSlots(S)[s] = slot[s] /\ slot[s].job \notin S
  <1>1. \A j \in Jobs : dispatch[j] \in DispatchLease
    BY DEF IInv, TypeOK
  <1>2. \A s \in Slots : slot[s] \in SlotLease
    BY DEF IInv, TypeOK
  <1>3. \A j \in Jobs :
           /\ Closed(dispatch[j], "released") \in DispatchLease
           /\ Closed(dispatch[j], "released").state = "released"
           /\ Closed(dispatch[j], "expired") \in DispatchLease
           /\ Closed(dispatch[j], "expired").state = "expired"
    BY <1>1, ClosedRow
  <1>4. \A s \in Slots :
           /\ Closed(slot[s], "released") \in SlotLease
           /\ Closed(slot[s], "released").state = "released"
    BY <1>2, ClosedRow
  <1>5. /\ ReleasedDispatch(S) \in [Jobs -> DispatchLease]
        /\ ClosedDispatch(S) \in [Jobs -> DispatchLease]
    BY <1>1, <1>3 DEF ReleasedDispatch, ClosedDispatch
  <1>6. ReleasedSlots(S) \in [Slots -> SlotLease]
    BY <1>2, <1>4 DEF ReleasedSlots
  <1>7. /\ \A j \in Jobs \ S : /\ ReleasedDispatch(S)[j] = dispatch[j]
                              /\ ClosedDispatch(S)[j] = dispatch[j]
        /\ \A j \in S : /\ ReleasedDispatch(S)[j].state # "active"
                        /\ ClosedDispatch(S)[j].state # "active"
    BY <1>3 DEF ReleasedDispatch, ClosedDispatch
  <1>8. \A s \in Slots :
           ReleasedSlots(S)[s].state = "active" =>
              ReleasedSlots(S)[s] = slot[s] /\ slot[s].job \notin S
    BY <1>4 DEF ReleasedSlots
  <1>9. QED
    BY <1>5, <1>6, <1>7, <1>8

(* A step that ends the deliveries of S and leaves every worker that still  *)
(* believes in another job alone.                                           *)
LEMMA EndOfDeliveries ==
  ASSUME IInv, NEW S \in SUBSET Jobs,
         job' \in [Jobs -> Job],
         dispatch' \in {ReleasedDispatch(S), ClosedDispatch(S)},
         slot' = ReleasedSlots(S),
         claim' \in [Jobs -> {"none", "active", "released", "expired"}],
         UNCHANGED capacity,
         worker' \in [Workers -> Worker],
         \A j \in S : /\ claim'[j] # "active"
                      /\ job'[j].leaseLost => job'[j].state = "in_doubt",
         \A j \in Jobs \ S : job'[j] = job[j] /\ claim'[j] = claim[j],
         \A v \in Workers :
            worker'[v].phase # "idle" =>
               /\ worker'[v] = worker[v]
               /\ worker[v].left > 0 => worker[v].job \notin S
  PROVE  IInv'
  <1>1. TypeOK'
    BY ReleaseFacts DEF IInv, TypeOK
  <1>2. /\ \A j \in Jobs \ S : dispatch'[j] = dispatch[j]
        /\ \A j \in S : dispatch'[j].state # "active"
    BY ReleaseFacts
  <1>3. ClaimsAreRunning'
    BY <1>2 DEF IInv, ClaimsAreRunning
  <1>4. SlotsAreClaimed'
    BY ReleaseFacts DEF IInv, SlotsAreClaimed
  <1>5. BusyWorkersHaveJobs'
    BY DEF IInv, BusyWorkersHaveJobs
  <1>6. BeliefIsBacked'
    <2>1. SUFFICES ASSUME NEW v \in Workers,
                          worker'[v].phase # "idle", worker'[v].left > 0
                   PROVE  Backed(worker[v], v)'
      BY DEF BeliefIsBacked, Backed
    <2>2. worker'[v] = worker[v] /\ worker[v].job \in Jobs \ S /\ Backed(worker[v], v)
      BY <2>1 DEF IInv, BusyWorkersHaveJobs, BeliefIsBacked
    <2>3. QED
      BY <1>2, <2>2 DEF Backed
  <1>7. QED
    BY <1>1, <1>3, <1>4, <1>5, <1>6 DEF IInv

(* An outcome ends the delivery of one job; only the worker that owns the   *)
(* dispatch lease could believe in it, and that worker goes idle.           *)
LEMMA TransitionInvariant ==
  ASSUME IInv, NEW w \in Workers, NEW outcome \in Outcomes, TransitionDurableJob(w, outcome)
  PROVE  IInv'
  <1> DEFINE j == worker[w].job
             row == [job[j] EXCEPT !.state = outcome]
  <1>1. worker[w].phase = "completing" /\ j \in Jobs /\ job[j] \in Job
    BY BusyFacts DEF TransitionDurableJob, IInv, TypeOK
  <1>2. /\ job' = [job EXCEPT ![j] = row]
        /\ job[j].state = "running"
        /\ dispatch[j].state = "active" /\ dispatch[j].owner = w
        /\ dispatch' = ReleasedDispatch({j})
        /\ slot' = ReleasedSlots({j})
        /\ claim' = [claim EXCEPT ![j] = "released"]
        /\ worker' = [worker EXCEPT ![w] = IdleWorker]
        /\ UNCHANGED capacity
    BY DEF TransitionDurableJob, FenceHolds, DispatchStillMine, Held, Live, IInv, TypeOK
  <1>3. outcome \in JobState
    BY DEF JobState, DeliveryFinal
  <1>4. row \in Job /\ ~row.leaseLost
    BY <1>1, <1>2, <1>3 DEF Job, IInv, ClaimsAreRunning
  <1> HIDE DEF row
  <1>5. /\ job' \in [Jobs -> Job]
        /\ ~job'[j].leaseLost
        /\ \A k \in Jobs \ {j} : job'[k] = job[k]
    BY <1>1, <1>2, <1>4 DEF IInv, TypeOK
  <1>6. /\ claim' \in [Jobs -> {"none", "active", "released", "expired"}]
        /\ claim'[j] # "active"
        /\ \A k \in Jobs \ {j} : claim'[k] = claim[k]
    BY <1>1, <1>2 DEF IInv, TypeOK
  <1>7. worker' \in [Workers -> Worker]
    BY <1>2, IdleIsBacked DEF IInv, TypeOK
  <1>8. ASSUME NEW v \in Workers, worker'[v].phase # "idle"
        PROVE  /\ worker'[v] = worker[v]
               /\ worker[v].left > 0 => worker[v].job # j
    <2>1. v # w /\ worker'[v] = worker[v]
      BY <1>2, <1>8, IdleIsBacked DEF IInv, TypeOK
    <2>2. Backed(worker[v], v)
      BY DEF IInv, BeliefIsBacked
    <2>3. QED
      BY <1>2, <1>8, <2>1, <2>2 DEF Backed
  <1>9. QED
    BY <1>1, <1>2, <1>5, <1>6, <1>7, <1>8, EndOfDeliveries

(* A scan ends the deliveries of suspects; nobody believes in a job whose   *)
(* lease is not in force.                                                   *)
LEMMA ScanInvariant ==
  ASSUME IInv, ScanExpiredDurableJobs
  PROVE  IInv'
  <1>1. Suspects \in SUBSET Jobs
    BY DEF Suspects
  <1>2. ASSUME NEW j \in Jobs
        PROVE  /\ job'[j] \in Job
               /\ job'[j].leaseLost => job'[j].state = "in_doubt"
               /\ j \notin Suspects => job'[j] = job[j]
    <2> DEFINE a == [job[j] EXCEPT !.state = "in_doubt"]
               b == [a EXCEPT !.leaseLost = TRUE]
    <2>1. job[j] \in Job /\ (job[j].leaseLost => job[j].state = "in_doubt")
      BY DEF IInv, TypeOK, ClaimsAreRunning
    <2>2. "in_doubt" \in JobState
      BY DEF JobState, DeliveryFinal
    <2>3. a \in Job /\ a.state = "in_doubt"
      BY <2>1, <2>2 DEF Job
    <2>4. job'[j] \in {job[j], b} /\ (j \notin Suspects => job'[j] = job[j])
      BY DEF ScanExpiredDurableJobs
    <2> HIDE DEF a
    <2>5. b \in Job /\ b.state = "in_doubt"
      BY <2>3 DEF Job
    <2>6. QED
      BY <2>1, <2>4, <2>5
  <1>3. job' \in [Jobs -> Job]
    <2>1. job' = [j \in Jobs |-> job'[j]]
      BY DEF ScanExpiredDurableJobs
    <2>2. QED
      BY <1>2, <2>1
  <1>4. /\ claim' \in [Jobs -> {"none", "active", "released", "expired"}]
        /\ \A j \in Suspects : claim'[j] # "active"
        /\ \A j \in Jobs \ Suspects : claim'[j] = claim[j]
    BY <1>1 DEF ScanExpiredDurableJobs, IInv, TypeOK
  <1>5. ASSUME NEW v \in Workers, worker[v].phase # "idle", worker[v].left > 0
        PROVE  worker[v].job \notin Suspects
    BY <1>5, BusyFacts DEF Suspects, Live, Backed, Held, Worker, DispatchLease
  <1>6. /\ dispatch' = ClosedDispatch(Suspects)
        /\ slot' = ReleasedSlots(Suspects)
        /\ UNCHANGED <<capacity, worker>>
        /\ worker' \in [Workers -> Worker]
    BY DEF ScanExpiredDurableJobs, IInv, TypeOK
  <1>7. QED
    BY <1>1, <1>2, <1>3, <1>4, <1>5, <1>6, EndOfDeliveries

(* A job in doubt has no claim any more, so nobody believes in it.          *)
LEMMA SettleInvariant ==
  ASSUME IInv, NEW j \in Jobs, SettleInDoubtDurableJob(j)
  PROVE  IInv'
  <1> DEFINE a == [job[j] EXCEPT !.state = "interrupted"]
             b == [a EXCEPT !.leaseLost = FALSE]
  <1>1. /\ job[j] \in Job /\ job[j].state = "in_doubt"
        /\ claim[j] # "active" /\ dispatch[j].state # "active"
    BY DEF SettleInDoubtDurableJob, Settleable, IInv, TypeOK, ClaimsAreRunning
  <1>2. job' = [job EXCEPT ![j] = b]
    BY DEF SettleInDoubtDurableJob, IInv, TypeOK
  <1>3. "interrupted" \in JobState
    BY DEF JobState, DeliveryFinal
  <1>4. a \in Job
    BY <1>1, <1>3 DEF Job
  <1> HIDE DEF a
  <1>5. b \in Job /\ ~b.leaseLost
    BY <1>4 DEF Job
  <1> HIDE DEF b
  <1>6. /\ job' \in [Jobs -> Job]
        /\ ~job'[j].leaseLost
        /\ \A k \in Jobs \ {j} : job'[k] = job[k]
    BY <1>2, <1>5 DEF IInv, TypeOK
  <1>7. claim' = claim
    BY <1>1 DEF SettleInDoubtDurableJob, IInv, TypeOK
  <1>8. ASSUME NEW v \in Workers, worker[v].phase # "idle", worker[v].left > 0
        PROVE  worker[v].job # j
    BY <1>1, <1>8, BusyFacts DEF Backed
  <1>9. /\ dispatch' = ReleasedDispatch({j})
        /\ slot' = ReleasedSlots({j})
        /\ UNCHANGED <<capacity, worker>>
        /\ worker' \in [Workers -> Worker]
        /\ claim' \in [Jobs -> {"none", "active", "released", "expired"}]
    BY <1>7 DEF SettleInDoubtDurableJob, IInv, TypeOK
  <1>10. QED
    BY <1>1, <1>6, <1>7, <1>8, <1>9, EndOfDeliveries

(* A step of the clock or of the expiry pass, for all rows at once: no row  *)
(* changes hands, and a row that stays active loses no more time than the   *)
(* workers that count on it.                                                *)
LEMMA AgeingStep ==
  ASSUME IInv, UNCHANGED <<job, claim, capacity>>,
         dispatch' \in [Jobs -> DispatchLease],
         slot' \in [Slots -> SlotLease],
         worker' \in [Workers -> Worker],
         \A j \in Jobs : dispatch'[j].state = "active" => dispatch[j].state = "active",
         \A s \in Slots :
            slot'[s].state = "active" => slot[s].state = "active" /\ slot'[s].job = slot[s].job,
         \A v \in Workers :
            worker'[v].phase # "idle" =>
               /\ worker[v].phase # "idle"
               /\ worker'[v].job = worker[v].job /\ worker'[v].slot = worker[v].slot,
         \A v \in Workers : Backed(worker[v], v) => Backed(worker[v], v)'
  PROVE  IInv'
  <1>1. TypeOK'
    BY DEF IInv, TypeOK
  <1>2. ClaimsAreRunning' /\ SlotsAreClaimed'
    BY DEF IInv, ClaimsAreRunning, SlotsAreClaimed
  <1>3. BusyWorkersHaveJobs'
    BY DEF IInv, BusyWorkersHaveJobs
  <1>4. BeliefIsBacked'
    BY DEF IInv, BeliefIsBacked
  <1>5. QED
    BY <1>1, <1>2, <1>3, <1>4 DEF IInv

(* The expiry pass closes rows without time left.                           *)
LEMMA ExpireInvariant ==
  ASSUME IInv, ExpireLeases
  PROVE  IInv'
  <1> DEFINE Mark(lease) == IF lease.state = "active" /\ lease.left = 0
                            THEN Closed(lease, "expired") ELSE lease
  <1>1. /\ dispatch' = [j \in Jobs |-> Mark(dispatch[j])]
        /\ slot' = [s \in Slots |-> Mark(slot[s])]
        /\ UNCHANGED <<job, claim, capacity, worker>>
    BY DEF ExpireLeases
  <1>2. ASSUME NEW j \in Jobs
        PROVE  /\ Mark(dispatch[j]) \in DispatchLease
               /\ Mark(dispatch[j]).state = "active" => Mark(dispatch[j]) = dispatch[j]
               /\ dispatch[j].left # 0 => Mark(dispatch[j]) = dispatch[j]
    <2>1. dispatch[j] \in DispatchLease
      BY DEF IInv, TypeOK
    <2>2. QED
      BY <2>1, ClosedRow
  <1>3. ASSUME NEW s \in Slots
        PROVE  /\ Mark(slot[s]) \in SlotLease
               /\ Mark(slot[s]).state = "active" => Mark(slot[s]) = slot[s]
    <2>1. slot[s] \in SlotLease
      BY DEF IInv, TypeOK
    <2>2. QED
      BY <2>1, ClosedRow
  <1> HIDE DEF Mark
  <1>4. dispatch' \in [Jobs -> DispatchLease] /\ slot' \in [Slots -> SlotLease]
    BY <1>1, <1>2, <1>3
  <1>5. ASSUME NEW v \in Workers, Backed(worker[v], v)
        PROVE  Backed(worker[v], v)'
    <2>1. SUFFICES ASSUME worker[v].phase # "idle", worker[v].left > 0
                   PROVE  Backed(worker[v], v)'
      BY <1>1 DEF Backed
    <2>2. worker[v] \in Worker /\ worker[v].job \in Jobs /\ dispatch[worker[v].job] \in DispatchLease
      BY <2>1, BusyFacts DEF Held
    <2>3. dispatch'[worker[v].job] = dispatch[worker[v].job]
      BY <1>1, <1>2, <1>5, <2>1, <2>2 DEF Backed, Worker, DispatchLease
    <2>4. QED
      BY <1>1, <1>5, <2>3 DEF Backed
  <1>6. worker' \in [Workers -> Worker]
    BY <1>1 DEF IInv, TypeOK
  <1>7. QED
    BY <1>1, <1>2, <1>3, <1>4, <1>5, <1>6, AgeingStep

(* The remaining time of a lease after a tick.                              *)
LEMMA LessFacts ==
  ASSUME NEW n \in 0 .. TTL
  PROVE  /\ Less(n) \in 0 .. TTL /\ Less(n) <= n
         /\ Less(n) > 0 <=> n > 1
         /\ \A m \in 0 .. TTL : m <= n => Less(m) <= Less(n)
  BY DEF Less

(* A tick takes the same time from rows and from memories.                  *)
LEMMA TickInvariant ==
  ASSUME IInv, Tick
  PROVE  IInv'
  <1>1. ASSUME NEW j \in Jobs
        PROVE  /\ dispatch'[j] \in DispatchLease
               /\ dispatch'[j].state = dispatch[j].state
               /\ dispatch'[j].owner = dispatch[j].owner
               /\ dispatch'[j].left = Less(dispatch[j].left)
               /\ dispatch[j].left \in 0 .. TTL
    <2>1. dispatch[j] \in DispatchLease
      BY DEF IInv, TypeOK
    <2>2. dispatch[j].left \in 0 .. TTL
      BY <2>1 DEF DispatchLease
    <2>3. Less(dispatch[j].left) \in 0 .. TTL
      BY <2>2, LessFacts
    <2>4. dispatch'[j] = [dispatch[j] EXCEPT !.left = Less(dispatch[j].left)]
      BY DEF Tick
    <2>5. QED
      BY <2>1, <2>2, <2>3, <2>4 DEF DispatchLease
  <1>2. ASSUME NEW s \in Slots
        PROVE  /\ slot'[s] \in SlotLease
               /\ slot'[s].state = slot[s].state /\ slot'[s].job = slot[s].job
    <2>1. slot[s] \in SlotLease
      BY DEF IInv, TypeOK
    <2>2. Less(slot[s].left) \in 0 .. TTL
      BY <2>1, LessFacts DEF SlotLease
    <2>3. slot'[s] = [slot[s] EXCEPT !.left = Less(slot[s].left)]
      BY DEF Tick
    <2>4. QED
      BY <2>1, <2>2, <2>3 DEF SlotLease
  <1>3. ASSUME NEW v \in Workers
        PROVE  /\ worker'[v] \in Worker
               /\ worker'[v].phase = worker[v].phase
               /\ worker'[v].job = worker[v].job /\ worker'[v].slot = worker[v].slot
               /\ worker'[v].left = Less(worker[v].left)
               /\ worker[v].left \in 0 .. TTL
    <2>1. worker[v] \in Worker
      BY DEF IInv, TypeOK
    <2>2. worker[v].left \in 0 .. TTL
      BY <2>1 DEF Worker
    <2>3. Less(worker[v].left) \in 0 .. TTL
      BY <2>2, LessFacts
    <2>4. worker'[v] = [worker[v] EXCEPT !.left = Less(worker[v].left)]
      BY DEF Tick
    <2>5. QED
      BY <2>1, <2>2, <2>3, <2>4 DEF Worker
  <1>4. /\ dispatch' \in [Jobs -> DispatchLease]
        /\ slot' \in [Slots -> SlotLease]
        /\ worker' \in [Workers -> Worker]
    <2>1. /\ dispatch' = [j \in Jobs |-> dispatch'[j]]
          /\ slot' = [s \in Slots |-> slot'[s]]
          /\ worker' = [v \in Workers |-> worker'[v]]
      BY DEF Tick
    <2>2. QED
      BY <1>1, <1>2, <1>3, <2>1
  <1>5. ASSUME NEW v \in Workers, Backed(worker[v], v)
        PROVE  Backed(worker[v], v)'
    <2> DEFINE j == worker[v].job
    <2>1. SUFFICES ASSUME worker'[v].phase # "idle", worker'[v].left > 0
                   PROVE  /\ dispatch'[worker'[v].job].state = "active"
                          /\ dispatch'[worker'[v].job].owner = v
                          /\ dispatch'[worker'[v].job].left >= worker'[v].left
      BY DEF Backed
    <2>2. worker[v].phase # "idle" /\ worker[v].left > 0 /\ j \in Jobs
      BY <1>3, <2>1, BusyFacts, LessFacts
    <2>3. /\ dispatch[j].state = "active" /\ dispatch[j].owner = v
          /\ worker[v].left <= dispatch[j].left
      BY <1>1, <1>3, <1>5, <2>2 DEF Backed
    <2>4. Less(worker[v].left) <= Less(dispatch[j].left)
      BY <1>1, <1>3, <2>2, <2>3, LessFacts
    <2>5. Less(worker[v].left) \in 0 .. TTL /\ Less(dispatch[j].left) \in 0 .. TTL
      BY <1>1, <1>3, <2>2, LessFacts
    <2>6. QED
      BY <1>1, <1>3, <2>2, <2>3, <2>4, <2>5
  <1>6. UNCHANGED <<job, claim, capacity>>
    BY DEF Tick
  <1>7. QED
    BY <1>1, <1>2, <1>3, <1>4, <1>5, <1>6, AgeingStep

(* Every action keeps the invariant.                                        *)
LEMMA NextInvariant == IInv /\ [Next]_vars => IInv'
  <1> SUFFICES ASSUME IInv, [Next]_vars PROVE IInv'
    OBVIOUS
  <1>1. ASSUME NEW w \in Workers, Claim(w) PROVE IInv'
    BY <1>1, ClaimInvariant
  <1>2. ASSUME NEW w \in Workers, Beat(w) PROVE IInv'
    BY <1>2, RenewDispatchInvariant, RenewSlotInvariant, RefreshInvariant, LoseGuardInvariant
       DEF Beat
  <1>3. ASSUME NEW w \in Workers, HandlerWrites(w) PROVE IInv'
    BY <1>3, WriteInvariant
  <1>4. ASSUME NEW w \in Workers, Finish(w) \/ Crash(w) PROVE IInv'
    BY <1>4, EndInvariant, TransitionInvariant DEF Finish
  <1>5. ASSUME NEW j \in Jobs, CreateDurableJob(j) \/ SettleInDoubtDurableJob(j) PROVE IInv'
    BY <1>5, CreateInvariant, SettleInvariant
  <1>6. ASSUME NEW n \in Slots, ConfigureCapacityPool(n) PROVE IInv'
    BY <1>6, ConfigureInvariant
  <1>7. CASE ScanExpiredDurableJobs
    BY <1>7, ScanInvariant
  <1>8. CASE ExpireLeases
    BY <1>8, ExpireInvariant
  <1>9. CASE Tick
    BY <1>9, TickInvariant
  <1>10. CASE UNCHANGED vars
    BY <1>10 DEF vars, IInv, TypeOK, ClaimsAreRunning, SlotsAreClaimed,
       BusyWorkersHaveJobs, BeliefIsBacked, Backed
  <1>11. QED
    BY <1>1, <1>2, <1>3, <1>4, <1>5, <1>6, <1>7, <1>8, <1>9, <1>10 DEF Next

(* The invariant holds in every reachable state.                            *)
THEOREM Invariance == Spec => []IInv
  BY InitInvariant, NextInvariant, PTL DEF Spec

(* Every variable keeps its type, for any pool, workers, jobs and lifetime. *)
THEOREM TypeCorrect == Spec => []TypeOK
  <1>1. IInv => TypeOK
    BY DEF IInv
  <1>2. QED
    BY <1>1, Invariance, PTL

(* Until the deadline it knows, a worker is right that its job is running   *)
(* and the dispatch lease its own.                                          *)
THEOREM BeliefIsRight == Spec => []BeliefMatchesJob
  BY InvariantImpliesBelief, Invariance, PTL

(* No capacity lease outlives the delivery it was granted to.               *)
THEOREM SlotsEndWithJobs == Spec => []SlotHeldOnlyWhileRunning
  BY InvariantImpliesSlots, Invariance, PTL

-----------------------------------------------------------------------------
(* The refinement.  Every step of the queue is a step of JobDelivery or     *)
(* leaves stage, authority and effects as they were.                        *)
Mapped == Delivery!Next \/ UNCHANGED <<Stage, Authority, Effects>>

(* What the mapped variables are where nobody looks inside the rows.        *)
LEMMA SameJobs ==
  ASSUME UNCHANGED job
  PROVE  UNCHANGED <<Stage, Effects>>
  BY DEF Stage, Effects

(* Authority is kept when leases in force stay in force with their owner.   *)
LEMMA SameAuthority ==
  ASSUME \A j \in Jobs : /\ Live(dispatch[j])' <=> Live(dispatch[j])
                         /\ Live(dispatch[j]) => dispatch'[j].owner = dispatch[j].owner
  PROVE  UNCHANGED Authority
  BY DEF Authority

(* A step on claims, slots, the pool or a worker's memory is a stutter.     *)
LEMMA QuietStep ==
  ASSUME UNCHANGED <<job, dispatch>>
  PROVE  Mapped
  BY DEF Mapped, Stage, Effects, Authority, Live

(* Nothing submitted, nobody with authority.                                *)
LEMMA InitRefines == Init => Delivery!Init
  BY DEF Init, Delivery!Init, Stage, Authority, Effects, Live

(* CreateDurableJob submits.                                                *)
LEMMA CreateRefines ==
  ASSUME IInv, NEW j \in Jobs, CreateDurableJob(j)
  PROVE  Mapped
  <1>1. /\ job[j] \in Job /\ job[j].state = "absent" /\ ~job[j].leaseLost
        /\ job' = [job EXCEPT ![j] = [job[j] EXCEPT !.state = "queued"]]
    BY DEF CreateDurableJob, IInv, TypeOK, ClaimsAreRunning
  <1>2. /\ job'[j].state = "queued" /\ ~job'[j].leaseLost
        /\ job'[j].effects = job[j].effects
        /\ \A k \in Jobs \ {j} : job'[k] = job[k]
    BY <1>1 DEF Job, IInv, TypeOK
  <1>3. Stage[j] = "absent" /\ Stage' = [Stage EXCEPT ![j] = "queued"]
    <2>1. Stage[j] = "absent"
      BY <1>1 DEF Stage
    <2>2. Stage' = [Stage EXCEPT ![j] = "queued"]
      BY <1>2 DEF Stage
    <2>3. QED
      BY <2>1, <2>2
  <1>4. Effects' = Effects
    BY <1>2 DEF Effects
  <1>5. Authority' = Authority
    BY SameAuthority DEF CreateDurableJob, Live
  <1>6. Delivery!Submit(j)
    BY <1>3, <1>4, <1>5 DEF Delivery!Submit
  <1>7. QED
    BY <1>6 DEF Mapped, Delivery!Next

(* A claim delivers, whether or not its reply arrives.                      *)
LEMMA ClaimRefines ==
  ASSUME IInv, NEW w \in Workers, Claim(w)
  PROVE  Mapped
  <1> PICK j \in Jobs, s \in FreeSlots :
          /\ Claimable(j)
          /\ job' = [job EXCEPT ![j].state = "running"]
          /\ dispatch' = [dispatch EXCEPT ![j] =
                 [state |-> "active", owner |-> w, left |-> TTL]]
    BY DEF Claim
  <1>1. /\ job[j] \in Job /\ job[j].state = "queued" /\ ~job[j].leaseLost
        /\ job' = [job EXCEPT ![j] = [job[j] EXCEPT !.state = "running"]]
    BY DEF Claimable, IInv, TypeOK, ClaimsAreRunning
  <1>2. /\ job'[j].state = "running" /\ ~job'[j].leaseLost
        /\ job'[j].effects = job[j].effects
        /\ \A k \in Jobs \ {j} : job'[k] = job[k]
    BY <1>1 DEF Job, IInv, TypeOK
  <1>3. Stage[j] = "queued" /\ Stage' = [Stage EXCEPT ![j] = "running"]
    BY <1>1, <1>2 DEF Stage
  <1>4. Effects' = Effects
    BY <1>2 DEF Effects
  <1>5. /\ dispatch'[j] = [state |-> "active", owner |-> w, left |-> TTL]
        /\ \A k \in Jobs \ {j} : dispatch'[k] = dispatch[k]
    BY DEF IInv, TypeOK
  <1>6. Authority' = [Authority EXCEPT ![j] = w]
    <2>1. Live(dispatch[j])' /\ dispatch'[j].owner = w
      BY <1>5 DEF Live
    <2>2. \A k \in Jobs \ {j} : Live(dispatch[k])' <=> Live(dispatch[k])
      BY <1>5 DEF Live
    <2>3. \A k \in Jobs : Authority'[k] = IF k = j THEN w ELSE Authority[k]
      BY <1>5, <2>1, <2>2 DEF Authority
    <2>4. QED
      BY <2>3 DEF Authority
  <1>7. Delivery!Deliver(j, w)
    BY <1>3, <1>4, <1>6 DEF Delivery!Deliver
  <1>8. QED
    BY <1>7 DEF Mapped, Delivery!Next

(* A renewal of a lease in force is a stutter.                              *)
LEMMA RenewRefines ==
  ASSUME IInv, NEW w \in Workers, RenewDispatch(w)
  PROVE  Mapped
  <1> DEFINE j == worker[w].job
  <1>1. worker[w].phase # "idle"
    BY DEF RenewDispatch, Beats
  <1>2. j \in Jobs /\ dispatch[j] \in DispatchLease /\ Live(dispatch[j])
    BY <1>1, BusyFacts DEF Held, RenewDispatch
  <1>3. dispatch' = [dispatch EXCEPT ![j] = [dispatch[j] EXCEPT !.left = TTL]]
    BY DEF RenewDispatch, IInv, TypeOK
  <1>4. /\ dispatch'[j].state = dispatch[j].state /\ dispatch'[j].owner = dispatch[j].owner
        /\ dispatch'[j].left = TTL
        /\ \A k \in Jobs \ {j} : dispatch'[k] = dispatch[k]
    BY <1>2, <1>3 DEF DispatchLease, IInv, TypeOK
  <1>5. UNCHANGED Authority
    BY <1>2, <1>4, SameAuthority DEF Live
  <1>6. QED
    BY <1>5, SameJobs DEF RenewDispatch, Mapped

(* Marking a lapsed lease is a stutter.                                     *)
LEMMA LoseGuardRefines ==
  ASSUME IInv, NEW w \in Workers, LoseGuard(w)
  PROVE  Mapped
  <1> DEFINE j == worker[w].job
  <1>1. j \in Jobs /\ dispatch[j] \in DispatchLease
    BY BusyFacts DEF Held, LoseGuard, Beats
  <1>2. CASE UNCHANGED dispatch
    BY <1>2, QuietStep DEF LoseGuard
  <1>3. CASE /\ dispatch[j].left = 0
             /\ dispatch' = [dispatch EXCEPT ![j] = Closed(dispatch[j], "expired")]
    <2>1. /\ dispatch'[j].state = "expired"
          /\ \A k \in Jobs \ {j} : dispatch'[k] = dispatch[k]
      BY <1>1, <1>3, ClosedRow DEF IInv, TypeOK
    <2>2. UNCHANGED Authority
      BY <1>3, <2>1, SameAuthority DEF Live
    <2>3. QED
      BY <2>2, SameJobs DEF LoseGuard, Mapped
  <1>4. QED
    BY <1>2, <1>3 DEF LoseGuard, Held, IInv, TypeOK

(* A fenced write is a write under authority.                               *)
LEMMA WriteRefines ==
  ASSUME IInv, NEW w \in Workers, HandlerWrites(w)
  PROVE  Mapped
  <1> DEFINE j == worker[w].job
             row == [job[j] EXCEPT !.effects = @ + 1]
  <1>1. j \in Jobs /\ job[j] \in Job
    BY BusyFacts DEF HandlerWrites, IInv, TypeOK
  <1>2. job' = [job EXCEPT ![j] = row]
    BY DEF HandlerWrites, IInv, TypeOK
  <1>3. /\ row.effects = job[j].effects + 1
        /\ row.state = job[j].state /\ row.leaseLost = job[j].leaseLost
    BY <1>1 DEF Job
  <1> HIDE DEF row
  <1>4. Stage' = Stage
    BY <1>1, <1>2, <1>3 DEF Stage, IInv, TypeOK
  <1>5. Effects' = [Effects EXCEPT ![j] = @ + 1]
    BY <1>1, <1>2, <1>3 DEF Effects, IInv, TypeOK
  <1>6. Authority' = Authority
    BY SameAuthority DEF HandlerWrites, Live
  <1>7. Authority[j] = w
    BY <1>1 DEF Authority, HandlerWrites, FenceHolds, DispatchStillMine, Held
  <1>8. Delivery!Write(j)
    BY <1>1, <1>4, <1>5, <1>6, <1>7 DEF Delivery!Write
  <1>9. QED
    BY <1>1, <1>8 DEF Mapped, Delivery!Next

(* A fenced transition finishes under authority and ends it.                *)
LEMMA TransitionRefines ==
  ASSUME IInv, NEW w \in Workers, NEW outcome \in Outcomes, TransitionDurableJob(w, outcome)
  PROVE  Mapped
  <1> DEFINE j == worker[w].job
             row == [job[j] EXCEPT !.state = outcome]
  <1>1. j \in Jobs /\ job[j] \in Job
    BY BusyFacts DEF TransitionDurableJob, IInv, TypeOK
  <1>2. /\ job' = [job EXCEPT ![j] = row]
        /\ job[j].state = "running"
        /\ Live(dispatch[j]) /\ dispatch[j].owner = w
        /\ dispatch' = ReleasedDispatch({j})
    BY DEF TransitionDurableJob, FenceHolds, DispatchStillMine, Held, IInv, TypeOK
  <1>3. /\ row.effects = job[j].effects /\ row.state = outcome /\ ~row.leaseLost
    BY <1>1, <1>2 DEF Job, IInv, ClaimsAreRunning
  <1> HIDE DEF row
  <1>4. Stage' = [Stage EXCEPT ![j] = outcome]
    BY <1>1, <1>2, <1>3 DEF Stage, IInv, TypeOK
  <1>5. Effects' = Effects
    BY <1>1, <1>2, <1>3 DEF Effects, IInv, TypeOK
  <1>6. /\ dispatch'[j].state # "active"
        /\ \A k \in Jobs \ {j} : dispatch'[k] = dispatch[k]
    BY <1>1, <1>2, ReleaseFacts
  <1>7. Authority[j] = w /\ Authority' = [Authority EXCEPT ![j] = Nobody]
    BY <1>1, <1>2, <1>6 DEF Authority, Live
  <1>8. Delivery!Finish(j, outcome)
    BY <1>4, <1>5, <1>7 DEF Delivery!Finish
  <1>9. QED
    BY <1>1, <1>8 DEF Mapped, Delivery!Next

(* The scan declares lost what had no authority, and only that.             *)
LEMMA ScanRefines ==
  ASSUME IInv, ScanExpiredDurableJobs
  PROVE  Mapped
  <1>1. Suspects \in SUBSET Jobs /\ \A j \in Suspects : Authority[j] = Nobody
    BY DEF Suspects, Authority
  <1>2. dispatch' = ClosedDispatch(Suspects)
    BY DEF ScanExpiredDurableJobs
  <1>3. ASSUME NEW j \in Jobs
        PROVE  /\ Live(dispatch[j])' <=> Live(dispatch[j])
               /\ Live(dispatch[j]) => dispatch'[j].owner = dispatch[j].owner
    <2>1. CASE j \in Suspects
      <3>1. ~Live(dispatch[j])
        BY <2>1 DEF Suspects
      <3>2. dispatch'[j].state # "active"
        BY <1>1, <1>2, <2>1, ReleaseFacts
      <3>3. QED
        BY <3>1, <3>2 DEF Live
    <2>2. CASE j \notin Suspects
      <3>1. dispatch'[j] = dispatch[j]
        BY <1>1, <1>2, <2>2, ReleaseFacts
      <3>2. QED
        BY <3>1 DEF Live
    <2>3. QED
      BY <2>1, <2>2
  <1>4. UNCHANGED Authority
    BY <1>3, SameAuthority
  <1>5. ASSUME NEW j \in Jobs
        PROVE  /\ job'[j].effects = job[j].effects
               /\ Stage'[j] = IF j \in Suspects /\ Stage[j] = "running" THEN "lost" ELSE Stage[j]
    <2> DEFINE a == [job[j] EXCEPT !.state = "in_doubt"]
               b == [a EXCEPT !.leaseLost = TRUE]
    <2>1. job[j] \in Job /\ (job[j].leaseLost => job[j].state = "in_doubt")
      BY DEF IInv, TypeOK, ClaimsAreRunning
    <2>2. "in_doubt" \in JobState
      BY DEF JobState, DeliveryFinal
    <2>3. a \in Job /\ a.effects = job[j].effects
      BY <2>1, <2>2 DEF Job
    <2>4. job'[j] = IF j \in Suspects /\ job[j].state \notin DeliveryFinal THEN b ELSE job[j]
      BY DEF ScanExpiredDurableJobs
    <2> HIDE DEF a
    <2>5. b.effects = job[j].effects /\ b.leaseLost
      BY <2>3 DEF Job
    <2> HIDE DEF b
    <2>6. j \in Suspects => job[j].state = "running"
      BY DEF Suspects, IInv, ClaimsAreRunning
    <2>7. "running" \notin DeliveryFinal
      BY DEF DeliveryFinal
    <2>8. QED
      BY <2>1, <2>4, <2>5, <2>6, <2>7 DEF Stage
  <1>6. Stage' = [j \in Jobs |->
                    IF j \in Suspects /\ Stage[j] = "running" THEN "lost" ELSE Stage[j]]
    BY <1>5 DEF Stage
  <1>7. Effects' = Effects
    BY <1>5 DEF Effects
  <1>8. Delivery!DeclareLost(Suspects)
    BY <1>1, <1>4, <1>6, <1>7 DEF Delivery!DeclareLost
  <1>9. QED
    BY <1>1, <1>8 DEF Mapped, Delivery!Next

(* The settlement settles a declared loss.                                  *)
LEMMA SettleRefines ==
  ASSUME IInv, NEW j \in Jobs, SettleInDoubtDurableJob(j)
  PROVE  Mapped
  <1> DEFINE a == [job[j] EXCEPT !.state = "interrupted"]
             b == [a EXCEPT !.leaseLost = FALSE]
  <1>1. /\ job[j] \in Job /\ job[j].state = "in_doubt" /\ job[j].leaseLost
        /\ dispatch[j].state # "active"
    BY DEF SettleInDoubtDurableJob, Settleable, IInv, TypeOK, ClaimsAreRunning
  <1>2. job' = [job EXCEPT ![j] = b]
    BY DEF SettleInDoubtDurableJob, IInv, TypeOK
  <1>3. "interrupted" \in JobState
    BY DEF JobState, DeliveryFinal
  <1>4. a \in Job /\ a.state = "interrupted" /\ a.effects = job[j].effects
    BY <1>1, <1>3 DEF Job
  <1> HIDE DEF a
  <1>5. b.state = "interrupted" /\ b.effects = job[j].effects /\ ~b.leaseLost
    BY <1>4 DEF Job
  <1> HIDE DEF b
  <1>6. Stage[j] = "lost" /\ Stage' = [Stage EXCEPT ![j] = "interrupted"]
    BY <1>1, <1>2, <1>5 DEF Stage, IInv, TypeOK
  <1>7. Effects' = Effects
    BY <1>1, <1>2, <1>5 DEF Effects, IInv, TypeOK
  <1>8. /\ dispatch'[j].state # "active"
        /\ \A k \in Jobs \ {j} : dispatch'[k] = dispatch[k]
    BY ReleaseFacts DEF SettleInDoubtDurableJob
  <1>9. Authority' = Authority
    BY <1>1, <1>8, SameAuthority DEF Live
  <1>10. Delivery!Settle(j)
    BY <1>6, <1>7, <1>9 DEF Delivery!Settle
  <1>11. QED
    BY <1>10 DEF Mapped, Delivery!Next

(* The expiry pass marks what had lapsed: a stutter.                        *)
LEMMA ExpireRefines ==
  ASSUME IInv, ExpireLeases
  PROVE  Mapped
  <1>1. ASSUME NEW j \in Jobs
        PROVE  /\ Live(dispatch[j])' <=> Live(dispatch[j])
               /\ Live(dispatch[j]) => dispatch'[j] = dispatch[j]
    <2>1. dispatch[j] \in DispatchLease /\ dispatch[j].left \in 0 .. TTL
      BY DEF IInv, TypeOK, DispatchLease
    <2>2. CASE dispatch[j].state = "active" /\ dispatch[j].left = 0
      <3>1. dispatch'[j] = Closed(dispatch[j], "expired")
        BY <2>2 DEF ExpireLeases
      <3>2. QED
        BY <2>1, <2>2, <3>1, ClosedRow DEF Live
    <2>3. CASE ~(dispatch[j].state = "active" /\ dispatch[j].left = 0)
      <3>1. dispatch'[j] = dispatch[j]
        BY <2>3 DEF ExpireLeases
      <3>2. QED
        BY <3>1 DEF Live
    <2>4. QED
      BY <2>2, <2>3
  <1>2. UNCHANGED Authority
    BY <1>1, SameAuthority
  <1>3. QED
    BY <1>2, SameJobs DEF ExpireLeases, Mapped

(* With a tick the authority lapses over every lease in its last tick.      *)
LEMMA TickRefines ==
  ASSUME IInv, Tick
  PROVE  Mapped
  <1> DEFINE S == {j \in Jobs : dispatch[j].left = 1}
  <1>1. ASSUME NEW j \in Jobs
        PROVE  /\ Live(dispatch[j])' <=> Live(dispatch[j]) /\ j \notin S
               /\ dispatch'[j].owner = dispatch[j].owner
    <2>1. dispatch[j] \in DispatchLease /\ dispatch[j].left \in 0 .. TTL
      BY DEF IInv, TypeOK, DispatchLease
    <2>2. dispatch'[j] = [dispatch[j] EXCEPT !.left = Less(dispatch[j].left)]
      BY DEF Tick
    <2>3. /\ dispatch'[j].state = dispatch[j].state /\ dispatch'[j].owner = dispatch[j].owner
          /\ dispatch'[j].left = Less(dispatch[j].left)
      BY <2>1, <2>2 DEF DispatchLease
    <2>4. Less(dispatch[j].left) > 0 <=> dispatch[j].left > 1
      BY <2>1, LessFacts
    <2>5. QED
      BY <2>1, <2>3, <2>4 DEF Live
  <1> HIDE DEF S
  <1>2. Authority' = [j \in Jobs |-> IF j \in S THEN Nobody ELSE Authority[j]]
    BY <1>1 DEF Authority
  <1>3. UNCHANGED <<Stage, Effects>>
    BY SameJobs DEF Tick
  <1>4. Delivery!Lapse(S)
    BY <1>2, <1>3 DEF Delivery!Lapse
  <1>5. S \in SUBSET Jobs
    BY DEF S
  <1>6. QED
    BY <1>4, <1>5 DEF Mapped, Delivery!Next

(* Every step maps to a step of JobDelivery or to a stutter.                *)
LEMMA NextRefines == IInv /\ [Next]_vars => [Delivery!Next]_(Delivery!vars)
  <1> SUFFICES ASSUME IInv, [Next]_vars PROVE Mapped
    BY DEF Mapped, Delivery!vars
  <1>1. ASSUME NEW w \in Workers, Claim(w) PROVE Mapped
    BY <1>1, ClaimRefines
  <1>2. ASSUME NEW w \in Workers, Beat(w) PROVE Mapped
    <2>1. CASE RenewDispatch(w)
      BY <2>1, RenewRefines
    <2>2. CASE LoseGuard(w)
      BY <2>2, LoseGuardRefines
    <2>3. CASE RenewSlot(w) \/ SlotRefused(w) \/ SlotStoreTransient(w) \/ RefreshLeases(w)
      BY <2>3, QuietStep DEF RenewSlot, SlotRefused, SlotStoreTransient, RefreshLeases
    <2>4. QED
      BY <1>2, <2>1, <2>2, <2>3 DEF Beat
  <1>3. ASSUME NEW w \in Workers, HandlerWrites(w) PROVE Mapped
    BY <1>3, WriteRefines
  <1>4. ASSUME NEW w \in Workers, Finish(w) \/ Crash(w) PROVE Mapped
    <2>1. CASE HandlerReturns(w) \/ TransitionFails(w) \/ Crash(w)
      BY <2>1, QuietStep DEF HandlerReturns, TransitionFails, Crash
    <2>2. QED
      BY <1>4, <2>1, TransitionRefines DEF Finish
  <1>5. ASSUME NEW j \in Jobs, CreateDurableJob(j) \/ SettleInDoubtDurableJob(j) PROVE Mapped
    BY <1>5, CreateRefines, SettleRefines
  <1>6. ASSUME NEW n \in Slots, ConfigureCapacityPool(n) PROVE Mapped
    BY <1>6, QuietStep DEF ConfigureCapacityPool
  <1>7. CASE ScanExpiredDurableJobs
    BY <1>7, ScanRefines
  <1>8. CASE ExpireLeases
    BY <1>8, ExpireRefines
  <1>9. CASE Tick
    BY <1>9, TickRefines
  <1>10. CASE UNCHANGED vars
    BY <1>10, QuietStep DEF vars
  <1>11. QED
    BY <1>1, <1>2, <1>3, <1>4, <1>5, <1>6, <1>7, <1>8, <1>9, <1>10 DEF Next

(* The queue is a JobDelivery: one delivery per job, every write and every  *)
(* outcome under an authority in force, losses declared and settled only    *)
(* after it lapsed.                                                         *)
THEOREM QueueImplementsDelivery == Spec => ImplementsDelivery
  BY InitRefines, NextRefines, Invariance, PTL DEF Spec, ImplementsDelivery, Delivery!Spec
=============================================================================
