------------------------- MODULE Supervision_proofs -------------------------
(***************************************************************************)
(* Proofs about who supervises a Run.  First the way from a queued job to  *)
(* a worker process, for every set of Runs, jobs and processes and every   *)
(* bound: a Run never has two open handoffs, a live supervisor keeps its   *)
(* handoff, and what is published was delivered by the claim that          *)
(* published it.  Then the lease rows and their holders, for any number of *)
(* supervisors, resources, grants and renewals.                            *)
(***************************************************************************)
EXTENDS RunActivation, LeaseTable, FiniteSetTheorems, SequenceTheorems, TLAPS

-----------------------------------------------------------------------------
(* Handoffs: the inductive invariant.                                      *)

RunShape == [status : RunStatus, version : Nat]
EventShape == [state : {"absent", "pending", "leased", "delayed", "published"}, fence : Nat]
HandoffShape ==
    [state : {"none", "launching", "handed_off", "released", "failed", "expired"},
     run : Runs \cup {0}, expected : Nat, fence : Nat]
LeaseShape == [state : {"none", "active", "released", "expired"}, fence : Nat]
DrainShape ==
    [phase : DrainPhase, event : Jobs \cup {NoJob}, fence : Nat, run : Runs \cup {0},
     seen : Nat, handoff : Handoffs \cup {0}, ok : BOOLEAN, todo : SUBSET Jobs]
WorkerShape ==
    [phase : WorkerPhase, run : Runs \cup {0}, seen : RunStatus, job : Jobs \cup {NoJob},
     fence : Nat]
Clocked == {Event(j) : j \in Jobs} \cup {Deadline(h) : h \in Handoffs}
           \cup {Expiry(r) : r \in Runs}

Shapes ==
    /\ run \in [Runs -> RunShape]
    /\ job \in [Jobs -> {"absent", "queued", "running", "done", "lost"}]
    /\ event \in [Jobs -> EventShape]
    /\ delivered \in [Jobs -> BOOLEAN]
    /\ handoff \in [Handoffs -> HandoffShape]
    /\ lease \in [Runs -> LeaseShape]
    /\ late \subseteq Clocked
    /\ drain \in [Drainers -> DrainShape]
    /\ worker \in [Workers -> WorkerShape]
    /\ faults \in 0 .. MaxFaults

Open == {"launching", "handed_off"}
OnARun == {"reconcile", "list", "reserve", "launch", "record"}

\* A Drain knows the Run, the event and the handoff it is at, and the Drain of
\* a worker belongs to a session that waits for it.
DrainFits(a) ==
    /\ drain[a].phase \in OnARun => drain[a].run \in Runs
    /\ drain[a].phase = "read" => drain[a].event \in Jobs
    /\ drain[a].phase \in {"launch", "record"} => drain[a].handoff \in Handoffs
    /\ a \in Workers /\ drain[a].phase # "idle" => worker[a].phase = "draining"

\* The handoff that is about to be launched has no child, is still the Run's
\* own, and nobody else launches it.
LaunchFits(a) ==
    drain[a].phase = "launch" =>
        LET h == drain[a].handoff
        IN  /\ worker[h] = NoWorker
            /\ handoff[h].state \in Open => handoff[h].run = drain[a].run
            /\ \A b \in Drainers : drain[b].phase = "launch" /\ drain[b].handoff = h => b = a

\* A worker's Run and fencing token are those of its handoff, as long as that
\* is open, and no newer than the lease of its Run.
WorkerFits(w) ==
    /\ worker[w].phase = "none" => worker[w] = NoWorker
    /\ worker[w].phase # "none" => worker[w].run \in Runs
    /\ worker[w].phase \in Alive => worker[w].fence <= lease[worker[w].run].fence
    /\ worker[w].phase # "none" /\ w \in Handoffs =>
         /\ handoff[w].state \in Open => handoff[w].run = worker[w].run
         /\ worker[w].phase \in Alive =>
              /\ handoff[w].state # "launching"
              /\ handoff[w].state = "handed_off" => handoff[w].fence = worker[w].fence
              /\ Supervises(w) => handoff[w].state = "handed_off"

HandoffFits(h) ==
    /\ handoff[h].state \in Open => handoff[h].run \in Runs
    /\ handoff[h].state = "handed_off" => handoff[h].fence > 0
    /\ \A k \in Handoffs :
          /\ handoff[h].state \in Open /\ handoff[k].state \in Open
          /\ handoff[h].run = handoff[k].run
          => h = k

IInv ==
    /\ Shapes
    /\ \A a \in Drainers : DrainFits(a) /\ LaunchFits(a)
    /\ \A w \in Workers : WorkerFits(w)
    /\ \A h \in Handoffs : HandoffFits(h)
    /\ PublishedWasDelivered

-----------------------------------------------------------------------------
(* The number a new handoff gets.                                          *)

(* A non-empty family of subsets of a finite set has a smallest member.    *)
LEMMA SmallestSubset ==
    ASSUME NEW S, IsFiniteSet(S), NEW Family \in SUBSET (SUBSET S), Family # {}
    PROVE  \E T \in Family : \A U \in Family : U \subseteq T => U = T
<1>1. IsWellFoundedOn(StrictSubsetOrdering(S), SUBSET S)
  <2>1. IsWellFoundedOn(StrictSubsetOrdering(S), FiniteSubsetsOf(S))
    BY FS_StrictSubsetOrderingWellFounded, Zenon
  <2>2. FiniteSubsetsOf(S) = SUBSET S
    BY FS_FiniteSubsetsOfFinite, Zenon
  <2> QED
    BY <2>1, <2>2
<1>2. PICK T \in Family : \A U \in Family : <<U, T>> \notin StrictSubsetOrdering(S)
  BY <1>1, WFMin
<1>3. \A U \in Family : U \subseteq T => U = T
  BY <1>2 DEF StrictSubsetOrdering
<1> QED
  BY <1>3

LEMMA MinIsMember ==
    ASSUME NEW S \in SUBSET Handoffs, S # {}
    PROVE  Min(S) \in S
<1> DEFINE UpTo(n) == {m \in S : m =< n}
           Family == {UpTo(n) : n \in S}
<1>1. IsFiniteSet(S)
  <2>1. 1 \in Int /\ MaxHandoffs \in Int
    BY ActivationAssumption
  <2>2. IsFiniteSet(Handoffs)
    BY <2>1, FS_Interval DEF Handoffs
  <2> QED
    BY <2>2, FS_Subset
<1>2. Family \in SUBSET (SUBSET S) /\ Family # {}
  OBVIOUS
<1>3. PICK T \in Family : \A U \in Family : U \subseteq T => U = T
  <2> HIDE DEF Family
  <2> QED
    BY <1>1, <1>2, SmallestSubset
<1>4. PICK n \in S : T = UpTo(n)
  BY <1>3
<1>5. \A m \in S : n =< m
  <2> SUFFICES ASSUME NEW m \in S, ~(n =< m)
               PROVE  FALSE
    OBVIOUS
  <2>1. \A k \in S : k \in Int
    BY DEF Handoffs
  <2>2. UpTo(m) \subseteq UpTo(n)
    BY <2>1
  <2>3. UpTo(m) = UpTo(n)
    BY <1>3, <1>4, <2>2
  <2>4. n \in UpTo(n) /\ n \notin UpTo(m)
    BY <2>1
  <2> QED
    BY <2>3, <2>4
<1> QED
  BY <1>5 DEF Min

-----------------------------------------------------------------------------
(* What a step may do to the processes: a worker goes on or is gone, a     *)
(* handoff is closed only when its worker no longer supervises the Run, and *)
(* a lease is renewed only with a higher fencing token.                     *)

GoesOn(w) ==
    \/ worker'[w] = NoWorker
    \/ /\ worker[w].phase # "none" /\ worker'[w].phase # "none"
       /\ worker'[w].run = worker[w].run /\ worker'[w].fence = worker[w].fence
       /\ worker'[w].phase \in Alive => worker[w].phase \in Alive

\* A worker that begins, or gets its lease, is not about to be launched.
Begins(w) ==
    /\ WorkerFits(w)'
    /\ \A a \in Drainers : drain'[a].phase = "launch" => drain'[a].handoff # w

Stays(h) ==
    \/ handoff'[h] = handoff[h]
    \/ /\ handoff[h].state \in Open /\ handoff'[h].state \in Open
       /\ handoff'[h].run = handoff[h].run
       /\ handoff'[h].state = "handed_off" => handoff'[h].fence > 0
       /\ Begins(h)
    \/ /\ handoff'[h].state \notin Open
       /\ worker'[h].phase \in Alive /\ handoff[h].state = "handed_off" => ~Supervises(h)'

LeaseMoves(r) ==
    /\ lease'[r].fence >= lease[r].fence
    /\ LeaseHeld(r)' => (LeaseHeld(r) /\ lease'[r].fence = lease[r].fence)
                        \/ lease'[r].fence > lease[r].fence

DrainMoves(a) == drain'[a] = drain[a] \/ (drain'[a].phase # "launch" /\ DrainFits(a)')

LEMMA WorkerIsKept ==
    ASSUME NEW w \in Workers, Shapes, Shapes', WorkerFits(w), GoesOn(w),
           w \in Handoffs => Stays(w), \A r \in Runs : LeaseMoves(r)
    PROVE  WorkerFits(w)'
<1>0. CASE Begins(w)
  BY <1>0 DEF Begins
<1>1. CASE worker'[w] = NoWorker
  BY <1>1 DEF WorkerFits, NoWorker, Alive
<1>2. CASE worker'[w] # NoWorker /\ ~Begins(w)
  <2> DEFINE r == worker[w].run
  <2>1. /\ worker[w].phase # "none" /\ worker'[w].phase # "none"
        /\ worker'[w].run = r /\ worker'[w].fence = worker[w].fence
        /\ worker'[w].phase \in Alive => worker[w].phase \in Alive
    BY <1>2 DEF GoesOn
  <2>2. r \in Runs /\ LeaseMoves(r)
    BY <2>1 DEF WorkerFits
  <2>3. worker[w].fence \in Nat /\ lease[r].fence \in Nat /\ lease'[r].fence \in Nat
    BY <2>2 DEF Shapes, WorkerShape, LeaseShape
  <2>4. worker'[w].phase \in Alive => worker'[w].fence <= lease'[r].fence
    BY <2>1, <2>2, <2>3 DEF WorkerFits, LeaseMoves
  <2>5. worker'[w].phase \in Alive /\ Supervises(w)' => Supervises(w)
    BY <2>1, <2>2, <2>3 DEF WorkerFits, LeaseMoves, Supervises
  <2>6. ASSUME w \in Handoffs
        PROVE  /\ handoff'[w].state \in Open => handoff'[w].run = worker'[w].run
               /\ worker'[w].phase \in Alive =>
                    /\ handoff'[w].state # "launching"
                    /\ handoff'[w].state = "handed_off" => handoff'[w].fence = worker'[w].fence
                    /\ Supervises(w)' => handoff'[w].state = "handed_off"
    BY <1>2, <2>1, <2>5, <2>6 DEF WorkerFits, Stays, Open
  <2> QED
    BY <2>1, <2>2, <2>4, <2>6 DEF WorkerFits
<1> QED
  BY <1>0, <1>1, <1>2

LEMMA HandoffIsKept ==
    ASSUME NEW h \in Handoffs, HandoffFits(h), \A k \in Handoffs : Stays(k)
    PROVE  HandoffFits(h)'
BY DEF HandoffFits, Stays, Open

LEMMA LaunchIsKept ==
    ASSUME NEW a \in Drainers, Shapes, Shapes', DrainFits(a), LaunchFits(a),
           drain'[a].phase = "launch",
           \A b \in Drainers : DrainMoves(b), \A w \in Workers : GoesOn(w) \/ Begins(w),
           \A h \in Handoffs : Stays(h)
    PROVE  LaunchFits(a)'
<1> DEFINE h == drain[a].handoff
<1>1. drain'[a] = drain[a]
  BY DEF DrainMoves
<1>2. h \in Handoffs /\ h \in Workers
  BY <1>1 DEF DrainFits, Workers
<1>3. worker'[h] = NoWorker
  BY <1>1, <1>2 DEF LaunchFits, GoesOn, Begins, NoWorker
<1>4. handoff'[h].state \in Open => handoff'[h].run = drain[a].run
  BY <1>1, <1>2 DEF LaunchFits, Stays
<1>5. \A b \in Drainers : drain'[b].phase = "launch" /\ drain'[b].handoff = h => b = a
  BY <1>1 DEF LaunchFits, DrainMoves
<1> QED
  BY <1>1, <1>3, <1>4, <1>5 DEF LaunchFits

(* What a worker does not disturb in its own Drain.                        *)
Waits(a) == a \in Workers /\ drain[a].phase # "idle" => worker'[a].phase = worker[a].phase

LEMMA DrainIsKept ==
    ASSUME NEW a \in Drainers, DrainFits(a), DrainMoves(a), drain'[a] = drain[a] => Waits(a)
    PROVE  DrainFits(a)'
BY DEF DrainFits, DrainMoves, Waits

(* A step that keeps to these rules keeps the invariant.                   *)
Moved ==
    /\ \A a \in Drainers : DrainMoves(a) /\ (drain'[a] = drain[a] => Waits(a))
    /\ \A w \in Workers : GoesOn(w) \/ Begins(w)
    /\ \A h \in Handoffs : Stays(h)
    /\ \A r \in Runs : LeaseMoves(r)

LEMMA MovedKeeps ==
    ASSUME IInv, Shapes', PublishedWasDelivered', Moved
    PROVE  IInv'
<1>1. \A a \in Drainers : DrainFits(a)'
  BY DrainIsKept DEF IInv, Moved
<1>2. \A a \in Drainers : LaunchFits(a)'
  <2> SUFFICES ASSUME NEW a \in Drainers
               PROVE  LaunchFits(a)'
    OBVIOUS
  <2>1. CASE drain'[a].phase = "launch"
    BY <2>1, LaunchIsKept DEF IInv, Moved
  <2>2. CASE drain'[a].phase # "launch"
    BY <2>2 DEF LaunchFits
  <2> QED
    BY <2>1, <2>2
<1>3. \A w \in Workers : WorkerFits(w)'
  BY WorkerIsKept DEF IInv, Moved, Begins
<1>4. \A h \in Handoffs : HandoffFits(h)'
  BY HandoffIsKept DEF IInv, Moved
<1> QED
  BY <1>1, <1>2, <1>3, <1>4 DEF IInv

-----------------------------------------------------------------------------
(* Steps that change one process only.                                     *)

NoShorterLease == \A r \in Runs : Expiry(r) \in late => Expiry(r) \in late'

LEMMA SameLeaseMoves ==
    ASSUME Shapes, UNCHANGED lease, NoShorterLease
    PROVE  \A r \in Runs : LeaseMoves(r)
<1> SUFFICES ASSUME NEW r \in Runs
             PROVE  LeaseMoves(r)
  OBVIOUS
<1>1. lease[r].fence \in Nat
  BY DEF Shapes, LeaseShape
<1> QED
  BY <1>1 DEF LeaseMoves, LeaseHeld, NoShorterLease

LEMMA SameWorkerGoesOn ==
    ASSUME NEW w \in Workers, WorkerFits(w), worker'[w] = worker[w]
    PROVE  GoesOn(w)
BY DEF WorkerFits, GoesOn

(* One Drain takes a step, short of launching a child.                     *)
LEMMA DrainStepMoves ==
    ASSUME IInv, NEW a \in Drainers, NEW d \in DrainShape,
           drain' = [drain EXCEPT ![a] = d], d.phase # "launch",
           d.phase \in OnARun => d.run \in Runs,
           d.phase = "read" => d.event \in Jobs,
           d.phase = "record" => d.handoff \in Handoffs,
           a \in Workers /\ d.phase # "idle" => worker[a].phase = "draining",
           UNCHANGED <<handoff, lease, worker>>, NoShorterLease
    PROVE  Moved /\ drain' \in [Drainers -> DrainShape]
<1>1. drain \in [Drainers -> DrainShape]
  BY DEF IInv, Shapes
<1>2. drain' \in [Drainers -> DrainShape] /\ drain'[a] = d
      /\ \A b \in Drainers : b # a => drain'[b] = drain[b]
  BY <1>1
<1>3. \A b \in Drainers : DrainMoves(b) /\ Waits(b)
  BY <1>2 DEF DrainMoves, DrainFits, Waits
<1>4. \A w \in Workers : GoesOn(w)
  BY SameWorkerGoesOn DEF IInv
<1>5. \A h \in Handoffs : Stays(h)
  BY DEF Stays
<1>6. \A r \in Runs : LeaseMoves(r)
  BY SameLeaseMoves DEF IInv
<1> QED
  BY <1>2, <1>3, <1>4, <1>5, <1>6 DEF Moved

(* A Drain returns to its session.                                         *)
LEMMA IdleDrainShape == IdleDrain \in DrainShape
BY DEF IdleDrain, DrainShape, DrainPhase

LEMMA NoWorkerShape == NoWorker \in WorkerShape
BY DEF NoWorker, WorkerShape, WorkerPhase, RunStatus

LEMMA ReturnMoves ==
    ASSUME IInv, NEW a \in Drainers, drain[a].phase # "idle", NEW ok \in BOOLEAN,
           Return(a, ok), UNCHANGED <<handoff, lease>>, NoShorterLease
    PROVE  Moved /\ drain' \in [Drainers -> DrainShape] /\ worker' \in [Workers -> WorkerShape]
<1>1. drain \in [Drainers -> DrainShape] /\ worker \in [Workers -> WorkerShape]
      /\ run \in [Runs -> RunShape]
  BY DEF IInv, Shapes
<1>2. drain' \in [Drainers -> DrainShape] /\ drain'[a] = IdleDrain
      /\ \A b \in Drainers : b # a => drain'[b] = drain[b]
  BY <1>1, IdleDrainShape DEF Return
<1>3. \A w \in Workers : w # a => worker'[w] = worker[w]
  BY <1>1 DEF Return
<1>4. ASSUME a \in Workers
      PROVE  /\ worker'[a].phase \in {"serving", "stopping"}
             /\ worker'[a].run = worker[a].run /\ worker'[a].fence = worker[a].fence
             /\ worker'[a] \in WorkerShape
             /\ worker[a].phase = "draining"
  <2>1. worker[a].phase = "draining" /\ worker[a].run \in Runs
    BY <1>4 DEF IInv, DrainFits, WorkerFits
  <2>2. worker[a] \in WorkerShape /\ run[worker[a].run].status \in RunStatus
    BY <1>1, <1>4, <2>1 DEF RunShape
  <2> DEFINE p == IF ok THEN "serving" ELSE "stopping"
             s == run[worker[a].run].status
  <2>3. worker'[a] = [worker[a] EXCEPT !.phase = p, !.seen = s]
    BY <1>1, <1>4 DEF Return
  <2>4. p \in {"serving", "stopping"} /\ p \in WorkerPhase /\ s \in RunStatus
    BY <2>2 DEF WorkerPhase
  <2> HIDE DEF p, s
  <2> QED
    BY <2>1, <2>2, <2>3, <2>4 DEF WorkerShape
<1>5. worker' \in [Workers -> WorkerShape]
  BY <1>1, <1>3, <1>4 DEF Return
<1>6. \A w \in Workers : GoesOn(w)
  BY <1>3, <1>4, SameWorkerGoesOn DEF IInv, GoesOn, Alive
<1>7. \A b \in Drainers : DrainMoves(b) /\ (drain'[b] = drain[b] => Waits(b))
  BY <1>2, <1>3 DEF DrainMoves, DrainFits, Waits, IdleDrain, OnARun
<1>8. \A h \in Handoffs : Stays(h)
  BY DEF Stays
<1>9. \A r \in Runs : LeaseMoves(r)
  BY SameLeaseMoves DEF IInv
<1> QED
  BY <1>2, <1>5, <1>6, <1>7, <1>8, <1>9 DEF Moved

(* One worker goes on, or exits, and is not in a Drain.                    *)
LEMMA WorkerStepMoves ==
    ASSUME IInv, NEW w \in Workers, worker[w].phase # "draining", NEW v \in WorkerShape,
           worker' = [worker EXCEPT ![w] = v],
           \/ v = NoWorker
           \/ /\ worker[w].phase # "none" /\ v.phase # "none"
              /\ v.run = worker[w].run /\ v.fence = worker[w].fence
              /\ v.phase \in Alive => worker[w].phase \in Alive
    PROVE  /\ \A u \in Workers : GoesOn(u)
           /\ \A a \in Drainers : Waits(a)
           /\ worker' \in [Workers -> WorkerShape]
<1>1. worker \in [Workers -> WorkerShape]
  BY DEF IInv, Shapes
<1>2. worker' \in [Workers -> WorkerShape] /\ worker'[w] = v
      /\ \A u \in Workers : u # w => worker'[u] = worker[u]
  BY <1>1
<1>3. GoesOn(w)
  BY <1>2 DEF GoesOn
<1>4. \A u \in Workers : GoesOn(u)
  BY <1>2, <1>3, SameWorkerGoesOn DEF IInv
<1>5. \A a \in Drainers : Waits(a)
  BY <1>2 DEF Waits, IInv, DrainFits
<1> QED
  BY <1>2, <1>4, <1>5

-----------------------------------------------------------------------------
(* The steps of a Drain that change nothing else.                          *)

LEMMA OnlyDrainInvariant ==
    ASSUME IInv, NEW a \in Drainers, NEW d \in DrainShape,
           drain' = [drain EXCEPT ![a] = d], d.phase # "launch",
           d.phase \in OnARun => d.run \in Runs,
           d.phase = "read" => d.event \in Jobs,
           d.phase = "record" => d.handoff \in Handoffs,
           a \in Workers /\ d.phase # "idle" => worker[a].phase = "draining",
           UNCHANGED <<run, job, outbox, handoff, lease, late, worker>>,
           faults' \in 0 .. MaxFaults
    PROVE  IInv'
<1>1. UNCHANGED <<handoff, lease, worker>> /\ NoShorterLease
  BY DEF NoShorterLease
<1>2. Moved /\ drain' \in [Drainers -> DrainShape]
  BY <1>1, DrainStepMoves
<1>3. Shapes'
  BY <1>2 DEF IInv, Shapes, outbox
<1>4. PublishedWasDelivered'
  BY DEF IInv, PublishedWasDelivered, outbox
<1> QED
  BY <1>2, <1>3, <1>4, MovedKeeps

LEMMA PhaseRow ==
    ASSUME NEW row \in DrainShape, NEW p \in DrainPhase
    PROVE  LET d == [row EXCEPT !.phase = p]
           IN  d \in DrainShape /\ d.phase = p /\ d.event = row.event /\ d.run = row.run
               /\ d.handoff = row.handoff
BY DEF DrainShape

LEMMA SettledRow ==
    ASSUME NEW row \in DrainShape, NEW ok \in BOOLEAN
    PROVE  LET d == [row EXCEPT !.phase = "settle", !.ok = ok, !.run = 0, !.seen = 0,
                                !.handoff = 0]
           IN  d \in DrainShape /\ d.phase = "settle"
BY DEF DrainShape, DrainPhase

LEMMA ListedRow ==
    ASSUME NEW row \in DrainShape, NEW T \in SUBSET Jobs
    PROVE  LET d == [row EXCEPT !.phase = "sweep", !.event = NoJob, !.todo = T]
           IN  d \in DrainShape /\ d.phase = "sweep"
BY DEF DrainShape, DrainPhase

LEMMA TodoRow ==
    ASSUME NEW row \in DrainShape, NEW T \in SUBSET Jobs
    PROVE  LET d == [row EXCEPT !.todo = T]
           IN  d \in DrainShape /\ d.phase = row.phase
BY DEF DrainShape

(* What the invariant says of one Drain, and what SMT needs to fold rows.  *)
LEMMA DrainFacts ==
    ASSUME IInv, NEW a \in Drainers
    PROVE  /\ drain = [b \in Drainers |-> drain[b]]
           /\ drain[a] \in DrainShape
           /\ drain[a].phase \in OnARun => drain[a].run \in Runs
           /\ drain[a].phase = "read" => drain[a].event \in Jobs
           /\ drain[a].phase \in {"launch", "record"} => drain[a].handoff \in Handoffs
           /\ a \in Workers /\ drain[a].phase # "idle" => worker[a].phase = "draining"
           /\ drain[a].event \in Jobs \cup {NoJob} /\ drain[a].todo \subseteq Jobs
           /\ drain[a].fence \in Nat /\ drain[a].seen \in Nat /\ drain[a].ok \in BOOLEAN
           /\ faults \in 0 .. MaxFaults
BY DEF IInv, Shapes, DrainFits, DrainShape

LEMMA OperatorIsNoWorker == \A a \in Operators : a \in Drainers /\ a \notin Workers
BY ActivationAssumption DEF Drainers, Workers, Direct, Handoffs

LEMMA GoInvariant ==
    ASSUME IInv, NEW a \in Drainers, NEW p \in DrainPhase \ {"launch", "read", "record"},
           p \in OnARun => drain[a].run \in Runs,
           a \in Operators \/ drain[a].phase # "idle",
           Go(a, p), UNCHANGED <<run, job, outbox, handoff, lease, late, worker, faults>>
    PROVE  IInv'
<1>1. drain[a] \in DrainShape /\ drain = [b \in Drainers |-> drain[b]]
      /\ faults \in 0 .. MaxFaults
  BY DrainFacts
<1>2. PICK d \in DrainShape : /\ d = [drain[a] EXCEPT !.phase = p]
                              /\ d.phase = p /\ d.run = drain[a].run
  BY <1>1, PhaseRow
<1>3. drain' = [drain EXCEPT ![a] = d]
  BY <1>1, <1>2 DEF Go
<1>4. a \in Workers => worker[a].phase = "draining"
  BY DrainFacts, OperatorIsNoWorker
<1> QED
  BY <1>1, <1>2, <1>3, <1>4, OnlyDrainInvariant

LEMMA SettleInvariant ==
    ASSUME IInv, NEW a \in Drainers, NEW ok \in BOOLEAN, drain[a].phase # "idle",
           Settle(a, ok), UNCHANGED <<run, job, outbox, handoff, lease, late, worker, faults>>
    PROVE  IInv'
<1>1. drain[a] \in DrainShape /\ drain = [b \in Drainers |-> drain[b]]
      /\ faults \in 0 .. MaxFaults
  BY DrainFacts
<1>2. PICK d \in DrainShape :
         /\ d = [drain[a] EXCEPT !.phase = "settle", !.ok = ok, !.run = 0, !.seen = 0,
                                 !.handoff = 0]
         /\ d.phase = "settle"
  BY <1>1, SettledRow
<1>3. drain' = [drain EXCEPT ![a] = d]
  BY <1>1, <1>2 DEF Settle
<1>4. a \in Workers => worker[a].phase = "draining"
  BY DrainFacts
<1> QED
  BY <1>1, <1>2, <1>3, <1>4, OnlyDrainInvariant DEF OnARun

LEMMA StartDrainInvariant ==
    ASSUME IInv, NEW a \in Drainers, StartDrain(a)
    PROVE  IInv'
BY GoInvariant DEF StartDrain, DrainPhase, OnARun

LEMMA ListQueuedInvariant ==
    ASSUME IInv, NEW a \in Drainers, ListQueued(a)
    PROVE  IInv'
<1>1. drain[a] \in DrainShape /\ drain = [b \in Drainers |-> drain[b]]
      /\ faults \in 0 .. MaxFaults
  BY DrainFacts
<1>2. PICK T \in SUBSET Jobs : T = ToSweep
  BY DEF ToSweep
<1>3. PICK d \in DrainShape :
         /\ d = [drain[a] EXCEPT !.phase = "sweep", !.event = NoJob, !.todo = T]
         /\ d.phase = "sweep"
  BY <1>1, ListedRow
<1>4. drain' = [drain EXCEPT ![a] = d]
  BY <1>1, <1>2, <1>3 DEF ListQueued
<1>5. a \in Workers => worker[a].phase = "draining"
  BY DrainFacts DEF ListQueued
<1> QED
  BY <1>1, <1>3, <1>4, <1>5, OnlyDrainInvariant DEF OnARun, ListQueued

LEMMA ReadEventInvariant ==
    ASSUME IInv, NEW a \in Drainers, ReadEvent(a)
    PROVE  IInv'
<1> DEFINE j == drain[a].event
           r == RunOf[j]
<1>1. drain[a] \in DrainShape /\ drain = [b \in Drainers |-> drain[b]]
      /\ faults \in 0 .. MaxFaults
  BY DrainFacts
<1>2. j \in Jobs /\ r \in Runs /\ run[r].version \in Nat
  BY DrainFacts, ActivationAssumption DEF ReadEvent, IInv, Shapes, RunShape
<1>3. a \in Workers => worker[a].phase = "draining"
  BY DrainFacts DEF ReadEvent
<1>4. CASE job[j] = "queued" /\ Eligible(run[r].status, j)
  <2> PICK n \in Nat : n = run[r].version
    BY <1>2
  <2>1. PICK row \in DrainShape, q \in Runs : row = drain[a] /\ q = r
    BY <1>1, <1>2
  <2>2. PICK d \in DrainShape :
           /\ d = [row EXCEPT !.phase = "reconcile", !.run = q, !.seen = n]
           /\ d.phase = "reconcile" /\ d.run = q
    <3> DEFINE d == [row EXCEPT !.phase = "reconcile", !.run = q, !.seen = n]
    <3>1. d \in DrainShape /\ d.phase = "reconcile" /\ d.run = q
      BY DEF DrainShape, DrainPhase
    <3> QED
      BY <3>1
  <2>3. drain' = [drain EXCEPT ![a] = d]
    BY <1>1, <1>4, <2>1, <2>2 DEF ReadEvent
  <2> QED
    BY <1>1, <1>2, <1>3, <2>1, <2>2, <2>3, OnlyDrainInvariant DEF OnARun, ReadEvent
<1>5. CASE ~(job[j] = "queued" /\ Eligible(run[r].status, j))
  <2>1. Go(a, "settle")
    BY <1>5 DEF ReadEvent, Go
  <2> QED
    BY <2>1, GoInvariant DEF DrainPhase, OnARun, ReadEvent
<1> QED
  BY <1>4, <1>5

LEMMA SweepJobInvariant ==
    ASSUME IInv, NEW a \in Drainers, SweepJob(a)
    PROVE  IInv'
<1>1. drain[a] \in DrainShape /\ drain = [b \in Drainers |-> drain[b]]
      /\ faults \in 0 .. MaxFaults /\ drain[a].todo \subseteq Jobs
  BY DrainFacts
<1>2. PICK j \in drain[a].todo :
         LET r == RunOf[j]
         IN  drain' = IF Eligible(run[r].status, j)
                THEN [drain EXCEPT ![a].phase = "reconcile", ![a].run = r,
                                   ![a].seen = run[r].version, ![a].ok = TRUE,
                                   ![a].todo = {k \in @ : RunOf[k] # r}]
                ELSE [drain EXCEPT ![a].todo = @ \ {j}]
  BY DEF SweepJob
<1> DEFINE r == RunOf[j]
<1>3. r \in Runs /\ run[r].version \in Nat
  BY <1>1, ActivationAssumption DEF IInv, Shapes, RunShape
<1>4. a \in Workers => worker[a].phase = "draining"
  BY DrainFacts DEF SweepJob
<1>5. CASE Eligible(run[r].status, j)
  <2>1. PICK T \in SUBSET Jobs : T = {k \in drain[a].todo : RunOf[k] # r}
    BY <1>1
  <2> PICK n \in Nat : n = run[r].version
    BY <1>3
  <2>2. PICK row \in DrainShape, q \in Runs : row = drain[a] /\ q = r
    BY <1>1, <1>3
  <2>3. PICK d \in DrainShape :
           /\ d = [row EXCEPT !.phase = "reconcile", !.run = q, !.seen = n,
                              !.ok = TRUE, !.todo = T]
           /\ d.phase = "reconcile" /\ d.run = q
    <3> DEFINE d == [row EXCEPT !.phase = "reconcile", !.run = q, !.seen = n,
                                !.ok = TRUE, !.todo = T]
    <3>1. d \in DrainShape /\ d.phase = "reconcile" /\ d.run = q
      BY DEF DrainShape, DrainPhase
    <3> QED
      BY <3>1
  <2>4. drain' = [drain EXCEPT ![a] = d]
    BY <1>1, <1>2, <1>5, <2>1, <2>2, <2>3
  <2> QED
    BY <1>1, <1>3, <1>4, <2>2, <2>3, <2>4, OnlyDrainInvariant DEF OnARun, SweepJob
<1>6. CASE ~Eligible(run[r].status, j)
  <2>1. PICK T \in SUBSET Jobs : T = drain[a].todo \ {j}
    BY <1>1
  <2> drain[a].phase = "sweep"
    BY DEF SweepJob
  <2>2. PICK d \in DrainShape : d = [drain[a] EXCEPT !.todo = T] /\ d.phase = "sweep"
    BY <1>1, TodoRow
  <2>3. drain' = [drain EXCEPT ![a] = d]
    BY <1>1, <1>2, <1>6, <2>1, <2>2
  <2> QED
    BY <1>1, <1>4, <2>2, <2>3, OnlyDrainInvariant DEF OnARun, SweepJob
<1> QED
  BY <1>5, <1>6

LEMMA ListHandoffsInvariant ==
    ASSUME IInv, NEW a \in Drainers, ListHandoffs(a)
    PROVE  IInv'
<1>1. CASE Settle(a, TRUE)
  BY <1>1, SettleInvariant DEF ListHandoffs
<1>2. CASE Go(a, "reserve")
  BY <1>2, GoInvariant, DrainFacts DEF ListHandoffs, DrainPhase, OnARun
<1> QED
  BY <1>1, <1>2 DEF ListHandoffs

LEMMA ReserveRefusedInvariant ==
    ASSUME IInv, NEW a \in Drainers, ReserveRefused(a)
    PROVE  IInv'
<1> DEFINE sound == run[drain[a].run].version = drain[a].seen /\ Runnable(drain[a].run)
<1>1. sound \in BOOLEAN /\ Settle(a, sound)
  BY DEF ReserveRefused
<1> QED
  BY <1>1, SettleInvariant DEF ReserveRefused

LEMMA RecordInvariant ==
    ASSUME IInv, NEW a \in Drainers, Record(a)
    PROVE  IInv'
BY SettleInvariant DEF Record

LEMMA KillDrainInvariant ==
    ASSUME IInv, KillDrain
    PROVE  IInv'
<1>1. PICK a \in Operators : drain' = [drain EXCEPT ![a] = IdleDrain]
  BY DEF KillDrain
<1>2. faults' \in 0 .. MaxFaults
  BY ActivationAssumption DEF KillDrain, IInv, Shapes
<1>3. a \in Drainers /\ a \notin Workers
  BY OperatorIsNoWorker
<1>4. IdleDrain \in DrainShape /\ IdleDrain.phase = "idle"
  BY IdleDrainShape DEF IdleDrain
<1> HIDE DEF IdleDrain
<1> QED
  BY <1>1, <1>2, <1>3, <1>4, OnlyDrainInvariant DEF OnARun, KillDrain

-----------------------------------------------------------------------------
(* The steps of a Drain on the outbox, and its return to the session.       *)

LEMMA ReturnInvariant ==
    ASSUME IInv, NEW a \in Drainers, drain[a].phase # "idle", NEW ok \in BOOLEAN,
           Return(a, ok), UNCHANGED <<run, job, handoff, lease, late, faults>>,
           event' \in [Jobs -> EventShape], delivered' \in [Jobs -> BOOLEAN],
           PublishedWasDelivered'
    PROVE  IInv'
<1>1. UNCHANGED <<handoff, lease>> /\ NoShorterLease
  BY DEF NoShorterLease
<1>2. Moved /\ drain' \in [Drainers -> DrainShape] /\ worker' \in [Workers -> WorkerShape]
  BY <1>1, ReturnMoves
<1>3. Shapes'
  BY <1>2 DEF IInv, Shapes
<1> QED
  BY <1>2, <1>3, MovedKeeps

LEMMA SameOutbox ==
    ASSUME IInv, UNCHANGED outbox
    PROVE  event' \in [Jobs -> EventShape] /\ delivered' \in [Jobs -> BOOLEAN]
           /\ PublishedWasDelivered'
BY DEF IInv, Shapes, PublishedWasDelivered, outbox

LEMMA FinishSweepInvariant ==
    ASSUME IInv, NEW a \in Drainers, FinishSweep(a)
    PROVE  IInv'
<1>1. event' \in [Jobs -> EventShape] /\ delivered' \in [Jobs -> BOOLEAN]
      /\ PublishedWasDelivered'
  BY SameOutbox DEF FinishSweep
<1> QED
  BY <1>1, ReturnInvariant DEF FinishSweep

LEMMA SweptOneInvariant ==
    ASSUME IInv, NEW a \in Drainers, SweptOne(a)
    PROVE  IInv'
<1>1. event' \in [Jobs -> EventShape] /\ delivered' \in [Jobs -> BOOLEAN]
      /\ PublishedWasDelivered'
  BY SameOutbox DEF SweptOne
<1>2. CASE drain[a].ok
  BY <1>2, GoInvariant DEF SweptOne, DrainPhase, OnARun
<1>3. CASE ~drain[a].ok
  BY <1>1, <1>3, ReturnInvariant DEF SweptOne
<1> QED
  BY <1>2, <1>3

(* A result that counts for its claim only is never forgotten again before *)
(* the next claim.                                                         *)
LEMMA NoteDeliveryIsMonotonic ==
    ASSUME IInv, NEW a \in Drainers, drain[a].event \in Jobs, NoteDelivery(a)
    PROVE  /\ delivered' \in [Jobs -> BOOLEAN]
           /\ \A j \in Jobs : delivered[j] => delivered'[j]
           /\ drain[a].ok /\ drain[a].fence = event[drain[a].event].fence
              => delivered'[drain[a].event]
<1>1. delivered \in [Jobs -> BOOLEAN] /\ drain[a].ok \in BOOLEAN
  BY DrainFacts DEF IInv, Shapes
<1> DEFINE j == drain[a].event
           b == drain[a].ok /\ drain[a].fence = event[j].fence
<1>2. delivered' = [delivered EXCEPT ![j] = @ \/ b]
  BY DEF NoteDelivery
<1>3. b \in BOOLEAN
  BY <1>1
<1> HIDE DEF b
<1>4. /\ delivered' \in [Jobs -> BOOLEAN]
      /\ \A k \in Jobs : delivered[k] => delivered'[k]
      /\ b => delivered'[j]
  BY <1>1, <1>2, <1>3
<1> QED
  BY <1>4 DEF b

LEMMA SetEvent ==
    ASSUME IInv, NEW j \in Jobs, NEW st \in {"pending", "delayed", "published"},
           event' = [event EXCEPT ![j].state = st]
    PROVE  /\ event' \in [Jobs -> EventShape]
           /\ event'[j].state = st
           /\ \A k \in Jobs : k # j => event'[k] = event[k]
BY DEF IInv, Shapes, EventShape

LEMMA AcknowledgeInvariant ==
    ASSUME IInv, NEW a \in Drainers, Acknowledge(a)
    PROVE  IInv'
<1>1. drain[a].event \in Jobs /\ (a \in Workers => worker[a].phase = "draining")
  BY DrainFacts DEF Acknowledge
<1>2. event' \in [Jobs -> EventShape] /\ event'[drain[a].event].state = "published"
      /\ \A k \in Jobs : k # drain[a].event => event'[k] = event[k]
  BY <1>1, SetEvent DEF Acknowledge
<1>3. delivered' \in [Jobs -> BOOLEAN] /\ delivered'[drain[a].event]
      /\ \A k \in Jobs : delivered[k] => delivered'[k]
  BY <1>1, NoteDeliveryIsMonotonic DEF Acknowledge, LeaseIsMine
<1>4. PublishedWasDelivered'
  BY <1>2, <1>3 DEF PublishedWasDelivered, IInv
<1>5. PICK d \in DrainShape : d = [IdleDrain EXCEPT !.phase = "claim"] /\ d.phase = "claim"
  <2> DEFINE d == [IdleDrain EXCEPT !.phase = "claim"]
  <2>1. d \in DrainShape /\ d.phase = "claim"
    BY DEF IdleDrain, DrainShape, DrainPhase
  <2> QED
    BY <2>1
<1>6. drain' = [drain EXCEPT ![a] = d]
  BY <1>5 DEF Acknowledge
<1>7. UNCHANGED <<handoff, lease, worker>> /\ NoShorterLease
  BY DEF Acknowledge, NoShorterLease
<1>8. Moved /\ drain' \in [Drainers -> DrainShape]
  BY <1>1, <1>5, <1>6, <1>7, DrainStepMoves DEF OnARun
<1>9. Shapes'
  BY <1>2, <1>3, <1>8 DEF IInv, Shapes, Acknowledge
<1> QED
  BY <1>4, <1>8, <1>9, MovedKeeps

LEMMA RetryInvariant ==
    ASSUME IInv, NEW a \in Drainers, Retry(a)
    PROVE  IInv'
<1>1. drain[a].event \in Jobs
  BY DrainFacts DEF Retry
<1>2. event' \in [Jobs -> EventShape] /\ event'[drain[a].event].state = "delayed"
      /\ \A k \in Jobs : k # drain[a].event => event'[k] = event[k]
  BY <1>1, SetEvent DEF Retry
<1>3. delivered' \in [Jobs -> BOOLEAN]
  BY DEF Retry, IInv, Shapes
<1>4. PublishedWasDelivered'
  BY <1>2 DEF PublishedWasDelivered, IInv, Retry
<1> QED
  BY <1>2, <1>3, <1>4, ReturnInvariant DEF Retry

LEMMA DeliveryLostInvariant ==
    ASSUME IInv, NEW a \in Drainers, DeliveryLost(a)
    PROVE  IInv'
<1>1. drain[a].event \in Jobs
  BY DrainFacts DEF DeliveryLost
<1>2. event' \in [Jobs -> EventShape]
  BY DEF DeliveryLost, IInv, Shapes
<1>3. delivered' \in [Jobs -> BOOLEAN] /\ \A k \in Jobs : delivered[k] => delivered'[k]
  BY <1>1, NoteDeliveryIsMonotonic DEF DeliveryLost
<1>4. PublishedWasDelivered'
  BY <1>3 DEF PublishedWasDelivered, IInv, DeliveryLost
<1> QED
  BY <1>2, <1>3, <1>4, ReturnInvariant DEF DeliveryLost

LEMMA ClaimEventInvariant ==
    ASSUME IInv, NEW a \in Drainers, ClaimEvent(a)
    PROVE  IInv'
<1>1. PICK j \in {k \in Jobs : event[k].state = "pending"} \cup Overdue :
          /\ event' = [k \in Jobs |->
                IF k = j THEN [state |-> "leased", fence |-> event[k].fence + 1]
                ELSE IF k \in Overdue THEN [event[k] EXCEPT !.state = "pending"]
                ELSE event[k]]
          /\ delivered' = [delivered EXCEPT ![j] = FALSE]
          /\ drain' = [drain EXCEPT ![a].phase = "read", ![a].event = j,
                                    ![a].fence = event[j].fence + 1, ![a].ok = TRUE]
  BY DEF ClaimEvent
<1>2. j \in Jobs /\ (a \in Workers => worker[a].phase = "draining")
      /\ drain[a] \in DrainShape /\ drain = [b \in Drainers |-> drain[b]]
  BY DrainFacts DEF Overdue, ClaimEvent
<1>3. \A k \in Jobs : event[k] \in EventShape
  BY DEF IInv, Shapes
<1>4. event' \in [Jobs -> EventShape] /\ event'[j].state = "leased"
  BY <1>1, <1>2, <1>3 DEF EventShape
<1>5. \A k \in Jobs : k # j => event'[k].state = "pending" \/ event'[k] = event[k]
  BY <1>1, <1>3 DEF EventShape
<1>6. delivered' \in [Jobs -> BOOLEAN] /\ \A k \in Jobs : k # j => delivered'[k] = delivered[k]
  BY <1>1, <1>2 DEF IInv, Shapes
<1>7. PublishedWasDelivered'
  BY <1>4, <1>5, <1>6 DEF PublishedWasDelivered, IInv
<1>8. PICK f \in Nat : f = event[j].fence + 1
  BY <1>2, <1>3 DEF EventShape
<1>9. PICK d \in DrainShape :
         /\ d = [drain[a] EXCEPT !.phase = "read", !.event = j, !.fence = f, !.ok = TRUE]
         /\ d.phase = "read" /\ d.event = j
  <2>1. PICK row \in DrainShape : row = drain[a]
    BY <1>2
  <2> DEFINE d == [row EXCEPT !.phase = "read", !.event = j, !.fence = f, !.ok = TRUE]
  <2>2. d \in DrainShape /\ d.phase = "read" /\ d.event = j
    BY <1>2 DEF DrainShape, DrainPhase
  <2> QED
    BY <2>1, <2>2
<1>10. drain' = [drain EXCEPT ![a] = d]
  BY <1>1, <1>2, <1>8, <1>9
<1>11. NoShorterLease /\ late' \subseteq late
  BY DEF ClaimEvent, NoShorterLease, Event, Expiry
<1> UNCHANGED <<handoff, lease, worker>>
  BY DEF ClaimEvent
<1>12. Moved /\ drain' \in [Drainers -> DrainShape]
  BY <1>2, <1>9, <1>10, <1>11, DrainStepMoves DEF OnARun
<1>13. Shapes'
  BY <1>4, <1>6, <1>11, <1>12 DEF IInv, Shapes, ClaimEvent
<1> QED
  BY <1>7, <1>12, <1>13, MovedKeeps

-----------------------------------------------------------------------------
(* The steps of a worker that leave handoffs and leases alone.             *)

LEMMA OnlyWorkerInvariant ==
    ASSUME IInv, NEW w \in Workers, worker[w].phase # "draining", NEW v \in WorkerShape,
           worker' = [worker EXCEPT ![w] = v],
           \/ v = NoWorker
           \/ /\ worker[w].phase # "none" /\ v.phase # "none"
              /\ v.run = worker[w].run /\ v.fence = worker[w].fence
              /\ v.phase \in Alive => worker[w].phase \in Alive,
           UNCHANGED <<outbox, handoff, lease, late, drain, faults>>,
           run' \in [Runs -> RunShape],
           job' \in [Jobs -> {"absent", "queued", "running", "done", "lost"}]
    PROVE  IInv'
<1>1. /\ \A u \in Workers : GoesOn(u)
      /\ \A a \in Drainers : Waits(a)
      /\ worker' \in [Workers -> WorkerShape]
  BY WorkerStepMoves
<1>2. \A a \in Drainers : DrainMoves(a)
  BY DEF DrainMoves
<1>3. \A h \in Handoffs : Stays(h)
  BY DEF Stays
<1>4. \A r \in Runs : LeaseMoves(r)
  BY SameLeaseMoves DEF IInv, NoShorterLease
<1>5. Moved
  BY <1>1, <1>2, <1>3, <1>4 DEF Moved
<1>6. PublishedWasDelivered'
  BY SameOutbox
<1>7. Shapes'
  BY <1>1 DEF IInv, Shapes, outbox
<1> QED
  BY <1>5, <1>6, <1>7, MovedKeeps

(* What the invariant says of one worker.                                  *)
LEMMA WorkerFacts ==
    ASSUME IInv, NEW w \in Workers
    PROVE  /\ worker = [u \in Workers |-> worker[u]]
           /\ worker[w] \in WorkerShape
           /\ worker[w].phase # "none" =>
                /\ worker[w].run \in Runs
                /\ run[worker[w].run] \in RunShape
                /\ run[worker[w].run].status \in RunStatus
                /\ lease[worker[w].run] \in LeaseShape
           /\ run \in [Runs -> RunShape]
           /\ job \in [Jobs -> {"absent", "queued", "running", "done", "lost"}]
BY DEF IInv, Shapes, WorkerFits, RunShape

LEMMA BootInvariant ==
    ASSUME IInv, NEW w \in Workers, Boot(w)
    PROVE  IInv'
<1> DEFINE s == run[worker[w].run].status
<1>1. /\ worker[w].phase = "booting" /\ worker[w] \in WorkerShape /\ s \in RunStatus
      /\ run \in [Runs -> RunShape]
      /\ job \in [Jobs -> {"absent", "queued", "running", "done", "lost"}]
      /\ worker = [u \in Workers |-> worker[u]]
  BY WorkerFacts DEF Boot
<1>2. CASE worker' = [worker EXCEPT ![w].seen = s, ![w].phase = "claiming"]
  <2> PICK row \in WorkerShape, st \in RunStatus : row = worker[w] /\ st = s
    BY <1>1
  <2>1. PICK v \in WorkerShape :
           /\ v = [row EXCEPT !.phase = "claiming", !.seen = st]
           /\ v.phase = "claiming" /\ v.run = row.run /\ v.fence = row.fence
    <3> DEFINE v == [row EXCEPT !.phase = "claiming", !.seen = st]
    <3>1. v \in WorkerShape /\ v.phase = "claiming" /\ v.run = row.run /\ v.fence = row.fence
      BY DEF WorkerShape, WorkerPhase
    <3> QED
      BY <3>1
  <2>2. worker' = [worker EXCEPT ![w] = v]
    BY <1>1, <1>2, <2>1
  <2> QED
    BY <1>1, <2>1, <2>2, OnlyWorkerInvariant DEF Boot, Alive
<1>3. CASE Exit(w)
  BY <1>1, <1>3, NoWorkerShape, OnlyWorkerInvariant DEF Boot, Exit
<1> QED
  BY <1>2, <1>3 DEF Boot

LEMMA TakeJobInvariant ==
    ASSUME IInv, NEW w \in Workers, TakeJob(w)
    PROVE  IInv'
<1> DEFINE r == worker[w].run
<1>1. /\ worker[w].phase = "serving" /\ worker[w] \in WorkerShape /\ r \in Runs
      /\ run[r] \in RunShape
      /\ run \in [Runs -> RunShape]
      /\ job \in [Jobs -> {"absent", "queued", "running", "done", "lost"}]
      /\ worker = [u \in Workers |-> worker[u]]
  BY WorkerFacts DEF TakeJob
<1>2. PICK j \in Work(r, worker[w].seen) :
         /\ job' = [job EXCEPT ![j] = "running"]
         /\ worker' = [worker EXCEPT ![w].phase = "working", ![w].job = j,
                                     ![w].seen = "absent"]
  BY DEF TakeJob
<1>3. j \in Jobs
  BY DEF Work, QueuedJobs
<1> PICK row \in WorkerShape : row = worker[w]
  BY <1>1
<1>4. PICK v \in WorkerShape :
         /\ v = [row EXCEPT !.phase = "working", !.seen = "absent", !.job = j]
         /\ v.phase = "working" /\ v.run = row.run /\ v.fence = row.fence
  <2> DEFINE v == [row EXCEPT !.phase = "working", !.seen = "absent", !.job = j]
  <2>1. v \in WorkerShape /\ v.phase = "working" /\ v.run = row.run /\ v.fence = row.fence
    BY <1>3 DEF WorkerShape, WorkerPhase, RunStatus
  <2> QED
    BY <2>1
<1>5. worker' = [worker EXCEPT ![w] = v]
  BY <1>1, <1>2, <1>4
<1>6. job' \in [Jobs -> {"absent", "queued", "running", "done", "lost"}]
  BY <1>1, <1>2
<1>7. run' \in [Runs -> RunShape]
  BY <1>1 DEF TakeJob, SetRun, RunShape, RunStatus
<1>8. "working" \in Alive /\ "serving" \in Alive
  BY DEF Alive
<1>9. UNCHANGED <<outbox, handoff, lease, late, drain, faults>>
  BY DEF TakeJob
<1> QED
  BY <1>1, <1>4, <1>5, <1>6, <1>7, <1>8, <1>9, OnlyWorkerInvariant

LEMMA EmptyCycleInvariant ==
    ASSUME IInv, NEW w \in Workers, EmptyCycle(w)
    PROVE  IInv'
<1> DEFINE r == worker[w].run
           p == IF ~Executing(r) /\ run[r].status = "running" THEN "stopping" ELSE "serving"
<1>1. /\ worker[w].phase = "serving" /\ worker[w] \in WorkerShape
      /\ run[r].status \in RunStatus
      /\ run \in [Runs -> RunShape]
      /\ job \in [Jobs -> {"absent", "queued", "running", "done", "lost"}]
      /\ worker = [u \in Workers |-> worker[u]]
  BY WorkerFacts DEF EmptyCycle
<1>2. p \in WorkerPhase /\ p \in Alive /\ p # "none" /\ "serving" \in Alive
  BY DEF WorkerPhase, Alive
<1>3. worker' = [worker EXCEPT ![w].seen = run[r].status, ![w].phase = p]
  BY DEF EmptyCycle
<1> HIDE DEF p
<1> PICK row \in WorkerShape, st \in RunStatus, ph \in WorkerPhase :
        row = worker[w] /\ st = run[r].status /\ ph = p
  BY <1>1, <1>2
<1>4. PICK v \in WorkerShape :
         /\ v = [row EXCEPT !.phase = ph, !.seen = st]
         /\ v.phase = ph /\ v.run = row.run /\ v.fence = row.fence
  <2> DEFINE v == [row EXCEPT !.phase = ph, !.seen = st]
  <2>1. v \in WorkerShape /\ v.phase = ph /\ v.run = row.run /\ v.fence = row.fence
    BY DEF WorkerShape
  <2> QED
    BY <2>1
<1>5. worker' = [worker EXCEPT ![w] = v]
  BY <1>1, <1>3, <1>4
<1>6. UNCHANGED <<run, job, outbox, handoff, lease, late, drain, faults>>
  BY DEF EmptyCycle
<1> QED
  BY <1>1, <1>2, <1>4, <1>5, <1>6, OnlyWorkerInvariant

LEMMA StopMoves ==
    ASSUME IInv, NEW w \in Workers, worker[w].phase \in Alive, Stop(w)
    PROVE  \E v \in WorkerShape :
              /\ worker' = [worker EXCEPT ![w] = v]
              /\ worker[w].phase # "none" /\ v.phase # "none"
              /\ v.run = worker[w].run /\ v.fence = worker[w].fence
<1>1. worker[w] \in WorkerShape /\ worker = [u \in Workers |-> worker[u]]
  BY WorkerFacts
<1>2. PICK row \in WorkerShape : row = worker[w]
  BY <1>1
<1>3. PICK v \in WorkerShape :
         /\ v = [row EXCEPT !.phase = "stopping", !.seen = "absent", !.job = NoJob]
         /\ v.phase = "stopping" /\ v.run = row.run /\ v.fence = row.fence
  <2> DEFINE v == [row EXCEPT !.phase = "stopping", !.seen = "absent", !.job = NoJob]
  <2>1. v \in WorkerShape /\ v.phase = "stopping" /\ v.run = row.run /\ v.fence = row.fence
    BY DEF WorkerShape, WorkerPhase, RunStatus
  <2> QED
    BY <2>1
<1>4. worker' = [worker EXCEPT ![w] = v]
  BY <1>1, <1>2, <1>3 DEF Stop
<1> QED
  BY <1>2, <1>3, <1>4 DEF Alive

LEMMA QuiesceInvariant ==
    ASSUME IInv, NEW w \in Workers, Quiesce(w)
    PROVE  IInv'
<1>1. /\ run \in [Runs -> RunShape]
      /\ job \in [Jobs -> {"absent", "queued", "running", "done", "lost"}]
  BY WorkerFacts
<1>2. worker[w].phase = "serving" /\ worker[w].phase \in Alive
  BY DEF Quiesce, Alive
<1>3. PICK v \in WorkerShape :
              /\ worker' = [worker EXCEPT ![w] = v]
              /\ worker[w].phase # "none" /\ v.phase # "none"
              /\ v.run = worker[w].run /\ v.fence = worker[w].fence
  BY <1>2, StopMoves DEF Quiesce
<1> QED
  BY <1>1, <1>2, <1>3, OnlyWorkerInvariant DEF Quiesce

LEMMA LoseSupervisionInvariant ==
    ASSUME IInv, NEW w \in Workers, LoseSupervision(w)
    PROVE  IInv'
<1>1. /\ run \in [Runs -> RunShape]
      /\ job \in [Jobs -> {"absent", "queued", "running", "done", "lost"}]
  BY WorkerFacts
<1>2. worker[w].phase # "draining" /\ worker[w].phase \in Alive
  BY DEF LoseSupervision, Alive
<1>3. PICK v \in WorkerShape :
              /\ worker' = [worker EXCEPT ![w] = v]
              /\ worker[w].phase # "none" /\ v.phase # "none"
              /\ v.run = worker[w].run /\ v.fence = worker[w].fence
  BY <1>2, StopMoves DEF LoseSupervision
<1>4. job' \in [Jobs -> {"absent", "queued", "running", "done", "lost"}]
  BY <1>1 DEF LoseSupervision
<1> QED
  BY <1>1, <1>2, <1>3, <1>4, OnlyWorkerInvariant DEF LoseSupervision

LEMMA FinishJobInvariant ==
    ASSUME IInv, NEW w \in Workers, FinishJob(w)
    PROVE  IInv'
<1> DEFINE r == worker[w].run
           j == worker[w].job
<1>1. /\ worker[w].phase = "working" /\ worker[w] \in WorkerShape /\ r \in Runs
      /\ run \in [Runs -> RunShape]
      /\ job \in [Jobs -> {"absent", "queued", "running", "done", "lost"}]
      /\ worker = [u \in Workers |-> worker[u]]
      /\ run[r].status \in RunStatus
  BY WorkerFacts DEF FinishJob
<1>2. PICK new \in SUBSET {k \in Creates[j] : job[k] = "absent"} :
      \E status \in {run[r].status} \cup
            (IF run[r].status = "running" THEN {"failed_recoverable", "succeeded"}
                                          ELSE {}) :
         /\ job' = [k \in Jobs |-> IF k = j THEN "done"
                                   ELSE IF k \in new THEN "queued" ELSE job[k]]
         /\ event' = [k \in Jobs |-> IF k \in new THEN [event[k] EXCEPT !.state = "pending"]
                                     ELSE event[k]]
         /\ run' = [q \in Runs |->
               IF q = r /\ status # run[r].status
               THEN [status |-> status, version |-> run[r].version + 1]
               ELSE IF run[q].status = "absent" /\ \E k \in new : RunOf[k] = q
               THEN [run[q] EXCEPT !.status = "queued"]
               ELSE run[q]]
  BY DEF FinishJob
<1>3. job' \in [Jobs -> {"absent", "queued", "running", "done", "lost"}]
  BY <1>1, <1>2
<1>4. event' \in [Jobs -> EventShape] /\ delivered' \in [Jobs -> BOOLEAN]
      /\ \A k \in Jobs : event'[k].state = "published" => event[k].state = "published"
  BY <1>2 DEF IInv, Shapes, EventShape, FinishJob
<1>5. PublishedWasDelivered'
  BY <1>4 DEF PublishedWasDelivered, IInv, FinishJob
<1>6. run' \in [Runs -> RunShape]
  BY <1>1, <1>2 DEF RunShape, RunStatus
<1> PICK row \in WorkerShape : row = worker[w]
  BY <1>1
<1>7. PICK v \in WorkerShape :
         /\ v = [row EXCEPT !.phase = "draining", !.job = NoJob]
         /\ v.phase = "draining" /\ v.run = row.run /\ v.fence = row.fence
  <2> DEFINE v == [row EXCEPT !.phase = "draining", !.job = NoJob]
  <2>1. v \in WorkerShape /\ v.phase = "draining" /\ v.run = row.run /\ v.fence = row.fence
    BY DEF WorkerShape, WorkerPhase
  <2> QED
    BY <2>1
<1>8. worker' = [worker EXCEPT ![w] = v]
  BY <1>1, <1>7 DEF FinishJob
<1>9. "working" \in Alive
  BY DEF Alive
<1>10. /\ \A u \in Workers : GoesOn(u)
       /\ \A a \in Drainers : Waits(a)
       /\ worker' \in [Workers -> WorkerShape]
  BY <1>1, <1>7, <1>8, <1>9, WorkerStepMoves
<1>11. w \in Drainers /\ drain = [b \in Drainers |-> drain[b]] /\ drain[w] \in DrainShape
  BY DrainFacts DEF Drainers
<1>12. drain' \in [Drainers -> DrainShape] /\ drain'[w].phase = "claim"
       /\ \A a \in Drainers : a # w => drain'[a] = drain[a]
  <2> PICK old \in DrainShape : old = drain[w]
    BY <1>11
  <2>1. PICK d \in DrainShape : d = [old EXCEPT !.phase = "claim"] /\ d.phase = "claim"
    <3> DEFINE d == [old EXCEPT !.phase = "claim"]
    <3>1. d \in DrainShape /\ d.phase = "claim"
      BY DEF DrainShape, DrainPhase
    <3> QED
      BY <3>1
  <2>2. drain' = [drain EXCEPT ![w] = d]
    BY <1>11, <2>1 DEF FinishJob
  <2>3. drain \in [Drainers -> DrainShape]
    BY DEF IInv, Shapes
  <2> QED
    BY <1>11, <2>1, <2>2, <2>3
<1>13. worker'[w].phase = "draining"
  BY <1>1, <1>7, <1>8
<1>14. \A a \in Drainers : DrainMoves(a)
  BY <1>12, <1>13 DEF DrainMoves, DrainFits, OnARun
<1>15. UNCHANGED <<delivered, handoff, lease, late, faults>>
  BY DEF FinishJob
<1>16. \A h \in Handoffs : Stays(h)
  BY <1>15 DEF Stays
<1>17. \A q \in Runs : LeaseMoves(q)
  BY <1>15, SameLeaseMoves DEF IInv, NoShorterLease
<1>18. Moved
  BY <1>10, <1>14, <1>16, <1>17 DEF Moved
<1>19. Shapes'
  BY <1>3, <1>4, <1>6, <1>10, <1>12, <1>15 DEF IInv, Shapes
<1> QED
  BY <1>5, <1>18, <1>19, MovedKeeps

-----------------------------------------------------------------------------
(* The environment's steps on the processes.                               *)

LEMMA StartDirectInvariant ==
    ASSUME IInv, StartDirect
    PROVE  IInv'
<1>1. PICK r \in Runs :
         worker' = [worker EXCEPT ![Direct] =
                       [NoWorker EXCEPT !.phase = "booting", !.run = r]]
  BY DEF StartDirect
<1>2. Direct \in Workers /\ Direct \notin Handoffs /\ worker[Direct].phase = "none"
  BY DEF Workers, Handoffs, Direct, StartDirect
<1>3. PICK v \in WorkerShape : /\ v = [NoWorker EXCEPT !.phase = "booting", !.run = r]
                               /\ v.phase = "booting" /\ v.run = r
  <2> DEFINE v == [NoWorker EXCEPT !.phase = "booting", !.run = r]
  <2>1. v \in WorkerShape /\ v.phase = "booting" /\ v.run = r
    BY DEF NoWorker, WorkerShape, WorkerPhase, RunStatus
  <2> QED
    BY <2>1
<1>4. worker \in [Workers -> WorkerShape]
  BY DEF IInv, Shapes
<1>5. worker' \in [Workers -> WorkerShape] /\ worker'[Direct] = v
      /\ \A u \in Workers : u # Direct => worker'[u] = worker[u]
  BY <1>1, <1>2, <1>3, <1>4
<1>6. UNCHANGED <<run, job, outbox, handoff, lease, late, drain>>
      /\ faults' \in 0 .. MaxFaults
  BY ActivationAssumption DEF StartDirect, IInv, Shapes
<1>7. Begins(Direct)
  <2>1. WorkerFits(Direct)'
    BY <1>2, <1>3, <1>5 DEF WorkerFits, Alive
  <2>2. \A a \in Drainers : drain'[a].phase = "launch" => drain'[a].handoff # Direct
    BY <1>2, <1>6 DEF IInv, DrainFits
  <2> QED
    BY <2>1, <2>2 DEF Begins
<1>8. \A u \in Workers : GoesOn(u) \/ Begins(u)
  BY <1>5, <1>7, SameWorkerGoesOn DEF IInv
<1>9. \A a \in Drainers : DrainMoves(a) /\ Waits(a)
  BY <1>2, <1>5, <1>6 DEF DrainMoves, Waits, IInv, DrainFits
<1>10. \A h \in Handoffs : Stays(h)
  BY <1>6 DEF Stays
<1>11. \A q \in Runs : LeaseMoves(q)
  BY <1>6, SameLeaseMoves DEF IInv, NoShorterLease
<1>12. Moved
  BY <1>8, <1>9, <1>10, <1>11 DEF Moved
<1>13. PublishedWasDelivered'
  BY <1>6, SameOutbox
<1>14. Shapes'
  BY <1>5, <1>6 DEF IInv, Shapes, outbox
<1> QED
  BY <1>12, <1>13, <1>14, MovedKeeps

LEMMA KillWorkerInvariant ==
    ASSUME IInv, KillWorker
    PROVE  IInv'
<1>1. PICK w \in Workers :
         /\ worker' = [worker EXCEPT ![w] = NoWorker]
         /\ drain' = [drain EXCEPT ![w] = IdleDrain]
         /\ job' = IF worker[w].job = NoJob THEN job
                   ELSE [job EXCEPT ![worker[w].job] = "lost"]
  BY DEF KillWorker
<1>2. /\ worker \in [Workers -> WorkerShape] /\ drain \in [Drainers -> DrainShape]
      /\ job \in [Jobs -> {"absent", "queued", "running", "done", "lost"}]
  BY DEF IInv, Shapes
<1>3. job' \in [Jobs -> {"absent", "queued", "running", "done", "lost"}]
  BY <1>1, <1>2
<1>4. worker' \in [Workers -> WorkerShape] /\ worker'[w] = NoWorker
      /\ \A u \in Workers : u # w => worker'[u] = worker[u]
  BY <1>1, <1>2, NoWorkerShape
<1>5. drain' \in [Drainers -> DrainShape] /\ (w \in Drainers => drain'[w] = IdleDrain)
      /\ \A a \in Drainers : a # w => drain'[a] = drain[a]
  BY <1>1, <1>2, IdleDrainShape
<1>6. UNCHANGED <<run, outbox, handoff, lease, late>> /\ faults' \in 0 .. MaxFaults
  BY ActivationAssumption DEF KillWorker, IInv, Shapes
<1>7. \A u \in Workers : GoesOn(u)
  BY <1>4, SameWorkerGoesOn DEF IInv, GoesOn
<1>8. \A a \in Drainers : DrainMoves(a) /\ (a # w => Waits(a))
  BY <1>4, <1>5 DEF DrainMoves, DrainFits, Waits, IdleDrain, OnARun
<1>9. drain'[w] = drain[w] => Waits(w)
  BY <1>5 DEF Waits, IdleDrain, Drainers
<1>10. \A h \in Handoffs : Stays(h)
  BY <1>6 DEF Stays
<1>11. \A q \in Runs : LeaseMoves(q)
  BY <1>6, SameLeaseMoves DEF IInv, NoShorterLease
<1>12. Moved
  BY <1>7, <1>8, <1>9, <1>10, <1>11 DEF Moved
<1>13. PublishedWasDelivered'
  BY <1>6, SameOutbox
<1>14. Shapes'
  BY <1>3, <1>4, <1>5, <1>6 DEF IInv, Shapes, outbox
<1> QED
  BY <1>12, <1>13, <1>14, MovedKeeps

(* Steps that change no process.                                           *)
LEMMA NoProcessInvariant ==
    ASSUME IInv, UNCHANGED <<handoff, lease, drain, worker>>, NoShorterLease,
           late' \subseteq Clocked,
           run' \in [Runs -> RunShape],
           job' \in [Jobs -> {"absent", "queued", "running", "done", "lost"}],
           event' \in [Jobs -> EventShape], delivered' \in [Jobs -> BOOLEAN],
           PublishedWasDelivered', faults' \in 0 .. MaxFaults
    PROVE  IInv'
<1>1. \A u \in Workers : GoesOn(u)
  BY SameWorkerGoesOn DEF IInv
<1>2. \A a \in Drainers : DrainMoves(a) /\ Waits(a)
  BY DEF DrainMoves, Waits
<1>3. \A h \in Handoffs : Stays(h)
  BY DEF Stays
<1>4. \A q \in Runs : LeaseMoves(q)
  BY SameLeaseMoves DEF IInv
<1>5. Moved
  BY <1>1, <1>2, <1>3, <1>4 DEF Moved
<1>6. Shapes'
  BY DEF IInv, Shapes
<1> QED
  BY <1>5, <1>6, MovedKeeps

LEMMA CommitContinuationInvariant ==
    ASSUME IInv, CommitContinuation
    PROVE  IInv'
<1>1. PICK j \in Jobs : /\ SetRun(RunOf[j], "running")
                        /\ job' = [job EXCEPT ![j] = "queued"]
                        /\ event' = [event EXCEPT ![j].state = "pending"]
  BY DEF CommitContinuation
<1>2. event' \in [Jobs -> EventShape] /\ event'[j].state = "pending"
      /\ \A k \in Jobs : k # j => event'[k] = event[k]
  BY <1>1, SetEvent
<1>3. UNCHANGED <<delivered, handoff, lease, late, drain, worker, faults>>
  BY DEF CommitContinuation
<1>4. delivered' \in [Jobs -> BOOLEAN] /\ late' \subseteq Clocked /\ faults' \in 0 .. MaxFaults
      /\ NoShorterLease
  BY <1>3 DEF IInv, Shapes, NoShorterLease
<1>5. PublishedWasDelivered'
  BY <1>2, <1>3 DEF PublishedWasDelivered, IInv
<1>6. job' \in [Jobs -> {"absent", "queued", "running", "done", "lost"}]
  BY <1>1 DEF IInv, Shapes
<1>7. run' \in [Runs -> RunShape]
  <2> PICK r \in Runs : r = RunOf[j]
    BY ActivationAssumption
  <2>1. run' = [run EXCEPT ![r] = [status |-> "running", version |-> run[r].version + 1]]
    BY <1>1 DEF SetRun
  <2> QED
    BY <2>1 DEF IInv, Shapes, RunShape, RunStatus
<1> QED
  BY <1>2, <1>3, <1>4, <1>5, <1>6, <1>7, NoProcessInvariant

LEMMA WriteRunInvariant ==
    ASSUME IInv, WriteRun
    PROVE  IInv'
<1>1. PICK r \in Runs : run[r].status \in {"queued", "running"} /\ SetRun(r, run[r].status)
  BY DEF WriteRun
<1>2. run' \in [Runs -> RunShape]
  BY <1>1 DEF SetRun, IInv, Shapes, RunShape
<1>3. UNCHANGED <<job, outbox, handoff, lease, late, drain, worker>>
      /\ faults' \in 0 .. MaxFaults
  BY ActivationAssumption DEF WriteRun, IInv, Shapes
<1>4. /\ event' \in [Jobs -> EventShape] /\ delivered' \in [Jobs -> BOOLEAN]
      /\ PublishedWasDelivered'
  BY <1>3, SameOutbox
<1>5. late' \subseteq Clocked /\ NoShorterLease
      /\ job' \in [Jobs -> {"absent", "queued", "running", "done", "lost"}]
  BY <1>3 DEF IInv, Shapes, NoShorterLease
<1> QED
  BY <1>2, <1>3, <1>4, <1>5, NoProcessInvariant

LEMMA TimePasses ==
    ASSUME IInv, NEW x \in Running, late' = late \cup {x[1]},
           UNCHANGED <<run, job, outbox, handoff, lease, drain, worker>>,
           faults' \in 0 .. MaxFaults
    PROVE  IInv'
<1>1. x[1] \in Clocked
  BY DEF Running, Clocked
<1>2. /\ event' \in [Jobs -> EventShape] /\ delivered' \in [Jobs -> BOOLEAN]
      /\ PublishedWasDelivered'
  BY SameOutbox
<1>3. late' \subseteq Clocked /\ NoShorterLease /\ run' \in [Runs -> RunShape]
      /\ job' \in [Jobs -> {"absent", "queued", "running", "done", "lost"}]
  BY <1>1 DEF IInv, Shapes, NoShorterLease
<1> QED
  BY <1>2, <1>3, NoProcessInvariant

LEMMA LapseInvariant ==
    ASSUME IInv, Lapse
    PROVE  IInv'
<1>1. PICK x \in Running : late' = late \cup {x[1]}
  BY DEF Lapse
<1>2. UNCHANGED <<run, job, outbox, handoff, lease, drain, worker>>
      /\ faults' \in 0 .. MaxFaults
  BY DEF Lapse, IInv, Shapes
<1> QED
  BY <1>1, <1>2, TimePasses

LEMMA LapseEarlyInvariant ==
    ASSUME IInv, LapseEarly
    PROVE  IInv'
<1>1. PICK x \in Running : late' = late \cup {x[1]}
  BY DEF LapseEarly
<1>2. UNCHANGED <<run, job, outbox, handoff, lease, drain, worker>>
      /\ faults' \in 0 .. MaxFaults
  BY ActivationAssumption DEF LapseEarly, IInv, Shapes
<1> QED
  BY <1>1, <1>2, TimePasses

LEMMA DelayEndsInvariant ==
    ASSUME IInv, DelayEnds
    PROVE  IInv'
<1>1. PICK j \in Jobs : event' = [event EXCEPT ![j].state = "pending"]
  BY DEF DelayEnds
<1>2. event' \in [Jobs -> EventShape] /\ event'[j].state = "pending"
      /\ \A k \in Jobs : k # j => event'[k] = event[k]
  BY <1>1, SetEvent
<1>3. UNCHANGED <<run, job, delivered, handoff, lease, late, drain, worker, faults>>
  BY DEF DelayEnds
<1>4. /\ delivered' \in [Jobs -> BOOLEAN] /\ late' \subseteq Clocked
      /\ faults' \in 0 .. MaxFaults /\ run' \in [Runs -> RunShape] /\ NoShorterLease
      /\ job' \in [Jobs -> {"absent", "queued", "running", "done", "lost"}]
  BY <1>3 DEF IInv, Shapes, NoShorterLease
<1>5. PublishedWasDelivered'
  BY <1>2, <1>3 DEF PublishedWasDelivered, IInv
<1> QED
  BY <1>2, <1>3, <1>4, <1>5, NoProcessInvariant

-----------------------------------------------------------------------------
(* The steps on handoffs and leases.                                       *)

LEMMA HandoffFacts ==
    ASSUME IInv
    PROVE  /\ handoff \in [Handoffs -> HandoffShape] /\ lease \in [Runs -> LeaseShape]
           /\ worker \in [Workers -> WorkerShape] /\ drain \in [Drainers -> DrainShape]
           /\ \A w \in Workers : worker[w].fence \in Nat
           /\ \A r \in Runs : lease[r].fence \in Nat
BY DEF IInv, Shapes, WorkerShape, LeaseShape

LEMMA ForgetKeepsLeases ==
    ASSUME Forget
    PROVE  /\ late' \subseteq late
           /\ \A r \in Runs : lease'[r].state = "active" /\ Expiry(r) \in late
                              => Expiry(r) \in late'
BY DEF Forget, Expiry, Deadline

(* A lease that is closed keeps its token.                                 *)
LEMMA ClosingLeaseMoves ==
    ASSUME IInv, Forget, NEW q \in Runs, NEW st \in {"expired", "released"},
           \/ UNCHANGED lease
           \/ lease' = [lease EXCEPT ![q].state = st]
    PROVE  /\ lease' \in [Runs -> LeaseShape]
           /\ \A r \in Runs : LeaseMoves(r) /\ lease'[r].fence = lease[r].fence
           /\ lease' = lease \/ lease'[q].state # "active"
<1>1. lease \in [Runs -> LeaseShape] /\ \A r \in Runs : lease[r].fence \in Nat
  BY HandoffFacts
<1>2. /\ lease' \in [Runs -> LeaseShape]
      /\ \A r \in Runs : lease'[r].fence = lease[r].fence
      /\ \A r \in Runs : lease'[r].state = "active" => lease[r].state = "active"
      /\ lease' = lease \/ lease'[q].state # "active"
  BY <1>1 DEF LeaseShape
<1>3. \A r \in Runs : LeaseHeld(r)' => LeaseHeld(r)
  BY <1>2, ForgetKeepsLeases DEF LeaseHeld
<1>4. \A r \in Runs : LeaseMoves(r)
  BY <1>1, <1>2, <1>3 DEF LeaseMoves
<1> QED
  BY <1>2, <1>4

LEMMA ClosedShape ==
    \A st \in {"released", "failed", "expired"} :
        Closed(st) \in HandoffShape /\ Closed(st).state \notin Open
BY DEF Closed, NoHandoff, HandoffShape, Open

LEMMA ExpiredHandoffs ==
    ASSUME IInv, NEW H \in SUBSET Handoffs, ExpireHandoffs(H)
    PROVE  /\ handoff' \in [Handoffs -> HandoffShape]
           /\ \A h \in H : handoff'[h].state \notin Open
           /\ \A h \in Handoffs : h \notin H => handoff'[h] = handoff[h]
BY HandoffFacts, ClosedShape DEF ExpireHandoffs

LEMMA GoesTo ==
    ASSUME IInv, NEW a \in Drainers, NEW p \in DrainPhase, Go(a, p)
    PROVE  /\ drain' \in [Drainers -> DrainShape]
           /\ drain'[a].phase = p /\ drain'[a].run = drain[a].run
           /\ drain'[a].handoff = drain[a].handoff
           /\ \A b \in Drainers : b # a => drain'[b] = drain[b]
<1>1. drain \in [Drainers -> DrainShape]
  BY HandoffFacts
<1>2. PICK row \in DrainShape : row = drain[a]
  BY <1>1
<1>3. PICK d \in DrainShape : d = [row EXCEPT !.phase = p] /\ d.phase = p
                              /\ d.run = row.run /\ d.handoff = row.handoff
  BY PhaseRow
<1>4. drain' = [drain EXCEPT ![a] = d]
  BY <1>1, <1>2, <1>3 DEF Go
<1> QED
  BY <1>1, <1>2, <1>3, <1>4

LEMMA ReconcileInvariant ==
    ASSUME IInv, NEW a \in Drainers, Reconcile(a)
    PROVE  IInv'
<1> PICK r : r = drain[a].run
  OBVIOUS
<1> DEFINE H == {h \in ActiveHandoffs(r) : ShouldExpire(h)}
<1>1. /\ r \in Runs /\ drain[a].phase = "reconcile"
      /\ a \in Workers => worker[a].phase = "draining"
  BY DrainFacts DEF Reconcile, OnARun
<1>2. /\ handoff' \in [Handoffs -> HandoffShape]
      /\ \A h \in H : handoff'[h].state \notin Open
      /\ \A h \in Handoffs : h \notin H => handoff'[h] = handoff[h]
  <2> H \in SUBSET Handoffs
    BY DEF ActiveHandoffs
  <2> HIDE DEF H
  <2>1. ExpireHandoffs(H)
    BY DEF Reconcile, H
  <2> QED
    BY <2>1, ExpiredHandoffs
<1>3. /\ lease' \in [Runs -> LeaseShape]
      /\ \A q \in Runs : LeaseMoves(q) /\ lease'[q].fence = lease[q].fence
  BY <1>1, ClosingLeaseMoves DEF Reconcile, ExpireLease
<1>4. UNCHANGED <<run, job, outbox, worker, faults>> /\ late' \subseteq late
  BY ForgetKeepsLeases DEF Reconcile
<1>5. \A h \in Handoffs : Stays(h)
  <2> SUFFICES ASSUME NEW h \in H, worker[h].phase \in Alive,
                      handoff[h].state = "handed_off", Supervises(h)'
               PROVE  FALSE
    BY <1>2, <1>4 DEF Stays
  <2>1. h \in Handoffs /\ h \in Workers /\ handoff[h].run = r /\ ShouldExpire(h)
    BY DEF ActiveHandoffs, Workers
  <2>2. worker[h].run = r /\ handoff[h].fence = worker[h].fence
    BY <2>1 DEF IInv, WorkerFits, Open, Alive
  <2>3. LeaseHeld(r) /\ lease[r].fence = worker[h].fence
    <3>1. LeaseHeld(r)' /\ lease'[r].fence = worker[h].fence
      BY <1>4, <2>2 DEF Supervises
    <3>2. lease[r].fence \in Nat
      BY <1>1, HandoffFacts
    <3> QED
      BY <1>1, <1>3, <3>1, <3>2 DEF LeaseMoves
  <2> QED
    BY <2>1, <2>2, <2>3 DEF ShouldExpire, OwnsLease, LeaseHeld
<1>8. /\ drain' \in [Drainers -> DrainShape]
      /\ drain'[a].phase = "list" /\ drain'[a].run = r
      /\ \A b \in Drainers : b # a => drain'[b] = drain[b]
  <2> "list" \in DrainPhase
    BY DEF DrainPhase
  <2> QED
    BY GoesTo DEF Reconcile
<1>9. \A b \in Drainers : DrainMoves(b) /\ Waits(b)
  BY <1>1, <1>4, <1>8 DEF DrainMoves, DrainFits, Waits, OnARun
<1>10. \A w \in Workers : GoesOn(w)
  BY <1>4, SameWorkerGoesOn DEF IInv
<1>11. Moved
  BY <1>3, <1>5, <1>9, <1>10 DEF Moved
<1>12. Shapes'
  BY <1>2, <1>3, <1>4, <1>8 DEF IInv, Shapes, outbox
<1>13. PublishedWasDelivered'
  BY <1>4, SameOutbox
<1> QED
  BY <1>11, <1>12, <1>13, MovedKeeps

LEMMA LaunchFailsInvariant ==
    ASSUME IInv, NEW a \in Drainers, LaunchFails(a)
    PROVE  IInv'
<1> DEFINE h == drain[a].handoff
<1>1. /\ h \in Handoffs /\ drain[a].phase = "launch" /\ drain[a] \in DrainShape
      /\ drain = [b \in Drainers |-> drain[b]]
      /\ a \in Workers => worker[a].phase = "draining"
  BY DrainFacts DEF LaunchFails
<1>2. /\ handoff' \in [Handoffs -> HandoffShape]
      /\ \A k \in Handoffs : \/ handoff'[k] = handoff[k]
                             \/ handoff'[k].state \notin Open /\ handoff[k].state = "launching"
  BY <1>1, HandoffFacts, ClosedShape DEF LaunchFails
<1>3. \A k \in Handoffs : Stays(k)
  BY <1>2 DEF Stays
<1>4. UNCHANGED <<run, job, outbox, worker, lease>> /\ faults' \in 0 .. MaxFaults
      /\ Forget
  BY ActivationAssumption DEF LaunchFails, IInv, Shapes
<1>5. \A q \in Runs : LeaseMoves(q)
  BY <1>4, ClosingLeaseMoves
<1>6. PICK d \in DrainShape :
         /\ d = [drain[a] EXCEPT !.phase = "settle", !.ok = FALSE, !.run = 0, !.seen = 0,
                                 !.handoff = 0]
         /\ d.phase = "settle"
  BY <1>1, SettledRow
<1>7. drain' = [drain EXCEPT ![a] = d]
  BY <1>1, <1>6 DEF LaunchFails, Settle
<1>8. drain' \in [Drainers -> DrainShape] /\ drain'[a] = d
      /\ \A b \in Drainers : b # a => drain'[b] = drain[b]
  BY <1>1, <1>6, <1>7, HandoffFacts
<1>9. \A b \in Drainers : DrainMoves(b) /\ Waits(b)
  BY <1>1, <1>4, <1>6, <1>8 DEF DrainMoves, DrainFits, Waits, OnARun
<1>10. \A w \in Workers : GoesOn(w)
  BY <1>4, SameWorkerGoesOn DEF IInv
<1>11. Moved
  BY <1>3, <1>5, <1>9, <1>10 DEF Moved
<1>12. Shapes'
  BY <1>2, <1>4, <1>8, ForgetKeepsLeases DEF IInv, Shapes, outbox
<1>13. PublishedWasDelivered'
  BY <1>4, SameOutbox
<1> QED
  BY <1>11, <1>12, <1>13, MovedKeeps

LEMMA LaunchInvariant ==
    ASSUME IInv, NEW a \in Drainers, Launch(a)
    PROVE  IInv'
<1> PICK h, r : h = drain[a].handoff /\ r = drain[a].run
  OBVIOUS
<1>1. /\ h \in Handoffs /\ drain[a].phase = "launch" /\ r \in Runs
      /\ a \in Workers => worker[a].phase = "draining"
  BY DrainFacts DEF Launch, OnARun
<1>2. /\ h \in Workers /\ worker[h] = NoWorker
      /\ handoff[h].state \in Open => handoff[h].run = r
      /\ \A b \in Drainers : drain[b].phase = "launch" /\ drain[b].handoff = h => b = a
  BY <1>1 DEF IInv, LaunchFits, Workers
<1>3. PICK v \in WorkerShape : /\ v = [NoWorker EXCEPT !.phase = "booting", !.run = r]
                               /\ v.phase = "booting" /\ v.run = r
  <2> PICK q \in Runs : q = r
    BY <1>1
  <2> DEFINE v == [NoWorker EXCEPT !.phase = "booting", !.run = q]
  <2>1. v \in WorkerShape /\ v.phase = "booting" /\ v.run = q
    BY DEF NoWorker, WorkerShape, WorkerPhase, RunStatus
  <2> QED
    BY <2>1
<1>4. worker' \in [Workers -> WorkerShape] /\ worker'[h] = v
      /\ \A u \in Workers : u # h => worker'[u] = worker[u]
  BY <1>2, <1>3, HandoffFacts DEF Launch
<1>7. /\ drain' \in [Drainers -> DrainShape]
      /\ drain'[a].phase = "record" /\ drain'[a].run = r /\ drain'[a].handoff = h
      /\ \A b \in Drainers : b # a => drain'[b] = drain[b]
  <2> "record" \in DrainPhase
    BY DEF DrainPhase
  <2> QED
    BY GoesTo DEF Launch
<1>8. UNCHANGED <<run, job, outbox, handoff, lease, late, faults>>
  BY DEF Launch
<1>9. Begins(h)
  <2>1. WorkerFits(h)'
    BY <1>1, <1>2, <1>3, <1>4, <1>8 DEF WorkerFits, Alive
  <2>2. \A b \in Drainers : drain'[b].phase = "launch" => drain'[b].handoff # h
    BY <1>2, <1>7
  <2> QED
    BY <2>1, <2>2 DEF Begins
<1>10. \A w \in Workers : GoesOn(w) \/ Begins(w)
  BY <1>4, <1>9, SameWorkerGoesOn DEF IInv
<1>11. \A b \in Drainers : b \in Workers /\ drain[b].phase # "idle" => b # h
  BY <1>2 DEF IInv, DrainFits, NoWorker
<1>12. \A b \in Drainers : DrainMoves(b) /\ Waits(b)
  BY <1>1, <1>4, <1>7, <1>11 DEF DrainMoves, DrainFits, Waits, OnARun
<1>13. \A k \in Handoffs : Stays(k)
  BY <1>8 DEF Stays
<1>14. \A q \in Runs : LeaseMoves(q)
  BY <1>8, SameLeaseMoves DEF IInv, NoShorterLease
<1>15. Moved
  BY <1>10, <1>12, <1>13, <1>14 DEF Moved
<1>16. Shapes'
  BY <1>4, <1>7, <1>8 DEF IInv, Shapes, outbox
<1>17. PublishedWasDelivered'
  BY <1>8, SameOutbox
<1> QED
  BY <1>15, <1>16, <1>17, MovedKeeps

LEMMA ClaimRefusedInvariant ==
    ASSUME IInv, NEW w \in Workers, ClaimRefused(w)
    PROVE  IInv'
<1> DEFINE H == IF handoff[w].state = "launching" /\ Deadline(w) \in late THEN {w} ELSE {}
<1>1. w \in Handoffs /\ worker[w].phase = "claiming"
  BY DEF ClaimRefused, Workers
<1>2. /\ handoff' \in [Handoffs -> HandoffShape]
      /\ \A h \in Handoffs : handoff'[h] = handoff[h] \/ (h = w /\ handoff'[h].state \notin Open)
  <2>1. H \in SUBSET Handoffs /\ \A h \in H : h = w
    BY <1>1
  <2> HIDE DEF H
  <2>2. ExpireHandoffs(H)
    BY DEF ClaimRefused, H
  <2> QED
    BY <2>1, <2>2, ExpiredHandoffs
<1>3. UNCHANGED <<run, job, outbox, lease, drain, faults>> /\ Forget
      /\ worker' = [worker EXCEPT ![w] = NoWorker]
  BY DEF ClaimRefused, Exit
<1>4. /\ \A u \in Workers : GoesOn(u)
      /\ \A a \in Drainers : Waits(a)
      /\ worker' \in [Workers -> WorkerShape]
  BY <1>1, <1>3, NoWorkerShape, WorkerStepMoves
<1>5. worker'[w] = NoWorker
  BY <1>3, HandoffFacts
<1>6. \A h \in Handoffs : Stays(h)
  BY <1>2, <1>5 DEF Stays, NoWorker, Alive
<1>7. \A a \in Drainers : DrainMoves(a)
  BY <1>3 DEF DrainMoves
<1>8. \A q \in Runs : LeaseMoves(q)
  BY <1>3, ClosingLeaseMoves
<1>9. Moved
  BY <1>4, <1>6, <1>7, <1>8 DEF Moved
<1>10. Shapes'
  BY <1>2, <1>3, <1>4, ForgetKeepsLeases DEF IInv, Shapes, outbox
<1>11. PublishedWasDelivered'
  BY <1>3, SameOutbox
<1> QED
  BY <1>9, <1>10, <1>11, MovedKeeps

LEMMA LeaveInvariant ==
    ASSUME IInv, NEW w \in Workers, Leave(w)
    PROVE  IInv'
<1> PICK r : r = worker[w].run
  OBVIOUS
<1>1. worker[w].phase = "stopping" /\ r \in Runs
  BY WorkerFacts DEF Leave
<1>2. /\ handoff' \in [Handoffs -> HandoffShape]
      /\ \A h \in Handoffs : handoff'[h] = handoff[h] \/ (h = w /\ handoff'[h].state \notin Open)
  BY HandoffFacts, ClosedShape DEF Leave
<1>3. UNCHANGED <<run, job, outbox, drain, faults>> /\ Forget
      /\ worker' = [worker EXCEPT ![w] = NoWorker]
  BY DEF Leave, Exit
<1>4. /\ \A u \in Workers : GoesOn(u)
      /\ \A a \in Drainers : Waits(a)
      /\ worker' \in [Workers -> WorkerShape]
  BY <1>1, <1>3, NoWorkerShape, WorkerStepMoves
<1>5. worker'[w] = NoWorker
  BY <1>3, HandoffFacts
<1>6. \A h \in Handoffs : Stays(h)
  BY <1>2, <1>5 DEF Stays, NoWorker, Alive
<1>7. \A a \in Drainers : DrainMoves(a)
  BY <1>3 DEF DrainMoves
<1>8. lease' \in [Runs -> LeaseShape] /\ \A q \in Runs : LeaseMoves(q)
  <2>1. UNCHANGED lease \/ lease' = [lease EXCEPT ![r].state = "released"]
    BY DEF Leave
  <2> QED
    BY <1>1, <1>3, <2>1, ClosingLeaseMoves
<1>9. Moved
  BY <1>4, <1>6, <1>7, <1>8 DEF Moved
<1>10. Shapes'
  BY <1>2, <1>3, <1>4, <1>8, ForgetKeepsLeases DEF IInv, Shapes, outbox
<1>11. PublishedWasDelivered'
  BY <1>3, SameOutbox
<1> QED
  BY <1>9, <1>10, <1>11, MovedKeeps

(* A new lease: nobody else supervises the Run any more.                   *)
LEMMA NewLeaseMoves ==
    ASSUME IInv, NEW r \in Runs, NEW f \in Nat, f = lease[r].fence + 1,
           lease' = [lease EXCEPT ![r] = [state |-> "active", fence |-> f]],
           \A q \in Runs : q # r /\ Expiry(q) \in late => Expiry(q) \in late'
    PROVE  /\ lease' \in [Runs -> LeaseShape]
           /\ lease'[r].fence = f
           /\ \A q \in Runs : LeaseMoves(q)
<1>1. lease \in [Runs -> LeaseShape] /\ \A q \in Runs : lease[q].fence \in Nat
  BY HandoffFacts
<1>2. lease' \in [Runs -> LeaseShape] /\ lease'[r].fence = f
      /\ \A q \in Runs : q # r => lease'[q] = lease[q]
  BY <1>1 DEF LeaseShape
<1>3. LeaseMoves(r)
  BY <1>1, <1>2 DEF LeaseMoves
<1>4. \A q \in Runs : q # r => LeaseMoves(q)
  BY <1>1, <1>2 DEF LeaseMoves, LeaseHeld
<1> QED
  BY <1>2, <1>3, <1>4

LEMMA ClaimHandoffInvariant ==
    ASSUME IInv, NEW w \in Workers, ClaimHandoff(w)
    PROVE  IInv'
<1>1. PICK r \in Runs, f \in Nat : r = worker[w].run /\ f = lease[r].fence + 1 /\ f > 0
  BY WorkerFacts, HandoffFacts DEF ClaimHandoff
<1>2. /\ w \in Handoffs /\ worker[w].phase = "claiming" /\ handoff[w].state = "launching"
      /\ handoff[w].run = r
  BY <1>1 DEF ClaimHandoff, MayClaim, Workers, IInv, WorkerFits, Open
<1>3. /\ handoff' = [handoff EXCEPT ![w] = [@ EXCEPT !.state = "handed_off",
                                                     !.expected = 0, !.fence = f]]
      /\ lease' = [lease EXCEPT ![r] = [state |-> "active", fence |-> f]]
      /\ late' = late \ {Expiry(r), Deadline(w)}
      /\ worker' = [worker EXCEPT ![w].phase = "serving", ![w].fence = f]
      /\ UNCHANGED <<run, job, outbox, drain, faults>>
  BY <1>1 DEF ClaimHandoff, NextFence
<1>4. \A q \in Runs : q # r /\ Expiry(q) \in late => Expiry(q) \in late'
  BY <1>3 DEF Expiry, Deadline
<1>5. /\ lease' \in [Runs -> LeaseShape] /\ lease'[r].fence = f
      /\ \A q \in Runs : LeaseMoves(q)
  BY <1>1, <1>3, <1>4, NewLeaseMoves
<1>6. /\ handoff' \in [Handoffs -> HandoffShape]
      /\ handoff'[w].state = "handed_off" /\ handoff'[w].run = r /\ handoff'[w].fence = f
      /\ \A h \in Handoffs : h # w => handoff'[h] = handoff[h]
  BY <1>2, <1>3, HandoffFacts DEF HandoffShape
<1>7. /\ worker' \in [Workers -> WorkerShape]
      /\ worker'[w].phase = "serving" /\ worker'[w].run = r /\ worker'[w].fence = f
      /\ \A u \in Workers : u # w => worker'[u] = worker[u]
  BY <1>1, <1>3, HandoffFacts DEF WorkerShape, WorkerPhase
<1>8. Begins(w)
  <2>1. WorkerFits(w)'
    BY <1>5, <1>6, <1>7 DEF WorkerFits, Alive
  <2>2. \A a \in Drainers : drain'[a].phase = "launch" => drain'[a].handoff # w
    BY <1>2, <1>3 DEF IInv, LaunchFits, NoWorker
  <2> QED
    BY <2>1, <2>2 DEF Begins
<1>9. \A u \in Workers : GoesOn(u) \/ Begins(u)
  BY <1>7, <1>8, SameWorkerGoesOn DEF IInv
<1>10. \A a \in Drainers : DrainMoves(a) /\ Waits(a)
  BY <1>2, <1>3, <1>7 DEF DrainMoves, Waits, IInv, DrainFits
<1>11. \A h \in Handoffs : Stays(h)
  BY <1>1, <1>2, <1>6, <1>8 DEF Stays, Open
<1>12. Moved
  BY <1>5, <1>9, <1>10, <1>11 DEF Moved
<1>13. Shapes'
  BY <1>3, <1>5, <1>6, <1>7 DEF IInv, Shapes, outbox
<1>14. PublishedWasDelivered'
  BY <1>3, SameOutbox
<1> QED
  BY <1>12, <1>13, <1>14, MovedKeeps

LEMMA AcquireInvariant ==
    ASSUME IInv, NEW w \in Workers, Acquire(w)
    PROVE  IInv'
<1>1. PICK r \in Runs, f \in Nat : r = worker[w].run /\ f = lease[r].fence + 1
  BY WorkerFacts, HandoffFacts DEF Acquire
<1>2. w \notin Handoffs /\ worker[w].phase = "claiming"
      /\ UNCHANGED <<run, job, outbox, handoff, drain, faults>>
  BY DEF Acquire, Direct, Handoffs
<1>3. CASE LeaseHeld(r)
  <2>1. worker' = [worker EXCEPT ![w] = NoWorker] /\ UNCHANGED <<lease, late>>
    BY <1>1, <1>3 DEF Acquire, Exit
  <2> QED
    BY <1>2, <2>1, NoWorkerShape, OnlyWorkerInvariant, WorkerFacts
<1>4. CASE ~LeaseHeld(r)
  <2>1. /\ lease' = [lease EXCEPT ![r] = [state |-> "active", fence |-> f]]
        /\ late' = late \ {Expiry(r)}
        /\ worker' = [worker EXCEPT ![w].phase = "serving", ![w].fence = f]
    BY <1>1, <1>4 DEF Acquire, NextFence
  <2>2. \A q \in Runs : q # r /\ Expiry(q) \in late => Expiry(q) \in late'
    BY <2>1 DEF Expiry
  <2>3. /\ lease' \in [Runs -> LeaseShape] /\ lease'[r].fence = f
        /\ \A q \in Runs : LeaseMoves(q)
    BY <1>1, <2>1, <2>2, NewLeaseMoves
  <2>4. /\ worker' \in [Workers -> WorkerShape]
        /\ worker'[w].phase = "serving" /\ worker'[w].run = r /\ worker'[w].fence = f
        /\ \A u \in Workers : u # w => worker'[u] = worker[u]
    BY <1>1, <2>1, HandoffFacts DEF WorkerShape, WorkerPhase
  <2>5. Begins(w)
    <3>1. WorkerFits(w)'
      BY <1>2, <2>3, <2>4 DEF WorkerFits, Alive
    <3>2. \A a \in Drainers : drain'[a].phase = "launch" => drain'[a].handoff # w
      BY <1>2 DEF IInv, LaunchFits, NoWorker
    <3> QED
      BY <3>1, <3>2 DEF Begins
  <2>6. \A u \in Workers : GoesOn(u) \/ Begins(u)
    BY <2>4, <2>5, SameWorkerGoesOn DEF IInv
  <2>7. \A a \in Drainers : DrainMoves(a) /\ Waits(a)
    BY <1>2, <2>4 DEF DrainMoves, Waits, IInv, DrainFits
  <2>8. \A h \in Handoffs : Stays(h)
    BY <1>2 DEF Stays
  <2>9. Moved
    BY <2>3, <2>6, <2>7, <2>8 DEF Moved
  <2>10. Shapes'
    BY <1>2, <2>1, <2>3, <2>4 DEF IInv, Shapes, outbox
  <2>11. PublishedWasDelivered'
    BY <1>2, SameOutbox
  <2> QED
    BY <2>9, <2>10, <2>11, MovedKeeps
<1> QED
  BY <1>3, <1>4

LEMMA ReserveInvariant ==
    ASSUME IInv, NEW a \in Drainers, Reserve(a)
    PROVE  IInv'
<1> PICK r \in Runs, n \in Nat : r = drain[a].run /\ n = drain[a].seen
  BY DrainFacts DEF Reserve, OnARun
<1>1. Min(Unused) \in Unused
  BY MinIsMember DEF Reserve, Unused
<1> PICK h \in Unused : h = Min(Unused)
  BY <1>1
<1>2. /\ h \in Handoffs /\ h \in Workers /\ worker[h] = NoWorker
      /\ handoff[h].state \notin Open
      /\ \A b \in Drainers : drain[b].handoff # h
  BY DEF Unused, Open, Workers
<1>3. /\ handoff' = [k \in Handoffs |->
            IF k = h THEN [NoHandoff EXCEPT !.state = "launching", !.run = r, !.expected = n]
            ELSE IF k \in ActiveHandoffs(r) /\ ShouldExpire(k) THEN Closed("expired")
            ELSE handoff[k]]
      /\ drain' = [drain EXCEPT ![a].phase = "launch", ![a].handoff = h]
      /\ drain[a].phase = "reserve" /\ MayReserve(r)
      /\ UNCHANGED <<run, job, outbox, worker, faults>> /\ Forget
      /\ a \in Workers => worker[a].phase = "draining"
  BY DrainFacts DEF Reserve
<1>4. /\ lease' \in [Runs -> LeaseShape]
      /\ \A q \in Runs : LeaseMoves(q) /\ lease'[q].fence = lease[q].fence
      /\ lease'[r].state # "active"
  <2>1. \/ lease' = [lease EXCEPT ![r].state = "expired"] /\ lease[r].state = "active"
        \/ UNCHANGED lease /\ lease[r].state # "active"
    BY DEF Reserve, ExpireLease
  <2>2. CASE UNCHANGED lease /\ lease[r].state # "active"
    <3>1. /\ lease' \in [Runs -> LeaseShape]
          /\ \A q \in Runs : LeaseMoves(q) /\ lease'[q].fence = lease[q].fence
      BY <1>3, <2>2, ClosingLeaseMoves
    <3> QED
      BY <2>2, <3>1
  <2>3. CASE lease' = [lease EXCEPT ![r].state = "expired"] /\ lease[r].state = "active"
    <3>1. /\ lease' \in [Runs -> LeaseShape]
          /\ \A q \in Runs : LeaseMoves(q) /\ lease'[q].fence = lease[q].fence
      BY <1>3, <2>3, ClosingLeaseMoves
    <3>2. lease'[r].state = "expired"
      BY <2>3, HandoffFacts DEF LeaseShape
    <3> QED
      BY <3>1, <3>2
  <2> QED
    BY <2>1, <2>2, <2>3
<1>5. /\ handoff' \in [Handoffs -> HandoffShape]
      /\ handoff'[h].state = "launching" /\ handoff'[h].run = r
  <2> DEFINE new == [NoHandoff EXCEPT !.state = "launching", !.run = r, !.expected = n]
  <2>1. new \in HandoffShape /\ new.state = "launching" /\ new.run = r
    BY DEF NoHandoff, HandoffShape
  <2>2. /\ DOMAIN handoff' = Handoffs /\ handoff' = [k \in Handoffs |-> handoff'[k]]
        /\ handoff'[h] = new
        /\ \A k \in Handoffs : handoff'[k] \in {new, Closed("expired"), handoff[k]}
    BY <1>2, <1>3
  <2> HIDE DEF new
  <2>3. \A k \in Handoffs : handoff'[k] \in HandoffShape
    BY <2>1, <2>2, ClosedShape, HandoffFacts
  <2> QED
    BY <2>1, <2>2, <2>3
<1>6. \A k \in Handoffs : k # h =>
         \/ handoff'[k] = handoff[k] /\ ~(handoff[k].state \in Open /\ handoff[k].run = r)
         \/ handoff'[k].state \notin Open /\ handoff[k].run = r /\ handoff[k].state \in Open
  BY <1>3, ClosedShape DEF MayReserve, ActiveHandoffs, Open
<1>7. /\ drain' \in [Drainers -> DrainShape]
      /\ drain'[a].phase = "launch" /\ drain'[a].run = r /\ drain'[a].handoff = h
      /\ \A b \in Drainers : b # a => drain'[b] = drain[b]
  BY <1>2, <1>3, HandoffFacts DEF DrainShape, DrainPhase
<1>8. \A k \in Handoffs : k # h => Stays(k)
  <2> SUFFICES ASSUME NEW k \in Handoffs, k # h, handoff'[k].state \notin Open,
                      handoff[k].run = r, handoff[k].state = "handed_off",
                      worker[k].phase \in Alive, Supervises(k)'
               PROVE  FALSE
    BY <1>3, <1>6 DEF Stays
  <2>1. worker[k].run = r
    BY DEF IInv, WorkerFits, Open, Alive, Workers
  <2> QED
    BY <1>3, <1>4, <2>1 DEF Supervises, LeaseHeld
<1>9. Shapes'
  BY <1>3, <1>4, <1>5, <1>7, ForgetKeepsLeases DEF IInv, Shapes, outbox
<1>10. \A b \in Drainers : DrainFits(b)'
  BY <1>2, <1>3, <1>7 DEF IInv, DrainFits, OnARun
<1>11. \A b \in Drainers : LaunchFits(b)'
  <2>1. LaunchFits(a)'
    BY <1>2, <1>3, <1>5, <1>7 DEF LaunchFits
  <2>2. ASSUME NEW b \in Drainers, b # a, drain[b].phase = "launch"
        PROVE  LaunchFits(b)'
    <3> PICK k : k = drain[b].handoff
      OBVIOUS
    <3>1. k \in Handoffs /\ k # h /\ drain'[b].handoff = k /\ drain'[b] = drain[b]
      BY <1>2, <1>7, <2>2 DEF IInv, DrainFits
    <3>2. worker'[k] = NoWorker
      BY <1>3, <2>2 DEF IInv, LaunchFits
    <3>3. handoff'[k].state \in Open => handoff'[k].run = drain'[b].run
      BY <1>6, <2>2, <3>1 DEF IInv, LaunchFits
    <3>4. \A c \in Drainers : drain'[c].phase = "launch" /\ drain'[c].handoff = k => c = b
      BY <1>7, <2>2, <3>1 DEF IInv, LaunchFits
    <3> QED
      BY <3>1, <3>2, <3>3, <3>4 DEF LaunchFits
  <2>3. ASSUME NEW b \in Drainers, b # a, drain[b].phase # "launch"
        PROVE  LaunchFits(b)'
    BY <1>7, <2>3 DEF LaunchFits
  <2> QED
    BY <2>1, <2>2, <2>3
<1>12. \A w \in Workers : WorkerFits(w)'
  <2>1. WorkerFits(h)'
    BY <1>2, <1>3 DEF WorkerFits, NoWorker, Alive
  <2>2. ASSUME NEW w \in Workers, w # h
        PROVE  WorkerFits(w)'
    <3>1. WorkerFits(w) /\ Shapes /\ GoesOn(w)
      BY <1>3, SameWorkerGoesOn DEF IInv
    <3> QED
      BY <1>4, <1>8, <1>9, <2>2, <3>1, WorkerIsKept
  <2> QED
    BY <2>1, <2>2
<1>13. \A k \in Handoffs : HandoffFits(k)'
  <2>1. \A k \in Handoffs : k # h /\ handoff'[k].state \in Open
                            => handoff'[k] = handoff[k] /\ handoff[k].run # r
    BY <1>6
  <2>2. HandoffFits(h)'
    BY <1>5, <2>1 DEF HandoffFits
  <2>3. ASSUME NEW k \in Handoffs, k # h
        PROVE  HandoffFits(k)'
    BY <1>5, <2>1, <2>3 DEF IInv, HandoffFits, Open
  <2> QED
    BY <2>2, <2>3
<1>14. PublishedWasDelivered'
  BY <1>3, SameOutbox
<1> QED
  BY <1>9, <1>10, <1>11, <1>12, <1>13, <1>14 DEF IInv

-----------------------------------------------------------------------------
(* The specification keeps the invariant.                                  *)

LEMMA InitInvariant == Init => IInv
<1> SUFFICES ASSUME Init
             PROVE  IInv
  OBVIOUS
<1>1. Shapes
  <2>1. run \in [Runs -> RunShape]
    BY DEF Init, RunShape, RunStatus
  <2>2. /\ job \in [Jobs -> {"absent", "queued", "running", "done", "lost"}]
        /\ event \in [Jobs -> EventShape] /\ delivered \in [Jobs -> BOOLEAN]
    BY DEF Init, EventShape
  <2>3. handoff \in [Handoffs -> HandoffShape] /\ lease \in [Runs -> LeaseShape]
    BY DEF Init, HandoffShape, NoHandoff, LeaseShape
  <2>4. drain \in [Drainers -> DrainShape] /\ worker \in [Workers -> WorkerShape]
    BY IdleDrainShape, NoWorkerShape DEF Init
  <2>5. late \subseteq Clocked /\ faults \in 0 .. MaxFaults
    BY ActivationAssumption DEF Init
  <2> QED
    BY <2>1, <2>2, <2>3, <2>4, <2>5 DEF Shapes
<1>2. \A a \in Drainers : DrainFits(a) /\ LaunchFits(a)
  BY DEF Init, DrainFits, LaunchFits, IdleDrain, OnARun
<1>3. \A w \in Workers : WorkerFits(w)
  BY DEF Init, WorkerFits, NoWorker, Alive
<1>4. \A h \in Handoffs : HandoffFits(h)
  BY DEF Init, HandoffFits, NoHandoff, Open
<1>5. PublishedWasDelivered
  BY DEF Init, PublishedWasDelivered
<1> QED
  BY <1>1, <1>2, <1>3, <1>4, <1>5 DEF IInv

LEMMA DrainStepInvariant ==
    ASSUME IInv, NEW a \in Drainers, DrainStep(a)
    PROVE  IInv'
<1>1. CASE StartDrain(a) \/ ClaimEvent(a) \/ ListQueued(a) \/ ReadEvent(a)
  BY <1>1, StartDrainInvariant, ClaimEventInvariant, ListQueuedInvariant, ReadEventInvariant
<1>2. CASE SweepJob(a) \/ FinishSweep(a) \/ Reconcile(a) \/ ListHandoffs(a)
  BY <1>2, SweepJobInvariant, FinishSweepInvariant, ReconcileInvariant, ListHandoffsInvariant
<1>3. CASE Reserve(a) \/ ReserveRefused(a) \/ Launch(a) \/ Record(a)
  BY <1>3, ReserveInvariant, ReserveRefusedInvariant, LaunchInvariant, RecordInvariant
<1>4. CASE Acknowledge(a) \/ Retry(a) \/ DeliveryLost(a) \/ SweptOne(a)
  BY <1>4, AcknowledgeInvariant, RetryInvariant, DeliveryLostInvariant, SweptOneInvariant
<1> QED
  BY <1>1, <1>2, <1>3, <1>4 DEF DrainStep

LEMMA WorkerStepInvariant ==
    ASSUME IInv, NEW w \in Workers, WorkerStep(w)
    PROVE  IInv'
<1>1. CASE Boot(w) \/ ClaimHandoff(w) \/ ClaimRefused(w) \/ Acquire(w)
  BY <1>1, BootInvariant, ClaimHandoffInvariant, ClaimRefusedInvariant, AcquireInvariant
<1>2. CASE TakeJob(w) \/ FinishJob(w) \/ EmptyCycle(w) \/ Quiesce(w)
  BY <1>2, TakeJobInvariant, FinishJobInvariant, EmptyCycleInvariant, QuiesceInvariant
<1>3. CASE LoseSupervision(w) \/ Leave(w)
  BY <1>3, LoseSupervisionInvariant, LeaveInvariant
<1>4. CASE DrainStep(w)
  BY <1>4, DrainStepInvariant DEF Drainers
<1> QED
  BY <1>1, <1>2, <1>3, <1>4 DEF WorkerStep

LEMMA EnvironmentInvariant ==
    ASSUME IInv, Environment \/ Clock
    PROVE  IInv'
<1>1. CASE StartDirect \/ CommitContinuation \/ WriteRun \/ KillDrain
  BY <1>1, StartDirectInvariant, CommitContinuationInvariant, WriteRunInvariant,
     KillDrainInvariant
<1>2. CASE KillWorker \/ LapseEarly \/ Lapse \/ DelayEnds
  BY <1>2, KillWorkerInvariant, LapseEarlyInvariant, LapseInvariant, DelayEndsInvariant
<1>3. CASE \E a \in Drainers : LaunchFails(a)
  BY <1>3, LaunchFailsInvariant
<1> QED
  BY <1>1, <1>2, <1>3 DEF Environment, Clock

LEMMA StutterInvariant ==
    ASSUME IInv, UNCHANGED vars
    PROVE  IInv'
<1>1. UNCHANGED <<run, job, handoff, lease, late, drain, worker, faults>> /\ UNCHANGED outbox
  BY DEF vars, outbox
<1>2. /\ event' \in [Jobs -> EventShape] /\ delivered' \in [Jobs -> BOOLEAN]
      /\ PublishedWasDelivered'
  BY <1>1, SameOutbox
<1>3. /\ late' \subseteq Clocked /\ NoShorterLease /\ run' \in [Runs -> RunShape]
      /\ job' \in [Jobs -> {"absent", "queued", "running", "done", "lost"}]
      /\ faults' \in 0 .. MaxFaults
  BY <1>1 DEF IInv, Shapes, NoShorterLease
<1> QED
  BY <1>1, <1>2, <1>3, NoProcessInvariant

LEMMA NextInvariant == IInv /\ [Next]_vars => IInv'
<1> SUFFICES ASSUME IInv, [Next]_vars
             PROVE  IInv'
  OBVIOUS
<1>1. CASE \E a \in Operators : DrainStep(a)
  BY <1>1, DrainStepInvariant DEF Drainers
<1>2. CASE \E w \in Workers : WorkerStep(w)
  BY <1>2, WorkerStepInvariant
<1>3. CASE Environment \/ Clock
  BY <1>3, EnvironmentInvariant
<1>4. CASE UNCHANGED vars
  BY <1>4, StutterInvariant
<1> QED
  BY <1>1, <1>2, <1>3, <1>4 DEF Next

-----------------------------------------------------------------------------
(* What it implies.                                                        *)

(* Every row has the shape the module says, and an open handoff always      *)
(* names a Run; a claimed one always has a real fencing token (the rows of  *)
(* run_worker_handoffs, worker_leases and outbox).                         *)
LEMMA InvariantTypes == IInv => TypeOK
<1> SUFFICES ASSUME IInv
             PROVE  TypeOK
  OBVIOUS
<1>1. \A h \in Handoffs :
         /\ handoff[h].state \in {"none", "launching", "handed_off", "released",
                                  "failed", "expired"}
         /\ handoff[h].state \in {"launching", "handed_off"} => handoff[h].run \in Runs
         /\ handoff[h].state = "handed_off" => handoff[h].fence > 0
  BY DEF IInv, Shapes, HandoffShape, HandoffFits, Open
<1>2. \A a \in Drainers : drain[a].phase \in DrainPhase /\ drain[a].todo \subseteq Jobs
  BY DEF IInv, Shapes, DrainShape
<1>3. \A w \in Workers : worker[w].phase \in WorkerPhase
  BY DEF IInv, Shapes, WorkerShape
<1> QED
  BY <1>1, <1>2, <1>3 DEF IInv, Shapes, TypeOK, RunShape, EventShape, LeaseShape, Clocked

(* Every variable keeps its shape, whichever processes die and whatever they *)
(* leave behind.                                                           *)
THEOREM ActivationTypes == Spec => []TypeOK
BY InitInvariant, NextInvariant, InvariantTypes, PTL DEF Spec

(* A Run has at most one open handoff, and the child that supervises a Run *)
(* holds its claimed handoff: whatever Drains, deadlines, stale checkpoints *)
(* and killed processes come in between, no second child is launched beside *)
(* the first (ReserveRunWorkerHandoff, ClaimRunWorkerHandoff,               *)
(* ReconcileRunWorkerHandoffs).                                             *)
LEMMA InvariantOneChild == IInv => OneChildPerRun
<1> SUFFICES ASSUME IInv
             PROVE  OneChildPerRun
  OBVIOUS
<1>1. ASSUME NEW r \in Runs
      PROVE  Cardinality(ActiveHandoffs(r)) <= 1
  <2>1. CASE ActiveHandoffs(r) = {}
    BY <2>1, FS_EmptySet
  <2>2. CASE ActiveHandoffs(r) # {}
    <3>1. PICK h \in ActiveHandoffs(r) : TRUE
      BY <2>2
    <3>2. ActiveHandoffs(r) = {h}
      BY <3>1 DEF IInv, HandoffFits, ActiveHandoffs, Open
    <3>3. Cardinality({h}) = 1
      BY FS_Singleton
    <3> QED
      BY <3>2, <3>3
  <2> QED
    BY <2>1, <2>2
<1>2. ASSUME NEW h \in Handoffs, worker[h].phase \in Alive, Supervises(h)
      PROVE  handoff[h].state = "handed_off"
  BY <1>2 DEF IInv, WorkerFits, Workers, Alive
<1> QED
  BY <1>1, <1>2 DEF OneChildPerRun

(* A Run never has two open handoffs, and the child that supervises it has *)
(* its handoff handed off: ClaimRunWorkerHandoff and the expiry of handoffs *)
(* leave no second worker, however late the first one starts.              *)
THEOREM ActivationOneChildPerRun == Spec => []OneChildPerRun
BY InitInvariant, NextInvariant, InvariantOneChild, PTL DEF Spec

(* An event that is published was delivered by the claim that published it *)
(* (AckOutboxEvent): a superseded Drain acknowledges nothing.              *)
THEOREM ActivationPublishedWasDelivered == Spec => []PublishedWasDelivered
<1>1. IInv => PublishedWasDelivered
  BY DEF IInv
<1> QED
  BY <1>1, InitInvariant, NextInvariant, PTL DEF Spec

-----------------------------------------------------------------------------
(* Lease rows: the inductive invariant.                                    *)

(* A copy names a row of the table, and that row was granted to its owner. *)
CopyIsGranted ==
    \A w \in Supervisors :
        copy[w] # NoLease =>
            /\ copy[w].token \in DOMAIN rows[copy[w].resource]
            /\ RowOf(w).owner = w

LeaseIInv == LeaseTypeOK /\ OnlyNewestActive /\ CopyIsGranted /\ BeliefIsSound

USE LeaseAssumption

(* Two copies that are both within their deadline name the newest row.      *)
LEMMA InvariantImpliesSoleSupervisor == LeaseIInv => SoleSupervisor
  BY DEF LeaseIInv, LeaseTypeOK, OnlyNewestActive, CopyIsGranted, BeliefIsSound, SoleSupervisor,
         Believes, ActiveTokens, RowOf, Copy

(* No lease, no supervisor: every part holds at the start.                  *)
LEMMA LeaseInitInvariant == LeaseInit => LeaseIInv
  BY DEF LeaseInit, LeaseIInv, LeaseTypeOK, OnlyNewestActive, CopyIsGranted, BeliefIsSound,
         ActiveTokens, RowOf, Phase, Lease

(* The two ways a row is closed and the way it is renewed yield rows.       *)
LEMMA RowOperations ==
  ASSUME NEW row \in Lease
  PROVE  /\ Expired(row) \in Lease
         /\ Expired(row).state = "expired" /\ Expired(row).owner = row.owner
         /\ [row EXCEPT !.state = "released", !.version = @ + 1] \in Lease
         /\ Renewed(row) \in Lease
  <1>1. row.version + 1 \in Nat
    BY DEF Lease
  <1>2. {"expired", "released"} \subseteq LeaseState
    BY DEF LeaseState
  <1>3. TTL \in 0 .. TTL
    OBVIOUS
  <1>4. QED
    BY <1>1, <1>2, <1>3 DEF Expired, Renewed, Lease

(* AcquireLease expires what has lapsed before it grants.                   *)
LEMMA AcquireLeaseInvariant ==
  ASSUME LeaseIInv, NEW w \in Supervisors, NEW r \in Resources, AcquireLease(w, r)
  PROVE  LeaseIInv'
  <1> DEFINE n == Len(rows[r])
             new == [owner |-> w, left |-> TTL, state |-> "active", version |-> 1]
  <1>1. rows[r] \in Seq(Lease) /\ n \in Nat
    BY DEF LeaseIInv, LeaseTypeOK
  <1>2. ExpireActive(r) \in Seq(Lease) /\ Len(ExpireActive(r)) = n
    <2>1. DOMAIN rows[r] = 1 .. n
      BY <1>1, LenProperties
    <2>2. \A row \in Lease : Expired(row) \in Lease
      BY RowOperations
    <2>2a. \A t \in 1 .. n : rows[r][t] \in Lease
      BY <1>1
    <2>3. ExpireActive(r) \in [1 .. n -> Lease]
      BY <2>1, <2>2, <2>2a DEF ExpireActive
    <2>4. QED
      BY <1>1, <2>3, SeqDef, LenProperties
  <1>3. new \in Lease
    BY DEF Lease, LeaseState
  <1>4. /\ rows'[r] \in Seq(Lease)
        /\ Len(rows'[r]) = n + 1
        /\ rows'[r][n + 1] = new
        /\ \A t \in 1 .. n : rows'[r][t] = ExpireActive(r)[t]
    <2>1. rows'[r] = Append(ExpireActive(r), new)
      BY DEF AcquireLease, GrantTo, LeaseIInv, LeaseTypeOK
    <2>2. QED
      BY <1>1, <1>2, <1>3, <2>1, AppendProperties
  <1>5. \A q \in Resources \ {r} : rows'[q] = rows[q]
    BY DEF AcquireLease, LeaseIInv, LeaseTypeOK
  <1>6. LeaseTypeOK'
    <2>1. rows' \in [Resources -> Seq(Lease)]
      BY <1>4, <1>5 DEF AcquireLease, LeaseIInv, LeaseTypeOK
    <2>2. CopyOf(r, n + 1, [left |-> TTL, version |-> 1]) \in Copy
      BY <1>1 DEF CopyOf, Copy
    <2>3. /\ copy' \in [Supervisors -> Copy \cup {NoLease}]
          /\ phase' \in [Supervisors -> Phase]
      BY <2>2 DEF AcquireLease, LeaseIInv, LeaseTypeOK, Phase
    <2>4. \A v \in Supervisors : phase'[v] = "idle" <=> copy'[v] = NoLease
      BY <2>2 DEF AcquireLease, LeaseIInv, LeaseTypeOK
    <2>5. QED
      BY <2>1, <2>3, <2>4 DEF LeaseTypeOK
  <1>7. ASSUME NEW t \in 1 .. n
        PROVE  /\ rows'[r][t].state # "active"
               /\ rows'[r][t].owner = rows[r][t].owner
               /\ rows[r][t].left > 0 => rows[r][t].state # "active"
    <2>1. t \in DOMAIN rows[r] /\ rows[r][t] \in Lease
      BY <1>1
    <2>2. rows'[r][t] = IF rows[r][t].state = "active" THEN Expired(rows[r][t]) ELSE rows[r][t]
      BY <1>4, <2>1 DEF ExpireActive, ActiveTokens
    <2>3. rows[r][t].left > 0 => rows[r][t].state # "active"
      BY <2>1 DEF AcquireLease, Grantable, HeldUnexpired, ActiveTokens, Unexpired
    <2>4. QED
      BY <2>1, <2>2, <2>3, RowOperations
  <1>8. DOMAIN rows'[r] = 1 .. n + 1
    BY <1>1, <1>4, LenProperties
  <1>9. OnlyNewestActive'
    BY <1>1, <1>4, <1>5, <1>7, <1>8 DEF OnlyNewestActive, ActiveTokens, LeaseIInv
  <1>10. ASSUME NEW v \in Supervisors, copy'[v] # NoLease
         PROVE  \/ /\ copy'[v] = copy[v]
                   /\ copy[v] # NoLease
                \/ /\ v = w
                   /\ copy'[v] = [resource |-> r, token |-> n + 1, left |-> TTL, version |-> 1]
    BY <1>10 DEF AcquireLease, CopyOf, LeaseIInv, LeaseTypeOK
  <1>11. ASSUME NEW v \in Supervisors, copy'[v] # NoLease
         PROVE  /\ copy'[v].token \in DOMAIN rows'[copy'[v].resource]
                /\ rows'[copy'[v].resource][copy'[v].token].owner = v
                /\ copy'[v].left > 0 =>
                     /\ rows'[copy'[v].resource][copy'[v].token].state = "active"
                     /\ rows'[copy'[v].resource][copy'[v].token].left >= copy'[v].left
    <2>1. CASE copy'[v] = [resource |-> r, token |-> n + 1, left |-> TTL, version |-> 1] /\ v = w
      BY <1>1, <1>4, <1>8, <2>1
    <2>2. CASE copy'[v] = copy[v] /\ copy[v] # NoLease
      <3>1. /\ copy[v] \in Copy
            /\ copy[v].token \in DOMAIN rows[copy[v].resource]
            /\ rows[copy[v].resource][copy[v].token].owner = v
            /\ copy[v].left > 0 =>
                  /\ rows[copy[v].resource][copy[v].token].state = "active"
                  /\ rows[copy[v].resource][copy[v].token].left >= copy[v].left
        BY <2>2 DEF LeaseIInv, LeaseTypeOK, CopyIsGranted, BeliefIsSound, RowOf
      <3>2. CASE copy[v].resource = r
        <4>1. copy[v].token \in 1 .. n
          BY <1>1, <3>1, <3>2
        <4>2. ~(copy[v].left > 0)
          <5>1. SUFFICES ASSUME copy[v].left > 0 PROVE FALSE
            OBVIOUS
          <5>2. rows[r][copy[v].token] \in Lease
            BY <1>1, <4>1
          <5>3. rows[r][copy[v].token].state = "active" /\ rows[r][copy[v].token].left > 0
            BY <3>1, <3>2, <5>1, <5>2 DEF Copy, Lease
          <5>4. QED
            BY <1>7, <4>1, <5>3
        <4>3. QED
          BY <1>1, <1>7, <1>8, <2>2, <3>1, <3>2, <4>1, <4>2
      <3>3. CASE copy[v].resource # r
        BY <1>5, <2>2, <3>1, <3>3 DEF Copy
      <3>4. QED
        BY <3>2, <3>3
    <2>3. QED
      BY <1>10, <1>11, <2>1, <2>2
  <1>12. CopyIsGranted' /\ BeliefIsSound'
    BY <1>11 DEF CopyIsGranted, BeliefIsSound, RowOf
  <1>13. QED
    BY <1>6, <1>9, <1>12 DEF LeaseIInv

(* A step of a holder w rewrites at most its own row, into a row it still   *)
(* owns and that is active only if it was, and keeps or drops its copy.     *)
LEMMA HolderStep ==
  ASSUME LeaseIInv, NEW w \in Supervisors, copy[w] # NoLease,
         NEW row \in Lease, row.owner = w, row.state = "active" => RowOf(w).state = "active",
         rows' = WithRow(w, row),
         copy' \in [Supervisors -> Copy \cup {NoLease}], phase' \in [Supervisors -> Phase],
         \A v \in Supervisors : phase'[v] = "idle" <=> copy'[v] = NoLease,
         \A v \in Supervisors \ {w} : copy'[v] = copy[v],
         copy'[w] # NoLease =>
            /\ copy'[w].resource = copy[w].resource
            /\ copy'[w].token = copy[w].token
            /\ copy'[w].left > 0 => row.state = "active" /\ row.left >= copy'[w].left
  PROVE  LeaseIInv'
  <1> DEFINE r == copy[w].resource
             t == copy[w].token
  <1>1. r \in Resources /\ rows[r] \in Seq(Lease) /\ t \in DOMAIN rows[r]
    BY DEF LeaseIInv, LeaseTypeOK, CopyIsGranted, Copy
  <1>2. rows' = [rows EXCEPT ![r] = [rows[r] EXCEPT ![t] = row]]
    BY DEF WithRow
  <1>3. /\ [rows[r] EXCEPT ![t] = row] \in Seq(Lease)
        /\ Len([rows[r] EXCEPT ![t] = row]) = Len(rows[r])
    BY <1>1, ExceptSeq
  <1>4. /\ rows' \in [Resources -> Seq(Lease)]
        /\ \A q \in Resources : Len(rows'[q]) = Len(rows[q])
    BY <1>1, <1>2, <1>3 DEF LeaseIInv, LeaseTypeOK
  <1>5. \A q \in Resources : DOMAIN rows'[q] = DOMAIN rows[q]
    BY <1>1, <1>2
  <1>6. \A q \in Resources : \A u \in DOMAIN rows[q] :
           rows'[q][u] = IF q = r /\ u = t THEN row ELSE rows[q][u]
    BY <1>1, <1>2 DEF LeaseIInv, LeaseTypeOK
  <1>7. LeaseTypeOK'
    BY <1>4 DEF LeaseTypeOK
  <1>8. OnlyNewestActive'
    BY <1>1, <1>4, <1>5, <1>6 DEF OnlyNewestActive, ActiveTokens, RowOf, LeaseIInv
  <1>9. ASSUME NEW v \in Supervisors, copy'[v] # NoLease
        PROVE  /\ copy'[v].token \in DOMAIN rows'[copy'[v].resource]
               /\ rows'[copy'[v].resource][copy'[v].token].owner = v
               /\ copy'[v].left > 0 =>
                    /\ rows'[copy'[v].resource][copy'[v].token].state = "active"
                    /\ rows'[copy'[v].resource][copy'[v].token].left >= copy'[v].left
    <2>1. CASE v = w
      BY <1>1, <1>5, <1>6, <1>9, <2>1
    <2>2. CASE v # w
      <3>1. /\ copy'[v] = copy[v] /\ copy[v] \in Copy
            /\ copy[v].token \in DOMAIN rows[copy[v].resource]
            /\ rows[copy[v].resource][copy[v].token].owner = v
            /\ copy[v].left > 0 =>
                  /\ rows[copy[v].resource][copy[v].token].state = "active"
                  /\ rows[copy[v].resource][copy[v].token].left >= copy[v].left
        BY <1>9, <2>2 DEF LeaseIInv, LeaseTypeOK, CopyIsGranted, BeliefIsSound, RowOf
      <3>2. rows[r][t].owner = w
        BY DEF LeaseIInv, CopyIsGranted, RowOf
      <3>3. ~(copy[v].resource = r /\ copy[v].token = t)
        BY <2>2, <3>1, <3>2
      <3>4. QED
        BY <1>5, <1>6, <3>1, <3>3 DEF Copy
    <2>3. QED
      BY <2>1, <2>2
  <1>10. CopyIsGranted' /\ BeliefIsSound'
    BY <1>9 DEF CopyIsGranted, BeliefIsSound, RowOf
  <1>11. QED
    BY <1>7, <1>8, <1>10 DEF LeaseIInv

(* The facts about one holder that the step lemmas start from.              *)
LEMMA HolderFacts ==
  ASSUME LeaseIInv, NEW w \in Supervisors, copy[w] # NoLease
  PROVE  /\ copy[w] \in Copy
         /\ RowOf(w) \in Lease
         /\ RowOf(w).owner = w
         /\ WithRow(w, RowOf(w)) = rows
         /\ copy[w].left > 0 => RowOf(w).state = "active" /\ RowOf(w).left >= copy[w].left
  <1>1. /\ copy[w] \in Copy
        /\ RowOf(w).owner = w
        /\ copy[w].left > 0 => RowOf(w).state = "active" /\ RowOf(w).left >= copy[w].left
    BY DEF LeaseIInv, LeaseTypeOK, CopyIsGranted, BeliefIsSound
  <1>2. /\ copy[w].resource \in Resources
        /\ rows[copy[w].resource] \in Seq(Lease)
        /\ copy[w].token \in DOMAIN rows[copy[w].resource]
    BY <1>1 DEF LeaseIInv, LeaseTypeOK, CopyIsGranted, Copy
  <1>3. RowOf(w) \in Lease
    BY <1>2 DEF RowOf
  <1>4. WithRow(w, RowOf(w)) = rows
    BY <1>2 DEF WithRow, RowOf, LeaseIInv, LeaseTypeOK
  <1>5. QED
    BY <1>1, <1>3, <1>4

(* A copy taken from a row of the table.                                    *)
LEMMA CopyOfRow ==
  ASSUME NEW old \in Copy, NEW row \in Lease
  PROVE  /\ CopyOf(old.resource, old.token, row) \in Copy
         /\ CopyOf(old.resource, old.token, row).resource = old.resource
         /\ CopyOf(old.resource, old.token, row).token = old.token
         /\ CopyOf(old.resource, old.token, row).left = row.left
  BY DEF CopyOf, Copy, Lease

(* The five outcomes of a heartbeat of one supervisor.                      *)
LEMMA HeartbeatInvariant ==
  ASSUME LeaseIInv, NEW w \in Supervisors, HeartbeatStep(w)
  PROVE  LeaseIInv'
  <1>1. phase[w] # "idle" /\ copy[w] # NoLease
    BY DEF HeartbeatStep, BeginHeartbeat, HeartbeatCommits, HeartbeatRefused,
           HeartbeatStoreError, Reload, ReloadFails, LeaseIInv, LeaseTypeOK
  <1>2. /\ copy[w] \in Copy
        /\ RowOf(w) \in Lease
        /\ RowOf(w).owner = w
        /\ WithRow(w, RowOf(w)) = rows
        /\ copy[w].left > 0 => RowOf(w).state = "active" /\ RowOf(w).left >= copy[w].left
    BY <1>1, HolderFacts
  <1>3. ASSUME rows' = rows, copy' = copy,
               \E p \in Phase \ {"idle"} : phase' = [phase EXCEPT ![w] = p]
        PROVE  LeaseIInv'
    <2>1. /\ copy' \in [Supervisors -> Copy \cup {NoLease}] /\ phase' \in [Supervisors -> Phase]
          /\ \A v \in Supervisors : phase'[v] = "idle" <=> copy'[v] = NoLease
      BY <1>1, <1>3 DEF LeaseIInv, LeaseTypeOK
    <2>2. QED
      BY <1>1, <1>2, <1>3, <2>1, HolderStep
  <1>4. CASE BeginHeartbeat(w)
    BY <1>3, <1>4 DEF BeginHeartbeat, Phase
  <1>5. CASE HeartbeatCommits(w)
    <2> DEFINE row == Renewed(RowOf(w))
    <2>0. TTL \in Nat /\ TTL >= TTL
      OBVIOUS
    <2>1. /\ row \in Lease
          /\ row.owner = w /\ row.state = "active" /\ row.left = TTL
          /\ RowOf(w).state = "active"
      BY <1>2, <1>5, RowOperations DEF HeartbeatCommits, HeartbeatAccepted, Renewed, Lease
    <2>2. rows' = WithRow(w, row)
      BY <1>5 DEF HeartbeatCommits
    <2>3. CASE copy' = [copy EXCEPT ![w] = CopyOf(copy[w].resource, copy[w].token, row)]
               /\ phase' = [phase EXCEPT ![w] = "holding"]
      <3>1. /\ copy' \in [Supervisors -> Copy \cup {NoLease}] /\ phase' \in [Supervisors -> Phase]
            /\ \A v \in Supervisors : phase'[v] = "idle" <=> copy'[v] = NoLease
            /\ \A v \in Supervisors \ {w} : copy'[v] = copy[v]
            /\ copy'[w].resource = copy[w].resource /\ copy'[w].token = copy[w].token
            /\ copy'[w].left = TTL
        BY <1>1, <1>2, <2>1, <2>3, CopyOfRow DEF LeaseIInv, LeaseTypeOK, Phase
      <3> HIDE DEF row
      <3>2. QED
        BY <1>1, <2>0, <2>1, <2>2, <3>1, HolderStep
    <2>4. CASE copy' = copy /\ phase' = [phase EXCEPT ![w] = "reloading"]
      <3>1. /\ copy' \in [Supervisors -> Copy \cup {NoLease}] /\ phase' \in [Supervisors -> Phase]
            /\ \A v \in Supervisors : phase'[v] = "idle" <=> copy'[v] = NoLease
        BY <1>1, <2>4 DEF LeaseIInv, LeaseTypeOK, Phase
      <3>2. copy[w].left <= TTL
        BY <1>2 DEF Copy
      <3>3. QED
        <4>1. copy'[w] = copy[w] /\ row.left >= copy[w].left
          BY <2>0, <2>1, <2>4, <3>2, <1>2 DEF Copy
        <4> HIDE DEF row
        <4>2. QED
          BY <1>1, <2>1, <2>2, <2>4, <3>1, <4>1, HolderStep
    <2>5. QED
      BY <1>5, <2>3, <2>4 DEF HeartbeatCommits
  <1>6. CASE HeartbeatRefused(w)
    <2>1. /\ copy' \in [Supervisors -> Copy \cup {NoLease}] /\ phase' \in [Supervisors -> Phase]
          /\ \A v \in Supervisors : phase'[v] = "idle" <=> copy'[v] = NoLease
          /\ copy' = copy
      BY <1>1, <1>6 DEF HeartbeatRefused, LeaseIInv, LeaseTypeOK, Phase
    <2>2. CASE rows' = rows
      BY <1>1, <1>2, <2>1, <2>2, HolderStep
    <2>3. CASE VersionMatches(w) /\ RowOf(w).state = "active" /\ rows' = WithRow(w, Expired(RowOf(w)))
      <3>1. copy[w].left <= 0
        <4>1. ~(RowOf(w).left > 0)
          BY <1>2, <1>6, <2>3 DEF HeartbeatRefused, HeartbeatAccepted, Unexpired
        <4>2. RowOf(w).left \in Nat /\ copy[w].left \in Nat
          BY <1>2 DEF Copy, Lease
        <4>3. QED
          BY <1>2, <4>1, <4>2
      <3>2. /\ Expired(RowOf(w)) \in Lease
            /\ Expired(RowOf(w)).owner = w
            /\ Expired(RowOf(w)).state = "expired"
        BY <1>2, RowOperations
      <3>3. ~(copy[w].left > 0)
        BY <1>2, <3>1 DEF Copy
      <3>4. QED
        BY <1>1, <2>1, <2>3, <3>2, <3>3, HolderStep
    <2>4. QED
      BY <1>6, <2>2, <2>3 DEF HeartbeatRefused
  <1>7. CASE HeartbeatStoreError(w)
    BY <1>3, <1>7 DEF HeartbeatStoreError, Phase
  <1>8. CASE Reload(w)
    <2>1. CASE copy' = copy
      <3>1. \E p \in Phase \ {"idle"} : phase' = [phase EXCEPT ![w] = p]
        BY <1>8 DEF Reload, Phase
      <3>2. QED
        BY <1>3, <1>8, <2>1, <3>1 DEF Reload
    <2>2. CASE /\ StillMine(w)
               /\ phase' = [phase EXCEPT ![w] = "holding"]
               /\ copy' = [copy EXCEPT ![w] = CopyOf(copy[w].resource, copy[w].token, RowOf(w))]
      <3>1. /\ copy' \in [Supervisors -> Copy \cup {NoLease}] /\ phase' \in [Supervisors -> Phase]
            /\ \A v \in Supervisors : phase'[v] = "idle" <=> copy'[v] = NoLease
            /\ \A v \in Supervisors \ {w} : copy'[v] = copy[v]
            /\ copy'[w].resource = copy[w].resource /\ copy'[w].token = copy[w].token
            /\ copy'[w].left = RowOf(w).left
        BY <1>1, <1>2, <2>2, CopyOfRow DEF LeaseIInv, LeaseTypeOK, Phase
      <3>2. RowOf(w).state = "active" /\ RowOf(w).left >= copy'[w].left
        BY <1>2, <2>2, <3>1 DEF StillMine, Lease
      <3>3. rows' = WithRow(w, RowOf(w))
        BY <1>2, <1>8 DEF Reload
      <3>4. QED
        BY <1>1, <1>2, <3>1, <3>2, <3>3, HolderStep
    <2>3. QED
      BY <1>8, <2>1, <2>2 DEF Reload
  <1>9. CASE ReloadFails(w)
    BY <1>3, <1>9 DEF ReloadFails, Phase
  <1>10. QED
    BY <1>4, <1>5, <1>6, <1>7, <1>8, <1>9 DEF HeartbeatStep

(* ReleaseLease closes a row and its supervisor forgets it.                 *)
LEMMA StopInvariant ==
  ASSUME LeaseIInv, NEW w \in Supervisors, StopSupervisor(w)
  PROVE  LeaseIInv'
  <1> DEFINE row == [RowOf(w) EXCEPT !.state = "released", !.version = @ + 1]
  <1>1. phase[w] # "idle" /\ copy[w] # NoLease
    BY DEF StopSupervisor, LeaseIInv, LeaseTypeOK
  <1>2. RowOf(w) \in Lease /\ RowOf(w).owner = w /\ WithRow(w, RowOf(w)) = rows
    BY <1>1, HolderFacts
  <1>3. row \in Lease /\ row.owner = w /\ row.state = "released"
    BY <1>2, RowOperations DEF Lease
  <1>4. /\ copy' \in [Supervisors -> Copy \cup {NoLease}] /\ phase' \in [Supervisors -> Phase]
        /\ \A v \in Supervisors : phase'[v] = "idle" <=> copy'[v] = NoLease
        /\ \A v \in Supervisors \ {w} : copy'[v] = copy[v]
        /\ copy'[w] = NoLease
    BY DEF StopSupervisor, LeaseIInv, LeaseTypeOK, Phase
  <1>5. CASE rows' = WithRow(w, row)
    <2> HIDE DEF row
    <2>1. QED
      BY <1>1, <1>3, <1>4, <1>5, HolderStep
  <1>6. CASE rows' = WithRow(w, RowOf(w))
    BY <1>1, <1>2, <1>4, <1>6, HolderStep
  <1>7. QED
    BY <1>2, <1>5, <1>6 DEF StopSupervisor

(* A supervisor that dies leaves its rows as they are.                      *)
LEMMA CrashInvariant ==
  ASSUME LeaseIInv, NEW w \in Supervisors, Crash(w)
  PROVE  LeaseIInv'
  <1>1. copy[w] # NoLease
    BY DEF Crash, LeaseIInv, LeaseTypeOK
  <1>2. RowOf(w) \in Lease /\ RowOf(w).owner = w /\ rows' = WithRow(w, RowOf(w))
    BY <1>1, HolderFacts DEF Crash
  <1>3. /\ copy' \in [Supervisors -> Copy \cup {NoLease}] /\ phase' \in [Supervisors -> Phase]
        /\ \A v \in Supervisors : phase'[v] = "idle" <=> copy'[v] = NoLease
        /\ \A v \in Supervisors \ {w} : copy'[v] = copy[v]
        /\ copy'[w] = NoLease
    BY DEF Crash, LeaseIInv, LeaseTypeOK, Phase
  <1>4. QED
    BY <1>1, <1>2, <1>3, HolderStep

(* A sweep closes only rows that are due, and no copy within its deadline   *)
(* names one of those.                                                      *)
LEMMA ExpireDueInvariant ==
  ASSUME LeaseIInv, NEW r \in Resources, ExpireDue(r)
  PROVE  LeaseIInv'
  <1> DEFINE n == Len(rows[r])
             Swept(t) == IF t \in DueTokens(r) THEN Expired(rows[r][t]) ELSE rows[r][t]
             swept == [t \in DOMAIN rows[r] |-> Swept(t)]
  <1>1. rows[r] \in Seq(Lease) /\ n \in Nat /\ DOMAIN rows[r] = 1 .. n
    BY LenProperties DEF LeaseIInv, LeaseTypeOK
  <1>2. \A t \in 1 .. n : rows[r][t] \in Lease
    BY <1>1
  <1>3. \A t \in 1 .. n : /\ Swept(t) \in Lease
                          /\ Swept(t).owner = rows[r][t].owner
                          /\ Swept(t).left = rows[r][t].left
                          /\ Swept(t).state = "active" => rows[r][t].state = "active"
                          /\ rows[r][t].left > 0 => Swept(t) = rows[r][t]
    <2>1. \A row \in Lease : Expired(row).left = row.left
      BY DEF Expired, Lease
    <2>2. SUFFICES ASSUME NEW t \in 1 .. n
                   PROVE  /\ Swept(t) \in Lease
                          /\ Swept(t).owner = rows[r][t].owner
                          /\ Swept(t).left = rows[r][t].left
                          /\ Swept(t).state = "active" => rows[r][t].state = "active"
                          /\ rows[r][t].left > 0 => Swept(t) = rows[r][t]
      OBVIOUS
    <2>3. rows[r][t] \in Lease /\ t \in DOMAIN rows[r]
      BY <1>1, <1>2
    <2>4. CASE t \in DueTokens(r)
      <3>1. Swept(t) = Expired(rows[r][t]) /\ ~(rows[r][t].left > 0)
        BY <2>3, <2>4 DEF DueTokens, Unexpired, ActiveTokens
      <3>2. QED
        BY <2>1, <2>3, <3>1, RowOperations
    <2>5. CASE t \notin DueTokens(r)
      BY <2>3, <2>5
    <2>6. QED
      BY <2>4, <2>5
  <1> HIDE DEF Swept
  <1>4. /\ swept \in Seq(Lease) /\ Len(swept) = n
        /\ \A t \in 1 .. n : swept[t] = Swept(t)
    <2>0. \A t \in 1 .. n : Swept(t) \in Lease
      BY <1>3
    <2>1. swept \in [1 .. n -> Lease]
      BY <1>1, <2>0
    <2>2. swept \in Seq(Lease) /\ Len(swept) = n
      BY <1>1, <2>1, SeqDef, LenProperties
    <2>3. QED
      BY <1>1, <2>2
  <1>5. rows' = [rows EXCEPT ![r] = swept] /\ copy' = copy /\ phase' = phase
    BY DEF ExpireDue, Swept
  <1> HIDE DEF swept
  <1>6. /\ rows' \in [Resources -> Seq(Lease)]
        /\ rows'[r] = swept
        /\ DOMAIN rows'[r] = 1 .. n
        /\ \A q \in Resources \ {r} : rows'[q] = rows[q]
    BY <1>1, <1>4, <1>5, LenProperties DEF LeaseIInv, LeaseTypeOK
  <1>7. LeaseTypeOK'
    BY <1>5, <1>6 DEF LeaseIInv, LeaseTypeOK
  <1>8. OnlyNewestActive'
    <2>1. SUFFICES ASSUME NEW q \in Resources, NEW t \in DOMAIN rows'[q], rows'[q][t].state = "active"
                   PROVE  t = Len(rows'[q])
      BY DEF OnlyNewestActive, ActiveTokens
    <2>2. CASE q = r
      <3>1. rows[r][t].state = "active" /\ t \in DOMAIN rows[r]
        BY <1>1, <1>3, <1>4, <1>6, <2>1, <2>2
      <3>2. QED
        BY <1>4, <1>6, <2>2, <3>1 DEF OnlyNewestActive, ActiveTokens, LeaseIInv
    <2>3. CASE q # r
      BY <1>6, <2>1, <2>3 DEF OnlyNewestActive, ActiveTokens, LeaseIInv
    <2>4. QED
      BY <2>2, <2>3
  <1>9. ASSUME NEW v \in Supervisors, copy[v] # NoLease
        PROVE  /\ copy[v].token \in DOMAIN rows'[copy[v].resource]
               /\ rows'[copy[v].resource][copy[v].token].owner = v
               /\ copy[v].left > 0 =>
                    /\ rows'[copy[v].resource][copy[v].token].state = "active"
                    /\ rows'[copy[v].resource][copy[v].token].left >= copy[v].left
    <2>1. /\ copy[v] \in Copy
          /\ copy[v].token \in DOMAIN rows[copy[v].resource]
          /\ rows[copy[v].resource][copy[v].token].owner = v
          /\ copy[v].left > 0 =>
                /\ rows[copy[v].resource][copy[v].token].state = "active"
                /\ rows[copy[v].resource][copy[v].token].left >= copy[v].left
      BY <1>9 DEF LeaseIInv, LeaseTypeOK, CopyIsGranted, BeliefIsSound, RowOf
    <2>2. CASE copy[v].resource = r
      <3>1. copy[v].token \in 1 .. n /\ rows[r][copy[v].token] \in Lease
        BY <1>1, <1>2, <2>1, <2>2
      <3>2. copy[v].left > 0 => rows[r][copy[v].token].left > 0
        BY <2>1, <2>2, <3>1 DEF Copy, Lease
      <3>3. QED
        <4> DEFINE u == copy[v].token
        <4>1. /\ swept[u].owner = rows[r][u].owner
              /\ rows[r][u].left > 0 => swept[u] = rows[r][u]
          BY <1>3, <1>4, <3>1
        <4>2. rows'[r][u] = swept[u] /\ u \in DOMAIN rows'[r]
          BY <1>6, <3>1
        <4>3. QED
          BY <2>1, <2>2, <3>2, <4>1, <4>2
    <2>3. CASE copy[v].resource # r
      BY <1>6, <2>1, <2>3 DEF Copy
    <2>4. QED
      BY <2>2, <2>3
  <1>10. CopyIsGranted' /\ BeliefIsSound'
    BY <1>5, <1>9 DEF CopyIsGranted, BeliefIsSound, RowOf
  <1>11. QED
    BY <1>7, <1>8, <1>10 DEF LeaseIInv

(* A tick ages rows and copies together.                                    *)
LEMMA TickInvariant ==
  ASSUME LeaseIInv, Tick
  PROVE  LeaseIInv'
  <1> DEFINE Aged(x) == [x EXCEPT !.left = Less(@)]
             aged(r) == [t \in DOMAIN rows[r] |-> Aged(rows[r][t])]
  <1>1. \A k \in 0 .. TTL : Less(k) \in 0 .. TTL
    BY DEF Less
  <1>2. \A row \in Lease : /\ Aged(row) \in Lease
                           /\ Aged(row).owner = row.owner
                           /\ Aged(row).state = row.state
                           /\ Aged(row).left = Less(row.left)
    BY <1>1 DEF Lease
  <1>3. \A c \in Copy : /\ Aged(c) \in Copy
                        /\ Aged(c).resource = c.resource
                        /\ Aged(c).token = c.token
                        /\ Aged(c).left = Less(c.left)
    BY <1>1 DEF Copy
  <1> HIDE DEF Aged
  <1>4. ASSUME NEW r \in Resources
        PROVE  /\ rows'[r] = aged(r)
               /\ aged(r) \in Seq(Lease)
               /\ Len(rows'[r]) = Len(rows[r])
               /\ DOMAIN rows'[r] = DOMAIN rows[r]
               /\ \A t \in DOMAIN rows[r] : /\ rows[r][t] \in Lease
                                             /\ rows'[r][t] = Aged(rows[r][t])
    <2>1. rows[r] \in Seq(Lease) /\ Len(rows[r]) \in Nat /\ DOMAIN rows[r] = 1 .. Len(rows[r])
      BY LenProperties DEF LeaseIInv, LeaseTypeOK
    <2>2. \A t \in DOMAIN rows[r] : rows[r][t] \in Lease
      BY <2>1
    <2>3. aged(r) \in [1 .. Len(rows[r]) -> Lease]
      BY <1>2, <2>1, <2>2
    <2>4. aged(r) \in Seq(Lease) /\ Len(aged(r)) = Len(rows[r])
      BY <2>1, <2>3, SeqDef, LenProperties
    <2>5. rows'[r] = aged(r)
      BY DEF Tick, Aged
    <2>6. QED
      BY <2>2, <2>4, <2>5
  <1>5. rows' \in [Resources -> Seq(Lease)]
    BY <1>4 DEF Tick
  <1>6. \A v \in Supervisors : copy'[v] = IF copy[v] = NoLease THEN NoLease ELSE Aged(copy[v])
    BY DEF Tick, Aged
  <1>7. LeaseTypeOK'
    <2>1. copy' \in [Supervisors -> Copy \cup {NoLease}]
      BY <1>3, <1>6 DEF Tick, LeaseIInv, LeaseTypeOK
    <2>2. \A v \in Supervisors : copy'[v] = NoLease <=> copy[v] = NoLease
      BY <1>3, <1>6 DEF LeaseIInv, LeaseTypeOK
    <2>3. QED
      BY <1>5, <2>1, <2>2 DEF Tick, LeaseIInv, LeaseTypeOK
  <1>8. OnlyNewestActive'
    <2>1. SUFFICES ASSUME NEW q \in Resources, NEW t \in DOMAIN rows'[q], rows'[q][t].state = "active"
                   PROVE  t = Len(rows'[q])
      BY DEF OnlyNewestActive, ActiveTokens
    <2>2. t \in DOMAIN rows[q] /\ rows[q][t].state = "active" /\ Len(rows'[q]) = Len(rows[q])
      BY <1>2, <1>4, <2>1
    <2>3. QED
      BY <2>2 DEF OnlyNewestActive, ActiveTokens, LeaseIInv
  <1>9. ASSUME NEW v \in Supervisors, copy'[v] # NoLease
        PROVE  /\ copy'[v].token \in DOMAIN rows'[copy'[v].resource]
               /\ rows'[copy'[v].resource][copy'[v].token].owner = v
               /\ copy'[v].left > 0 =>
                    /\ rows'[copy'[v].resource][copy'[v].token].state = "active"
                    /\ rows'[copy'[v].resource][copy'[v].token].left >= copy'[v].left
    <2>1. copy[v] # NoLease /\ copy'[v] = Aged(copy[v])
      BY <1>6, <1>9
    <2>2. /\ copy[v] \in Copy
          /\ copy[v].resource \in Resources
          /\ copy[v].token \in DOMAIN rows[copy[v].resource]
          /\ rows[copy[v].resource][copy[v].token].owner = v
          /\ copy[v].left > 0 =>
                /\ rows[copy[v].resource][copy[v].token].state = "active"
                /\ rows[copy[v].resource][copy[v].token].left >= copy[v].left
      BY <2>1 DEF LeaseIInv, LeaseTypeOK, CopyIsGranted, BeliefIsSound, RowOf, Copy
    <2>3. /\ copy'[v].resource = copy[v].resource
          /\ copy'[v].token = copy[v].token
          /\ copy'[v].left = Less(copy[v].left)
      BY <1>3, <2>1, <2>2
    <2>4. /\ rows[copy[v].resource][copy[v].token] \in Lease
          /\ rows'[copy[v].resource][copy[v].token] = Aged(rows[copy[v].resource][copy[v].token])
          /\ DOMAIN rows'[copy[v].resource] = DOMAIN rows[copy[v].resource]
      BY <1>4, <2>2
    <2>5. \A a, b \in Nat : (Less(a) > 0 => a > 0) /\ (b >= a => Less(b) >= Less(a))
      BY DEF Less
    <2>6. rows[copy[v].resource][copy[v].token].left \in Nat /\ copy[v].left \in Nat
      BY <2>2, <2>4 DEF Lease, Copy
    <2>7. QED
      BY <1>2, <2>2, <2>3, <2>4, <2>5, <2>6
  <1>10. CopyIsGranted' /\ BeliefIsSound'
    BY <1>9 DEF CopyIsGranted, BeliefIsSound, RowOf
  <1>11. QED
    BY <1>7, <1>8, <1>10 DEF LeaseIInv

(* Every action, and time, keeps the invariant.                             *)
LEMMA LeaseNextInvariant == LeaseIInv /\ [LeaseNext]_leaseVars => LeaseIInv'
  <1>1. SUFFICES ASSUME LeaseIInv, [LeaseNext]_leaseVars PROVE LeaseIInv'
    OBVIOUS
  <1>2. CASE \E w \in Supervisors, r \in Resources : AcquireLease(w, r)
    BY <1>1, <1>2, AcquireLeaseInvariant
  <1>3. CASE \E w \in Supervisors : HeartbeatStep(w) \/ StopSupervisor(w) \/ Crash(w)
    BY <1>1, <1>3, HeartbeatInvariant, StopInvariant, CrashInvariant
  <1>4. CASE \E r \in Resources : ExpireDue(r)
    BY <1>1, <1>4, ExpireDueInvariant
  <1>5. CASE Tick
    BY <1>1, <1>5, TickInvariant
  <1>6. CASE UNCHANGED leaseVars
    BY <1>1, <1>6 DEF leaseVars, LeaseIInv, LeaseTypeOK, OnlyNewestActive, CopyIsGranted, BeliefIsSound,
                      ActiveTokens, RowOf
  <1>7. QED
    BY <1>1, <1>2, <1>3, <1>4, <1>5, <1>6 DEF LeaseNext

-----------------------------------------------------------------------------
(* Superseded rows.  A step may change the state, version or owner of an    *)
(* active row only, and only the newest row is active.                      *)
Frozen(r) ==
    /\ Len(rows'[r]) >= Len(rows[r])
    /\ \A t \in 1 .. Len(rows[r]) :
          t < Len(rows[r]) =>
              /\ rows'[r][t].state = rows[r][t].state
              /\ rows'[r][t].version = rows[r][t].version
              /\ rows'[r][t].owner = rows[r][t].owner

(* A step that keeps every row that is not active freezes the superseded.   *)
LEMMA OnlyActiveRowsMove ==
  ASSUME LeaseIInv, NEW r \in Resources,
         Len(rows'[r]) >= Len(rows[r]),
         \A t \in 1 .. Len(rows[r]) :
            rows[r][t].state # "active" =>
                /\ rows'[r][t].state = rows[r][t].state
                /\ rows'[r][t].version = rows[r][t].version
                /\ rows'[r][t].owner = rows[r][t].owner
  PROVE  Frozen(r)
  <1>1. rows[r] \in Seq(Lease) /\ DOMAIN rows[r] = 1 .. Len(rows[r]) /\ Len(rows[r]) \in Nat
    BY LenProperties DEF LeaseIInv, LeaseTypeOK
  <1>2. \A t \in 1 .. Len(rows[r]) : t < Len(rows[r]) => rows[r][t].state # "active"
    BY <1>1 DEF LeaseIInv, OnlyNewestActive, ActiveTokens
  <1>3. QED
    BY <1>2 DEF Frozen

(* So does a step that writes no row.                                       *)
LEMMA SameRowsFreeze ==
  ASSUME LeaseIInv, NEW r \in Resources, rows'[r] = rows[r]
  PROVE  Frozen(r)
  <1>1. rows[r] \in Seq(Lease) /\ Len(rows[r]) \in Nat
    BY LenProperties DEF LeaseIInv, LeaseTypeOK
  <1>2. QED
    BY <1>1, OnlyActiveRowsMove

(* A grant appends a row; only a lapsed active one is marked.               *)
LEMMA AcquireFreezes ==
  ASSUME LeaseIInv, NEW w \in Supervisors, NEW q \in Resources, AcquireLease(w, q), NEW r \in Resources
  PROVE  Frozen(r)
  <1> DEFINE n == Len(rows[q])
             new == [owner |-> w, left |-> TTL, state |-> "active", version |-> 1]
  <1>1. rows[q] \in Seq(Lease) /\ n \in Nat /\ DOMAIN rows[q] = 1 .. n
    BY LenProperties DEF LeaseIInv, LeaseTypeOK
  <1>2. CASE r # q
    <2>1. rows'[r] = rows[r]
      BY <1>2 DEF AcquireLease, LeaseIInv, LeaseTypeOK
    <2>2. QED
      BY <2>1, SameRowsFreeze
  <1>3. CASE r = q
    <2>1. rows'[q] = Append(ExpireActive(q), new)
      BY DEF AcquireLease, GrantTo, LeaseIInv, LeaseTypeOK
    <2>2. \A t \in 1 .. n : rows[q][t] \in Lease
      BY <1>1
    <2>3. ExpireActive(q) \in [1 .. n -> Lease]
      BY <1>1, <2>2, RowOperations DEF ExpireActive
    <2>4. ExpireActive(q) \in Seq(Lease) /\ Len(ExpireActive(q)) = n
      BY <1>1, <2>3, SeqDef, LenProperties
    <2>5. new \in Lease
      BY DEF Lease, LeaseState
    <2>6. /\ Len(rows'[q]) = n + 1
          /\ \A t \in 1 .. n : rows'[q][t] = ExpireActive(q)[t]
      BY <1>1, <2>1, <2>4, <2>5, AppendProperties
    <2>7. \A t \in 1 .. n : rows[q][t].state # "active" => ExpireActive(q)[t] = rows[q][t]
      BY <1>1 DEF ExpireActive, ActiveTokens
    <2>8. QED
      BY <1>1, <1>3, <2>6, <2>7, OnlyActiveRowsMove
  <1>4. QED
    BY <1>2, <1>3

(* A holder's step writes at most its own row, and that only while active.  *)
LEMMA HolderFreezes ==
  ASSUME LeaseIInv, NEW w \in Supervisors, copy[w] # NoLease, NEW row \in Lease,
         rows' = WithRow(w, row), RowOf(w).state = "active", NEW r \in Resources
  PROVE  Frozen(r)
  <1> DEFINE q == copy[w].resource
             k == copy[w].token
  <1>1. /\ q \in Resources /\ k \in DOMAIN rows[q] /\ rows[q] \in Seq(Lease)
        /\ rows[q][k].state = "active"
    BY DEF LeaseIInv, LeaseTypeOK, CopyIsGranted, Copy, RowOf
  <1>2. CASE r # q
    <2>1. rows'[r] = rows[r]
      BY <1>2 DEF WithRow, LeaseIInv, LeaseTypeOK
    <2>2. QED
      BY <2>1, SameRowsFreeze
  <1>3. CASE r = q
    <2>1. rows'[q] = [rows[q] EXCEPT ![k] = row]
      BY <1>1 DEF WithRow, LeaseIInv, LeaseTypeOK
    <2>2. Len(rows'[q]) = Len(rows[q]) /\ Len(rows[q]) \in Nat /\ DOMAIN rows[q] = 1 .. Len(rows[q])
      BY <1>1, <2>1, ExceptSeq, LenProperties
    <2>3. \A t \in 1 .. Len(rows[q]) : rows[q][t].state # "active" => rows'[q][t] = rows[q][t]
      BY <1>1, <2>1, <2>2
    <2>4. QED
      BY <1>3, <2>2, <2>3, OnlyActiveRowsMove
  <1>4. QED
    BY <1>2, <1>3

(* A heartbeat renews a row only while it is active.                        *)
LEMMA HeartbeatFreezes ==
  ASSUME LeaseIInv, NEW w \in Supervisors, HeartbeatStep(w) \/ StopSupervisor(w) \/ Crash(w), NEW r \in Resources
  PROVE  Frozen(r)
  <1>1. copy[w] # NoLease
    BY DEF HeartbeatStep, BeginHeartbeat, HeartbeatCommits, HeartbeatRefused,
           HeartbeatStoreError, Reload, ReloadFails, StopSupervisor, Crash, LeaseIInv, LeaseTypeOK
  <1>2. RowOf(w) \in Lease
    BY <1>1, HolderFacts
  <1>3. CASE rows' = rows
    BY <1>3, SameRowsFreeze
  <1>4. CASE HeartbeatCommits(w)
    <2>1. rows' = WithRow(w, Renewed(RowOf(w))) /\ RowOf(w).state = "active"
      BY <1>4 DEF HeartbeatCommits, HeartbeatAccepted
    <2>2. QED
      BY <1>1, <1>2, <2>1, RowOperations, HolderFreezes
  <1>5. CASE HeartbeatRefused(w) /\ rows' # rows
    <2>1. rows' = WithRow(w, Expired(RowOf(w))) /\ RowOf(w).state = "active"
      BY <1>5 DEF HeartbeatRefused
    <2>2. QED
      BY <1>1, <1>2, <2>1, RowOperations, HolderFreezes
  <1>6. CASE StopSupervisor(w) /\ rows' # rows
    <2>1. /\ rows' = WithRow(w, [RowOf(w) EXCEPT !.state = "released", !.version = @ + 1])
          /\ RowOf(w).state = "active"
      BY <1>6 DEF StopSupervisor, Releasable
    <2>2. QED
      BY <1>1, <1>2, <2>1, RowOperations, HolderFreezes
  <1>7. QED
    BY <1>3, <1>4, <1>5, <1>6 DEF HeartbeatStep, BeginHeartbeat, HeartbeatStoreError, Reload,
       ReloadFails, Crash

(* The sweep marks active rows only.                                        *)
LEMMA ExpireDueFreezes ==
  ASSUME LeaseIInv, NEW q \in Resources, ExpireDue(q), NEW r \in Resources
  PROVE  Frozen(r)
  <1> DEFINE n == Len(rows[q])
  <1>1. rows[q] \in Seq(Lease) /\ n \in Nat /\ DOMAIN rows[q] = 1 .. n
    BY LenProperties DEF LeaseIInv, LeaseTypeOK
  <1>2. CASE r # q
    <2>1. rows'[r] = rows[r]
      BY <1>2 DEF ExpireDue, LeaseIInv, LeaseTypeOK
    <2>2. QED
      BY <2>1, SameRowsFreeze
  <1>3. CASE r = q
    <2>1. rows'[q] = [t \in 1 .. n |->
             IF t \in DueTokens(q) THEN Expired(rows[q][t]) ELSE rows[q][t]]
      BY <1>1 DEF ExpireDue, LeaseIInv, LeaseTypeOK
    <2>2. \A t \in 1 .. n : rows[q][t] \in Lease
      BY <1>1
    <2>3. rows'[q] \in [1 .. n -> Lease]
      BY <2>1, <2>2, RowOperations
    <2>4. Len(rows'[q]) = n
      BY <1>1, <2>3, SeqDef, LenProperties
    <2>5. \A t \in 1 .. n : rows[q][t].state # "active" => rows'[q][t] = rows[q][t]
      BY <2>1 DEF DueTokens, ActiveTokens
    <2>6. QED
      BY <1>1, <1>3, <2>4, <2>5, OnlyActiveRowsMove
  <1>4. QED
    BY <1>2, <1>3

(* A tick takes time from rows, and changes nothing else of them.           *)
LEMMA TickFreezes ==
  ASSUME LeaseIInv, Tick, NEW r \in Resources
  PROVE  Frozen(r)
  <1> DEFINE n == Len(rows[r])
  <1>1. rows[r] \in Seq(Lease) /\ n \in Nat /\ DOMAIN rows[r] = 1 .. n
    BY LenProperties DEF LeaseIInv, LeaseTypeOK
  <1>2. \A t \in 1 .. n : rows[r][t] \in Lease
    BY <1>1
  <1>3. rows'[r] = [t \in 1 .. n |-> [rows[r][t] EXCEPT !.left = Less(@)]]
    BY <1>1 DEF Tick
  <1>4. \A t \in 1 .. n : /\ rows'[r][t].state = rows[r][t].state
                          /\ rows'[r][t].version = rows[r][t].version
                          /\ rows'[r][t].owner = rows[r][t].owner
    BY <1>2, <1>3 DEF Lease
  <1>5. Len(rows'[r]) = n
    <2>1. \A k \in 0 .. TTL : Less(k) \in 0 .. TTL
      BY DEF Less
    <2>2. \A row \in Lease : [row EXCEPT !.left = Less(@)] \in Lease
      BY <2>1 DEF Lease
    <2>3. rows'[r] \in [1 .. n -> Lease]
      BY <1>2, <1>3, <2>2
    <2>4. QED
      BY <1>1, <2>3, SeqDef, LenProperties
  <1>6. QED
    BY <1>1, <1>4, <1>5, OnlyActiveRowsMove

-----------------------------------------------------------------------------
(* The table is well typed and its invariant holds in every behaviour, with *)
(* any number of supervisors, Runs, renewals and crashes.                   *)
THEOREM LeaseInvariant == LeaseSpec => []LeaseIInv
  <1>1. QED
    BY LeaseInitInvariant, LeaseNextInvariant, PTL DEF LeaseSpec

(* Every row and every copy stays a row and a copy, whatever interleaves.   *)
THEOREM LeaseTypes == LeaseSpec => []LeaseTypeOK
  <1>1. LeaseIInv => LeaseTypeOK
    BY DEF LeaseIInv
  <1>2. QED
    BY <1>1, LeaseInvariant, PTL

(* Every copy within its deadline names an active row that is still its     *)
(* owner's and expires no earlier.                                          *)
THEOREM BeliefSafety == LeaseSpec => []BeliefIsSound
  <1>1. LeaseIInv => BeliefIsSound
    BY DEF LeaseIInv
  <1>2. QED
    BY <1>1, LeaseInvariant, PTL

(* At most one supervisor per Run acts within the deadline it knows.        *)
THEOREM SupervisorSafety == LeaseSpec => []SoleSupervisor
  <1>1. QED
    BY InvariantImpliesSoleSupervisor, LeaseInvariant, PTL

(* No step of any actor touches the state, version or owner of a superseded *)
(* row, and no history shrinks.                                             *)
THEOREM HistoryIsFrozen == LeaseSpec => SupersededIsFrozen
  <1>1. LeaseIInv /\ [LeaseNext]_leaseVars => \A r \in Resources : Frozen(r)
    <2>1. SUFFICES ASSUME LeaseIInv, [LeaseNext]_leaseVars, NEW r \in Resources PROVE Frozen(r)
      OBVIOUS
    <2>2. CASE \E w \in Supervisors, q \in Resources : AcquireLease(w, q)
      BY <2>1, <2>2, AcquireFreezes
    <2>3. CASE \E w \in Supervisors : HeartbeatStep(w) \/ StopSupervisor(w) \/ Crash(w)
      BY <2>1, <2>3, HeartbeatFreezes
    <2>4. CASE \E q \in Resources : ExpireDue(q)
      BY <2>1, <2>4, ExpireDueFreezes
    <2>5. CASE Tick
      BY <2>1, <2>5, TickFreezes
    <2>6. CASE UNCHANGED leaseVars
      BY <2>1, <2>6, SameRowsFreeze DEF leaseVars
    <2>7. QED
      BY <2>1, <2>2, <2>3, <2>4, <2>5, <2>6 DEF LeaseNext
  <1>2. QED
    BY <1>1, LeaseInvariant, PTL DEF LeaseSpec, SupersededIsFrozen, Frozen
=============================================================================
