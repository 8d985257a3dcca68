----------------------- MODULE ReviewAndChange_proofs -----------------------
(***************************************************************************)
(* Proofs about what people decide between the steps of a Run: the review  *)
(* gates, for any workers, operators, gates, requests and faults, and the  *)
(* content changes, for any operators, humans and incidents.               *)
(***************************************************************************)
EXTENDS ReviewGate, CandidateChange, FiniteSetTheorems, TLAPS

-----------------------------------------------------------------------------
(* Review gates: the inductive invariant.                                  *)

GateShapes ==
    /\ subject \in {"task", "authoring"}
    /\ run \in RunStatus
    /\ stage \in [Gates -> [status : StageStatus, verdict : Verdicts]]
    /\ current \subseteq (Actors \cup Operators) \X Rows
    /\ decision \in [Gates -> Actions \cup {"none"}]
    /\ control \in {"absent", "requested", "acknowledged"}
    /\ job \in [Jobs -> JobState]
    /\ lost \in Seq(Jobs) /\ todo \in Seq(Jobs)
    /\ actor \in [Actors -> [phase : Phase, job : Jobs \cup {NoJob}]]
    /\ operator \in [Operators -> Gates \cup {0}]
    /\ faults \in 0 .. MaxFaults

\* A job in doubt is reported once, and a pass only takes such jobs.
QueuesFit ==
    /\ \A i \in 1 .. Len(lost) : job[lost[i]] = "in_doubt"
    /\ \A i, k \in 1 .. Len(lost) : lost[i] = lost[k] => i = k
    /\ \A i \in 1 .. Len(todo) : job[todo[i]] \in {"in_doubt", "interrupted"}

\* Coordinators are not claimed here, so they are never lost.
CoordinatorsFit ==
    \A j \in Coordinators : job[j] \in {"absent", "queued", "succeeded", "failed", "canceled"}

\* The stage, the decision and the two jobs of a gate.
GateFits(a) ==
    /\ decision[a] # "none" => stage[a].status \in {"waiting", "completed"}
    /\ stage[a].status = "completed" => /\ decision[a] # "none"
                                        /\ stage[a].verdict = Verdict(decision[a])
    /\ job[Start(a)] # "absent" => stage[a].status # "absent"
    /\ job[Resolve(a)] # "absent" => decision[a] # "none"
    /\ job[Resolve(a)] # "interrupted"

\* States of a job a delivery may still believe to be its own.
Delivered == {"running", "lapsed", "in_doubt", "interrupted"}
StartPhase == {"look", "begin", "open", "done", "refused"}
ResolvePhase == {"look", "complete", "project", "move", "enqueue", "done", "refused"}

HandlerFits(x) ==
    \/ actor[x] = Idle
    \/ \E a \in Gates :
          /\ actor[x].job = Start(a) /\ actor[x].phase \in StartPhase
          /\ job[Start(a)] \in Delivered
          /\ x \in Workers
    \/ \E a \in Gates :
          /\ actor[x].job = Resolve(a) /\ actor[x].phase \in ResolvePhase
          /\ job[Resolve(a)] \in Delivered
          /\ x = Recovery => job[Resolve(a)] = "in_doubt"
          /\ actor[x].phase \in {"project", "move", "enqueue"} => stage[a].status = "completed"

\* No job is delivered twice at a time.
DeliveredOnce ==
    \A x, y \in Workers : actor[x] # Idle /\ actor[x].job = actor[y].job => x = y

\* The delivery of x, if it resolves gate a, has not failed to move the Run.
StillServes(x, a) ==
    actor[x].job = Resolve(a) =>
        \/ actor[x].phase \in {"look", "complete", "project"}
        \/ actor[x].phase = "move" /\ <<x, RunRow>> \in current

\* Gate a keeps a Run that waits for review from waiting for nothing.
KeepsWait(a) ==
    \/ stage[a].status = "waiting"
    \/ stage[a].status = "completed" /\ job[Resolve(a)] \in {"lapsed", "in_doubt"}
    \/ /\ stage[a].status = "completed" /\ job[Resolve(a)] = "running"
       /\ \A x \in Workers : StillServes(x, a)

ReviewIsServed == run = "waiting_review" => \E a \in Gates : KeepsWait(a)

GateIInv ==
    /\ GateShapes
    /\ QueuesFit
    /\ CoordinatorsFit
    /\ \A a \in Gates : GateFits(a)
    /\ \A x \in Actors : HandlerFits(x)
    /\ DeliveredOnce
    /\ ReviewIsServed

-----------------------------------------------------------------------------
(* The jobs, and the operators of the library the actions use.             *)

LEMMA JobsDiffer ==
    /\ \A a \in Gates : /\ Start(a) \in Jobs \ Coordinators /\ Resolve(a) \in Jobs \ Coordinators
                        /\ Coordinate(a) \in Coordinators
                        /\ Start(a)[1] = "start" /\ Start(a)[2] = a
                        /\ Resolve(a)[1] = "resolve" /\ Resolve(a)[2] = a
    /\ \A a, b \in Gates : /\ Start(a) # Resolve(b)
                           /\ Start(a) = Start(b) => a = b
                           /\ Resolve(a) = Resolve(b) => a = b
    /\ Coordinators \subseteq Jobs /\ NoJob \notin Jobs
    /\ \A j \in Coordinators : j[1] \notin {"start", "resolve"}
<1>1. \A a \in Gates : a \in 0 .. MaxGates
  BY ReviewAssumption DEF Gates
<1>2. \A a : Start(a)[1] = "start" /\ Start(a)[2] = a /\ Resolve(a)[1] = "resolve"
             /\ Resolve(a)[2] = a /\ Coordinate(a)[1] = "coordinate"
  BY DEF Start, Resolve, Coordinate
<1>3. Continue[1] = "continue" /\ NoJob[1] = "none"
  BY DEF Continue, NoJob
<1>4. \A j \in Coordinators : j[1] \in {"coordinate", "continue"}
  BY <1>2, <1>3 DEF Coordinators
<1>5. \A j \in Jobs : j[1] # "none"
  BY <1>2, <1>4 DEF Jobs
<1> QED
  BY <1>1, <1>2, <1>3, <1>4, <1>5 DEF Jobs, Coordinators

LEMMA KindOfJob ==
    ASSUME NEW j \in Jobs \ Coordinators
    PROVE  \E a \in Gates : j = Start(a) \/ j = Resolve(a)
  BY DEF Jobs

LEMMA JobsAreFinite == IsFiniteSet(Jobs)
<1>1. IsFiniteSet(0 .. MaxGates) /\ IsFiniteSet(Gates)
  <2>1. 0 \in Int /\ 1 \in Int /\ MaxGates \in Int
    BY ReviewAssumption
  <2> QED
    BY <2>1, FS_Interval DEF Gates
<1>2. IsFiniteSet({Coordinate(a) : a \in 0 .. MaxGates})
  <2> DEFINE f == [a \in 0 .. MaxGates |-> Coordinate(a)]
  <2>1. f \in Surjection(0 .. MaxGates, {Coordinate(a) : a \in 0 .. MaxGates})
    BY DEF Surjection
  <2> QED
    BY <1>1, <2>1, FS_Surjection
<1>3. IsFiniteSet({Start(a) : a \in Gates}) /\ IsFiniteSet({Resolve(a) : a \in Gates})
  <2> DEFINE f == [a \in Gates |-> Start(a)]
             g == [a \in Gates |-> Resolve(a)]
  <2>1. /\ f \in Surjection(Gates, {Start(a) : a \in Gates})
        /\ g \in Surjection(Gates, {Resolve(a) : a \in Gates})
    BY DEF Surjection
  <2> QED
    BY <1>1, <2>1, FS_Surjection
<1>4. IsFiniteSet({Continue})
  BY FS_Singleton
<1>5. IsFiniteSet(Coordinators)
  BY <1>2, <1>4, FS_Union DEF Coordinators
<1>6. IsFiniteSet(Coordinators \cup {Start(a) : a \in Gates})
  BY <1>3, <1>5, FS_Union
<1> QED
  BY <1>3, <1>6, FS_Union DEF Jobs

(* A non-empty family of subsets of a finite set has a smallest member.    *)
LEMMA SmallestSubset ==
    ASSUME NEW S, IsFiniteSet(S), NEW Family \in SUBSET (SUBSET S), Family # {}
    PROVE  \E T \in Family : \A U \in Family : U \subseteq T => U = T
<1>1. IsWellFoundedOn(StrictSubsetOrdering(S), SUBSET S)
  <2>1. IsWellFoundedOn(StrictSubsetOrdering(S), FiniteSubsetsOf(S))
    BY FS_StrictSubsetOrderingWellFounded, Zenon
  <2>2. FiniteSubsetsOf(S) = SUBSET S
    BY FS_FiniteSubsetsOfFinite, Zenon
  <2> QED
    BY <2>1, <2>2
<1>2. PICK T \in Family : \A U \in Family : <<U, T>> \notin StrictSubsetOrdering(S)
  BY <1>1, WFMin
<1> QED
  BY <1>2 DEF StrictSubsetOrdering

LEMMA MinIsMember ==
    ASSUME NEW S \in SUBSET Gates, S # {}
    PROVE  Min(S) \in S
<1> DEFINE UpTo(n) == {m \in S : m =< n}
           Family == {UpTo(n) : n \in S}
<1>1. IsFiniteSet(S)
  <2>1. MaxGates \in Int /\ IsFiniteSet(Gates)
    BY ReviewAssumption, FS_Interval DEF Gates
  <2> QED
    BY <2>1, FS_Subset
<1>2. Family \in SUBSET (SUBSET S) /\ Family # {}
  OBVIOUS
<1>3. PICK T \in Family : \A U \in Family : U \subseteq T => U = T
  <2> HIDE DEF Family
  <2> QED
    BY <1>1, <1>2, SmallestSubset
<1>4. PICK n \in S : T = UpTo(n)
  BY <1>3
<1>5. \A m \in S : n =< m
  <2> SUFFICES ASSUME NEW m \in S, ~(n =< m)
               PROVE  FALSE
    OBVIOUS
  <2>1. \A k \in S : k \in Int
    BY DEF Gates
  <2>2. UpTo(m) \subseteq UpTo(n)
    BY <2>1
  <2>3. UpTo(m) = UpTo(n)
    BY <1>3, <1>4, <2>2
  <2>4. n \in UpTo(n) /\ n \notin UpTo(m)
    BY <2>1
  <2> QED
    BY <2>3, <2>4
<1> QED
  BY <1>5 DEF Min

(* A set of jobs in some order.                                            *)
LEMMA InSomeOrder ==
    ASSUME NEW found \in SUBSET Jobs
    PROVE  LET q == SetToSeq(found)
           IN  /\ q \in Seq(Jobs)
               /\ \A i \in 1 .. Len(q) : q[i] \in found
               /\ \A i, k \in 1 .. Len(q) : q[i] = q[k] => i = k
<1> DEFINE n == Cardinality(found)
           q == SetToSeq(found)
<1>1. IsFiniteSet(found)
  BY JobsAreFinite, FS_Subset
<1>2. n \in Nat /\ ExistsBijection(1 .. n, found)
  BY <1>1, FS_CardinalityType
<1>3. \E f \in [1 .. n -> found] : IsInjective(f)
  BY <1>2 DEF ExistsBijection, Bijection, Injection, IsInjective
<1>4. q \in [1 .. n -> found] /\ IsInjective(q)
  BY <1>3 DEF SetToSeq
<1>5. q \in [1 .. n -> found] /\ \A i, k \in 1 .. n : q[i] = q[k] => i = k
  BY <1>4 DEF IsInjective
<1> HIDE DEF n, q
<1>6. q \in Seq(found) /\ Len(q) = n
  BY <1>2, <1>5
<1> QED
  BY <1>2, <1>5, <1>6 DEF q

(* A sequence without one of its places.                                   *)
LEMMA RemoveAtFacts ==
    ASSUME NEW X, NEW q \in Seq(X), NEW i \in 1 .. Len(q)
    PROVE  /\ RemoveAt(q, i) \in Seq(X)
           /\ Len(RemoveAt(q, i)) = Len(q) - 1
           /\ \A k \in 1 .. Len(q) - 1 :
                 RemoveAt(q, i)[k] = IF k < i THEN q[k] ELSE q[k + 1]
<1> DEFINE a == SubSeq(q, 1, i - 1)
           b == SubSeq(q, i + 1, Len(q))
<1>1. a \in Seq(X) /\ Len(a) = i - 1 /\ \A k \in 1 .. i - 1 : a[k] = q[k]
  OBVIOUS
<1>2. b \in Seq(X) /\ Len(b) = Len(q) - i /\ \A k \in 1 .. Len(q) - i : b[k] = q[k + i]
  OBVIOUS
<1>3. RemoveAt(q, i) = a \o b
  BY DEF RemoveAt
<1> HIDE DEF a, b
<1>4. a \o b \in Seq(X) /\ Len(a \o b) = Len(q) - 1
  <2>0. a \in Seq(X) /\ b \in Seq(X)
    BY <1>1, <1>2
  <2>1. a \o b \in Seq(X) /\ Len(a \o b) = Len(a) + Len(b)
    BY <2>0
  <2> QED
    BY <1>1, <1>2, <2>1
<1>5. \A k \in 1 .. Len(q) - 1 : (a \o b)[k] = IF k < i THEN q[k] ELSE q[k + 1]
  <2> SUFFICES ASSUME NEW k \in 1 .. Len(q) - 1
               PROVE  (a \o b)[k] = IF k < i THEN q[k] ELSE q[k + 1]
    OBVIOUS
  <2>1. CASE k < i
    BY <1>1, <1>2, <2>1
  <2>2. CASE ~(k < i)
    <3>1. k - (i - 1) \in 1 .. Len(q) - i /\ (k - (i - 1)) + i = k + 1
      BY <2>2
    <3>2. (a \o b)[k] = b[k - (i - 1)]
      BY <1>1, <1>2, <2>2
    <3> QED
      BY <1>2, <2>2, <3>1, <3>2
  <2> QED
    BY <2>1, <2>2
<1> QED
  BY <1>3, <1>4, <1>5

(* If no element is there twice, the removed one is gone.                  *)
LEMMA RemoveAtRemoves ==
    ASSUME NEW X, NEW q \in Seq(X), NEW i \in 1 .. Len(q),
           \A m, k \in 1 .. Len(q) : q[m] = q[k] => m = k
    PROVE  LET r == RemoveAt(q, i)
           IN  /\ r \in Seq(X)
               /\ \A m, k \in 1 .. Len(r) : r[m] = r[k] => m = k
               /\ \A k \in 1 .. Len(r) : r[k] # q[i] /\ \E m \in 1 .. Len(q) : r[k] = q[m]
<1> DEFINE r == RemoveAt(q, i)
           Of(k) == IF k < i THEN k ELSE k + 1
<1>1. r \in Seq(X) /\ Len(r) = Len(q) - 1 /\ \A k \in 1 .. Len(q) - 1 : r[k] = q[Of(k)]
  BY RemoveAtFacts
<1>2. \A k \in 1 .. Len(q) - 1 : Of(k) \in 1 .. Len(q) /\ Of(k) # i
  OBVIOUS
<1>3. \A m, k \in 1 .. Len(q) - 1 : Of(m) = Of(k) => m = k
  OBVIOUS
<1> HIDE DEF r, Of
<1>4. \A k \in 1 .. Len(r) : r[k] = q[Of(k)] /\ Of(k) \in 1 .. Len(q) /\ Of(k) # i
  BY <1>1, <1>2
<1>5. \A k \in 1 .. Len(r) : r[k] # q[i] /\ \E m \in 1 .. Len(q) : r[k] = q[m]
  BY <1>4
<1>6. \A m, k \in 1 .. Len(r) : r[m] = r[k] => m = k
  BY <1>1, <1>3, <1>4
<1> QED
  BY <1>1, <1>5, <1>6 DEF r

-----------------------------------------------------------------------------
(* What a step leaves of the invariant.                                    *)

\* What may become of a job another delivery believes to be its own.
JobStays(j) ==
    /\ job[j] \in Delivered => job'[j] \in Delivered
    /\ job[j] = "in_doubt" => job'[j] \in {"in_doubt", "interrupted"}
    /\ job[j] = "interrupted" => job'[j] = "interrupted"

OnlyActor(x) == \A y \in Actors \ {x} : actor'[y] = actor[y]
EndsStay == \A a \in Gates : stage[a].status = "completed" => stage'[a].status = "completed"
CopiesStay(x) == \A y \in Workers \ {x} : <<y, RunRow>> \in current => <<y, RunRow>> \in current'
CurrentShape == current \subseteq (Actors \cup Operators) \X Rows

(* Whoever handles a job handles that of a gate, and knows which.          *)
LEMMA StartHandler ==
    ASSUME GateIInv, NEW x \in Actors, actor[x].job[1] = "start"
    PROVE  /\ Gate(x) \in Gates /\ actor[x].job = Start(Gate(x)) /\ x \in Workers
           /\ job[Start(Gate(x))] \in Delivered /\ actor[x].phase \in StartPhase
           /\ actor[x] # Idle
<1>1. actor[x].job # NoJob /\ \A a \in Gates : actor[x].job # Resolve(a)
  BY JobsDiffer DEF NoJob
<1>2. actor[x] # Idle
  BY <1>1 DEF Idle
<1> QED
  BY <1>1, <1>2, JobsDiffer DEF GateIInv, HandlerFits, Gate

LEMMA ResolveHandler ==
    ASSUME GateIInv, NEW x \in Actors, actor[x].job[1] = "resolve"
    PROVE  /\ Gate(x) \in Gates /\ actor[x].job = Resolve(Gate(x))
           /\ job[Resolve(Gate(x))] \in Delivered /\ actor[x].phase \in ResolvePhase
           /\ x = Recovery => job[Resolve(Gate(x))] = "in_doubt"
           /\ actor[x].phase \in {"project", "move", "enqueue"}
                => stage[Gate(x)].status = "completed"
           /\ actor[x] # Idle
           /\ decision[Gate(x)] \in Actions
<1>1. actor[x].job # NoJob /\ \A a \in Gates : actor[x].job # Start(a)
  BY JobsDiffer DEF NoJob
<1>2. actor[x] # Idle
  BY <1>1 DEF Idle
<1>3. PICK a \in Gates : /\ actor[x].job = Resolve(a) /\ actor[x].phase \in ResolvePhase
                         /\ job[Resolve(a)] \in Delivered
                         /\ x = Recovery => job[Resolve(a)] = "in_doubt"
                         /\ actor[x].phase \in {"project", "move", "enqueue"}
                              => stage[a].status = "completed"
  BY <1>1, <1>2 DEF GateIInv, HandlerFits
<1>4. a = Gate(x)
  BY <1>3, JobsDiffer DEF Gate
<1>5. decision[a] # "none"
  BY <1>3 DEF GateIInv, GateFits, Delivered
<1> QED
  BY <1>2, <1>3, <1>4, <1>5 DEF GateIInv, GateShapes

(* A handler nobody touches stays what it was.                             *)
LEMMA HandlerStays ==
    ASSUME GateIInv, NEW y \in Actors, actor'[y] = actor[y], EndsStay,
           \A a \in Gates : GateFits(a)',
           \A j \in Jobs : actor[y].job = j => JobStays(j)
    PROVE  HandlerFits(y)'
<1>1. CASE actor[y] = Idle
  BY <1>1 DEF HandlerFits
<1>2. ASSUME NEW a \in Gates, actor[y].job = Start(a), actor[y].phase \in StartPhase,
             job[Start(a)] \in Delivered, y \in Workers
      PROVE  HandlerFits(y)'
  <2>1. JobStays(Start(a))
    BY <1>2, JobsDiffer
  <2> QED
    BY <1>2, <2>1 DEF HandlerFits, JobStays
<1>3. ASSUME NEW a \in Gates, actor[y].job = Resolve(a), actor[y].phase \in ResolvePhase,
             job[Resolve(a)] \in Delivered, y = Recovery => job[Resolve(a)] = "in_doubt",
             actor[y].phase \in {"project", "move", "enqueue"} => stage[a].status = "completed"
      PROVE  HandlerFits(y)'
  <2>1. JobStays(Resolve(a)) /\ job'[Resolve(a)] # "interrupted"
    BY <1>3, JobsDiffer DEF GateFits
  <2>2. actor[y].phase \in {"project", "move", "enqueue"} => stage'[a].status = "completed"
    BY <1>3 DEF EndsStay
  <2> QED
    BY <1>3, <2>1, <2>2 DEF HandlerFits, JobStays
<1> QED
  BY <1>1, <1>2, <1>3 DEF GateIInv, HandlerFits

(* Everyone stays what he was when one actor, or none, moves and ends at   *)
(* most his own job.                                                       *)
LEMMA HandlersStay ==
    ASSUME GateIInv, NEW x \in Actors, OnlyActor(x), HandlerFits(x)', EndsStay,
           \A a \in Gates : GateFits(a)',
           \A j \in Jobs : JobStays(j) \/ (x \in Workers /\ actor[x].job = j /\ job[j] = "running")
    PROVE  \A y \in Actors : HandlerFits(y)'
<1> SUFFICES ASSUME NEW y \in Actors, y # x
             PROVE  HandlerFits(y)'
  OBVIOUS
<1>1. ASSUME NEW j \in Jobs, actor[y].job = j, ~JobStays(j)
      PROVE  FALSE
  <2>1. x \in Workers /\ actor[x].job = j /\ job[j] = "running"
    BY <1>1
  <2>2. actor[y] # Idle
    BY <1>1, JobsDiffer DEF Idle
  <2>3. job[actor[y].job] = "in_doubt" \/ y # Recovery
    BY <2>2, ReviewAssumption DEF GateIInv, HandlerFits
  <2>4. y \in Workers
    BY <1>1, <2>1, <2>3 DEF Actors
  <2> QED
    BY <1>1, <2>1, <2>2, <2>4 DEF GateIInv, DeliveredOnce
<1> QED
  BY <1>1, HandlerStays DEF OnlyActor

LEMMA StillOnce ==
    ASSUME GateIInv, NEW x \in Actors, OnlyActor(x),
           \/ actor'[x] = Idle
           \/ actor[x] # Idle /\ actor'[x].job = actor[x].job
           \/ actor'[x].job \in Jobs /\ job[actor'[x].job] \notin Delivered
           \/ x \notin Workers
    PROVE  DeliveredOnce'
<1> SUFFICES ASSUME NEW y \in Workers, NEW z \in Workers, actor'[y] # Idle,
                    actor'[y].job = actor'[z].job, y # z
             PROVE  FALSE
  BY DEF DeliveredOnce
<1>1. y \in Actors /\ z \in Actors
  BY DEF Actors
<1>2. \A w \in Actors : actor[w] = Idle => actor[w].job = NoJob
  BY DEF Idle
<1>3. \A w \in Workers : actor[w] # Idle => /\ actor[w].job \in Jobs
                                            /\ job[actor[w].job] \in Delivered
  BY JobsDiffer DEF GateIInv, HandlerFits, Actors
<1>4. CASE y # x /\ z # x
  BY <1>1, <1>4 DEF OnlyActor, GateIInv, DeliveredOnce
<1>5. CASE y = x
  <2>1. actor'[z] = actor[z]
    BY <1>1, <1>5 DEF OnlyActor
  <2> QED
    BY <1>1, <1>2, <1>3, <1>5, <2>1, JobsDiffer DEF GateIInv, DeliveredOnce
<1>6. CASE z = x
  <2>1. actor'[y] = actor[y]
    BY <1>1, <1>6 DEF OnlyActor
  <2>2. actor'[z] # Idle
    BY <1>3, <2>1, JobsDiffer DEF Idle
  <2> QED
    BY <1>1, <1>2, <1>3, <1>6, <2>1, <2>2, JobsDiffer DEF GateIInv, DeliveredOnce
<1> QED
  BY <1>4, <1>5, <1>6

(* The jobs in doubt stay where they were reported.                        *)
LEMMA QueuesStay ==
    ASSUME GateIInv, lost' = lost, todo' \in {todo, <<>>} \/ (todo # <<>> /\ todo' = Tail(todo)),
           \A j \in Jobs : job[j] \in {"in_doubt", "interrupted"} => job'[j] = job[j]
    PROVE  QueuesFit' /\ todo' \in Seq(Jobs)
<1>1. lost \in Seq(Jobs) /\ todo \in Seq(Jobs)
  BY DEF GateIInv, GateShapes
<1>2. \A i \in 1 .. Len(lost) : lost[i] \in Jobs /\ job'[lost[i]] = "in_doubt"
  BY <1>1 DEF GateIInv, QueuesFit
<1>3. todo' \in Seq(Jobs) /\ \A i \in 1 .. Len(todo') : \E k \in 1 .. Len(todo) : todo'[i] = todo[k]
  <2>1. CASE todo' = Tail(todo) /\ todo # <<>>
    <3>1. Tail(todo) \in Seq(Jobs) /\ \A i \in 1 .. Len(Tail(todo)) :
             i + 1 \in 1 .. Len(todo) /\ Tail(todo)[i] = todo[i + 1]
      BY <1>1, <2>1
    <3> QED
      BY <2>1, <3>1
  <2>2. CASE todo' = todo
    BY <1>1, <2>2
  <2>3. CASE todo' = <<>>
    BY <2>3
  <2> QED
    BY <2>1, <2>2, <2>3
<1>4. \A k \in 1 .. Len(todo) : /\ todo[k] \in Jobs
                                /\ job'[todo[k]] \in {"in_doubt", "interrupted"}
  BY <1>1 DEF GateIInv, QueuesFit
<1> QED
  BY <1>2, <1>3, <1>4 DEF GateIInv, QueuesFit

(* What keeps a Run waiting goes on keeping it.                            *)
LEMMA WaitIsKept ==
    ASSUME GateIInv, NEW a \in Gates, KeepsWait(a), NEW x \in Actors, OnlyActor(x),
           CopiesStay(x), stage'[a] = stage[a], job'[Resolve(a)] = job[Resolve(a)],
           x \in Workers /\ StillServes(x, a) /\ job[Resolve(a)] = "running"
             => StillServes(x, a)'
    PROVE  KeepsWait(a)'
<1>1. ASSUME NEW y \in Workers, StillServes(y, a), job[Resolve(a)] = "running"
      PROVE  StillServes(y, a)'
  <2>1. CASE y = x
    BY <1>1, <2>1
  <2>2. CASE y # x
    BY <1>1, <2>2 DEF StillServes, OnlyActor, CopiesStay, Actors
  <2> QED
    BY <2>1, <2>2
<1> QED
  BY <1>1 DEF KeepsWait

LEMMA HoldFacts ==
    ASSUME CurrentShape, NEW p \in Actors \cup Operators, NEW taken \in SUBSET Rows, NEW written,
           Hold(p, taken, written)
    PROVE  /\ CurrentShape'
           /\ RunRow \notin written => CopiesStay(p)
           /\ RunRow \in taken => <<p, RunRow>> \in current'
<1>1. CurrentShape'
  BY DEF Hold, CurrentShape
<1>2. ASSUME RunRow \notin written, NEW y \in Workers \ {p}, <<y, RunRow>> \in current
      PROVE  <<y, RunRow>> \in current'
  BY <1>2 DEF Hold
<1> QED
  BY <1>1, <1>2 DEF CopiesStay, Hold

LEMMA ReadFacts ==
    ASSUME CurrentShape, NEW p \in Actors \cup Operators, NEW taken \in SUBSET Rows,
           Hold(p, taken, {})
    PROVE  /\ CurrentShape' /\ CopiesStay(p)
           /\ RunRow \in taken => <<p, RunRow>> \in current'
  BY DEF Hold, CurrentShape, CopiesStay

LEMMA WriteFacts ==
    ASSUME CurrentShape, NEW written, Write(written)
    PROVE  CurrentShape' /\ \A x : RunRow \notin written => CopiesStay(x)
  BY DEF CurrentShape, Write, CopiesStay

(* The parts of a step, put together.                                      *)
LEMMA GateStep ==
    ASSUME GateIInv, GateShapes', QueuesFit', CoordinatorsFit', \A a \in Gates : GateFits(a)',
           NEW x \in Actors, OnlyActor(x), HandlerFits(x)', EndsStay,
           \A j \in Jobs : JobStays(j) \/ (x \in Workers /\ actor[x].job = j /\ job[j] = "running"),
           \/ actor'[x] = Idle
           \/ actor[x] # Idle /\ actor'[x].job = actor[x].job
           \/ actor'[x].job \in Jobs /\ job[actor'[x].job] \notin Delivered
           \/ x \notin Workers,
           ReviewIsServed'
    PROVE  GateIInv'
  BY HandlersStay, StillOnce DEF GateIInv

-----------------------------------------------------------------------------
(* One lemma per action.  First the steps of a handler.                    *)

LEMMA GoFacts ==
    ASSUME GateIInv, NEW x \in Actors, NEW p \in Phase, Go(x, p)
    PROVE  /\ actor' \in [Actors -> [phase : Phase, job : Jobs \cup {NoJob}]]
           /\ OnlyActor(x) /\ actor'[x].phase = p /\ actor'[x].job = actor[x].job
  BY DEF Go, GateIInv, GateShapes, OnlyActor

LEMMA GatesStayBut ==
    ASSUME GateIInv, NEW a \in Gates, \A b \in Gates \ {a} : stage'[b] = stage[b],
           decision' = decision, job' = job, GateFits(a)'
    PROVE  \A b \in Gates : GateFits(b)'
  BY DEF GateIInv, GateFits

LEMMA HandlerStep ==
    ASSUME GateIInv, NEW x \in Actors, actor[x] # Idle, NEW p \in Phase, Go(x, p), NEW a \in Gates,
           UNCHANGED <<subject, decision, control, job, lost, todo, operator, faults>>,
           CurrentShape', run' \in RunStatus,
           stage' \in [Gates -> [status : StageStatus, verdict : Verdicts]],
           \A b \in Gates \ {a} : stage'[b] = stage[b],
           GateFits(a)', stage[a].status = "completed" => stage'[a].status = "completed",
           \/ actor[x].job = Start(a) /\ p \in StartPhase
           \/ /\ actor[x].job = Resolve(a) /\ p \in ResolvePhase
              /\ p \in {"project", "move", "enqueue"} => stage'[a].status = "completed",
           ReviewIsServed'
    PROVE  GateIInv'
<1>1. /\ actor' \in [Actors -> [phase : Phase, job : Jobs \cup {NoJob}]]
      /\ OnlyActor(x) /\ actor'[x].phase = p /\ actor'[x].job = actor[x].job
  BY GoFacts
<1>2. GateShapes'
  BY <1>1 DEF GateIInv, GateShapes, CurrentShape
<1>3. QueuesFit' /\ CoordinatorsFit' /\ \A j \in Jobs : JobStays(j)
  BY DEF GateIInv, QueuesFit, CoordinatorsFit, JobStays
<1>4. \A b \in Gates : GateFits(b)'
  BY GatesStayBut
<1>5. EndsStay
  BY DEF EndsStay
<1>6. HandlerFits(x)'
  <2>1. CASE actor[x].job = Start(a) /\ p \in StartPhase
    <3>1. actor[x].job[1] = "start" /\ Gate(x) = a
      BY <2>1, JobsDiffer DEF Gate
    <3>2. x \in Workers /\ job[Start(a)] \in Delivered
      BY <3>1, StartHandler
    <3> QED
      BY <1>1, <2>1, <3>2 DEF HandlerFits
  <2>2. CASE /\ actor[x].job = Resolve(a) /\ p \in ResolvePhase
             /\ p \in {"project", "move", "enqueue"} => stage'[a].status = "completed"
    <3>1. actor[x].job[1] = "resolve" /\ Gate(x) = a
      BY <2>2, JobsDiffer DEF Gate
    <3>2. job[Resolve(a)] \in Delivered /\ (x = Recovery => job[Resolve(a)] = "in_doubt")
      BY <3>1, ResolveHandler
    <3> QED
      BY <1>1, <2>2, <3>2 DEF HandlerFits
  <2> QED
    BY <2>1, <2>2
<1> QED
  BY <1>1, <1>2, <1>3, <1>4, <1>5, <1>6, GateStep

(* A handler that only reads, or is refused, leaves the wait to the others. *)
LEMMA WaitStays ==
    ASSUME GateIInv, NEW x \in Actors, OnlyActor(x), CopiesStay(x),
           run' = run, stage' = stage, \A a \in Gates : job'[Resolve(a)] = job[Resolve(a)],
           \A a \in Gates : x \in Workers /\ StillServes(x, a) /\ job[Resolve(a)] = "running"
                            /\ run = "waiting_review" /\ stage[a].status = "completed"
                              => StillServes(x, a)'
    PROVE  ReviewIsServed'
<1> SUFFICES ASSUME run = "waiting_review", NEW a \in Gates, KeepsWait(a)
             PROVE  KeepsWait(a)'
  BY DEF GateIInv, ReviewIsServed
<1>1. CASE stage[a].status = "completed"
  BY <1>1, WaitIsKept
<1>2. CASE stage[a].status # "completed"
  BY <1>2 DEF KeepsWait
<1> QED
  BY <1>1, <1>2

LEMMA ReadStep ==
    ASSUME GateIInv, NEW x \in Actors, actor[x] # Idle, NEW p \in Phase, Go(x, p), NEW a \in Gates,
           UNCHANGED <<subject, run, stage, decision, control, job, lost, todo, operator, faults>>,
           CurrentShape', CopiesStay(x),
           \/ actor[x].job = Start(a) /\ p \in StartPhase
           \/ /\ actor[x].job = Resolve(a) /\ p \in ResolvePhase
              /\ p \in {"project", "move", "enqueue"} => stage[a].status = "completed"
              /\ x \in Workers /\ StillServes(x, a) /\ job[Resolve(a)] = "running"
                   /\ run = "waiting_review" /\ stage[a].status = "completed"
                   => \/ p \in {"look", "complete", "project"}
                      \/ p = "move" /\ <<x, RunRow>> \in current'
    PROVE  GateIInv'
<1>1. OnlyActor(x) /\ actor'[x].phase = p /\ actor'[x].job = actor[x].job
  BY GoFacts
<1>2. ASSUME NEW b \in Gates, x \in Workers, StillServes(x, b), job[Resolve(b)] = "running",
             run = "waiting_review", stage[b].status = "completed"
      PROVE  StillServes(x, b)'
  BY <1>1, <1>2, JobsDiffer DEF StillServes
<1>3. ReviewIsServed'
  BY <1>1, <1>2, WaitStays
<1>4. GateFits(a)'
  BY DEF GateIInv, GateFits
<1> QED
  BY <1>3, <1>4, HandlerStep DEF GateIInv, GateShapes

LEMMA RefuseStep ==
    ASSUME GateIInv, NEW x \in Actors, actor[x] # Idle, Refuse(x), NEW a \in Gates,
           UNCHANGED <<subject, decision, control, job, lost, todo, operator, faults>>,
           \/ actor[x].job = Start(a)
           \/ /\ actor[x].job = Resolve(a)
              /\ ~(/\ x \in Workers /\ StillServes(x, a) /\ job[Resolve(a)] = "running"
                   /\ run = "waiting_review" /\ stage[a].status = "completed")
    PROVE  GateIInv'
<1>1. Go(x, "refused") /\ "refused" \in Phase /\ "refused" \in StartPhase \cap ResolvePhase
  BY DEF Refuse, Phase, StartPhase, ResolvePhase
<1>2. CurrentShape' /\ CopiesStay(x)
  <2>1. CurrentShape /\ {} \in SUBSET Rows /\ Hold(x, {}, {})
    BY DEF GateIInv, GateShapes, CurrentShape, Refuse
  <2>2. x \in Actors \cup Operators
    OBVIOUS
  <2> QED
    BY <2>1, <2>2, ReadFacts
<1> QED
  BY <1>1, <1>2, ReadStep DEF Refuse

LEMMA BeginGateKeeps ==
    ASSUME GateIInv, NEW x \in Workers, BeginGate(x)
    PROVE  GateIInv'
<1>0. x \in Actors /\ CurrentShape
  BY DEF Actors, GateIInv, GateShapes, CurrentShape
<1>1. PICK a \in Gates : a = Gate(x) /\ actor[x].job = Start(a) /\ actor[x] # Idle
  BY <1>0, StartHandler DEF BeginGate, Handles
<1>2. UNCHANGED <<subject, decision, control, job, lost, todo, operator, faults>>
  BY DEF BeginGate, queue
<1>3. CASE Refuse(x)
  BY <1>0, <1>1, <1>2, <1>3, RefuseStep
<1>4. CASE /\ stage[a].status = "queued" /\ SetStage(a, "running", "none") /\ Go(x, "open")
           /\ Hold(x, {a} \cup {r \in {RunRow} : Holds(x, {r})}, {a}) /\ UNCHANGED run
  <2>1. "open" \in Phase /\ "open" \in StartPhase
    BY DEF Phase, StartPhase
  <2>2. CurrentShape' /\ CopiesStay(x)
    <3>1. RunRow \notin {a}
      BY <1>1 DEF RunRow, Gates
    <3>2. {a} \cup {r \in {RunRow} : Holds(x, {r})} \in SUBSET Rows
      BY <1>1 DEF Rows
    <3> QED
      BY <1>0, <1>4, <3>1, <3>2, HoldFacts
  <2>3. /\ stage' \in [Gates -> [status : StageStatus, verdict : Verdicts]]
        /\ \A b \in Gates \ {a} : stage'[b] = stage[b]
        /\ stage'[a].status = "running"
    BY <1>1, <1>4 DEF SetStage, GateIInv, GateShapes, StageStatus, Verdicts
  <2>4. GateFits(a)'
    BY <1>1, <1>2, <1>4, <2>3 DEF GateIInv, GateFits
  <2>5. OnlyActor(x) /\ actor'[x].job = Start(a)
    BY <1>0, <1>1, <1>4, <2>1, GoFacts
  <2>6. ASSUME run = "waiting_review", NEW b \in Gates, KeepsWait(b)
        PROVE  KeepsWait(b)'
    <3>1. b # a /\ stage'[b] = stage[b]
      BY <1>4, <2>3, <2>6 DEF KeepsWait
    <3>2. StillServes(x, b)'
      BY <2>5, <2>6, <1>1, JobsDiffer DEF StillServes
    <3> QED
      BY <1>0, <1>2, <2>2, <2>5, <2>6, <3>1, <3>2, WaitIsKept
  <2>7. ReviewIsServed'
    BY <1>4, <2>6 DEF GateIInv, ReviewIsServed
  <2> QED
    BY <1>0, <1>1, <1>2, <1>4, <2>1, <2>2, <2>3, <2>4, <2>7, HandlerStep DEF GateIInv, GateShapes
<1> QED
  BY <1>1, <1>3, <1>4 DEF BeginGate

LEMMA OpenKeeps ==
    ASSUME GateIInv, NEW x \in Actors, Open(x)
    PROVE  GateIInv'
<1>0. CurrentShape
  BY DEF GateIInv, GateShapes, CurrentShape
<1>1. PICK a \in Gates : a = Gate(x) /\ actor[x].job = Start(a) /\ actor[x] # Idle
  BY StartHandler DEF Open, Handles
<1>2. UNCHANGED <<subject, decision, control, job, lost, todo, operator, faults>>
  BY DEF Open, queue
<1>3. CASE Refuse(x)
  BY <1>1, <1>2, <1>3, RefuseStep
<1>4. CASE /\ OpenState(x) /\ SetStage(a, "waiting", "none") /\ run' = "waiting_review"
           /\ Go(x, "done") /\ Hold(x, {}, {RunRow, a})
  <2>1. "done" \in Phase /\ "done" \in StartPhase
    BY DEF Phase, StartPhase
  <2>2. CurrentShape'
    <3>1. {} \in SUBSET Rows
      OBVIOUS
    <3> QED
      BY <1>0, <1>4, <3>1, HoldFacts
  <2>3. /\ stage' \in [Gates -> [status : StageStatus, verdict : Verdicts]]
        /\ \A b \in Gates \ {a} : stage'[b] = stage[b]
        /\ stage'[a].status = "waiting"
    BY <1>1, <1>4 DEF SetStage, GateIInv, GateShapes, StageStatus, Verdicts
  <2>4. stage[a].status \in {"queued", "running"}
    BY <1>1, <1>4 DEF OpenState
  <2>5. GateFits(a)'
    BY <1>1, <1>2, <2>3, <2>4 DEF GateIInv, GateFits
  <2>6. ReviewIsServed'
    BY <1>1, <2>3 DEF ReviewIsServed, KeepsWait
  <2> QED
    BY <1>1, <1>2, <1>4, <2>1, <2>2, <2>3, <2>4, <2>5, <2>6, HandlerStep DEF RunStatus
<1> QED
  BY <1>1, <1>3, <1>4 DEF Open

(* A resolution: what it reads, what it completes, what it moves.          *)
LEMMA HandleKeeps ==
    ASSUME GateIInv, NEW x \in Actors, Handle(x)
    PROVE  GateIInv'
<1>0. CurrentShape
  BY DEF GateIInv, GateShapes, CurrentShape
<1>1. PICK a \in Gates : a = Gate(x) /\ actor[x].job = Resolve(a) /\ actor[x] # Idle
  BY ResolveHandler DEF Handle, Handles
<1>2. UNCHANGED <<subject, run, stage, decision, control, job, lost, todo, operator, faults>>
  BY DEF Handle, gates, queue
<1>3. {"complete", "project", "refused"} \subseteq Phase \cap ResolvePhase
  BY DEF Phase, ResolvePhase
<1>4. CASE stage[a].status = "waiting" /\ Go(x, "complete") /\ Hold(x, {RunRow, a}, {})
  <2>1. {RunRow, a} \in SUBSET Rows /\ x \in Actors \cup Operators
    BY DEF Rows
  <2>2. CurrentShape' /\ CopiesStay(x)
    BY <1>0, <1>4, <2>1, ReadFacts
  <2> QED
    BY <1>1, <1>2, <1>3, <1>4, <2>2, ReadStep
<1>5. CASE stage[a].status = "completed" /\ Go(x, "project") /\ UNCHANGED current
  <2>1. CurrentShape' /\ CopiesStay(x)
    BY <1>0, <1>5 DEF CurrentShape, CopiesStay
  <2> QED
    BY <1>1, <1>2, <1>3, <1>5, <2>1, ReadStep
<1>6. CASE stage[a].status \notin {"waiting", "completed"} /\ Go(x, "refused") /\ UNCHANGED current
  <2>1. CurrentShape' /\ CopiesStay(x)
    BY <1>0, <1>6 DEF CurrentShape, CopiesStay
  <2>2. PICK p \in Phase : p = "refused"
    BY <1>3
  <2>3. p \in ResolvePhase /\ p \notin {"project", "move", "enqueue"} /\ Go(x, p)
    BY <1>3, <1>6, <2>2
  <2> QED
    BY <1>1, <1>2, <1>6, <2>1, <2>3, ReadStep
<1> QED
  BY <1>1, <1>4, <1>5, <1>6 DEF Handle

\* An authorised resolution that is a worker's is running.
LEMMA AuthorisedIs ==
    ASSUME GateIInv, NEW x \in Actors, Authorised(x), NEW a \in Gates, actor[x].job = Resolve(a)
    PROVE  job[Resolve(a)] \in {"running", "in_doubt"}
<1>1. actor[x].job[1] = "resolve" /\ Gate(x) = a
  BY JobsDiffer DEF Gate
<1> QED
  BY <1>1, ResolveHandler DEF Authorised

LEMMA CompleteKeeps ==
    ASSUME GateIInv, NEW x \in Actors, Complete(x)
    PROVE  GateIInv'
<1>0. CurrentShape
  BY DEF GateIInv, GateShapes, CurrentShape
<1>1. PICK a \in Gates : /\ a = Gate(x) /\ actor[x].job = Resolve(a) /\ actor[x] # Idle
                         /\ decision[a] \in Actions /\ job[Resolve(a)] \in Delivered
                         /\ actor[x].phase = "complete"
  BY ResolveHandler DEF Complete, Handles
<1>2. UNCHANGED <<subject, decision, control, job, lost, todo, operator, faults>>
  BY DEF Complete, queue
<1>3. {"project", "refused"} \subseteq Phase \cap ResolvePhase
  BY DEF Phase, ResolvePhase
<1>4. {} \in SUBSET Rows /\ x \in Actors \cup Operators /\ RunRow \notin {a}
  BY <1>1 DEF RunRow, Gates
<1>5. CASE /\ stage[a].status = "completed"
           /\ Go(x, "project") /\ Hold(x, {}, {}) /\ UNCHANGED <<run, stage>>
  <2>1. CurrentShape' /\ CopiesStay(x)
    BY <1>0, <1>4, <1>5, ReadFacts
  <2> QED
    BY <1>1, <1>2, <1>3, <1>5, <2>1, ReadStep
<1>6. CASE /\ Authorised(x) /\ Waiting(a) /\ SetStage(a, "completed", Verdict(decision[a]))
           /\ Go(x, "project") /\ Hold(x, {}, {a}) /\ UNCHANGED run
  <2>1. CurrentShape' /\ CopiesStay(x)
    BY <1>0, <1>4, <1>6, HoldFacts, Zenon
  <2>2. Verdict(decision[a]) \in Verdicts
    BY <1>1 DEF Verdict, Verdicts, Actions
  <2>3. /\ stage' \in [Gates -> [status : StageStatus, verdict : Verdicts]]
        /\ \A b \in Gates \ {a} : stage'[b] = stage[b]
        /\ stage'[a].status = "completed" /\ stage'[a].verdict = Verdict(decision[a])
    BY <1>1, <1>6, <2>2 DEF SetStage, GateIInv, GateShapes, StageStatus
  <2>4. GateFits(a)'
    <3>1. GateFits(a) /\ stage[a].status = "waiting"
      BY <1>6 DEF GateIInv, Waiting
    <3>2. decision[a] # "none"
      BY <1>1 DEF Actions
    <3> QED
      BY <1>2, <2>3, <3>1, <3>2 DEF GateFits, Verdict
  <2>5. OnlyActor(x) /\ actor'[x].job = Resolve(a) /\ actor'[x].phase = "project"
    BY <1>1, <1>3, <1>6, GoFacts
  <2>6. job[Resolve(a)] \in {"running", "in_doubt"}
    BY <1>1, <1>6, AuthorisedIs
  <2>7. ASSUME NEW y \in Workers, job[Resolve(a)] = "running"
        PROVE  StillServes(y, a)'
    <3>1. CASE y = x
      BY <2>5, <3>1 DEF StillServes
    <3>2. CASE y # x
      <4>1. x \in Workers \/ job[Resolve(a)] = "in_doubt"
        <5>1. actor[x].job[1] = "resolve" /\ Gate(x) = a
          BY <1>1, JobsDiffer DEF Gate
        <5> QED
          BY <5>1, ResolveHandler DEF Actors
      <4>2. actor'[y].job # Resolve(a)
        BY <1>1, <2>5, <2>7, <3>2, <4>1 DEF OnlyActor, Actors, GateIInv, DeliveredOnce
      <4> QED
        BY <4>2 DEF StillServes
    <3> QED
      BY <3>1, <3>2
  <2>8. KeepsWait(a)'
    BY <1>2, <2>3, <2>6, <2>7 DEF KeepsWait
  <2>9. ReviewIsServed'
    BY <2>8 DEF ReviewIsServed
  <2> QED
    BY <1>1, <1>2, <1>3, <1>6, <2>1, <2>3, <2>4, <2>9, HandlerStep DEF GateIInv, GateShapes
<1>7. CASE /\ Refuse(x)
           /\ ~(Authorised(x) /\ stage[a].status = "completed")
  <2>1. x \in Workers /\ job[Resolve(a)] = "running" => Authorised(x)
    BY <1>1 DEF Authorised
  <2> QED
    BY <1>1, <1>2, <1>7, <2>1, RefuseStep
<1> QED
  BY <1>1, <1>5, <1>6, <1>7 DEF Complete

LEMMA ProjectKeeps ==
    ASSUME GateIInv, NEW x \in Actors, Project(x)
    PROVE  GateIInv'
<1>0. CurrentShape
  BY DEF GateIInv, GateShapes, CurrentShape
<1>1. PICK a \in Gates : /\ a = Gate(x) /\ actor[x].job = Resolve(a) /\ actor[x] # Idle
                         /\ decision[a] \in Actions /\ stage[a].status = "completed"
  BY ResolveHandler DEF Project, Handles
<1>2. UNCHANGED <<subject, run, stage, decision, control, job, lost, todo, operator, faults>>
  BY DEF Project, gates, queue
<1> DEFINE p == Projection(decision[a])
           taken == IF p = "move" THEN {RunRow} ELSE {}
<1>3. p \in {"enqueue", "done", "move", "refused"}
  BY DEF Projection
<1>4. p \in Phase \cap ResolvePhase
  BY <1>3 DEF Phase, ResolvePhase
<1>5. run = "waiting_review" => p = "move"
  BY <1>1 DEF Projection, Target, FinishedRun, Actions
<1>6. Go(x, p) /\ Hold(x, taken, {})
  BY <1>1 DEF Project
<1> HIDE DEF p
<1>7. CurrentShape' /\ CopiesStay(x) /\ (RunRow \in taken => <<x, RunRow>> \in current')
  <2>1. taken \in SUBSET Rows /\ x \in Actors \cup Operators
    BY DEF Rows
  <2> HIDE DEF taken
  <2> QED
    BY <1>0, <1>6, <2>1, ReadFacts
<1> QED
  BY <1>1, <1>2, <1>4, <1>5, <1>6, <1>7, ReadStep

LEMMA MoveRunKeeps ==
    ASSUME GateIInv, NEW x \in Actors, MoveRun(x)
    PROVE  GateIInv'
<1>0. CurrentShape
  BY DEF GateIInv, GateShapes, CurrentShape
<1>1. PICK a \in Gates : /\ a = Gate(x) /\ actor[x].job = Resolve(a) /\ actor[x] # Idle
                         /\ decision[a] \in Actions /\ stage[a].status = "completed"
                         /\ actor[x].phase = "move"
  BY ResolveHandler DEF MoveRun, Handles
<1>2. UNCHANGED <<subject, decision, control, job, lost, todo, operator, faults>>
  BY DEF MoveRun, queue
<1>3. Target(decision[a]) \in RunStatus \ {"waiting_review"}
  BY <1>1 DEF Target, Actions, RunStatus
<1>4. CASE /\ run' = Target(decision[a])
           /\ Go(x, IF decision[a] = "approve" THEN "enqueue" ELSE "done")
           /\ Hold(x, {}, {RunRow}) /\ UNCHANGED stage
  <2>1. CurrentShape'
    <3>1. {} \in SUBSET Rows /\ x \in Actors \cup Operators
      OBVIOUS
    <3> QED
      BY <1>0, <1>4, <3>1, HoldFacts
  <2>2. PICK p \in {"enqueue", "done"} : Go(x, p)
    BY <1>4
  <2>3. p \in Phase /\ p \in ResolvePhase
    BY DEF Phase, ResolvePhase
  <2>4. ReviewIsServed'
    BY <1>3, <1>4 DEF ReviewIsServed
  <2>5. GateFits(a)'
    BY <1>2, <1>4 DEF GateIInv, GateFits
  <2> QED
    BY <1>1, <1>2, <1>3, <1>4, <2>1, <2>2, <2>3, <2>4, <2>5, HandlerStep DEF GateIInv, GateShapes
<1>5. CASE Refuse(x) /\ ~(Authorised(x) /\ Holds(x, {RunRow})
                          /\ ValidRunTransition(run, Target(decision[a])))
  <2>1. run = "waiting_review" => ValidRunTransition(run, Target(decision[a]))
    BY <1>1 DEF ValidRunTransition, Target, Actions
  <2>2. x \in Workers /\ StillServes(x, a) /\ job[Resolve(a)] = "running"
          => Authorised(x) /\ Holds(x, {RunRow})
    BY <1>1 DEF Authorised, StillServes, Holds
  <2> QED
    BY <1>1, <1>2, <1>5, <2>1, <2>2, RefuseStep
<1> QED
  BY <1>1, <1>4, <1>5 DEF MoveRun

-----------------------------------------------------------------------------
(* Jobs that are enqueued, claimed and ended.                              *)

LEMMA JobSet ==
    ASSUME GateIInv, NEW j \in Jobs, NEW v \in JobState, job' = [job EXCEPT ![j] = v]
    PROVE  /\ job' \in [Jobs -> JobState] /\ job'[j] = v
           /\ \A k \in Jobs \ {j} : job'[k] = job[k] /\ JobStays(k)
<1>1. /\ job' \in [Jobs -> JobState] /\ job'[j] = v
      /\ \A k \in Jobs \ {j} : job'[k] = job[k]
  BY DEF GateIInv, GateShapes
<1> QED
  BY <1>1 DEF JobStays

LEMMA EnqueueFacts ==
    ASSUME GateIInv, NEW j \in Jobs, Enqueue(j)
    PROVE  /\ job' \in [Jobs -> JobState]
           /\ \A k \in Jobs \ {j} : job'[k] = job[k]
           /\ job'[j] = IF job[j] = "absent" THEN "queued" ELSE job[j]
           /\ \A k \in Jobs : JobStays(k) /\ (job[k] \in Delivered => job'[k] = job[k])
<1>1. /\ job' \in [Jobs -> JobState]
      /\ \A k \in Jobs \ {j} : job'[k] = job[k]
      /\ job'[j] = IF job[j] = "absent" THEN "queued" ELSE job[j]
  BY DEF Enqueue, GateIInv, GateShapes, JobState
<1> QED
  BY <1>1 DEF JobStays, Delivered

(* A step that leaves every actor where it was.                            *)
LEMMA OutsideStep ==
    ASSUME GateIInv, GateShapes', QueuesFit', CoordinatorsFit', \A a \in Gates : GateFits(a)',
           actor' = actor, EndsStay, \A j \in Jobs : JobStays(j), ReviewIsServed'
    PROVE  GateIInv'
<1>1. Recovery \in Actors /\ Recovery \notin Workers
  BY ReviewAssumption DEF Actors
<1>2. OnlyActor(Recovery) /\ HandlerFits(Recovery)'
  BY <1>1, HandlerStays DEF OnlyActor
<1> QED
  BY <1>1, <1>2, GateStep

LEMMA EnqueueNextKeeps ==
    ASSUME GateIInv, NEW x \in Actors, EnqueueNext(x)
    PROVE  GateIInv'
<1>1. PICK a \in Gates : /\ a = Gate(x) /\ actor[x].job = Resolve(a) /\ actor[x] # Idle
                         /\ actor[x].phase = "enqueue" /\ job[Resolve(a)] \in Delivered
                         /\ x = Recovery => job[Resolve(a)] = "in_doubt"
  BY ResolveHandler DEF EnqueueNext, Handles
<1>2. UNCHANGED <<subject, run, stage, decision, control, lost, todo, operator, faults, current>>
  BY DEF EnqueueNext, gates
<1>3. {"done", "refused"} \subseteq Phase \cap ResolvePhase
  BY DEF Phase, ResolvePhase
<1>4. CASE Enqueue(Coordinate(a)) /\ Go(x, "done")
  <2>1. Coordinate(a) \in Jobs /\ Coordinate(a) \in Coordinators
    BY JobsDiffer
  <2>2. /\ job' \in [Jobs -> JobState]
        /\ \A k \in Jobs \ {Coordinate(a)} : job'[k] = job[k]
        /\ job'[Coordinate(a)] = IF job[Coordinate(a)] = "absent" THEN "queued"
                                 ELSE job[Coordinate(a)]
        /\ \A k \in Jobs : JobStays(k) /\ (job[k] \in Delivered => job'[k] = job[k])
    BY <1>4, <2>1, EnqueueFacts
  <2>3. \A b \in Gates : job'[Start(b)] = job[Start(b)] /\ job'[Resolve(b)] = job[Resolve(b)]
    BY <2>1, <2>2, JobsDiffer
  <2>4. \A b \in Gates : GateFits(b)'
    BY <1>2, <2>3 DEF GateIInv, GateFits
  <2>5. CoordinatorsFit'
    BY <2>1, <2>2, JobsDiffer DEF GateIInv, CoordinatorsFit
  <2>6. /\ actor' \in [Actors -> [phase : Phase, job : Jobs \cup {NoJob}]]
        /\ OnlyActor(x) /\ actor'[x].phase = "done" /\ actor'[x].job = actor[x].job
    BY <1>3, <1>4, GoFacts
  <2>7. GateShapes'
    BY <1>2, <2>2, <2>6 DEF GateIInv, GateShapes
  <2>8. QueuesFit'
    BY <1>2, <2>2, QueuesStay DEF Delivered
  <2>9. HandlerFits(x)' /\ EndsStay
    BY <1>1, <1>2, <1>3, <2>3, <2>6 DEF HandlerFits, EndsStay
  <2>10. ReviewIsServed'
    <3>1. CopiesStay(x)
      BY <1>2 DEF CopiesStay
    <3>2. ASSUME NEW b \in Gates, StillServes(x, b)
          PROVE  StillServes(x, b)'
      BY <1>1, <2>6, <3>2 DEF StillServes
    <3> QED
      BY <1>2, <2>3, <2>6, <3>1, <3>2, WaitStays
  <2> QED
    BY <1>1, <2>2, <2>4, <2>5, <2>6, <2>7, <2>8, <2>9, <2>10, GateStep
<1>5. CASE Go(x, "refused") /\ UNCHANGED job
  <2>1. CurrentShape' /\ CopiesStay(x)
    BY <1>2 DEF GateIInv, GateShapes, CurrentShape, CopiesStay
  <2>2. PICK p \in Phase : p = "refused"
    BY <1>3
  <2>3. p \in ResolvePhase /\ p \notin {"project", "move", "enqueue"} /\ Go(x, p)
    BY <1>3, <1>5, <2>2
  <2>4. ~StillServes(x, a)
    BY <1>1 DEF StillServes
  <2> QED
    BY <1>1, <1>2, <1>5, <2>1, <2>3, <2>4, ReadStep
<1> QED
  BY <1>1, <1>4, <1>5 DEF EnqueueNext

LEMMA ClaimKeeps ==
    ASSUME GateIInv, NEW x \in Workers, Claim(x)
    PROVE  GateIInv'
<1>0. x \in Actors /\ x # Recovery
  BY ReviewAssumption DEF Actors
<1>1. UNCHANGED <<subject, run, stage, decision, control, lost, todo, operator, faults, current>>
  BY DEF Claim, gates
<1>2. PICK j \in Jobs \ Coordinators :
         /\ job[j] = "queued" /\ job' = [job EXCEPT ![j] = "running"]
         /\ actor' = [actor EXCEPT ![x].phase = "look", ![x].job = j]
  BY DEF Claim
<1>3. /\ actor' \in [Actors -> [phase : Phase, job : Jobs \cup {NoJob}]]
      /\ OnlyActor(x) /\ actor'[x].phase = "look" /\ actor'[x].job = j
  BY <1>0, <1>2 DEF GateIInv, GateShapes, OnlyActor, Phase
<1>4. /\ job' \in [Jobs -> JobState] /\ job'[j] = "running"
      /\ \A k \in Jobs \ {j} : job'[k] = job[k] /\ JobStays(k)
  BY <1>2, JobSet DEF JobState
<1>5. \A k \in Jobs : JobStays(k) /\ (job[k] \in Delivered => job'[k] = job[k])
  BY <1>2, <1>4 DEF JobStays, Delivered
<1>6. GateShapes'
  BY <1>1, <1>3, <1>4 DEF GateIInv, GateShapes
<1>7. QueuesFit' /\ CoordinatorsFit'
  <2>1. CoordinatorsFit'
    BY <1>2, <1>4, JobsDiffer DEF GateIInv, CoordinatorsFit
  <2> QED
    BY <1>1, <1>5, <2>1, QueuesStay DEF Delivered
<1>8. \A b \in Gates : GateFits(b)'
  <2> SUFFICES ASSUME NEW b \in Gates
               PROVE  GateFits(b)'
    OBVIOUS
  <2>1. \A k \in {Start(b), Resolve(b)} : job'[k] = job[k] \/ (job[k] = "queued" /\ job'[k] = "running")
    BY <1>2, <1>4, JobsDiffer
  <2> QED
    BY <1>1, <2>1 DEF GateIInv, GateFits
<1>9. EndsStay
  BY <1>1 DEF EndsStay
<1>10. HandlerFits(x)'
  <2>1. PICK b \in Gates : j = Start(b) \/ j = Resolve(b)
    BY <1>2, KindOfJob
  <2> QED
    BY <1>0, <1>3, <1>4, <2>1 DEF HandlerFits, StartPhase, ResolvePhase, Delivered
<1>11. ReviewIsServed'
  <2> SUFFICES ASSUME run = "waiting_review", NEW b \in Gates, KeepsWait(b)
               PROVE  KeepsWait(b)'
    BY <1>1 DEF GateIInv, ReviewIsServed
  <2>1. CASE stage[b].status = "waiting"
    BY <1>1, <2>1 DEF KeepsWait
  <2>2. CASE stage[b].status # "waiting"
    <3>1. job[Resolve(b)] \in Delivered /\ Resolve(b) # j
      BY <1>2, <2>2 DEF KeepsWait, Delivered
    <3>2. job'[Resolve(b)] = job[Resolve(b)] /\ StillServes(x, b)'
      BY <1>3, <1>4, <3>1, JobsDiffer DEF StillServes
    <3>3. CopiesStay(x)
      BY <1>1 DEF CopiesStay
    <3> QED
      BY <1>0, <1>1, <1>3, <3>2, <3>3, WaitIsKept
  <2> QED
    BY <2>1, <2>2
<1> QED
  BY <1>0, <1>2, <1>3, <1>5, <1>6, <1>7, <1>8, <1>9, <1>10, <1>11, GateStep DEF Delivered

LEMMA DeliverKeeps ==
    ASSUME GateIInv, NEW x \in Workers, Deliver(x)
    PROVE  GateIInv'
<1>0. x \in Actors /\ x # Recovery /\ Idle \in [phase : Phase, job : Jobs \cup {NoJob}]
  BY ReviewAssumption DEF Actors, Idle, Phase
<1>1. UNCHANGED <<subject, run, stage, decision, control, lost, todo, operator, faults, current>>
  BY DEF Deliver, gates
<1>2. PICK j \in Jobs \ Coordinators : j = actor[x].job
  <2>1. actor[x] # Idle
    BY DEF Deliver, Idle
  <2> QED
    BY <1>0, <2>1, JobsDiffer DEF GateIInv, HandlerFits
<1>3. /\ actor' \in [Actors -> [phase : Phase, job : Jobs \cup {NoJob}]]
      /\ OnlyActor(x) /\ actor'[x] = Idle
  BY <1>0 DEF Deliver, GateIInv, GateShapes, OnlyActor
<1>4. \/ job' = job
      \/ /\ job[j] = "running"
         /\ \E v \in {"succeeded", "failed"} : job' = [job EXCEPT ![j] = v]
  BY <1>0, <1>2 DEF Deliver, Authorised
<1>5. /\ job' \in [Jobs -> JobState] /\ job'[j] \in {job[j], "succeeded", "failed"}
      /\ job'[j] = job[j] \/ job[j] = "running"
      /\ \A k \in Jobs \ {j} : job'[k] = job[k] /\ JobStays(k)
  <2>1. CASE job' = job
    BY <2>1 DEF GateIInv, GateShapes, JobStays
  <2>2. CASE /\ job[j] = "running"
             /\ \E v \in {"succeeded", "failed"} : job' = [job EXCEPT ![j] = v]
    <3>1. {"succeeded", "failed"} \subseteq JobState
      BY DEF JobState
    <3> QED
      BY <2>2, <3>1, JobSet
  <2> QED
    BY <1>4, <2>1, <2>2
<1>6. \A k \in Jobs : JobStays(k) \/ (x \in Workers /\ actor[x].job = k /\ job[k] = "running")
  BY <1>2, <1>5 DEF JobStays
<1>7. \A k \in Jobs : job[k] \in {"in_doubt", "interrupted"} => job'[k] = job[k]
  BY <1>5
<1>8. GateShapes'
  BY <1>1, <1>3, <1>5 DEF GateIInv, GateShapes
<1>9. QueuesFit' /\ CoordinatorsFit'
  <2>1. CoordinatorsFit'
    BY <1>2, <1>5, JobsDiffer DEF GateIInv, CoordinatorsFit
  <2> QED
    BY <1>1, <1>7, <2>1, QueuesStay
<1>10. \A b \in Gates : GateFits(b)'
  <2> SUFFICES ASSUME NEW b \in Gates
               PROVE  GateFits(b)'
    OBVIOUS
  <2>1. \A k \in {Start(b), Resolve(b)} :
           job'[k] = job[k] \/ (job[k] = "running" /\ job'[k] \in {"succeeded", "failed"})
    BY <1>2, <1>5, JobsDiffer
  <2> QED
    BY <1>1, <2>1 DEF GateIInv, GateFits
<1>11. EndsStay /\ HandlerFits(x)'
  BY <1>1, <1>3 DEF EndsStay, HandlerFits
<1>12. ReviewIsServed'
  <2> SUFFICES ASSUME run = "waiting_review", NEW b \in Gates, KeepsWait(b)
               PROVE  KeepsWait(b)'
    BY <1>1 DEF GateIInv, ReviewIsServed
  <2>1. CASE stage[b].status = "waiting"
    BY <1>1, <2>1 DEF KeepsWait
  <2>2. CASE stage[b].status # "waiting"
    <3>1. job'[Resolve(b)] = job[Resolve(b)]
      <4>1. j # Resolve(b) \/ job[j] # "running"
        BY <1>2, <2>2 DEF KeepsWait, StillServes, Deliver
      <4> QED
        BY <1>5, <4>1, JobsDiffer
    <3>2. StillServes(x, b)'
      BY <1>3, JobsDiffer DEF StillServes, Idle
    <3>3. CopiesStay(x)
      BY <1>1 DEF CopiesStay
    <3> QED
      BY <1>0, <1>1, <1>3, <3>1, <3>2, <3>3, WaitIsKept
  <2> QED
    BY <2>1, <2>2
<1> QED
  BY <1>0, <1>3, <1>6, <1>8, <1>9, <1>10, <1>11, <1>12, GateStep

LEMMA LookAtGateKeeps ==
    ASSUME GateIInv, NEW x \in Workers, LookAtGate(x)
    PROVE  GateIInv'
<1>0. x \in Actors /\ x # Recovery /\ CurrentShape
  BY ReviewAssumption DEF Actors, GateIInv, GateShapes, CurrentShape
<1>1. PICK a \in Gates : a = Gate(x) /\ actor[x].job = Start(a) /\ actor[x] # Idle
  BY <1>0, StartHandler DEF LookAtGate, Handles
<1>2. UNCHANGED <<subject, decision, lost, todo, operator, faults>>
  BY DEF LookAtGate
<1>3. {"begin", "done", "refused"} \subseteq Phase \cap StartPhase
  BY DEF Phase, StartPhase
<1>4. CASE Go(x, "done") /\ UNCHANGED <<run, stage, current, control, job>>
  <2>1. CurrentShape' /\ CopiesStay(x)
    BY <1>0, <1>4 DEF CurrentShape, CopiesStay
  <2> QED
    BY <1>0, <1>1, <1>2, <1>3, <1>4, <2>1, ReadStep
<1>5. CASE Go(x, "begin") /\ Hold(x, {RunRow, a}, {}) /\ UNCHANGED <<run, stage, control, job>>
  <2>1. {RunRow, a} \in SUBSET Rows /\ x \in Actors \cup Operators
    BY <1>0 DEF Rows
  <2>2. CurrentShape' /\ CopiesStay(x)
    BY <1>0, <1>5, <2>1, ReadFacts
  <2> QED
    BY <1>0, <1>1, <1>2, <1>3, <1>5, <2>2, ReadStep
<1>6. CASE Refuse(x) /\ UNCHANGED <<control, job>>
  BY <1>0, <1>1, <1>2, <1>6, RefuseStep
<1>7. CASE /\ stage[a].status \notin {"waiting", "completed", "interrupted", "canceled"}
           /\ Authorised(x) /\ SetStage(a, "canceled", "none") /\ Write({RunRow, a})
           /\ IF ValidRunTransition(run, "canceled") /\ run \notin FinishedRun
              THEN /\ run' = "canceled" /\ control' = "acknowledged"
                   /\ job' = [job EXCEPT ![Start(a)] = "canceled"]
                   /\ actor' = [actor EXCEPT ![x] = Idle]
              ELSE Go(x, "refused") /\ UNCHANGED <<run, control, job>>
  <2>1. /\ stage' \in [Gates -> [status : StageStatus, verdict : Verdicts]]
        /\ \A b \in Gates \ {a} : stage'[b] = stage[b]
        /\ stage'[a].status = "canceled"
    BY <1>1, <1>7 DEF SetStage, GateIInv, GateShapes, StageStatus, Verdicts
  <2>2. decision[a] = "none" /\ EndsStay
    BY <1>7, <2>1 DEF GateIInv, GateFits, EndsStay
  <2>3. CurrentShape'
    BY <1>0, <1>7, WriteFacts
  <2>4. CASE /\ run' = "canceled" /\ control' = "acknowledged"
             /\ job' = [job EXCEPT ![Start(a)] = "canceled"]
             /\ actor' = [actor EXCEPT ![x] = Idle]
    <3>1. Start(a) \in Jobs /\ "canceled" \in JobState /\ job[Start(a)] = "running"
      BY <1>0, <1>1, <1>7, JobsDiffer DEF JobState, Authorised
    <3>2. /\ job' \in [Jobs -> JobState] /\ job'[Start(a)] = "canceled"
          /\ \A k \in Jobs \ {Start(a)} : job'[k] = job[k] /\ JobStays(k)
      BY <2>4, <3>1, JobSet
    <3>3. /\ actor' \in [Actors -> [phase : Phase, job : Jobs \cup {NoJob}]]
          /\ OnlyActor(x) /\ actor'[x] = Idle
      BY <1>0, <2>4 DEF GateIInv, GateShapes, OnlyActor, Idle, Phase
    <3>4. GateShapes'
      BY <1>2, <2>1, <2>3, <2>4, <3>2, <3>3 DEF GateIInv, GateShapes, CurrentShape, RunStatus
    <3>5. QueuesFit' /\ CoordinatorsFit'
      <4>1. \A k \in Jobs : job[k] \in {"in_doubt", "interrupted"} => job'[k] = job[k]
        BY <3>1, <3>2
      <4>2. CoordinatorsFit'
        BY <3>2, JobsDiffer DEF GateIInv, CoordinatorsFit
      <4> QED
        BY <1>2, <4>1, <4>2, QueuesStay
    <3>6. \A b \in Gates : GateFits(b)'
      <4> SUFFICES ASSUME NEW b \in Gates
                   PROVE  GateFits(b)'
        OBVIOUS
      <4>1. job'[Resolve(b)] = job[Resolve(b)]
        BY <3>2, JobsDiffer
      <4>2. CASE b = a
        BY <1>2, <2>1, <2>2, <4>1, <4>2 DEF GateIInv, GateFits
      <4>3. CASE b # a
        <5>1. job'[Start(b)] = job[Start(b)]
          BY <3>2, <4>3, JobsDiffer
        <5> QED
          BY <1>2, <2>1, <4>1, <4>3, <5>1 DEF GateIInv, GateFits
      <4> QED
        BY <4>2, <4>3
    <3>7. HandlerFits(x)' /\ ReviewIsServed'
      BY <2>4, <3>3 DEF HandlerFits, ReviewIsServed
    <3> QED
      BY <1>0, <1>1, <2>2, <3>1, <3>2, <3>3, <3>4, <3>5, <3>6, <3>7, GateStep
  <2>5. CASE /\ ~(ValidRunTransition(run, "canceled") /\ run \notin FinishedRun)
             /\ Go(x, "refused") /\ UNCHANGED <<run, control, job>>
    <3>1. run # "waiting_review"
      BY <2>5 DEF ValidRunTransition, FinishedRun
    <3>2. ReviewIsServed'
      BY <2>5, <3>1 DEF ReviewIsServed
    <3>3. GateFits(a)'
      BY <1>2, <2>1, <2>2, <2>5 DEF GateIInv, GateFits
    <3> QED
      BY <1>0, <1>1, <1>2, <1>3, <2>1, <2>2, <2>3, <2>5, <3>2, <3>3, HandlerStep
         DEF GateIInv, GateShapes, EndsStay
  <2> QED
    BY <1>7, <2>4, <2>5
<1> QED
  BY <1>1, <1>4, <1>5, <1>6, <1>7 DEF LookAtGate

-----------------------------------------------------------------------------
(* Faults and recovery.                                                    *)

LEMMA LoseLeaseKeeps ==
    ASSUME GateIInv, LoseLease
    PROVE  GateIInv'
<1>1. UNCHANGED <<subject, run, stage, decision, control, lost, todo, operator>>
      /\ faults' \in 0 .. MaxFaults
  BY ReviewAssumption DEF LoseLease, gates, GateIInv, GateShapes
<1>2. PICK x \in Workers :
         /\ actor[x].phase # "idle" /\ job[actor[x].job] = "running"
         /\ job' = [job EXCEPT ![actor[x].job] = "lapsed"]
         /\ \/ UNCHANGED <<actor, current>>
            \/ actor' = [actor EXCEPT ![x] = Idle] /\ Hold(x, {}, {})
  BY DEF LoseLease
<1>3. x \in Actors /\ x # Recovery /\ CurrentShape
  BY ReviewAssumption DEF Actors, GateIInv, GateShapes, CurrentShape
<1>4. PICK j \in Jobs \ Coordinators : j = actor[x].job
  <2>1. actor[x] # Idle
    BY <1>2 DEF Idle
  <2> QED
    BY <1>3, <2>1, JobsDiffer DEF GateIInv, HandlerFits
<1>5. /\ job[j] = "running" /\ job' \in [Jobs -> JobState] /\ job'[j] = "lapsed"
      /\ \A k \in Jobs \ {j} : job'[k] = job[k]
      /\ \A k \in Jobs : JobStays(k)
  <2>1. /\ job[j] = "running" /\ job' \in [Jobs -> JobState] /\ job'[j] = "lapsed"
        /\ \A k \in Jobs \ {j} : job'[k] = job[k] /\ JobStays(k)
    BY <1>2, <1>4, JobSet DEF JobState
  <2> QED
    BY <2>1 DEF JobStays, Delivered
<1>6. /\ actor' \in [Actors -> [phase : Phase, job : Jobs \cup {NoJob}]]
      /\ OnlyActor(x) /\ actor'[x] \in {actor[x], Idle} /\ CurrentShape' /\ CopiesStay(x)
      /\ (actor'[x] # Idle => UNCHANGED <<actor, current>>)
  <2>1. CASE UNCHANGED <<actor, current>>
    BY <1>3, <2>1 DEF GateIInv, GateShapes, OnlyActor, CurrentShape, CopiesStay
  <2>2. CASE actor' = [actor EXCEPT ![x] = Idle] /\ Hold(x, {}, {})
    <3>1. Idle \in [phase : Phase, job : Jobs \cup {NoJob}]
      BY DEF Idle, Phase
    <3>2. {} \in SUBSET Rows /\ x \in Actors \cup Operators
      BY <1>3
    <3>3. CurrentShape' /\ CopiesStay(x)
      BY <1>3, <2>2, <3>2, ReadFacts
    <3> QED
      BY <1>3, <2>2, <3>1, <3>3 DEF GateIInv, GateShapes, OnlyActor
  <2> QED
    BY <1>2, <2>1, <2>2
<1>7. GateShapes'
  BY <1>1, <1>5, <1>6 DEF GateIInv, GateShapes, CurrentShape
<1>8. QueuesFit' /\ CoordinatorsFit'
  <2>1. CoordinatorsFit'
    BY <1>4, <1>5, JobsDiffer DEF GateIInv, CoordinatorsFit
  <2>2. \A k \in Jobs : job[k] \in {"in_doubt", "interrupted"} => job'[k] = job[k]
    BY <1>5
  <2> QED
    BY <1>1, <2>1, <2>2, QueuesStay
<1>9. \A b \in Gates : GateFits(b)'
  <2> SUFFICES ASSUME NEW b \in Gates
               PROVE  GateFits(b)'
    OBVIOUS
  <2>1. \A k \in {Start(b), Resolve(b)} :
           job'[k] = job[k] \/ (job[k] = "running" /\ job'[k] = "lapsed")
    BY <1>5, JobsDiffer
  <2> QED
    BY <1>1, <2>1 DEF GateIInv, GateFits
<1>10. EndsStay
  BY <1>1 DEF EndsStay
<1>11. HandlerFits(x)'
  <2>1. CASE actor'[x] = Idle
    BY <2>1 DEF HandlerFits
  <2>2. CASE actor'[x] = actor[x]
    BY <1>3, <1>5, <1>9, <1>10, <2>2, HandlerStays
  <2> QED
    BY <1>6, <2>1, <2>2
<1>12. ReviewIsServed'
  <2> SUFFICES ASSUME run = "waiting_review", NEW b \in Gates, KeepsWait(b)
               PROVE  KeepsWait(b)'
    BY <1>1 DEF GateIInv, ReviewIsServed
  <2>1. CASE Resolve(b) = j
    BY <1>1, <1>5, <2>1 DEF KeepsWait
  <2>2. CASE Resolve(b) # j
    <3>1. job'[Resolve(b)] = job[Resolve(b)]
      BY <1>5, <2>2, JobsDiffer
    <3>2. StillServes(x, b)'
      BY <1>4, <1>6, <2>2, JobsDiffer DEF StillServes, Idle
    <3> QED
      BY <1>1, <1>3, <1>6, <3>1, <3>2, WaitIsKept
  <2> QED
    BY <2>1, <2>2
<1> QED
  BY <1>2, <1>3, <1>5, <1>6, <1>7, <1>8, <1>9, <1>10, <1>11, <1>12, GateStep DEF Idle

LEMMA ScanKeeps ==
    ASSUME GateIInv, Scan
    PROVE  GateIInv'
<1> DEFINE found == {j \in Jobs : job[j] = "lapsed"}
<1>1. UNCHANGED <<subject, run, stage, current, decision, control, actor, todo, operator, faults>>
  BY DEF Scan, gates
<1>2. job' = [j \in Jobs |-> IF j \in found THEN "in_doubt" ELSE job[j]]
  BY DEF Scan
<1>3. PICK q \in Seq(Jobs) : /\ lost' = lost \o q
                             /\ \A i \in 1 .. Len(q) : job[q[i]] = "lapsed"
                             /\ \A i, k \in 1 .. Len(q) : q[i] = q[k] => i = k
  <2>1. found \in SUBSET Jobs /\ lost' = lost \o SetToSeq(found)
    BY DEF Scan
  <2>2. \A i : i \in found => job[i] = "lapsed"
    OBVIOUS
  <2> HIDE DEF found
  <2> QED
    BY <2>1, <2>2, InSomeOrder
<1>4. \A j \in Jobs : job'[j] = IF job[j] = "lapsed" THEN "in_doubt" ELSE job[j]
  BY <1>2
<1>5. job' \in [Jobs -> JobState] /\ \A j \in Jobs : JobStays(j)
  BY <1>2, <1>4 DEF GateIInv, GateShapes, JobState, JobStays, Delivered
<1>6. lost \in Seq(Jobs) /\ lost' \in Seq(Jobs) /\ Len(lost') = Len(lost) + Len(q)
      /\ \A i \in 1 .. Len(lost') :
            lost'[i] = IF i <= Len(lost) THEN lost[i] ELSE q[i - Len(lost)]
  BY <1>3 DEF GateIInv, GateShapes
<1>7. /\ \A i \in 1 .. Len(lost) : lost[i] \in Jobs /\ job[lost[i]] = "in_doubt"
      /\ \A i, k \in 1 .. Len(lost) : lost[i] = lost[k] => i = k
  BY <1>6 DEF GateIInv, QueuesFit
<1>8. QueuesFit'
  <2>1. ASSUME NEW i \in 1 .. Len(lost')
        PROVE  \/ i \in 1 .. Len(lost) /\ lost'[i] = lost[i]
               \/ i - Len(lost) \in 1 .. Len(q) /\ lost'[i] = q[i - Len(lost)] /\ ~(i <= Len(lost))
    <3>1. Len(lost) \in Nat /\ Len(q) \in Nat
      BY <1>6
    <3> QED
      BY <1>6, <3>1
  <2>2. \A i \in 1 .. Len(q) : q[i] \in Jobs /\ job[q[i]] = "lapsed"
    BY <1>3
  <2>3. ASSUME NEW i \in 1 .. Len(lost')
        PROVE  job'[lost'[i]] = "in_doubt"
    <3>1. lost'[i] \in Jobs /\ job[lost'[i]] \in {"in_doubt", "lapsed"}
      <4>1. CASE i \in 1 .. Len(lost) /\ lost'[i] = lost[i]
        BY <1>7, <4>1
      <4>2. CASE i - Len(lost) \in 1 .. Len(q) /\ lost'[i] = q[i - Len(lost)]
        BY <2>2, <4>2
      <4> QED
        BY <2>1, <4>1, <4>2
    <3> QED
      BY <1>4, <3>1
  <2>4. ASSUME NEW i \in 1 .. Len(lost'), NEW k \in 1 .. Len(lost'), lost'[i] = lost'[k]
        PROVE  i = k
    <3>1. Len(lost) \in Nat
      BY <1>6
    <3>2. CASE i \in 1 .. Len(lost) /\ lost'[i] = lost[i]
      <4>1. job[lost'[k]] = "in_doubt"
        BY <1>7, <2>4, <3>2
      <4>2. k \in 1 .. Len(lost) /\ lost'[k] = lost[k]
        BY <2>1, <2>2, <4>1
      <4> QED
        BY <1>7, <2>4, <3>2, <4>2
    <3>3. CASE i - Len(lost) \in 1 .. Len(q) /\ lost'[i] = q[i - Len(lost)]
      <4>1. job[lost'[k]] = "lapsed"
        BY <2>2, <2>4, <3>3
      <4>2. k - Len(lost) \in 1 .. Len(q) /\ lost'[k] = q[k - Len(lost)]
        BY <1>7, <2>1, <4>1
      <4>3. i - Len(lost) = k - Len(lost)
        BY <1>3, <2>4, <3>3, <4>2
      <4> QED
        BY <3>1, <4>3
    <3> QED
      BY <2>1, <3>2, <3>3
  <2>5. \A i \in 1 .. Len(todo) : job'[todo[i]] \in {"in_doubt", "interrupted"}
    BY <1>4 DEF GateIInv, GateShapes, QueuesFit
  <2> QED
    BY <1>1, <2>3, <2>4, <2>5 DEF QueuesFit
<1>9. CoordinatorsFit'
  BY <1>4, JobsDiffer DEF GateIInv, CoordinatorsFit
<1>10. \A b \in Gates : GateFits(b)'
  BY <1>1, <1>4, JobsDiffer DEF GateIInv, GateFits
<1>11. EndsStay /\ GateShapes'
  BY <1>1, <1>5, <1>6 DEF EndsStay, GateIInv, GateShapes
<1>12. ReviewIsServed'
  <2> SUFFICES ASSUME run = "waiting_review", NEW b \in Gates, KeepsWait(b)
               PROVE  KeepsWait(b)'
    BY <1>1 DEF GateIInv, ReviewIsServed
  <2> QED
    BY <1>1, <1>4, JobsDiffer DEF KeepsWait, StillServes
<1> QED
  BY <1>1, <1>5, <1>8, <1>9, <1>10, <1>11, <1>12, OutsideStep

\* What only moves a pass of the recovery along.
LEMMA PassStep ==
    ASSUME GateIInv, NEW r \in [phase : Phase, job : Jobs \cup {NoJob}],
           actor' \in [Actors -> [phase : Phase, job : Jobs \cup {NoJob}]],
           OnlyActor(Recovery), actor'[Recovery] = r,
           UNCHANGED <<subject, run, stage, current, decision, control, job, lost, operator, faults>>,
           todo' \in {todo, <<>>} \/ (todo # <<>> /\ todo' = Tail(todo)),
           \/ r \in {Idle, actor[Recovery]}
           \/ \E a \in Gates : r = [phase |-> "look", job |-> Resolve(a)]
                               /\ job[Resolve(a)] = "in_doubt"
    PROVE  GateIInv'
<1>0. Recovery \in Actors /\ Recovery \notin Workers
  BY ReviewAssumption DEF Actors
<1>1. /\ actor' \in [Actors -> [phase : Phase, job : Jobs \cup {NoJob}]]
      /\ OnlyActor(Recovery) /\ actor'[Recovery] = r
  OBVIOUS
<1>2. QueuesFit' /\ todo' \in Seq(Jobs)
  BY QueuesStay
<1>3. GateShapes' /\ CoordinatorsFit' /\ EndsStay /\ \A j \in Jobs : JobStays(j)
  BY <1>1, <1>2 DEF GateIInv, GateShapes, CoordinatorsFit, EndsStay, JobStays
<1>4. \A a \in Gates : GateFits(a)'
  BY DEF GateIInv, GateFits
<1>5. HandlerFits(Recovery)'
  <2>1. CASE r = Idle
    BY <1>1, <2>1 DEF HandlerFits
  <2>2. CASE r = actor[Recovery]
    BY <1>0, <1>1, <1>3, <1>4, <2>2, HandlerStays
  <2>3. CASE \E a \in Gates : r = [phase |-> "look", job |-> Resolve(a)]
                              /\ job[Resolve(a)] = "in_doubt"
    BY <1>1, <2>3 DEF HandlerFits, ResolvePhase, Delivered
  <2> QED
    BY <2>1, <2>2, <2>3
<1>6. ReviewIsServed'
  <2>1. CopiesStay(Recovery)
    BY DEF CopiesStay
  <2> QED
    BY <1>0, <1>1, <2>1, WaitStays
<1> QED
  BY <1>0, <1>1, <1>2, <1>3, <1>4, <1>5, <1>6, GateStep

LEMMA StartPassKeeps ==
    ASSUME GateIInv, StartPass
    PROVE  GateIInv'
<1>1. UNCHANGED <<subject, run, stage, current, decision, control, job, lost, actor, operator, faults>>
      /\ todo' = lost
  BY DEF StartPass, gates, queue
<1>2. GateShapes' /\ CoordinatorsFit' /\ EndsStay /\ \A j \in Jobs : JobStays(j)
  BY <1>1 DEF GateIInv, GateShapes, CoordinatorsFit, EndsStay, JobStays
<1>3. QueuesFit' /\ \A a \in Gates : GateFits(a)'
  BY <1>1 DEF GateIInv, QueuesFit, GateFits
<1>4. ReviewIsServed'
  BY <1>1 DEF GateIInv, ReviewIsServed, KeepsWait, StillServes
<1> QED
  BY <1>1, <1>2, <1>3, <1>4, OutsideStep

LEMMA HeadInDoubt ==
    ASSUME GateIInv, todo # <<>>
    PROVE  /\ Head(todo) \in Jobs \ Coordinators
           /\ job[Head(todo)] \in {"in_doubt", "interrupted"}
<1>1. todo \in Seq(Jobs) /\ 1 \in 1 .. Len(todo) /\ Head(todo) = todo[1]
  BY DEF GateIInv, GateShapes
<1>2. Head(todo) \in Jobs /\ job[Head(todo)] \in {"in_doubt", "interrupted"}
  BY <1>1 DEF GateIInv, QueuesFit
<1> QED
  BY <1>2, JobsDiffer DEF GateIInv, CoordinatorsFit

LEMMA RecoverResolutionKeeps ==
    ASSUME GateIInv, RecoverResolution
    PROVE  GateIInv'
<1>1. PICK a \in Gates : Head(todo) = Resolve(a)
  BY HeadInDoubt, KindOfJob, JobsDiffer DEF RecoverResolution
<1>2. job[Resolve(a)] = "in_doubt"
  BY <1>1, HeadInDoubt DEF RecoverResolution, GateIInv, GateFits
<1> DEFINE r == [phase |-> "look", job |-> Resolve(a)]
<1>3. /\ actor' \in [Actors -> [phase : Phase, job : Jobs \cup {NoJob}]]
      /\ OnlyActor(Recovery) /\ actor'[Recovery] = r
  <2>1. actor \in [Actors -> [phase : Phase, job : Jobs \cup {NoJob}]] /\ Recovery \in Actors
    BY DEF GateIInv, GateShapes, Actors
  <2>2. Resolve(a) \in Jobs
    BY JobsDiffer
  <2>3. actor' = [actor EXCEPT ![Recovery].phase = "look", ![Recovery].job = Resolve(a)]
    BY <1>1 DEF RecoverResolution
  <2> QED
    BY <2>1, <2>2, <2>3 DEF OnlyActor, Phase
<1>4. r \in [phase : Phase, job : Jobs \cup {NoJob}]
  BY JobsDiffer DEF Phase
<1>5. UNCHANGED <<subject, run, stage, current, decision, control, job, lost, operator, faults>>
      /\ todo # <<>> /\ todo' = Tail(todo)
  BY DEF RecoverResolution, gates, queue
<1> QED
  BY <1>2, <1>3, <1>4, <1>5, PassStep

LEMMA EndRecoveryKeeps ==
    ASSUME GateIInv, EndRecovery
    PROVE  GateIInv'
<1>1. Idle \in [phase : Phase, job : Jobs \cup {NoJob}]
  BY DEF Idle, Phase
<1>2. UNCHANGED <<subject, run, stage, current, decision, control, job, lost, operator, faults>>
      /\ todo' \in {todo, <<>>}
  BY DEF EndRecovery, gates, queue
<1>3. /\ actor' \in [Actors -> [phase : Phase, job : Jobs \cup {NoJob}]]
      /\ OnlyActor(Recovery) /\ actor'[Recovery] = Idle
  BY <1>1 DEF EndRecovery, GateIInv, GateShapes, OnlyActor, Actors
<1> QED
  BY <1>1, <1>2, <1>3, PassStep

\* A recovered delivery of a start job is taken out of the jobs in doubt.
LEMMA SettleFacts ==
    ASSUME GateIInv, NEW a \in Gates, todo # <<>>, Head(todo) = Start(a),
           job' = [job EXCEPT ![Start(a)] = "interrupted"],
           \E i \in DOMAIN lost : lost[i] = Start(a) /\ lost' = RemoveAt(lost, i),
           todo' = Tail(todo)
    PROVE  /\ job' \in [Jobs -> JobState] /\ job'[Start(a)] = "interrupted"
           /\ \A k \in Jobs \ {Start(a)} : job'[k] = job[k]
           /\ lost' \in Seq(Jobs) /\ todo' \in Seq(Jobs)
           /\ QueuesFit' /\ CoordinatorsFit' /\ \A j \in Jobs : JobStays(j)
<1>1. Start(a) \in Jobs \ Coordinators /\ job[Start(a)] \in {"in_doubt", "interrupted"}
  BY HeadInDoubt
<1>2. /\ job' \in [Jobs -> JobState] /\ job'[Start(a)] = "interrupted"
      /\ \A k \in Jobs \ {Start(a)} : job'[k] = job[k] /\ JobStays(k)
  BY <1>1, JobSet DEF JobState
<1>3. \A j \in Jobs : JobStays(j)
  BY <1>1, <1>2 DEF JobStays, Delivered
<1>4. CoordinatorsFit'
  BY <1>1, <1>2, JobsDiffer DEF GateIInv, CoordinatorsFit
<1>5. lost \in Seq(Jobs) /\ todo \in Seq(Jobs)
  BY DEF GateIInv, GateShapes
<1>6. /\ \A k \in 1 .. Len(lost) : lost[k] \in Jobs /\ job[lost[k]] = "in_doubt"
      /\ \A m, k \in 1 .. Len(lost) : lost[m] = lost[k] => m = k
      /\ \A k \in 1 .. Len(todo) : todo[k] \in Jobs /\ job[todo[k]] \in {"in_doubt", "interrupted"}
  BY <1>5 DEF GateIInv, QueuesFit
<1>7. PICK i \in 1 .. Len(lost) : lost[i] = Start(a) /\ lost' = RemoveAt(lost, i)
  BY <1>5
<1>8. /\ lost' \in Seq(Jobs)
      /\ \A m, k \in 1 .. Len(lost') : lost'[m] = lost'[k] => m = k
      /\ \A k \in 1 .. Len(lost') : lost'[k] # Start(a) /\ \E m \in 1 .. Len(lost) : lost'[k] = lost[m]
  BY <1>5, <1>6, <1>7, RemoveAtRemoves
<1>9. \A k \in 1 .. Len(lost') : job'[lost'[k]] = "in_doubt"
  BY <1>2, <1>6, <1>8
<1>10. todo' \in Seq(Jobs) /\ \A k \in 1 .. Len(todo') : job'[todo'[k]] \in {"in_doubt", "interrupted"}
  <2>1. Tail(todo) \in Seq(Jobs) /\ \A k \in 1 .. Len(Tail(todo)) :
           k + 1 \in 1 .. Len(todo) /\ Tail(todo)[k] = todo[k + 1]
    BY <1>5
  <2> QED
    BY <1>2, <1>6, <2>1
<1> QED
  BY <1>2, <1>3, <1>4, <1>8, <1>9, <1>10 DEF QueuesFit

LEMMA RecoverStartKeeps ==
    ASSUME GateIInv, RecoverStart
    PROVE  GateIInv'
<1>1. todo # <<>> /\ UNCHANGED <<subject, decision, control, actor, operator, faults>>
  BY DEF RecoverStart
<1>2. PICK a \in Gates : Head(todo) = Start(a) /\ Head(todo)[2] = a
  BY <1>1, HeadInDoubt, KindOfJob, JobsDiffer DEF RecoverStart
<1>3. Start(a) \in Jobs /\ job[Start(a)] \in {"in_doubt", "interrupted"} /\ CurrentShape
  BY <1>1, <1>2, HeadInDoubt DEF GateIInv, GateShapes, CurrentShape
<1> DEFINE Settle == /\ job' = [job EXCEPT ![Start(a)] = "interrupted"]
                     /\ \E i \in DOMAIN lost : lost[i] = Start(a) /\ lost' = RemoveAt(lost, i)
                     /\ todo' = Tail(todo)
<1>4. \/ /\ stage[a].status = "running" /\ SetStage(a, "interrupted", "none")
         /\ run' = "failed_recoverable" /\ Write({RunRow, a}) /\ Settle
      \/ /\ stage[a].status = "running" /\ SetStage(a, "interrupted", "none")
         /\ todo' = <<>> /\ Write({a}) /\ UNCHANGED <<run, queue>>
      \/ run = "failed_recoverable" /\ Settle /\ UNCHANGED <<run, stage, current>>
      \/ /\ stage[a].status = "completed"
         /\ Enqueue(Coordinate(a)) /\ todo' = Tail(todo)
         /\ UNCHANGED <<run, stage, current, lost>>
      \/ /\ stage[a].status = "completed"
         /\ run' = Target(decision[a]) /\ Write({RunRow}) /\ todo' = Tail(todo)
         /\ UNCHANGED <<stage, queue>>
      \/ todo' = Tail(todo) /\ UNCHANGED <<run, stage, current, queue>>
  BY <1>2, Zenon DEF RecoverStart, queue
<1>5. ASSUME SetStage(a, "interrupted", "none"), stage[a].status = "running"
      PROVE  /\ stage' \in [Gates -> [status : StageStatus, verdict : Verdicts]]
             /\ \A b \in Gates \ {a} : stage'[b] = stage[b]
             /\ stage'[a].status = "interrupted" /\ decision[a] = "none" /\ EndsStay
  BY <1>5 DEF SetStage, GateIInv, GateShapes, GateFits, StageStatus, Verdicts, EndsStay
<1>6. CASE /\ stage[a].status = "running" /\ SetStage(a, "interrupted", "none")
           /\ run' = "failed_recoverable" /\ Write({RunRow, a}) /\ Settle
  <2>1. /\ job' \in [Jobs -> JobState] /\ job'[Start(a)] = "interrupted"
        /\ \A k \in Jobs \ {Start(a)} : job'[k] = job[k]
        /\ lost' \in Seq(Jobs) /\ todo' \in Seq(Jobs)
        /\ QueuesFit' /\ CoordinatorsFit' /\ \A j \in Jobs : JobStays(j)
    BY <1>1, <1>2, <1>6, SettleFacts
  <2>2. CurrentShape'
    BY <1>3, <1>6, WriteFacts
  <2>3. GateShapes' /\ EndsStay
    BY <1>1, <1>5, <1>6, <2>1, <2>2 DEF GateIInv, GateShapes, CurrentShape, RunStatus
  <2>4. ASSUME NEW b \in Gates
        PROVE  GateFits(b)'
    <3>1. job'[Resolve(b)] = job[Resolve(b)]
      BY <2>1, JobsDiffer
    <3>2. CASE b = a
      BY <1>1, <1>5, <1>6, <3>1, <3>2 DEF GateIInv, GateFits
    <3>3. CASE b # a
      <4>1. job'[Start(b)] = job[Start(b)] /\ stage'[b] = stage[b]
        BY <1>5, <1>6, <2>1, <3>3, JobsDiffer
      <4> QED
        BY <1>1, <3>1, <4>1 DEF GateIInv, GateFits
    <3> QED
      BY <3>2, <3>3
  <2>5. ReviewIsServed'
    BY <1>6 DEF ReviewIsServed
  <2> QED
    BY <1>1, <2>1, <2>3, <2>4, <2>5, OutsideStep
<1>7. CASE /\ stage[a].status = "running" /\ SetStage(a, "interrupted", "none")
           /\ todo' = <<>> /\ Write({a}) /\ UNCHANGED <<run, queue>>
  <2>1. CurrentShape' /\ CopiesStay(Recovery)
    <3>1. RunRow \notin {a}
      BY DEF RunRow, Gates
    <3> QED
      BY <1>3, <1>7, <3>1, WriteFacts
  <2>2. QueuesFit' /\ todo' \in Seq(Jobs)
    BY <1>7, QueuesStay DEF queue
  <2>3. GateShapes' /\ EndsStay /\ CoordinatorsFit' /\ \A j \in Jobs : JobStays(j)
    BY <1>1, <1>5, <1>7, <2>1, <2>2
       DEF GateIInv, GateShapes, CurrentShape, CoordinatorsFit, JobStays, queue
  <2>4. \A b \in Gates : GateFits(b)'
    <3>1. GateFits(a)'
      BY <1>1, <1>5, <1>7 DEF GateIInv, GateFits, queue
    <3> QED
      BY <1>1, <1>5, <1>7, <3>1, GatesStayBut DEF queue
  <2>5. ASSUME NEW b \in Gates, KeepsWait(b)
        PROVE  KeepsWait(b)'
    <3>1. b # a
      BY <1>7, <2>5 DEF KeepsWait
    <3>2. Recovery \in Actors /\ Recovery \notin Workers /\ OnlyActor(Recovery)
      BY <1>1, ReviewAssumption DEF Actors, OnlyActor
    <3> QED
      BY <1>5, <1>7, <2>1, <2>5, <3>1, <3>2, WaitIsKept DEF queue
  <2>6. ReviewIsServed'
    BY <1>7, <2>5 DEF GateIInv, ReviewIsServed
  <2> QED
    BY <1>1, <2>2, <2>3, <2>4, <2>6, OutsideStep
<1>8. CASE run = "failed_recoverable" /\ Settle /\ UNCHANGED <<run, stage, current>>
  <2>1. /\ job' \in [Jobs -> JobState] /\ job'[Start(a)] = "interrupted"
        /\ \A k \in Jobs \ {Start(a)} : job'[k] = job[k]
        /\ lost' \in Seq(Jobs) /\ todo' \in Seq(Jobs)
        /\ QueuesFit' /\ CoordinatorsFit' /\ \A j \in Jobs : JobStays(j)
    BY <1>1, <1>2, <1>8, SettleFacts
  <2>2. GateShapes' /\ EndsStay
    BY <1>1, <1>8, <2>1 DEF GateIInv, GateShapes, EndsStay
  <2>3. ASSUME NEW b \in Gates
        PROVE  GateFits(b)'
    <3>1. job'[Resolve(b)] = job[Resolve(b)] /\ (job'[Start(b)] # "absent" => job[Start(b)] # "absent")
      BY <1>3, <2>1, JobsDiffer
    <3> QED
      BY <1>1, <1>8, <3>1 DEF GateIInv, GateFits
  <2>4. ReviewIsServed'
    BY <1>8 DEF ReviewIsServed
  <2> QED
    BY <1>1, <2>1, <2>2, <2>3, <2>4, OutsideStep
<1>9. CASE /\ stage[a].status = "completed"
           /\ Enqueue(Coordinate(a)) /\ todo' = Tail(todo)
           /\ UNCHANGED <<run, stage, current, lost>>
  <2>1. Coordinate(a) \in Jobs /\ Coordinate(a) \in Coordinators
    BY JobsDiffer
  <2>2. /\ job' \in [Jobs -> JobState]
        /\ \A k \in Jobs \ {Coordinate(a)} : job'[k] = job[k]
        /\ job'[Coordinate(a)] = IF job[Coordinate(a)] = "absent" THEN "queued"
                                 ELSE job[Coordinate(a)]
        /\ \A k \in Jobs : JobStays(k) /\ (job[k] \in Delivered => job'[k] = job[k])
    BY <1>9, <2>1, EnqueueFacts
  <2>3. \A b \in Gates : job'[Start(b)] = job[Start(b)] /\ job'[Resolve(b)] = job[Resolve(b)]
    BY <2>1, <2>2, JobsDiffer
  <2>4. \A b \in Gates : GateFits(b)'
    BY <1>1, <1>9, <2>3 DEF GateIInv, GateFits
  <2>5. CoordinatorsFit' /\ QueuesFit' /\ todo' \in Seq(Jobs)
    <3>1. CoordinatorsFit'
      BY <2>1, <2>2, JobsDiffer DEF GateIInv, CoordinatorsFit
    <3> QED
      BY <1>1, <1>9, <2>2, <3>1, QueuesStay DEF Delivered
  <2>6. GateShapes' /\ EndsStay
    BY <1>1, <1>9, <2>2, <2>5 DEF GateIInv, GateShapes, EndsStay
  <2>7. ReviewIsServed'
    BY <1>1, <1>9, <2>3 DEF GateIInv, ReviewIsServed, KeepsWait, StillServes
  <2> QED
    BY <1>1, <2>2, <2>4, <2>5, <2>6, <2>7, OutsideStep
<1>10. CASE /\ stage[a].status = "completed"
            /\ run' = Target(decision[a]) /\ Write({RunRow}) /\ todo' = Tail(todo)
            /\ UNCHANGED <<stage, queue>>
  <2>1. decision[a] \in Actions
    BY <1>10 DEF GateIInv, GateShapes, GateFits
  <2>2. run' \in RunStatus \ {"waiting_review"}
    BY <1>10, <2>1 DEF Target, Actions, RunStatus
  <2>3. CurrentShape'
    BY <1>3, <1>10, WriteFacts
  <2>4. QueuesFit' /\ todo' \in Seq(Jobs)
    BY <1>1, <1>10, QueuesStay DEF queue
  <2>5. GateShapes' /\ EndsStay /\ CoordinatorsFit' /\ \A j \in Jobs : JobStays(j)
    BY <1>1, <1>10, <2>2, <2>3, <2>4
       DEF GateIInv, GateShapes, CurrentShape, CoordinatorsFit, JobStays, EndsStay, queue
  <2>6. \A b \in Gates : GateFits(b)'
    BY <1>1, <1>10 DEF GateIInv, GateFits, queue
  <2>7. ReviewIsServed'
    BY <2>2 DEF ReviewIsServed
  <2> QED
    BY <1>1, <2>4, <2>5, <2>6, <2>7, OutsideStep
<1>11. CASE todo' = Tail(todo) /\ UNCHANGED <<run, stage, current, queue>>
  <2>1. QueuesFit' /\ todo' \in Seq(Jobs)
    BY <1>1, <1>11, QueuesStay DEF queue
  <2>2. GateShapes' /\ EndsStay /\ CoordinatorsFit' /\ \A j \in Jobs : JobStays(j)
    BY <1>1, <1>11, <2>1 DEF GateIInv, GateShapes, CoordinatorsFit, JobStays, EndsStay, queue
  <2>3. \A b \in Gates : GateFits(b)'
    BY <1>1, <1>11 DEF GateIInv, GateFits, queue
  <2>4. ReviewIsServed'
    BY <1>1, <1>11 DEF GateIInv, ReviewIsServed, KeepsWait, StillServes, queue
  <2> QED
    BY <1>1, <2>1, <2>2, <2>3, <2>4, OutsideStep
<1> QED
  BY <1>4, <1>6, <1>7, <1>8, <1>9, <1>10, <1>11

-----------------------------------------------------------------------------
(* The rest of the workflow, and the operators.                            *)

LEMMA RunCoordinatorKeeps ==
    ASSUME GateIInv, NEW j \in Coordinators, RunCoordinator(j)
    PROVE  GateIInv'
<1>1. /\ UNCHANGED <<subject, lost, actor, todo, operator, faults>>
      /\ job[j] = "queued" /\ Eligible(j)
  BY DEF RunCoordinator
<1>2. j \in Jobs /\ CurrentShape /\ j[1] # "resolve"
  BY JobsDiffer DEF GateIInv, GateShapes, CurrentShape
<1>3. PICK v \in {"canceled", "failed", "succeeded"} :
         \/ /\ run' \in {run, "canceled"} /\ run' # "waiting_review"
            /\ control' \in {control, "acknowledged"}
            /\ UNCHANGED gates /\ (Write({RunRow}) \/ UNCHANGED current)
            /\ job' = [job EXCEPT ![j] = v]
         \/ /\ Unused # {} /\ SetStage(Min(Unused), "queued", "none")
            /\ job' = [job EXCEPT ![j] = "succeeded", ![Start(Min(Unused))] = "queued"]
            /\ run' = "running" /\ (\E written : Write(written)) /\ UNCHANGED <<decision, control>>
         \/ /\ run' \in {"succeeded", "failed_recoverable"}
            /\ job' = [job EXCEPT ![j] = v]
            /\ (\E written : Write(written)) /\ UNCHANGED <<gates, control>>
  <2>1. CASE control = "requested" /\ run = "cancel_requested"
    BY <2>1 DEF RunCoordinator
  <2>2. CASE /\ ~(control = "requested" /\ run = "cancel_requested")
             /\ run \in {"stop_requested", "cancel_requested"}
    BY <2>2 DEF RunCoordinator
  <2>3. CASE run \notin {"stop_requested", "cancel_requested"}
    BY <2>3 DEF RunCoordinator, gates
  <2> QED
    BY <2>1, <2>2, <2>3
<1>4. ASSUME job' = [job EXCEPT ![j] = v], stage' = stage, decision' = decision,
             run' \in RunStatus \ {"waiting_review"},
             control' \in {"absent", "requested", "acknowledged"}, CurrentShape'
      PROVE  GateIInv'
  <2>1. /\ job' \in [Jobs -> JobState] /\ job'[j] = v
        /\ \A k \in Jobs \ {j} : job'[k] = job[k] /\ JobStays(k)
    BY <1>2, <1>4, JobSet DEF JobState
  <2>2. \A k \in Jobs : JobStays(k) /\ (job[k] \in {"in_doubt", "interrupted"} => job'[k] = job[k])
    BY <1>1, <2>1 DEF JobStays, Delivered
  <2>3. QueuesFit' /\ CoordinatorsFit'
    <3>1. CoordinatorsFit'
      BY <1>2, <2>1, JobsDiffer DEF GateIInv, CoordinatorsFit
    <3> QED
      BY <1>1, <2>2, <3>1, QueuesStay
  <2>4. \A b \in Gates : GateFits(b)'
    <3>1. \A b \in Gates : job'[Start(b)] = job[Start(b)] /\ job'[Resolve(b)] = job[Resolve(b)]
      BY <2>1, JobsDiffer
    <3> QED
      BY <1>4, <3>1 DEF GateIInv, GateFits
  <2>5. GateShapes' /\ EndsStay /\ ReviewIsServed'
    BY <1>1, <1>4, <2>1 DEF GateIInv, GateShapes, CurrentShape, EndsStay, ReviewIsServed
  <2> QED
    BY <1>1, <2>2, <2>3, <2>4, <2>5, OutsideStep
<1>5. CASE /\ run' \in {run, "canceled"} /\ run' # "waiting_review"
           /\ control' \in {control, "acknowledged"}
           /\ UNCHANGED gates /\ (Write({RunRow}) \/ UNCHANGED current)
           /\ job' = [job EXCEPT ![j] = v]
  <2>1. CurrentShape'
    BY <1>2, <1>5, WriteFacts DEF CurrentShape
  <2>2. run' \in RunStatus /\ control' \in {"absent", "requested", "acknowledged"}
    BY <1>5 DEF GateIInv, GateShapes, RunStatus
  <2> QED
    BY <1>4, <1>5, <2>1, <2>2 DEF gates
<1>6. CASE /\ run' \in {"succeeded", "failed_recoverable"}
           /\ job' = [job EXCEPT ![j] = v]
           /\ (\E written : Write(written)) /\ UNCHANGED <<gates, control>>
  <2>1. CurrentShape'
    BY <1>2, <1>6, WriteFacts
  <2>2. run' \in RunStatus \ {"waiting_review"}
    BY <1>6 DEF RunStatus
  <2>3. control' \in {"absent", "requested", "acknowledged"}
    BY <1>6 DEF GateIInv, GateShapes
  <2> QED
    BY <1>4, <1>6, <2>1, <2>2, <2>3 DEF gates
<1>7. CASE /\ Unused # {} /\ SetStage(Min(Unused), "queued", "none")
           /\ job' = [job EXCEPT ![j] = "succeeded", ![Start(Min(Unused))] = "queued"]
           /\ run' = "running" /\ (\E written : Write(written)) /\ UNCHANGED <<decision, control>>
  <2>1. Min(Unused) \in Unused
    BY <1>7, MinIsMember DEF Unused
  <2>2. PICK a \in Gates : a = Min(Unused) /\ stage[a].status = "absent"
    BY <2>1 DEF Unused
  <2>3. /\ stage' \in [Gates -> [status : StageStatus, verdict : Verdicts]]
        /\ \A b \in Gates \ {a} : stage'[b] = stage[b]
        /\ stage'[a].status = "queued"
    BY <1>7, <2>2 DEF SetStage, GateIInv, GateShapes, StageStatus, Verdicts
  <2>4. decision[a] = "none" /\ job[Start(a)] = "absent" /\ EndsStay
    BY <2>2, <2>3 DEF GateIInv, GateFits, EndsStay
  <2>5. Start(a) \in Jobs /\ Start(a) # j
    BY JobsDiffer
  <2>6. /\ job' \in [Jobs -> JobState] /\ job'[j] = "succeeded" /\ job'[Start(a)] = "queued"
        /\ \A k \in Jobs \ {j, Start(a)} : job'[k] = job[k]
    BY <1>2, <1>7, <2>2, <2>5 DEF GateIInv, GateShapes, JobState
  <2>7. \A k \in Jobs : JobStays(k) /\ (job[k] \in {"in_doubt", "interrupted"} => job'[k] = job[k])
    BY <1>1, <2>4, <2>6 DEF JobStays, Delivered
  <2>8. CurrentShape'
    BY <1>2, <1>7, WriteFacts
  <2>9. QueuesFit' /\ CoordinatorsFit'
    <3>1. CoordinatorsFit'
      BY <1>2, <2>6, JobsDiffer DEF GateIInv, CoordinatorsFit
    <3> QED
      BY <1>1, <2>7, <3>1, QueuesStay
  <2>10. ASSUME NEW b \in Gates
         PROVE  GateFits(b)'
    <3>1. job'[Resolve(b)] = job[Resolve(b)]
      BY <2>6, JobsDiffer
    <3>2. CASE b = a
      BY <1>7, <2>3, <2>4, <3>1, <3>2 DEF GateIInv, GateFits
    <3>3. CASE b # a
      <4>1. job'[Start(b)] = job[Start(b)] /\ stage'[b] = stage[b]
        BY <2>3, <2>6, <3>3, JobsDiffer
      <4> QED
        BY <1>7, <3>1, <4>1 DEF GateIInv, GateFits
    <3> QED
      BY <3>2, <3>3
  <2>11. GateShapes' /\ ReviewIsServed'
    BY <1>1, <1>7, <2>3, <2>6, <2>8
       DEF GateIInv, GateShapes, CurrentShape, RunStatus, ReviewIsServed
  <2> QED
    BY <1>1, <2>4, <2>7, <2>9, <2>10, <2>11, OutsideStep
<1> QED
  BY <1>3, <1>5, <1>6, <1>7

LEMMA RequestsKeep ==
    ASSUME GateIInv, CommitContinuation \/ Terminate
    PROVE  GateIInv'
<1>1. UNCHANGED <<subject, stage, decision, lost, actor, todo, operator, faults>>
  BY DEF CommitContinuation, Terminate, gates, queue
<1>2. CurrentShape'
  <2>1. CurrentShape
    BY DEF GateIInv, GateShapes, CurrentShape
  <2> QED
    BY <2>1, WriteFacts DEF CommitContinuation, Terminate
<1>3. run' \in {"running", "stop_requested", "cancel_requested"} /\ control' \in {control, "requested"}
  BY DEF CommitContinuation, Terminate
<1>4. Continue \in Coordinators /\ Continue \in Jobs
  BY DEF Coordinators, Jobs
<1>5. /\ job' \in [Jobs -> JobState]
      /\ \A k \in Jobs \ {Continue} : job'[k] = job[k]
      /\ job'[Continue] \in {job[Continue], "queued"}
      /\ \A k \in Jobs : JobStays(k) /\ (job[k] \in Delivered => job'[k] = job[k])
  <2>1. CASE CommitContinuation
    BY <1>4, <2>1, EnqueueFacts DEF CommitContinuation
  <2>2. CASE Terminate
    BY <2>2 DEF Terminate, queue, GateIInv, GateShapes, JobStays
  <2> QED
    BY <2>1, <2>2
<1>6. QueuesFit' /\ CoordinatorsFit'
  <2>1. CoordinatorsFit'
    BY <1>4, <1>5, JobsDiffer DEF GateIInv, CoordinatorsFit
  <2> QED
    BY <1>1, <1>5, <2>1, QueuesStay DEF Delivered
<1>7. \A b \in Gates : GateFits(b)'
  <2>1. \A b \in Gates : job'[Start(b)] = job[Start(b)] /\ job'[Resolve(b)] = job[Resolve(b)]
    BY <1>4, <1>5, JobsDiffer
  <2> QED
    BY <1>1, <2>1 DEF GateIInv, GateFits
<1>8. GateShapes' /\ EndsStay /\ ReviewIsServed'
  BY <1>1, <1>2, <1>3, <1>5
     DEF GateIInv, GateShapes, CurrentShape, RunStatus, EndsStay, ReviewIsServed
<1> QED
  BY <1>1, <1>5, <1>6, <1>7, <1>8, OutsideStep

\* An operator's copies are no worker's.
LEMMA OperatorHolds ==
    ASSUME GateIInv, NEW o \in Operators, NEW taken \in SUBSET Rows, Hold(o, taken, {})
    PROVE  CurrentShape' /\ \A x \in Workers : <<x, RunRow>> \in current => <<x, RunRow>> \in current'
<1>1. CurrentShape /\ o \in Actors \cup Operators /\ o \notin Workers
  BY ReviewAssumption DEF GateIInv, GateShapes, CurrentShape
<1> QED
  BY <1>1, ReadFacts DEF CopiesStay

LEMMA TakeKeeps ==
    ASSUME GateIInv, NEW o \in Operators, NEW a \in Gates, Take(o, a)
    PROVE  GateIInv'
<1>1. UNCHANGED <<subject, run, stage, decision, control, job, lost, actor, todo, faults>>
  BY DEF Take, gates, queue
<1>2. CurrentShape' /\ \A x \in Workers : <<x, RunRow>> \in current => <<x, RunRow>> \in current'
  <2>1. {RunRow, a} \in SUBSET Rows
    BY DEF Rows
  <2> QED
    BY <2>1, OperatorHolds DEF Take
<1>3. GateShapes' /\ EndsStay /\ CoordinatorsFit' /\ \A j \in Jobs : JobStays(j)
  BY <1>1, <1>2 DEF Take, GateIInv, GateShapes, CurrentShape, CoordinatorsFit, JobStays, EndsStay
<1>4. QueuesFit' /\ \A b \in Gates : GateFits(b)'
  BY <1>1 DEF GateIInv, QueuesFit, GateFits
<1>5. ReviewIsServed'
  BY <1>1, <1>2 DEF GateIInv, ReviewIsServed, KeepsWait, StillServes
<1> QED
  BY <1>1, <1>3, <1>4, <1>5, OutsideStep

LEMMA RecordKeeps ==
    ASSUME GateIInv, NEW o \in Operators, Record(o)
    PROVE  GateIInv'
<1>1. UNCHANGED <<subject, run, stage, control, lost, actor, todo, faults>>
  BY DEF Record
<1>2. PICK a \in Gates : a = operator[o]
  BY DEF Record, GateIInv, GateShapes
<1>3. CurrentShape' /\ \A x \in Workers : <<x, RunRow>> \in current => <<x, RunRow>> \in current'
  <2>1. {} \in SUBSET Rows
    OBVIOUS
  <2> QED
    BY <2>1, OperatorHolds DEF Record
<1>4. operator' \in [Operators -> Gates \cup {0}]
  BY DEF Record, GateIInv, GateShapes
<1>5. \/ /\ decision[a] = "none" /\ stage[a].status = "waiting"
         /\ \E action \in Actions : decision' = [decision EXCEPT ![a] = action]
         /\ Enqueue(Resolve(a))
      \/ UNCHANGED <<decision, job>>
  BY <1>2 DEF Record, Waiting
<1>6. CASE UNCHANGED <<decision, job>>
  <2>1. GateShapes' /\ EndsStay /\ CoordinatorsFit' /\ \A j \in Jobs : JobStays(j)
    BY <1>1, <1>3, <1>4, <1>6
       DEF GateIInv, GateShapes, CurrentShape, CoordinatorsFit, JobStays, EndsStay
  <2>2. QueuesFit' /\ \A b \in Gates : GateFits(b)'
    BY <1>1, <1>6 DEF GateIInv, QueuesFit, GateFits
  <2>3. ReviewIsServed'
    BY <1>1, <1>3, <1>6 DEF GateIInv, ReviewIsServed, KeepsWait, StillServes
  <2> QED
    BY <1>1, <2>1, <2>2, <2>3, OutsideStep
<1>7. CASE /\ decision[a] = "none" /\ stage[a].status = "waiting"
           /\ \E action \in Actions : decision' = [decision EXCEPT ![a] = action]
           /\ Enqueue(Resolve(a))
  <2>1. Resolve(a) \in Jobs \ Coordinators
    BY JobsDiffer
  <2>2. /\ job' \in [Jobs -> JobState]
        /\ \A k \in Jobs \ {Resolve(a)} : job'[k] = job[k]
        /\ job'[Resolve(a)] = IF job[Resolve(a)] = "absent" THEN "queued" ELSE job[Resolve(a)]
        /\ \A k \in Jobs : JobStays(k) /\ (job[k] \in Delivered => job'[k] = job[k])
    BY <1>7, <2>1, EnqueueFacts
  <2>3. job[Resolve(a)] = "absent"
    BY <1>7 DEF GateIInv, GateFits
  <2>4. /\ decision' \in [Gates -> Actions \cup {"none"}] /\ decision'[a] # "none"
        /\ \A b \in Gates \ {a} : decision'[b] = decision[b]
    BY <1>7 DEF GateIInv, GateShapes, Actions
  <2>5. ASSUME NEW b \in Gates
        PROVE  GateFits(b)'
    <3>1. job'[Start(b)] = job[Start(b)]
      BY <2>2, JobsDiffer
    <3>2. CASE b = a
      BY <1>1, <1>7, <2>2, <2>3, <2>4, <3>1, <3>2 DEF GateIInv, GateFits
    <3>3. CASE b # a
      <4>1. job'[Resolve(b)] = job[Resolve(b)]
        BY <2>2, <3>3, JobsDiffer
      <4> QED
        BY <1>1, <2>4, <3>1, <3>3, <4>1 DEF GateIInv, GateFits, Verdict
    <3> QED
      BY <3>2, <3>3
  <2>6. QueuesFit' /\ CoordinatorsFit'
    <3>1. CoordinatorsFit'
      BY <2>1, <2>2, JobsDiffer DEF GateIInv, CoordinatorsFit
    <3> QED
      BY <1>1, <2>2, <3>1, QueuesStay DEF Delivered
  <2>7. GateShapes' /\ EndsStay
    BY <1>1, <1>3, <1>4, <2>2, <2>4 DEF GateIInv, GateShapes, CurrentShape, EndsStay
  <2>8. ASSUME NEW b \in Gates, KeepsWait(b)
        PROVE  KeepsWait(b)'
    <3>1. CASE stage[b].status = "waiting"
      BY <1>1, <3>1 DEF KeepsWait
    <3>2. CASE stage[b].status # "waiting"
      <4>1. job'[Resolve(b)] = job[Resolve(b)]
        BY <1>7, <2>2, <3>2, JobsDiffer
      <4> QED
        BY <1>1, <1>3, <2>8, <4>1 DEF KeepsWait, StillServes
    <3> QED
      BY <3>1, <3>2
  <2>9. ReviewIsServed'
    BY <1>1, <2>8 DEF GateIInv, ReviewIsServed
  <2> QED
    BY <1>1, <2>2, <2>5, <2>6, <2>7, <2>9, OutsideStep
<1> QED
  BY <1>5, <1>6, <1>7

-----------------------------------------------------------------------------
LEMMA GateInitInvariant == ASSUME Init PROVE GateIInv
<1>1. Idle \in [phase : Phase, job : Jobs \cup {NoJob}]
  BY DEF Idle, Phase
<1>2. <<>> \in Seq(Jobs) /\ 0 \in 0 .. MaxFaults
  BY ReviewAssumption
<1>3. GateShapes
  BY <1>1, <1>2 DEF Init, GateShapes, RunStatus, StageStatus, Verdicts, JobState
<1>4. QueuesFit
  BY DEF Init, QueuesFit
<1>5. CoordinatorsFit
  BY JobsDiffer DEF Init, CoordinatorsFit
<1>6. Coordinate(0) \in Coordinators
  BY ReviewAssumption DEF Coordinators
<1>7. \A a \in Gates : GateFits(a)
  <2>1. \A a \in Gates : job[Start(a)] = "absent" /\ job[Resolve(a)] = "absent"
    BY <1>6, JobsDiffer DEF Init
  <2> QED
    BY <2>1 DEF Init, GateFits
<1>8. (\A x \in Actors : HandlerFits(x)) /\ DeliveredOnce
  BY DEF Init, HandlerFits, DeliveredOnce, Actors
<1>9. ReviewIsServed
  BY DEF Init, ReviewIsServed
<1> QED
  BY <1>3, <1>4, <1>5, <1>7, <1>8, <1>9 DEF GateIInv

LEMMA HandlerKeeps ==
    ASSUME GateIInv, NEW x \in Actors, Handler(x)
    PROVE  GateIInv'
  BY OpenKeeps, HandleKeeps, CompleteKeeps, ProjectKeeps, MoveRunKeeps, EnqueueNextKeeps
     DEF Handler, OpenReviewGate, OpenAuthoringReviewGate, HandleReviewGateResolution,
         HandleAuthoringReviewGateResolution, CompleteReviewGateResolution,
         CompleteAuthoringReviewGateResolution, ProjectResolvedReviewGate,
         ProjectResolvedAuthoringReviewGate

LEMMA GateNextInvariant == ASSUME GateIInv, Next PROVE GateIInv'
<1>1. ASSUME NEW x \in Workers, Worker(x)
      PROVE  GateIInv'
  <2>1. x \in Actors
    BY DEF Actors
  <2> QED
    BY <1>1, <2>1, ClaimKeeps, LookAtGateKeeps, BeginGateKeeps, HandlerKeeps, DeliverKeeps
       DEF Worker
<1>2. ASSUME Recover
      PROVE  GateIInv'
  <2>1. Recovery \in Actors
    BY DEF Actors
  <2> QED
    BY <1>2, <2>1, ScanKeeps, StartPassKeeps, RecoverResolutionKeeps, HandlerKeeps,
       EndRecoveryKeeps, RecoverStartKeeps DEF Recover
<1>3. ASSUME NEW o \in Operators, Operator(o)
      PROVE  GateIInv'
  BY <1>3, TakeKeeps, RecordKeeps
     DEF Operator, ReadGate, CaptureCheckpoint, RecordReviewGateDecision,
         DecideAuthoringReviewGate
<1> QED
  BY <1>1, <1>2, <1>3, RunCoordinatorKeeps, RequestsKeep, LoseLeaseKeeps DEF Next

LEMMA GateStutterInvariant == ASSUME GateIInv, UNCHANGED vars PROVE GateIInv'
<1>1. UNCHANGED <<subject, run, stage, current, decision, control, job, lost, actor, todo, operator,
                  faults>>
  BY DEF vars
<1>2. GateShapes' /\ EndsStay /\ CoordinatorsFit' /\ \A j \in Jobs : JobStays(j)
  BY <1>1 DEF GateIInv, GateShapes, CoordinatorsFit, JobStays, EndsStay
<1>3. QueuesFit' /\ \A b \in Gates : GateFits(b)'
  BY <1>1 DEF GateIInv, QueuesFit, GateFits
<1>4. ReviewIsServed'
  BY <1>1 DEF GateIInv, ReviewIsServed, KeepsWait, StillServes
<1> QED
  BY <1>1, <1>2, <1>3, <1>4, OutsideStep

LEMMA GateInvariant == Spec => []GateIInv
<1>1. Init => GateIInv
  BY GateInitInvariant
<1>2. GateIInv /\ [Next]_vars => GateIInv'
  BY GateNextInvariant, GateStutterInvariant
<1> QED
  BY <1>1, <1>2, PTL DEF Spec

(* Every row, copy and queue keeps its shape, and only jobs in doubt are   *)
(* reported lost.                                                          *)
THEOREM GateTypes == Spec => []TypeOK
<1>1. GateIInv => TypeOK
  <2>1. ASSUME lost \in Seq(Jobs)
        PROVE  DOMAIN lost = 1 .. Len(lost)
    BY <2>1
  <2> QED
    BY <2>1 DEF GateIInv, GateShapes, QueuesFit, TypeOK
<1> QED
  BY <1>1, GateInvariant, PTL

(* However many operators decide from copies read at different times, and  *)
(* however often a resolution is repeated, a completed gate has the        *)
(* verdict of its one decision.                                            *)
THEOREM GateVerdictIsDecision == Spec => []VerdictIsDecision
<1>1. GateIInv => VerdictIsDecision
  BY DEF GateIInv, GateFits, VerdictIsDecision
<1> QED
  BY <1>1, GateInvariant, PTL

(* A Run that waits for review has a gate to wait for, or a decided one    *)
(* whose resolution is under way or lost and still to be repeated.         *)
THEOREM GateReviewHasGate == Spec => []ReviewHasGate
<1>1. GateIInv => ReviewHasGate
  BY DEF GateIInv, ReviewIsServed, KeepsWait, ReviewHasGate
<1> QED
  BY <1>1, GateInvariant, PTL

-----------------------------------------------------------------------------
(* Content changes: the inductive invariant.                               *)

ChangeShapes ==
    /\ expected \in [Commands -> {None} \cup [run : Nat, task : Nat]]
    /\ cand \in [Commands -> CandidateState]
    /\ op \in [Commands -> {"absent", "prepared", "running", "unknown", "succeeded"}]
    /\ creator \in [Commands -> Callers \cup {None}]
    /\ checkout \in [Commands -> Content]
    /\ receipt \in [Commands -> Content \cup {None}]
    /\ snapshot \in [Commands -> Content \cup {None}]
    /\ plan \in [Commands -> {"none", "frozen", "late"}]
    /\ child \in [Commands -> {None} \cup [run : Nat, task : Nat, content : Content]]

SessionShapes ==
    /\ advance \in {"queued", "running", "in_doubt", "succeeded"}
    /\ session \in {"open", "needs_human"}
    /\ slot \in Callers \cup {None} /\ fresh \subseteq Callers
    /\ caller \in [Callers -> [phase : CallerPhase, prepared : BOOLEAN,
                               digest : Content \cup {None}]]
    /\ taskVersion \in Nat \ {0} /\ incidents \in 0 .. MaxIncidents
    /\ taskVersion <= 1 + incidents

\* The candidate, its operation, its receipt, its plan and its child.
OperationFits(k) ==
    /\ op[k] = "absent" => cand[k] \in {"absent", "ready"}
    /\ op[k] = "prepared" => cand[k] = "ready"
    /\ op[k] = "running" => cand[k] = "applying"
    /\ op[k] = "unknown" => cand[k] = "reconcile_required"
    /\ op[k] = "succeeded" => cand[k] \in Finalized
    /\ receipt[k] # None <=> op[k] = "succeeded"

PlanFits(k) ==
    /\ cand[k] \in Finalized \ {"no_op"} => receipt[k] # Base
    /\ plan[k] # "none" => cand[k] \in Finalized \ {"no_op"} /\ snapshot[k] = receipt[k]
    /\ expected[k] # None => expected[k].run \in 1 .. runVersion
                             /\ expected[k].task \in 1 .. taskVersion

ChildFits(k) ==
    /\ child[k] # None <=> cand[k] = "committed"
    /\ cand[k] = "committed" =>
         /\ expected[k] # None
         /\ child[k].run = expected[k].run /\ child[k].task = expected[k].task
         /\ child[k].content = receipt[k]
         /\ child[k].run < runVersion

RowFits(k) == OperationFits(k) /\ PlanFits(k) /\ ChildFits(k)

\* What a caller has behind it has been done.
CallerFits(c) ==
    LET k == CommandOf(c)
    IN  /\ At(c, "finalize") => caller[c].digest \in Content
        /\ At(c, "bind") => receipt[k] # None /\ snapshot[k] = receipt[k]
        /\ At(c, "execute") => plan[k] # "none"

OneOpenCandidate ==
    \A k, l \in Commands : {cand[k], cand[l]} \subseteq ActiveCandidate => k = l

\* Every commit, and nothing else, writes the source Run.
Committed == {k \in Commands : cand[k] = "committed"}
CommitsAreCounted ==
    /\ runVersion = 1 + Cardinality(Committed)
    /\ \A k, l \in Committed : child[k].run = child[l].run => k = l

ChangeIInv ==
    /\ ChangeShapes /\ SessionShapes
    /\ \A k \in Commands : RowFits(k)
    /\ \A c \in Callers : CallerFits(c)
    /\ OneOpenCandidate /\ CommitsAreCounted

-----------------------------------------------------------------------------
(* What one step does.                                                     *)

SameRow(k) ==
    /\ cand'[k] = cand[k] /\ op'[k] = op[k] /\ receipt'[k] = receipt[k]
    /\ snapshot'[k] = snapshot[k] /\ plan'[k] = plan[k] /\ child'[k] = child[k]
    /\ expected'[k] = expected[k]

\* Receipts, snapshots, plans and children are for ever.
RowMoves(k) ==
    /\ receipt[k] # None => receipt'[k] = receipt[k]
    /\ snapshot[k] # None => snapshot'[k] = snapshot[k]
    /\ plan[k] # "none" => plan'[k] # "none"
    /\ cand[k] = "committed" => cand'[k] = "committed" /\ child'[k] = child[k]
    /\ cand'[k] \in ActiveCandidate /\ cand[k] \notin ActiveCandidate => ~TaskHasOpenCandidate

RunMoves(k) ==
    \/ runVersion' = runVersion /\ (cand'[k] = "committed" => cand[k] = "committed")
    \/ /\ runVersion' = runVersion + 1 /\ child'[k].run = runVersion
       /\ cand[k] # "committed" /\ cand'[k] = "committed"

USE DEF CandidateState, Finalized, ActiveCandidate

LEMMA RunVersionIsNat ==
    ASSUME ChangeShapes, CommitsAreCounted
    PROVE  /\ IsFiniteSet(Committed) /\ Cardinality(Committed) \in Nat
           /\ runVersion \in Nat \ {0}
           /\ Cardinality(Committed) <= Cardinality(Commands) /\ Cardinality(Commands) \in Nat
<1>1. IsFiniteSet(Commands)
  <2>1. IsFiniteSet({"round"})
    BY FS_Singleton
  <2> QED
    BY <2>1, FS_Union, CandidateAssumption DEF Commands
<1>2. Committed \subseteq Commands
  BY DEF Committed
<1>3. IsFiniteSet(Committed) /\ Cardinality(Committed) <= Cardinality(Commands)
  BY <1>1, <1>2, FS_Subset
<1>4. Cardinality(Committed) \in Nat /\ Cardinality(Commands) \in Nat
  BY <1>1, <1>3, FS_CardinalityType
<1> QED
  BY <1>3, <1>4 DEF CommitsAreCounted

(* A row that is not written keeps fitting while the versions grow.        *)
LEMMA SameRowFits ==
    ASSUME ChangeIInv, ChangeShapes', NEW k \in Commands, RowFits(k), SameRow(k),
           runVersion \in Nat, taskVersion \in Nat, runVersion' \in Nat, taskVersion' \in Nat,
           runVersion <= runVersion', taskVersion <= taskVersion'
    PROVE  RowFits(k)'
<1>1. OperationFits(k)'
  BY DEF RowFits, OperationFits, SameRow
<1>2. PlanFits(k)'
  <2>1. expected[k] \in {None} \cup [run : Nat, task : Nat]
    BY DEF ChangeIInv, ChangeShapes
  <2> QED
    BY <2>1 DEF RowFits, PlanFits, SameRow
<1>3. ChildFits(k)'
  <2>1. child[k] \in {None} \cup [run : Nat, task : Nat, content : Content]
    BY DEF ChangeIInv, ChangeShapes
  <2> QED
    BY <2>1 DEF RowFits, ChildFits, SameRow
<1> QED
  BY <1>1, <1>2, <1>3 DEF RowFits

(* What the invariant asks of a step of caller c on the row of command k.  *)
LEMMA StepKeepsChanges ==
    ASSUME ChangeIInv, ChangeShapes', SessionShapes',
           NEW k \in Commands, \A l \in Commands \ {k} : SameRow(l),
           RowFits(k)', RowMoves(k), RunMoves(k),
           NEW c \in Callers, \A d \in Callers \ {c} : caller'[d] = caller[d],
           CallerFits(c)', taskVersion <= taskVersion'
    PROVE  ChangeIInv'
<1>1. runVersion \in Nat \ {0} /\ runVersion' \in Nat /\ runVersion <= runVersion'
  BY RunVersionIsNat DEF ChangeIInv, RunMoves
<1>2. taskVersion \in Nat /\ taskVersion' \in Nat
  BY DEF ChangeIInv, SessionShapes
<1>3. \A l \in Commands : RowFits(l)'
  <2> SUFFICES ASSUME NEW l \in Commands, l # k
               PROVE  RowFits(l)'
    OBVIOUS
  <2>1. RowFits(l) /\ SameRow(l)
    BY DEF ChangeIInv
  <2> QED
    BY <1>1, <1>2, <2>1, SameRowFits
<1>4. \A d \in Callers : CallerFits(d)'
  <2> SUFFICES ASSUME NEW d \in Callers, d # c
               PROVE  CallerFits(d)'
    OBVIOUS
  <2> DEFINE l == CommandOf(d)
  <2>1. l \in Commands
    BY DEF CommandOf, Commands
  <2>2. /\ receipt[l] # None => receipt'[l] = receipt[l]
        /\ snapshot[l] # None => snapshot'[l] = snapshot[l]
        /\ plan[l] # "none" => plan'[l] # "none"
    BY <2>1 DEF SameRow, RowMoves
  <2>3. CallerFits(d) /\ caller'[d] = caller[d]
    BY DEF ChangeIInv
  <2> QED
    BY <2>1, <2>2, <2>3 DEF CallerFits, At
<1>5. OneOpenCandidate'
  <2> SUFFICES ASSUME NEW l \in Commands, NEW m \in Commands, l # m,
                      cand'[l] \in ActiveCandidate, cand'[m] \in ActiveCandidate
               PROVE  FALSE
    BY DEF OneOpenCandidate
  <2>1. cand[l] \in ActiveCandidate \/ (l = k /\ ~TaskHasOpenCandidate)
    BY DEF SameRow, RowMoves
  <2>2. cand[m] \in ActiveCandidate \/ (m = k /\ ~TaskHasOpenCandidate)
    BY DEF SameRow, RowMoves
  <2> QED
    BY <2>1, <2>2 DEF ChangeIInv, OneOpenCandidate, TaskHasOpenCandidate
<1>6. CommitsAreCounted'
  <2>1. CASE runVersion' = runVersion /\ (cand'[k] = "committed" => cand[k] = "committed")
    <3>1. Committed' = Committed /\ \A l \in Committed : child'[l] = child[l]
      BY <2>1 DEF Committed, SameRow, RowMoves
    <3> QED
      BY <2>1, <3>1 DEF ChangeIInv, CommitsAreCounted
  <2>2. CASE /\ runVersion' = runVersion + 1 /\ child'[k].run = runVersion
             /\ cand[k] # "committed" /\ cand'[k] = "committed"
    <3>1. Committed' = Committed \cup {k} /\ k \notin Committed
      BY <2>2 DEF Committed, SameRow
    <3>2. \A l \in Committed : child'[l] = child[l] /\ child[l].run < runVersion
      BY <3>1 DEF Committed, SameRow, ChangeIInv, RowFits, ChildFits
    <3>3. Cardinality(Committed') = Cardinality(Committed) + 1
      BY <3>1, RunVersionIsNat, FS_AddElement DEF ChangeIInv
    <3>4. runVersion' = 1 + Cardinality(Committed')
      BY <2>2, <3>3, RunVersionIsNat DEF ChangeIInv, CommitsAreCounted
    <3>5. \A l, m \in Committed' : child'[l].run = child'[m].run => l = m
      <4>1. \A l, m \in Committed : child[l].run = child[m].run => l = m
        BY DEF ChangeIInv, CommitsAreCounted
      <4>2. \A l \in Committed : child'[l].run \in Int /\ child'[l].run < runVersion
        <5>1. \A l \in Committed : child[l] \in [run : Nat, task : Nat, content : Content]
          BY DEF Committed, ChangeIInv, ChangeShapes, RowFits, ChildFits
        <5> QED
          BY <3>2, <5>1
      <4> QED
        BY <1>1, <2>2, <3>1, <3>2, <4>1, <4>2
    <3> QED
      BY <3>4, <3>5 DEF CommitsAreCounted
  <2> QED
    BY <2>1, <2>2 DEF RunMoves
<1> QED
  BY <1>3, <1>4, <1>5, <1>6 DEF ChangeIInv

-----------------------------------------------------------------------------
(* The steps of the callers.                                               *)

CallerShape == [phase : CallerPhase, prepared : BOOLEAN, digest : Content \cup {None}]
CallerShapes == caller \in [Callers -> CallerShape]
Alone(c) == \A d \in Callers \ {c} : caller'[d] = caller[d]

LEMMA GoOnMoves ==
    ASSUME ChangeIInv, NEW c \in Callers, NEW p \in CallerPhase, GoOn(c, p)
    PROVE  /\ CallerShapes' /\ Alone(c)
           /\ caller'[c].phase = p /\ caller'[c].digest = caller[c].digest
  BY DEF ChangeIInv, SessionShapes, CallerShapes, CallerShape, GoOn, Alone

LEMMA LeaveMoves ==
    ASSUME ChangeIInv, NEW c \in Callers, Fail(c) \/ Done(c)
    PROVE  CallerShapes' /\ Alone(c) /\ CallerFits(c)'
<1>1. PICK p \in {"idle", "failed", "done"} : caller' = [caller EXCEPT ![c] = [AtRest EXCEPT !.phase = p]]
  BY DEF Fail, Done, Leave, AtRest
<1>2. [AtRest EXCEPT !.phase = p] \in CallerShape
  BY DEF AtRest, CallerShape, CallerPhase
<1>3. CallerShapes' /\ Alone(c) /\ caller'[c].phase = p
  BY <1>1, <1>2 DEF ChangeIInv, SessionShapes, CallerShapes, CallerShape, Alone, AtRest
<1> QED
  BY <1>3 DEF CallerFits, At

LEMMA RereadMoves ==
    ASSUME ChangeIInv, NEW c \in Callers, NEW p \in CallerPhase \ {"finalize", "bind", "execute"},
           Reread(c, p)
    PROVE  CallerShapes' /\ Alone(c) /\ CallerFits(c)'
<1>1. [AtRest EXCEPT !.phase = p] \in CallerShape
  BY DEF AtRest, CallerShape, CallerPhase
<1>2. CallerShapes' /\ Alone(c) /\ caller'[c].phase = p
  BY <1>1 DEF ChangeIInv, SessionShapes, CallerShapes, CallerShape, Alone, AtRest, Reread
<1> QED
  BY <1>2 DEF CallerFits, At

LEMMA CommandIsOne ==
    ASSUME NEW c \in Callers
    PROVE  CommandOf(c) \in Commands
  BY DEF CommandOf, Commands

(* A step that writes neither candidate nor plan nor the source Run.       *)
LEMMA RowsStay ==
    ASSUME ChangeIInv, SessionShapes',
           UNCHANGED <<cand, op, receipt, snapshot, plan, child, expected, creator, runVersion>>,
           checkout' \in [Commands -> Content],
           NEW c \in Callers, Alone(c), CallerFits(c)', taskVersion <= taskVersion'
    PROVE  ChangeIInv'
<1>1. ChangeShapes'
  BY DEF ChangeIInv, ChangeShapes
<1>2. PICK k \in Commands : TRUE
  BY DEF Commands
<1>3. \A l \in Commands : SameRow(l)
  BY DEF SameRow
<1>4. RowMoves(k) /\ RunMoves(k)
  BY DEF RowMoves, RunMoves
<1>5. RowFits(k)'
  <2>1. taskVersion \in Nat /\ taskVersion' \in Nat
    BY DEF ChangeIInv, SessionShapes
  <2>2. runVersion \in Nat /\ runVersion' \in Nat /\ runVersion <= runVersion'
    BY RunVersionIsNat DEF ChangeIInv
  <2>3. RowFits(k) /\ SameRow(k)
    BY <1>3 DEF ChangeIInv
  <2> QED
    BY <1>1, <2>1, <2>2, <2>3, SameRowFits
<1> QED
  BY <1>1, <1>3, <1>4, <1>5, StepKeepsChanges DEF Alone

LEMMA BeginKeeps ==
    ASSUME ChangeIInv, NEW c \in Callers, Begin(c)
    PROVE  ChangeIInv'
<1> DEFINE k == CommandOf(c)
<1>1. k \in Commands
  BY CommandIsOne
<1>2. SessionShapes' /\ Alone(c) /\ CallerFits(c)'
  <2>1. CallerShapes' /\ Alone(c) /\ CallerFits(c)'
    <3>1. CASE GoOn(c, "look")
      <4>1. "look" \in CallerPhase
        BY DEF CallerPhase
      <4> QED
        BY <3>1, <4>1, GoOnMoves DEF CallerFits, At
    <3>2. CASE Done(c)
      BY <3>2, LeaveMoves
    <3> QED
      BY <3>1, <3>2 DEF Begin
  <2> QED
    BY <2>1 DEF Begin, env, leases, rows, SessionShapes, CallerShapes, CallerShape, ChangeIInv
<1>3. runVersion' = runVersion /\ taskVersion' = taskVersion
  BY DEF Begin, env
<1>4. UNCHANGED <<cand, op, receipt, snapshot, plan, child, creator, checkout>>
  BY DEF Begin, rows, files
<1>5. runVersion \in Nat \ {0} /\ taskVersion \in Nat \ {0}
  BY RunVersionIsNat DEF ChangeIInv, SessionShapes
<1>6. Checkpoint \in [run : Nat, task : Nat] /\ Checkpoint # None
  BY <1>5, CandidateAssumption DEF Checkpoint
<1>7. \/ expected' = expected
      \/ expected[k] = None /\ expected' = [expected EXCEPT ![k] = Checkpoint]
  BY <1>1 DEF Begin, ChangeIInv, ChangeShapes
<1>8. ChangeShapes'
  BY <1>1, <1>4, <1>6, <1>7 DEF ChangeIInv, ChangeShapes
<1>9. \A l \in Commands \ {k} : SameRow(l)
  BY <1>4, <1>7 DEF SameRow, ChangeIInv, ChangeShapes
<1>10. RowMoves(k) /\ RunMoves(k)
  BY <1>3, <1>4 DEF RowMoves, RunMoves
<1>11. RowFits(k)'
  <2>1. RowFits(k)
    BY <1>1 DEF ChangeIInv
  <2>2. OperationFits(k)'
    BY <1>4, <2>1 DEF RowFits, OperationFits
  <2>3. expected'[k] = expected[k] \/ (expected[k] = None /\ expected'[k] = Checkpoint)
    BY <1>1, <1>7 DEF ChangeIInv, ChangeShapes
  <2>4. PlanFits(k)'
    BY <1>3, <1>4, <1>5, <2>1, <2>3 DEF RowFits, PlanFits, Checkpoint
  <2>5. ChildFits(k)'
    BY <1>3, <1>4, <2>1, <2>3 DEF RowFits, ChildFits
  <2> QED
    BY <2>2, <2>4, <2>5 DEF RowFits
<1> QED
  BY <1>1, <1>2, <1>3, <1>5, <1>8, <1>9, <1>10, <1>11, StepKeepsChanges DEF Alone

LEMMA PlanTaskChangeKeeps ==
    ASSUME ChangeIInv, NEW c \in Callers, PlanTaskChange(c)
    PROVE  ChangeIInv'
<1>1. UNCHANGED <<advance, session, runVersion, taskVersion, incidents, expected, cand, op,
                  creator, receipt, plan, slot, fresh, checkout, snapshot, child>>
  BY DEF PlanTaskChange, env, rows, leases, files
<1>2. CallerShapes' /\ Alone(c) /\ CallerFits(c)'
  <2>1. CASE Fail(c)
    BY <2>1, LeaveMoves
  <2>2. CASE plan[CommandOf(c)] # "none" /\ GoOn(c, "execute")
    <3>1. "execute" \in CallerPhase
      BY DEF CallerPhase
    <3> QED
      BY <1>1, <2>2, <3>1, GoOnMoves DEF CallerFits, At
  <2>3. CASE GoOn(c, "acquire")
    <3>1. "acquire" \in CallerPhase
      BY DEF CallerPhase
    <3> QED
      BY <2>3, <3>1, GoOnMoves DEF CallerFits, At
  <2>4. CASE \E b \in BOOLEAN : caller' = [caller EXCEPT ![c].phase = "operate", ![c].prepared = b]
    <3>1. PICK b \in BOOLEAN : caller' = [caller EXCEPT ![c].phase = "operate", ![c].prepared = b]
      BY <2>4
    <3>2. CallerShapes' /\ Alone(c) /\ caller'[c].phase = "operate"
      BY <3>1 DEF ChangeIInv, SessionShapes, CallerShapes, CallerShape, Alone, CallerPhase
    <3> QED
      BY <3>2 DEF CallerFits, At
  <2> QED
    BY <2>1, <2>2, <2>3, <2>4 DEF PlanTaskChange
<1>3. SessionShapes' /\ checkout' \in [Commands -> Content] /\ taskVersion <= taskVersion'
  BY <1>1, <1>2 DEF ChangeIInv, SessionShapes, ChangeShapes, CallerShapes, CallerShape
<1> QED
  BY <1>1, <1>2, <1>3, RowsStay

LEMMA AcquireKeeps ==
    ASSUME ChangeIInv, NEW c \in Callers, Acquire(c)
    PROVE  ChangeIInv'
<1>1. UNCHANGED <<advance, session, runVersion, taskVersion, incidents, expected, cand, op,
                  creator, receipt, plan, checkout, snapshot, child>>
  BY DEF Acquire, env, rows, files
<1>2. CallerShapes' /\ Alone(c) /\ CallerFits(c)'
  <2>1. CASE Fail(c)
    BY <2>1, LeaveMoves
  <2>2. CASE GoOn(c, "create")
    <3>1. "create" \in CallerPhase
      BY DEF CallerPhase
    <3> QED
      BY <2>2, <3>1, GoOnMoves DEF CallerFits, At
  <2> QED
    BY <2>1, <2>2 DEF Acquire
<1>3. slot' \in Callers \cup {None} /\ fresh' \subseteq Callers
  BY DEF Acquire, leases, ChangeIInv, SessionShapes
<1>4. SessionShapes' /\ checkout' \in [Commands -> Content] /\ taskVersion <= taskVersion'
  BY <1>1, <1>2, <1>3 DEF ChangeIInv, SessionShapes, ChangeShapes, CallerShapes, CallerShape
<1> QED
  BY <1>1, <1>2, <1>4, RowsStay

LEMMA HeartbeatKeeps ==
    ASSUME ChangeIInv, NEW c \in Callers, Heartbeat(c)
    PROVE  ChangeIInv'
<1>1. UNCHANGED <<caller, advance, session, runVersion, taskVersion, incidents, expected, cand, op,
                  creator, receipt, plan, slot, checkout, snapshot, child>>
  BY DEF Heartbeat, env, rows, files
<1>2. Alone(c) /\ CallerFits(c)'
  BY <1>1 DEF ChangeIInv, Alone, CallerFits, At
<1>3. SessionShapes' /\ checkout' \in [Commands -> Content] /\ taskVersion <= taskVersion'
  BY <1>1 DEF Heartbeat, ChangeIInv, SessionShapes, ChangeShapes
<1> QED
  BY <1>1, <1>2, <1>3, RowsStay

LEMMA ApplyKeeps ==
    ASSUME ChangeIInv, NEW c \in Callers, Apply(c)
    PROVE  ChangeIInv'
<1>1. UNCHANGED <<advance, session, runVersion, taskVersion, incidents, expected, cand, op,
                  creator, receipt, plan, slot, fresh, snapshot, child>>
  BY DEF Apply, env, rows, leases
<1>2. "written" \in CallerPhase
  BY DEF CallerPhase
<1>3. CallerShapes' /\ Alone(c) /\ CallerFits(c)'
  BY <1>2, GoOnMoves DEF Apply, CallerFits, At
<1>4. checkout' \in [Commands -> Content]
  BY DEF Apply, Content, ChangeIInv, ChangeShapes
<1>5. SessionShapes' /\ taskVersion <= taskVersion'
  BY <1>1, <1>3 DEF ChangeIInv, SessionShapes, CallerShapes, CallerShape
<1> QED
  BY <1>1, <1>3, <1>4, <1>5, RowsStay

LEMMA ApplyReturnsKeeps ==
    ASSUME ChangeIInv, NEW c \in Callers, ApplyReturns(c)
    PROVE  ChangeIInv'
<1>1. UNCHANGED <<advance, session, runVersion, taskVersion, incidents, expected, cand, op,
                  creator, receipt, plan, slot, fresh, checkout, snapshot, child>>
  BY DEF ApplyReturns, env, rows, leases, files
<1>2. checkout[CommandOf(c)] \in Content
  BY CommandIsOne DEF ChangeIInv, ChangeShapes
<1>3. PICK d \in Content :
        caller' = [caller EXCEPT ![c].phase = "finalize", ![c].digest = d]
  BY <1>2 DEF ApplyReturns
<1>4. CallerShapes' /\ Alone(c) /\ caller'[c].phase = "finalize" /\ caller'[c].digest = d
  BY <1>3 DEF ChangeIInv, SessionShapes, CallerShapes, CallerShape, Alone, CallerPhase
<1>5. CallerFits(c)'
  BY <1>4 DEF CallerFits, At
<1>6. SessionShapes' /\ checkout' \in [Commands -> Content] /\ taskVersion <= taskVersion'
  BY <1>1, <1>4 DEF ChangeIInv, SessionShapes, ChangeShapes, CallerShapes, CallerShape
<1> QED
  BY <1>1, <1>4, <1>5, <1>6, RowsStay

(* A step of caller c on the candidate, the operation or the plan of its   *)
(* command; the source Run and the frozen checkpoints stay.                *)
LEMMA RowStep ==
    ASSUME ChangeIInv, NEW c \in Callers, NEW k, k = CommandOf(c),
           UNCHANGED <<advance, session, runVersion, taskVersion, incidents, expected, child,
                       checkout>>,
           slot' \in Callers \cup {None}, fresh' \subseteq Callers,
           ChangeShapes',
           \A l \in Commands \ {k} :
               /\ cand'[l] = cand[l] /\ op'[l] = op[l] /\ receipt'[l] = receipt[l]
               /\ snapshot'[l] = snapshot[l] /\ plan'[l] = plan[l],
           OperationFits(k)', PlanFits(k)', RowMoves(k),
           cand'[k] = "committed" <=> cand[k] = "committed",
           receipt[k] # None => receipt'[k] = receipt[k],
           CallerShapes', Alone(c), CallerFits(c)'
    PROVE  ChangeIInv'
<1>1. k \in Commands
  BY CommandIsOne
<1>2. \A l \in Commands \ {k} : SameRow(l)
  BY DEF SameRow
<1>3. RunMoves(k)
  BY DEF RunMoves
<1>4. ChildFits(k)'
  <2>1. ChildFits(k) /\ OperationFits(k)
    BY <1>1 DEF ChangeIInv, RowFits
  <2>2. cand[k] = "committed" => receipt'[k] = receipt[k]
    <3>1. op[k] \in {"absent", "prepared", "running", "unknown", "succeeded"}
      BY <1>1 DEF ChangeIInv, ChangeShapes
    <3> QED
      BY <2>1, <3>1 DEF OperationFits
  <2> QED
    BY <2>1, <2>2 DEF ChildFits
<1>5. SessionShapes'
  BY DEF ChangeIInv, SessionShapes, CallerShapes, CallerShape
<1>6. taskVersion <= taskVersion'
  BY DEF ChangeIInv, SessionShapes
<1> QED
  BY <1>1, <1>2, <1>3, <1>4, <1>5, <1>6, StepKeepsChanges DEF RowFits, Alone

LEMMA ReleaseMoves ==
    ASSUME ChangeIInv, NEW owner, Release(owner)
    PROVE  slot' \in Callers \cup {None} /\ fresh' \subseteq Callers
  BY DEF ChangeIInv, SessionShapes, Release, leases

LEMMA CreateRevisionCandidateKeeps ==
    ASSUME ChangeIInv, NEW c \in Callers, CreateRevisionCandidate(c)
    PROVE  ChangeIInv'
<1> DEFINE k == CommandOf(c)
<1>0. k \in Commands
  BY CommandIsOne
<1>1. UNCHANGED <<advance, session, runVersion, taskVersion, incidents, expected, op, receipt, plan,
                  checkout, snapshot, child>>
  BY DEF CreateRevisionCandidate, env, files
<1>2. ASSUME cand[k] = "absent", ~TaskHasOpenCandidate, cand' = [cand EXCEPT ![k] = "ready"],
             creator' = [creator EXCEPT ![k] = c], GoOn(c, "operate"), UNCHANGED leases
      PROVE  ChangeIInv'
  <2>1. "operate" \in CallerPhase
    BY DEF CallerPhase
  <2>2. CallerShapes' /\ Alone(c) /\ CallerFits(c)'
    BY <1>2, <2>1, GoOnMoves DEF CallerFits, At
  <2>3. ChangeShapes'
    BY <1>1, <1>2 DEF ChangeIInv, ChangeShapes
  <2>4. slot' \in Callers \cup {None} /\ fresh' \subseteq Callers
    BY <1>2 DEF leases, ChangeIInv, SessionShapes
  <2>5. cand'[k] = "ready" /\ \A l \in Commands \ {k} : cand'[l] = cand[l]
    BY <1>0, <1>2 DEF ChangeIInv, ChangeShapes
  <2>6. RowFits(k) /\ op[k] \in {"absent", "prepared", "running", "unknown", "succeeded"}
    BY <1>0 DEF ChangeIInv, ChangeShapes
  <2>7. OperationFits(k)'
    BY <1>1, <1>2, <2>5, <2>6 DEF RowFits, OperationFits
  <2>8. PlanFits(k)'
    BY <1>1, <1>2, <2>5, <2>6 DEF RowFits, PlanFits
  <2>9. RowMoves(k)
    BY <1>1, <1>2, <2>5, <2>6 DEF RowMoves
  <2> QED
    BY <1>1, <1>2, <2>2, <2>3, <2>4, <2>5, <2>7, <2>8, <2>9, RowStep
<1>3. ASSUME Release(c), Fail(c), UNCHANGED <<cand, creator>>
      PROVE  ChangeIInv'
  <2>1. CallerShapes' /\ Alone(c) /\ CallerFits(c)'
    BY <1>3, LeaveMoves
  <2>2. slot' \in Callers \cup {None} /\ fresh' \subseteq Callers
    BY <1>3, ReleaseMoves
  <2>3. SessionShapes' /\ checkout' \in [Commands -> Content] /\ taskVersion <= taskVersion'
    BY <1>1, <2>1, <2>2 DEF ChangeIInv, SessionShapes, ChangeShapes, CallerShapes, CallerShape
  <2> QED
    BY <1>1, <1>3, <2>1, <2>3, RowsStay
<1> QED
  BY <1>2, <1>3 DEF CreateRevisionCandidate

LEMMA CreateChangeOperationKeeps ==
    ASSUME ChangeIInv, NEW c \in Callers, CreateChangeOperation(c)
    PROVE  ChangeIInv'
<1> DEFINE k == CommandOf(c)
<1>0. k \in Commands
  BY CommandIsOne
<1>1. UNCHANGED <<advance, session, runVersion, taskVersion, incidents, expected, cand, creator,
                  receipt, plan, slot, checkout, snapshot, child>>
  BY DEF CreateChangeOperation, env, files
<1>2. \/ op' = op
      \/ op[k] = "absent" /\ cand[k] = "ready" /\ op' = [op EXCEPT ![k] = "prepared"]
  BY DEF CreateChangeOperation
<1>3. ChangeShapes' /\ \A l \in Commands \ {k} : op'[l] = op[l]
  BY <1>1, <1>2 DEF ChangeIInv, ChangeShapes
<1>4. op'[k] = op[k] \/ (op[k] = "absent" /\ cand[k] = "ready" /\ op'[k] = "prepared")
  BY <1>0, <1>2 DEF ChangeIInv, ChangeShapes
<1>5. RowFits(k) /\ op[k] \in {"absent", "prepared", "running", "unknown", "succeeded"}
  BY <1>0 DEF ChangeIInv, ChangeShapes
<1>6. OperationFits(k)'
  BY <1>1, <1>4, <1>5 DEF RowFits, OperationFits
<1>7. PlanFits(k)' /\ RowMoves(k)
  BY <1>1, <1>5 DEF RowFits, PlanFits, RowMoves
<1>8. /\ CallerShapes' /\ Alone(c) /\ CallerFits(c)'
      /\ fresh' \subseteq Callers
  <2>1. CASE Fail(c) /\ UNCHANGED fresh
    BY <2>1, LeaveMoves DEF ChangeIInv, SessionShapes
  <2>2. CASE GoOn(c, "start") /\ fresh' = fresh \cup {c}
    <3>1. "start" \in CallerPhase
      BY DEF CallerPhase
    <3> QED
      BY <2>2, <3>1, GoOnMoves DEF CallerFits, At, ChangeIInv, SessionShapes
  <2>3. CASE Reread(c, "snapshot") /\ UNCHANGED fresh
    <3>1. "snapshot" \in CallerPhase \ {"finalize", "bind", "execute"}
      BY DEF CallerPhase
    <3> QED
      BY <2>3, <3>1, RereadMoves DEF ChangeIInv, SessionShapes
  <2> QED
    BY <2>1, <2>2, <2>3 DEF CreateChangeOperation
<1>9. slot' \in Callers \cup {None}
  BY <1>1 DEF ChangeIInv, SessionShapes
<1> QED
  BY <1>1, <1>3, <1>6, <1>7, <1>8, <1>9, RowStep

LEMMA StartChangeOperationKeeps ==
    ASSUME ChangeIInv, NEW c \in Callers, StartChangeOperation(c)
    PROVE  ChangeIInv'
<1> DEFINE k == CommandOf(c)
<1>0. k \in Commands
  BY CommandIsOne
<1>1. UNCHANGED <<advance, session, runVersion, taskVersion, incidents, expected, creator,
                  receipt, plan, slot, checkout, snapshot, child>>
  BY DEF StartChangeOperation, env, files
<1>2. \/ op[k] \in {"prepared", "running"} /\ op' = [op EXCEPT ![k] = "running"]
                                           /\ cand' = [cand EXCEPT ![k] = "applying"]
      \/ op[k] = "running" /\ op' = [op EXCEPT ![k] = "unknown"]
                           /\ cand' = [cand EXCEPT ![k] = "reconcile_required"]
      \/ UNCHANGED <<op, cand>>
  BY <1>0 DEF StartChangeOperation, ChangeIInv, ChangeShapes
<1>3. ChangeShapes' /\ \A l \in Commands \ {k} : op'[l] = op[l] /\ cand'[l] = cand[l]
  BY <1>1, <1>2 DEF ChangeIInv, ChangeShapes
<1>4. \/ op[k] \in {"prepared", "running"} /\ op'[k] = "running" /\ cand'[k] = "applying"
      \/ op[k] = "running" /\ op'[k] = "unknown" /\ cand'[k] = "reconcile_required"
      \/ op'[k] = op[k] /\ cand'[k] = cand[k]
  BY <1>0, <1>2 DEF ChangeIInv, ChangeShapes
<1>5. RowFits(k) /\ op[k] \in {"absent", "prepared", "running", "unknown", "succeeded"}
  BY <1>0 DEF ChangeIInv, ChangeShapes
<1>6. OperationFits(k)'
  BY <1>1, <1>4, <1>5 DEF RowFits, OperationFits
<1>7. PlanFits(k)' /\ RowMoves(k) /\ (cand'[k] = "committed" <=> cand[k] = "committed")
  BY <1>1, <1>4, <1>5 DEF RowFits, OperationFits, PlanFits, RowMoves
<1>8. /\ CallerShapes' /\ Alone(c) /\ CallerFits(c)'
      /\ fresh' \subseteq Callers
  <2>1. CASE Fail(c) /\ UNCHANGED fresh
    BY <2>1, LeaveMoves DEF ChangeIInv, SessionShapes
  <2>2. CASE GoOn(c, "apply") /\ fresh' = {c}
    <3>1. "apply" \in CallerPhase
      BY DEF CallerPhase
    <3> QED
      BY <2>2, <3>1, GoOnMoves DEF CallerFits, At, ChangeIInv, SessionShapes
  <2> QED
    BY <2>1, <2>2 DEF StartChangeOperation
<1>9. slot' \in Callers \cup {None}
  BY <1>1 DEF ChangeIInv, SessionShapes
<1> QED
  BY <1>1, <1>3, <1>6, <1>7, <1>8, <1>9, RowStep

LEMMA MarkChangeOperationUnknownKeeps ==
    ASSUME ChangeIInv, NEW c \in Callers, MarkChangeOperationUnknown(c)
    PROVE  ChangeIInv'
<1> DEFINE k == CommandOf(c)
<1>0. k \in Commands
  BY CommandIsOne
<1>1. UNCHANGED <<advance, session, runVersion, taskVersion, incidents, expected, creator,
                  receipt, plan, slot, fresh, checkout, snapshot, child>>
  BY DEF MarkChangeOperationUnknown, env, files, leases
<1>2. \/ op[k] = "running" /\ op' = [op EXCEPT ![k] = "unknown"]
                           /\ cand' = [cand EXCEPT ![k] = "reconcile_required"]
      \/ UNCHANGED <<op, cand>>
  BY DEF MarkChangeOperationUnknown
<1>3. ChangeShapes' /\ \A l \in Commands \ {k} : op'[l] = op[l] /\ cand'[l] = cand[l]
  BY <1>1, <1>2 DEF ChangeIInv, ChangeShapes
<1>4. \/ op[k] = "running" /\ op'[k] = "unknown" /\ cand'[k] = "reconcile_required"
      \/ op'[k] = op[k] /\ cand'[k] = cand[k]
  BY <1>0, <1>2 DEF ChangeIInv, ChangeShapes
<1>5. RowFits(k)
  BY <1>0 DEF ChangeIInv
<1>6. OperationFits(k)'
  BY <1>1, <1>4, <1>5 DEF RowFits, OperationFits
<1>7. PlanFits(k)' /\ RowMoves(k) /\ (cand'[k] = "committed" <=> cand[k] = "committed")
  BY <1>1, <1>4, <1>5 DEF RowFits, OperationFits, PlanFits, RowMoves
<1>8. CallerShapes' /\ Alone(c) /\ CallerFits(c)'
  BY LeaveMoves DEF MarkChangeOperationUnknown
<1>9. slot' \in Callers \cup {None} /\ fresh' \subseteq Callers
  BY <1>1 DEF ChangeIInv, SessionShapes
<1> QED
  BY <1>1, <1>3, <1>6, <1>7, <1>8, <1>9, RowStep

LEMMA FinalizeChangeOperationKeeps ==
    ASSUME ChangeIInv, NEW c \in Callers, FinalizeChangeOperation(c)
    PROVE  ChangeIInv'
<1> DEFINE k == CommandOf(c)
           d == caller[c].digest
<1>0. k \in Commands
  BY CommandIsOne
<1>1. UNCHANGED <<advance, session, runVersion, taskVersion, incidents, expected, creator,
                  plan, checkout, snapshot, child>>
  BY DEF FinalizeChangeOperation, env, files
<1>2. d \in Content /\ d # None
  BY CandidateAssumption DEF ChangeIInv, CallerFits, FinalizeChangeOperation
<1>3. \/ /\ op[k] = "running" /\ op' = [op EXCEPT ![k] = "succeeded"]
         /\ cand' = [cand EXCEPT ![k] = IF d = Base THEN "no_op" ELSE "prepared"]
         /\ receipt' = [receipt EXCEPT ![k] = d]
      \/ UNCHANGED <<op, cand, receipt>>
  BY DEF FinalizeChangeOperation
<1>4. /\ ChangeShapes'
      /\ \A l \in Commands \ {k} : op'[l] = op[l] /\ cand'[l] = cand[l] /\ receipt'[l] = receipt[l]
  BY <1>1, <1>2, <1>3 DEF ChangeIInv, ChangeShapes
<1>5. \/ /\ op[k] = "running" /\ op'[k] = "succeeded" /\ receipt'[k] = d
         /\ cand'[k] = IF d = Base THEN "no_op" ELSE "prepared"
      \/ op'[k] = op[k] /\ cand'[k] = cand[k] /\ receipt'[k] = receipt[k]
  BY <1>0, <1>3 DEF ChangeIInv, ChangeShapes
<1>6. RowFits(k)
  BY <1>0 DEF ChangeIInv
<1>7. OperationFits(k)'
  BY <1>1, <1>2, <1>5, <1>6 DEF RowFits, OperationFits
<1>8. PlanFits(k)' /\ RowMoves(k) /\ (cand'[k] = "committed" <=> cand[k] = "committed")
  BY <1>1, <1>2, <1>5, <1>6 DEF RowFits, OperationFits, PlanFits, RowMoves
<1>9. CallerShapes' /\ Alone(c) /\ CallerFits(c)'
  <2>1. "snapshot" \in CallerPhase \ {"finalize", "bind", "execute"}
    BY DEF CallerPhase
  <2> QED
    BY <2>1, LeaveMoves, RereadMoves DEF FinalizeChangeOperation
<1>10. slot' \in Callers \cup {None} /\ fresh' \subseteq Callers
  <2>1. (\E o : Release(o)) \/ UNCHANGED leases
    BY DEF FinalizeChangeOperation
  <2> QED
    BY <2>1, ReleaseMoves DEF ChangeIInv, SessionShapes, leases
<1> QED
  BY <1>1, <1>4, <1>7, <1>8, <1>9, <1>10, RowStep DEF RowMoves

LEMMA FreezeCandidatePlanKeeps ==
    ASSUME ChangeIInv, NEW c \in Callers, FreezeCandidatePlan(c)
    PROVE  ChangeIInv'
<1> DEFINE k == CommandOf(c)
<1>0. k \in Commands
  BY CommandIsOne
<1>1. UNCHANGED <<advance, session, runVersion, taskVersion, incidents, expected, cand, op, creator,
                  receipt, plan, slot, fresh, checkout, child>>
  BY DEF FreezeCandidatePlan, env, leases, rows
<1>2. \/ /\ plan[k] = "none" /\ snapshot[k] = None
         /\ snapshot' = [snapshot EXCEPT ![k] = checkout[k]]
      \/ snapshot' = snapshot
  BY <1>0 DEF FreezeCandidatePlan, ChangeIInv, ChangeShapes
<1>3. ChangeShapes' /\ \A l \in Commands \ {k} : snapshot'[l] = snapshot[l]
  BY <1>0, <1>1, <1>2 DEF ChangeIInv, ChangeShapes
<1>4. snapshot'[k] = snapshot[k] \/ (snapshot[k] = None /\ plan[k] = "none")
  BY <1>2
<1>5. RowFits(k)
  BY <1>0 DEF ChangeIInv
<1>6. OperationFits(k)' /\ PlanFits(k)' /\ RowMoves(k)
  BY <1>1, <1>4, <1>5 DEF RowFits, OperationFits, PlanFits, RowMoves
<1>7. CallerShapes' /\ Alone(c) /\ CallerFits(c)'
  <2>1. CASE Fail(c)
    BY <2>1, LeaveMoves
  <2>2. CASE cand[k] = "prepared" /\ snapshot'[k] = receipt[k] /\ GoOn(c, "bind")
    <3>1. "bind" \in CallerPhase
      BY DEF CallerPhase
    <3>2. receipt'[k] # None /\ snapshot'[k] = receipt'[k]
      <4>1. op[k] = "succeeded"
        BY <1>0, <1>5, <2>2 DEF RowFits, OperationFits, ChangeIInv, ChangeShapes
      <4> QED
        BY <1>1, <1>5, <2>2, <4>1 DEF RowFits, OperationFits
    <3> QED
      BY <2>2, <3>1, <3>2, GoOnMoves DEF CallerFits, At
  <2> QED
    BY <2>1, <2>2 DEF FreezeCandidatePlan
<1>8. slot' \in Callers \cup {None} /\ fresh' \subseteq Callers
  BY <1>1 DEF ChangeIInv, SessionShapes
<1> QED
  BY <1>1, <1>3, <1>6, <1>7, <1>8, RowStep

LEMMA CreateAndBindRevisionCandidatePlanKeeps ==
    ASSUME ChangeIInv, NEW c \in Callers, CreateAndBindRevisionCandidatePlan(c)
    PROVE  ChangeIInv'
<1> DEFINE k == CommandOf(c)
<1>0. k \in Commands
  BY CommandIsOne
<1>1. UNCHANGED <<advance, session, runVersion, taskVersion, incidents, expected, cand, op, creator,
                  receipt, snapshot, slot, fresh, checkout, child>>
  BY DEF CreateAndBindRevisionCandidatePlan, env, leases, files
<1>2. \/ cand[k] = "prepared" /\ plan' = [plan EXCEPT ![k] = "frozen"] /\ GoOn(c, "execute")
      \/ plan' = plan /\ Fail(c)
  BY DEF CreateAndBindRevisionCandidatePlan
<1>3. ChangeShapes' /\ \A l \in Commands \ {k} : plan'[l] = plan[l]
  BY <1>1, <1>2 DEF ChangeIInv, ChangeShapes
<1>4. \/ cand[k] = "prepared" /\ plan'[k] = "frozen"
      \/ plan'[k] = plan[k]
  BY <1>0, <1>2 DEF ChangeIInv, ChangeShapes
<1>5. (RowFits(k) /\ snapshot[k] = receipt[k]) \/ plan' = plan
  BY <1>0, <1>2 DEF ChangeIInv, CallerFits, CreateAndBindRevisionCandidatePlan
<1>6. RowFits(k)
  BY <1>0 DEF ChangeIInv
<1>7. OperationFits(k)' /\ PlanFits(k)' /\ RowMoves(k)
  BY <1>1, <1>4, <1>5, <1>6 DEF RowFits, OperationFits, PlanFits, RowMoves
<1>8. CallerShapes' /\ Alone(c) /\ CallerFits(c)'
  <2>1. CASE Fail(c)
    BY <2>1, LeaveMoves
  <2>2. CASE plan' = [plan EXCEPT ![k] = "frozen"] /\ GoOn(c, "execute")
    <3>1. "execute" \in CallerPhase
      BY DEF CallerPhase
    <3>2. plan'[k] = "frozen"
      BY <1>0, <2>2 DEF ChangeIInv, ChangeShapes
    <3> QED
      BY <2>2, <3>1, <3>2, GoOnMoves DEF CallerFits, At
  <2> QED
    BY <1>2, <2>1, <2>2
<1>9. slot' \in Callers \cup {None} /\ fresh' \subseteq Callers
  BY <1>1 DEF ChangeIInv, SessionShapes
<1> QED
  BY <1>1, <1>3, <1>7, <1>8, <1>9, RowStep

(* A commit seals what the receipt says: the plan it executes was bound to *)
(* the receipt, and the Run is still the one the command was frozen with.  *)
LEMMA CommitKeeps ==
    ASSUME ChangeIInv, NEW c \in Callers, NEW k, k = CommandOf(c), At(c, "execute"),
           cand[k] = "prepared", expected[k] = Checkpoint, Commit(c),
           UNCHANGED <<advance, session, taskVersion, incidents, expected, op, creator, receipt,
                       plan, checkout, snapshot>>
    PROVE  ChangeIInv'
<1>0. k \in Commands
  BY CommandIsOne
<1>1. RowFits(k) /\ plan[k] # "none"
  BY <1>0 DEF ChangeIInv, CallerFits
<1>2. op[k] = "succeeded"
  BY <1>0, <1>1 DEF ChangeIInv, ChangeShapes, RowFits, OperationFits
<1>3. snapshot[k] = receipt[k] /\ receipt[k] \in Content
  BY <1>0, <1>1, <1>2 DEF ChangeIInv, ChangeShapes, RowFits, OperationFits, PlanFits
<1>4. runVersion \in Nat \ {0} /\ taskVersion \in Nat \ {0}
  BY RunVersionIsNat DEF ChangeIInv, SessionShapes
<1> DEFINE new == [run |-> runVersion, task |-> taskVersion, content |-> snapshot[k]]
<1>5. new \in [run : Nat, task : Nat, content : Content] /\ new # None
  <2>1. new \in [run : Nat, task : Nat, content : Content]
    BY <1>3, <1>4
  <2> QED
    BY <2>1, CandidateAssumption
<1>6. cand' = [cand EXCEPT ![k] = "committed"] /\ child' = [child EXCEPT ![k] = new]
      /\ runVersion' = runVersion + 1
  BY DEF Commit
<1>7. ChangeShapes' /\ \A l \in Commands \ {k} : SameRow(l)
  BY <1>0, <1>5, <1>6 DEF ChangeIInv, ChangeShapes, SameRow
<1>8. cand'[k] = "committed" /\ child'[k] = new
  BY <1>0, <1>6 DEF ChangeIInv, ChangeShapes
<1>9. RowMoves(k) /\ RunMoves(k)
  BY <1>6, <1>8 DEF RowMoves, RunMoves
<1>10. RowFits(k)'
  <2>1. OperationFits(k)'
    BY <1>1, <1>2, <1>8 DEF RowFits, OperationFits
  <2>2. expected[k] = [run |-> runVersion, task |-> taskVersion]
    BY DEF Checkpoint
  <2>3. PlanFits(k)'
    BY <1>1, <1>3, <1>4, <1>6, <1>8, <2>2 DEF RowFits, PlanFits
  <2>4. expected[k] # None
    <3>1. expected[k] \in [run : Nat, task : Nat]
      BY <1>4, <2>2
    <3> QED
      BY <3>1, CandidateAssumption
  <2>5. ChildFits(k)'
    BY <1>3, <1>4, <1>5, <1>6, <1>8, <2>2, <2>4 DEF ChildFits
  <2> QED
    BY <2>1, <2>3, <2>5 DEF RowFits
<1>11. Done(c) /\ \E o : Release(o)
  BY DEF Commit
<1>12. CallerShapes' /\ Alone(c) /\ CallerFits(c)'
  BY <1>11, LeaveMoves
<1>13. slot' \in Callers \cup {None} /\ fresh' \subseteq Callers
  BY <1>11, ReleaseMoves
<1>14. SessionShapes' /\ taskVersion <= taskVersion'
  BY <1>12, <1>13 DEF ChangeIInv, SessionShapes, CallerShapes, CallerShape
<1> QED
  BY <1>0, <1>7, <1>9, <1>10, <1>12, <1>14, StepKeepsChanges DEF Alone

LEMMA CommitRevisionCandidateContinuationKeeps ==
    ASSUME ChangeIInv, NEW c \in Callers, CommitRevisionCandidateContinuation(c)
    PROVE  ChangeIInv'
<1> DEFINE k == CommandOf(c)
<1>1. UNCHANGED <<advance, session, taskVersion, incidents, expected, op, creator, receipt, plan,
                  checkout, snapshot>>
  BY DEF CommitRevisionCandidateContinuation, files
<1>2. \/ At(c, "execute") /\ cand[k] = "prepared" /\ expected[k] = Checkpoint /\ Commit(c)
      \/ (Done(c) \/ Fail(c)) /\ UNCHANGED <<cand, child, runVersion, leases>>
  BY DEF CommitRevisionCandidateContinuation
<1>3. ASSUME Done(c) \/ Fail(c), UNCHANGED <<cand, child, runVersion, leases>>
      PROVE  ChangeIInv'
  <2>1. CallerShapes' /\ Alone(c) /\ CallerFits(c)'
    BY <1>3, LeaveMoves
  <2>2. SessionShapes' /\ checkout' \in [Commands -> Content] /\ taskVersion <= taskVersion'
    BY <1>1, <1>3, <2>1 DEF leases, ChangeIInv, SessionShapes, ChangeShapes, CallerShapes,
                            CallerShape
  <2> QED
    BY <1>1, <1>3, <2>1, <2>2, RowsStay
<1> QED
  BY <1>1, <1>2, <1>3, CommitKeeps

LEMMA ExpireRevisionCandidateKeeps ==
    ASSUME ChangeIInv, NEW c \in Callers, ExpireRevisionCandidate(c)
    PROVE  ChangeIInv'
<1> DEFINE k == CommandOf(c)
<1>0. k \in Commands
  BY CommandIsOne
<1>1. UNCHANGED <<advance, session, runVersion, taskVersion, incidents, expected, op, creator,
                  receipt, plan, checkout, snapshot, child>>
  BY DEF ExpireRevisionCandidate, env, files
<1>2. \/ cand' = [cand EXCEPT ![k] = "discarded"] /\ cand[k] = "prepared"
      \/ cand' = cand
  BY DEF ExpireRevisionCandidate
<1>3. ChangeShapes' /\ \A l \in Commands \ {k} : cand'[l] = cand[l]
  BY <1>1, <1>2 DEF ChangeIInv, ChangeShapes
<1>4. \/ cand'[k] = "discarded" /\ cand[k] = "prepared"
      \/ cand'[k] = cand[k]
  BY <1>0, <1>2 DEF ChangeIInv, ChangeShapes
<1>5. RowFits(k) /\ op[k] \in {"absent", "prepared", "running", "unknown", "succeeded"}
  BY <1>0 DEF ChangeIInv, ChangeShapes
<1>6. OperationFits(k)' /\ PlanFits(k)' /\ RowMoves(k)
  BY <1>1, <1>4, <1>5 DEF RowFits, OperationFits, PlanFits, RowMoves
<1>7. cand'[k] = "committed" <=> cand[k] = "committed"
  BY <1>4
<1>8. CallerShapes' /\ Alone(c) /\ CallerFits(c)'
  BY LeaveMoves DEF ExpireRevisionCandidate
<1>9. slot' \in Callers \cup {None} /\ fresh' \subseteq Callers
  <2>1. (\E o : Release(o)) \/ UNCHANGED leases
    BY DEF ExpireRevisionCandidate
  <2> QED
    BY <2>1, ReleaseMoves DEF ChangeIInv, SessionShapes, leases
<1> QED
  BY <1>1, <1>3, <1>6, <1>7, <1>8, <1>9, RowStep

-----------------------------------------------------------------------------
(* The job and what happens around it.                                     *)

LEMMA EndJobKeeps ==
    ASSUME ChangeIInv, EndJob
    PROVE  ChangeIInv'
<1>0. RoundWorker \in Callers
  BY DEF Callers
<1>1. UNCHANGED <<runVersion, taskVersion, incidents, expected, cand, op, creator, receipt, plan,
                  slot, fresh, checkout, snapshot, child>>
  BY DEF EndJob, HandleDurableJob, DeliverAdvance, env, rows, leases, files
<1>2. CallerShapes' /\ Alone(RoundWorker) /\ CallerFits(RoundWorker)'
  <2>1. CASE Done(RoundWorker)
    BY <1>0, <2>1, LeaveMoves
  <2>2. CASE caller' = [caller EXCEPT ![RoundWorker] = AtRest]
    <3>1. AtRest \in CallerShape
      BY DEF AtRest, CallerShape, CallerPhase
    <3>2. CallerShapes' /\ Alone(RoundWorker) /\ caller'[RoundWorker] = AtRest
      BY <1>0, <2>2, <3>1 DEF ChangeIInv, SessionShapes, CallerShapes, CallerShape, Alone
    <3> QED
      BY <3>2 DEF CallerFits, At, AtRest
  <2> QED
    BY <2>1, <2>2 DEF EndJob, HandleDurableJob, DeliverAdvance
<1>3. advance' \in {advance, "succeeded"} /\ session' \in {session, "needs_human"}
  BY DEF EndJob, HandleDurableJob, DeliverAdvance
<1>4. SessionShapes' /\ checkout' \in [Commands -> Content] /\ taskVersion <= taskVersion'
  BY <1>1, <1>2, <1>3 DEF ChangeIInv, SessionShapes, ChangeShapes, CallerShapes, CallerShape
<1> QED
  BY <1>0, <1>1, <1>2, <1>4, RowsStay

(* Who finds the loss goes on to the recovery, or does not move.           *)
LEMMA FindLossKeeps ==
    ASSUME ChangeIInv, NEW c \in {RoundWorker} \cup Reconcilers, FindLoss(c)
    PROVE  ChangeIInv'
<1>0. c \in Callers
  BY DEF Callers
<1>1. UNCHANGED <<session, runVersion, taskVersion, incidents, expected, cand, op, creator, receipt,
                  plan, slot, fresh, checkout, snapshot, child>>
  BY DEF FindLoss, env, rows, leases, files
<1>2. CallerShapes' /\ Alone(c) /\ CallerFits(c)'
  <2>1. CASE GoOn(c, "recover")
    <3>1. "recover" \in CallerPhase
      BY DEF CallerPhase
    <3> QED
      BY <1>0, <2>1, <3>1, GoOnMoves DEF CallerFits, At
  <2>2. CASE UNCHANGED caller
    BY <1>0, <1>1, <2>2 DEF ChangeIInv, SessionShapes, CallerShapes, CallerShape, Alone, CallerFits, At
  <2> QED
    BY <2>1, <2>2 DEF FindLoss
<1>3. advance' = "in_doubt"
  BY DEF FindLoss
<1>4. SessionShapes' /\ checkout' \in [Commands -> Content] /\ taskVersion <= taskVersion'
  BY <1>1, <1>2, <1>3 DEF ChangeIInv, SessionShapes, ChangeShapes, CallerShapes, CallerShape
<1> QED
  BY <1>0, <1>1, <1>2, <1>4, RowsStay

LEMMA CrashKeeps ==
    ASSUME ChangeIInv, Crash
    PROVE  ChangeIInv'
<1>0. RoundWorker \in Callers
  BY DEF Callers
<1>1. UNCHANGED <<session, runVersion, taskVersion, expected, cand, op, creator, receipt, plan,
                  slot, fresh, checkout, snapshot, child>>
  BY DEF Crash, rows, leases, files
<1>2. AtRest \in CallerShape
  BY DEF AtRest, CallerShape, CallerPhase
<1>3. CallerShapes' /\ Alone(RoundWorker) /\ caller'[RoundWorker] = AtRest
  BY <1>0, <1>2 DEF Crash, ChangeIInv, SessionShapes, CallerShapes, CallerShape, Alone
<1>4. CallerFits(RoundWorker)'
  BY <1>3 DEF CallerFits, At, AtRest
<1>5. incidents' = incidents + 1 /\ incidents < MaxIncidents /\ advance' \in {advance, "in_doubt"}
  BY DEF Crash
<1>6. SessionShapes' /\ checkout' \in [Commands -> Content] /\ taskVersion <= taskVersion'
  BY <1>1, <1>3, <1>5, CandidateAssumption
     DEF ChangeIInv, SessionShapes, ChangeShapes, CallerShapes, CallerShape
<1> QED
  BY <1>0, <1>1, <1>3, <1>4, <1>6, RowsStay

LEMMA SurroundingsKeep ==
    ASSUME ChangeIInv, LeaseExpires \/ OtherWrite
    PROVE  ChangeIInv'
<1>0. PICK c \in Callers : TRUE
  BY DEF Callers
<1>1. UNCHANGED <<caller, advance, session, runVersion, expected, cand, op, creator, receipt, plan,
                  checkout, snapshot, child>>
  BY DEF LeaseExpires, OtherWrite, env, rows, files
<1>2. Alone(c) /\ CallerFits(c)'
  BY <1>1 DEF ChangeIInv, Alone, CallerFits, At
<1>3. slot' \in Callers \cup {None} /\ fresh' \subseteq Callers
  BY DEF LeaseExpires, OtherWrite, leases, ChangeIInv, SessionShapes
<1>4. \/ UNCHANGED <<taskVersion, incidents>>
      \/ taskVersion' = taskVersion + 1 /\ incidents' = incidents + 1 /\ incidents < MaxIncidents
  BY DEF LeaseExpires, OtherWrite, env
<1>5. /\ taskVersion' \in Nat \ {0} /\ incidents' \in 0 .. MaxIncidents
      /\ taskVersion' <= 1 + incidents' /\ taskVersion <= taskVersion'
  BY <1>4, CandidateAssumption DEF ChangeIInv, SessionShapes
<1>6. SessionShapes' /\ checkout' \in [Commands -> Content]
  BY <1>1, <1>3, <1>5 DEF ChangeIInv, SessionShapes, ChangeShapes
<1> QED
  BY <1>1, <1>2, <1>5, <1>6, RowsStay

LEMMA PlanExpiresKeeps ==
    ASSUME ChangeIInv, PlanExpires
    PROVE  ChangeIInv'
<1>0. PICK c \in Callers : TRUE
  BY DEF Callers
<1>1. UNCHANGED <<caller, advance, session, runVersion, taskVersion, incidents, expected, cand, op,
                  creator, receipt, slot, fresh, checkout, snapshot, child>>
  BY DEF PlanExpires, env, leases, files
<1>2. PICK k \in Commands : plan[k] = "frozen" /\ plan' = [plan EXCEPT ![k] = "late"]
  BY DEF PlanExpires
<1>3. ChangeShapes' /\ \A l \in Commands \ {k} : SameRow(l)
  BY <1>1, <1>2 DEF ChangeIInv, ChangeShapes, SameRow
<1>4. plan'[k] = "late"
  BY <1>2 DEF ChangeIInv, ChangeShapes
<1>5. RowFits(k)' /\ RowMoves(k) /\ RunMoves(k)
  <2>1. RowFits(k)
    BY DEF ChangeIInv
  <2>2. OperationFits(k)' /\ ChildFits(k)'
    BY <1>1, <2>1 DEF RowFits, OperationFits, ChildFits
  <2>3. PlanFits(k)'
    BY <1>1, <1>2, <1>4, <2>1 DEF RowFits, PlanFits
  <2> QED
    BY <1>1, <1>2, <1>4, <2>2, <2>3 DEF RowFits, RowMoves, RunMoves
<1>6. CallerFits(c)'
  <2>1. CallerFits(c) /\ CommandOf(c) \in Commands
    BY CommandIsOne DEF ChangeIInv
  <2>2. plan[CommandOf(c)] # "none" => plan'[CommandOf(c)] # "none"
    BY <1>2, <2>1 DEF ChangeIInv, ChangeShapes
  <2> QED
    BY <1>1, <2>1, <2>2 DEF CallerFits, At
<1>7. SessionShapes' /\ taskVersion <= taskVersion'
  BY <1>1 DEF ChangeIInv, SessionShapes
<1> QED
  BY <1>1, <1>3, <1>5, <1>6, <1>7, StepKeepsChanges

-----------------------------------------------------------------------------
LEMMA ChangeInitInvariant == ASSUME ChangeInit PROVE ChangeIInv
<1>1. AtRest \in CallerShape
  BY DEF AtRest, CallerShape, CallerPhase
<1>2. ChangeShapes /\ SessionShapes
  BY <1>1, CandidateAssumption
     DEF ChangeInit, ChangeShapes, SessionShapes, CallerShape, Content
<1>3. \A k \in Commands : RowFits(k)
  BY DEF ChangeInit, RowFits, OperationFits, PlanFits, ChildFits
<1>4. \A c \in Callers : CallerFits(c)
  BY DEF ChangeInit, CallerFits, At, AtRest
<1>5. OneOpenCandidate /\ Committed = {}
  BY DEF ChangeInit, OneOpenCandidate, Committed
<1>6. CommitsAreCounted
  BY <1>5, FS_EmptySet DEF ChangeInit, CommitsAreCounted
<1> QED
  BY <1>2, <1>3, <1>4, <1>5, <1>6 DEF ChangeIInv

LEMMA ChangeNextInvariant == ASSUME ChangeIInv, ChangeNext PROVE ChangeIInv'
<1>1. ASSUME NEW c \in Callers, Step(c)
      PROVE  ChangeIInv'
  BY <1>1, BeginKeeps, PlanTaskChangeKeeps, AcquireKeeps, CreateRevisionCandidateKeeps,
     CreateChangeOperationKeeps, StartChangeOperationKeeps, ApplyKeeps, ApplyReturnsKeeps,
     MarkChangeOperationUnknownKeeps, FinalizeChangeOperationKeeps, FreezeCandidatePlanKeeps,
     CreateAndBindRevisionCandidatePlanKeeps, CommitRevisionCandidateContinuationKeeps,
     ExpireRevisionCandidateKeeps
     DEF Step
<1> QED
  BY <1>1, HeartbeatKeeps, FindLossKeeps, EndJobKeeps, CrashKeeps, SurroundingsKeep, PlanExpiresKeeps
     DEF ChangeNext

LEMMA ChangeStutterInvariant == ASSUME ChangeIInv, UNCHANGED changeVars PROVE ChangeIInv'
<1>1. PICK c \in Callers : TRUE
  BY DEF Callers
<1>2. SessionShapes' /\ checkout' \in [Commands -> Content] /\ taskVersion <= taskVersion'
  BY DEF changeVars, ChangeIInv, SessionShapes, ChangeShapes
<1>3. Alone(c) /\ CallerFits(c)'
  BY DEF changeVars, ChangeIInv, Alone, CallerFits, At
<1> QED
  BY <1>2, <1>3, RowsStay DEF changeVars

LEMMA ChangeInvariant == ChangeSpec => []ChangeIInv
<1>1. ChangeInit => ChangeIInv
  BY ChangeInitInvariant
<1>2. ChangeIInv /\ [ChangeNext]_changeVars => ChangeIInv'
  BY ChangeNextInvariant, ChangeStutterInvariant
<1> QED
  BY <1>1, <1>2, PTL DEF ChangeSpec

(* Every row and every caller keeps its shape, a candidate is finished     *)
(* exactly when its operation is and its receipt is there, and the task    *)
(* has one open candidate.                                                 *)
THEOREM ChangeTypes == ChangeSpec => []ChangeTypeOK
<1>1. ChangeIInv => ChangeTypeOK
  <2> SUFFICES ASSUME ChangeIInv
               PROVE  ChangeTypeOK
    OBVIOUS
  <2>1. /\ runVersion \in 1 .. 1 + Cardinality(Commands)
        /\ taskVersion \in 1 .. 1 + MaxIncidents
    <3>1. runVersion \in 1 .. 1 + Cardinality(Commands)
      BY RunVersionIsNat DEF ChangeIInv, CommitsAreCounted
    <3>2. taskVersion \in 1 .. 1 + MaxIncidents
      BY CandidateAssumption DEF ChangeIInv, SessionShapes
    <3> QED
      BY <3>1, <3>2
  <2>2. ASSUME NEW k \in Commands
        PROVE  /\ expected[k] \in {None} \cup [run : 1 .. runVersion, task : 1 .. taskVersion]
               /\ cand[k] \in Finalized <=> op[k] = "succeeded"
               /\ cand[k] \in Finalized <=> receipt[k] # None
               /\ plan[k] # "none" => cand[k] \in Finalized \ {"no_op"}
               /\ child[k] # None <=> cand[k] = "committed"
    <3>1. RowFits(k)
      BY DEF ChangeIInv
    <3>2. op[k] \in {"absent", "prepared", "running", "unknown", "succeeded"}
      BY DEF ChangeIInv, ChangeShapes
    <3>3. cand[k] \in Finalized <=> op[k] = "succeeded"
      BY <3>1, <3>2 DEF RowFits, OperationFits
    <3>4. expected[k] \in {None} \cup [run : Nat, task : Nat]
      BY DEF ChangeIInv, ChangeShapes
    <3>5. expected[k] \in {None} \cup [run : 1 .. runVersion, task : 1 .. taskVersion]
      BY <3>1, <3>4 DEF RowFits, PlanFits
    <3> QED
      BY <3>1, <3>3, <3>5 DEF RowFits, OperationFits, PlanFits, ChildFits
  <2> QED
    BY <2>1, <2>2 DEF ChangeIInv, ChangeTypeOK, ChangeShapes, SessionShapes, OneOpenCandidate
<1> QED
  BY <1>1, ChangeInvariant, PTL

(* What a child Run starts from is what the receipt recorded, whoever      *)
(* wrote the checkout after that.                                          *)
THEOREM ChangeSealedMatchesReceipt == ChangeSpec => []SealedMatchesReceipt
<1>1. ChangeIInv => SealedMatchesReceipt
  BY DEF ChangeIInv, SealedMatchesReceipt, RowFits, PlanFits, ChildFits
<1> QED
  BY <1>1, ChangeInvariant, PTL

(* Of any number of changes planned for one state of the Run at most one   *)
(* gets a child Run.                                                       *)
THEOREM ChangeOneChildPerCheckpoint == ChangeSpec => []OneChildPerCheckpoint
<1>1. ChangeIInv => OneChildPerCheckpoint
  BY DEF ChangeIInv, OneChildPerCheckpoint, RowFits, ChildFits, CommitsAreCounted, Committed
<1> QED
  BY <1>1, ChangeInvariant, PTL
=============================================================================
