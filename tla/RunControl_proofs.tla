------------------------- MODULE RunControl_proofs --------------------------
(***************************************************************************)
(* Proofs about controls and continuations of one Run, for any stages,     *)
(* controls, continuations and faults: what is left of the worker's plan   *)
(* says what it may still do to the Run.                                   *)
(***************************************************************************)
EXTENDS RunControl, FiniteSetTheorems, TLAPS

-----------------------------------------------------------------------------
(* What a plan is made of.                                                 *)

Plain == {"read", "load", "execute", "pause_run", "inputs", "start_execution", "controls",
          "begin", "run_attempt", "decide", "complete", "close_execution", "settle"}
MoveTarget == {"running", "resume_requested", "pausing", "paused", "canceled"}
FinishTarget == FinishedRun \cup {"waiting_continuation", "in_doubt"}
Outcome == {"acknowledged", "failed", "reconcile_required"}
Delivered == {"succeeded", "failed", "interrupted", "canceled", "in_doubt"}

Op == {<<k>> : k \in Plain}
      \cup {<<"move", r>> : r \in MoveTarget}
      \cup {<<"finish", r>> : r \in FinishTarget}
      \cup {<<"finish_attempts", r>> : r \in FinishedRun}
      \cup {<<"attempt", a, b>> : a \in {"queued", "running", "in_doubt"},
                                  b \in {"running", "in_doubt"} \cup TerminalAttempt}
      \cup {<<"control", c, o>> : c \in Controls, o \in Outcome}
      \cup {<<"execution", e>> : e \in {"completed", "failed", "canceled"}}
      \cup {<<"enqueue", j>> : j \in Jobs}
      \cup {<<"deliver", d>> : d \in Delivered \cup {"none"}}
      \cup {<<"plan_attempt", s>> : s \in Stages}
      \cup {<<"boundary_pause", c>> : c \in Controls}
      \cup {<<"after", a>> : a \in TerminalAttempt}

StageOps == {"load", "execute", "attempt", "boundary_pause", "pause_run", "execution", "after"}
CoordinatorOps == {"inputs", "start_execution", "controls", "begin", "run_attempt", "decide",
                   "plan_attempt", "complete", "close_execution"}

-----------------------------------------------------------------------------
(* The inductive invariant.                                                *)

\* Jobs that may be: of a committed plan, and no further round than faults.
Known(j) == j \in Jobs /\ j[2] <= Committed /\ j[4] <= faults

WorkerFields == {"phase", "job", "plan", "seen", "fresh", "held", "pollFailed"}

RowShapes ==
    /\ run \in RunStatus
    /\ draft \subseteq Stages
    /\ plan \in [Plans -> SUBSET Stages]
    /\ execution \in [Plans -> ExecutionState]
    /\ runAttempt \in [Plans -> {"none", "queued", "running"} \cup FinishedRun \cup {"failed"}]
    /\ attempt \in [Plans -> [Stages -> AttemptStatus]]
    /\ latest \in [Stages -> Plans]
    /\ control \in [Controls -> ControlStatus]
    /\ base \in [Controls -> Plans]
    /\ recent \in Seq(Controls)
    /\ job \in [Jobs -> JobState]
    /\ queue \in Seq(Jobs)
    /\ faults \in 0 .. MaxFaults

WorkerShapes ==
    /\ DOMAIN worker = WorkerFields
    /\ worker.plan \in Seq(Op)
    /\ worker.seen \in RunStatus

\* Continuations are numbered in the order of their commits.
PlansFit ==
    /\ Committed \in Plans
    /\ plan[0] = Stages
    /\ \A p \in Plans \ {0} : plan[p] # {} <=> p <= Committed
    /\ \A p \in Plans : execution[p] # "absent" => p <= Committed
    /\ draft # {} => Committed < MaxContinuations
    /\ \A c \in Controls : Action[c] = "terminate" => base[c] <= Committed

QueueFits ==
    /\ \A i, k \in 1 .. Len(queue) : queue[i] = queue[k] => i = k
    /\ \A j \in Jobs : job[j] = "queued" <=> \E i \in 1 .. Len(queue) : queue[i] = j

RecentFits ==
    /\ \A i, k \in 1 .. Len(recent) : recent[i] = recent[k] => i = k
    /\ \A c \in Controls : control[c] \in Pending <=> \E i \in 1 .. Len(recent) : recent[i] = c

JobsFit ==
    \A j \in Jobs : /\ job[j] # "absent" => Known(j)
                    /\ job[j] = "lapsed" => j[4] < faults

\* The worker, and the control its monitor holds.
WorkerFits ==
    /\ worker.phase \in {"idle", "look", "handle", "recover"}
    /\ worker.job \in Jobs \cup {NoJob}
    /\ worker.phase \in {"idle", "look"} => worker.plan = <<>> /\ worker.held = NoControl
    /\ worker.phase \in {"handle", "recover"} => Known(worker.job)
    /\ worker.phase = "handle" => job[worker.job] = "running"
    /\ worker.held # NoControl =>
          worker.held \in Controls /\ control[worker.held] # "absent" /\ Addresses(worker.held)

-----------------------------------------------------------------------------
(* What is left of the worker's plan.                                      *)

\* An acknowledgement of c is true of what was done.
Done(c) ==
    CASE Action[c] = "terminate"    -> run = "canceled" \/ Committed > base[c]
      [] Action[c] = "cancel_stage" -> attempt[base[c]][Target[c]] \in TerminalAttempt
      [] OTHER                      -> TRUE

Acknowledges(op) == op[1] = "control" /\ op[3] = "acknowledged"
Cancels(op) == op \in {<<"finish", "canceled">>, <<"move", "canceled">>}
\* Operation op, if it is not refused, makes an acknowledgement of c true.
Does(op, c) ==
    \/ Action[c] = "terminate" /\ Cancels(op)
    \/ Action[c] = "cancel_stage" /\ op[1] = "attempt" /\ op[3] \in TerminalAttempt
          /\ Target[c] = S /\ base[c] = P

\* Operations that do not move a Run that is paused or canceled, nor lead to
\* one that does.
Harmless(op) ==
    \/ op[1] \in {"read", "finish_attempts", "attempt", "control", "execution", "enqueue",
                  "deliver", "settle", "after"}
    \/ op[1] = "finish" /\ op[2] # "canceled"
Halts(op) == Cancels(op) \/ op = <<"move", "paused">>

Closes(op) == op[1] \in {"finish_attempts", "close_execution", "deliver"}
Begun == P = 0 \/ execution[P] \in {"running", "completed"}
AllPassed == Begun /\ \A s \in plan[P] : Attempt(s) = "pass"
Succeeds(op) == op = <<"finish", "succeeded">>

Enqueues(op) == op[1] = "enqueue" => Known(op[2])
OfStage(op) == op[1] \in StageOps => worker.job \in StageJobs
OfCoordinator(op) == op[1] \in CoordinatorOps \/ Succeeds(op) => worker.job \in Coordinators
InPhase(op) ==
    /\ op[1] = "deliver" /\ op[2] = "none" => worker.phase = "recover"
    /\ op[1] \in {"control", "boundary_pause"} => control[op[2]] # "absent"
    /\ op[1] = "boundary_pause" => Action[op[2]] = "pause"
    /\ worker.phase = "recover" => Harmless(op)

Left == worker.plan
Places == 1 .. Len(Left)

OpsFit == \A i \in Places :
    /\ Enqueues(Left[i]) /\ OfStage(Left[i]) /\ OfCoordinator(Left[i]) /\ InPhase(Left[i])
AcksFit == \A i \in Places : Acknowledges(Left[i]) =>
    Done(Left[i][2]) \/ \E k \in 1 .. i - 1 : Does(Left[k], Left[i][2])
\* Once the Run is paused or canceled, and once the worker has to pause it,
\* nothing follows that moves it.
HaltsFit == \A i \in Places : Halts(Left[i]) \/ Left[i] = <<"pause_run">> =>
    \A k \in i + 1 .. Len(Left) : Harmless(Left[k])
\* The Run is read before it is closed, and what was read of it is true or
\* somebody reopened it since.
ReadsFit ==
    /\ \A i \in Places : Left[i][1] = "finish" /\ i > 1 => Left[i - 1] = <<"read">>
    /\ Left # <<>> /\ Left[1] = <<"finish", "canceled">> /\ worker.seen = "canceled" =>
          \A i \in Places : Acknowledges(Left[i]) /\ Action[Left[i][2]] = "terminate" =>
              Done(Left[i][2])
SuccessFits == \A i \in Places :
    /\ Left[i][1] \in {"decide", "complete"} =>
          /\ Begun \/ \E k \in 1 .. i - 1 : Left[k] = <<"start_execution">>
          /\ \A k \in i + 1 .. Len(Left) : Closes(Left[k])
    /\ Succeeds(Left[i]) =>
          /\ AllPassed
          /\ \A k \in 1 .. i - 1 : Left[k] = <<"read">>
          /\ \A k \in i + 1 .. Len(Left) : Closes(Left[k])
PlanFits == OpsFit /\ AcksFit /\ HaltsFit /\ ReadsFit /\ SuccessFits

\* Where the Run stands still, nobody is about to move it.
RestFits ==
    run \in {"paused", "canceled"} =>
        \/ worker.phase = "idle"
        \/ worker.phase = "look" /\ worker.seen = run
        \/ run = "paused" /\ worker.phase = "handle" /\ worker.job \in Coordinators /\ P > 0
        \/ worker.phase \in {"handle", "recover"} /\ \A i \in Places : Harmless(Left[i])

SucceededFits ==
    run = "succeeded" =>
        \/ worker.phase = "idle"
        \/ worker.phase = "look" /\ worker.seen = run
        \/ worker.phase \in {"handle", "recover"} /\ \A i \in Places : Closes(Left[i])

IInv == /\ RowShapes /\ WorkerShapes
        /\ PlansFit /\ QueueFits /\ RecentFits /\ JobsFit /\ WorkerFits /\ PlanFits
        /\ RestFits /\ SucceededFits /\ AcknowledgedIsDone /\ SucceededMeansPassed

-----------------------------------------------------------------------------
(* Places in a sequence.                                                   *)

(* A non-empty family of subsets of a finite set has a smallest member.    *)
LEMMA SmallestSubset ==
    ASSUME NEW X, IsFiniteSet(X), NEW Family \in SUBSET (SUBSET X), Family # {}
    PROVE  \E T \in Family : \A U \in Family : U \subseteq T => U = T
<1>1. IsWellFoundedOn(StrictSubsetOrdering(X), SUBSET X)
  <2>1. IsWellFoundedOn(StrictSubsetOrdering(X), FiniteSubsetsOf(X))
    BY FS_StrictSubsetOrderingWellFounded, Zenon
  <2>2. FiniteSubsetsOf(X) = SUBSET X
    BY FS_FiniteSubsetsOfFinite, Zenon
  <2> QED
    BY <2>1, <2>2
<1>2. PICK T \in Family : \A U \in Family : <<U, T>> \notin StrictSubsetOrdering(X)
  BY <1>1, WFMin
<1> QED
  BY <1>2 DEF StrictSubsetOrdering

LEMMA LeastMember ==
    ASSUME NEW I, IsFiniteSet(I), \A k \in I : k \in Int, I # {}
    PROVE  \E m \in I : \A k \in I : m =< k
<1> DEFINE UpTo(m) == {k \in I : k =< m}
           Family == {UpTo(m) : m \in I}
<1>1. Family \in SUBSET (SUBSET I) /\ Family # {}
  OBVIOUS
<1>2. PICK T \in Family : \A U \in Family : U \subseteq T => U = T
  <2> HIDE DEF Family
  <2> QED
    BY <1>1, SmallestSubset
<1>3. PICK m \in I : T = UpTo(m)
  BY <1>2
<1>4. \A k \in I : m =< k
  <2> SUFFICES ASSUME NEW k \in I, ~(m =< k)
               PROVE  FALSE
    OBVIOUS
  <2>1. UpTo(k) \subseteq UpTo(m)
    OBVIOUS
  <2>2. UpTo(k) = UpTo(m)
    BY <1>2, <1>3, <2>1
  <2>3. m \in UpTo(m) /\ m \notin UpTo(k)
    OBVIOUS
  <2> QED
    BY <2>2, <2>3
<1> QED
  BY <1>4

(* The first place that is asked for is one of those asked for.            *)
LEMMA MinIsMember ==
    ASSUME NEW n \in Nat, NEW I \in SUBSET (1 .. n), I # {}
    PROVE  Min(I) \in I
<1>1. IsFiniteSet(I)
  <2>1. IsFiniteSet(1 .. n)
    BY FS_Interval
  <2> QED
    BY <2>1, FS_Subset
<1>2. \A k \in I : k \in Int
  OBVIOUS
<1>3. \E m \in I : \A k \in I : m =< k
  BY <1>1, <1>2, LeastMember
<1> QED
  BY <1>3 DEF Min

(* A sequence without one of its places.                                   *)
LEMMA RemoveAtFacts ==
    ASSUME NEW X, NEW q \in Seq(X), NEW i \in 1 .. Len(q)
    PROVE  /\ RemoveAt(q, i) \in Seq(X)
           /\ Len(RemoveAt(q, i)) = Len(q) - 1
           /\ \A k \in 1 .. Len(q) - 1 :
                 RemoveAt(q, i)[k] = IF k < i THEN q[k] ELSE q[k + 1]
<1> DEFINE a == SubSeq(q, 1, i - 1)
           b == SubSeq(q, i + 1, Len(q))
<1>1. a \in Seq(X) /\ Len(a) = i - 1 /\ \A k \in 1 .. i - 1 : a[k] = q[k]
  OBVIOUS
<1>2. b \in Seq(X) /\ Len(b) = Len(q) - i /\ \A k \in 1 .. Len(q) - i : b[k] = q[k + i]
  OBVIOUS
<1>3. RemoveAt(q, i) = a \o b
  BY DEF RemoveAt
<1> HIDE DEF a, b
<1>4. a \o b \in Seq(X) /\ Len(a \o b) = Len(q) - 1
  <2>0. a \in Seq(X) /\ b \in Seq(X)
    BY <1>1, <1>2
  <2>1. a \o b \in Seq(X) /\ Len(a \o b) = Len(a) + Len(b)
    BY <2>0
  <2> QED
    BY <1>1, <1>2, <2>1
<1>5. \A k \in 1 .. Len(q) - 1 : (a \o b)[k] = IF k < i THEN q[k] ELSE q[k + 1]
  <2> SUFFICES ASSUME NEW k \in 1 .. Len(q) - 1
               PROVE  (a \o b)[k] = IF k < i THEN q[k] ELSE q[k + 1]
    OBVIOUS
  <2>1. CASE k < i
    BY <1>1, <1>2, <2>1
  <2>2. CASE ~(k < i)
    <3>1. k - (i - 1) \in 1 .. Len(q) - i /\ (k - (i - 1)) + i = k + 1
      BY <2>2
    <3>2. (a \o b)[k] = b[k - (i - 1)]
      BY <1>1, <1>2, <2>2
    <3> QED
      BY <1>2, <2>2, <3>1, <3>2
  <2> QED
    BY <2>1, <2>2
<1> QED
  BY <1>3, <1>4, <1>5

(* If no element is there twice, exactly the removed one is gone.          *)
LEMMA RemoveAtRemoves ==
    ASSUME NEW X, NEW q \in Seq(X), NEW i \in 1 .. Len(q),
           \A m, k \in 1 .. Len(q) : q[m] = q[k] => m = k
    PROVE  LET r == RemoveAt(q, i)
           IN  /\ r \in Seq(X)
               /\ \A m, k \in 1 .. Len(r) : r[m] = r[k] => m = k
               /\ \A x : (\E k \in 1 .. Len(r) : r[k] = x) <=>
                            x # q[i] /\ \E k \in 1 .. Len(q) : q[k] = x
<1> DEFINE r == RemoveAt(q, i)
<1>1. /\ r \in Seq(X) /\ Len(r) = Len(q) - 1
      /\ \A k \in 1 .. Len(q) - 1 : r[k] = IF k < i THEN q[k] ELSE q[k + 1]
  BY RemoveAtFacts
<1> HIDE DEF r
<1>2. \A m, k \in 1 .. Len(r) : r[m] = r[k] => m = k
  <2> SUFFICES ASSUME NEW m \in 1 .. Len(r), NEW k \in 1 .. Len(r), r[m] = r[k]
               PROVE  m = k
    OBVIOUS
  <2> DEFINE Of(l) == IF l < i THEN l ELSE l + 1
  <2>1. Of(m) \in 1 .. Len(q) /\ Of(k) \in 1 .. Len(q)
    BY <1>1
  <2>2. r[m] = q[Of(m)] /\ r[k] = q[Of(k)]
    BY <1>1
  <2>3. Of(m) = Of(k)
    <3> HIDE DEF Of
    <3> QED
      BY <2>1, <2>2
  <2> QED
    BY <1>1, <2>3
<1>3. \A k \in 1 .. Len(r) : r[k] # q[i] /\ \E m \in 1 .. Len(q) : q[m] = r[k]
  <2> SUFFICES ASSUME NEW k \in 1 .. Len(r)
               PROVE  r[k] # q[i] /\ \E m \in 1 .. Len(q) : q[m] = r[k]
    OBVIOUS
  <2>1. k \in 1 .. Len(q) /\ k + 1 \in 1 .. Len(q)
    BY <1>1
  <2> QED
    BY <1>1, <2>1
<1>4. \A m \in 1 .. Len(q) : q[m] # q[i] => \E k \in 1 .. Len(r) : r[k] = q[m]
  <2> SUFFICES ASSUME NEW m \in 1 .. Len(q), q[m] # q[i]
               PROVE  \E k \in 1 .. Len(r) : r[k] = q[m]
    OBVIOUS
  <2>1. CASE m < i
    BY <1>1, <2>1
  <2>2. CASE m > i
    <3>1. m - 1 \in 1 .. Len(r) /\ ~(m - 1 < i) /\ (m - 1) + 1 = m
      BY <1>1, <2>2
    <3>2. r[m - 1] = q[m]
      BY <1>1, <3>1
    <3> QED
      BY <3>1, <3>2
  <2> QED
    BY <2>1, <2>2
<1>5. \A x : (\E k \in 1 .. Len(r) : r[k] = x) <=>
                x # q[i] /\ \E k \in 1 .. Len(q) : q[k] = x
  BY <1>3, <1>4
<1> QED
  BY <1>1, <1>2, <1>5 DEF r

-----------------------------------------------------------------------------
(* Operations of a plan.                                                   *)

LEMMA OpFacts ==
    ASSUME NEW op \in Op
    PROVE  /\ op[1] = "move" => op = <<"move", op[2]>> /\ op[2] \in MoveTarget
           /\ op[1] = "finish" => op = <<"finish", op[2]>> /\ op[2] \in FinishTarget
           /\ op[1] = "finish_attempts" => op[2] \in FinishedRun
           /\ op[1] = "attempt" => /\ op[2] \in {"queued", "running", "in_doubt"}
                                   /\ op[3] \in {"running", "in_doubt"} \cup TerminalAttempt
           /\ op[1] = "control" => op[2] \in Controls /\ op[3] \in Outcome
           /\ op[1] = "execution" => op[2] \in {"completed", "failed", "canceled"}
           /\ op[1] = "enqueue" => op[2] \in Jobs
           /\ op[1] = "deliver" => op[2] \in Delivered \cup {"none"}
           /\ op[1] = "plan_attempt" => op[2] \in Stages
           /\ op[1] = "boundary_pause" => op[2] \in Controls
           /\ op[1] = "after" => op[2] \in TerminalAttempt
           /\ op[1] = "read" => op = <<"read">>
           /\ op[1] = "pause_run" => op = <<"pause_run">>
           /\ op[1] = "start_execution" => op = <<"start_execution">>
BY DEF Op, Plain

LEMMA OpsAre ==
    /\ \A k \in Plain : <<k>> \in Op
    /\ \A r \in MoveTarget : <<"move", r>> \in Op
    /\ \A r \in FinishTarget : <<"finish", r>> \in Op
    /\ \A r \in FinishedRun : <<"finish_attempts", r>> \in Op
    /\ \A a \in {"queued", "running", "in_doubt"}, b \in {"running", "in_doubt"} \cup TerminalAttempt :
          <<"attempt", a, b>> \in Op
    /\ \A c \in Controls, o \in Outcome : <<"control", c, o>> \in Op
    /\ \A e \in {"completed", "failed", "canceled"} : <<"execution", e>> \in Op
    /\ \A j \in Jobs : <<"enqueue", j>> \in Op
    /\ \A d \in Delivered \cup {"none"} : <<"deliver", d>> \in Op
    /\ \A s \in Stages : <<"plan_attempt", s>> \in Op
    /\ \A c \in Controls : <<"boundary_pause", c>> \in Op
    /\ \A a \in TerminalAttempt : <<"after", a>> \in Op
BY DEF Op

(* What comes of a plan whose first operation is replaced.                 *)
LEMMA NewPlan ==
    ASSUME NEW X, NEW p \in Seq(X), p # <<>>, NEW ops \in Seq(X)
    PROVE  LET q == ops \o Tail(p)
           IN  /\ q \in Seq(X) /\ Len(q) = Len(ops) + Len(p) - 1
               /\ \A i \in 1 .. Len(ops) : q[i] = ops[i]
               /\ \A i \in Len(ops) + 1 .. Len(q) :
                     i - Len(ops) + 1 \in 2 .. Len(p) /\ q[i] = p[i - Len(ops) + 1]
<1> DEFINE t == Tail(p)
<1>1. /\ t \in Seq(X) /\ Len(t) = Len(p) - 1 /\ Len(p) \in Nat /\ Len(ops) \in Nat
      /\ \A i \in 1 .. Len(p) - 1 : t[i] = p[i + 1]
  OBVIOUS
<1> HIDE DEF t
<1>2. ops \o t \in Seq(X) /\ Len(ops \o t) = Len(ops) + Len(t)
  <2>1. t \in Seq(X)
    BY <1>1
  <2> QED
    BY <2>1
<1>3. \A i \in 1 .. Len(ops) : (ops \o t)[i] = ops[i]
  BY <1>1
<1>4. \A i \in Len(ops) + 1 .. Len(ops) + Len(t) : (ops \o t)[i] = t[i - Len(ops)]
  BY <1>1
<1>5. ASSUME NEW i \in Len(ops) + 1 .. Len(ops \o t)
      PROVE  i - Len(ops) + 1 \in 2 .. Len(p) /\ (ops \o t)[i] = p[i - Len(ops) + 1]
  <2>1. i - Len(ops) \in 1 .. Len(p) - 1
    BY <1>1, <1>2
  <2>2. t[i - Len(ops)] = p[i - Len(ops) + 1]
    BY <1>1, <2>1
  <2> QED
    BY <1>1, <1>2, <1>4, <2>1, <2>2
<1> QED
  BY <1>1, <1>2, <1>3, <1>5 DEF t

-----------------------------------------------------------------------------
(* A plan goes on: its first operation is done, replaced by others or       *)
(* neither, and what follows still fits.                                   *)

\* What nobody takes back.
Stays ==
    /\ \A j \in Jobs : Known(j) => Known(j)'
    /\ \A c \in Controls : control[c] # "absent" =>
          control'[c] # "absent" /\ base'[c] = base[c] /\ (Done(c) => Done(c)')

Fits(op) == Enqueues(op) /\ OfStage(op) /\ OfCoordinator(op) /\ InPhase(op)

\* A control the plan is yet to acknowledge.
Owed(c) == control[c] # "absent" /\ \E i \in Places : Acknowledges(Left[i]) /\ Left[i][2] = c

\* The first operation makes way for ops, if it does not refuse.
Replaced(ops) ==
    /\ worker'.plan = ops \o Tail(Left)
    /\ worker'.job = worker.job /\ worker'.phase = worker.phase
    /\ worker.job \in Coordinators /\ Begun => Begun'
    /\ Left[1] = <<"start_execution">> => Begun'
    /\ Left[1] = <<"read">> => /\ ops = <<>> /\ (AllPassed => AllPassed')
                               /\ worker'.seen = "canceled" => run' = "canceled"
    /\ \A c \in Controls : Does(Left[1], c) /\ Owed(c) => Done(c)'

LEMMA PlanGoesOn ==
    ASSUME PlanFits, Left \in Seq(Op), Left # <<>>, Stays, NEW ops \in Seq(Op), Replaced(ops),
           \A i \in 1 .. Len(ops) :
               /\ Fits(ops[i])' /\ ~Acknowledges(ops[i])
               /\ ops[i] # <<"pause_run">> /\ ops[i][1] \notin {"finish", "decide", "complete"}
               /\ Halts(ops[i]) => /\ \A k \in i + 1 .. Len(ops) : Harmless(ops[k])
                                   /\ \A k \in 2 .. Len(Left) : Harmless(Left[k])
    PROVE  PlanFits'
<1>1. PICK p : p = Left
  OBVIOUS
<1>2. PICK q : q = worker'.plan
  OBVIOUS
<1> DEFINE n == Len(ops)
<1>3. /\ q \in Seq(Op) /\ Len(q) = n + Len(p) - 1 /\ n \in Nat /\ Len(p) \in Nat /\ Len(p) > 0
      /\ \A i \in 1 .. n : q[i] = ops[i]
      /\ \A i \in n + 1 .. Len(q) : i - n + 1 \in 2 .. Len(p) /\ q[i] = p[i - n + 1]
      /\ p \in Seq(Op)
  <2>1. p \in Seq(Op) /\ p # <<>> /\ q = ops \o Tail(p)
    BY <1>1, <1>2 DEF Replaced
  <2>2. Len(p) \in Nat /\ Len(p) > 0 /\ n \in Nat
    BY <2>1
  <2> HIDE DEF n
  <2> QED
    BY <2>1, <2>2, NewPlan DEF n
<1>4. Left' = q /\ Places' = 1 .. Len(q) /\ Left = p /\ Places = 1 .. Len(p)
  BY <1>1, <1>2 DEF Left, Places
<1> HIDE DEF n
<1>5. ASSUME NEW op \in Op, Fits(op)
      PROVE  Fits(op)'
  <2>1. Enqueues(op)'
    BY <1>5, OpFacts DEF Fits, Enqueues, Stays
  <2>2. OfStage(op)' /\ OfCoordinator(op)'
    BY <1>5 DEF Fits, OfStage, OfCoordinator, Replaced, Succeeds
  <2>3. InPhase(op)'
    BY <1>5, OpFacts DEF Fits, InPhase, Replaced, Stays, Harmless
  <2> QED
    BY <2>1, <2>2, <2>3 DEF Fits
<1>6. \A i \in 1 .. Len(p) : p[i] \in Op
  BY <1>3
<1>m. PICK m \in Int : m = n - 1
  BY <1>3
<1>7. \A i \in 1 .. Len(q) : i \in 1 .. n \/ \E j \in 2 .. Len(p) : i = j + m /\ q[i] = p[j]
  <2> SUFFICES ASSUME NEW i \in 1 .. Len(q), i \notin 1 .. n
               PROVE  \E j \in 2 .. Len(p) : i = j + m /\ q[i] = p[j]
    OBVIOUS
  <2>1. i \in n + 1 .. Len(q)
    BY <1>3
  <2>2. i - n + 1 \in 2 .. Len(p) /\ q[i] = p[i - n + 1]
    BY <1>3, <2>1
  <2>3. i = (i - n + 1) + m
    BY <1>m, <1>3
  <2> QED
    BY <2>2, <2>3
<1>8. \A j \in 2 .. Len(p) : j + m \in 1 .. Len(q) /\ j + m > n /\ q[j + m] = p[j]
  <2> SUFFICES ASSUME NEW j \in 2 .. Len(p)
               PROVE  j + m \in 1 .. Len(q) /\ j + m > n /\ q[j + m] = p[j]
    OBVIOUS
  <2>1. j + m \in n + 1 .. Len(q) /\ (j + m) - n + 1 = j
    BY <1>m, <1>3
  <2>2. q[j + m] = p[(j + m) - n + 1]
    BY <1>3, <2>1
  <2> QED
    BY <1>3, <2>1, <2>2
<1>9. n \in Nat /\ Len(p) \in Nat /\ Len(q) \in Nat /\ Len(p) > 0 /\ n = Len(ops)
  BY <1>3 DEF n
<1>10. \A i \in 1 .. n : q[i] = ops[i]
  BY <1>3
<1>11. ASSUME NEW i \in 1 .. Len(q), NEW j \in 2 .. Len(p), i = j + m, NEW k \in i + 1 .. Len(q)
       PROVE  \E l \in j + 1 .. Len(p) : q[k] = p[l]
  <2>1. i > n
    BY <1>8, <1>11
  <2>2. k \in 1 .. Len(q) /\ k \notin 1 .. n
    BY <1>9, <2>1
  <2>3. PICK l \in 2 .. Len(p) : k = l + m /\ q[k] = p[l]
    BY <1>7, <2>2
  <2>4. k > i
    BY <1>9
  <2>5. l > j
    BY <1>11, <2>3, <2>4
  <2>6. l \in j + 1 .. Len(p)
    BY <1>9, <2>5
  <2> QED
    BY <2>3, <2>6
<1>12. ASSUME NEW i \in 1 .. Len(q), NEW j \in 2 .. Len(p), i = j + m, NEW k \in 2 .. j - 1
       PROVE  k + m \in 1 .. i - 1 /\ q[k + m] = p[k]
  <2>1. k \in 2 .. Len(p)
    BY <1>9
  <2>2. k + m \in 1 .. Len(q) /\ q[k + m] = p[k]
    BY <1>8, <2>1
  <2>3. k + m < i
    BY <1>12
  <2> QED
    BY <1>9, <2>2, <2>3
<1>13. OpsFit'
  <2>1. \A i \in 1 .. Len(p) : Fits(p[i])
    BY <1>4 DEF PlanFits, OpsFit, Fits
  <2>2. \A i \in 1 .. Len(p) : Fits(p[i])'
    BY <1>5, <1>6, <2>1
  <2>3. ASSUME NEW i \in 1 .. Len(q)
        PROVE  Fits(q[i])'
    <3>1. CASE i \in 1 .. n
      <4>1. q[i] = ops[i] /\ Fits(ops[i])'
        BY <1>9, <1>10, <3>1
      <4> QED
        BY <4>1
    <3>2. ASSUME NEW j \in 2 .. Len(p), q[i] = p[j]
          PROVE  Fits(q[i])'
      <4>1. Fits(p[j])'
        BY <2>2, <1>9
      <4> QED
        BY <3>2, <4>1
    <3> QED
      BY <1>7, <3>1, <3>2
  <2> QED
    BY <1>4, <2>3 DEF OpsFit, Fits
<1>14. AcksFit'
  <2> SUFFICES ASSUME NEW i \in 1 .. Len(q), Acknowledges(q[i])
               PROVE  Done(q[i][2])' \/ \E k \in 1 .. i - 1 : Does(q[k], q[i][2])'
    BY <1>4 DEF AcksFit
  <2>1. i \notin 1 .. n
    BY <1>9, <1>10
  <2>2. PICK j \in 2 .. Len(p) : i = j + m /\ q[i] = p[j]
    BY <1>7, <2>1
  <2>3. PICK c : c = p[j][2]
    OBVIOUS
  <2>4. j \in 1 .. Len(p) /\ Acknowledges(p[j]) /\ p[j] \in Op
    BY <1>6, <1>9, <2>2
  <2>5. c \in Controls /\ control[c] # "absent"
    <3>1. InPhase(p[j])
      BY <1>4, <2>4 DEF PlanFits, OpsFit
    <3> QED
      BY <2>3, <2>4, <3>1, OpFacts DEF InPhase, Acknowledges
  <2>6. CASE Done(c)
    BY <2>2, <2>3, <2>5, <2>6 DEF Stays
  <2>7. ASSUME NEW k \in 1 .. j - 1, Does(p[k], c)
        PROVE  Done(q[i][2])' \/ \E l \in 1 .. i - 1 : Does(q[l], q[i][2])'
    <3>1. CASE k = 1
      <4>1. Does(Left[1], c)
        BY <1>4, <2>7, <3>1
      <4>2. Owed(c)
        BY <1>4, <2>3, <2>4, <2>5 DEF Owed
      <4> QED
        BY <2>2, <2>3, <2>5, <4>1, <4>2 DEF Replaced
    <3>2. CASE k # 1
      <4>1. k \in 2 .. j - 1
        BY <3>2
      <4>2. k + m \in 1 .. i - 1 /\ q[k + m] = p[k]
        BY <1>12, <2>2, <4>1
      <4>3. Does(p[k], c)'
        BY <2>5, <2>7 DEF Does, Stays, Replaced, S, P
      <4>4. Does(q[k + m], q[i][2])'
        BY <2>2, <2>3, <4>2, <4>3
      <4> QED
        BY <4>2, <4>4
    <3> QED
      BY <3>1, <3>2
  <2>8. Done(c) \/ \E k \in 1 .. j - 1 : Does(p[k], c)
    BY <1>4, <2>3, <2>4 DEF PlanFits, AcksFit
  <2> QED
    BY <2>6, <2>7, <2>8
<1>15. HaltsFit'
  <2> SUFFICES ASSUME NEW i \in 1 .. Len(q), Halts(q[i]) \/ q[i] = <<"pause_run">>,
                      NEW k \in i + 1 .. Len(q)
               PROVE  Harmless(q[k])
    BY <1>4 DEF HaltsFit
  <2>1. CASE i \in 1 .. n
    <3>1. /\ \A l \in i + 1 .. Len(ops) : Harmless(ops[l])
          /\ \A l \in 2 .. Len(Left) : Harmless(Left[l])
      BY <1>9, <1>10, <2>1
    <3>2. k \in 1 .. Len(q) /\ (k \in 1 .. n => k \in i + 1 .. Len(ops))
      BY <1>9, <2>1
    <3>3. CASE k \in 1 .. n
      BY <1>10, <3>1, <3>2, <3>3
    <3>4. ASSUME NEW l \in 2 .. Len(p), q[k] = p[l]
          PROVE  Harmless(q[k])
      BY <1>4, <3>1, <3>4
    <3> QED
      BY <1>7, <3>2, <3>3, <3>4
  <2>2. ASSUME NEW j \in 2 .. Len(p), i = j + m, q[i] = p[j]
        PROVE  Harmless(q[k])
    <3>1. PICK l \in j + 1 .. Len(p) : q[k] = p[l]
      BY <1>11, <2>2
    <3>2. j \in 1 .. Len(p)
      BY <1>9
    <3>3. Harmless(p[l])
      BY <1>4, <2>2, <3>1, <3>2 DEF PlanFits, HaltsFit
    <3> QED
      BY <3>1, <3>3
  <2> QED
    BY <1>7, <2>1, <2>2
<1>16. ASSUME NEW i \in 1 .. Len(q), q[i][1] = "finish"
       PROVE  \E j \in 2 .. Len(p) : i = j + m /\ q[i] = p[j] /\ p[j - 1] = <<"read">>
  <2>1. i \notin 1 .. n
    BY <1>9, <1>10, <1>16
  <2>2. PICK j \in 2 .. Len(p) : i = j + m /\ q[i] = p[j]
    BY <1>7, <2>1
  <2>3. j \in 1 .. Len(p) /\ j > 1
    BY <1>9
  <2>4. p[j - 1] = <<"read">>
    BY <1>4, <1>16, <2>2, <2>3 DEF PlanFits, ReadsFit
  <2> QED
    BY <2>2, <2>4
<1>17. Left[1] = <<"read">> => n = 0 /\ m = -1
  BY <1>m, <1>9 DEF Replaced
<1>18. ReadsFit'
  <2>1. ASSUME NEW i \in 1 .. Len(q), q[i][1] = "finish", i > 1
        PROVE  q[i - 1] = <<"read">>
    <3>1. PICK j \in 2 .. Len(p) : i = j + m /\ q[i] = p[j] /\ p[j - 1] = <<"read">>
      BY <1>16, <2>1
    <3>2. j # 2
      BY <1>4, <1>17, <2>1, <3>1
    <3>3. j - 1 \in 2 .. j - 1 /\ (j - 1) + m = i - 1
      BY <1>9, <3>1, <3>2
    <3>4. q[i - 1] = p[j - 1]
      BY <1>12, <3>1, <3>3
    <3> QED
      BY <3>1, <3>4
  <2>2. ASSUME q # <<>>, q[1] = <<"finish", "canceled">>, worker'.seen = "canceled",
               NEW i \in 1 .. Len(q), Acknowledges(q[i]), Action[q[i][2]] = "terminate"
        PROVE  Done(q[i][2])'
    <3>1. 1 \in 1 .. Len(q) /\ q[1][1] = "finish"
      BY <1>9, <2>2
    <3>2. PICK j \in 2 .. Len(p) : 1 = j + m /\ p[j - 1] = <<"read">>
      BY <1>16, <3>1
    <3>3. j = 2
      <4>1. n >= 0 /\ m = n - 1 /\ n \in Nat
        BY <1>m, <1>9
      <4> HIDE DEF n
      <4> QED
        BY <3>2, <4>1
    <3>4. Left[1] = <<"read">>
      BY <1>4, <3>2, <3>3
    <3>5. run' = "canceled"
      BY <2>2, <3>4 DEF Replaced
    <3> QED
      BY <2>2, <3>5 DEF Done
  <2> QED
    BY <1>2, <1>4, <2>1, <2>2 DEF ReadsFit
<1>19. SuccessFits'
  <2>1. ASSUME NEW i \in 1 .. Len(q), q[i][1] \in {"decide", "complete"}
        PROVE  /\ Begun' \/ \E k \in 1 .. i - 1 : q[k] = <<"start_execution">>
               /\ \A k \in i + 1 .. Len(q) : Closes(q[k])
    <3>1. i \notin 1 .. n
      BY <1>9, <1>10, <2>1
    <3>2. PICK j \in 2 .. Len(p) : i = j + m /\ q[i] = p[j]
      BY <1>7, <3>1
    <3>3. j \in 1 .. Len(p) /\ p[j][1] \in {"decide", "complete"}
      BY <1>9, <2>1, <3>2
    <3>4. worker.job \in Coordinators
      BY <1>4, <3>3 DEF PlanFits, OpsFit, OfCoordinator, CoordinatorOps
    <3>5. /\ Begun \/ \E k \in 1 .. j - 1 : p[k] = <<"start_execution">>
          /\ \A k \in j + 1 .. Len(p) : Closes(p[k])
      BY <1>4, <3>3 DEF PlanFits, SuccessFits
    <3>6. Begun => Begun'
      BY <3>4 DEF Replaced
    <3>7. ASSUME NEW k \in 1 .. j - 1, p[k] = <<"start_execution">>
          PROVE  Begun' \/ \E l \in 1 .. i - 1 : q[l] = <<"start_execution">>
      <4>1. CASE k = 1
        BY <1>4, <3>7, <4>1 DEF Replaced
      <4>2. CASE k # 1
        <5>1. k \in 2 .. j - 1
          BY <4>2
        <5>2. k + m \in 1 .. i - 1 /\ q[k + m] = p[k]
          BY <1>12, <3>2, <5>1
        <5> QED
          BY <3>7, <5>2
      <4> QED
        BY <4>1, <4>2
    <3>8. \A k \in i + 1 .. Len(q) : Closes(q[k])
      BY <1>11, <3>2, <3>5
    <3>9. Begun' \/ \E k \in 1 .. i - 1 : q[k] = <<"start_execution">>
      BY <3>5, <3>6, <3>7
    <3> QED
      BY <3>8, <3>9
  <2>2. ASSUME NEW i \in 1 .. Len(q), Succeeds(q[i])
        PROVE  /\ AllPassed'
               /\ \A k \in 1 .. i - 1 : q[k] = <<"read">>
               /\ \A k \in i + 1 .. Len(q) : Closes(q[k])
    <3>1. q[i][1] = "finish"
      BY <2>2 DEF Succeeds
    <3>2. PICK j \in 2 .. Len(p) : i = j + m /\ q[i] = p[j]
      BY <1>16, <3>1
    <3>3. j \in 1 .. Len(p) /\ Succeeds(p[j])
      BY <1>9, <2>2, <3>2
    <3>4. /\ AllPassed
          /\ \A k \in 1 .. j - 1 : p[k] = <<"read">>
          /\ \A k \in j + 1 .. Len(p) : Closes(p[k])
      BY <1>4, <3>3 DEF PlanFits, SuccessFits
    <3>5. Left[1] = <<"read">>
      BY <1>4, <3>4
    <3>6. n = 0 /\ m = -1 /\ AllPassed'
      BY <1>17, <3>4, <3>5 DEF Replaced
    <3>7. ASSUME NEW k \in 1 .. i - 1
          PROVE  q[k] = <<"read">>
      <4>1. k \in 1 .. Len(q) /\ k \notin 1 .. n
        BY <1>9, <3>6
      <4>2. PICK l \in 2 .. Len(p) : k = l + m /\ q[k] = p[l]
        BY <1>7, <4>1
      <4>3. l \in 1 .. j - 1
        BY <1>9, <3>2, <4>2
      <4> QED
        BY <3>4, <4>2, <4>3
    <3>8. \A k \in i + 1 .. Len(q) : Closes(q[k])
      BY <1>11, <3>2, <3>4
    <3> QED
      BY <3>6, <3>7, <3>8
  <2> QED
    BY <1>4, <2>1, <2>2 DEF SuccessFits
<1> QED
  BY <1>13, <1>14, <1>15, <1>18, <1>19 DEF PlanFits

(* The plan of a handler that changed nothing of its own.                  *)
LEMMA PlanStays ==
    ASSUME PlanFits, Left \in Seq(Op), Stays,
           worker'.plan = Left, worker'.job = worker.job, worker'.phase = worker.phase,
           worker'.seen = worker.seen,
           \A i \in Places : Left[i][1] \in {"decide", "complete"} => (Begun => Begun'),
           \A i \in Places : Succeeds(Left[i]) => (AllPassed => AllPassed')
    PROVE  PlanFits'
<1>1. PICK p : p = Left
  OBVIOUS
<1>2. Left' = p /\ Left = p /\ Places = 1 .. Len(p) /\ Places' = 1 .. Len(p)
  BY <1>1 DEF Left, Places
<1>3. \A i \in 1 .. Len(p) : p[i] \in Op
  BY <1>1
<1>4. OpsFit'
  <2> SUFFICES ASSUME NEW i \in 1 .. Len(p)
               PROVE  Fits(p[i])'
    BY <1>2 DEF OpsFit, Fits
  <2>1. Fits(p[i]) /\ p[i] \in Op
    BY <1>2, <1>3 DEF PlanFits, OpsFit, Fits
  <2>2. Enqueues(p[i])'
    BY <2>1, OpFacts DEF Fits, Enqueues, Stays
  <2>3. OfStage(p[i])' /\ OfCoordinator(p[i])'
    BY <2>1 DEF Fits, OfStage, OfCoordinator, Succeeds
  <2>4. InPhase(p[i])'
    BY <2>1, OpFacts DEF Fits, InPhase, Stays, Harmless
  <2> QED
    BY <2>2, <2>3, <2>4 DEF Fits
<1>5. ASSUME NEW i \in 1 .. Len(p), Acknowledges(p[i])
      PROVE  p[i][2] \in Controls /\ control[p[i][2]] # "absent"
  <2>1. InPhase(p[i]) /\ p[i] \in Op
    BY <1>2, <1>3 DEF PlanFits, OpsFit
  <2> QED
    BY <1>5, <2>1, OpFacts DEF InPhase, Acknowledges
<1>6. AcksFit'
  <2> SUFFICES ASSUME NEW i \in 1 .. Len(p), Acknowledges(p[i])
               PROVE  Done(p[i][2])' \/ \E k \in 1 .. i - 1 : Does(p[k], p[i][2])'
    BY <1>2 DEF AcksFit
  <2>1. Done(p[i][2]) \/ \E k \in 1 .. i - 1 : Does(p[k], p[i][2])
    BY <1>2 DEF PlanFits, AcksFit
  <2>2. Done(p[i][2]) => Done(p[i][2])'
    BY <1>5 DEF Stays
  <2>3. \A k \in 1 .. i - 1 : Does(p[k], p[i][2]) => Does(p[k], p[i][2])'
    BY <1>5 DEF Does, Stays, S, P
  <2> QED
    BY <2>1, <2>2, <2>3
<1>7. HaltsFit'
  BY <1>2 DEF PlanFits, HaltsFit
<1>8. ReadsFit'
  <2>1. \A i \in 1 .. Len(p) : p[i][1] = "finish" /\ i > 1 => p[i - 1] = <<"read">>
    BY <1>2 DEF PlanFits, ReadsFit
  <2>2. ASSUME p # <<>>, p[1] = <<"finish", "canceled">>, worker'.seen = "canceled",
               NEW i \in 1 .. Len(p), Acknowledges(p[i]), Action[p[i][2]] = "terminate"
        PROVE  Done(p[i][2])'
    <3>1. Done(p[i][2])
      BY <1>2, <2>2 DEF PlanFits, ReadsFit
    <3> QED
      BY <1>5, <2>2, <3>1 DEF Stays
  <2> QED
    BY <1>2, <2>1, <2>2 DEF ReadsFit
<1>9. SuccessFits'
  BY <1>2 DEF PlanFits, SuccessFits
<1> QED
  BY <1>4, <1>6, <1>7, <1>8, <1>9 DEF PlanFits

(* A plan of operations that fit, with nothing that ends a coordinator's    *)
(* work on its way.                                                         *)
LEMMA FreshPlan ==
    ASSUME NEW q \in Seq(Op), worker'.plan = q,
           \A i \in 1 .. Len(q) : Fits(q[i])' /\ ~Succeeds(q[i])
                                  /\ q[i][1] \notin {"decide", "complete"},
           \A i \in 1 .. Len(q) : Acknowledges(q[i]) =>
               Done(q[i][2])' \/ \E k \in 1 .. i - 1 : Does(q[k], q[i][2])',
           \A i \in 1 .. Len(q) : Halts(q[i]) \/ q[i] = <<"pause_run">> =>
               \A k \in i + 1 .. Len(q) : Harmless(q[k]),
           \A i \in 1 .. Len(q) : q[i][1] = "finish" => i > 1 /\ q[i - 1] = <<"read">>
    PROVE  PlanFits'
<1>1. Left' = q /\ Places' = 1 .. Len(q)
  BY DEF Left, Places
<1>2. OpsFit'
  BY <1>1 DEF OpsFit, Fits
<1>3. AcksFit' /\ HaltsFit'
  BY <1>1 DEF AcksFit, HaltsFit
<1>4. ReadsFit'
  BY <1>1 DEF ReadsFit
<1>5. SuccessFits'
  BY <1>1 DEF SuccessFits
<1> QED
  BY <1>2, <1>3, <1>4, <1>5 DEF PlanFits

LEMMA NoPlan ==
    ASSUME worker'.plan = <<>>
    PROVE  PlanFits' /\ \A i \in 1 .. Len(worker'.plan) : FALSE
<1>1. Left' = <<>> /\ Places' = {} /\ Len(<<>>) = 0
  BY DEF Left, Places
<1>2. OpsFit' /\ AcksFit' /\ HaltsFit' /\ SuccessFits'
  BY <1>1 DEF OpsFit, AcksFit, HaltsFit, SuccessFits
<1>3. ReadsFit'
  BY <1>1 DEF ReadsFit
<1> QED
  BY <1>1, <1>2, <1>3 DEF PlanFits

-----------------------------------------------------------------------------
(* Rows that a step leaves alone.                                          *)

LEMMA PlansKept ==
    ASSUME PlansFit, plan' = plan, draft' \in {draft, {}},
           \A p \in Plans : execution'[p] # "absent" => execution[p] # "absent",
           \A c \in Controls : base'[c] = base[c]
    PROVE  PlansFit' /\ Committed' = Committed
<1>1. Committed' = Committed
  BY DEF Committed
<1> QED
  BY <1>1 DEF PlansFit

LEMMA JobsKept ==
    ASSUME JobsFit, job' = job, Committed \in Int, Committed' \in Int, Committed' >= Committed,
           faults \in Int, faults' \in Int, faults' >= faults
    PROVE  JobsFit'
<1>1. ASSUME NEW j \in Jobs
      PROVE  j[2] \in Int /\ j[4] \in Int
  BY <1>1 DEF Jobs, StageJobs, Coordinators, StageJob, Coordinator, Plans
<1>2. ASSUME NEW j \in Jobs
      PROVE  /\ job'[j] # "absent" => Known(j)'
             /\ job'[j] = "lapsed" => j[4] < faults'
  <2>1. /\ job[j] # "absent" => j \in Jobs /\ j[2] <= Committed /\ j[4] <= faults
        /\ job[j] = "lapsed" => j[4] < faults
    BY DEF JobsFit, Known
  <2>2. j[2] \in Int /\ j[4] \in Int
    BY <1>1
  <2> QED
    BY <2>1, <2>2 DEF Known
<1> QED
  BY <1>2 DEF JobsFit

LEMMA StaysIf ==
    ASSUME Committed \in Int, Committed' \in Int, Committed' >= Committed,
           faults \in Int, faults' \in Int, faults' >= faults,
           \A c \in Controls : base[c] \in Int /\ (Action[c] = "terminate" => base[c] <= Committed),
           \A c \in Controls : control[c] # "absent" =>
               control'[c] # "absent" /\ base'[c] = base[c],
           run = "canceled" => run' = "canceled" \/ Committed' > Committed,
           \A p \in Plans, s \in Stages :
               attempt[p][s] \in TerminalAttempt => attempt'[p][s] \in TerminalAttempt,
           Target \in [Controls -> Stages], base \in [Controls -> Plans],
           Action \in [Controls -> {"pause", "cancel_stage", "terminate"}]
    PROVE  Stays
<1>1. ASSUME NEW j \in Jobs, Known(j)
      PROVE  Known(j)'
  <2>1. j[2] \in Int /\ j[4] \in Int
    BY DEF Jobs, StageJobs, Coordinators, StageJob, Coordinator, Plans
  <2>2. j[2] <= Committed /\ j[4] <= faults
    BY <1>1 DEF Known
  <2> QED
    BY <2>1, <2>2 DEF Known
<1>2. ASSUME NEW c \in Controls, control[c] # "absent"
      PROVE  control'[c] # "absent" /\ base'[c] = base[c] /\ (Done(c) => Done(c)')
  <2>1. control'[c] # "absent" /\ base'[c] = base[c]
    BY <1>2
  <2>2. CASE Action[c] = "terminate"
    <3>1. run = "canceled" \/ Committed > base[c] => run' = "canceled" \/ Committed' > base'[c]
      BY <2>1, <2>2
    <3> QED
      BY <2>1, <2>2, <3>1 DEF Done
  <2>3. CASE Action[c] = "cancel_stage"
    <3>1. base[c] \in Plans /\ Target[c] \in Stages
      OBVIOUS
    <3> QED
      BY <2>1, <2>3, <3>1 DEF Done
  <2>4. CASE Action[c] = "pause"
    BY <2>1, <2>4 DEF Done
  <2> QED
    BY <2>2, <2>3, <2>4
<1> QED
  BY <1>1, <1>2 DEF Stays

LEMMA AcknowledgedStays ==
    ASSUME AcknowledgedIsDone, Stays,
           \A c \in Controls : control'[c] = "acknowledged" =>
               control[c] = "acknowledged" \/ Done(c)'
    PROVE  AcknowledgedIsDone'
<1>1. ASSUME NEW c \in Controls, control'[c] = "acknowledged"
      PROVE  Done(c)'
  <2>1. control[c] = "acknowledged" => Done(c)
    BY DEF AcknowledgedIsDone, Done
  <2> QED
    BY <1>1, <2>1 DEF Stays
<1> QED
  BY <1>1 DEF AcknowledgedIsDone, Done

LEMMA SucceededStays ==
    ASSUME SucceededMeansPassed, run' = run \/ run' # "succeeded",
           plan' = plan, attempt' = attempt, latest' = latest,
           \A p \in Plans : execution[p] \in {"running", "completed"} =>
               execution'[p] \in {"running", "completed"}
    PROVE  SucceededMeansPassed'
BY DEF SucceededMeansPassed, Attempt

LEMMA ListsKept ==
    /\ QueueFits /\ job' = job /\ queue' = queue => QueueFits'
    /\ RecentFits /\ control' = control /\ recent' = recent => RecentFits'
BY DEF QueueFits, RecentFits

-----------------------------------------------------------------------------
(* The worker at work.                                                     *)

LEMMA Acting ==
    ASSUME IInv, NEW k, At(k)
    PROVE  /\ Left \in Seq(Op) /\ Left # <<>> /\ Len(Left) \in Nat /\ Len(Left) > 0
           /\ Head(worker.plan) = Left[1] /\ Left[1] \in Op /\ Left[1][1] = k
           /\ Fits(Left[1]) /\ 1 \in Places
           /\ worker.phase \in {"handle", "recover"} /\ Known(worker.job)
<1>1. Left \in Seq(Op) /\ Left # <<>> /\ Head(Left) = Left[1] /\ Left[1][1] = k
  BY DEF IInv, WorkerShapes, At, Left
<1>2. Len(Left) \in Nat /\ Len(Left) > 0 /\ 1 \in Places /\ Left[1] \in Op
  BY <1>1 DEF Places
<1>3. worker.phase \in {"handle", "recover"}
  BY <1>1 DEF IInv, WorkerFits, Left
<1>4. Known(worker.job)
  BY <1>3 DEF IInv, WorkerFits
<1>5. Fits(Left[1])
  BY <1>2 DEF IInv, PlanFits, OpsFit, Fits
<1> QED
  BY <1>1, <1>2, <1>3, <1>4, <1>5 DEF Left

LEMMA WorkerStays ==
    ASSUME WorkerFits, Stays, worker.phase \in {"handle", "recover"},
           worker'.phase = worker.phase, worker'.job = worker.job,
           worker'.held = worker.held,
           worker.phase = "handle" => job'[worker.job] = "running"
    PROVE  WorkerFits'
<1>1. Known(worker.job)'
  BY DEF WorkerFits, Stays, Known
<1>2. worker.held # NoControl =>
         worker.held \in Controls /\ control'[worker.held] # "absent" /\ Addresses(worker.held)'
  BY DEF WorkerFits, Stays, Addresses, S, P
<1> QED
  BY <1>1, <1>2 DEF WorkerFits, Known

(* A Run that stands still is left alone.                                  *)
LEMMA Rests ==
    ASSUME IInv, worker.phase \in {"handle", "recover"},
           run' = run \/ run' \notin {"paused", "canceled", "succeeded"},
           worker'.phase = worker.phase, worker'.job = worker.job,
           (\A i \in Places : Harmless(Left[i])) =>
               \A i \in 1 .. Len(worker'.plan) : Harmless(worker'.plan[i]),
           (\A i \in Places : Closes(Left[i])) =>
               \A i \in 1 .. Len(worker'.plan) : Closes(worker'.plan[i])
    PROVE  RestFits' /\ SucceededFits'
<1>1. RestFits'
  BY DEF IInv, RestFits, Left, Places, P
<1>2. SucceededFits'
  BY DEF IInv, SucceededFits, Left, Places
<1> QED
  BY <1>1, <1>2

LEMMA Numbers ==
    ASSUME IInv
    PROVE  /\ Committed \in Nat /\ Committed \in Plans /\ Committed \in Int
           /\ faults \in Nat /\ faults \in Int
           /\ \A c \in Controls : base[c] \in Int /\ (Action[c] = "terminate" => base[c] <= Committed)
<1>1. Committed \in Plans /\ \A c \in Controls : (Action[c] = "terminate" => base[c] <= Committed) /\ base[c] \in Plans
  BY DEF IInv, PlansFit, RowShapes
<1>2. Plans \subseteq Nat /\ 0 .. MaxFaults \subseteq Nat
  BY ControlAssumption DEF Plans
<1>3. faults \in 0 .. MaxFaults
  BY DEF IInv, RowShapes
<1>4. Committed \in Nat /\ \A c \in Controls : base[c] \in Nat
  BY <1>1, <1>2
<1>5. faults \in Nat
  BY <1>2, <1>3
<1>6. \A n \in Nat : n \in Int
  OBVIOUS
<1> QED
  BY <1>1, <1>4, <1>5, <1>6

SameRows == UNCHANGED <<runRow, plans, stages, ctl, jobs, faults>>

LEMMA RowsStay ==
    ASSUME IInv, SameRows
    PROVE  /\ RowShapes' /\ PlansFit' /\ QueueFits' /\ RecentFits' /\ JobsFit'
           /\ AcknowledgedIsDone' /\ SucceededMeansPassed'
           /\ Stays /\ Committed' = Committed
<1>1. /\ run' = run /\ draft' = draft /\ plan' = plan /\ execution' = execution
      /\ runAttempt' = runAttempt /\ attempt' = attempt /\ latest' = latest
      /\ control' = control /\ base' = base /\ recent' = recent
      /\ job' = job /\ queue' = queue /\ faults' = faults
  BY DEF SameRows, runRow, plans, stages, ctl, jobs
<1>2. RowShapes'
  BY <1>1 DEF IInv, RowShapes
<1>3. PlansFit' /\ Committed' = Committed
  BY <1>1, PlansKept DEF IInv
<1>4. Committed \in Int /\ faults \in Int
      /\ \A c \in Controls : base[c] \in Int /\ (Action[c] = "terminate" => base[c] <= Committed)
  BY Numbers
<1>5. Stays
  BY <1>1, <1>3, <1>4, StaysIf, ControlAssumption DEF IInv, RowShapes
<1>6. JobsFit'
  BY <1>1, <1>3, <1>4, JobsKept DEF IInv
<1>7. QueueFits' /\ RecentFits'
  BY <1>1, ListsKept DEF IInv
<1>8. AcknowledgedIsDone'
  BY <1>1, <1>5, AcknowledgedStays DEF IInv
<1>9. SucceededMeansPassed'
  BY <1>1, SucceededStays DEF IInv
<1> QED
  BY <1>2, <1>3, <1>5, <1>6, <1>7, <1>8, <1>9

(* A step of the worker alone.                                             *)
LEMMA WorkerMoves ==
    ASSUME IInv, SameRows, worker.phase \in {"handle", "recover"},
           worker'.phase = worker.phase, worker'.job = worker.job, worker'.held = worker.held,
           WorkerShapes', PlanFits',
           (\A i \in Places : Harmless(Left[i])) =>
               \A i \in 1 .. Len(worker'.plan) : Harmless(worker'.plan[i]),
           (\A i \in Places : Closes(Left[i])) =>
               \A i \in 1 .. Len(worker'.plan) : Closes(worker'.plan[i])
    PROVE  IInv'
<1>1. /\ RowShapes' /\ PlansFit' /\ QueueFits' /\ RecentFits' /\ JobsFit'
      /\ AcknowledgedIsDone' /\ SucceededMeansPassed' /\ Stays
  BY RowsStay
<1>2. run' = run /\ job' = job
  BY DEF SameRows, runRow, jobs
<1>3. worker.phase = "handle" => job'[worker.job] = "running"
  BY <1>2 DEF IInv, WorkerFits
<1>4. WorkerFits'
  BY <1>1, <1>3, WorkerStays DEF IInv
<1>5. RestFits' /\ SucceededFits'
  BY <1>2, Rests
<1> QED
  BY <1>1, <1>4, <1>5 DEF IInv

(* The fields of a worker whose plan is another.                           *)
LEMMA Replanned ==
    ASSUME IInv, NEW q, worker' = [worker EXCEPT !.plan = q]
    PROVE  /\ DOMAIN worker' = WorkerFields /\ worker'.plan = q
           /\ worker'.phase = worker.phase /\ worker'.job = worker.job
           /\ worker'.held = worker.held /\ worker'.seen = worker.seen
           /\ worker'.fresh = worker.fresh
           /\ q \in Seq(Op) => WorkerShapes'
BY DEF IInv, WorkerShapes, WorkerFields

(* Harmless and closing plans stay so while their operations are done.     *)
LEMMA RestsOn ==
    ASSUME Left \in Seq(Op), Left # <<>>, NEW ops \in Seq(Op), worker'.plan = ops \o Tail(Left),
           Harmless(Left[1]) => \A i \in 1 .. Len(ops) : Harmless(ops[i]),
           Closes(Left[1]) => \A i \in 1 .. Len(ops) : Closes(ops[i])
    PROVE  /\ (\A i \in Places : Harmless(Left[i])) =>
                  \A i \in 1 .. Len(worker'.plan) : Harmless(worker'.plan[i])
           /\ (\A i \in Places : Closes(Left[i])) =>
                  \A i \in 1 .. Len(worker'.plan) : Closes(worker'.plan[i])
<1>1. PICK p : p = Left
  OBVIOUS
<1>2. PICK q : q = worker'.plan
  OBVIOUS
<1>3. p \in Seq(Op) /\ p # <<>> /\ q = ops \o Tail(p)
  BY <1>1, <1>2
<1>4. /\ q \in Seq(Op) /\ Len(q) = Len(ops) + Len(p) - 1
      /\ \A i \in 1 .. Len(ops) : q[i] = ops[i]
      /\ \A i \in Len(ops) + 1 .. Len(q) :
            i - Len(ops) + 1 \in 2 .. Len(p) /\ q[i] = p[i - Len(ops) + 1]
  BY <1>3, NewPlan
<1>5. Len(ops) \in Nat /\ Len(p) \in Nat /\ Len(p) > 0 /\ Len(q) \in Nat
  BY <1>3, <1>4
<1>6. \A i \in 1 .. Len(q) : \/ i \in 1 .. Len(ops) /\ q[i] = ops[i]
                             \/ \E j \in 1 .. Len(p) : q[i] = p[j]
  <2> SUFFICES ASSUME NEW i \in 1 .. Len(q)
               PROVE  \/ i \in 1 .. Len(ops) /\ q[i] = ops[i]
                      \/ \E j \in 1 .. Len(p) : q[i] = p[j]
    OBVIOUS
  <2>1. CASE i \in 1 .. Len(ops)
    BY <1>4, <2>1
  <2>2. CASE i \notin 1 .. Len(ops)
    <3>1. i \in Len(ops) + 1 .. Len(q)
      BY <1>5, <2>2
    <3>2. i - Len(ops) + 1 \in 2 .. Len(p) /\ q[i] = p[i - Len(ops) + 1]
      BY <1>4, <3>1
    <3>3. i - Len(ops) + 1 \in 1 .. Len(p)
      BY <1>5, <3>2
    <3> QED
      BY <3>2, <3>3
  <2> QED
    BY <2>1, <2>2
<1>7. 1 \in Places /\ Places = 1 .. Len(p)
  BY <1>1, <1>5 DEF Places
<1> QED
  BY <1>1, <1>2, <1>6, <1>7

(* The first operation is done and the rest of the plan is left.           *)
LEMMA PlanAdvances ==
    ASSUME PlanFits, Left \in Seq(Op), Left # <<>>, Stays, worker'.plan = Tail(Left),
           worker'.job = worker.job, worker'.phase = worker.phase,
           worker.job \in Coordinators /\ Begun => Begun',
           Left[1] = <<"start_execution">> => Begun',
           Left[1] = <<"read">> => (AllPassed => AllPassed')
                                   /\ (worker'.seen = "canceled" => run' = "canceled"),
           \A c \in Controls : Does(Left[1], c) /\ Owed(c) => Done(c)'
    PROVE  /\ PlanFits' /\ worker'.plan \in Seq(Op)
           /\ (\A i \in Places : Harmless(Left[i])) =>
                  \A i \in 1 .. Len(worker'.plan) : Harmless(worker'.plan[i])
           /\ (\A i \in Places : Closes(Left[i])) =>
                  \A i \in 1 .. Len(worker'.plan) : Closes(worker'.plan[i])
<1>1. PICK p : p = Left
  OBVIOUS
<1>2. p \in Seq(Op) /\ p # <<>>
  BY <1>1
<1>3. Tail(p) = <<>> \o Tail(p) /\ Tail(p) \in Seq(Op)
  BY <1>2
<1>4. worker'.plan = <<>> \o Tail(Left) /\ worker'.plan \in Seq(Op)
  BY <1>1, <1>3
<1>5. PICK ops : ops = <<>>
  OBVIOUS
<1>6. ops \in Seq(Op) /\ \A i \in 1 .. Len(ops) : FALSE
  BY <1>5
<1>7. Replaced(ops)
  BY <1>4, <1>5 DEF Replaced
<1>8. PlanFits'
  BY <1>6, <1>7, PlanGoesOn
<1>9. worker'.plan = ops \o Tail(Left)
  BY <1>4, <1>5
<1> QED
  BY <1>4, <1>6, <1>8, <1>9, RestsOn

(* The worker goes on to its next operation and no row changes.            *)
LEMMA AdvanceInvariant ==
    ASSUME IInv, SameRows, NEW k, At(k), k \notin {"start_execution", "attempt", "move"},
           worker'.plan = Tail(Left), DOMAIN worker' = WorkerFields, worker'.seen \in RunStatus,
           worker'.phase = worker.phase, worker'.job = worker.job, worker'.held = worker.held,
           k = "read" => worker'.seen = run,
           k = "finish" => \A c \in Controls : Does(Left[1], c) /\ Owed(c) => Done(c)
    PROVE  IInv'
<1>1. /\ Left \in Seq(Op) /\ Left # <<>> /\ Left[1] \in Op /\ Left[1][1] = k
      /\ worker.phase \in {"handle", "recover"} /\ PlanFits
  BY Acting DEF IInv
<1>2. Stays
  BY RowsStay
<1>3. run' = run /\ execution' = execution /\ plan' = plan /\ attempt' = attempt
      /\ latest' = latest
  BY DEF SameRows, runRow, plans, stages
<1>4. (Begun => Begun') /\ (AllPassed => AllPassed')
  BY <1>3 DEF Begun, AllPassed, Attempt, P
<1>5. Left[1] # <<"start_execution">>
  BY <1>1
<1>6. Left[1] = <<"read">> => (AllPassed => AllPassed')
                              /\ (worker'.seen = "canceled" => run' = "canceled")
  BY <1>1, <1>3, <1>4
<1>7. ASSUME NEW c \in Controls, Does(Left[1], c), Owed(c)
      PROVE  Done(c)'
  <2>1. k = "finish"
    BY <1>1, <1>7 DEF Does, Cancels
  <2> QED
    BY <1>2, <1>7, <2>1 DEF Stays, Owed
<1>8. /\ PlanFits' /\ worker'.plan \in Seq(Op)
      /\ (\A i \in Places : Harmless(Left[i])) =>
             \A i \in 1 .. Len(worker'.plan) : Harmless(worker'.plan[i])
      /\ (\A i \in Places : Closes(Left[i])) =>
             \A i \in 1 .. Len(worker'.plan) : Closes(worker'.plan[i])
  BY <1>1, <1>2, <1>4, <1>5, <1>6, <1>7, PlanAdvances
<1>9. WorkerShapes'
  BY <1>8 DEF WorkerShapes
<1> QED
  BY <1>1, <1>8, <1>9, WorkerMoves

(* The worker is given another plan and no row changes.                    *)
LEMMA DivertInvariant ==
    ASSUME IInv, SameRows, NEW k, At(k), NEW q \in Seq(Op),
           worker' = [worker EXCEPT !.plan = q], PlanFits',
           Harmless(Left[1]) => \A i \in 1 .. Len(q) : Harmless(q[i]),
           Closes(Left[1]) => \A i \in 1 .. Len(q) : Closes(q[i])
    PROVE  IInv'
<1>1. worker.phase \in {"handle", "recover"} /\ 1 \in Places
  BY Acting
<1>2. /\ worker'.phase = worker.phase /\ worker'.job = worker.job
      /\ worker'.held = worker.held /\ WorkerShapes' /\ worker'.plan = q
  BY Replanned
<1> QED
  BY <1>1, <1>2, WorkerMoves

(* The worker has other operations to do first and no row changes.         *)
LEMMA ProceedInvariant ==
    ASSUME IInv, SameRows, NEW k, At(k), NEW ops \in Seq(Op),
           worker' = [worker EXCEPT !.plan = ops \o Tail(@)], PlanFits',
           Harmless(Left[1]) => \A i \in 1 .. Len(ops) : Harmless(ops[i]),
           Closes(Left[1]) => \A i \in 1 .. Len(ops) : Closes(ops[i])
    PROVE  IInv'
<1>1. worker.phase \in {"handle", "recover"} /\ Left \in Seq(Op) /\ Left # <<>>
  BY Acting
<1>2. PICK q : q = ops \o Tail(Left)
  OBVIOUS
<1>3. q \in Seq(Op)
  BY <1>1, <1>2, NewPlan
<1>4. worker' = [worker EXCEPT !.plan = q]
  BY <1>2 DEF Left
<1>5. /\ worker'.phase = worker.phase /\ worker'.job = worker.job
      /\ worker'.held = worker.held /\ WorkerShapes' /\ worker'.plan = q
  BY <1>3, <1>4, Replanned
<1>6. worker'.plan = ops \o Tail(Left)
  BY <1>2, <1>5
<1>7. /\ (\A i \in Places : Harmless(Left[i])) =>
             \A i \in 1 .. Len(worker'.plan) : Harmless(worker'.plan[i])
      /\ (\A i \in Places : Closes(Left[i])) =>
             \A i \in 1 .. Len(worker'.plan) : Closes(worker'.plan[i])
  BY <1>1, <1>6, RestsOn
<1> QED
  BY <1>1, <1>5, <1>7, WorkerMoves

LEMMA ReadRunInvariant == ASSUME IInv, ReadRun PROVE IInv'
<1>1. At("read") /\ SameRows
  BY DEF ReadRun, SameRows
<1>2. /\ DOMAIN worker' = WorkerFields /\ worker'.plan = Tail(Left) /\ worker'.seen = run
      /\ worker'.phase = worker.phase /\ worker'.job = worker.job /\ worker'.held = worker.held
  BY DEF ReadRun, Left, IInv, WorkerShapes, WorkerFields
<1>3. run \in RunStatus
  BY DEF IInv, RowShapes
<1> QED
  BY <1>1, <1>2, <1>3, AdvanceInvariant

LEMMA RefuseInvariant == ASSUME IInv, SameRows, NEW k, At(k), Refuse PROVE IInv'
<1> DEFINE d == <<"deliver", "failed">>
           q == <<d>>
<1>1. d \in Op /\ q \in Seq(Op) /\ Len(q) = 1 /\ q[1] = d
  BY OpsAre DEF Delivered
<1>2. /\ worker' = [worker EXCEPT !.plan = q] /\ worker'.plan = q
  BY Replanned DEF Refuse, Divert
<1>3. Fits(d)' /\ ~Succeeds(d) /\ ~Acknowledges(d) /\ ~Halts(d) /\ Harmless(d) /\ Closes(d)
  BY DEF Fits, Enqueues, OfStage, OfCoordinator, InPhase, StageOps, CoordinatorOps, Succeeds,
         Acknowledges, Halts, Cancels, Harmless, Closes
<1> HIDE DEF q
<1>4. \A i \in 1 .. Len(q) : q[i] = d
  BY <1>1
<1> HIDE DEF d
<1>5. d[1] = "deliver" /\ d # <<"pause_run">>
  BY DEF d
<1>6. PlanFits'
  BY <1>1, <1>2, <1>3, <1>4, <1>5, FreshPlan
<1> QED
  BY <1>1, <1>2, <1>3, <1>4, <1>6, DivertInvariant

-----------------------------------------------------------------------------
(* The plans of the handlers.                                              *)

\* What fits a plan wherever it stands, and what fits that of a stage.
LEMMA FitAnywhere ==
    ASSUME worker'.phase \in {"handle", "recover"}
    PROVE  /\ Fits(<<"read">>)' /\ Fits(<<"settle">>)'
           /\ \A t \in FinishTarget :
                 t # "succeeded" /\ (worker'.phase = "handle" \/ t # "canceled") =>
                     Fits(<<"finish", t>>)'
           /\ \A c \in Controls, o \in Outcome : control'[c] # "absent" => Fits(<<"control", c, o>>)'
           /\ \A j \in Jobs : Known(j)' => Fits(<<"enqueue", j>>)'
           /\ \A d \in Delivered : Fits(<<"deliver", d>>)'
           /\ worker'.phase = "recover" => Fits(<<"deliver", "none">>)'
           /\ worker'.phase = "handle" => \A r \in MoveTarget : Fits(<<"move", r>>)'
BY DEF Fits, Enqueues, OfStage, OfCoordinator, InPhase, StageOps, CoordinatorOps, Succeeds,
       Harmless, Delivered

LEMMA FitStage ==
    ASSUME worker'.phase \in {"handle", "recover"}, worker'.job \in StageJobs
    PROVE  /\ \A a, b : Fits(<<"attempt", a, b>>)'
           /\ \A e : Fits(<<"execution", e>>)'
           /\ \A a : Fits(<<"after", a>>)'
           /\ worker'.phase = "handle" =>
                 /\ Fits(<<"load">>)' /\ Fits(<<"execute">>)' /\ Fits(<<"pause_run">>)'
                 /\ \A c \in Controls : control'[c] # "absent" /\ Action[c] = "pause" =>
                        Fits(<<"boundary_pause", c>>)'
BY DEF Fits, Enqueues, OfStage, OfCoordinator, InPhase, StageOps, CoordinatorOps, Succeeds,
       Harmless

LEMMA FitCoordinator ==
    ASSUME worker'.phase = "handle", worker'.job \in Coordinators
    PROVE  /\ \A k \in {"inputs", "start_execution", "controls", "begin", "run_attempt", "decide",
                        "complete", "close_execution"} : Fits(<<k>>)'
           /\ \A s : Fits(<<"plan_attempt", s>>)'
           /\ Fits(<<"finish", "succeeded">>)'
BY DEF Fits, Enqueues, OfStage, OfCoordinator, InPhase, StageOps, CoordinatorOps, Succeeds,
       Harmless

\* What a handler may leave to be done when the Run stands still.
Quiet(op) == Harmless(op) /\ ~Acknowledges(op) /\ ~Succeeds(op)

LEMMA QuietOps ==
    /\ Quiet(<<"read">>) /\ Quiet(<<"settle">>)
    /\ \A t : t \notin {"canceled", "succeeded"} => Quiet(<<"finish", t>>)
    /\ \A a, b : Quiet(<<"attempt", a, b>>)
    /\ \A c, o : o # "acknowledged" => Quiet(<<"control", c, o>>)
    /\ \A c, o : Harmless(<<"control", c, o>>)
    /\ \A e : Quiet(<<"execution", e>>)
    /\ \A j : Quiet(<<"enqueue", j>>)
    /\ \A d : Quiet(<<"deliver", d>>)
    /\ \A a : Quiet(<<"after", a>>)
    /\ \A a : Quiet(<<"finish_attempts", a>>)
BY DEF Quiet, Harmless, Acknowledges, Succeeds

LEMMA QuietNever ==
    ASSUME NEW op, Quiet(op)
    PROVE  /\ ~Halts(op) /\ op # <<"pause_run">> /\ op[1] \notin {"decide", "complete"}
           /\ ~Succeeds(op) /\ ~Acknowledges(op) /\ Harmless(op)
BY DEF Quiet, Harmless, Halts, Cancels

\* A plan whose operations fit and are quiet, the Run read before it is closed.
Settles(q) ==
    /\ q \in Seq(Op)
    /\ \A i \in 1 .. Len(q) : /\ Fits(q[i])' /\ Quiet(q[i])
                              /\ q[i][1] = "finish" => i > 1 /\ q[i - 1] = <<"read">>

LEMMA SettlesOne ==
    ASSUME NEW op \in Op, Fits(op)', Quiet(op), op[1] # "finish"
    PROVE  Settles(<<op>>)
<1> DEFINE q == <<op>>
<1>1. q \in Seq(Op) /\ Len(q) = 1 /\ q[1] = op
  OBVIOUS
<1> HIDE DEF q
<1>2. \A i \in 1 .. Len(q) : q[i] = op
  BY <1>1
<1> QED
  BY <1>1, <1>2 DEF Settles, q

LEMMA SettlesTogether ==
    ASSUME NEW a, NEW b, Settles(a), Settles(b)
    PROVE  Settles(a \o b)
<1>1. PICK q : q = a \o b
  OBVIOUS
<1>2. a \in Seq(Op) /\ b \in Seq(Op) /\ Len(a) \in Nat /\ Len(b) \in Nat
  BY DEF Settles
<1>3. /\ q \in Seq(Op) /\ Len(q) = Len(a) + Len(b)
      /\ \A i \in 1 .. Len(a) : q[i] = a[i]
      /\ \A i \in 1 .. Len(b) : q[i + Len(a)] = b[i]
  <2>1. q \in Seq(Op) /\ Len(q) = Len(a) + Len(b)
    BY <1>1, <1>2
  <2>2. \A i \in 1 .. Len(a) : q[i] = a[i]
    BY <1>1, <1>2
  <2>3. \A i \in 1 .. Len(b) : q[i + Len(a)] = b[i]
    BY <1>1, <1>2
  <2> QED
    BY <2>1, <2>2, <2>3
<1>4. ASSUME NEW i \in 1 .. Len(q)
      PROVE  /\ Fits(q[i])' /\ Quiet(q[i])
             /\ q[i][1] = "finish" => i > 1 /\ q[i - 1] = <<"read">>
  <2>1. CASE i \in 1 .. Len(a)
    <3>1. q[i] = a[i] /\ (i > 1 => q[i - 1] = a[i - 1])
      BY <1>2, <1>3, <2>1
    <3>2. Fits(a[i])' /\ Quiet(a[i]) /\ (a[i][1] = "finish" => i > 1 /\ a[i - 1] = <<"read">>)
      BY <2>1 DEF Settles
    <3> QED
      BY <3>1, <3>2
  <2>2. CASE i \notin 1 .. Len(a)
    <3>1. PICK k \in 1 .. Len(b) : i = k + Len(a)
      <4>1. i - Len(a) \in 1 .. Len(b) /\ i = (i - Len(a)) + Len(a)
        BY <1>2, <1>3, <2>2
      <4> QED
        BY <4>1
    <3>2. q[i] = b[k] /\ (k > 1 => q[i - 1] = b[k - 1])
      <4>1. q[i] = b[k]
        BY <1>3, <3>1
      <4>2. ASSUME k > 1
            PROVE  q[i - 1] = b[k - 1]
        <5>1. k - 1 \in 1 .. Len(b) /\ (k - 1) + Len(a) = i - 1
          BY <1>2, <3>1, <4>2
        <5> QED
          BY <1>3, <5>1
      <4> QED
        BY <4>1, <4>2
    <3>3. Fits(b[k])' /\ Quiet(b[k]) /\ (b[k][1] = "finish" => k > 1 /\ b[k - 1] = <<"read">>)
      BY DEF Settles
    <3>4. k > 1 => i > 1
      BY <1>2, <3>1
    <3> QED
      BY <3>2, <3>3, <3>4
  <2> QED
    BY <2>1, <2>2
<1> QED
  BY <1>1, <1>3, <1>4 DEF Settles

LEMMA SettlesFinish ==
    ASSUME worker'.phase \in {"handle", "recover"}, NEW t \in FinishTarget,
           t \notin {"canceled", "succeeded"}
    PROVE  Settles(Finish(t))
<1> DEFINE r == <<"read">>
           f == <<"finish", t>>
<1>1. r \in Op /\ f \in Op /\ Fits(r)' /\ Fits(f)' /\ Quiet(r) /\ Quiet(f)
  BY OpsAre, FitAnywhere, QuietOps DEF Plain
<1>2. r[1] # "finish" /\ r = <<"read">>
  OBVIOUS
<1> HIDE DEF r, f
<1>3. PICK q : q = <<r>> \o <<f>>
  OBVIOUS
<1>4. q \in Seq(Op) /\ Len(q) = 2 /\ q[1] = r /\ q[2] = f
  BY <1>1, <1>3
<1>5. \A i \in 1 .. Len(q) : i = 1 \/ i = 2
  BY <1>4
<1>6. ASSUME NEW i \in 1 .. Len(q)
      PROVE  /\ Fits(q[i])' /\ Quiet(q[i])
             /\ q[i][1] = "finish" => i > 1 /\ q[i - 1] = <<"read">>
  <2>1. CASE i = 1
    BY <1>1, <1>2, <1>4, <2>1
  <2>2. CASE i = 2
    <3>1. i > 1 /\ i - 1 = 1
      BY <2>2
    <3> QED
      BY <1>1, <1>2, <1>4, <2>2, <3>1
  <2> QED
    BY <1>5, <2>1, <2>2
<1>7. Settles(q)
  BY <1>4, <1>6 DEF Settles
<1> QED
  BY <1>3, <1>7 DEF Finish, Read, r, f

LEMMA SettledPlan ==
    ASSUME NEW q, Settles(q), worker'.plan = q
    PROVE  q \in Seq(Op) /\ PlanFits' /\ \A i \in 1 .. Len(q) : Harmless(q[i])
<1>1. q \in Seq(Op)
  BY DEF Settles
<1>2. \A i \in 1 .. Len(q) :
         /\ Fits(q[i])' /\ ~Succeeds(q[i]) /\ q[i][1] \notin {"decide", "complete"}
         /\ ~Acknowledges(q[i]) /\ ~Halts(q[i]) /\ q[i] # <<"pause_run">> /\ Harmless(q[i])
         /\ q[i][1] = "finish" => i > 1 /\ q[i - 1] = <<"read">>
  BY QuietNever DEF Settles
<1>3. PlanFits'
  BY <1>1, <1>2, FreshPlan
<1> QED
  BY <1>1, <1>2, <1>3

LEMMA JobOfStage ==
    ASSUME worker.job \in StageJobs
    PROVE  /\ P \in Plans /\ S \in Stages /\ worker.job = StageJob(P, S)
           /\ worker.job \in Jobs /\ worker.job \notin Coordinators
           /\ Coordinator(P, S, 0) \in Jobs
<1>1. PICK p \in Plans, s \in Stages : worker.job = StageJob(p, s)
  BY DEF StageJobs
<1>2. P = p /\ S = s
  BY <1>1 DEF P, S, StageJob
<1>3. worker.job \in Jobs /\ worker.job \notin Coordinators
  BY <1>1 DEF Jobs, StageJobs, Coordinators, StageJob, Coordinator
<1>4. 0 \in 0 .. MaxFaults
  BY ControlAssumption
<1>5. Coordinator(P, S, 0) \in Jobs
  BY <1>1, <1>2, <1>4 DEF Jobs, Coordinators
<1> QED
  BY <1>1, <1>2, <1>3, <1>5

LEMMA JobOfCoordinator ==
    ASSUME worker.job \in Coordinators
    PROVE  /\ P \in Plans /\ P \in Nat /\ worker.job \in Jobs /\ worker.job \notin StageJobs
           /\ \A s \in Stages : StageJob(P, s) \in Jobs
<1>1. PICK p \in Plans, c \in Stages \cup {0}, n \in 0 .. MaxFaults :
         worker.job = Coordinator(p, c, n)
  BY DEF Coordinators
<1>2. P = p
  BY <1>1 DEF P, Coordinator
<1>3. worker.job \in Jobs /\ worker.job \notin StageJobs
  BY <1>1 DEF Jobs, StageJobs, Coordinators, StageJob, Coordinator
<1>4. P \in Nat
  BY <1>2, ControlAssumption DEF Plans
<1>5. \A s \in Stages : StageJob(P, s) \in Jobs
  BY <1>2 DEF Jobs, StageJobs
<1> QED
  BY <1>2, <1>3, <1>4, <1>5

LEMMA SettlesPair ==
    ASSUME NEW a \in Op, NEW b \in Op, Fits(a)', Fits(b)', Quiet(a), Quiet(b),
           a[1] # "finish", b[1] # "finish"
    PROVE  Settles(<<a, b>>)
<1>1. PICK q : q = <<a, b>>
  OBVIOUS
<1>2. q \in Seq(Op) /\ Len(q) = 2 /\ q[1] = a /\ q[2] = b
  BY <1>1
<1>3. \A i \in 1 .. Len(q) : i = 1 \/ i = 2
  BY <1>2
<1>4. \A i \in 1 .. Len(q) : Fits(q[i])' /\ Quiet(q[i]) /\ q[i][1] # "finish"
  <2> SUFFICES ASSUME NEW i \in 1 .. Len(q)
               PROVE  Fits(q[i])' /\ Quiet(q[i]) /\ q[i][1] # "finish"
    OBVIOUS
  <2>1. CASE i = 1
    BY <1>2, <2>1
  <2>2. CASE i = 2
    BY <1>2, <2>2
  <2> QED
    BY <1>3, <2>1, <2>2
<1>5. Settles(q)
  BY <1>2, <1>4 DEF Settles
<1> QED
  BY <1>1, <1>5

(* What follows the end of a stage that no control addresses.              *)
LEMMA AfterTerminalSettles ==
    ASSUME IInv, worker.job \in StageJobs, Known(worker.job)',
           worker'.job = worker.job, worker'.phase \in {"handle", "recover"},
           Committed' \in Int, faults' \in Int, NEW status \in TerminalAttempt
    PROVE  Settles(AfterTerminal(status))
<1>1. PICK j : j = Coordinator(P, S, 0)
  OBVIOUS
<1>2. Known(j)' /\ j \in Jobs
  <2>1. worker.job = StageJob(P, S) /\ Coordinator(P, S, 0) \in Jobs
    BY JobOfStage
  <2>2. worker.job[2] = P /\ worker.job[4] = 0 /\ j[2] = P /\ j[4] = 0
    BY <1>1, <2>1 DEF StageJob, Coordinator
  <2> QED
    BY <1>1, <2>1, <2>2 DEF Known
<1>3. Settles(<<<<"enqueue", j>>, <<"deliver", "succeeded">>>>)
  <2> DEFINE e == <<"enqueue", j>>
             d == <<"deliver", "succeeded">>
  <2>1. e \in Op /\ Fits(e)' /\ Quiet(e)
    BY <1>2, OpsAre, FitAnywhere, QuietOps
  <2>2. d \in Op /\ Fits(d)' /\ Quiet(d)
    BY OpsAre, FitAnywhere, QuietOps DEF Delivered
  <2>3. e[1] # "finish" /\ d[1] # "finish"
    OBVIOUS
  <2> HIDE DEF e, d
  <2>4. Settles(<<e, d>>)
    BY <2>1, <2>2, <2>3, SettlesPair
  <2> QED
    BY <2>4 DEF e, d
<1>4. ASSUME NEW t \in FinishTarget, t \notin {"canceled", "succeeded"},
             NEW x \in {"completed", "failed", "canceled"}
      PROVE  Settles(Finish(t) \o Close(x, "succeeded"))
  <2> DEFINE e == <<"execution", x>>
             d == <<"deliver", "succeeded">>
  <2>1. e \in Op /\ Fits(e)' /\ Quiet(e)
    BY OpsAre, FitStage, QuietOps
  <2>2. d \in Op /\ Fits(d)' /\ Quiet(d)
    BY OpsAre, FitAnywhere, QuietOps DEF Delivered
  <2>3. e[1] # "finish" /\ d[1] # "finish"
    OBVIOUS
  <2>4. Close(x, "succeeded") = <<e, d>>
    BY DEF Close
  <2> HIDE DEF e, d
  <2>5. Settles(Close(x, "succeeded"))
    BY <2>1, <2>2, <2>3, <2>4, SettlesPair
  <2>6. Settles(Finish(t))
    BY <1>4, SettlesFinish
  <2> QED
    BY <2>5, <2>6, SettlesTogether
<1>5. CASE status = "pass"
  BY <1>1, <1>3, <1>5 DEF AfterTerminal
<1>6. CASE status = "needs_repair"
  <2>1. AfterTerminal(status) = Finish("waiting_continuation") \o Close("completed", "succeeded")
    BY <1>6 DEF AfterTerminal
  <2> QED
    BY <1>4, <2>1 DEF FinishTarget, FinishedRun
<1>7. CASE status = "reject"
  <2>1. AfterTerminal(status) = Finish("failed_terminal") \o Close("failed", "succeeded")
    BY <1>7 DEF AfterTerminal
  <2> QED
    BY <1>4, <2>1 DEF FinishTarget, FinishedRun
<1>8. CASE status = "infra_failed"
  <2>1. AfterTerminal(status) = Finish("failed_recoverable") \o Close("failed", "succeeded")
    BY <1>8 DEF AfterTerminal
  <2> QED
    BY <1>4, <2>1 DEF FinishTarget, FinishedRun
<1>9. CASE status = "interrupted"
  <2>1. AfterTerminal(status) = Finish("interrupted") \o Close("failed", "succeeded")
    BY <1>9 DEF AfterTerminal
  <2> QED
    BY <1>4, <2>1 DEF FinishTarget, FinishedRun
<1>10. CASE status = "canceled"
  <2>1. AfterTerminal(status) = Finish("failed_recoverable") \o Close("canceled", "succeeded")
    BY <1>10 DEF AfterTerminal
  <2> QED
    BY <1>4, <2>1 DEF FinishTarget, FinishedRun
<1> QED
  BY <1>5, <1>6, <1>7, <1>8, <1>9, <1>10 DEF TerminalAttempt, Completed

LEMMA RestoreTerminalInvariant == ASSUME IInv, RestoreTerminal PROVE IInv'
<1>1. At("after") /\ SameRows
  BY DEF RestoreTerminal, SameRows
<1>2. /\ Left[1] \in Op /\ Left[1][1] = "after" /\ Head(worker.plan) = Left[1] /\ Fits(Left[1])
      /\ worker.phase \in {"handle", "recover"} /\ Known(worker.job)
  BY <1>1, Acting
<1>3. PICK status \in TerminalAttempt : status = Arg(2)
  BY <1>2, OpFacts DEF Arg
<1>4. worker.job \in StageJobs
  BY <1>2 DEF Fits, OfStage, StageOps
<1>5. PICK q : q = AfterTerminal(status)
  OBVIOUS
<1>6. worker' = [worker EXCEPT !.plan = q]
  BY <1>3, <1>5 DEF RestoreTerminal, Divert
<1>7. worker'.job = worker.job /\ worker'.phase = worker.phase /\ worker'.plan = q
  BY <1>6, Replanned
<1>8. Known(worker.job)' /\ Committed' \in Int /\ faults' \in Int
  BY <1>1, <1>2, <1>7, RowsStay, Numbers DEF Stays, Known, SameRows
<1>9. Settles(q)
  BY <1>2, <1>4, <1>5, <1>7, <1>8, AfterTerminalSettles
<1>10. q \in Seq(Op) /\ PlanFits' /\ \A i \in 1 .. Len(q) : Harmless(q[i])
  BY <1>7, <1>9, SettledPlan
<1>11. ~Closes(Left[1])
  BY <1>2 DEF Closes
<1> QED
  BY <1>1, <1>6, <1>10, <1>11, DivertInvariant

-----------------------------------------------------------------------------
(* Plans that acknowledge a control.                                       *)

LEMMA AckFacts ==
    ASSUME NEW c \in Controls, control'[c] # "absent", worker'.phase \in {"handle", "recover"}
    PROVE  LET k == <<"control", c, "acknowledged">>
           IN  /\ k \in Op /\ Fits(k)' /\ Harmless(k) /\ ~Succeeds(k) /\ ~Halts(k)
               /\ k[1] = "control" /\ k[2] = c /\ k # <<"pause_run">>
BY OpsAre, FitAnywhere, QuietOps DEF Outcome, Succeeds, Halts, Cancels

LEMMA QuietElse ==
    ASSUME NEW op, Quiet(op) \/ Halts(op)
    PROVE  ~Succeeds(op) /\ ~Acknowledges(op) /\ op[1] \notin {"decide", "complete"}
           /\ op # <<"pause_run">>
BY QuietNever DEF Halts, Cancels, Succeeds, Acknowledges

(* The Run is canceled, and then the terminate acknowledged.               *)
LEMMA TerminatePlan ==
    ASSUME NEW c \in Controls, control'[c] # "absent", Action[c] = "terminate",
           worker'.phase = "handle", worker'.job \in StageJobs,
           NEW from \in {"queued", "running"}, NEW to \in TerminalAttempt,
           NEW q, worker'.plan = q, q \in Seq(Op), Len(q) = 5,
           q[1] = <<"attempt", from, to>>, q[2] = <<"read">>, q[3] = <<"finish", "canceled">>,
           q[4] = <<"control", c, "acknowledged">>, q[5] = <<"deliver", "canceled">>
    PROVE  PlanFits'
<1> DEFINE f == <<"finish", "canceled">>
           k == <<"control", c, "acknowledged">>
<1>1. \A i \in 1 .. Len(q) : i = 1 \/ i = 2 \/ i = 3 \/ i = 4 \/ i = 5
  OBVIOUS
<1>2. /\ Fits(q[1])' /\ Quiet(q[1]) /\ Fits(q[2])' /\ Quiet(q[2])
      /\ Fits(q[5])' /\ Quiet(q[5])
      /\ q[1][1] # "finish" /\ q[2][1] # "finish" /\ q[5][1] # "finish"
  BY FitAnywhere, FitStage, QuietOps DEF Delivered
<1>3. Fits(q[3])' /\ Halts(q[3]) /\ Cancels(q[3]) /\ q[3] # <<"pause_run">> /\ Does(q[3], c)'
  <2>1. Fits(f)'
    BY FitAnywhere DEF FinishTarget, FinishedRun
  <2>2. Halts(f) /\ Cancels(f) /\ f # <<"pause_run">> /\ Does(f, c)'
    BY DEF Halts, Cancels, Does
  <2> QED
    BY <2>1, <2>2
<1>4. /\ Fits(q[4])' /\ Harmless(q[4]) /\ ~Succeeds(q[4]) /\ ~Halts(q[4])
      /\ q[4][1] = "control" /\ q[4][2] = c /\ q[4] # <<"pause_run">>
  BY AckFacts
<1>5. \A i \in 1 .. Len(q) : Fits(q[i])' /\ ~Succeeds(q[i]) /\ q[i][1] \notin {"decide", "complete"}
  BY <1>1, <1>2, <1>3, <1>4, QuietElse
<1>6. \A i \in 1 .. Len(q) : Acknowledges(q[i]) =>
         Done(q[i][2])' \/ \E m \in 1 .. i - 1 : Does(q[m], q[i][2])'
  <2> SUFFICES ASSUME NEW i \in 1 .. Len(q), Acknowledges(q[i])
               PROVE  \E m \in 1 .. i - 1 : Does(q[m], q[i][2])'
    OBVIOUS
  <2>1. i = 4
    BY <1>1, <1>2, <1>3, QuietElse
  <2>2. 3 \in 1 .. i - 1 /\ q[i][2] = c
    BY <1>4, <2>1
  <2> QED
    BY <1>3, <2>2
<1>7. \A i \in 1 .. Len(q) : Halts(q[i]) \/ q[i] = <<"pause_run">> =>
         \A m \in i + 1 .. Len(q) : Harmless(q[m])
  <2> SUFFICES ASSUME NEW i \in 1 .. Len(q), Halts(q[i]) \/ q[i] = <<"pause_run">>,
                      NEW m \in i + 1 .. Len(q)
               PROVE  Harmless(q[m])
    OBVIOUS
  <2>1. i = 3
    BY <1>1, <1>2, <1>4, QuietNever
  <2>2. m = 4 \/ m = 5
    BY <2>1
  <2> QED
    BY <1>2, <1>4, <2>2, QuietNever
<1>8. \A i \in 1 .. Len(q) : q[i][1] = "finish" => i > 1 /\ q[i - 1] = <<"read">>
  <2> SUFFICES ASSUME NEW i \in 1 .. Len(q), q[i][1] = "finish"
               PROVE  i > 1 /\ q[i - 1] = <<"read">>
    OBVIOUS
  <2>1. i = 3
    BY <1>1, <1>2, <1>4
  <2>2. i > 1 /\ i - 1 = 2
    BY <2>1
  <2> QED
    BY <2>2
<1> QED
  BY <1>5, <1>6, <1>7, <1>8, FreshPlan

(* A plan that halts the Run with its operation h, or not at all.          *)
LEMMA HaltingPlan ==
    ASSUME NEW q \in Seq(Op), worker'.plan = q, NEW h \in Nat,
           \A i \in 1 .. Len(q) :
               /\ Fits(q[i])' /\ ~Succeeds(q[i])
               /\ q[i][1] \notin {"decide", "complete", "finish"}
               /\ Acknowledges(q[i]) => Done(q[i][2])' \/ (i > 1 /\ Does(q[1], q[i][2])')
               /\ i < h => ~Halts(q[i]) /\ q[i] # <<"pause_run">>
               /\ i > h => Harmless(q[i])
    PROVE  PlanFits'
<1>1. Len(q) \in Nat
  OBVIOUS
<1>2. \A op \in Op : Harmless(op) => ~Halts(op) /\ op # <<"pause_run">>
  BY DEF Harmless, Halts, Cancels
<1>3. \A i \in 1 .. Len(q) : Halts(q[i]) \/ q[i] = <<"pause_run">> =>
         \A m \in i + 1 .. Len(q) : Harmless(q[m])
  <2> SUFFICES ASSUME NEW i \in 1 .. Len(q), Halts(q[i]) \/ q[i] = <<"pause_run">>,
                      NEW m \in i + 1 .. Len(q)
               PROVE  Harmless(q[m])
    OBVIOUS
  <2>1. ~Harmless(q[i])
    <3>1. q[i] \in Op
      OBVIOUS
    <3> QED
      BY <1>2, <3>1
  <2>2. i = h
    BY <1>1, <2>1
  <2>3. m \in 1 .. Len(q) /\ m > h
    BY <1>1, <2>2
  <2> QED
    BY <2>3
<1>4. \A i \in 1 .. Len(q) : Acknowledges(q[i]) =>
         Done(q[i][2])' \/ \E m \in 1 .. i - 1 : Does(q[m], q[i][2])'
  <2> SUFFICES ASSUME NEW i \in 1 .. Len(q), Acknowledges(q[i])
               PROVE  Done(q[i][2])' \/ \E m \in 1 .. i - 1 : Does(q[m], q[i][2])'
    OBVIOUS
  <2>1. i > 1 => 1 \in 1 .. i - 1
    OBVIOUS
  <2> QED
    BY <2>1
<1> QED
  BY <1>3, <1>4, FreshPlan

LEMMA PauseFacts ==
    ASSUME NEW c \in Controls, Action[c] = "pause", control'[c] # "absent",
           worker'.phase = "handle"
    PROVE  /\ Fits(<<"move", "pausing">>)' /\ Fits(<<"move", "paused">>)'
           /\ <<"move", "pausing">> \in Op /\ <<"move", "paused">> \in Op
           /\ ~Halts(<<"move", "pausing">>) /\ Done(c)'
           /\ ~Succeeds(<<"move", "pausing">>) /\ ~Succeeds(<<"move", "paused">>)
           /\ ~Acknowledges(<<"move", "pausing">>) /\ ~Acknowledges(<<"move", "paused">>)
BY FitAnywhere, OpsAre DEF MoveTarget, Halts, Cancels, Done, Succeeds, Acknowledges

(* ackQueuedPause.                                                          *)
LEMMA QueuedPausePlan ==
    ASSUME NEW c \in Controls, control'[c] # "absent", Action[c] = "pause",
           worker'.phase = "handle", NEW q, worker'.plan = q, q \in Seq(Op), Len(q) = 4,
           q[1] = <<"move", "pausing">>, q[2] = <<"move", "paused">>,
           q[3] = <<"control", c, "acknowledged">>, q[4] = <<"deliver", "interrupted">>
    PROVE  PlanFits'
<1>1. \A i \in 1 .. Len(q) : i = 1 \/ i = 2 \/ i = 3 \/ i = 4
  OBVIOUS
<1>2. /\ Fits(q[1])' /\ Fits(q[2])' /\ ~Halts(q[1]) /\ Done(c)'
      /\ ~Succeeds(q[1]) /\ ~Succeeds(q[2]) /\ ~Acknowledges(q[1]) /\ ~Acknowledges(q[2])
  BY PauseFacts
<1>3. /\ Fits(q[3])' /\ Harmless(q[3]) /\ ~Succeeds(q[3]) /\ ~Halts(q[3])
      /\ q[3][1] = "control" /\ q[3][2] = c /\ q[3] # <<"pause_run">>
  BY AckFacts
<1>a. Done(q[3][2])'
  BY <1>3 DEF Done
<1>4. Fits(q[4])' /\ Quiet(q[4]) /\ Harmless(q[4]) /\ ~Succeeds(q[4]) /\ ~Acknowledges(q[4])
  BY FitAnywhere, QuietOps, QuietNever DEF Delivered
<1>5. q[1][1] = "move" /\ q[2][1] = "move" /\ q[4][1] = "deliver" /\ q[1] # <<"pause_run">>
  OBVIOUS
<1> DEFINE Holds(i) ==
         /\ Fits(q[i])' /\ ~Succeeds(q[i])
         /\ q[i][1] \notin {"decide", "complete", "finish"}
         /\ Acknowledges(q[i]) => Done(q[i][2])' \/ (i > 1 /\ Does(q[1], q[i][2])')
         /\ i < 2 => ~Halts(q[i]) /\ q[i] # <<"pause_run">>
         /\ i > 2 => Harmless(q[i])
<1>6. Holds(1)
  BY <1>2, <1>3, <1>4, <1>5
<1>7. Holds(2)
  BY <1>2, <1>3, <1>4, <1>5
<1>8. Holds(3)
  BY <1>a, <1>2, <1>3, <1>4, <1>5
<1>9. Holds(4)
  BY <1>2, <1>3, <1>4, <1>5
<1> HIDE DEF Holds
<1>10. \A i \in 1 .. Len(q) : Holds(i)
  BY <1>1, <1>6, <1>7, <1>8, <1>9
<1> QED
  BY <1>10, HaltingPlan DEF Holds

(* ackQueuedTermination.                                                    *)
LEMMA QueuedTerminatePlan ==
    ASSUME NEW c \in Controls, control'[c] # "absent", Action[c] = "terminate",
           worker'.phase = "handle", NEW q, worker'.plan = q, q \in Seq(Op), Len(q) = 3,
           q[1] = <<"move", "canceled">>,
           q[2] = <<"control", c, "acknowledged">>, q[3] = <<"deliver", "canceled">>
    PROVE  PlanFits'
<1>1. \A i \in 1 .. Len(q) : i = 1 \/ i = 2 \/ i = 3
  OBVIOUS
<1>2. Fits(q[1])' /\ Does(q[1], c)' /\ ~Succeeds(q[1]) /\ ~Acknowledges(q[1])
      /\ q[1][1] = "move"
  <2>1. Fits(<<"move", "canceled">>)'
    BY FitAnywhere DEF MoveTarget
  <2> QED
    BY <2>1 DEF Does, Cancels, Succeeds, Acknowledges
<1>3. /\ Fits(q[2])' /\ Harmless(q[2]) /\ ~Succeeds(q[2]) /\ ~Halts(q[2])
      /\ q[2][1] = "control" /\ q[2][2] = c /\ q[2] # <<"pause_run">>
  BY AckFacts
<1>4. Fits(q[3])' /\ Quiet(q[3]) /\ Harmless(q[3]) /\ ~Succeeds(q[3]) /\ ~Acknowledges(q[3])
      /\ q[3][1] = "deliver"
  BY FitAnywhere, QuietOps, QuietNever DEF Delivered
<1>5. \A i \in 1 .. Len(q) :
         /\ Fits(q[i])' /\ ~Succeeds(q[i])
         /\ q[i][1] \notin {"decide", "complete", "finish"}
         /\ Acknowledges(q[i]) => Done(q[i][2])' \/ (i > 1 /\ Does(q[1], q[i][2])')
         /\ i < 1 => ~Halts(q[i]) /\ q[i] # <<"pause_run">>
         /\ i > 1 => Harmless(q[i])
  BY <1>1, <1>2, <1>3, <1>4
<1> QED
  BY <1>5, HaltingPlan

(* A pause at the boundary of a stage: its attempt is interrupted first.   *)
LEMMA BoundaryPausePlan ==
    ASSUME NEW c \in Controls, control'[c] # "absent", Action[c] = "pause",
           worker'.phase = "handle", worker'.job \in StageJobs,
           NEW q, worker'.plan = q, q \in Seq(Op), Len(q) = 6,
           q[1] = <<"attempt", "queued", "running">>,
           q[2] = <<"attempt", "running", "interrupted">>,
           q[3] = <<"move", "pausing">>, q[4] = <<"move", "paused">>,
           q[5] = <<"control", c, "acknowledged">>, q[6] = <<"deliver", "interrupted">>
    PROVE  PlanFits'
<1>1. \A i \in 1 .. Len(q) : i = 1 \/ i = 2 \/ i = 3 \/ i = 4 \/ i = 5 \/ i = 6
  OBVIOUS
<1>2. /\ Fits(q[3])' /\ Fits(q[4])' /\ ~Halts(q[3]) /\ Done(c)'
      /\ ~Succeeds(q[3]) /\ ~Succeeds(q[4]) /\ ~Acknowledges(q[3]) /\ ~Acknowledges(q[4])
  BY PauseFacts
<1>3. /\ Fits(q[5])' /\ Harmless(q[5]) /\ ~Succeeds(q[5]) /\ ~Halts(q[5])
      /\ q[5][1] = "control" /\ q[5][2] = c /\ q[5] # <<"pause_run">>
  BY AckFacts
<1>a. Done(q[5][2])'
  BY <1>3 DEF Done
<1>4. Fits(q[6])' /\ Quiet(q[6]) /\ Harmless(q[6]) /\ ~Succeeds(q[6]) /\ ~Acknowledges(q[6])
  BY FitAnywhere, QuietOps, QuietNever DEF Delivered
<1>5. /\ Fits(q[1])' /\ Quiet(q[1]) /\ ~Halts(q[1]) /\ ~Succeeds(q[1]) /\ ~Acknowledges(q[1])
      /\ Fits(q[2])' /\ Quiet(q[2]) /\ ~Halts(q[2]) /\ ~Succeeds(q[2]) /\ ~Acknowledges(q[2])
  BY FitStage, QuietOps, QuietNever
<1>6. /\ q[1][1] = "attempt" /\ q[2][1] = "attempt" /\ q[3][1] = "move" /\ q[4][1] = "move"
      /\ q[6][1] = "deliver"
      /\ q[1] # <<"pause_run">> /\ q[2] # <<"pause_run">> /\ q[3] # <<"pause_run">>
  OBVIOUS
<1> DEFINE Holds(i) ==
         /\ Fits(q[i])' /\ ~Succeeds(q[i])
         /\ q[i][1] \notin {"decide", "complete", "finish"}
         /\ Acknowledges(q[i]) => Done(q[i][2])' \/ (i > 1 /\ Does(q[1], q[i][2])')
         /\ i < 4 => ~Halts(q[i]) /\ q[i] # <<"pause_run">>
         /\ i > 4 => Harmless(q[i])
<1>7. Holds(1)
  BY <1>2, <1>3, <1>4, <1>5, <1>6
<1>8. Holds(2)
  BY <1>2, <1>3, <1>4, <1>5, <1>6
<1>9. Holds(3)
  BY <1>2, <1>3, <1>4, <1>5, <1>6
<1>10. Holds(4)
  BY <1>2, <1>3, <1>4, <1>5, <1>6
<1>11. Holds(5)
  BY <1>a, <1>2, <1>3, <1>4, <1>5, <1>6
<1>12. Holds(6)
  BY <1>2, <1>3, <1>4, <1>5, <1>6
<1> HIDE DEF Holds
<1>13. \A i \in 1 .. Len(q) : Holds(i)
  BY <1>1, <1>7, <1>8, <1>9, <1>10, <1>11, <1>12
<1> QED
  BY <1>13, HaltingPlan DEF Holds

(* A pause held while the stage ran.                                       *)
LEMMA HeldPausePlan ==
    ASSUME NEW c \in Controls, control'[c] # "absent", Action[c] = "pause",
           worker'.phase = "handle", worker'.job \in StageJobs, NEW to,
           NEW q, worker'.plan = q, q \in Seq(Op), Len(q) = 5,
           q[1] = <<"attempt", "running", to>>, q[2] = <<"read">>, q[3] = <<"pause_run">>,
           q[4] = <<"control", c, "acknowledged">>, q[5] = <<"deliver", "interrupted">>
    PROVE  PlanFits'
<1>1. \A i \in 1 .. Len(q) : i = 1 \/ i = 2 \/ i = 3 \/ i = 4 \/ i = 5
  OBVIOUS
<1>2. Fits(q[3])' /\ Done(c)' /\ ~Succeeds(q[3]) /\ ~Acknowledges(q[3])
  BY FitStage DEF Done, Succeeds, Acknowledges
<1>3. /\ Fits(q[4])' /\ Harmless(q[4]) /\ ~Succeeds(q[4]) /\ ~Halts(q[4])
      /\ q[4][1] = "control" /\ q[4][2] = c /\ q[4] # <<"pause_run">>
  BY AckFacts
<1>a. Done(q[4][2])'
  BY <1>3 DEF Done
<1>4. Fits(q[5])' /\ Quiet(q[5]) /\ Harmless(q[5]) /\ ~Succeeds(q[5]) /\ ~Acknowledges(q[5])
  BY FitAnywhere, QuietOps, QuietNever DEF Delivered
<1>5. /\ Fits(q[1])' /\ Quiet(q[1]) /\ ~Halts(q[1]) /\ ~Succeeds(q[1]) /\ ~Acknowledges(q[1])
      /\ Fits(q[2])' /\ Quiet(q[2]) /\ ~Halts(q[2]) /\ ~Succeeds(q[2]) /\ ~Acknowledges(q[2])
  BY FitStage, FitAnywhere, QuietOps, QuietNever
<1>6. /\ q[1][1] = "attempt" /\ q[2][1] = "read" /\ q[3][1] = "pause_run" /\ q[5][1] = "deliver"
      /\ q[1] # <<"pause_run">> /\ q[2] # <<"pause_run">>
  OBVIOUS
<1> DEFINE Holds(i) ==
         /\ Fits(q[i])' /\ ~Succeeds(q[i])
         /\ q[i][1] \notin {"decide", "complete", "finish"}
         /\ Acknowledges(q[i]) => Done(q[i][2])' \/ (i > 1 /\ Does(q[1], q[i][2])')
         /\ i < 3 => ~Halts(q[i]) /\ q[i] # <<"pause_run">>
         /\ i > 3 => Harmless(q[i])
<1>7. Holds(1)
  BY <1>2, <1>3, <1>4, <1>5, <1>6
<1>8. Holds(2)
  BY <1>2, <1>3, <1>4, <1>5, <1>6
<1>9. Holds(3)
  BY <1>2, <1>3, <1>4, <1>5, <1>6
<1>10. Holds(4)
  BY <1>a, <1>2, <1>3, <1>4, <1>5, <1>6
<1>11. Holds(5)
  BY <1>2, <1>3, <1>4, <1>5, <1>6
<1> HIDE DEF Holds
<1>12. \A i \in 1 .. Len(q) : Holds(i)
  BY <1>1, <1>7, <1>8, <1>9, <1>10, <1>11
<1> QED
  BY <1>12, HaltingPlan DEF Holds

\* A stage is ended, and then its cancellation by c acknowledged.
EndsAndAcks(q, c, rest) ==
    /\ q \in Seq(Op) /\ Len(q) = Len(rest) + 2
    /\ \E from, to : q[1] = <<"attempt", from, to>> /\ to \in TerminalAttempt
    /\ q[2] = <<"control", c, "acknowledged">>
    /\ \A i \in 1 .. Len(rest) : q[i + 2] = rest[i]

(* The attempt it ends is the one the control addresses.                   *)
LEMMA CancelPlan ==
    ASSUME NEW c \in Controls, control'[c] # "absent", Action[c] = "cancel_stage",
           Target[c] = S', base'[c] = P',
           worker'.phase = "handle", worker'.job \in StageJobs,
           NEW rest, Settles(rest),
           NEW q, worker'.plan = q, EndsAndAcks(q, c, rest)
    PROVE  PlanFits' /\ \A i \in 1 .. Len(q) : Harmless(q[i])
<1>. /\ q \in Seq(Op) /\ Len(q) = Len(rest) + 2 /\ q[2] = <<"control", c, "acknowledged">>
      /\ \A i \in 1 .. Len(rest) : q[i + 2] = rest[i]
  BY DEF EndsAndAcks
<1>. PICK from, to : q[1] = <<"attempt", from, to>> /\ to \in TerminalAttempt
  BY DEF EndsAndAcks
<1>1. Len(rest) \in Nat
  BY DEF Settles
<1>2. /\ Fits(q[1])' /\ Quiet(q[1]) /\ Does(q[1], c)' /\ q[1][1] = "attempt"
  BY FitStage, QuietOps DEF Does
<1>3. /\ Fits(q[2])' /\ Harmless(q[2]) /\ ~Succeeds(q[2]) /\ ~Halts(q[2])
      /\ q[2][1] = "control" /\ q[2][2] = c /\ q[2] # <<"pause_run">>
  BY AckFacts
<1>4. ASSUME NEW i \in 1 .. Len(q), i # 1, i # 2
      PROVE  /\ Fits(q[i])' /\ Quiet(q[i])
             /\ q[i][1] = "finish" => i > 1 /\ q[i - 1] = <<"read">>
  <2>1. PICK k \in 1 .. Len(rest) : i = k + 2
    <3>1. i - 2 \in 1 .. Len(rest) /\ i = (i - 2) + 2
      BY <1>1, <1>4
    <3> QED
      BY <3>1
  <2>2. /\ Fits(rest[k])' /\ Quiet(rest[k])
        /\ rest[k][1] = "finish" => k > 1 /\ rest[k - 1] = <<"read">>
    BY DEF Settles
  <2>3. q[i] = rest[k]
    BY <2>1
  <2>4. k > 1 => q[i - 1] = rest[k - 1]
    <3>1. k > 1 => k - 1 \in 1 .. Len(rest) /\ i - 1 = (k - 1) + 2
      BY <1>1, <2>1
    <3> QED
      BY <3>1
  <2>5. i > 1
    BY <1>1, <2>1
  <2> QED
    BY <2>2, <2>3, <2>4, <2>5
<1>5. \A i \in 1 .. Len(q) :
         /\ Fits(q[i])' /\ ~Succeeds(q[i]) /\ q[i][1] \notin {"decide", "complete"}
         /\ Harmless(q[i]) /\ ~Halts(q[i]) /\ q[i] # <<"pause_run">>
         /\ q[i][1] = "finish" => i > 1 /\ q[i - 1] = <<"read">>
         /\ Acknowledges(q[i]) => i = 2
  <2> SUFFICES ASSUME NEW i \in 1 .. Len(q)
               PROVE  /\ Fits(q[i])' /\ ~Succeeds(q[i]) /\ q[i][1] \notin {"decide", "complete"}
                      /\ Harmless(q[i]) /\ ~Halts(q[i]) /\ q[i] # <<"pause_run">>
                      /\ q[i][1] = "finish" => i > 1 /\ q[i - 1] = <<"read">>
                      /\ Acknowledges(q[i]) => i = 2
    OBVIOUS
  <2>1. CASE i = 1
    BY <1>2, <2>1, QuietNever
  <2>2. CASE i = 2
    BY <1>3, <2>2
  <2>3. CASE i # 1 /\ i # 2
    BY <1>4, <2>3, QuietNever
  <2> QED
    BY <2>1, <2>2, <2>3
<1>6. \A i \in 1 .. Len(q) : Acknowledges(q[i]) =>
         Done(q[i][2])' \/ \E m \in 1 .. i - 1 : Does(q[m], q[i][2])'
  <2> SUFFICES ASSUME NEW i \in 1 .. Len(q), Acknowledges(q[i])
               PROVE  \E m \in 1 .. i - 1 : Does(q[m], q[i][2])'
    OBVIOUS
  <2>1. i = 2
    BY <1>5
  <2>2. 1 \in 1 .. i - 1 /\ q[i][2] = c
    BY <1>3, <2>1
  <2> QED
    BY <1>2, <2>2
<1>7. PlanFits'
  BY <1>5, <1>6, FreshPlan
<1> QED
  BY <1>5, <1>7

(* A stage is started.                                                      *)
LEMMA StartPlan ==
    ASSUME worker'.phase = "handle", worker'.job \in StageJobs, worker'.plan = Start
    PROVE  Start \in Seq(Op) /\ PlanFits'
<1>1. PICK q : q = Start
  OBVIOUS
<1>2. /\ q \in Seq(Op) /\ Len(q) = 2 /\ q[1] = <<"attempt", "queued", "running">>
      /\ q[2] = <<"execute">>
  BY <1>1, OpsAre DEF Start, Plain
<1>3. \A i \in 1 .. Len(q) : i = 1 \/ i = 2
  BY <1>2
<1>4. Fits(q[1])' /\ Fits(q[2])'
  BY <1>2, FitStage
<1>5. /\ ~Succeeds(q[1]) /\ ~Acknowledges(q[1]) /\ ~Halts(q[1]) /\ q[1] # <<"pause_run">>
      /\ q[1][1] \notin {"decide", "complete", "finish"}
      /\ ~Succeeds(q[2]) /\ ~Acknowledges(q[2]) /\ ~Halts(q[2]) /\ q[2] # <<"pause_run">>
      /\ q[2][1] \notin {"decide", "complete", "finish"}
  BY <1>2 DEF Succeeds, Acknowledges, Halts, Cancels
<1>6. \A i \in 1 .. Len(q) :
         /\ Fits(q[i])' /\ ~Succeeds(q[i]) /\ ~Acknowledges(q[i])
         /\ q[i][1] \notin {"decide", "complete", "finish"}
         /\ ~Halts(q[i]) /\ q[i] # <<"pause_run">>
  BY <1>3, <1>4, <1>5
<1>7. \A i \in 1 .. Len(q) : ~(i > 3)
  BY <1>3
<1> QED
  BY <1>1, <1>2, <1>6, <1>7, HaltingPlan

(* A pause found before a stage is started.                                *)
LEMMA BoundaryPlan ==
    ASSUME NEW c \in Controls, control'[c] # "absent", Action[c] = "pause",
           worker'.phase = "handle", worker'.job \in StageJobs,
           NEW q, worker'.plan = q, q \in Seq(Op), Len(q) = 2,
           q[1] = <<"read">>, q[2] = <<"boundary_pause", c>>
    PROVE  PlanFits'
<1>1. \A i \in 1 .. Len(q) : i = 1 \/ i = 2
  OBVIOUS
<1>2. Fits(q[1])' /\ Fits(q[2])'
  BY FitStage, FitAnywhere
<1>3. /\ ~Succeeds(q[1]) /\ ~Acknowledges(q[1]) /\ ~Halts(q[1]) /\ q[1] # <<"pause_run">>
      /\ q[1][1] \notin {"decide", "complete", "finish"}
      /\ ~Succeeds(q[2]) /\ ~Acknowledges(q[2]) /\ ~Halts(q[2]) /\ q[2] # <<"pause_run">>
      /\ q[2][1] \notin {"decide", "complete", "finish"}
  BY DEF Succeeds, Acknowledges, Halts, Cancels
<1>4. \A i \in 1 .. Len(q) :
         /\ Fits(q[i])' /\ ~Succeeds(q[i]) /\ ~Acknowledges(q[i])
         /\ q[i][1] \notin {"decide", "complete", "finish"}
         /\ ~Halts(q[i]) /\ q[i] # <<"pause_run">>
  BY <1>1, <1>2, <1>3
<1>5. \A i \in 1 .. Len(q) : ~(i > 3)
  BY <1>1
<1> QED
  BY <1>4, <1>5, HaltingPlan

(* A stage job just claimed.                                                *)
LEMMA LoadStagePlan ==
    ASSUME worker'.phase = "handle", worker'.job \in StageJobs, worker'.plan = <<<<"load">>>>
    PROVE  <<<<"load">>>> \in Seq(Op) /\ PlanFits'
<1>1. PICK q : q = <<<<"load">>>>
  OBVIOUS
<1>2. q \in Seq(Op) /\ Len(q) = 1 /\ q[1] = <<"load">>
  BY <1>1, OpsAre DEF Plain
<1>3. \A i \in 1 .. Len(q) : q[i] = <<"load">> /\ ~(i > 1) /\ i = 1
  BY <1>2
<1>4. Fits(<<"load">>)'
  BY FitStage
<1>5. /\ ~Succeeds(<<"load">>) /\ ~Acknowledges(<<"load">>) /\ ~Halts(<<"load">>)
      /\ <<"load">> # <<"pause_run">> /\ <<"load">>[1] \notin {"decide", "complete", "finish"}
  BY DEF Succeeds, Acknowledges, Halts, Cancels
<1>6. \A i \in 1 .. Len(q) :
         /\ Fits(q[i])' /\ ~Succeeds(q[i]) /\ ~Acknowledges(q[i])
         /\ q[i][1] \notin {"decide", "complete", "finish"}
         /\ ~Halts(q[i]) /\ q[i] # <<"pause_run">>
  BY <1>3, <1>4, <1>5
<1> QED
  BY <1>1, <1>2, <1>3, <1>6, HaltingPlan

-----------------------------------------------------------------------------
(* The list of pending controls.                                           *)

LEMMA WithoutFacts ==
    ASSUME recent \in Seq(Controls), NEW c \in Controls,
           \A i, k \in 1 .. Len(recent) : recent[i] = recent[k] => i = k
    PROVE  \E r \in Seq(Controls) :
               /\ r = Without(c)
               /\ \A i, k \in 1 .. Len(r) : r[i] = r[k] => i = k
               /\ \A x : (\E k \in 1 .. Len(r) : r[k] = x) <=>
                            x # c /\ \E k \in 1 .. Len(recent) : recent[k] = x
<1>1. PICK p : p = recent
  OBVIOUS
<1>2. p \in Seq(Controls) /\ DOMAIN p = 1 .. Len(p) /\ DOMAIN recent = 1 .. Len(p)
  BY <1>1
<1>3. CASE \E i \in 1 .. Len(p) : p[i] = c
  <2>1. PICK i : i = CHOOSE k \in 1 .. Len(p) : p[k] = c
    OBVIOUS
  <2>2. i \in 1 .. Len(p) /\ p[i] = c
    BY <1>3, <2>1
  <2>3. Without(c) = RemoveAt(p, i)
    BY <1>1, <1>2, <1>3, <2>1 DEF Without
  <2>4. \A m, k \in 1 .. Len(p) : p[m] = p[k] => m = k
    BY <1>1
  <2>5. LET r == RemoveAt(p, i)
        IN  /\ r \in Seq(Controls)
            /\ \A m, k \in 1 .. Len(r) : r[m] = r[k] => m = k
            /\ \A x : (\E k \in 1 .. Len(r) : r[k] = x) <=>
                         x # p[i] /\ \E k \in 1 .. Len(p) : p[k] = x
    BY <1>2, <2>2, <2>4, RemoveAtRemoves
  <2>6. PICK r : r = RemoveAt(p, i)
    OBVIOUS
  <2>7. /\ r \in Seq(Controls) /\ r = Without(c)
        /\ \A m, k \in 1 .. Len(r) : r[m] = r[k] => m = k
        /\ \A x : (\E k \in 1 .. Len(r) : r[k] = x) <=>
                     x # p[i] /\ \E k \in 1 .. Len(p) : p[k] = x
    BY <2>3, <2>5, <2>6
  <2> QED
    BY <1>1, <2>2, <2>7
<1>4. CASE ~\E i \in 1 .. Len(p) : p[i] = c
  <2>1. Without(c) = recent
    BY <1>1, <1>2, <1>4 DEF Without
  <2> QED
    BY <1>1, <1>4, <2>1
<1> QED
  BY <1>3, <1>4

LEMMA RecentIs ==
    ASSUME NEW q, recent' = q, \A i, k \in 1 .. Len(q) : q[i] = q[k] => i = k,
           \A d \in Controls : control'[d] \in Pending <=> \E i \in 1 .. Len(q) : q[i] = d
    PROVE  RecentFits'
BY DEF RecentFits

LEMMA WithoutKeeps ==
    ASSUME RecentFits, recent \in Seq(Controls), NEW c \in Controls
    PROVE  \E r \in Seq(Controls) :
               /\ r = Without(c)
               /\ \A i, k \in 1 .. Len(r) : r[i] = r[k] => i = k
               /\ \A k \in 1 .. Len(r) : r[k] # c
               /\ \A d \in Controls : (\E k \in 1 .. Len(r) : r[k] = d) <=>
                                         d # c /\ control[d] \in Pending
<1>2. \A i, k \in 1 .. Len(recent) : recent[i] = recent[k] => i = k
  BY DEF RecentFits
<1>3. PICK r \in Seq(Controls) :
          /\ r = Without(c)
          /\ \A i, k \in 1 .. Len(r) : r[i] = r[k] => i = k
          /\ \A x : (\E k \in 1 .. Len(r) : r[k] = x) <=>
                       x # c /\ \E k \in 1 .. Len(recent) : recent[k] = x
  BY <1>2, WithoutFacts
<1>4. \A d \in Controls : control[d] \in Pending <=> \E k \in 1 .. Len(recent) : recent[k] = d
  BY DEF RecentFits
<1>5. \A d \in Controls : (\E k \in 1 .. Len(r) : r[k] = d) <=> d # c /\ control[d] \in Pending
  BY <1>3, <1>4
<1>6. \A k \in 1 .. Len(r) : r[k] # c
  BY <1>3
<1> QED
  BY <1>3, <1>5, <1>6

(* The control that was written comes first, if it is pending.             *)
LEMMA RecentMoves ==
    ASSUME RecentFits, recent \in Seq(Controls), control \in [Controls -> ControlStatus],
           NEW c \in Controls, NEW status \in ControlStatus, SetControl(c, status)
    PROVE  RecentFits' /\ recent' \in Seq(Controls) /\ control' \in [Controls -> ControlStatus]
           /\ control'[c] = status /\ base' = base
           /\ \A d \in Controls : d # c => control'[d] = control[d]
<1>1. /\ control' = [control EXCEPT ![c] = status] /\ base' = base
      /\ recent' = (IF status \in Pending THEN <<c>> ELSE <<>>) \o Without(c)
  BY DEF SetControl
<1>2. /\ control' \in [Controls -> ControlStatus] /\ control'[c] = status
      /\ \A d \in Controls : d # c => control'[d] = control[d]
  BY <1>1
<1>3. PICK r \in Seq(Controls) :
          /\ r = Without(c)
          /\ \A i, k \in 1 .. Len(r) : r[i] = r[k] => i = k
          /\ \A k \in 1 .. Len(r) : r[k] # c
          /\ \A d \in Controls : (\E k \in 1 .. Len(r) : r[k] = d) <=>
                                    d # c /\ control[d] \in Pending
  BY WithoutKeeps
<1>4. r \in Seq(Controls) /\ Len(r) \in Nat /\ \A i, k \in 1 .. Len(r) : r[i] = r[k] => i = k
  BY <1>3
<1>5. \A x \in Controls : (\E k \in 1 .. Len(r) : r[k] = x) <=> x # c /\ control[x] \in Pending
  BY <1>3
<1>6. \A k \in 1 .. Len(r) : r[k] # c
  BY <1>3
<1>7. Len(r) \in Nat
  BY <1>4
<1>8. CASE status \in Pending
  <2>1. PICK q : q = <<c>> \o r
    OBVIOUS
  <2>2. /\ q \in Seq(Controls) /\ Len(q) = Len(r) + 1 /\ q[1] = c
        /\ \A i \in 1 .. Len(r) : q[i + 1] = r[i]
    BY <1>4, <2>1
  <2>3. \A i \in 1 .. Len(q) : i = 1 \/ \E k \in 1 .. Len(r) : i = k + 1 /\ q[i] = r[k]
    <3> SUFFICES ASSUME NEW i \in 1 .. Len(q), i # 1
                 PROVE  \E k \in 1 .. Len(r) : i = k + 1 /\ q[i] = r[k]
      OBVIOUS
    <3>1. i - 1 \in 1 .. Len(r) /\ i = (i - 1) + 1
      BY <1>7, <2>2
    <3> QED
      BY <2>2, <3>1
  <2>4. \A i, k \in 1 .. Len(q) : q[i] = q[k] => i = k
    <3> SUFFICES ASSUME NEW i \in 1 .. Len(q), NEW k \in 1 .. Len(q), q[i] = q[k]
                 PROVE  i = k
      OBVIOUS
    <3>1. CASE i = 1 \/ k = 1
      BY <1>6, <2>2, <2>3, <3>1
    <3>2. CASE i # 1 /\ k # 1
      BY <1>4, <2>3, <3>2
    <3> QED
      BY <3>1, <3>2
  <2>5. \A x : (\E i \in 1 .. Len(q) : q[i] = x) <=> x = c \/ \E k \in 1 .. Len(r) : r[k] = x
    <3>1. 1 \in 1 .. Len(q) /\ \A k \in 1 .. Len(r) : k + 1 \in 1 .. Len(q)
      BY <1>7, <2>2
    <3>2. ASSUME NEW x, NEW i \in 1 .. Len(q), q[i] = x
          PROVE  x = c \/ \E k \in 1 .. Len(r) : r[k] = x
      BY <2>2, <2>3, <3>2
    <3>3. ASSUME NEW x, NEW k \in 1 .. Len(r), r[k] = x
          PROVE  \E i \in 1 .. Len(q) : q[i] = x
      BY <2>2, <3>1, <3>3
    <3> QED
      BY <2>2, <3>1, <3>2, <3>3
  <2>6. recent' = q
    BY <1>1, <1>3, <1>8, <2>1
  <2>7. \A d \in Controls : control'[d] \in Pending <=> \E i \in 1 .. Len(q) : q[i] = d
    BY <1>2, <1>5, <1>8, <2>5
  <2> QED
    <3>1. RecentFits'
      BY <2>4, <2>6, <2>7, RecentIs
    <3> QED
      BY <1>1, <1>2, <2>2, <2>6, <3>1
<1>9. CASE status \notin Pending
  <2>1. recent' = r
    BY <1>1, <1>3, <1>4, <1>9
  <2>2. \A d \in Controls : control'[d] \in Pending <=> \E i \in 1 .. Len(r) : r[i] = d
    BY <1>2, <1>5, <1>9
  <2> QED
    <3>1. RecentFits'
      BY <1>4, <2>1, <2>2, RecentIs
    <3> QED
      BY <1>1, <1>2, <1>4, <2>1, <3>1
<1> QED
  BY <1>8, <1>9

(* A step of the worker that writes rows.                                  *)
LEMMA StepInvariant ==
    ASSUME IInv, RowShapes', PlansFit', QueueFits', RecentFits', JobsFit',
           AcknowledgedIsDone', SucceededMeansPassed', Stays,
           worker.phase \in {"handle", "recover"},
           worker'.phase = worker.phase, worker'.job = worker.job, worker'.held = worker.held,
           worker.phase = "handle" => job'[worker.job] = "running",
           WorkerShapes', PlanFits',
           run' = run \/ run' \notin {"paused", "canceled", "succeeded"},
           (\A i \in Places : Harmless(Left[i])) =>
               \A i \in 1 .. Len(worker'.plan) : Harmless(worker'.plan[i]),
           (\A i \in Places : Closes(Left[i])) =>
               \A i \in 1 .. Len(worker'.plan) : Closes(worker'.plan[i])
    PROVE  IInv'
<1>1. WorkerFits'
  BY WorkerStays DEF IInv
<1>2. RestFits' /\ SucceededFits'
  BY Rests
<1> QED
  BY <1>1, <1>2 DEF IInv

(* The rows after a control was written.                                   *)
LEMMA ControlMoves ==
    ASSUME IInv, NEW c \in Controls, NEW status \in ControlStatus, status # "absent",
           SetControl(c, status), UNCHANGED <<runRow, plans, stages, jobs, faults>>,
           status = "acknowledged" => Done(c)
    PROVE  /\ RowShapes' /\ PlansFit' /\ QueueFits' /\ RecentFits' /\ JobsFit'
           /\ AcknowledgedIsDone' /\ SucceededMeansPassed'
           /\ Stays /\ Committed' = Committed
           /\ run' = run /\ job' = job /\ control'[c] = status
           /\ (Begun /\ worker'.job = worker.job => Begun')
           /\ (AllPassed /\ worker'.job = worker.job => AllPassed')
<1>1. /\ run' = run /\ draft' = draft /\ plan' = plan /\ execution' = execution
      /\ runAttempt' = runAttempt /\ attempt' = attempt /\ latest' = latest
      /\ job' = job /\ queue' = queue /\ faults' = faults
  BY DEF runRow, plans, stages, jobs
<1>2. /\ RecentFits' /\ recent' \in Seq(Controls) /\ control' \in [Controls -> ControlStatus]
      /\ control'[c] = status /\ base' = base
      /\ \A d \in Controls : d # c => control'[d] = control[d]
  BY RecentMoves DEF IInv, RowShapes
<1>3. RowShapes'
  BY <1>1, <1>2 DEF IInv, RowShapes
<1>4. PlansFit' /\ Committed' = Committed
  BY <1>1, <1>2, PlansKept DEF IInv
<1>5. Committed \in Int /\ faults \in Int
      /\ \A d \in Controls : base[d] \in Int /\ (Action[d] = "terminate" => base[d] <= Committed)
  BY Numbers
<1>6. \A d \in Controls : control[d] # "absent" => control'[d] # "absent" /\ base'[d] = base[d]
  BY <1>2
<1>7. Stays
  BY <1>1, <1>4, <1>5, <1>6, StaysIf, ControlAssumption DEF IInv, RowShapes
<1>8. JobsFit' /\ QueueFits'
  BY <1>1, <1>4, <1>5, JobsKept, ListsKept DEF IInv
<1>9. Done(c) => Done(c)'
  BY <1>1, <1>2, <1>4 DEF Done
<1>10. AcknowledgedIsDone'
  BY <1>2, <1>7, <1>9, AcknowledgedStays DEF IInv
<1>11. SucceededMeansPassed'
  BY <1>1, SucceededStays DEF IInv
<1>12. (Begun /\ worker'.job = worker.job => Begun')
       /\ (AllPassed /\ worker'.job = worker.job => AllPassed')
  BY <1>1 DEF Begun, AllPassed, Attempt, P
<1> QED
  BY <1>1, <1>2, <1>3, <1>4, <1>7, <1>8, <1>10, <1>11, <1>12

LEMMA PlaceOf ==
    ASSUME IInv, NEW I \in SUBSET (DOMAIN recent), I # {}
    PROVE  /\ Min(I) \in I
           /\ recent[Min(I)] \in Controls /\ control[recent[Min(I)]] \in Pending
<1>1. recent \in Seq(Controls) /\ DOMAIN recent = 1 .. Len(recent) /\ Len(recent) \in Nat
  BY DEF IInv, RowShapes
<1>2. I \in SUBSET (1 .. Len(recent))
  BY <1>1
<1>3. Min(I) \in I
  BY <1>1, <1>2, MinIsMember
<1>4. PICK m \in 1 .. Len(recent) : m = Min(I)
  BY <1>2, <1>3
<1>5. recent[m] \in Controls
  BY <1>1
<1>6. control[recent[m]] \in Pending
  BY <1>5 DEF IInv, RecentFits
<1> QED
  BY <1>3, <1>4, <1>5, <1>6

(* The stage that a handler executes.                                      *)
LEMMA StageAtWork ==
    ASSUME IInv, NEW k, At(k), k \in StageOps
    PROVE  /\ worker.job \in StageJobs /\ worker.job \in Jobs /\ P \in Plans /\ S \in Stages
           /\ k \in {"load", "execute", "boundary_pause", "pause_run"} => worker.phase = "handle"
<1>1. Left[1][1] = k /\ Fits(Left[1]) /\ worker.phase \in {"handle", "recover"}
  BY Acting
<1>2. worker.job \in StageJobs
  BY <1>1 DEF Fits, OfStage
<1>3. k \in {"load", "execute", "boundary_pause", "pause_run"} => ~Harmless(Left[1])
  BY <1>1 DEF Harmless
<1> QED
  BY <1>1, <1>2, <1>3, JobOfStage DEF Fits, InPhase

LEMMA BoundaryPauseInvariant == ASSUME IInv, BoundaryPause PROVE IInv'
<1>1. At("boundary_pause") /\ SameRows
  BY DEF BoundaryPause, SameRows
<1>2. /\ Left[1] \in Op /\ Left[1][1] = "boundary_pause" /\ Fits(Left[1])
      /\ Head(worker.plan) = Left[1]
  BY <1>1, Acting
<1>3. worker.job \in StageJobs /\ worker.phase = "handle"
  BY <1>1, StageAtWork DEF StageOps
<1>4. PICK c : c = Arg(2)
  OBVIOUS
<1>5. c \in Controls /\ control[c] # "absent" /\ Action[c] = "pause"
  BY <1>2, <1>4, OpFacts DEF Arg, Fits, InPhase
<1>6. control' = control /\ base' = base
  BY <1>1 DEF SameRows, ctl
<1>7. ~Harmless(Left[1]) /\ ~Closes(Left[1])
  BY <1>2 DEF Harmless, Closes
<1>8. CASE worker.seen = "pause_requested"
  <2> DEFINE ops == <<<<"attempt", "queued", "running">>, <<"attempt", "running", "interrupted">>>>
                    \o Pause \o Ack(c) \o <<<<"deliver", "interrupted">>>>
  <2>1. PICK q : q = ops
    OBVIOUS
  <2>2. worker' = [worker EXCEPT !.plan = q]
    BY <1>4, <1>8, <2>1 DEF BoundaryPause, Divert
  <2>3. worker'.phase = "handle" /\ worker'.job \in StageJobs /\ worker'.plan = q
    BY <1>3, <2>2, Replanned
  <2>4. /\ q \in Seq(Op) /\ Len(q) = 6
        /\ q[1] = <<"attempt", "queued", "running">>
        /\ q[2] = <<"attempt", "running", "interrupted">>
        /\ q[3] = <<"move", "pausing">> /\ q[4] = <<"move", "paused">>
        /\ q[5] = <<"control", c, "acknowledged">> /\ q[6] = <<"deliver", "interrupted">>
    <3>1. /\ <<"attempt", "queued", "running">> \in Op
          /\ <<"attempt", "running", "interrupted">> \in Op
          /\ <<"move", "pausing">> \in Op /\ <<"move", "paused">> \in Op
          /\ <<"control", c, "acknowledged">> \in Op /\ <<"deliver", "interrupted">> \in Op
      BY <1>5, OpsAre DEF TerminalAttempt, MoveTarget, Outcome, Delivered
    <3> QED
      BY <2>1, <3>1 DEF Pause, Ack
  <2>5. PlanFits'
    BY <1>5, <1>6, <2>3, <2>4, BoundaryPausePlan
  <2> QED
    BY <1>1, <1>7, <2>2, <2>4, <2>5, DivertInvariant
<1>9. CASE worker.seen # "pause_requested"
  <2>1. worker' = [worker EXCEPT !.plan = Start]
    BY <1>9 DEF BoundaryPause, Divert
  <2>2. worker'.phase = "handle" /\ worker'.job \in StageJobs /\ worker'.plan = Start
    BY <1>3, <2>1, Replanned
  <2>3. Start \in Seq(Op) /\ PlanFits'
    BY <2>2, StartPlan
  <2> QED
    BY <1>1, <1>7, <2>1, <2>3, DivertInvariant
<1> QED
  BY <1>8, <1>9

(* The controls that LoadStage chooses from.                               *)
LEMMA StrongestExists ==
    ASSUME IInv, Addressed # {}
    PROVE  LET strongest == {i \in Addressed :
                   \A k \in Addressed : Priority(recent[k]) <= Priority(recent[i])}
           IN  /\ recent[Min(strongest)] \in Controls
               /\ control[recent[Min(strongest)]] \in Pending
               /\ Addresses(recent[Min(strongest)])
<1>1. /\ \A i \in DOMAIN recent : recent[i] \in Controls
      /\ Addressed \in SUBSET (DOMAIN recent)
  BY DEF IInv, RowShapes, Addressed
<1>2. \A i \in Addressed : Priority(recent[i]) \in 1 .. 3
  BY <1>1, ControlAssumption DEF Priority
<1> DEFINE strongest == {i \in Addressed :
               \A k \in Addressed : Priority(recent[k]) <= Priority(recent[i])}
<1>3. strongest # {}
  <2>1. CASE \E i \in Addressed : Priority(recent[i]) = 3
    BY <1>2, <2>1
  <2>2. CASE /\ \A i \in Addressed : Priority(recent[i]) # 3
             /\ \E i \in Addressed : Priority(recent[i]) = 2
    BY <1>2, <2>2
  <2>3. CASE \A i \in Addressed : Priority(recent[i]) # 3 /\ Priority(recent[i]) # 2
    BY <1>2, <2>3
  <2> QED
    BY <2>1, <2>2, <2>3
<1>4. strongest \in SUBSET (DOMAIN recent)
  BY <1>1
<1>5. \A i \in strongest : Addresses(recent[i])
  BY DEF Addressed
<1> HIDE DEF strongest
<1>6. /\ Min(strongest) \in strongest
      /\ recent[Min(strongest)] \in Controls /\ control[recent[Min(strongest)]] \in Pending
  BY <1>3, <1>4, PlaceOf
<1> QED
  BY <1>5, <1>6 DEF strongest

(* What a control makes of a stage that has not started.                   *)
LEMMA BoundaryDiverts ==
    ASSUME IInv, worker.job \in StageJobs, worker.phase = "handle",
           NEW c \in Controls, Addresses(c), control[c] # "absent", control'[c] # "absent",
           base' = base, worker' = [worker EXCEPT !.plan = AtBoundary(c)]
    PROVE  AtBoundary(c) \in Seq(Op) /\ PlanFits'
<1>1. PICK q : q = AtBoundary(c)
  OBVIOUS
<1>2. worker'.phase = "handle" /\ worker'.job \in StageJobs /\ worker'.plan = q
      /\ worker'.job = worker.job
  BY <1>1, Replanned
<1>3. CASE Action[c] = "pause"
  <2>1. <<"read">> \in Op /\ <<"boundary_pause", c>> \in Op
    BY OpsAre DEF Plain
  <2>2. q = Read \o <<<<"boundary_pause", c>>>>
    BY <1>1, <1>3 DEF AtBoundary
  <2>3. q \in Seq(Op) /\ Len(q) = 2 /\ q[1] = <<"read">> /\ q[2] = <<"boundary_pause", c>>
    BY <2>1, <2>2 DEF Read
  <2>4. PlanFits'
    BY <1>2, <1>3, <2>3, BoundaryPlan
  <2> QED
    BY <1>1, <2>3, <2>4
<1>4. CASE Action[c] = "cancel_stage"
  <2>1. /\ <<"attempt", "queued", "canceled">> \in Op /\ <<"control", c, "acknowledged">> \in Op
        /\ <<"read">> \in Op /\ <<"finish", "failed_recoverable">> \in Op
        /\ <<"deliver", "canceled">> \in Op
    BY OpsAre DEF Plain, TerminalAttempt, Outcome, FinishTarget, FinishedRun, Delivered
  <2>2. q = <<<<"attempt", "queued", "canceled">>>> \o Ack(c)
            \o Finish("failed_recoverable") \o <<<<"deliver", "canceled">>>>
    BY <1>1, <1>4 DEF AtBoundary
  <2>3. /\ q \in Seq(Op) /\ Len(q) = 5 /\ q[1] = <<"attempt", "queued", "canceled">>
        /\ q[2] = <<"control", c, "acknowledged">> /\ q[3] = <<"read">>
        /\ q[4] = <<"finish", "failed_recoverable">> /\ q[5] = <<"deliver", "canceled">>
    BY <2>1, <2>2 DEF Ack, Finish, Read
  <2>4. PICK rest : rest = Finish("failed_recoverable") \o <<<<"deliver", "canceled">>>>
    OBVIOUS
  <2>5. Settles(rest)
    <3>1. Settles(Finish("failed_recoverable"))
      BY <1>2, SettlesFinish DEF FinishTarget, FinishedRun
    <3>2. Settles(<<<<"deliver", "canceled">>>>)
      <4> DEFINE d == <<"deliver", "canceled">>
      <4>1. d \in Op /\ Fits(d)' /\ Quiet(d) /\ d[1] # "finish"
        BY <1>2, <2>1, FitAnywhere, QuietOps DEF Delivered
      <4> HIDE DEF d
      <4>2. Settles(<<d>>)
        BY <4>1, SettlesOne
      <4> QED
        BY <4>2 DEF d
    <3> QED
      BY <2>4, <3>1, <3>2, SettlesTogether
  <2>6. /\ Len(rest) = 3 /\ rest[1] = <<"read">> /\ rest[2] = <<"finish", "failed_recoverable">>
        /\ rest[3] = <<"deliver", "canceled">>
    BY <2>1, <2>4 DEF Finish, Read
  <2>7. \A i \in 1 .. Len(rest) : q[i + 2] = rest[i]
    <3> SUFFICES ASSUME NEW i \in 1 .. Len(rest)
                 PROVE  q[i + 2] = rest[i]
      OBVIOUS
    <3>1. CASE i = 1
      <4>1. i + 2 = 3
        BY <3>1
      <4> QED
        BY <2>3, <2>6, <3>1, <4>1
    <3>2. CASE i = 2
      <4>1. i + 2 = 4
        BY <3>2
      <4> QED
        BY <2>3, <2>6, <3>2, <4>1
    <3>3. CASE i = 3
      <4>1. i + 2 = 5
        BY <3>3
      <4> QED
        BY <2>3, <2>6, <3>3, <4>1
    <3> QED
      BY <2>6, <3>1, <3>2, <3>3
  <2>8. Target[c] = S' /\ base'[c] = P'
    BY <1>2, <1>4 DEF Addresses, S, P
  <2>9. "canceled" \in TerminalAttempt
    BY DEF TerminalAttempt
  <2>10. Len(q) = Len(rest) + 2
    BY <2>3, <2>6
  <2>11. EndsAndAcks(q, c, rest)
    BY <2>3, <2>7, <2>9, <2>10 DEF EndsAndAcks
  <2>12. PlanFits'
    BY <1>2, <1>4, <2>5, <2>8, <2>11, CancelPlan
  <2> QED
    BY <1>1, <2>3, <2>12
<1>5. CASE Action[c] = "terminate"
  <2>1. /\ <<"attempt", "queued", "canceled">> \in Op /\ <<"control", c, "acknowledged">> \in Op
        /\ <<"read">> \in Op /\ <<"finish", "canceled">> \in Op
        /\ <<"deliver", "canceled">> \in Op
    BY OpsAre DEF Plain, TerminalAttempt, Outcome, FinishTarget, FinishedRun, Delivered
  <2>2. q = <<<<"attempt", "queued", "canceled">>>> \o Finish("canceled")
            \o Ack(c) \o <<<<"deliver", "canceled">>>>
    BY <1>1, <1>5 DEF AtBoundary
  <2>3. /\ q \in Seq(Op) /\ Len(q) = 5 /\ q[1] = <<"attempt", "queued", "canceled">>
        /\ q[2] = <<"read">> /\ q[3] = <<"finish", "canceled">>
        /\ q[4] = <<"control", c, "acknowledged">> /\ q[5] = <<"deliver", "canceled">>
    BY <2>1, <2>2 DEF Ack, Finish, Read
  <2>4. "canceled" \in TerminalAttempt
    BY DEF TerminalAttempt
  <2>5. PlanFits'
    BY <1>2, <1>5, <2>3, <2>4, TerminatePlan
  <2> QED
    BY <1>1, <2>3, <2>5
<1> QED
  BY <1>3, <1>4, <1>5, ControlAssumption

LEMMA LoadStageInvariant == ASSUME IInv, LoadStage PROVE IInv'
<1>1. At("load") /\ UNCHANGED <<runRow, plans, stages, jobs, faults>>
  BY DEF LoadStage
<1>2. worker.job \in StageJobs /\ worker.phase = "handle"
  BY <1>1, StageAtWork DEF StageOps
<1>3. Left[1][1] = "load" /\ 1 \in Places
  BY <1>1, Acting
<1>4. ~Harmless(Left[1]) /\ ~Closes(Left[1])
  BY <1>3 DEF Harmless, Closes
<1>5. ASSUME SameRows, worker' = [worker EXCEPT !.plan = <<<<"deliver", "succeeded">>>>]
      PROVE  IInv'
  <2> DEFINE d == <<"deliver", "succeeded">>
  <2>1. worker'.phase = "handle" /\ worker'.job \in StageJobs /\ worker'.plan = <<d>>
    BY <1>2, <1>5, Replanned
  <2>2. d \in Op /\ Fits(d)' /\ Quiet(d) /\ d[1] # "finish"
    BY <2>1, OpsAre, FitAnywhere, QuietOps DEF Delivered
  <2> HIDE DEF d
  <2>3. Settles(<<d>>)
    BY <2>2, SettlesOne
  <2>4. <<d>> \in Seq(Op) /\ PlanFits'
    BY <2>1, <2>3, SettledPlan
  <2>5. worker' = [worker EXCEPT !.plan = <<d>>]
    BY <1>5 DEF d
  <2> QED
    BY <1>1, <1>4, <1>5, <2>4, <2>5, DivertInvariant
<1>6. ASSUME SameRows, worker' = [worker EXCEPT !.plan = Start]
      PROVE  IInv'
  <2>1. worker'.phase = "handle" /\ worker'.job \in StageJobs /\ worker'.plan = Start
    BY <1>2, <1>6, Replanned
  <2>2. Start \in Seq(Op) /\ PlanFits'
    BY <2>1, StartPlan
  <2> QED
    BY <1>1, <1>4, <1>6, <2>2, DivertInvariant
<1>7. ASSUME NEW c \in Controls, Addresses(c), control[c] \in Pending,
             worker' = [worker EXCEPT !.plan = AtBoundary(c)],
             IF control[c] = "requested" THEN SetControl(c, "propagating") ELSE UNCHANGED ctl
      PROVE  IInv'
  <2>1. control[c] # "absent"
    BY <1>7 DEF Pending
  <2>2. CASE control[c] = "requested"
    <3>1. "propagating" \in ControlStatus /\ "propagating" # "absent"
      BY DEF ControlStatus, Pending
    <3>2. SetControl(c, "propagating")
      BY <1>7, <2>2
    <3>3. /\ RowShapes' /\ PlansFit' /\ QueueFits' /\ RecentFits' /\ JobsFit'
          /\ AcknowledgedIsDone' /\ SucceededMeansPassed' /\ Stays
          /\ run' = run /\ job' = job /\ control'[c] = "propagating"
      BY <1>1, <3>1, <3>2, ControlMoves
    <3>4. base' = base
      BY <3>2 DEF SetControl
    <3>5. AtBoundary(c) \in Seq(Op) /\ PlanFits'
      BY <1>2, <1>7, <2>1, <3>3, <3>4, BoundaryDiverts
    <3>6. /\ worker'.phase = worker.phase /\ worker'.job = worker.job
          /\ worker'.held = worker.held /\ WorkerShapes'
      BY <1>7, <3>5, Replanned
    <3>7. job[worker.job] = "running"
      BY <1>2 DEF IInv, WorkerFits
    <3>8. ~(\A i \in Places : Harmless(Left[i])) /\ ~(\A i \in Places : Closes(Left[i]))
      BY <1>3, <1>4
    <3> QED
      BY <1>2, <3>3, <3>5, <3>6, <3>7, <3>8, StepInvariant
  <2>3. CASE control[c] # "requested"
    <3>1. SameRows
      BY <1>1, <1>7, <2>3 DEF SameRows
    <3>2. control' = control /\ base' = base
      BY <3>1 DEF SameRows, ctl
    <3>3. AtBoundary(c) \in Seq(Op) /\ PlanFits'
      BY <1>2, <1>7, <2>1, <3>2, BoundaryDiverts
    <3> QED
      BY <1>1, <1>4, <1>7, <3>1, <3>3, DivertInvariant
  <2> QED
    BY <2>2, <2>3
<1>8. CASE attempt[P][S] \in TerminalAttempt
  BY <1>5, <1>8 DEF LoadStage, Divert, SameRows
<1>9. CASE attempt[P][S] \notin TerminalAttempt /\ Addressed = {}
  BY <1>6, <1>9 DEF LoadStage, Divert, SameRows
<1>10. CASE attempt[P][S] \notin TerminalAttempt /\ Addressed # {}
  <2> DEFINE strongest == {i \in Addressed :
                 \A k \in Addressed : Priority(recent[k]) <= Priority(recent[i])}
             c == recent[Min(strongest)]
  <2>1. c \in Controls /\ control[c] \in Pending /\ Addresses(c)
    BY <1>10, StrongestExists
  <2>2. /\ worker' = [worker EXCEPT !.plan = AtBoundary(c)]
        /\ IF control[c] = "requested" THEN SetControl(c, "propagating") ELSE UNCHANGED ctl
    BY <1>10 DEF LoadStage, Divert
  <2> HIDE DEF c
  <2> QED
    BY <1>7, <2>1, <2>2
<1> QED
  BY <1>8, <1>9, <1>10

(* Operations that settle by themselves.                                   *)
LEMMA SettlingOps ==
    ASSUME worker'.phase = "handle", worker'.job \in StageJobs
    PROVE  /\ \A a \in {"queued", "running", "in_doubt"},
                 b \in {"running", "in_doubt"} \cup TerminalAttempt : Settles(<<<<"attempt", a, b>>>>)
           /\ \A d \in Delivered : Settles(<<<<"deliver", d>>>>)
           /\ \A c \in Controls, o \in Outcome \ {"acknowledged"} :
                 control'[c] # "absent" => Settles(<<<<"control", c, o>>>>)
           /\ Settles(<<>>)
<1>1. ASSUME NEW a \in {"queued", "running", "in_doubt"},
             NEW b \in {"running", "in_doubt"} \cup TerminalAttempt
      PROVE  Settles(<<<<"attempt", a, b>>>>)
  <2> DEFINE op == <<"attempt", a, b>>
  <2>1. op \in Op /\ Fits(op)' /\ Quiet(op) /\ op[1] # "finish"
    BY OpsAre, FitStage, QuietOps
  <2> HIDE DEF op
  <2>2. Settles(<<op>>)
    BY <2>1, SettlesOne
  <2> QED
    BY <2>2 DEF op
<1>2. ASSUME NEW d \in Delivered
      PROVE  Settles(<<<<"deliver", d>>>>)
  <2> DEFINE op == <<"deliver", d>>
  <2>1. op \in Op /\ Fits(op)' /\ Quiet(op) /\ op[1] # "finish"
    BY OpsAre, FitAnywhere, QuietOps
  <2> HIDE DEF op
  <2>2. Settles(<<op>>)
    BY <2>1, SettlesOne
  <2> QED
    BY <2>2 DEF op
<1>3. ASSUME NEW c \in Controls, NEW o \in Outcome \ {"acknowledged"}, control'[c] # "absent"
      PROVE  Settles(<<<<"control", c, o>>>>)
  <2> DEFINE op == <<"control", c, o>>
  <2>1. op \in Op /\ Fits(op)' /\ Quiet(op) /\ op[1] # "finish"
    BY <1>3, OpsAre, FitAnywhere, QuietOps
  <2> HIDE DEF op
  <2>2. Settles(<<op>>)
    BY <2>1, SettlesOne
  <2> QED
    BY <2>2 DEF op
<1>4. Settles(<<>>)
  BY DEF Settles
<1> QED
  BY <1>1, <1>2, <1>3, <1>4

LEMMA Joined ==
    ASSUME NEW X, NEW u \in Seq(X), NEW t \in Seq(X)
    PROVE  /\ u \o t \in Seq(X) /\ Len(u \o t) = Len(u) + Len(t)
           /\ \A i \in 1 .. Len(u) + Len(t) :
                 (u \o t)[i] = IF i <= Len(u) THEN u[i] ELSE t[i - Len(u)]
OBVIOUS

LEMMA Prefixed ==
    ASSUME NEW a \in Op, NEW t \in Seq(Op)
    PROVE  /\ <<a>> \o t \in Seq(Op) /\ Len(<<a>> \o t) = Len(t) + 1 /\ (<<a>> \o t)[1] = a
           /\ \A i \in 1 .. Len(t) : (<<a>> \o t)[i + 1] = t[i]
<1>1. PICK u : u = <<a>>
  OBVIOUS
<1>2. u \in Seq(Op) /\ Len(u) = 1 /\ u[1] = a
  BY <1>1
<1> HIDE <1>1
<1>3. u \o t \in Seq(Op) /\ Len(u \o t) = Len(u) + Len(t)
  BY <1>2, Joined
<1>4. \A i \in 1 .. Len(u) + Len(t) : (u \o t)[i] = IF i <= Len(u) THEN u[i] ELSE t[i - Len(u)]
  BY <1>2, Joined
<1>5. Len(t) \in Nat
  OBVIOUS
<1>6. (u \o t)[1] = a
  BY <1>2, <1>4, <1>5
<1>7. ASSUME NEW i \in 1 .. Len(t)
      PROVE  (u \o t)[i + 1] = t[i]
  <2>1. i + 1 \in 1 .. Len(u) + Len(t) /\ ~(i + 1 <= Len(u)) /\ (i + 1) - Len(u) = i
    BY <1>2, <1>5
  <2> QED
    BY <1>4, <2>1
<1> QED
  BY <1>1, <1>2, <1>3, <1>5, <1>6, <1>7

LEMMA PrefixedFour ==
    ASSUME NEW a \in Op, NEW t \in Seq(Op), Len(t) = 4
    PROVE  /\ <<a>> \o t \in Seq(Op) /\ Len(<<a>> \o t) = 5 /\ (<<a>> \o t)[1] = a
           /\ (<<a>> \o t)[2] = t[1] /\ (<<a>> \o t)[3] = t[2]
           /\ (<<a>> \o t)[4] = t[3] /\ (<<a>> \o t)[5] = t[4]
<1>1. PICK u : u = <<a>> \o t
  OBVIOUS
<1>2. /\ u \in Seq(Op) /\ Len(u) = Len(t) + 1 /\ u[1] = a
      /\ \A i \in 1 .. Len(t) : u[i + 1] = t[i]
  BY <1>1, Prefixed
<1>3. /\ 1 \in 1 .. Len(t) /\ 2 \in 1 .. Len(t) /\ 3 \in 1 .. Len(t) /\ 4 \in 1 .. Len(t)
      /\ 1 + 1 = 2 /\ 2 + 1 = 3 /\ 3 + 1 = 4 /\ 4 + 1 = 5
  OBVIOUS
<1>4. u[2] = t[1] /\ u[3] = t[2] /\ u[4] = t[3] /\ u[5] = t[4]
  BY <1>2, <1>3
<1> QED
  BY <1>1, <1>2, <1>4

(* The end of a stage whose monitor holds a control.                       *)
LEMMA ControlledPlan ==
    ASSUME IInv, worker.job \in StageJobs, Known(worker.job)', Committed' \in Int, faults' \in Int,
           worker'.job = worker.job, worker'.phase = "handle",
           NEW c \in Controls, Addresses(c), control'[c] # "absent", base' = base,
           NEW status \in TerminalAttempt, NEW resumable \in BOOLEAN,
           worker'.plan = <<<<"attempt", "running", status>>>>
                              \o ControlledTerminal(c, status, resumable)
    PROVE  worker'.plan \in Seq(Op) /\ PlanFits'
<1>. PICK q : q = worker'.plan
  OBVIOUS
<1>1. PICK a : a = <<"attempt", "running", status>>
  OBVIOUS
<1>2. Settles(<<a>>)
  BY <1>1, SettlingOps
<1>. a \in Op
  BY <1>1, OpsAre
<1>3. /\ <<"control", c, "acknowledged">> \in Op /\ <<"read">> \in Op
      /\ <<"finish", "canceled">> \in Op /\ <<"pause_run">> \in Op
      /\ <<"deliver", "interrupted">> \in Op /\ <<"deliver", "canceled">> \in Op
  BY OpsAre DEF Plain, Outcome, FinishTarget, FinishedRun, Delivered
<1>4. CASE Action[c] = "pause" /\ status = "interrupted" /\ ~resumable
  <2>1. q = <<a>> \o (<<<<"control", c, "failed">>>> \o Finish("interrupted")
                      \o <<<<"deliver", "interrupted">>>>)
    BY <1>1, <1>4 DEF ControlledTerminal
  <2>2. Settles(<<<<"control", c, "failed">>>>) /\ Settles(<<<<"deliver", "interrupted">>>>)
    BY SettlingOps DEF Outcome, Delivered
  <2>3. Settles(Finish("interrupted"))
    BY SettlesFinish DEF FinishTarget, FinishedRun
  <2>4. Settles(q)
    BY <1>2, <2>1, <2>2, <2>3, SettlesTogether
  <2> QED
    BY <2>4, SettledPlan
<1>5. CASE Action[c] = "pause" /\ (status # "interrupted" \/ resumable)
  <2>1. q = <<a>> \o (Read \o <<<<"pause_run">>>> \o Ack(c) \o <<<<"deliver", "interrupted">>>>)
    BY <1>1, <1>5 DEF ControlledTerminal
  <2>2. /\ q \in Seq(Op) /\ Len(q) = 5 /\ q[1] = a /\ q[2] = <<"read">> /\ q[3] = <<"pause_run">>
        /\ q[4] = <<"control", c, "acknowledged">> /\ q[5] = <<"deliver", "interrupted">>
    <3>1. PICK t : t = Read \o <<<<"pause_run">>>> \o Ack(c) \o <<<<"deliver", "interrupted">>>>
      OBVIOUS
    <3>2. /\ t \in Seq(Op) /\ Len(t) = 4 /\ t[1] = <<"read">> /\ t[2] = <<"pause_run">>
          /\ t[3] = <<"control", c, "acknowledged">> /\ t[4] = <<"deliver", "interrupted">>
      BY <1>3, <3>1 DEF Read, Ack
    <3>3. q = <<a>> \o t
      BY <2>1, <3>1
    <3>4. PICK u : u = <<a>> \o t
      OBVIOUS
    <3>5. /\ u \in Seq(Op) /\ Len(u) = 5 /\ u[1] = a
          /\ u[2] = t[1] /\ u[3] = t[2] /\ u[4] = t[3] /\ u[5] = t[4]
      BY <3>2, <3>4, PrefixedFour
    <3> QED
      BY <3>2, <3>3, <3>4, <3>5
  <2>3. PlanFits'
    BY <1>1, <1>5, <2>2, HeldPausePlan
  <2> QED
    BY <2>2, <2>3
<1>6. CASE Action[c] = "cancel_stage"
  <2>1. PICK rest : rest = IF status \in Completed THEN AfterTerminal(status)
                           ELSE Finish("failed_recoverable") \o <<<<"deliver", "canceled">>>>
    OBVIOUS
  <2>2. Settles(rest)
    <3>1. Settles(AfterTerminal(status))
      BY AfterTerminalSettles
    <3>2. Settles(Finish("failed_recoverable"))
      BY SettlesFinish DEF FinishTarget, FinishedRun
    <3>3. Settles(<<<<"deliver", "canceled">>>>)
      BY SettlingOps DEF Delivered
    <3> QED
      BY <2>1, <3>1, <3>2, <3>3, SettlesTogether
  <2>3. q = <<a>> \o (Ack(c) \o rest)
    BY <1>1, <1>6, <2>1 DEF ControlledTerminal
  <2>4. rest \in Seq(Op) /\ Len(rest) \in Nat
    BY <2>2 DEF Settles
  <2>5. /\ q \in Seq(Op) /\ Len(q) = Len(rest) + 2 /\ q[1] = a
        /\ q[2] = <<"control", c, "acknowledged">>
        /\ \A i \in 1 .. Len(rest) : q[i + 2] = rest[i]
    <3>1. PICK t : t = Ack(c) \o rest
      OBVIOUS
    <3>2. /\ t \in Seq(Op) /\ Len(t) = Len(rest) + 1 /\ t[1] = <<"control", c, "acknowledged">>
          /\ \A i \in 1 .. Len(rest) : t[i + 1] = rest[i]
      BY <1>3, <2>4, <3>1, Prefixed DEF Ack
    <3>3. q = <<a>> \o t
      BY <2>3, <3>1
    <3>4. /\ q \in Seq(Op) /\ Len(q) = Len(t) + 1 /\ q[1] = a
          /\ \A i \in 1 .. Len(t) : q[i + 1] = t[i]
      <4>1. PICK u : u = <<a>> \o t
        OBVIOUS
      <4>2. /\ u \in Seq(Op) /\ Len(u) = Len(t) + 1 /\ u[1] = a
            /\ \A i \in 1 .. Len(t) : u[i + 1] = t[i]
        BY <3>2, <4>1, Prefixed
      <4> QED
        BY <3>3, <4>1, <4>2
    <3>5. q[1 + 1] = t[1]
      BY <2>4, <3>2, <3>4
    <3>6. \A i \in 1 .. Len(rest) : q[i + 2] = rest[i]
      <4> SUFFICES ASSUME NEW i \in 1 .. Len(rest)
                   PROVE  q[i + 2] = rest[i]
        OBVIOUS
      <4>1. i + 1 \in 1 .. Len(t) /\ (i + 1) + 1 = i + 2
        BY <2>4, <3>2
      <4>2. q[(i + 1) + 1] = t[i + 1] /\ t[i + 1] = rest[i]
        BY <3>2, <3>4, <4>1
      <4> QED
        BY <4>1, <4>2
    <3> QED
      BY <2>4, <3>2, <3>4, <3>5, <3>6
  <2>6. EndsAndAcks(q, c, rest)
    BY <1>1, <2>5 DEF EndsAndAcks
  <2>7. Target[c] = S' /\ base'[c] = P'
    BY <1>6 DEF Addresses, S, P
  <2>8. PlanFits'
    BY <1>6, <2>2, <2>6, <2>7, CancelPlan
  <2> QED
    BY <2>5, <2>8
<1>7. CASE Action[c] = "terminate"
  <2>1. q = <<a>> \o (Finish("canceled") \o Ack(c) \o <<<<"deliver", "canceled">>>>)
    BY <1>1, <1>7 DEF ControlledTerminal
  <2>2. /\ q \in Seq(Op) /\ Len(q) = 5 /\ q[1] = a /\ q[2] = <<"read">>
        /\ q[3] = <<"finish", "canceled">>
        /\ q[4] = <<"control", c, "acknowledged">> /\ q[5] = <<"deliver", "canceled">>
    <3>1. PICK t : t = Finish("canceled") \o Ack(c) \o <<<<"deliver", "canceled">>>>
      OBVIOUS
    <3>2. /\ t \in Seq(Op) /\ Len(t) = 4 /\ t[1] = <<"read">> /\ t[2] = <<"finish", "canceled">>
          /\ t[3] = <<"control", c, "acknowledged">> /\ t[4] = <<"deliver", "canceled">>
      BY <1>3, <3>1 DEF Finish, Read, Ack
    <3>3. q = <<a>> \o t
      BY <2>1, <3>1
    <3>4. PICK u : u = <<a>> \o t
      OBVIOUS
    <3>5. /\ u \in Seq(Op) /\ Len(u) = 5 /\ u[1] = a
          /\ u[2] = t[1] /\ u[3] = t[2] /\ u[4] = t[3] /\ u[5] = t[4]
      BY <3>2, <3>4, PrefixedFour
    <3> QED
      BY <3>2, <3>3, <3>4, <3>5
  <2>3. PlanFits'
    BY <1>1, <1>7, <2>2, TerminatePlan
  <2> QED
    BY <2>2, <2>3
<1> QED
  BY <1>4, <1>5, <1>6, <1>7, ControlAssumption

LEMMA ExecuteStageInvariant == ASSUME IInv, ExecuteStage PROVE IInv'
<1>1. At("execute") /\ SameRows
  BY DEF ExecuteStage, SameRows
<1>2. worker.job \in StageJobs /\ worker.phase = "handle"
  BY <1>1, StageAtWork DEF StageOps
<1>3. Left[1][1] = "execute" /\ Known(worker.job)
  BY <1>1, Acting
<1>4. ~Harmless(Left[1]) /\ ~Closes(Left[1])
  BY <1>3 DEF Harmless, Closes
<1>5. ASSUME NEW q, worker' = [worker EXCEPT !.plan = q],
             worker'.plan \in Seq(Op) /\ PlanFits'
      PROVE  IInv'
  <2>1. worker'.plan = q
    BY <1>5, Replanned
  <2>2. q \in Seq(Op) /\ PlanFits'
    BY <1>5, <2>1
  <2> QED
    BY <1>1, <1>4, <1>5, <2>2, DivertInvariant
<1>6. PICK outcome \in Outcomes, resumable \in BOOLEAN :
         LET status == Projected(outcome)
             c == worker.held
         IN  Divert(<<<<"attempt", "running", status>>>> \o
                (CASE status = "in_doubt" -> Finish("in_doubt") \o
                       (IF c = NoControl THEN <<>>
                        ELSE <<<<"control", c, "reconcile_required">>>>)
                       \o <<<<"deliver", "in_doubt">>>>
                   [] status # "in_doubt" /\ c = NoControl -> AfterTerminal(status)
                   [] status # "in_doubt" /\ c # NoControl ->
                       ControlledTerminal(c, status, resumable)))
  BY DEF ExecuteStage
<1>7. PICK status : status = Projected(outcome)
  OBVIOUS
<1>8. PICK c : c = worker.held
  OBVIOUS
<1>9. status \in {"in_doubt"} \cup TerminalAttempt
  BY <1>7, ControlAssumption DEF Projected, TerminalAttempt, Completed
<1>10. PICK rest : rest = CASE status = "in_doubt" -> Finish("in_doubt") \o
                       (IF c = NoControl THEN <<>>
                        ELSE <<<<"control", c, "reconcile_required">>>>)
                       \o <<<<"deliver", "in_doubt">>>>
                   [] status # "in_doubt" /\ c = NoControl -> AfterTerminal(status)
                   [] status # "in_doubt" /\ c # NoControl ->
                       ControlledTerminal(c, status, resumable)
  OBVIOUS
<1>11. PICK q : q = <<<<"attempt", "running", status>>>> \o rest
  OBVIOUS
<1>12. worker' = [worker EXCEPT !.plan = q]
  BY <1>6, <1>7, <1>8, <1>10, <1>11 DEF Divert
<1>13. worker'.phase = "handle" /\ worker'.job \in StageJobs /\ worker'.plan = q
       /\ worker'.job = worker.job
  BY <1>2, <1>12, Replanned
<1>14. control' = control /\ base' = base
  BY <1>1 DEF SameRows, ctl
<1>15. Known(worker.job)' /\ Committed' \in Int /\ faults' \in Int
  BY <1>1, <1>3, <1>13, RowsStay, Numbers DEF Stays, Known, SameRows
<1>16. c # NoControl => c \in Controls /\ control[c] # "absent" /\ Addresses(c)
  BY <1>8 DEF IInv, WorkerFits
<1>17. Settles(<<<<"attempt", "running", status>>>>)
  BY <1>9, <1>13, SettlingOps
<1>18. ASSUME Settles(rest)
       PROVE  IInv'
  <2>1. Settles(q)
    BY <1>11, <1>17, <1>18, SettlesTogether
  <2>2. q \in Seq(Op) /\ PlanFits'
    BY <1>13, <2>1, SettledPlan
  <2> QED
    BY <1>5, <1>12, <1>13, <2>2
<1>19. CASE status = "in_doubt"
  <2>1. PICK x : x = IF c = NoControl THEN <<>> ELSE <<<<"control", c, "reconcile_required">>>>
    OBVIOUS
  <2>2. rest = Finish("in_doubt") \o x \o <<<<"deliver", "in_doubt">>>>
    BY <1>10, <1>19, <2>1
  <2>3. Settles(x)
    BY <1>13, <1>14, <1>16, <2>1, SettlingOps DEF Outcome
  <2>4. Settles(Finish("in_doubt")) /\ Settles(<<<<"deliver", "in_doubt">>>>)
    BY <1>13, SettlesFinish, SettlingOps DEF FinishTarget, Delivered
  <2>5. Settles(rest)
    BY <2>2, <2>3, <2>4, SettlesTogether
  <2> QED
    BY <1>18, <2>5
<1>20. CASE status # "in_doubt" /\ c = NoControl
  <2>1. rest = AfterTerminal(status)
    BY <1>10, <1>20
  <2>2. Settles(rest)
    BY <1>2, <1>9, <1>13, <1>15, <1>20, <2>1, AfterTerminalSettles
  <2> QED
    BY <1>18, <2>2
<1>21. CASE status # "in_doubt" /\ c # NoControl
  <2>1. rest = ControlledTerminal(c, status, resumable)
    BY <1>10, <1>21
  <2>2. worker'.plan = <<<<"attempt", "running", status>>>>
                           \o ControlledTerminal(c, status, resumable)
    BY <1>11, <1>13, <2>1
  <2>3. worker'.plan \in Seq(Op) /\ PlanFits'
    BY <1>2, <1>9, <1>13, <1>14, <1>15, <1>16, <1>21, <2>2, ControlledPlan
  <2> QED
    BY <1>5, <1>12, <2>3
<1> QED
  BY <1>19, <1>20, <1>21

LEMMA PauseRunInvariant == ASSUME IInv, PauseRun PROVE IInv'
<1>1. At("pause_run") /\ SameRows
  BY DEF PauseRun, SameRows
<1>2. /\ Left \in Seq(Op) /\ Left # <<>> /\ Len(Left) \in Nat /\ Len(Left) > 0
      /\ Left[1] \in Op /\ Left[1][1] = "pause_run" /\ 1 \in Places
  BY <1>1, Acting
<1>3. worker.job \in StageJobs /\ worker.phase = "handle"
  BY <1>1, StageAtWork DEF StageOps
<1>4. Left[1] = <<"pause_run">>
  BY <1>2, OpFacts
<1>5. ~Harmless(Left[1]) /\ ~Closes(Left[1])
  BY <1>4 DEF Harmless, Closes
<1>6. \A k \in 2 .. Len(Left) : Harmless(Left[k])
  <2>1. HaltsFit
    BY DEF IInv, PlanFits
  <2>2. \A k \in 1 + 1 .. Len(Left) : Harmless(Left[k])
    BY <1>2, <1>4, <2>1 DEF HaltsFit
  <2> QED
    BY <2>2
<1>7. Stays /\ PlanFits
  BY <1>1, RowsStay DEF IInv
<1>8. ASSUME NEW ops \in {<<>>, Pause}, Proceed(ops)
      PROVE  IInv'
  <2>1. worker' = [worker EXCEPT !.plan = ops \o Tail(@)]
    BY <1>8 DEF Proceed
  <2>2. /\ worker'.plan = ops \o Tail(Left) /\ worker'.job = worker.job
        /\ worker'.phase = worker.phase
    BY <2>1, Replanned DEF Left, IInv, WorkerShapes, WorkerFields
  <2>3. Replaced(ops)
    <3>1. worker.job \notin Coordinators
      BY <1>3, JobOfStage
    <3>2. \A c \in Controls : ~Does(Left[1], c)
      BY <1>4 DEF Does, Cancels
    <3> QED
      BY <1>4, <2>2, <3>1, <3>2 DEF Replaced
  <2>4. worker'.phase = "handle"
    BY <1>3, <2>2
  <2>5. CASE ops = <<>>
    <3>1. ops \in Seq(Op) /\ Len(ops) = 0
      BY <2>5
    <3>2. PlanFits'
      <4>1. \A i \in 1 .. Len(ops) : FALSE
        BY <3>1
      <4> HIDE <2>5
      <4> QED
        BY <1>2, <1>7, <2>3, <3>1, <4>1, PlanGoesOn
    <3> QED
      BY <1>1, <1>5, <2>1, <3>1, <3>2, ProceedInvariant
  <2>6. CASE ops = Pause
    <3> DEFINE a == <<"move", "pausing">>
               b == <<"move", "paused">>
    <3>1. a \in Op /\ b \in Op /\ Fits(a)' /\ Fits(b)'
      BY <2>4, FitAnywhere, OpsAre DEF MoveTarget
    <3>2. /\ ~Acknowledges(a) /\ ~Acknowledges(b) /\ ~Halts(a)
          /\ a # <<"pause_run">> /\ b # <<"pause_run">>
          /\ a[1] \notin {"finish", "decide", "complete"}
          /\ b[1] \notin {"finish", "decide", "complete"}
      BY DEF Acknowledges, Halts, Cancels
    <3>3. ops = <<a, b>>
      BY <2>6 DEF Pause
    <3> HIDE DEF a, b
    <3>4. ops \in Seq(Op) /\ Len(ops) = 2 /\ ops[1] = a /\ ops[2] = b
      BY <3>1, <3>3
    <3>5. \A i \in 1 .. Len(ops) :
               /\ Fits(ops[i])' /\ ~Acknowledges(ops[i])
               /\ ops[i] # <<"pause_run">> /\ ops[i][1] \notin {"finish", "decide", "complete"}
               /\ Halts(ops[i]) => /\ \A k \in i + 1 .. Len(ops) : Harmless(ops[k])
                                   /\ \A k \in 2 .. Len(Left) : Harmless(Left[k])
      <4> SUFFICES ASSUME NEW i \in 1 .. Len(ops)
                   PROVE  /\ Fits(ops[i])' /\ ~Acknowledges(ops[i])
                          /\ ops[i] # <<"pause_run">>
                          /\ ops[i][1] \notin {"finish", "decide", "complete"}
                          /\ Halts(ops[i]) => i = 2
        BY <1>6, <3>4
      <4>1. CASE i = 1
        BY <3>1, <3>2, <3>4, <4>1
      <4>2. CASE i = 2
        BY <3>1, <3>2, <3>4, <4>2
      <4> QED
        BY <3>4, <4>1, <4>2
    <3>6. PlanFits'
      BY <1>2, <1>7, <2>3, <3>4, <3>5, PlanGoesOn
    <3> QED
      BY <1>1, <1>5, <2>1, <3>4, <3>6, ProceedInvariant
  <2> QED
    BY <1>8, <2>5, <2>6
<1>9. CASE worker.seen = "paused"
  BY <1>8, <1>9 DEF PauseRun
<1>10. CASE worker.seen = "pause_requested"
  BY <1>8, <1>10 DEF PauseRun
<1>11. CASE worker.seen \notin {"paused", "pause_requested"}
  <2>1. Refuse
    BY <1>11 DEF PauseRun
  <2> QED
    BY <1>1, <2>1, RefuseInvariant
<1> QED
  BY <1>9, <1>10, <1>11

-----------------------------------------------------------------------------
(* The coordinator's handler.                                              *)

LEMMA CoordinatorAtWork ==
    ASSUME IInv, NEW k, At(k), k \in CoordinatorOps
    PROVE  /\ worker.job \in Coordinators /\ worker.job \in Jobs /\ P \in Plans
           /\ k # "close_execution" => ~Closes(Left[1])
           /\ ~Harmless(Left[1]) /\ worker.phase = "handle"
<1>1. Left[1][1] = k /\ Fits(Left[1]) /\ worker.phase \in {"handle", "recover"}
  BY Acting
<1>2. worker.job \in Coordinators
  BY <1>1 DEF Fits, OfCoordinator
<1>3. ~Harmless(Left[1]) /\ (k # "close_execution" => ~Closes(Left[1]))
  BY <1>1 DEF Harmless, Closes, CoordinatorOps
<1>4. worker.phase = "handle"
  BY <1>1, <1>3 DEF Fits, InPhase
<1> QED
  BY <1>2, <1>3, <1>4, JobOfCoordinator

(* Other operations are done first, none of which ends anything.            *)
LEMMA InsertInvariant ==
    ASSUME IInv, SameRows, NEW k, At(k),
           k \notin {"start_execution", "attempt", "move", "finish", "read"},
           NEW ops \in Seq(Op), Proceed(ops),
           Harmless(Left[1]) => \A i \in 1 .. Len(ops) : Harmless(ops[i]),
           Closes(Left[1]) => \A i \in 1 .. Len(ops) : Closes(ops[i]),
           \A i \in 1 .. Len(ops) :
               /\ Fits(ops[i])' /\ ~Acknowledges(ops[i]) /\ ~Halts(ops[i])
               /\ ops[i] # <<"pause_run">> /\ ops[i][1] \notin {"finish", "decide", "complete"}
    PROVE  IInv'
<1>1. worker' = [worker EXCEPT !.plan = ops \o Tail(@)]
  BY DEF Proceed
<1>2. Left \in Seq(Op) /\ Left # <<>> /\ Left[1][1] = k /\ Left[1] \in Op
  BY Acting
<1>3. /\ worker'.plan = ops \o Tail(Left) /\ worker'.job = worker.job
      /\ worker'.phase = worker.phase
  BY <1>1, Replanned DEF Left, IInv, WorkerShapes, WorkerFields
<1>4. Stays /\ PlanFits
  BY RowsStay DEF IInv
<1>5. Replaced(ops)
  <2>1. worker.job \in Coordinators /\ Begun => Begun'
    BY <1>3 DEF SameRows, plans, Begun, P
  <2>2. Left[1] # <<"start_execution">> /\ Left[1] # <<"read">>
    BY <1>2
  <2>3. \A c \in Controls : ~Does(Left[1], c)
    BY <1>2 DEF Does, Cancels
  <2> QED
    BY <1>3, <2>1, <2>2, <2>3 DEF Replaced
<1>6. PlanFits'
  BY <1>2, <1>4, <1>5, PlanGoesOn
<1> QED
  BY <1>1, <1>6, ProceedInvariant

LEMMA ProceedNothing ==
    ASSUME IInv, SameRows, NEW k, At(k),
           k \notin {"start_execution", "attempt", "move", "finish", "read"}, Proceed(<<>>)
    PROVE  IInv'
<1>1. PICK ops : ops = <<>>
  OBVIOUS
<1>2. ops \in Seq(Op) /\ \A i \in 1 .. Len(ops) : FALSE
  BY <1>1
<1>3. Proceed(ops)
  BY <1>1
<1> HIDE <1>1
<1> QED
  BY <1>2, <1>3, InsertInvariant

LEMMA PreExecutionControlInvariant == ASSUME IInv, PreExecutionControl PROVE IInv'
<1> DEFINE addressed == {i \in DOMAIN recent :
            \/ Action[recent[i]] = "pause" /\ worker.seen = "pause_requested"
            \/ Action[recent[i]] = "terminate" /\ worker.seen = "cancel_requested"}
<1>1. At("controls") /\ SameRows
  BY DEF PreExecutionControl, SameRows
<1>2. worker.phase = "handle" /\ ~Harmless(Left[1]) /\ ~Closes(Left[1])
  BY <1>1, CoordinatorAtWork DEF CoordinatorOps
<1>3. CASE addressed = {}
  <2>1. Proceed(<<>>)
    BY <1>3 DEF PreExecutionControl
  <2> QED
    BY <1>1, <2>1, ProceedNothing
<1>4. CASE addressed # {}
  <2>1. PICK c : c = recent[Min(addressed)]
    OBVIOUS
  <2>2. Min(addressed) \in addressed /\ c \in Controls /\ control[c] \in Pending
    BY <1>4, <2>1, PlaceOf
  <2>3. Action[c] \in {"pause", "terminate"} /\ control[c] # "absent"
    BY <2>1, <2>2 DEF Pending
  <2>4. PICK q : q = AckQueued(c)
    OBVIOUS
  <2>5. worker' = [worker EXCEPT !.plan = q]
    BY <1>4, <2>1, <2>4 DEF PreExecutionControl, Divert
  <2> HIDE DEF addressed
  <2>6. worker'.phase = "handle" /\ worker'.plan = q /\ control'[c] # "absent"
    BY <1>1, <1>2, <2>3, <2>5, Replanned DEF SameRows, ctl
  <2>7. /\ <<"move", "pausing">> \in Op /\ <<"move", "paused">> \in Op
        /\ <<"move", "canceled">> \in Op /\ <<"control", c, "acknowledged">> \in Op
        /\ <<"deliver", "interrupted">> \in Op /\ <<"deliver", "canceled">> \in Op
    BY <2>2, OpsAre DEF MoveTarget, Outcome, Delivered
  <2>8. CASE Action[c] = "pause"
    <3>1. q = Pause \o Ack(c) \o <<<<"deliver", "interrupted">>>>
      BY <2>4, <2>8 DEF AckQueued
    <3>2. /\ q \in Seq(Op) /\ Len(q) = 4
          /\ q[1] = <<"move", "pausing">> /\ q[2] = <<"move", "paused">>
          /\ q[3] = <<"control", c, "acknowledged">> /\ q[4] = <<"deliver", "interrupted">>
      BY <2>7, <3>1 DEF Pause, Ack
    <3>3. PlanFits'
      BY <2>2, <2>6, <2>8, <3>2, QueuedPausePlan
    <3> QED
      BY <1>1, <1>2, <2>5, <3>2, <3>3, DivertInvariant
  <2>9. CASE Action[c] = "terminate"
    <3>1. q = <<<<"move", "canceled">>>> \o Ack(c) \o <<<<"deliver", "canceled">>>>
      BY <2>4, <2>9 DEF AckQueued
    <3>2. /\ q \in Seq(Op) /\ Len(q) = 3 /\ q[1] = <<"move", "canceled">>
          /\ q[2] = <<"control", c, "acknowledged">> /\ q[3] = <<"deliver", "canceled">>
      BY <2>7, <3>1 DEF Ack
    <3>3. PlanFits'
      BY <2>2, <2>6, <2>9, <3>2, QueuedTerminatePlan
    <3> QED
      BY <1>1, <1>2, <2>5, <3>2, <3>3, DivertInvariant
  <2> QED
    BY <2>3, <2>8, <2>9
<1> QED
  BY <1>3, <1>4

LEMMA BeginRunInvariant == ASSUME IInv, BeginRun PROVE IInv'
<1>1. At("begin") /\ SameRows
  BY DEF BeginRun, SameRows
<1>2. worker.phase = "handle" /\ ~Harmless(Left[1]) /\ ~Closes(Left[1])
  BY <1>1, CoordinatorAtWork DEF CoordinatorOps
<1> DEFINE a == <<"move", "running">>
           b == <<"move", "resume_requested">>
<1>3. a \in Op /\ b \in Op
  BY OpsAre DEF MoveTarget
<1>4. /\ ~Acknowledges(a) /\ ~Acknowledges(b) /\ ~Halts(a) /\ ~Halts(b)
      /\ a # <<"pause_run">> /\ b # <<"pause_run">>
      /\ a[1] \notin {"finish", "decide", "complete"}
      /\ b[1] \notin {"finish", "decide", "complete"}
  BY DEF Acknowledges, Halts, Cancels
<1>5. ASSUME NEW ops \in Seq(Op), Proceed(ops), \A i \in 1 .. Len(ops) : ops[i] = a \/ ops[i] = b
      PROVE  IInv'
  <2>1. worker'.phase = "handle"
    BY <1>2, <1>5, Replanned DEF Proceed, IInv, WorkerShapes, WorkerFields
  <2>2. Fits(a)' /\ Fits(b)'
    BY <2>1, FitAnywhere DEF MoveTarget
  <2> HIDE DEF a, b
  <2> QED
    BY <1>1, <1>2, <1>4, <1>5, <2>2, InsertInvariant
<1>6. CASE worker.seen = "running"
  BY <1>1, <1>6, ProceedNothing DEF BeginRun
<1>7. CASE worker.seen \in {"queued", "resume_requested", "waiting_continuation",
                            "failed_recoverable", "interrupted", "canceled"}
  <2>1. PICK ops : ops = <<a>>
    OBVIOUS
  <2>2. Proceed(ops)
    BY <1>7, <2>1 DEF BeginRun
  <2>3. ops \in Seq(Op) /\ Len(ops) = 1 /\ ops[1] = a
    BY <1>3, <2>1
  <2> QED
    BY <1>5, <2>2, <2>3
<1>8. CASE worker.seen = "paused"
  <2>1. PICK ops : ops = <<b, a>>
    OBVIOUS
  <2>2. Proceed(ops)
    BY <1>8, <2>1 DEF BeginRun
  <2>3. ops \in Seq(Op) /\ Len(ops) = 2 /\ ops[1] = b /\ ops[2] = a
    BY <1>3, <2>1
  <2>4. \A i \in 1 .. Len(ops) : ops[i] = a \/ ops[i] = b
    <3>1. \A i \in 1 .. Len(ops) : i = 1 \/ i = 2
      BY <2>3
    <3> QED
      BY <2>3, <3>1
  <2> QED
    BY <1>5, <2>2, <2>3, <2>4
<1>9. CASE worker.seen \notin {"running", "queued", "resume_requested", "waiting_continuation",
                               "failed_recoverable", "interrupted", "canceled", "paused"}
  <2>1. Refuse
    BY <1>9 DEF BeginRun
  <2> QED
    BY <1>1, <2>1, RefuseInvariant
<1> QED
  BY <1>6, <1>7, <1>8, <1>9

(* A coordinator's plan: what decides comes after what began the plan, and *)
(* before what only closes it.                                              *)
LEMMA DecidingPlan ==
    ASSUME NEW q \in Seq(Op), worker'.plan = q,
           \A i \in 1 .. Len(q) :
               /\ Fits(q[i])' /\ ~Acknowledges(q[i]) /\ ~Halts(q[i]) /\ q[i] # <<"pause_run">>
               /\ q[i][1] = "finish" => i > 1 /\ q[i - 1] = <<"read">>,
           \A i \in 1 .. Len(q) : q[i][1] \in {"decide", "complete"} =>
               /\ Begun' \/ \E k \in 1 .. i - 1 : q[k] = <<"start_execution">>
               /\ \A k \in i + 1 .. Len(q) : Closes(q[k]),
           \A i \in 1 .. Len(q) : Succeeds(q[i]) =>
               /\ AllPassed'
               /\ \A k \in 1 .. i - 1 : q[k] = <<"read">>
               /\ \A k \in i + 1 .. Len(q) : Closes(q[k])
    PROVE  PlanFits'
<1>1. Left' = q /\ Places' = 1 .. Len(q)
  BY DEF Left, Places
<1>2. OpsFit'
  BY <1>1 DEF OpsFit, Fits
<1>3. AcksFit' /\ HaltsFit'
  BY <1>1 DEF AcksFit, HaltsFit
<1>4. ReadsFit'
  <2>1. \A i \in 1 .. Len(q) : q[i] # <<"finish", "canceled">>
    BY DEF Halts, Cancels
  <2> QED
    BY <1>1, <2>1 DEF ReadsFit
<1>5. SuccessFits'
  BY <1>1 DEF SuccessFits
<1> QED
  BY <1>2, <1>3, <1>4, <1>5 DEF PlanFits

\* What neither acknowledges nor ends anything.
Plainly(op) ==
    /\ Fits(op)' /\ ~Acknowledges(op) /\ ~Halts(op) /\ op # <<"pause_run">>
    /\ ~Succeeds(op) /\ op[1] \notin {"finish", "decide", "complete"}

LEMMA PlainOps ==
    ASSUME worker'.phase = "handle", worker'.job \in Coordinators
    PROVE  /\ Plainly(<<"read">>) /\ Plainly(<<"controls">>) /\ Plainly(<<"begin">>)
           /\ Plainly(<<"run_attempt">>) /\ Plainly(<<"inputs">>) /\ Plainly(<<"start_execution">>)
           /\ Plainly(<<"close_execution">>) /\ Plainly(<<"deliver", "succeeded">>)
<1>1. /\ Fits(<<"read">>)' /\ Fits(<<"controls">>)' /\ Fits(<<"begin">>)'
      /\ Fits(<<"run_attempt">>)' /\ Fits(<<"inputs">>)' /\ Fits(<<"start_execution">>)'
      /\ Fits(<<"close_execution">>)' /\ Fits(<<"deliver", "succeeded">>)'
  BY FitAnywhere, FitCoordinator DEF Delivered
<1>2. \A k \in {"read", "controls", "begin", "run_attempt", "inputs", "start_execution",
                "close_execution"} :
         Fits(<<k>>)' => Plainly(<<k>>)
  BY DEF Plainly, Acknowledges, Halts, Cancels, Succeeds
<1>3. Fits(<<"deliver", "succeeded">>)' => Plainly(<<"deliver", "succeeded">>)
  BY DEF Plainly, Acknowledges, Halts, Cancels, Succeeds
<1> QED
  BY <1>1, <1>2, <1>3

\* The six operations every coordinator ends with.
Six == <<<<"controls">>>> \o <<<<"read">>>>
       \o <<<<"begin">>, <<"run_attempt">>, <<"decide">>, <<"deliver", "succeeded">>>>

LEMMA SixOps ==
    /\ Six \in Seq(Op) /\ Len(Six) = 6
    /\ Six[1] = <<"controls">> /\ Six[2] = <<"read">> /\ Six[3] = <<"begin">>
    /\ Six[4] = <<"run_attempt">> /\ Six[5] = <<"decide">> /\ Six[6] = <<"deliver", "succeeded">>
<1> DEFINE r == <<"read">>
           c == <<"controls">>
           b == <<"begin">>
           a == <<"run_attempt">>
           d == <<"decide">>
           e == <<"deliver", "succeeded">>
           t == Six
<1>0. Six = <<c>> \o <<r>> \o <<b, a, d, e>>
  BY DEF Six
<1>. r \in Op /\ c \in Op /\ b \in Op /\ a \in Op /\ d \in Op /\ e \in Op
  BY OpsAre DEF Plain, Delivered
<1> HIDE DEF r, c, b, a, d, e
<1>1. PICK u : u = <<c>> \o <<r>>
  OBVIOUS
<1>2. u \in Seq(Op) /\ Len(u) = 2 /\ u[1] = c /\ u[2] = r
  <2>1. <<r>> \in Seq(Op) /\ Len(<<r>>) = 1 /\ <<r>>[1] = r
    OBVIOUS
  <2>2. /\ <<c>> \o <<r>> \in Seq(Op) /\ Len(<<c>> \o <<r>>) = 1 + 1
        /\ (<<c>> \o <<r>>)[1] = c /\ (<<c>> \o <<r>>)[1 + 1] = r
    BY <2>1, Prefixed
  <2>3. 1 + 1 = 2
    OBVIOUS
  <2>4. /\ <<c>> \o <<r>> \in Seq(Op) /\ Len(<<c>> \o <<r>>) = 2
        /\ (<<c>> \o <<r>>)[1] = c /\ (<<c>> \o <<r>>)[2] = r
    BY <2>2, <2>3, Zenon
  <2> QED
    BY <1>1, <2>4, Zenon
<1>3. PICK v : v = <<b, a, d, e>>
  OBVIOUS
<1>4. v \in Seq(Op) /\ Len(v) = 4 /\ v[1] = b /\ v[2] = a /\ v[3] = d /\ v[4] = e
  BY <1>3
<1>5. t = u \o v
  BY <1>0, <1>1, <1>3
<1> HIDE DEF t
<1>6. /\ t \in Seq(Op) /\ Len(t) = Len(u) + Len(v)
      /\ \A i \in 1 .. Len(u) + Len(v) : t[i] = IF i <= Len(u) THEN u[i] ELSE v[i - Len(u)]
  <2>1. /\ u \o v \in Seq(Op) /\ Len(u \o v) = Len(u) + Len(v)
        /\ \A i \in 1 .. Len(u) + Len(v) :
              (u \o v)[i] = IF i <= Len(u) THEN u[i] ELSE v[i - Len(u)]
    BY <1>2, <1>4, Joined
  <2> QED
    BY <1>5, <2>1
<1>7. Len(t) = 6 /\ \A i \in 1 .. 6 : t[i] = IF i <= 2 THEN u[i] ELSE v[i - 2]
  BY <1>2, <1>4, <1>6
<1>8. t[1] = u[1] /\ t[2] = u[2]
  BY <1>7
<1>9. t[3] = v[3 - 2] /\ t[4] = v[4 - 2] /\ t[5] = v[5 - 2] /\ t[6] = v[6 - 2]
  BY <1>7
<1>10. 3 - 2 = 1 /\ 4 - 2 = 2 /\ 5 - 2 = 3 /\ 6 - 2 = 4
  OBVIOUS
<1> QED
  BY <1>2, <1>4, <1>6, <1>7, <1>8, <1>9, <1>10 DEF t, r, c, b, a, d, e

(* A coordinator just claimed.                                              *)
LEMMA LoadCoordinatorPlan ==
    ASSUME worker'.phase = "handle", worker'.job \in Coordinators,
           worker'.plan = LoadPlan(worker'.job)
    PROVE  worker'.plan \in Seq(Op) /\ PlanFits'
<1> DEFINE r == <<"read">>
           c == <<"controls">>
           b == <<"begin">>
           a == <<"run_attempt">>
           d == <<"decide">>
           n == <<"inputs">>
           s == <<"start_execution">>
           e == <<"deliver", "succeeded">>
<1>1. worker'.job \notin StageJobs
  BY DEF StageJobs, Coordinators, StageJob, Coordinator
<1>2. /\ r \in Op /\ c \in Op /\ b \in Op /\ a \in Op /\ d \in Op /\ n \in Op /\ s \in Op /\ e \in Op
  BY OpsAre DEF Plain, Delivered
<1>3. Plainly(r) /\ Plainly(c) /\ Plainly(b) /\ Plainly(a) /\ Plainly(n) /\ Plainly(s) /\ Plainly(e)
  BY PlainOps
<1>4. /\ Fits(d)' /\ ~Acknowledges(d) /\ ~Halts(d) /\ d # <<"pause_run">> /\ ~Succeeds(d)
      /\ d[1] = "decide"
  BY FitCoordinator DEF Acknowledges, Halts, Cancels, Succeeds
<1>5. Closes(e)
  BY DEF Closes
<1>6. PICK q : q = worker'.plan
  OBVIOUS
<1>7. ASSUME NEW i \in 1 .. Len(q), Plainly(q[i])
      PROVE  /\ Fits(q[i])' /\ ~Acknowledges(q[i]) /\ ~Halts(q[i]) /\ q[i] # <<"pause_run">>
             /\ ~Succeeds(q[i]) /\ q[i][1] \notin {"finish", "decide", "complete"}
  BY <1>7 DEF Plainly
<1>8. ASSUME NEW m \in Nat, q \in Seq(Op), Len(q) = m + 1, q[m] = d, q[m + 1] = e, m > 0,
             \A i \in 1 .. m - 1 : Plainly(q[i]),
             Begun' \/ \E k \in 1 .. m - 1 : q[k] = s
      PROVE  worker'.plan \in Seq(Op) /\ PlanFits'
  <2> HIDE DEF r, c, b, a, d, n, e
  <2>1. \A i \in 1 .. Len(q) : i = m \/ Plainly(q[i])
    <3> SUFFICES ASSUME NEW i \in 1 .. Len(q), i # m
                 PROVE  Plainly(q[i])
      OBVIOUS
    <3>1. i \in 1 .. m - 1 \/ i = m + 1
      BY <1>8
    <3> QED
      BY <1>3, <1>8, <3>1
  <2>2. \A i \in 1 .. Len(q) :
               /\ Fits(q[i])' /\ ~Acknowledges(q[i]) /\ ~Halts(q[i]) /\ q[i] # <<"pause_run">>
               /\ ~Succeeds(q[i]) /\ q[i][1] # "finish"
               /\ q[i][1] \in {"decide", "complete"} => i = m
    BY <1>4, <1>7, <1>8, <2>1
  <2>3. \A k \in m + 1 .. Len(q) : Closes(q[k])
    <3>1. \A k \in m + 1 .. Len(q) : k = m + 1
      BY <1>8
    <3> QED
      BY <1>5, <1>8, <3>1
  <2>4. \A i \in 1 .. Len(q) : q[i][1] \in {"decide", "complete"} =>
               /\ Begun' \/ \E k \in 1 .. i - 1 : q[k] = <<"start_execution">>
               /\ \A k \in i + 1 .. Len(q) : Closes(q[k])
    BY <1>8, <2>2, <2>3 DEF s
  <2>5. PlanFits'
    BY <1>6, <1>8, <2>2, <2>4, DecidingPlan
  <2> QED
    BY <1>6, <1>8, <2>5
<1>9. CASE worker'.job[2] = 0
  <2>1. q = <<r>> \o Six
    BY <1>1, <1>6, <1>9 DEF LoadPlan, Read, Six
  <2> HIDE DEF r, c, b, a, d, n, s, e
  <2>2. /\ q \in Seq(Op) /\ Len(q) = 7 /\ q[1] = r /\ q[2] = c /\ q[3] = r /\ q[4] = b
        /\ q[5] = a /\ q[6] = d /\ q[7] = e
    <3>1. PICK t : t = Six
      OBVIOUS
    <3>2. /\ t \in Seq(Op) /\ Len(t) = 6 /\ t[1] = c /\ t[2] = r /\ t[3] = b /\ t[4] = a
          /\ t[5] = d /\ t[6] = e
      BY <3>1, SixOps DEF r, c, b, a, d, e
    <3>3. q = <<r>> \o t
      BY <2>1, <3>1
    <3>4. q \in Seq(Op) /\ Len(q) = 7 /\ q[1] = r /\ \A i \in 1 .. 6 : q[i + 1] = t[i]
      <4>1. /\ <<r>> \o t \in Seq(Op) /\ Len(<<r>> \o t) = Len(t) + 1 /\ (<<r>> \o t)[1] = r
            /\ \A i \in 1 .. Len(t) : (<<r>> \o t)[i + 1] = t[i]
        BY <1>2, <3>2, Prefixed
      <4>2. Len(t) = 6 /\ 6 + 1 = 7
        BY <3>2
      <4> QED
        BY <3>3, <4>1, <4>2
    <3>5. q[1 + 1] = t[1] /\ q[2 + 1] = t[2] /\ q[3 + 1] = t[3] /\ q[4 + 1] = t[4]
          /\ q[5 + 1] = t[5] /\ q[6 + 1] = t[6]
      BY <3>4
    <3>6. 1 + 1 = 2 /\ 2 + 1 = 3 /\ 3 + 1 = 4 /\ 4 + 1 = 5 /\ 5 + 1 = 6 /\ 6 + 1 = 7
      OBVIOUS
    <3> QED
      BY <3>2, <3>4, <3>5, <3>6
  <2>3. Begun'
    BY <1>9 DEF Begun, P
  <2>4. \A i \in 1 .. 6 - 1 : Plainly(q[i])
    <3>1. \A i \in 1 .. 6 - 1 : i = 1 \/ i = 2 \/ i = 3 \/ i = 4 \/ i = 5
      OBVIOUS
    <3> QED
      BY <1>3, <2>2, <3>1
  <2>5. Len(q) = 6 + 1 /\ q[6] = d /\ q[6 + 1] = e
    BY <2>2
  <2> QED
    BY <1>8, <2>2, <2>3, <2>4, <2>5
<1>10. CASE worker'.job[2] # 0
  <2>1. q = <<r>> \o <<n, s>> \o Six
    BY <1>1, <1>6, <1>10 DEF LoadPlan, Read, Six
  <2> HIDE DEF r, c, b, a, d, n, s, e
  <2>2. /\ q \in Seq(Op) /\ Len(q) = 9 /\ q[1] = r /\ q[2] = n /\ q[3] = s /\ q[4] = c /\ q[5] = r
        /\ q[6] = b /\ q[7] = a /\ q[8] = d /\ q[9] = e
    <3>1. PICK t : t = Six
      OBVIOUS
    <3>2. /\ t \in Seq(Op) /\ Len(t) = 6 /\ t[1] = c /\ t[2] = r /\ t[3] = b /\ t[4] = a
          /\ t[5] = d /\ t[6] = e
      BY <3>1, SixOps DEF r, c, b, a, d, e
    <3>3. PICK u : u = <<r>> \o <<n, s>>
      OBVIOUS
    <3>4. u \in Seq(Op) /\ Len(u) = 3 /\ u[1] = r /\ u[2] = n /\ u[3] = s
      BY <1>2, <3>3
    <3>5. q = u \o t
      BY <2>1, <3>1, <3>3
    <3>6. /\ q \in Seq(Op) /\ Len(q) = 9
          /\ \A i \in 1 .. 9 : q[i] = IF i <= 3 THEN u[i] ELSE t[i - 3]
      <4>1. /\ u \o t \in Seq(Op) /\ Len(u \o t) = Len(u) + Len(t)
            /\ \A i \in 1 .. Len(u) + Len(t) :
                  (u \o t)[i] = IF i <= Len(u) THEN u[i] ELSE t[i - Len(u)]
        BY <3>2, <3>4, Joined
      <4>2. Len(u) = 3 /\ Len(t) = 6 /\ 3 + 6 = 9
        BY <3>2, <3>4
      <4> QED
        BY <3>5, <4>1, <4>2
    <3>7. q[1] = u[1] /\ q[2] = u[2] /\ q[3] = u[3]
      BY <3>6
    <3>8. q[4] = t[4 - 3] /\ q[5] = t[5 - 3] /\ q[6] = t[6 - 3] /\ q[7] = t[7 - 3]
          /\ q[8] = t[8 - 3] /\ q[9] = t[9 - 3]
      BY <3>6
    <3>9. 4 - 3 = 1 /\ 5 - 3 = 2 /\ 6 - 3 = 3 /\ 7 - 3 = 4 /\ 8 - 3 = 5 /\ 9 - 3 = 6
      OBVIOUS
    <3> QED
      BY <3>2, <3>4, <3>6, <3>7, <3>8, <3>9
  <2>3. \E k \in 1 .. 8 - 1 : q[k] = s
    BY <2>2
  <2>4. \A i \in 1 .. 8 - 1 : Plainly(q[i])
    <3>1. \A i \in 1 .. 8 - 1 : i = 1 \/ i = 2 \/ i = 3 \/ i = 4 \/ i = 5 \/ i = 6 \/ i = 7
      OBVIOUS
    <3> QED
      BY <1>3, <2>2, <3>1
  <2>5. Len(q) = 8 + 1 /\ q[8] = d /\ q[8 + 1] = e
    BY <2>2
  <2> QED
    BY <1>8, <2>2, <2>3, <2>4, <2>5
<1> QED
  BY <1>9, <1>10

(* What a coordinator found is done before what closes its plan.           *)
LEMMA DecidedInvariant ==
    ASSUME IInv, SameRows, NEW k, At(k), k \in {"decide", "complete"},
           NEW ops \in Seq(Op), Proceed(ops),
           \A i \in 1 .. Len(ops) :
               /\ Fits(ops[i])' /\ ~Acknowledges(ops[i]) /\ ~Halts(ops[i])
               /\ ops[i] # <<"pause_run">>
               /\ ops[i][1] = "finish" => i > 1 /\ ops[i - 1] = <<"read">>
               /\ ops[i][1] \in {"decide", "complete"} => i = Len(ops)
               /\ Succeeds(ops[i]) => /\ AllPassed
                                      /\ \A m \in 1 .. i - 1 : ops[m] = <<"read">>
                                      /\ \A m \in i + 1 .. Len(ops) : Closes(ops[m])
    PROVE  IInv'
<1>1. worker' = [worker EXCEPT !.plan = ops \o Tail(@)]
  BY DEF Proceed
<1>2. Left \in Seq(Op) /\ Left # <<>> /\ Left[1][1] = k /\ Len(Left) \in Nat /\ Len(Left) > 0
      /\ 1 \in Places
  BY Acting
<1>3. /\ worker'.plan = ops \o Tail(Left) /\ worker'.job = worker.job
      /\ worker'.phase = worker.phase
  BY <1>1, Replanned DEF Left, IInv, WorkerShapes, WorkerFields
<1>4. worker.job \in Coordinators /\ worker.phase = "handle"
      /\ ~Harmless(Left[1]) /\ ~Closes(Left[1])
  BY CoordinatorAtWork DEF CoordinatorOps
<1>5. (Begun => Begun') /\ (AllPassed => AllPassed')
  BY <1>3 DEF SameRows, plans, stages, AllPassed, Begun, Attempt, P
<1>6. SuccessFits /\ OpsFit
  BY DEF IInv, PlanFits
<1>7. Begun /\ \A m \in 1 + 1 .. Len(Left) : Closes(Left[m])
  <2>1. /\ Begun \/ \E m \in 1 .. 1 - 1 : Left[m] = <<"start_execution">>
        /\ \A m \in 1 + 1 .. Len(Left) : Closes(Left[m])
    BY <1>2, <1>6 DEF SuccessFits
  <2> QED
    BY <2>1
<1>8. PICK q : q = ops \o Tail(Left)
  OBVIOUS
<1>9. PICK n : n = Len(ops)
  OBVIOUS
<1>10. /\ q \in Seq(Op) /\ Len(q) = n + Len(Left) - 1
       /\ \A i \in 1 .. n : q[i] = ops[i]
       /\ \A i \in n + 1 .. Len(q) : i - n + 1 \in 2 .. Len(Left) /\ q[i] = Left[i - n + 1]
  BY <1>2, <1>8, <1>9, NewPlan
<1>11. n \in Nat
  BY <1>9
<1>12. ASSUME NEW i \in n + 1 .. Len(q)
       PROVE  Closes(q[i]) /\ Fits(q[i])'
  <2>1. i - n + 1 \in 2 .. Len(Left) /\ q[i] = Left[i - n + 1]
    BY <1>10
  <2>2. Closes(Left[i - n + 1])
    BY <1>7, <2>1
  <2>3. i - n + 1 \in Places
    BY <1>2, <2>1 DEF Places
  <2>4. Fits(Left[i - n + 1]) /\ Left[i - n + 1] \in Op
    BY <1>2, <1>6, <2>3 DEF OpsFit, Fits, Places
  <2>5. PICK op : op = Left[i - n + 1]
    OBVIOUS
  <2>6. Closes(op) /\ Fits(op) /\ op \in Op /\ q[i] = op
    BY <2>1, <2>2, <2>4, <2>5
  <2>7. Fits(op)'
    BY <1>3, <2>6 DEF Fits, Enqueues, OfStage, OfCoordinator, InPhase, Closes, Succeeds
  <2> QED
    BY <2>6, <2>7
<1>13. \A i \in 1 .. Len(q) : i \in 1 .. n \/ i \in n + 1 .. Len(q)
  BY <1>10, <1>11
<1>14. \A i \in n + 1 .. Len(q) : /\ ~Acknowledges(q[i]) /\ ~Halts(q[i]) /\ q[i] # <<"pause_run">>
                                  /\ ~Succeeds(q[i])
                                  /\ q[i][1] \notin {"finish", "decide", "complete"}
  BY <1>12 DEF Closes, Acknowledges, Halts, Cancels, Succeeds
<1>15. \A i \in 1 .. n : i - 1 \in Int /\ (i > 1 => i - 1 \in 1 .. n)
  BY <1>11
<1>16. \A i \in 1 .. Len(q) :
            /\ Fits(q[i])' /\ ~Acknowledges(q[i]) /\ ~Halts(q[i]) /\ q[i] # <<"pause_run">>
            /\ q[i][1] = "finish" => i > 1 /\ q[i - 1] = <<"read">>
  <2> SUFFICES ASSUME NEW i \in 1 .. Len(q)
               PROVE  /\ Fits(q[i])' /\ ~Acknowledges(q[i]) /\ ~Halts(q[i])
                      /\ q[i] # <<"pause_run">>
                      /\ q[i][1] = "finish" => i > 1 /\ q[i - 1] = <<"read">>
    OBVIOUS
  <2>1. CASE i \in 1 .. n
    <3>1. q[i] = ops[i] /\ (i > 1 => q[i - 1] = ops[i - 1])
      BY <1>10, <1>15, <2>1
    <3>2. /\ Fits(ops[i])' /\ ~Acknowledges(ops[i]) /\ ~Halts(ops[i])
          /\ ops[i] # <<"pause_run">>
          /\ ops[i][1] = "finish" => i > 1 /\ ops[i - 1] = <<"read">>
      BY <1>9, <2>1
    <3> QED
      BY <3>1, <3>2
  <2>2. CASE i \in n + 1 .. Len(q)
    BY <1>12, <1>14, <2>2
  <2> QED
    BY <1>13, <2>1, <2>2
<1>17. \A i \in 1 .. Len(q) : q[i][1] \in {"decide", "complete"} =>
            /\ Begun' \/ \E m \in 1 .. i - 1 : q[m] = <<"start_execution">>
            /\ \A m \in i + 1 .. Len(q) : Closes(q[m])
  <2> SUFFICES ASSUME NEW i \in 1 .. Len(q), q[i][1] \in {"decide", "complete"}
               PROVE  Begun' /\ \A m \in i + 1 .. Len(q) : Closes(q[m])
    OBVIOUS
  <2>1. i \in 1 .. n
    BY <1>13, <1>14
  <2>2. q[i] = ops[i]
    BY <1>10, <2>1
  <2>3. i = n
    BY <1>9, <2>1, <2>2
  <2> QED
    BY <1>5, <1>7, <1>12, <2>3
<1>18. \A i \in 1 .. Len(q) : Succeeds(q[i]) =>
            /\ AllPassed'
            /\ \A m \in 1 .. i - 1 : q[m] = <<"read">>
            /\ \A m \in i + 1 .. Len(q) : Closes(q[m])
  <2> SUFFICES ASSUME NEW i \in 1 .. Len(q), Succeeds(q[i])
               PROVE  /\ AllPassed'
                      /\ \A m \in 1 .. i - 1 : q[m] = <<"read">>
                      /\ \A m \in i + 1 .. Len(q) : Closes(q[m])
    OBVIOUS
  <2>1. i \in 1 .. n
    BY <1>13, <1>14
  <2>2. q[i] = ops[i]
    BY <1>10, <2>1
  <2>3. /\ AllPassed
        /\ \A m \in 1 .. i - 1 : ops[m] = <<"read">>
        /\ \A m \in i + 1 .. n : Closes(ops[m])
    BY <1>9, <2>1, <2>2
  <2>4. \A m \in 1 .. i - 1 : m \in 1 .. n
    BY <1>11, <2>1
  <2>5. \A m \in i + 1 .. Len(q) : (m \in 1 .. n /\ m \in i + 1 .. n) \/ m \in n + 1 .. Len(q)
    BY <1>10, <1>11, <2>1
  <2> QED
    BY <1>5, <1>10, <1>12, <2>3, <2>4, <2>5
<1>19. worker'.plan = q
  BY <1>3, <1>8
<1>20. PlanFits'
  BY <1>10, <1>16, <1>17, <1>18, <1>19, DecidingPlan
<1> QED
  BY <1>1, <1>4, <1>20, ProceedInvariant

LEMMA CompleteRunInvariant == ASSUME IInv, CompleteRun PROVE IInv'
<1>1. At("complete") /\ SameRows
  BY DEF CompleteRun, SameRows
<1>2. /\ worker.job \in Coordinators /\ worker.phase = "handle"
      /\ ~Harmless(Left[1]) /\ ~Closes(Left[1])
  BY <1>1, CoordinatorAtWork DEF CoordinatorOps
<1>3. Begun
  <2>1. Left[1][1] = "complete" /\ 1 \in Places /\ SuccessFits
    BY <1>1, Acting DEF IInv, PlanFits
  <2>2. Begun \/ \E k \in 1 .. 1 - 1 : Left[k] = <<"start_execution">>
    BY <2>1 DEF SuccessFits
  <2> QED
    BY <2>2
<1> DEFINE r == <<"read">>
           f == <<"finish", "succeeded">>
           c == <<"close_execution">>
<1>4. ASSUME NEW ops, Proceed(ops)
      PROVE  worker'.phase = "handle" /\ worker'.job \in Coordinators
  BY <1>2, <1>4, Replanned DEF Proceed, IInv, WorkerShapes, WorkerFields
<1>5. r \in Op /\ f \in Op /\ c \in Op
  BY OpsAre DEF Plain, FinishTarget, FinishedRun
<1>6. CASE worker.seen = "succeeded"
  <2>1. PICK ops : ops = <<c>>
    OBVIOUS
  <2>2. Proceed(ops)
    BY <1>6, <2>1 DEF CompleteRun
  <2>3. Plainly(c)
    BY <1>4, <2>2, PlainOps
  <2> HIDE DEF c
  <2>4. ops \in Seq(Op) /\ \A i \in 1 .. Len(ops) : ops[i] = c
    BY <1>5, <2>1
  <2> QED
    BY <1>1, <1>2, <2>2, <2>3, <2>4, InsertInvariant DEF Plainly
<1>7. CASE worker.seen = "running" /\ \A s \in plan[P] : Attempt(s) = "pass"
  <2>1. PICK ops : ops = Finish("succeeded") \o <<c>>
    OBVIOUS
  <2>2. Proceed(ops)
    BY <1>7, <2>1 DEF CompleteRun
  <2>3. AllPassed
    BY <1>3, <1>7 DEF AllPassed
  <2>4. Plainly(r) /\ Plainly(c) /\ Fits(f)'
    BY <1>4, <2>2, PlainOps, FitCoordinator
  <2>5. /\ ~Acknowledges(f) /\ ~Halts(f) /\ f # <<"pause_run">> /\ f[1] = "finish"
        /\ Closes(c)
    BY DEF Acknowledges, Halts, Cancels, Closes
  <2>6. ops = <<r>> \o <<f>> \o <<c>>
    BY <2>1 DEF Finish, Read
  <2>7. ops \in Seq(Op) /\ Len(ops) = 3 /\ ops[1] = r /\ ops[2] = f /\ ops[3] = c
    <3>1. r \in Op /\ f \in Op /\ c \in Op
      BY <1>5
    <3>2. ops = Read \o <<<<"finish", "succeeded">>>> \o <<<<"close_execution">>>>
      BY <2>1 DEF Finish
    <3> QED
      BY <3>1, <3>2 DEF Read
  <2>8. \A i \in 1 .. Len(ops) : i = 1 \/ i = 2 \/ i = 3
    BY <2>7
  <2>9. \A i \in 1 .. Len(ops) :
               /\ Fits(ops[i])' /\ ~Acknowledges(ops[i]) /\ ~Halts(ops[i])
               /\ ops[i] # <<"pause_run">>
               /\ ops[i][1] = "finish" => i > 1 /\ ops[i - 1] = <<"read">>
               /\ ops[i][1] \in {"decide", "complete"} => i = Len(ops)
               /\ Succeeds(ops[i]) => /\ AllPassed
                                      /\ \A m \in 1 .. i - 1 : ops[m] = <<"read">>
                                      /\ \A m \in i + 1 .. Len(ops) : Closes(ops[m])
    <3> SUFFICES ASSUME NEW i \in 1 .. Len(ops)
                 PROVE  /\ Fits(ops[i])' /\ ~Acknowledges(ops[i]) /\ ~Halts(ops[i])
                        /\ ops[i] # <<"pause_run">>
                        /\ ops[i][1] = "finish" => i = 2
                        /\ ops[i][1] \notin {"decide", "complete"}
                        /\ Succeeds(ops[i]) => i = 2
      <4>1. \A m \in 1 .. 2 - 1 : ops[m] = <<"read">>
        BY <2>7
      <4>2. \A m \in 2 + 1 .. Len(ops) : Closes(ops[m])
        <5>1. \A m \in 2 + 1 .. Len(ops) : m = 3
          BY <2>7
        <5> QED
          BY <2>5, <2>7, <5>1
      <4>3. 2 > 1 /\ ops[2 - 1] = <<"read">>
        BY <2>7
      <4> QED
        BY <2>3, <4>1, <4>2, <4>3
    <3> HIDE DEF r, f, c
    <3>1. CASE i = 1
      BY <2>4, <2>7, <3>1 DEF Plainly
    <3>2. CASE i = 2
      BY <2>4, <2>5, <2>7, <3>2
    <3>3. CASE i = 3
      BY <2>4, <2>7, <3>3 DEF Plainly
    <3> QED
      BY <2>8, <3>1, <3>2, <3>3
  <2> QED
    BY <1>1, <2>2, <2>7, <2>9, DecidedInvariant
<1>8. CASE ~(worker.seen = "succeeded")
           /\ ~(worker.seen = "running" /\ \A s \in plan[P] : Attempt(s) = "pass")
  <2>1. Refuse
    BY <1>8 DEF CompleteRun
  <2> QED
    BY <1>1, <2>1, RefuseInvariant
<1> QED
  BY <1>6, <1>7, <1>8

(* The next batch in some order.                                            *)
LEMMA BatchOrder ==
    ASSUME NextBatch \subseteq Stages
    PROVE  SetToSeq(NextBatch) \in Seq(NextBatch)
<1> DEFINE n == Cardinality(NextBatch)
<1>1. IsFiniteSet(NextBatch)
  <2>1. N \in Int
    BY ControlAssumption
  <2>2. IsFiniteSet(Stages)
    BY <2>1, FS_Interval DEF Stages
  <2> QED
    BY <2>2, FS_Subset
<1>2. n \in Nat /\ ExistsBijection(1 .. n, NextBatch)
  BY <1>1, FS_CardinalityType
<1>3. \E f \in [1 .. n -> NextBatch] : IsInjective(f)
  BY <1>2 DEF ExistsBijection, Bijection, Injection, IsInjective
<1>4. SetToSeq(NextBatch) \in [1 .. n -> NextBatch]
  BY <1>3 DEF SetToSeq
<1> HIDE DEF n
<1> QED
  BY <1>2, <1>4

(* Each stage of a batch is planned and then enqueued.                      *)
LEMMA AdmissionsAre ==
    ASSUME NEW order \in Seq(Stages)
    PROVE  LET A == Admissions(order)
           IN  \E m \in Nat :
                  /\ A = [i \in 1 .. m |-> A[i]]
                  /\ \A i \in 1 .. m : \/ \E s \in Stages : A[i] = <<"plan_attempt", s>>
                                       \/ \E s \in Stages : A[i] = <<"enqueue", StageJob(P, s)>>
<1> DEFINE n == Len(order)
           A == Admissions(order)
<1>1. n \in Nat /\ \A i \in 1 .. n : order[i] \in Stages
  OBVIOUS
<1>2. PICK m \in Nat : m = 2 * n
  BY <1>1
<1> HIDE DEF n
<1>3. A = [i \in 1 .. m |-> A[i]]
  BY <1>2 DEF Admissions, n
<1>4. \A i \in 1 .. m : A[i] = IF i % 2 = 1 THEN <<"plan_attempt", order[(i + 1) \div 2]>>
                               ELSE <<"enqueue", StageJob(P, order[i \div 2])>>
  BY <1>2 DEF Admissions, n
<1>5. ASSUME NEW i \in 1 .. m
      PROVE  \/ \E s \in Stages : A[i] = <<"plan_attempt", s>>
             \/ \E s \in Stages : A[i] = <<"enqueue", StageJob(P, s)>>
  <2>1. CASE i % 2 = 1
    <3>1. (i + 1) \div 2 \in 1 .. n
      BY <1>1, <1>2, <2>1
    <3>2. order[(i + 1) \div 2] \in Stages
      BY <1>1, <3>1
    <3> QED
      BY <1>4, <2>1, <3>2
  <2>2. CASE i % 2 # 1
    <3>1. i \div 2 \in 1 .. n
      BY <1>1, <1>2, <2>2
    <3>2. order[i \div 2] \in Stages
      BY <1>1, <3>1
    <3> QED
      BY <1>4, <2>2, <3>2
  <2> QED
    BY <2>1, <2>2
<1> QED
  BY <1>3, <1>5

LEMMA DecideCoordinatorInvariant == ASSUME IInv, DecideCoordinator PROVE IInv'
<1>1. At("decide") /\ SameRows
  BY DEF DecideCoordinator, SameRows
<1>2. /\ worker.job \in Coordinators /\ worker.phase = "handle" /\ P \in Plans
      /\ ~Harmless(Left[1]) /\ ~Closes(Left[1])
  BY <1>1, CoordinatorAtWork DEF CoordinatorOps
<1>3. ASSUME NEW ops, Proceed(ops)
      PROVE  worker'.phase = "handle" /\ worker'.job \in Coordinators /\ worker'.job = worker.job
  BY <1>2, <1>3, Replanned DEF Proceed, IInv, WorkerShapes, WorkerFields
<1>4. ASSUME Proceed(<<>>)
      PROVE  IInv'
  BY <1>1, <1>4, ProceedNothing
<1>5. ASSUME Proceed(Read \o <<<<"complete">>>>)
      PROVE  IInv'
  <2> DEFINE r == <<"read">>
             c == <<"complete">>
  <2>1. PICK ops : ops = Read \o <<c>>
    OBVIOUS
  <2>2. Proceed(ops)
    BY <1>5, <2>1
  <2>3. r \in Op /\ c \in Op
    BY OpsAre DEF Plain
  <2>4. Plainly(r) /\ Fits(c)'
    BY <1>3, <2>2, PlainOps, FitCoordinator
  <2>5. /\ ~Acknowledges(c) /\ ~Halts(c) /\ c # <<"pause_run">> /\ c[1] # "finish"
        /\ ~Succeeds(c)
    BY DEF Acknowledges, Halts, Cancels, Succeeds
  <2>6. ops \in Seq(Op) /\ Len(ops) = 2 /\ ops[1] = r /\ ops[2] = c
    BY <2>1, <2>3 DEF Read
  <2>7. \A i \in 1 .. Len(ops) : i = 1 \/ i = 2
    BY <2>6
  <2> HIDE DEF r, c
  <2>8. \A i \in 1 .. Len(ops) :
               /\ Fits(ops[i])' /\ ~Acknowledges(ops[i]) /\ ~Halts(ops[i])
               /\ ops[i] # <<"pause_run">> /\ ops[i][1] # "finish"
               /\ ops[i][1] \in {"decide", "complete"} => i = Len(ops)
               /\ ~Succeeds(ops[i])
    <3> SUFFICES ASSUME NEW i \in 1 .. Len(ops)
                 PROVE  /\ Fits(ops[i])' /\ ~Acknowledges(ops[i]) /\ ~Halts(ops[i])
                        /\ ops[i] # <<"pause_run">> /\ ops[i][1] # "finish"
                        /\ ops[i][1] \in {"decide", "complete"} => i = Len(ops)
                        /\ ~Succeeds(ops[i])
      OBVIOUS
    <3>1. CASE i = 1
      BY <2>4, <2>6, <3>1 DEF Plainly
    <3>2. CASE i = 2
      BY <2>4, <2>5, <2>6, <3>2
    <3> QED
      BY <2>7, <3>1, <3>2
  <2> QED
    BY <1>1, <2>2, <2>6, <2>8, DecidedInvariant
<1>6. ASSUME Proceed(Admissions(SetToSeq(NextBatch)))
      PROVE  IInv'
  <2>1. NextBatch \subseteq Stages
    BY <1>2 DEF NextBatch, IInv, RowShapes
  <2>2. PICK order \in Seq(Stages) : order = SetToSeq(NextBatch)
    <3>1. SetToSeq(NextBatch) \in Seq(NextBatch)
      BY <2>1, BatchOrder
    <3>2. SetToSeq(NextBatch) \in Seq(Stages)
      BY <2>1, <3>1
    <3> QED
      BY <3>2
  <2>3. PICK ops : ops = Admissions(order)
    OBVIOUS
  <2>4. PICK m \in Nat :
           /\ ops = [i \in 1 .. m |-> ops[i]]
           /\ \A i \in 1 .. m : \/ \E s \in Stages : ops[i] = <<"plan_attempt", s>>
                                \/ \E s \in Stages : ops[i] = <<"enqueue", StageJob(P, s)>>
    BY <2>3, AdmissionsAre
  <2>5. Proceed(ops)
    BY <1>6, <2>2, <2>3
  <2>6. worker.job = worker'.job /\ worker'.phase = "handle" /\ worker'.job \in Coordinators
    BY <1>3, <2>5
  <2>7. ASSUME NEW s \in Stages
        PROVE  Known(StageJob(P, s))' /\ StageJob(P, s) \in Jobs
    <3>1. PICK j : j = StageJob(P, s)
      OBVIOUS
    <3>2. j \in Jobs /\ j[2] = P /\ j[4] = 0
      BY <1>2, <3>1 DEF Jobs, StageJobs, StageJob
    <3>3. P <= Committed /\ Committed' = Committed /\ faults' = faults
      BY <1>1, <1>2, RowsStay DEF IInv, WorkerFits, Known, P, SameRows
    <3>4. Known(j)'
      BY <3>2, <3>3, Numbers DEF Known
    <3>5. StageJob(P, s)' = StageJob(P, s)
      BY <2>6 DEF StageJob, P
    <3> QED
      BY <3>1, <3>2, <3>4, <3>5
  <2>8. ASSUME NEW s \in Stages
        PROVE  Plainly(<<"plan_attempt", s>>) /\ <<"plan_attempt", s>> \in Op
    <3>1. Fits(<<"plan_attempt", s>>)'
      BY <2>6, FitCoordinator
    <3> QED
      BY <3>1, OpsAre DEF Plainly, Acknowledges, Halts, Cancels, Succeeds
  <2>9. ASSUME NEW j \in Jobs, Known(j)'
        PROVE  Plainly(<<"enqueue", j>>) /\ <<"enqueue", j>> \in Op
    <3>1. Fits(<<"enqueue", j>>)'
      BY <2>6, <2>9, FitAnywhere
    <3> QED
      BY <3>1, OpsAre DEF Plainly, Acknowledges, Halts, Cancels, Succeeds
  <2>10. \A i \in 1 .. m : Plainly(ops[i]) /\ ops[i] \in Op
    <3> SUFFICES ASSUME NEW i \in 1 .. m
                 PROVE  Plainly(ops[i]) /\ ops[i] \in Op
      OBVIOUS
    <3>1. CASE \E s \in Stages : ops[i] = <<"plan_attempt", s>>
      BY <2>8, <3>1
    <3>2. CASE \E s \in Stages : ops[i] = <<"enqueue", StageJob(P, s)>>
      <4>1. PICK s \in Stages : ops[i] = <<"enqueue", StageJob(P, s)>>
        BY <3>2
      <4>2. PICK j : j = StageJob(P, s)
        OBVIOUS
      <4>3. Known(j)' /\ j \in Jobs
        <5>1. StageJob(P, s)' = StageJob(P, s)
          BY <2>6 DEF StageJob, P
        <5> QED
          BY <2>7, <4>2, <5>1
      <4>4. Plainly(<<"enqueue", j>>) /\ <<"enqueue", j>> \in Op
        BY <2>9, <4>3
      <4> QED
        BY <4>1, <4>2, <4>4
    <3> QED
      BY <2>4, <3>1, <3>2
  <2>11. ops \in Seq(Op) /\ Len(ops) = m
    <3>1. ops \in [1 .. m -> Op]
      BY <2>4, <2>10
    <3> QED
      BY <3>1
  <2>12. \A i \in 1 .. Len(ops) :
               /\ Fits(ops[i])' /\ ~Acknowledges(ops[i]) /\ ~Halts(ops[i])
               /\ ops[i] # <<"pause_run">> /\ ops[i][1] \notin {"finish", "decide", "complete"}
    BY <2>10, <2>11 DEF Plainly
  <2> QED
    BY <1>1, <1>2, <2>5, <2>11, <2>12, InsertInvariant
<1>7. \/ Proceed(<<>>)
      \/ Proceed(Read \o <<<<"complete">>>>)
      \/ Proceed(Admissions(SetToSeq(NextBatch)))
  <2>1. CASE Blocked
    BY <2>1 DEF DecideCoordinator
  <2>2. CASE ~Blocked /\ NextBatch # {}
    BY <2>2 DEF DecideCoordinator
  <2>3. CASE ~Blocked /\ NextBatch = {} /\ \A s \in plan[P] : Passed(s)
    BY <2>3 DEF DecideCoordinator
  <2>4. CASE ~Blocked /\ NextBatch = {} /\ ~\A s \in plan[P] : Passed(s)
    BY <2>4 DEF DecideCoordinator
  <2> QED
    BY <2>1, <2>2, <2>3, <2>4
<1> QED
  BY <1>4, <1>5, <1>6, <1>7

-----------------------------------------------------------------------------
(* Steps of the worker that write rows of the Run.                         *)

\* The rows of the Run, its plans and its stages after a step.
RowsMoved ==
    /\ RowShapes' /\ PlansFit' /\ QueueFits' /\ RecentFits' /\ JobsFit'
    /\ AcknowledgedIsDone' /\ Stays /\ Committed' = Committed

LEMMA RowsMove ==
    ASSUME IInv, UNCHANGED <<plan, ctl, jobs, faults>>, draft' \in {draft, {}},
           run' \in RunStatus, run = "canceled" => run' = "canceled",
           execution' \in [Plans -> ExecutionState],
           runAttempt' \in [Plans -> {"none", "queued", "running"} \cup FinishedRun \cup {"failed"}],
           attempt' \in [Plans -> [Stages -> AttemptStatus]],
           latest' \in [Stages -> Plans],
           \A p \in Plans : execution'[p] # "absent" => execution[p] # "absent",
           \A p \in Plans, s \in Stages :
               attempt[p][s] \in TerminalAttempt => attempt'[p][s] \in TerminalAttempt
    PROVE  RowsMoved
<1>1. /\ plan' = plan /\ control' = control /\ base' = base /\ recent' = recent
      /\ job' = job /\ queue' = queue /\ faults' = faults
  BY DEF ctl, jobs
<1>2. RowShapes'
  BY <1>1 DEF IInv, RowShapes
<1>3. PlansFit' /\ Committed' = Committed
  BY <1>1, PlansKept DEF IInv
<1>4. QueueFits' /\ RecentFits'
  BY <1>1, ListsKept DEF IInv
<1>5. JobsFit'
  BY <1>1, <1>3, Numbers, JobsKept DEF IInv
<1>6. Stays
  <2>1. \A c \in Controls : control[c] # "absent" =>
            control'[c] # "absent" /\ base'[c] = base[c]
    BY <1>1
  <2>2. /\ Target \in [Controls -> Stages] /\ base \in [Controls -> Plans]
        /\ Action \in [Controls -> {"pause", "cancel_stage", "terminate"}]
    BY ControlAssumption DEF IInv, RowShapes
  <2>3. /\ Committed \in Int /\ Committed' \in Int /\ Committed' >= Committed
        /\ faults \in Int /\ faults' \in Int /\ faults' >= faults
        /\ \A c \in Controls : base[c] \in Int /\ (Action[c] = "terminate" => base[c] <= Committed)
    BY <1>1, <1>3, Numbers
  <2> QED
    BY <2>1, <2>2, <2>3, StaysIf
<1>7. AcknowledgedIsDone'
  <2>1. AcknowledgedIsDone
    BY DEF IInv
  <2> QED
    BY <1>1, <1>6, <2>1, AcknowledgedStays
<1> QED
  BY <1>2, <1>3, <1>4, <1>5, <1>6, <1>7 DEF RowsMoved

(* The operation at hand wrote rows and the rest of the plan is left.      *)
LEMMA AdvanceStep ==
    ASSUME IInv, NEW k, At(k), k # "read", RowsMoved, SucceededMeansPassed', Proceed(<<>>),
           run' = run \/ run' \notin {"paused", "canceled", "succeeded"},
           worker.phase = "handle" => job'[worker.job] = "running",
           worker'.job = worker.job /\ worker.job \in Coordinators /\ Begun => Begun',
           worker'.job = worker.job /\ k = "start_execution" => Begun',
           \A c \in Controls : Does(Left[1], c) /\ Owed(c) => Done(c)'
    PROVE  IInv'
<1>1. PICK q : q = <<>> \o Tail(Left)
  OBVIOUS
<1>2. worker' = [worker EXCEPT !.plan = q]
  BY <1>1 DEF Proceed, Left
<1>3. /\ Left \in Seq(Op) /\ Left # <<>> /\ Left[1][1] = k
      /\ worker.phase \in {"handle", "recover"}
  BY Acting
<1>4. q = Tail(Left) /\ q \in Seq(Op)
  BY <1>1, <1>3
<1>5. /\ worker'.plan = q /\ worker'.job = worker.job /\ worker'.phase = worker.phase
      /\ worker'.held = worker.held /\ WorkerShapes'
  BY <1>2, <1>4, Replanned
<1>6. PlanFits /\ Stays
  BY DEF IInv, RowsMoved
<1>7. /\ PlanFits'
      /\ (\A i \in Places : Harmless(Left[i])) =>
             \A i \in 1 .. Len(worker'.plan) : Harmless(worker'.plan[i])
      /\ (\A i \in Places : Closes(Left[i])) =>
             \A i \in 1 .. Len(worker'.plan) : Closes(worker'.plan[i])
  <2>1. worker'.plan = Tail(Left)
    BY <1>4, <1>5
  <2>2. Left[1] # <<"read">> /\ (Left[1] = <<"start_execution">> => Begun')
    BY <1>3, <1>5
  <2> QED
    BY <1>3, <1>5, <1>6, <2>1, <2>2, PlanAdvances
<1> QED
  BY <1>3, <1>5, <1>7, StepInvariant DEF RowsMoved

LEMMA AtWorkRuns ==
    ASSUME IInv, NEW k, At(k), job' = job
    PROVE  worker.phase = "handle" => job'[worker.job] = "running"
BY DEF IInv, WorkerFits

LEMMA StartExecutionInvariant == ASSUME IInv, StartExecution PROVE IInv'
<1>1. At("start_execution") /\ UNCHANGED <<runRow, plan, runAttempt, stages, ctl, jobs, faults>>
  BY DEF StartExecution
<1>2. worker.job \in Coordinators /\ P \in Plans /\ Left[1][1] = "start_execution"
  BY <1>1, CoordinatorAtWork, Acting DEF CoordinatorOps
<1>3. CASE execution[P] \in {"queued", "running"}
  <2>1. execution' = [execution EXCEPT ![P] = "running"] /\ Proceed(<<>>)
    BY <1>3 DEF StartExecution
  <2>2. execution \in [Plans -> ExecutionState] /\ "running" \in ExecutionState
    BY DEF IInv, RowShapes, ExecutionState
  <2>3. /\ execution' \in [Plans -> ExecutionState] /\ execution'[P] = "running"
        /\ \A p \in Plans : p # P => execution'[p] = execution[p]
    BY <1>2, <2>1, <2>2
  <2>4. RowsMoved
    <3>1. \A p \in Plans : execution'[p] # "absent" => execution[p] # "absent"
      BY <1>3, <2>3
    <3> QED
      BY <1>1, <2>3, <3>1, RowsMove DEF IInv, RowShapes, runRow, stages
  <2>5. SucceededMeansPassed'
    <3>1. \A p \in Plans : execution[p] \in {"running", "completed"} =>
             execution'[p] \in {"running", "completed"}
      BY <2>3
    <3> QED
      BY <1>1, <3>1, SucceededStays DEF IInv, runRow, stages
  <2>6. worker'.job = worker.job => Begun'
    BY <2>3 DEF Begun, P
  <2>7. \A c \in Controls : ~Does(Left[1], c)
    BY <1>2 DEF Does, Cancels
  <2>8. run' = run /\ job' = job
    BY <1>1 DEF runRow, jobs
  <2> QED
    BY <1>1, <2>1, <2>4, <2>5, <2>6, <2>7, <2>8, AtWorkRuns, AdvanceStep
<1>4. CASE execution[P] \notin {"queued", "running"}
  <2>1. Refuse /\ SameRows
    BY <1>1, <1>4 DEF StartExecution, SameRows, plans
  <2> QED
    BY <1>1, <2>1, RefuseInvariant
<1> QED
  BY <1>3, <1>4

LEMMA CloseExecutionInvariant == ASSUME IInv, CloseExecution PROVE IInv'
<1>1. /\ At("close_execution") /\ UNCHANGED <<runRow, plan, runAttempt, stages, ctl, jobs, faults>>
      /\ execution' = [execution EXCEPT ![P] = IF @ = "running" THEN "completed" ELSE @]
      /\ Proceed(<<>>)
  BY DEF CloseExecution
<1>2. worker.job \in Coordinators /\ P \in Plans /\ Left[1][1] = "close_execution"
  BY <1>1, CoordinatorAtWork, Acting DEF CoordinatorOps
<1>3. execution \in [Plans -> ExecutionState] /\ "completed" \in ExecutionState
  BY DEF IInv, RowShapes, ExecutionState
<1>4. /\ execution' \in [Plans -> ExecutionState]
      /\ \A p \in Plans : execution'[p] = execution[p]
                          \/ (execution[p] = "running" /\ execution'[p] = "completed")
  BY <1>1, <1>2, <1>3
<1>5. RowsMoved
  <2>1. \A p \in Plans : execution'[p] # "absent" => execution[p] # "absent"
    BY <1>4
  <2> QED
    BY <1>1, <1>4, <2>1, RowsMove DEF IInv, RowShapes, runRow, stages
<1>6. SucceededMeansPassed'
  <2>1. \A p \in Plans : execution[p] \in {"running", "completed"} =>
           execution'[p] \in {"running", "completed"}
    BY <1>4
  <2> QED
    BY <1>1, <2>1, SucceededStays DEF IInv, runRow, stages
<1>7. worker'.job = worker.job /\ Begun => Begun'
  BY <1>2, <1>4 DEF Begun, P
<1>8. \A c \in Controls : ~Does(Left[1], c)
  BY <1>2 DEF Does, Cancels
<1>9. run' = run /\ job' = job
  BY <1>1 DEF runRow, jobs
<1> QED
  BY <1>1, <1>5, <1>6, <1>7, <1>8, <1>9, AtWorkRuns, AdvanceStep

LEMMA FinishRunAttemptsInvariant == ASSUME IInv, FinishRunAttempts PROVE IInv'
<1> DEFINE outcome == IF Arg(2) \in {"succeeded", "canceled", "interrupted"} THEN Arg(2) ELSE "failed"
<1>1. /\ At("finish_attempts")
      /\ UNCHANGED <<runRow, plan, execution, stages, ctl, jobs, faults>>
      /\ runAttempt' = [p \in Plans |-> IF runAttempt[p] = "running" THEN outcome ELSE runAttempt[p]]
      /\ Proceed(<<>>)
  BY DEF FinishRunAttempts
<1>2. Left[1][1] = "finish_attempts"
  BY <1>1, Acting
<1>3. outcome \in FinishedRun \cup {"failed"}
  BY DEF FinishedRun
<1>4. runAttempt' \in [Plans -> {"none", "queued", "running"} \cup FinishedRun \cup {"failed"}]
  <2> HIDE DEF outcome
  <2> QED
    BY <1>1, <1>3 DEF IInv, RowShapes
<1>5. RowsMoved
  BY <1>1, <1>4, RowsMove DEF IInv, RowShapes, runRow, stages
<1>6. SucceededMeansPassed'
  BY <1>1, SucceededStays DEF IInv, runRow, stages
<1>7. worker'.job = worker.job /\ Begun => Begun'
  BY <1>1 DEF Begun, P
<1>8. \A c \in Controls : ~Does(Left[1], c)
  BY <1>2 DEF Does, Cancels
<1>9. run' = run /\ job' = job
  BY <1>1 DEF runRow, jobs
<1> QED
  BY <1>1, <1>5, <1>6, <1>7, <1>8, <1>9, AtWorkRuns, AdvanceStep

(* A Run that stands still is not at the operation that is to be done.     *)
LEMMA NotSucceeded ==
    ASSUME IInv, NEW k, At(k), ~Closes(Left[1])
    PROVE  run # "succeeded"
BY Acting DEF IInv, SucceededFits

LEMMA NotHalted ==
    ASSUME IInv, NEW k, At(k), ~Harmless(Left[1])
    PROVE  /\ run # "canceled"
           /\ run = "paused" => worker.phase = "handle" /\ worker.job \in Coordinators /\ P > 0
BY Acting DEF IInv, RestFits

LEMMA RefusePlan ==
    ASSUME NEW k, At(k), IInv, Refuse
    PROVE  \E q \in Seq(Op) :
              /\ worker' = [worker EXCEPT !.plan = q] /\ PlanFits'
              /\ \A i \in 1 .. Len(q) : Harmless(q[i]) /\ Closes(q[i])
<1> DEFINE d == <<"deliver", "failed">>
<1>1. PICK q : q = <<d>>
  OBVIOUS
<1>2. d \in Op
  BY OpsAre DEF Delivered
<1>3. worker' = [worker EXCEPT !.plan = q]
  BY <1>1 DEF Refuse, Divert
<1>4. worker'.plan = q /\ worker'.phase \in {"handle", "recover"}
  BY <1>3, Replanned, Acting
<1>5. Fits(d)' /\ Harmless(d) /\ Closes(d) /\ Quiet(d) /\ d[1] # "finish"
  BY <1>4, FitAnywhere, QuietOps DEF Delivered, Harmless, Closes
<1> HIDE DEF d
<1>6. Settles(<<d>>)
  BY <1>2, <1>5, SettlesOne
<1>7. q \in Seq(Op) /\ PlanFits'
  BY <1>1, <1>4, <1>6, SettledPlan
<1>8. \A i \in 1 .. Len(q) : q[i] = d
  BY <1>1
<1> QED
  BY <1>3, <1>5, <1>7, <1>8

(* The operation at hand wrote rows and was refused.                       *)
LEMMA RefuseStep ==
    ASSUME IInv, NEW k, At(k), RowsMoved, SucceededMeansPassed', Refuse,
           run' = run \/ run' \notin {"paused", "canceled", "succeeded"},
           worker.phase = "handle" => job'[worker.job] = "running"
    PROVE  IInv'
<1>1. PICK q \in Seq(Op) : /\ worker' = [worker EXCEPT !.plan = q] /\ PlanFits'
                           /\ \A i \in 1 .. Len(q) : Harmless(q[i]) /\ Closes(q[i])
  BY RefusePlan
<1>2. /\ worker'.plan = q /\ worker'.job = worker.job /\ worker'.phase = worker.phase
      /\ worker'.held = worker.held /\ WorkerShapes'
  BY <1>1, Replanned
<1>3. worker.phase \in {"handle", "recover"}
  BY Acting
<1> QED
  BY <1>1, <1>2, <1>3, StepInvariant DEF RowsMoved

(* Rows were written and the worker's plan is what it was.                 *)
LEMMA StayStep ==
    ASSUME IInv, worker.phase \in {"handle", "recover"}, RowsMoved, SucceededMeansPassed',
           run' = run, worker.phase = "handle" => job'[worker.job] = "running",
           DOMAIN worker' = WorkerFields, worker'.plan = Left, worker'.job = worker.job,
           worker'.phase = worker.phase, worker'.seen = worker.seen, worker'.held = worker.held,
           Begun => Begun', AllPassed => AllPassed'
    PROVE  IInv'
<1>1. /\ PlanFits /\ Left \in Seq(Op) /\ Stays /\ worker.seen \in RunStatus
  BY DEF IInv, RowsMoved, WorkerShapes, Left
<1>2. PlanFits'
  BY <1>1, PlanStays
<1>3. WorkerShapes'
  BY <1>1 DEF WorkerShapes
<1> QED
  BY <1>2, <1>3, StepInvariant DEF RowsMoved, Left, Places

LEMMA EnsureRunAttemptInvariant == ASSUME IInv, EnsureRunAttempt PROVE IInv'
<1>1. /\ At("run_attempt") /\ UNCHANGED <<runRow, plan, execution, stages, ctl, jobs, faults>>
      /\ runAttempt' = [runAttempt EXCEPT ![P] =
            CASE @ = "none" -> "queued" [] @ = "queued" -> "running" [] OTHER -> @]
      /\ IF runAttempt[P] = "none" THEN UNCHANGED worker ELSE Proceed(<<>>)
  BY DEF EnsureRunAttempt
<1>2. P \in Plans /\ Left[1][1] = "run_attempt" /\ worker.phase = "handle"
  BY <1>1, CoordinatorAtWork, Acting DEF CoordinatorOps
<1>3. runAttempt' \in [Plans -> {"none", "queued", "running"} \cup FinishedRun \cup {"failed"}]
  BY <1>1, <1>2 DEF IInv, RowShapes
<1>4. RowsMoved
  BY <1>1, <1>3, RowsMove DEF IInv, RowShapes, runRow, stages
<1>5. SucceededMeansPassed'
  BY <1>1, SucceededStays DEF IInv, runRow, stages
<1>6. worker'.job = worker.job /\ Begun => Begun'
  BY <1>1 DEF Begun, P
<1>7. worker'.job = worker.job /\ AllPassed => AllPassed'
  BY <1>1, <1>6 DEF AllPassed, Attempt, stages, P
<1>8. \A c \in Controls : ~Does(Left[1], c)
  BY <1>2 DEF Does, Cancels
<1>9. run' = run /\ job' = job
  BY <1>1 DEF runRow, jobs
<1>10. CASE runAttempt[P] = "none"
  <2>1. worker' = worker /\ DOMAIN worker = WorkerFields
    BY <1>1, <1>10 DEF IInv, WorkerShapes
  <2>2. worker.phase = "handle" => job'[worker.job] = "running"
    BY <1>1, <1>9, AtWorkRuns
  <2> QED
    BY <1>2, <1>4, <1>5, <1>6, <1>7, <1>9, <2>1, <2>2, StayStep DEF Left
<1>11. CASE runAttempt[P] # "none"
  <2>1. Proceed(<<>>)
    BY <1>1, <1>11
  <2> QED
    BY <1>1, <1>4, <1>5, <1>6, <1>8, <1>9, <2>1, AtWorkRuns, AdvanceStep
<1> QED
  BY <1>10, <1>11

LEMMA ValidateInputsInvariant == ASSUME IInv, ValidateInputs PROVE IInv'
<1>1. At("inputs") /\ UNCHANGED <<plan, runAttempt, stages, ctl, jobs, faults>>
  BY DEF ValidateInputs
<1>2. /\ P \in Plans /\ Left[1][1] = "inputs" /\ worker.phase = "handle"
      /\ run \notin {"canceled", "succeeded"}
  BY <1>1, CoordinatorAtWork, Acting, NotHalted, NotSucceeded DEF CoordinatorOps
<1>3. CASE Proceed(<<>>) /\ UNCHANGED <<runRow, execution>>
  <2>1. SameRows
    BY <1>1, <1>3 DEF SameRows, plans
  <2> QED
    BY <1>1, <1>3, <2>1, ProceedNothing
<1>4. CASE /\ Refuse
           /\ IF /\ execution[P] \in {"queued", "running"}
                 /\ run = "in_doubt" \/ ValidRunTransition(run, "in_doubt")
              THEN /\ execution' = [execution EXCEPT ![P] = "reconcile_required"]
                   /\ IF run = "in_doubt" THEN UNCHANGED runRow ELSE SetRun("in_doubt")
              ELSE UNCHANGED <<runRow, execution>>
  <2>1. \/ /\ execution[P] \in {"queued", "running"}
           /\ execution' = [execution EXCEPT ![P] = "reconcile_required"]
           /\ UNCHANGED runRow \/ SetRun("in_doubt")
        \/ UNCHANGED <<runRow, execution>>
    BY <1>4
  <2>2. execution \in [Plans -> ExecutionState] /\ "reconcile_required" \in ExecutionState
        /\ run \in RunStatus /\ "in_doubt" \in RunStatus
    BY DEF IInv, RowShapes, ExecutionState, RunStatus
  <2>3. /\ execution' \in [Plans -> ExecutionState]
        /\ \A p \in Plans : execution'[p] # "absent" => execution[p] # "absent"
    BY <1>2, <2>1, <2>2
  <2>4. run' \in {run, "in_doubt"} /\ draft' \in {draft, {}}
    BY <2>1 DEF runRow, SetRun
  <2>5. RowsMoved
    BY <1>1, <1>2, <2>2, <2>3, <2>4, RowsMove DEF IInv, RowShapes, stages
  <2>6. SucceededMeansPassed'
    BY <1>2, <2>4 DEF SucceededMeansPassed
  <2>7. job' = job
    BY <1>1 DEF jobs
  <2> QED
    BY <1>1, <1>4, <2>4, <2>5, <2>6, <2>7, AtWorkRuns, RefuseStep
<1> QED
  BY <1>3, <1>4 DEF ValidateInputs

LEMMA PlanStageAttemptInvariant == ASSUME IInv, PlanStageAttempt PROVE IInv'
<1>1. PICK s : s = Arg(2)
  OBVIOUS
<1>2. /\ At("plan_attempt") /\ UNCHANGED <<runRow, plans, ctl, jobs, faults>> /\ Proceed(<<>>)
      /\ \/ UNCHANGED stages
         \/ /\ attempt[P][s] = "absent" /\ attempt' = [attempt EXCEPT ![P][s] = "queued"]
            /\ latest' = [latest EXCEPT ![s] = P]
  BY <1>1 DEF PlanStageAttempt
<1>3. /\ P \in Plans /\ Left[1][1] = "plan_attempt" /\ Left[1] \in Op
      /\ Head(worker.plan) = Left[1] /\ ~Closes(Left[1])
  BY <1>2, CoordinatorAtWork, Acting DEF CoordinatorOps
<1>4. s \in Stages /\ run # "succeeded"
  BY <1>1, <1>2, <1>3, OpFacts, NotSucceeded DEF Arg
<1>5. /\ attempt \in [Plans -> [Stages -> AttemptStatus]] /\ latest \in [Stages -> Plans]
      /\ "queued" \in AttemptStatus /\ "absent" \notin TerminalAttempt
  BY DEF IInv, RowShapes, AttemptStatus, TerminalAttempt, Completed
<1>6. attempt' \in [Plans -> [Stages -> AttemptStatus]] /\ latest' \in [Stages -> Plans]
  <2>1. CASE UNCHANGED stages
    BY <1>5, <2>1 DEF stages
  <2>2. CASE /\ attempt[P][s] = "absent" /\ attempt' = [attempt EXCEPT ![P][s] = "queued"]
             /\ latest' = [latest EXCEPT ![s] = P]
    <3>1. attempt' \in [Plans -> [Stages -> AttemptStatus]]
      BY <1>3, <1>4, <1>5, <2>2
    <3>2. latest' \in [Stages -> Plans]
      BY <1>3, <1>4, <1>5, <2>2
    <3> QED
      BY <3>1, <3>2
  <2> QED
    BY <1>2, <2>1, <2>2
<1>7. \A p \in Plans, t \in Stages :
         attempt[p][t] \in TerminalAttempt => attempt'[p][t] \in TerminalAttempt
  BY <1>2, <1>3, <1>4, <1>5 DEF stages
<1>8. RowsMoved
  BY <1>2, <1>6, <1>7, RowsMove DEF IInv, RowShapes, runRow, plans
<1>9. SucceededMeansPassed'
  BY <1>2, <1>4 DEF SucceededMeansPassed, runRow
<1>10. worker'.job = worker.job /\ Begun => Begun'
  BY <1>2 DEF Begun, P, plans
<1>11. \A c \in Controls : ~Does(Left[1], c)
  BY <1>3 DEF Does, Cancels
<1>12. run' = run /\ job' = job
  BY <1>2 DEF runRow, jobs
<1> QED
  BY <1>2, <1>8, <1>9, <1>10, <1>11, <1>12, AtWorkRuns, AdvanceStep

LEMMA TransitionStageAttemptInvariant == ASSUME IInv, TransitionStageAttempt PROVE IInv'
<1>1. PICK a, b : a = Arg(2) /\ b = Arg(3)
  OBVIOUS
<1>2. At("attempt") /\ UNCHANGED <<runRow, plans, latest, ctl, jobs, faults>>
  BY DEF TransitionStageAttempt
<1>3. /\ worker.job \in StageJobs /\ P \in Plans /\ S \in Stages
      /\ Left[1][1] = "attempt" /\ Left[1] \in Op /\ Head(worker.plan) = Left[1]
  BY <1>2, StageAtWork, Acting DEF StageOps
<1>4. a \in {"queued", "running", "in_doubt"} /\ b \in {"running", "in_doubt"} \cup TerminalAttempt
      /\ b = Left[1][3]
  BY <1>1, <1>3, OpFacts DEF Arg
<1>5. CASE attempt[P][S] = a
  <2>1. attempt' = [attempt EXCEPT ![P][S] = b] /\ Proceed(<<>>)
    BY <1>1, <1>5 DEF TransitionStageAttempt
  <2>2. /\ attempt \in [Plans -> [Stages -> AttemptStatus]]
        /\ b \in AttemptStatus /\ a \notin TerminalAttempt
    BY <1>4 DEF IInv, RowShapes, AttemptStatus, TerminalAttempt, Completed
  <2>3. attempt' \in [Plans -> [Stages -> AttemptStatus]] /\ attempt'[P][S] = b
    BY <1>3, <2>1, <2>2
  <2>4. \A p \in Plans, t \in Stages :
           attempt[p][t] \in TerminalAttempt => attempt'[p][t] \in TerminalAttempt
    BY <1>3, <1>5, <2>1, <2>2
  <2>5. RowsMoved
    BY <1>2, <2>3, <2>4, RowsMove DEF IInv, RowShapes, runRow, plans
  <2>6. run' = run /\ job' = job /\ base' = base
    BY <1>2 DEF runRow, jobs, ctl
  <2>7. run # "succeeded"
    BY <1>2, <1>3, NotSucceeded DEF Closes
  <2>8. SucceededMeansPassed'
    BY <2>6, <2>7 DEF SucceededMeansPassed
  <2>9. worker'.job = worker.job /\ Begun => Begun'
    BY <1>2 DEF Begun, P, plans
  <2>10. ASSUME NEW c \in Controls, Does(Left[1], c)
         PROVE  Done(c)'
    <3>1. /\ Action[c] = "cancel_stage" /\ b \in TerminalAttempt
          /\ Target[c] = S /\ base[c] = P
      BY <1>3, <1>4, <2>10 DEF Does, Cancels
    <3>2. attempt'[base[c]][Target[c]] \in TerminalAttempt
      BY <2>3, <3>1
    <3> QED
      BY <2>6, <3>1, <3>2 DEF Done
  <2> QED
    BY <1>2, <2>1, <2>5, <2>6, <2>8, <2>9, <2>10, AtWorkRuns, AdvanceStep
<1>6. CASE attempt[P][S] # a
  <2>1. Refuse /\ SameRows
    BY <1>1, <1>2, <1>6 DEF TransitionStageAttempt, SameRows, stages
  <2> QED
    BY <1>2, <2>1, RefuseInvariant
<1> QED
  BY <1>5, <1>6

LEMMA FinishExecutionInvariant == ASSUME IInv, FinishExecution PROVE IInv'
<1>1. PICK e : e = Arg(2)
  OBVIOUS
<1>2. At("execution") /\ UNCHANGED <<runRow, plan, runAttempt, stages, ctl, jobs, faults>>
  BY DEF FinishExecution
<1>3. /\ worker.job \in StageJobs /\ P \in Plans
      /\ Left[1][1] = "execution" /\ Left[1] \in Op /\ Head(worker.plan) = Left[1]
  BY <1>2, StageAtWork, Acting DEF StageOps
<1>4. e \in {"completed", "failed", "canceled"}
  BY <1>1, <1>3, OpFacts DEF Arg
<1>5. \/ Proceed(<<>>) /\ UNCHANGED execution
      \/ execution[P] = "running" /\ execution' = [execution EXCEPT ![P] = e] /\ Proceed(<<>>)
      \/ Refuse /\ UNCHANGED execution
  BY <1>1 DEF FinishExecution
<1>6. CASE UNCHANGED execution
  <2>1. SameRows
    BY <1>2, <1>6 DEF SameRows, plans
  <2>2. CASE Proceed(<<>>)
    BY <1>2, <2>1, <2>2, ProceedNothing
  <2>3. CASE Refuse
    BY <1>2, <2>1, <2>3, RefuseInvariant
  <2>4. CASE execution[P] = "running" /\ execution' = [execution EXCEPT ![P] = e] /\ Proceed(<<>>)
    BY <2>2, <2>4
  <2> QED
    BY <1>5, <2>2, <2>3
<1>7. CASE execution[P] = "running" /\ execution' = [execution EXCEPT ![P] = e] /\ Proceed(<<>>)
  <2>1. execution \in [Plans -> ExecutionState] /\ e \in ExecutionState
    BY <1>4 DEF IInv, RowShapes, ExecutionState
  <2>2. execution' \in [Plans -> ExecutionState]
        /\ \A p \in Plans : execution'[p] # "absent" => execution[p] # "absent"
    BY <1>3, <1>7, <2>1
  <2>3. RowsMoved
    BY <1>2, <2>2, RowsMove DEF IInv, RowShapes, runRow, stages
  <2>4. run' = run /\ job' = job
    BY <1>2 DEF runRow, jobs
  <2>5. run # "succeeded"
    BY <1>2, <1>3, NotSucceeded DEF Closes
  <2>6. SucceededMeansPassed'
    BY <2>4, <2>5 DEF SucceededMeansPassed
  <2>7. worker.job \notin Coordinators
    BY <1>3 DEF StageJobs, Coordinators, StageJob, Coordinator
  <2>8. \A c \in Controls : ~Does(Left[1], c)
    BY <1>3 DEF Does, Cancels
  <2> QED
    BY <1>2, <1>7, <2>3, <2>4, <2>6, <2>7, <2>8, AtWorkRuns, AdvanceStep
<1> QED
  BY <1>5, <1>6, <1>7

LEMMA SettleControlInvariant == ASSUME IInv, SettleControl PROVE IInv'
<1>1. PICK c, target : c = Arg(2) /\ target = Arg(3)
  OBVIOUS
<1>2. At("control") /\ UNCHANGED <<runRow, plans, stages, jobs, faults>>
  BY DEF SettleControl
<1>3. /\ Left[1][1] = "control" /\ Left[1] \in Op /\ Head(worker.plan) = Left[1]
      /\ Fits(Left[1]) /\ 1 \in Places /\ worker.phase \in {"handle", "recover"}
  BY <1>2, Acting
<1>4. /\ c \in Controls /\ target \in Outcome /\ c = Left[1][2] /\ target = Left[1][3]
      /\ target \in ControlStatus /\ target # "absent"
  BY <1>1, <1>3, OpFacts DEF Arg, Outcome, ControlStatus
<1>5. target = "acknowledged" => Done(c)
  <2>1. Acknowledges(Left[1]) =>
           Done(Left[1][2]) \/ \E k \in 1 .. 1 - 1 : Does(Left[k], Left[1][2])
    BY <1>3 DEF IInv, PlanFits, AcksFit
  <2>2. ~\E k \in 1 .. 1 - 1 : TRUE
    OBVIOUS
  <2> QED
    BY <1>3, <1>4, <2>1, <2>2 DEF Acknowledges
<1>6. \/ Proceed(<<>>) /\ UNCHANGED ctl
      \/ SetControl(c, "propagating") /\ UNCHANGED worker
      \/ SetControl(c, target) /\ Proceed(<<>>)
      \/ Refuse /\ UNCHANGED ctl
  BY <1>1 DEF SettleControl
<1>7. CASE UNCHANGED ctl /\ (Proceed(<<>>) \/ Refuse)
  <2>1. SameRows
    BY <1>2, <1>7 DEF SameRows
  <2>2. CASE Proceed(<<>>)
    BY <1>2, <2>1, <2>2, ProceedNothing
  <2>3. CASE Refuse
    BY <1>2, <2>1, <2>3, RefuseInvariant
  <2> QED
    BY <1>7, <2>2, <2>3
<1>8. CASE SetControl(c, "propagating") /\ UNCHANGED worker
  <2>1. "propagating" \in ControlStatus
    BY DEF ControlStatus, Pending
  <2>2. /\ RowsMoved /\ SucceededMeansPassed' /\ run' = run /\ job' = job
        /\ (Begun /\ worker'.job = worker.job => Begun')
        /\ (AllPassed /\ worker'.job = worker.job => AllPassed')
    BY <1>2, <1>4, <1>8, <2>1, ControlMoves DEF RowsMoved
  <2>3. worker' = worker /\ DOMAIN worker = WorkerFields
    BY <1>8 DEF IInv, WorkerShapes
  <2> QED
    BY <1>2, <1>3, <2>2, <2>3, AtWorkRuns, StayStep DEF Left
<1>9. CASE SetControl(c, target) /\ Proceed(<<>>)
  <2>1. /\ RowsMoved /\ SucceededMeansPassed' /\ run' = run /\ job' = job
        /\ (Begun /\ worker'.job = worker.job => Begun')
    BY <1>2, <1>4, <1>5, <1>9, ControlMoves DEF RowsMoved
  <2>2. \A d \in Controls : ~Does(Left[1], d)
    BY <1>3 DEF Does, Cancels
  <2> QED
    BY <1>2, <1>9, <2>1, <2>2, AtWorkRuns, AdvanceStep
<1> QED
  BY <1>6, <1>7, <1>8, <1>9

-----------------------------------------------------------------------------
(* Steps that write jobs.                                                  *)

LEMMA JobsMove ==
    ASSUME IInv, UNCHANGED <<runRow, plans, stages, ctl>>,
           faults' \in 0 .. MaxFaults, faults' >= faults,
           job' \in [Jobs -> JobState], queue' \in Seq(Jobs), QueueFits', JobsFit'
    PROVE  RowsMoved /\ SucceededMeansPassed'
<1>1. /\ run' = run /\ draft' = draft /\ plan' = plan /\ execution' = execution
      /\ runAttempt' = runAttempt /\ attempt' = attempt /\ latest' = latest
      /\ control' = control /\ base' = base /\ recent' = recent
  BY DEF runRow, plans, stages, ctl
<1>2. RowShapes'
  BY <1>1 DEF IInv, RowShapes
<1>3. PlansFit' /\ Committed' = Committed
  BY <1>1, PlansKept DEF IInv
<1>4. RecentFits'
  BY <1>1, ListsKept DEF IInv
<1>5. Stays
  <2>1. \A c \in Controls : control[c] # "absent" =>
            control'[c] # "absent" /\ base'[c] = base[c]
    BY <1>1
  <2>2. /\ Target \in [Controls -> Stages] /\ base \in [Controls -> Plans]
        /\ Action \in [Controls -> {"pause", "cancel_stage", "terminate"}]
    BY ControlAssumption DEF IInv, RowShapes
  <2>3. /\ Committed \in Int /\ Committed' \in Int /\ Committed' >= Committed
        /\ faults \in Int /\ faults' \in Int
        /\ \A c \in Controls : base[c] \in Int /\ (Action[c] = "terminate" => base[c] <= Committed)
    BY <1>3, Numbers
  <2> QED
    BY <1>1, <2>1, <2>2, <2>3, StaysIf
<1>6. AcknowledgedIsDone'
  BY <1>1, <1>5, AcknowledgedStays DEF IInv
<1>7. SucceededMeansPassed'
  BY <1>1, SucceededStays DEF IInv
<1> QED
  BY <1>2, <1>3, <1>4, <1>5, <1>6, <1>7 DEF RowsMoved

LEMMA KnownStays ==
    ASSUME IInv, Committed' = Committed, faults' \in Int, faults' >= faults,
           NEW j \in Jobs, Known(j)
    PROVE  Known(j)' /\ (j[4] < faults => j[4] < faults')
<1>1. j[4] \in Int
  BY DEF Jobs, StageJobs, Coordinators, StageJob, Coordinator
<1> QED
  BY <1>1, Numbers DEF Known

LEMMA JobChanges ==
    ASSUME IInv, plan' = plan, faults' \in Int, faults' >= faults,
           NEW j \in Jobs, Known(j), NEW state \in JobState, job' = [job EXCEPT ![j] = state],
           state = "lapsed" => j[4] < faults'
    PROVE  JobsFit' /\ job' \in [Jobs -> JobState] /\ job'[j] = state
           /\ \A x \in Jobs : x # j => job'[x] = job[x]
<1>1. job \in [Jobs -> JobState] /\ Committed' = Committed
  BY DEF IInv, RowShapes, Committed
<1>2. /\ job' \in [Jobs -> JobState] /\ job'[j] = state
      /\ \A x \in Jobs : x # j => job'[x] = job[x]
  BY <1>1
<1>3. ASSUME NEW x \in Jobs
      PROVE  /\ job'[x] # "absent" => Known(x)'
             /\ job'[x] = "lapsed" => x[4] < faults'
  <2>1. CASE x = j
    BY <1>1, <1>2, <2>1, KnownStays
  <2>2. CASE x # j
    <3>1. (job[x] # "absent" => Known(x)) /\ (job[x] = "lapsed" => x[4] < faults)
      BY DEF IInv, JobsFit
    <3> QED
      BY <1>1, <1>2, <2>2, <3>1, KnownStays
  <2> QED
    BY <2>1, <2>2
<1> QED
  BY <1>2, <1>3 DEF JobsFit

LEMMA QueueKept ==
    ASSUME QueueFits, queue' = queue, \A x \in Jobs : job'[x] = "queued" <=> job[x] = "queued"
    PROVE  QueueFits'
BY DEF QueueFits

LEMMA QueueIs ==
    ASSUME NEW q, queue' = q, \A i, k \in 1 .. Len(q) : q[i] = q[k] => i = k,
           \A x \in Jobs : job'[x] = "queued" <=> \E i \in 1 .. Len(q) : q[i] = x
    PROVE  QueueFits'
BY DEF QueueFits

LEMMA QueueGrows ==
    ASSUME IInv, NEW j \in Jobs, job[j] # "queued", queue' = Append(queue, j),
           job'[j] = "queued", \A x \in Jobs : x # j => job'[x] = job[x]
    PROVE  QueueFits' /\ queue' \in Seq(Jobs)
<1>1. PICK p : p = queue
  OBVIOUS
<1>2. PICK q : q = Append(p, j)
  OBVIOUS
<1>3. /\ p \in Seq(Jobs)
      /\ \A i, k \in 1 .. Len(p) : p[i] = p[k] => i = k
      /\ \A x \in Jobs : job[x] = "queued" <=> \E i \in 1 .. Len(p) : p[i] = x
  BY <1>1 DEF IInv, RowShapes, QueueFits
<1>4. /\ q \in Seq(Jobs) /\ Len(q) = Len(p) + 1 /\ Len(p) \in Nat /\ q[Len(p) + 1] = j
      /\ \A i \in 1 .. Len(p) : q[i] = p[i]
  BY <1>2, <1>3
<1>5. \A i \in 1 .. Len(p) : p[i] # j
  BY <1>3
<1>6. \A i, k \in 1 .. Len(q) : q[i] = q[k] => i = k
  <2> SUFFICES ASSUME NEW i \in 1 .. Len(q), NEW k \in 1 .. Len(q), q[i] = q[k]
               PROVE  i = k
    OBVIOUS
  <2>1. (i = Len(p) + 1 \/ i \in 1 .. Len(p)) /\ (k = Len(p) + 1 \/ k \in 1 .. Len(p))
    BY <1>4
  <2> QED
    BY <1>3, <1>4, <1>5, <2>1
<1>7. \A x \in Jobs : job'[x] = "queued" <=> \E i \in 1 .. Len(q) : q[i] = x
  <2> SUFFICES ASSUME NEW x \in Jobs
               PROVE  job'[x] = "queued" <=> \E i \in 1 .. Len(q) : q[i] = x
    OBVIOUS
  <2>1. Len(p) + 1 \in 1 .. Len(q) /\ \A i \in 1 .. Len(p) : i \in 1 .. Len(q)
    BY <1>4
  <2>2. \A i \in 1 .. Len(q) : i = Len(p) + 1 \/ i \in 1 .. Len(p)
    BY <1>4
  <2>3. (\E i \in 1 .. Len(q) : q[i] = x) <=> x = j \/ \E i \in 1 .. Len(p) : p[i] = x
    BY <1>4, <2>1, <2>2
  <2> QED
    BY <1>3, <2>3
<1>8. queue' = q
  BY <1>1, <1>2
<1> QED
  BY <1>4, <1>6, <1>7, <1>8, QueueIs

LEMMA EnqueueInvariant == ASSUME IInv, Enqueue PROVE IInv'
<1>1. PICK j : j = Arg(2)
  OBVIOUS
<1>2. At("enqueue") /\ UNCHANGED <<runRow, plans, stages, ctl, faults>> /\ Proceed(<<>>)
  BY DEF Enqueue
<1>3. /\ Left[1][1] = "enqueue" /\ Left[1] \in Op /\ Head(worker.plan) = Left[1]
      /\ Fits(Left[1]) /\ worker.phase \in {"handle", "recover"}
  BY <1>2, Acting
<1>4. j \in Jobs /\ Known(j)
  BY <1>1, <1>3, OpFacts DEF Arg, Fits, Enqueues
<1>5. CASE job[j] = "absent"
  <2>1. job' = [job EXCEPT ![j] = "queued"] /\ queue' = Append(queue, j)
    BY <1>1, <1>5 DEF Enqueue
  <2>2. /\ plan' = plan /\ faults' = faults /\ run' = run /\ execution' = execution
        /\ "queued" \in JobState /\ faults \in Int /\ faults >= faults /\ faults \in 0 .. MaxFaults
    BY <1>2, Numbers DEF runRow, plans, JobState, IInv, RowShapes
  <2>3. /\ JobsFit' /\ job' \in [Jobs -> JobState] /\ job'[j] = "queued"
        /\ \A x \in Jobs : x # j => job'[x] = job[x]
    BY <1>4, <2>1, <2>2, JobChanges
  <2>4. QueueFits' /\ queue' \in Seq(Jobs)
    BY <1>4, <1>5, <2>1, <2>3, QueueGrows
  <2>5. RowsMoved /\ SucceededMeansPassed'
    BY <1>2, <2>2, <2>3, <2>4, JobsMove
  <2>6. worker.phase = "handle" => job'[worker.job] = "running"
    <3>1. worker.phase = "handle" => job[worker.job] = "running" /\ worker.job \in Jobs
      BY DEF IInv, WorkerFits, Known
    <3> QED
      BY <1>5, <2>3, <3>1
  <2>7. worker'.job = worker.job /\ Begun => Begun'
    BY <2>2 DEF Begun, P
  <2>8. \A c \in Controls : ~Does(Left[1], c)
    BY <1>3 DEF Does, Cancels
  <2> QED
    BY <1>2, <2>2, <2>5, <2>6, <2>7, <2>8, AdvanceStep
<1>6. CASE job[j] # "absent"
  <2>1. SameRows
    BY <1>1, <1>2, <1>6 DEF Enqueue, SameRows
  <2> QED
    BY <1>2, <2>1, ProceedNothing
<1> QED
  BY <1>5, <1>6

LEMMA SettleDeliveryInvariant == ASSUME IInv, SettleDelivery PROVE IInv'
<1>1. PICK state : state = IF job[worker.job] = "lost" THEN "interrupted" ELSE job[worker.job]
  OBVIOUS
<1>2. /\ At("settle") /\ UNCHANGED <<runRow, plans, stages, ctl, queue, faults>> /\ Proceed(<<>>)
      /\ job' = [job EXCEPT ![worker.job] = state]
  BY <1>1 DEF SettleDelivery
<1>3. Left[1][1] = "settle" /\ Known(worker.job) /\ worker.job \in Jobs
  BY <1>2, Acting DEF Known
<1>4. job[worker.job] \in JobState /\ state \in JobState
      /\ (job[worker.job] = "lapsed" => worker.job[4] < faults)
  BY <1>1, <1>3 DEF IInv, RowShapes, JobsFit, JobState
<1>5. /\ plan' = plan /\ faults' = faults /\ run' = run /\ execution' = execution
      /\ faults \in Int /\ faults >= faults /\ faults \in 0 .. MaxFaults
      /\ queue' = queue /\ queue \in Seq(Jobs) /\ QueueFits
  BY <1>2, Numbers DEF runRow, plans, IInv, RowShapes
<1>6. state = "lapsed" => worker.job[4] < faults'
  BY <1>1, <1>4, <1>5
<1>7. /\ JobsFit' /\ job' \in [Jobs -> JobState] /\ job'[worker.job] = state
      /\ \A x \in Jobs : x # worker.job => job'[x] = job[x]
  BY <1>2, <1>3, <1>4, <1>5, <1>6, JobChanges
<1>8. QueueFits'
  BY <1>1, <1>5, <1>7, QueueKept
<1>9. RowsMoved /\ SucceededMeansPassed'
  BY <1>2, <1>5, <1>7, <1>8, JobsMove
<1>10. worker.phase = "handle" => job'[worker.job] = "running"
  <2>1. worker.phase = "handle" => job[worker.job] = "running"
    BY DEF IInv, WorkerFits
  <2> QED
    BY <1>1, <1>7, <2>1
<1>11. worker'.job = worker.job /\ Begun => Begun'
  BY <1>5 DEF Begun, P
<1>12. \A c \in Controls : ~Does(Left[1], c)
  BY <1>3 DEF Does, Cancels
<1> QED
  BY <1>2, <1>5, <1>9, <1>10, <1>11, <1>12, AdvanceStep

-----------------------------------------------------------------------------
(* The monitor of a stage at work.                                         *)

\* The monitor's own step: the plan and the job at hand are what they were.
LEMMA MonitorStep ==
    ASSUME IInv, worker.phase \in {"handle", "recover"}, RowsMoved, SucceededMeansPassed',
           run' = run, worker.phase = "handle" => job'[worker.job] = "running",
           DOMAIN worker' = WorkerFields, worker'.plan = Left, worker'.job = worker.job,
           worker'.phase = worker.phase, worker'.seen = worker.seen,
           worker'.held # NoControl =>
               /\ worker'.held \in Controls /\ control'[worker'.held] # "absent"
               /\ Addresses(worker.held)',
           Begun => Begun', AllPassed => AllPassed'
    PROVE  IInv'
<1>1. /\ PlanFits /\ Left \in Seq(Op) /\ Stays /\ worker.seen \in RunStatus
  BY DEF IInv, RowsMoved, WorkerShapes, Left
<1>2. PlanFits'
  BY <1>1, PlanStays
<1>3. WorkerShapes'
  BY <1>1 DEF WorkerShapes
<1>4. Known(worker.job) /\ Known(worker.job)'
  BY <1>1 DEF IInv, WorkerFits, Stays, Known
<1>5. WorkerFits'
  BY <1>4 DEF IInv, WorkerFits, Known
<1>6. RestFits' /\ SucceededFits'
  BY Rests DEF Left, Places
<1> QED
  BY <1>2, <1>3, <1>5, <1>6 DEF IInv, RowsMoved

LEMMA PollFailsInvariant == ASSUME IInv, PollFails PROVE IInv'
<1>1. /\ At("execute") /\ faults < MaxFaults /\ faults' = faults + 1
      /\ worker' = [worker EXCEPT !.pollFailed = TRUE]
      /\ UNCHANGED <<runRow, plans, stages, ctl, jobs>>
  BY DEF PollFails
<1>2. worker.phase \in {"handle", "recover"}
  BY <1>1, Acting
<1>3. /\ faults \in Int /\ faults \in Nat /\ faults' \in Int /\ faults' >= faults
      /\ faults' \in 0 .. MaxFaults
  BY <1>1, Numbers, ControlAssumption
<1>4. /\ run' = run /\ plan' = plan /\ execution' = execution /\ attempt' = attempt
      /\ latest' = latest /\ job' = job /\ queue' = queue
  BY <1>1 DEF runRow, plans, stages, jobs
<1>5. JobsFit'
  <2>1. Committed' = Committed
    BY <1>4 DEF Committed
  <2> QED
    BY <1>3, <1>4, <2>1, Numbers, JobsKept DEF IInv
<1>6. QueueFits' /\ job' \in [Jobs -> JobState] /\ queue' \in Seq(Jobs)
  BY <1>4, ListsKept DEF IInv, RowShapes
<1>7. RowsMoved /\ SucceededMeansPassed'
  BY <1>1, <1>3, <1>5, <1>6, JobsMove
<1>8. /\ DOMAIN worker' = WorkerFields /\ worker'.plan = Left /\ worker'.job = worker.job
      /\ worker'.phase = worker.phase /\ worker'.seen = worker.seen /\ worker'.held = worker.held
  BY <1>1 DEF IInv, WorkerShapes, WorkerFields, Left
<1>9. (Begun => Begun') /\ (AllPassed => AllPassed')
  BY <1>4, <1>8 DEF Begun, AllPassed, Attempt, P
<1> QED
  BY <1>1, <1>2, <1>4, <1>7, <1>8, <1>9, AtWorkRuns, StayStep

LEMMA PollControlsInvariant == ASSUME IInv, PollControls PROVE IInv'
<1>1. PICK c : c = recent[Min(Addressed)]
  OBVIOUS
<1>2. /\ At("execute") /\ UNCHANGED <<runRow, plans, stages, jobs, faults>>
      /\ \/ worker' = [worker EXCEPT !.pollFailed = FALSE] /\ UNCHANGED ctl
         \/ /\ Addressed # {}
            /\ worker' = [worker EXCEPT !.held = c, !.pollFailed = FALSE]
               \/ worker' = [worker EXCEPT !.held = worker.held, !.pollFailed = FALSE]
            /\ SetControl(c, "propagating") \/ UNCHANGED ctl
  BY <1>1 DEF PollControls
<1>3. worker.phase \in {"handle", "recover"}
  BY <1>2, Acting
<1>4. Addressed # {} => /\ c \in Controls /\ control[c] # "absent" /\ Addresses(c)
  <2>1. ASSUME Addressed # {}
        PROVE  c \in Controls /\ control[c] \in Pending /\ Min(Addressed) \in Addressed
    <3>1. Addressed \in SUBSET (DOMAIN recent)
      BY DEF Addressed
    <3> QED
      BY <1>1, <2>1, <3>1, PlaceOf
  <2> QED
    BY <1>1, <2>1 DEF Addressed, Pending
<1>5. /\ RowsMoved /\ SucceededMeansPassed' /\ run' = run /\ job' = job
      /\ (Begun /\ worker'.job = worker.job => Begun')
      /\ (AllPassed /\ worker'.job = worker.job => AllPassed')
  <2>1. CASE UNCHANGED ctl
    <3>1. SameRows
      BY <1>2, <2>1 DEF SameRows
    <3>2. RowsMoved /\ SucceededMeansPassed'
      BY <3>1, RowsStay DEF RowsMoved
    <3>3. /\ run' = run /\ job' = job /\ plan' = plan /\ execution' = execution
          /\ attempt' = attempt /\ latest' = latest
      BY <1>2 DEF runRow, jobs, plans, stages
    <3> QED
      BY <3>2, <3>3 DEF Begun, AllPassed, Attempt, P
  <2>2. CASE Addressed # {} /\ SetControl(c, "propagating")
    <3>1. "propagating" \in ControlStatus
      BY DEF ControlStatus, Pending
    <3> QED
      BY <1>2, <1>4, <2>2, <3>1, ControlMoves DEF RowsMoved
  <2> QED
    BY <1>2, <2>1, <2>2
<1>6. /\ DOMAIN worker' = WorkerFields /\ worker'.plan = Left /\ worker'.job = worker.job
      /\ worker'.phase = worker.phase /\ worker'.seen = worker.seen
      /\ \/ worker'.held = worker.held
         \/ worker'.held = c /\ Addressed # {}
  BY <1>2 DEF IInv, WorkerShapes, WorkerFields, Left
<1>7. worker'.held # NoControl =>
         worker'.held \in Controls /\ control[worker'.held] # "absent" /\ Addresses(worker'.held)
  BY <1>4, <1>6 DEF IInv, WorkerFits
<1>8. worker'.held # NoControl =>
         /\ worker'.held \in Controls /\ control'[worker'.held] # "absent"
         /\ Addresses(worker.held)'
  <2> SUFFICES ASSUME worker'.held # NoControl
               PROVE  /\ worker'.held \in Controls /\ control'[worker'.held] # "absent"
                      /\ Addresses(worker.held)'
    OBVIOUS
  <2>1. PICK d : d = worker'.held
    OBVIOUS
  <2>2. d \in Controls /\ control[d] # "absent" /\ Addresses(d)
    BY <1>7, <2>1
  <2>3. control'[d] # "absent" /\ base'[d] = base[d]
    BY <1>5, <2>2 DEF RowsMoved, Stays
  <2>4. Action[d] = "cancel_stage" => Target[d] = worker'.job[3] /\ base'[d] = worker'.job[2]
    BY <1>6, <2>2, <2>3 DEF Addresses, S, P
  <2> QED
    BY <2>1, <2>2, <2>3, <2>4 DEF Addresses, S, P
<1> QED
  BY <1>2, <1>3, <1>5, <1>6, <1>8, AtWorkRuns, MonitorStep

-----------------------------------------------------------------------------
(* Steps of the worker that move the Run.                                  *)

LEMMA ValidFrom ==
    ASSUME NEW t, ValidRunTransition(run, t)
    PROVE  /\ run # "succeeded" /\ (run = "canceled" => t = "running")
           /\ run = "paused" => t \in {"resume_requested", "cancel_requested", "canceled"}
<1>1. run = "succeeded" => ~ValidRunTransition(run, t)
  BY DEF ValidRunTransition
<1>2. run = "canceled" => t = "running"
  BY DEF ValidRunTransition
<1>3. run = "paused" => t \in {"resume_requested", "cancel_requested", "canceled"}
  BY DEF ValidRunTransition
<1> QED
  BY <1>1, <1>2, <1>3

LEMMA GoesOnWith ==
    ASSUME Left \in Seq(Op), Left # <<>>, NEW ops \in Seq(Op), worker'.plan = ops \o Tail(Left)
    PROVE  \A i \in 1 .. Len(worker'.plan) :
              \/ \E k \in 1 .. Len(ops) : worker'.plan[i] = ops[k]
              \/ \E k \in 2 .. Len(Left) : worker'.plan[i] = Left[k]
<1>1. PICK p : p = Left
  OBVIOUS
<1>2. PICK q : q = worker'.plan
  OBVIOUS
<1>3. p \in Seq(Op) /\ p # <<>> /\ q = ops \o Tail(p)
  BY <1>1, <1>2
<1>4. /\ q \in Seq(Op) /\ Len(q) = Len(ops) + Len(p) - 1
      /\ \A i \in 1 .. Len(ops) : q[i] = ops[i]
      /\ \A i \in Len(ops) + 1 .. Len(q) :
            i - Len(ops) + 1 \in 2 .. Len(p) /\ q[i] = p[i - Len(ops) + 1]
  BY <1>3, NewPlan
<1>5. Len(ops) \in Nat /\ Len(q) \in Nat
  BY <1>4
<1>6. \A i \in 1 .. Len(q) : i \in 1 .. Len(ops) \/ i \in Len(ops) + 1 .. Len(q)
  BY <1>5
<1> QED
  BY <1>1, <1>2, <1>4, <1>6

(* The operation at hand moved the Run to t, and ops comes before the rest *)
(* of the plan.                                                            *)
LEMMA RunMoves ==
    ASSUME IInv, NEW k, At(k), k \in {"move", "finish"}, NEW t \in RunStatus, t = Left[1][2],
           ValidRunTransition(run, t), k = "finish" => t # "running",
           SetRun(t), UNCHANGED <<plans, stages, ctl, jobs, faults>>,
           NEW ops \in Seq(Op), worker'.plan = ops \o Tail(Left),
           DOMAIN worker' = WorkerFields, worker'.job = worker.job,
           worker'.phase = worker.phase, worker'.held = worker.held, worker'.seen \in RunStatus,
           \A i \in 1 .. Len(ops) :
               /\ Fits(ops[i])' /\ Quiet(ops[i]) /\ ops[i][1] # "finish" /\ Closes(ops[i])
    PROVE  IInv'
<1>1. /\ Left \in Seq(Op) /\ Left # <<>> /\ Left[1] \in Op /\ Left[1][1] = k
      /\ Fits(Left[1]) /\ worker.phase \in {"handle", "recover"} /\ 1 \in Places
  BY Acting
<1>2. run' = t /\ draft' = {} /\ job' = job
  BY DEF SetRun, jobs
<1>3. run # "succeeded" /\ run # "canceled"
  <2>1. k = "move" => ~Harmless(Left[1])
    BY <1>1 DEF Harmless
  <2>2. run = "canceled" => t = "running"
    BY ValidFrom
  <2> QED
    BY <2>1, <2>2, ValidFrom, NotHalted
<1>4. RowsMoved
  BY <1>2, <1>3, RowsMove DEF IInv, RowShapes, plans, stages
<1>5. Stays /\ PlanFits
  BY <1>4 DEF RowsMoved, IInv
<1>6. (Begun => Begun') /\ (AllPassed => AllPassed')
  BY DEF Begun, AllPassed, Attempt, P, plans, stages
<1>7. ASSUME NEW c \in Controls, Does(Left[1], c)
      PROVE  Done(c)'
  <2>1. Action[c] = "terminate" /\ t = "canceled"
    BY <1>1, <1>7 DEF Does, Cancels
  <2> QED
    BY <1>2, <2>1 DEF Done
<1>8. \A i \in 1 .. Len(ops) :
         /\ Fits(ops[i])' /\ ~Acknowledges(ops[i]) /\ ~Halts(ops[i]) /\ Harmless(ops[i])
         /\ ops[i] # <<"pause_run">> /\ ops[i][1] \notin {"finish", "decide", "complete"}
  BY QuietNever
<1>9. PlanFits'
  <2>1. Replaced(ops)
    BY <1>1, <1>6, <1>7 DEF Replaced
  <2> QED
    BY <1>1, <1>5, <1>8, <2>1, PlanGoesOn
<1>10. \A i \in 1 .. Len(worker'.plan) :
          \/ \E m \in 1 .. Len(ops) : worker'.plan[i] = ops[m]
          \/ \E m \in 2 .. Len(Left) : worker'.plan[i] = Left[m]
  BY <1>1, GoesOnWith
<1>11. \A m \in 2 .. Len(Left) : m \in 1 + 1 .. Len(Left)
  OBVIOUS
<1>12. worker'.plan \in Seq(Op)
  <2>1. PICK p : p = Left
    OBVIOUS
  <2>2. p \in Seq(Op) /\ p # <<>> /\ worker'.plan = ops \o Tail(p)
    BY <1>1, <2>1
  <2> QED
    BY <2>2, NewPlan
<1>13. WorkerShapes'
  BY <1>12 DEF WorkerShapes
<1>14. WorkerFits'
  <2>1. worker.phase = "handle" => job'[worker.job] = "running"
    BY <1>2, AtWorkRuns
  <2> QED
    BY <1>1, <1>5, <2>1, WorkerStays DEF IInv
<1>15. RestFits'
  <2>1. CASE t \in {"paused", "canceled"}
    <3>1. Halts(Left[1])
      BY <1>1, <2>1, OpFacts DEF Halts, Cancels, FinishTarget, FinishedRun
    <3>2. \A m \in 2 .. Len(Left) : Harmless(Left[m])
      BY <1>1, <1>5, <1>11, <3>1 DEF PlanFits, HaltsFit
    <3>3. \A i \in 1 .. Len(worker'.plan) : Harmless(worker'.plan[i])
      BY <1>8, <1>10, <3>2
    <3> QED
      BY <1>1, <3>3 DEF RestFits, Left, Places
  <2>2. CASE t \notin {"paused", "canceled"}
    BY <1>2, <2>2 DEF RestFits
  <2> QED
    BY <2>1, <2>2
<1>16. SucceededFits' /\ SucceededMeansPassed'
  <2>1. CASE t = "succeeded"
    <3>1. Succeeds(Left[1])
      BY <1>1, <2>1, OpFacts DEF Succeeds, MoveTarget
    <3>2. \A m \in 2 .. Len(Left) : Closes(Left[m])
      BY <1>1, <1>5, <1>11, <3>1 DEF PlanFits, SuccessFits
    <3>3. \A i \in 1 .. Len(worker'.plan) : Closes(worker'.plan[i])
      BY <1>10, <3>2
    <3>4. SucceededFits'
      BY <1>1, <3>3 DEF SucceededFits, Left, Places
    <3>5. AllPassed'
      BY <1>1, <1>5, <1>6, <3>1 DEF PlanFits, SuccessFits
    <3>6. P' \in Plans
      <4>1. worker.job \in Coordinators
        BY <1>1, <3>1 DEF Fits, OfCoordinator
      <4> QED
        BY <4>1, JobOfCoordinator DEF P
    <3>7. SucceededMeansPassed'
      BY <3>5, <3>6 DEF SucceededMeansPassed, AllPassed, Begun
    <3> QED
      BY <3>4, <3>7
  <2>2. CASE t # "succeeded"
    BY <1>2, <2>2 DEF SucceededFits, SucceededMeansPassed
  <2> QED
    BY <2>1, <2>2
<1> QED
  BY <1>4, <1>9, <1>13, <1>14, <1>15, <1>16 DEF IInv, RowsMoved

LEMMA MoveInvariant == ASSUME IInv, Move PROVE IInv'
<1>1. PICK t : t = Arg(2)
  OBVIOUS
<1>2. At("move") /\ UNCHANGED <<plans, stages, ctl, jobs, faults>>
  BY DEF Move
<1>3. /\ Left \in Seq(Op) /\ Left # <<>> /\ Left[1] \in Op /\ Left[1][1] = "move"
      /\ Head(worker.plan) = Left[1]
  BY <1>2, Acting
<1>4. t = Left[1][2] /\ t \in RunStatus
  BY <1>1, <1>3, OpFacts DEF Arg, MoveTarget, RunStatus
<1>5. \/ /\ ValidRunTransition(run, t) /\ SetRun(t)
         /\ worker' = [worker EXCEPT !.plan = Tail(@), !.seen = t]
      \/ Refuse /\ UNCHANGED runRow
  BY <1>1 DEF Move
<1>6. CASE Refuse /\ UNCHANGED runRow
  <2>1. SameRows
    BY <1>2, <1>6 DEF SameRows
  <2> QED
    BY <1>2, <1>6, <2>1, RefuseInvariant
<1>7. CASE /\ ValidRunTransition(run, t) /\ SetRun(t)
           /\ worker' = [worker EXCEPT !.plan = Tail(@), !.seen = t]
  <2>1. /\ DOMAIN worker' = WorkerFields /\ worker'.plan = Tail(Left) /\ worker'.seen = t
        /\ worker'.phase = worker.phase /\ worker'.job = worker.job /\ worker'.held = worker.held
    BY <1>7 DEF IInv, WorkerShapes, WorkerFields, Left
  <2>2. PICK p : p = Left
    OBVIOUS
  <2>3. p \in Seq(Op) /\ p # <<>>
    BY <1>3, <2>2
  <2>4. Tail(p) = <<>> \o Tail(p)
    BY <2>3
  <2>5. worker'.plan = <<>> \o Tail(Left)
    BY <2>1, <2>2, <2>4
  <2>6. PICK ops : ops = <<>>
    OBVIOUS
  <2>7. worker'.plan = ops \o Tail(Left) /\ ops \in Seq(Op) /\ \A i \in 1 .. Len(ops) : FALSE
    BY <2>5, <2>6
  <2> HIDE <2>6
  <2>8. /\ ValidRunTransition(run, t) /\ SetRun(t) /\ worker'.seen \in RunStatus
        /\ \A i \in 1 .. Len(ops) :
              /\ Fits(ops[i])' /\ Quiet(ops[i]) /\ ops[i][1] # "finish" /\ Closes(ops[i])
    BY <1>4, <1>7, <2>1, <2>7
  <2>9. /\ DOMAIN worker' = WorkerFields /\ worker'.phase = worker.phase
        /\ worker'.job = worker.job /\ worker'.held = worker.held
    BY <2>1
  <2> QED
    <3>1. worker'.plan = ops \o Tail(Left) /\ ops \in Seq(Op)
      BY <2>7
    <3>2. "move" \in {"move", "finish"} /\ ("move" = "finish" => t # "running")
      OBVIOUS
    <3> QED
      BY <1>2, <1>4, <2>8, <2>9, <3>1, <3>2, RunMoves, Zenon
<1> QED
  BY <1>5, <1>6, <1>7

LEMMA FinishRunInvariant == ASSUME IInv, FinishRun PROVE IInv'
<1>1. PICK t : t = Arg(2)
  OBVIOUS
<1>2. At("finish") /\ UNCHANGED <<plans, stages, ctl, jobs, faults>>
  BY DEF FinishRun
<1>3. /\ Left \in Seq(Op) /\ Left # <<>> /\ Left[1] \in Op /\ Left[1][1] = "finish"
      /\ Head(worker.plan) = Left[1] /\ worker.phase \in {"handle", "recover"} /\ 1 \in Places
  BY <1>2, Acting
<1>4. t = Left[1][2] /\ t \in RunStatus /\ t # "running" /\ t \in FinishTarget
  BY <1>1, <1>3, OpFacts DEF Arg, FinishTarget, FinishedRun, RunStatus
<1>5. \/ worker.seen = t /\ Proceed(<<>>) /\ UNCHANGED runRow
      \/ Refuse /\ UNCHANGED runRow
      \/ /\ ValidRunTransition(run, t) /\ SetRun(t)
         /\ \/ t \in FinishedRun /\ Proceed(<<<<"finish_attempts", t>>>>)
            \/ Proceed(<<>>)
  BY <1>1 DEF FinishRun
<1>6. CASE Refuse /\ UNCHANGED runRow
  <2>1. SameRows
    BY <1>2, <1>6 DEF SameRows
  <2> QED
    BY <1>2, <1>6, <2>1, RefuseInvariant
<1>7. CASE worker.seen = t /\ Proceed(<<>>) /\ UNCHANGED runRow
  <2>1. SameRows
    BY <1>2, <1>7 DEF SameRows
  <2>2. PICK p : p = Left
    OBVIOUS
  <2>3. p \in Seq(Op) /\ p # <<>>
    BY <1>3, <2>2
  <2>4. Tail(p) = <<>> \o Tail(p)
    BY <2>3
  <2>5. worker' = [worker EXCEPT !.plan = Tail(p)]
    BY <1>7, <2>2, <2>4 DEF Proceed, Left
  <2>6. /\ DOMAIN worker' = WorkerFields /\ worker'.plan = Tail(Left)
        /\ worker'.seen = worker.seen /\ worker'.phase = worker.phase
        /\ worker'.job = worker.job /\ worker'.held = worker.held
    BY <2>2, <2>5 DEF IInv, WorkerShapes, WorkerFields, Left
  <2>7. ASSUME NEW c \in Controls, Does(Left[1], c), Owed(c)
        PROVE  Done(c)
    <3>1. Action[c] = "terminate" /\ t = "canceled" /\ Left[1] = <<"finish", "canceled">>
      BY <1>3, <1>4, <2>7, OpFacts DEF Does, Cancels
    <3>2. \A i \in Places : Acknowledges(Left[i]) /\ Action[Left[i][2]] = "terminate" =>
             Done(Left[i][2])
      BY <1>3, <1>7, <3>1 DEF IInv, PlanFits, ReadsFit
    <3>3. PICK i \in Places : Acknowledges(Left[i]) /\ Left[i][2] = c
      BY <2>7 DEF Owed
    <3> QED
      BY <3>1, <3>2, <3>3
  <2>8. worker'.seen \in RunStatus
    BY <2>6 DEF IInv, WorkerShapes
  <2> QED
    BY <1>2, <2>1, <2>6, <2>7, <2>8, AdvanceInvariant
<1>8. ASSUME ValidRunTransition(run, t), SetRun(t), NEW ops \in Seq(Op), Proceed(ops),
             \A i \in 1 .. Len(ops) : ops[i] = <<"finish_attempts", t>>
      PROVE  IInv'
  <2>1. worker' = [worker EXCEPT !.plan = ops \o Tail(@)]
    BY <1>8 DEF Proceed
  <2>2. /\ DOMAIN worker' = WorkerFields /\ worker'.plan = ops \o Tail(Left)
        /\ worker'.seen = worker.seen /\ worker'.phase = worker.phase
        /\ worker'.job = worker.job /\ worker'.held = worker.held
    BY <2>1 DEF IInv, WorkerShapes, WorkerFields, Left
  <2>3. worker'.seen \in RunStatus
    BY <2>2 DEF IInv, WorkerShapes
  <2>4. LET op == <<"finish_attempts", t>>
        IN  Fits(op)' /\ Quiet(op) /\ op[1] # "finish" /\ Closes(op)
    BY QuietOps DEF Fits, Enqueues, OfStage, OfCoordinator, InPhase, StageOps, CoordinatorOps,
                    Succeeds, Harmless, Closes
  <2>5. \A i \in 1 .. Len(ops) :
           /\ Fits(ops[i])' /\ Quiet(ops[i]) /\ ops[i][1] # "finish" /\ Closes(ops[i])
    BY <1>8, <2>4
  <2> QED
    BY <1>2, <1>4, <1>8, <2>2, <2>3, <2>5, RunMoves
<1>9. CASE ValidRunTransition(run, t) /\ SetRun(t) /\ Proceed(<<>>)
  <2>1. PICK ops : ops = <<>>
    OBVIOUS
  <2>2. ops \in Seq(Op) /\ Proceed(ops) /\ \A i \in 1 .. Len(ops) : FALSE
    BY <1>9, <2>1
  <2> HIDE <2>1
  <2> QED
    BY <1>8, <1>9, <2>2
<1>10. CASE /\ ValidRunTransition(run, t) /\ SetRun(t)
            /\ t \in FinishedRun /\ Proceed(<<<<"finish_attempts", t>>>>)
  <2>1. PICK op : op = <<"finish_attempts", t>>
    OBVIOUS
  <2>2. PICK ops : ops = <<op>>
    OBVIOUS
  <2>3. op \in Op
    BY <1>10, <2>1, OpsAre
  <2>4. ops \in Seq(Op) /\ \A i \in 1 .. Len(ops) : ops[i] = op
    BY <2>2, <2>3
  <2>5. Proceed(ops)
    BY <1>10, <2>1, <2>2
  <2> QED
    BY <1>8, <1>10, <2>1, <2>4, <2>5
<1> QED
  BY <1>5, <1>6, <1>7, <1>9, <1>10

-----------------------------------------------------------------------------
(* The worker's loop.                                                      *)

LEMMA Idles ==
    ASSUME RowsMoved, SucceededMeansPassed', worker' = IdleWorker
    PROVE  IInv'
<1>1. /\ DOMAIN worker' = WorkerFields /\ worker'.plan = <<>> /\ worker'.seen = "queued"
      /\ worker'.phase = "idle" /\ worker'.job = NoJob /\ worker'.held = NoControl
  BY DEF IdleWorker, WorkerFields
<1>2. WorkerShapes'
  <2>1. <<>> \in Seq(Op) /\ "queued" \in RunStatus
    BY DEF RunStatus
  <2> QED
    BY <1>1, <2>1 DEF WorkerShapes
<1>3. WorkerFits' /\ RestFits' /\ SucceededFits'
  BY <1>1 DEF WorkerFits, RestFits, SucceededFits
<1>4. PlanFits'
  BY <1>1, NoPlan
<1> QED
  BY <1>2, <1>3, <1>4 DEF IInv, RowsMoved

(* The job at hand is written and the worker has done with it.             *)
LEMMA LeavesJob ==
    ASSUME IInv, worker.phase \in {"handle", "recover"},
           NEW state \in JobState, state # "queued",
           state = "lapsed" => faults' = faults + 1,
           job' = IF worker.phase = "handle" THEN [job EXCEPT ![worker.job] = state] ELSE job,
           UNCHANGED <<runRow, plans, stages, ctl, queue>>,
           faults' \in 0 .. MaxFaults, faults' >= faults, worker' = IdleWorker
    PROVE  IInv'
<1>1. Known(worker.job) /\ worker.job \in Jobs
  BY DEF IInv, WorkerFits, Known
<1>2. /\ faults \in Int /\ faults' \in Int /\ plan' = plan /\ queue' = queue
      /\ queue \in Seq(Jobs) /\ job \in [Jobs -> JobState] /\ QueueFits
  <2>1. 0 .. MaxFaults \subseteq Int
    OBVIOUS
  <2> QED
    BY <2>1, Numbers DEF plans, IInv, RowShapes
<1>3. CASE worker.phase = "handle"
  <2>1. job[worker.job] = "running"
    BY <1>3 DEF IInv, WorkerFits
  <2>2. state = "lapsed" => worker.job[4] < faults'
    <3>1. worker.job[4] \in Int
      BY <1>1 DEF Jobs, StageJobs, Coordinators, StageJob, Coordinator
    <3> QED
      BY <1>1, <1>2, <3>1 DEF Known
  <2>3. job' = [job EXCEPT ![worker.job] = state]
    BY <1>3
  <2>4. /\ JobsFit' /\ job' \in [Jobs -> JobState] /\ job'[worker.job] = state
        /\ \A x \in Jobs : x # worker.job => job'[x] = job[x]
    BY <1>1, <1>2, <2>2, <2>3, JobChanges
  <2>5. QueueFits'
    BY <1>2, <2>1, <2>4, QueueKept
  <2> QED
    BY <1>2, <2>4, <2>5, JobsMove, Idles
<1>4. CASE worker.phase # "handle"
  <2>1. job' = job
    BY <1>4
  <2>2. JobsFit'
    <3>1. Committed' = Committed
      BY <1>2 DEF Committed
    <3> QED
      BY <1>2, <2>1, <3>1, Numbers, JobsKept DEF IInv
  <2>3. QueueFits'
    BY <1>2, <2>1, ListsKept
  <2> QED
    BY <1>2, <2>1, <2>2, <2>3, JobsMove, Idles
<1> QED
  BY <1>3, <1>4

LEMMA DeliverInvariant == ASSUME IInv, Deliver PROVE IInv'
<1>1. PICK d : d = Arg(2)
  OBVIOUS
<1>2. /\ At("deliver") /\ worker' = IdleWorker
      /\ UNCHANGED <<runRow, plans, stages, ctl, queue, faults>>
      /\ job' = IF worker.phase = "handle" THEN [job EXCEPT ![worker.job] = d] ELSE job
  BY <1>1 DEF Deliver
<1>3. /\ Left[1][1] = "deliver" /\ Left[1] \in Op /\ Head(worker.plan) = Left[1]
      /\ Fits(Left[1]) /\ worker.phase \in {"handle", "recover"}
  BY <1>2, Acting
<1>4. d \in Delivered \cup {"none"} /\ (d = "none" => worker.phase = "recover")
  BY <1>1, <1>3, OpFacts DEF Arg, Fits, InPhase
<1>5. faults' \in 0 .. MaxFaults /\ faults' >= faults
  BY <1>2, Numbers DEF IInv, RowShapes
<1>6. PICK state \in Delivered : d # "none" => state = d
  <2>1. "failed" \in Delivered
    BY DEF Delivered
  <2> QED
    BY <1>4, <2>1
<1>7. state \in JobState /\ state # "queued" /\ state # "lapsed"
  BY <1>6 DEF Delivered, JobState
<1>8. job' = IF worker.phase = "handle" THEN [job EXCEPT ![worker.job] = state] ELSE job
  BY <1>2, <1>4, <1>6
<1> QED
  BY <1>2, <1>3, <1>5, <1>7, <1>8, LeavesJob

LEMMA LoseInvariant == ASSUME IInv, Lose PROVE IInv'
<1>1. /\ worker.phase \in {"handle", "recover"} /\ faults < MaxFaults /\ faults' = faults + 1
      /\ job' = IF worker.phase = "handle" THEN [job EXCEPT ![worker.job] = "lapsed"] ELSE job
      /\ worker' = IdleWorker
      /\ UNCHANGED <<runRow, plans, stages, ctl, queue>>
  BY DEF Lose
<1>2. faults' \in 0 .. MaxFaults /\ faults' >= faults
  BY <1>1, Numbers, ControlAssumption
<1>3. "lapsed" \in JobState
  BY DEF JobState
<1> QED
  BY <1>1, <1>2, <1>3, LeavesJob

LEMMA LookInvariant == ASSUME IInv, Look PROVE IInv'
<1>1. /\ worker' = [IdleWorker EXCEPT !.phase = "look", !.seen = run]
      /\ SameRows
  BY DEF Look, SameRows
<1>2. RowsMoved /\ SucceededMeansPassed'
  BY <1>1, RowsStay DEF RowsMoved
<1>3. /\ DOMAIN worker' = WorkerFields /\ worker'.plan = <<>> /\ worker'.seen = run
      /\ worker'.phase = "look" /\ worker'.job = NoJob /\ worker'.held = NoControl
  BY <1>1 DEF IdleWorker, WorkerFields
<1>4. run' = run /\ run \in RunStatus
  BY <1>1 DEF SameRows, runRow, IInv, RowShapes
<1>5. WorkerShapes'
  <2>1. <<>> \in Seq(Op)
    OBVIOUS
  <2> QED
    BY <1>3, <1>4, <2>1 DEF WorkerShapes
<1>6. WorkerFits' /\ RestFits' /\ SucceededFits'
  BY <1>3, <1>4 DEF WorkerFits, RestFits, SucceededFits
<1>7. PlanFits'
  BY <1>3, NoPlan
<1> QED
  BY <1>2, <1>5, <1>6, <1>7 DEF IInv, RowsMoved

LEMMA ClaimableIs ==
    /\ worker.seen \in {"canceled", "succeeded"} => Claimable = {}
    /\ worker.seen = "paused" => Claimable = {j \in Coordinators : j[2] > 0}
<1>1. worker.seen = "canceled" => Claimable = {}
  BY DEF Claimable
<1>2. worker.seen = "succeeded" => Claimable = {}
  BY DEF Claimable
<1>3. worker.seen = "paused" => Claimable = {j \in Coordinators : j[2] > 0}
  BY DEF Claimable
<1> QED
  BY <1>1, <1>2, <1>3

LEMMA ClaimInvariant == ASSUME IInv, Claim PROVE IInv'
<1>1. worker.phase = "look" /\ UNCHANGED <<runRow, plans, stages, ctl, faults>>
  BY DEF Claim
<1>2. /\ faults' \in 0 .. MaxFaults /\ faults' >= faults /\ faults' \in Int /\ faults' = faults
      /\ plan' = plan /\ run' = run
  BY <1>1, Numbers DEF IInv, RowShapes, plans, runRow
<1>3. CASE Eligible = {}
  <2>1. worker' = IdleWorker /\ SameRows
    BY <1>1, <1>3 DEF Claim, SameRows
  <2> QED
    BY <2>1, RowsStay, Idles DEF RowsMoved
<1>4. CASE Eligible # {}
  <2>1. PICK q : q = queue
    OBVIOUS
  <2>2. /\ q \in Seq(Jobs) /\ DOMAIN q = 1 .. Len(q) /\ Len(q) \in Nat
        /\ \A i, k \in 1 .. Len(q) : q[i] = q[k] => i = k
        /\ \A j \in Jobs : job[j] = "queued" <=> \E i \in 1 .. Len(q) : q[i] = j
    BY <2>1 DEF IInv, RowShapes, QueueFits
  <2>3. Eligible \in SUBSET (1 .. Len(q))
    BY <2>1, <2>2 DEF Eligible
  <2>4. PICK m : m = Min(Eligible)
    OBVIOUS
  <2>5. m \in Eligible /\ m \in 1 .. Len(q)
    BY <1>4, <2>2, <2>3, <2>4, MinIsMember
  <2>6. PICK j : j = q[m]
    OBVIOUS
  <2>7. /\ job' = [job EXCEPT ![j] = "running"] /\ queue' = RemoveAt(q, m)
        /\ worker' = [IdleWorker EXCEPT !.phase = "handle", !.job = j, !.plan = LoadPlan(j)]
    BY <1>4, <2>1, <2>4, <2>6 DEF Claim
  <2>8. j \in Jobs /\ j \in Claimable /\ job[j] = "queued" /\ Known(j)
    <3>1. j \in Jobs /\ j \in Claimable
      BY <2>1, <2>2, <2>5, <2>6 DEF Eligible
    <3>2. job[j] = "queued"
      BY <2>2, <2>5, <2>6, <3>1
    <3> QED
      BY <3>1, <3>2 DEF IInv, JobsFit
  <2>9. /\ JobsFit' /\ job' \in [Jobs -> JobState] /\ job'[j] = "running"
        /\ \A x \in Jobs : x # j => job'[x] = job[x]
    <3>1. "running" \in JobState
      BY DEF JobState
    <3> QED
      BY <1>2, <2>7, <2>8, <3>1, JobChanges
  <2>10. QueueFits' /\ queue' \in Seq(Jobs)
    <3>0. LET r == RemoveAt(q, m)
          IN  /\ r \in Seq(Jobs)
              /\ \A i, k \in 1 .. Len(r) : r[i] = r[k] => i = k
              /\ \A x : (\E k \in 1 .. Len(r) : r[k] = x) <=>
                           x # q[m] /\ \E k \in 1 .. Len(q) : q[k] = x
      BY <2>2, <2>5, RemoveAtRemoves
    <3>1. PICK r : r = RemoveAt(q, m)
      OBVIOUS
    <3>2. /\ r \in Seq(Jobs)
          /\ \A i, k \in 1 .. Len(r) : r[i] = r[k] => i = k
          /\ \A x : (\E k \in 1 .. Len(r) : r[k] = x) <=>
                       x # q[m] /\ \E k \in 1 .. Len(q) : q[k] = x
      BY <3>0, <3>1
    <3>3. queue' = r
      BY <2>7, <3>1
    <3>4. \A x \in Jobs : job'[x] = "queued" <=> \E i \in 1 .. Len(r) : r[i] = x
      BY <2>2, <2>6, <2>9, <3>2
    <3>5. QueueFits'
      BY <3>2, <3>3, <3>4, QueueIs
    <3> QED
      BY <3>2, <3>3, <3>5
  <2>11. RowsMoved /\ SucceededMeansPassed'
    BY <1>1, <1>2, <2>9, <2>10, JobsMove
  <2>12. /\ DOMAIN worker' = WorkerFields /\ worker'.seen = "queued" /\ worker'.phase = "handle"
         /\ worker'.job = j /\ worker'.plan = LoadPlan(j) /\ worker'.held = NoControl
    BY <2>7 DEF IdleWorker, WorkerFields
  <2>13. worker'.plan \in Seq(Op) /\ PlanFits'
    <3>1. CASE j \in StageJobs
      <4>1. LoadPlan(j) = <<<<"load">>>>
        BY <3>1 DEF LoadPlan
      <4> QED
        BY <2>12, <3>1, <4>1, LoadStagePlan
    <3>2. CASE j \in Coordinators
      BY <2>12, <3>2, LoadCoordinatorPlan
    <3> QED
      BY <2>8, <3>1, <3>2 DEF Jobs
  <2>14. WorkerShapes'
    <3>1. "queued" \in RunStatus
      BY DEF RunStatus
    <3> QED
      BY <2>12, <2>13, <3>1 DEF WorkerShapes
  <2>15. WorkerFits'
    <3>1. Known(j)'
      BY <2>8, <2>11 DEF RowsMoved, Stays
    <3> QED
      BY <2>8, <2>9, <2>12, <3>1 DEF WorkerFits, Known
  <2>16. run # "canceled" /\ run # "succeeded"
         /\ (run = "paused" => j \in Coordinators /\ j[2] > 0)
    <3>1. run \in {"paused", "canceled", "succeeded"} => worker.seen = run
      BY <1>1 DEF IInv, RestFits, SucceededFits
    <3> QED
      BY <2>8, <3>1, ClaimableIs
  <2>17. RestFits' /\ SucceededFits'
    BY <1>2, <2>12, <2>16 DEF RestFits, SucceededFits, P
  <2> QED
    BY <2>11, <2>13, <2>14, <2>15, <2>17 DEF IInv, RowsMoved
<1> QED
  BY <1>3, <1>4

(* A pass takes up the recovery of a lost job.                             *)
LEMMA TakesUp ==
    ASSUME IInv, worker.phase = "look", Claimable = Jobs \/ Eligible # {},
           RowsMoved, SucceededMeansPassed', run' = run, NEW j \in Jobs, Known(j),
           NEW q, Settles(q),
           worker' = [worker EXCEPT !.phase = "recover", !.job = j, !.plan = q]
    PROVE  IInv'
<1>1. /\ DOMAIN worker' = WorkerFields /\ worker'.plan = q /\ worker'.seen = worker.seen
      /\ worker'.phase = "recover" /\ worker'.job = j /\ worker'.held = worker.held
  BY DEF IInv, WorkerShapes, WorkerFields
<1>2. q \in Seq(Op) /\ PlanFits' /\ \A i \in 1 .. Len(q) : Harmless(q[i])
  BY <1>1, SettledPlan
<1>3. WorkerShapes'
  BY <1>1, <1>2 DEF IInv, WorkerShapes
<1>4. WorkerFits'
  <2>1. worker.held = NoControl
    BY DEF IInv, WorkerFits
  <2>2. Known(j)'
    BY DEF RowsMoved, Stays
  <2> QED
    BY <1>1, <2>1, <2>2 DEF WorkerFits, Known
<1>5. RestFits'
  BY <1>1, <1>2 DEF RestFits, Left, Places
<1>6. run # "succeeded"
  <2> SUFFICES ASSUME run = "succeeded"
               PROVE  FALSE
    OBVIOUS
  <2>1. Claimable = {}
    BY ClaimableIs DEF IInv, SucceededFits
  <2>2. Eligible = {}
    BY <2>1 DEF Eligible
  <2> QED
    BY <2>1, <2>2
<1>7. SucceededFits'
  BY <1>6 DEF SucceededFits
<1> QED
  BY <1>2, <1>3, <1>4, <1>5, <1>7 DEF IInv, RowsMoved

LEMMA SettlesNothing == Settles(<<>>)
<1>1. PICK q : q = <<>>
  OBVIOUS
<1>2. q \in Seq(Op) /\ \A i \in 1 .. Len(q) : FALSE
  BY <1>1
<1>3. Settles(q)
  BY <1>2 DEF Settles
<1> QED
  BY <1>1, <1>3

LEMMA CoordinatorOf ==
    ASSUME NEW j \in Coordinators
    PROVE  /\ j[2] \in Plans /\ j[3] \in Stages \cup {0} /\ j[4] \in 0 .. MaxFaults
           /\ j \in Jobs /\ j \notin StageJobs
BY DEF Coordinators, Coordinator, Jobs, StageJobs, StageJob

LEMMA ScanInvariant == ASSUME IInv, Scan PROVE IInv'
<1>1. /\ worker.phase = "look" /\ (Claimable = Jobs \/ Eligible # {})
      /\ control' = [c \in Controls |->
             IF control[c] \in Pending THEN "reconcile_required" ELSE control[c]]
      /\ recent' = <<>> /\ UNCHANGED <<runRow, plans, stages, base, queue, faults>>
  BY DEF Scan
<1>2. PICK j \in Jobs :
         /\ job[j] = "lapsed" /\ job' = [job EXCEPT ![j] = "lost"]
         /\ worker' = [worker EXCEPT !.phase = "recover", !.job = j,
                !.plan = (IF j \in Coordinators THEN CoordinatorRecovery(j) ELSE <<>>)
                         \o <<<<"deliver", "none">>>>]
  BY Zenon DEF Scan
<1>3. /\ run' = run /\ draft' = draft /\ plan' = plan /\ execution' = execution
      /\ runAttempt' = runAttempt /\ attempt' = attempt /\ latest' = latest
      /\ base' = base /\ queue' = queue /\ faults' = faults
      /\ faults \in Int /\ faults \in Nat /\ faults \in 0 .. MaxFaults
  BY <1>1, Numbers DEF runRow, plans, stages, IInv, RowShapes
<1>4. Known(j) /\ j[4] < faults
  BY <1>2 DEF IInv, JobsFit
<1>5. /\ JobsFit' /\ job' \in [Jobs -> JobState] /\ job'[j] = "lost"
      /\ \A x \in Jobs : x # j => job'[x] = job[x]
  <2>1. "lost" \in JobState /\ faults' \in Int /\ faults' >= faults
    BY <1>3 DEF JobState
  <2> QED
    BY <1>2, <1>3, <1>4, <2>1, JobChanges
<1>6. QueueFits'
  BY <1>2, <1>3, <1>5, QueueKept DEF IInv
<1>7. /\ control' \in [Controls -> ControlStatus]
      /\ \A c \in Controls : /\ control'[c] \notin Pending
                             /\ control[c] # "absent" => control'[c] # "absent"
                             /\ control'[c] = "acknowledged" => control[c] = "acknowledged"
  <2>1. control \in [Controls -> ControlStatus] /\ "reconcile_required" \in ControlStatus
        /\ "reconcile_required" \notin Pending
    BY DEF IInv, RowShapes, ControlStatus, Pending
  <2> QED
    BY <1>1, <2>1
<1>8. RecentFits'
  BY <1>1, <1>7 DEF RecentFits
<1>9. RowShapes'
  <2>1. recent' \in Seq(Controls)
    BY <1>1
  <2> QED
    BY <1>3, <1>5, <1>7, <2>1 DEF IInv, RowShapes
<1>10. PlansFit' /\ Committed' = Committed
  BY <1>3, PlansKept DEF IInv
<1>11. Stays
  <2>1. /\ Target \in [Controls -> Stages] /\ base \in [Controls -> Plans]
        /\ Action \in [Controls -> {"pause", "cancel_stage", "terminate"}]
    BY ControlAssumption DEF IInv, RowShapes
  <2>2. /\ Committed \in Int /\ Committed' \in Int /\ Committed' >= Committed
        /\ faults' \in Int /\ faults' >= faults
        /\ \A c \in Controls : base[c] \in Int /\ (Action[c] = "terminate" => base[c] <= Committed)
    BY <1>3, <1>10, Numbers
  <2> QED
    BY <1>3, <1>7, <2>1, <2>2, StaysIf
<1>12. AcknowledgedIsDone' /\ SucceededMeansPassed'
  BY <1>3, <1>7, <1>11, AcknowledgedStays, SucceededStays DEF IInv
<1>13. RowsMoved
  BY <1>5, <1>6, <1>8, <1>9, <1>10, <1>11, <1>12 DEF RowsMoved
<1>14. PICK q : q = (IF j \in Coordinators THEN CoordinatorRecovery(j) ELSE <<>>)
                    \o <<<<"deliver", "none">>>>
  OBVIOUS
<1>15. worker' = [worker EXCEPT !.phase = "recover", !.job = j, !.plan = q]
  BY <1>2, <1>14
<1>16. worker'.phase = "recover"
  BY <1>15 DEF IInv, WorkerShapes, WorkerFields
<1>17. Settles(q)
  <2> DEFINE d == <<"deliver", "none">>
  <2>1. d \in Op /\ Fits(d)' /\ Quiet(d) /\ d[1] # "finish"
    BY <1>16, OpsAre, FitAnywhere, QuietOps
  <2>2. Settles(<<d>>)
    <3> HIDE DEF d
    <3> QED
      BY <2>1, SettlesOne
  <2>3. ASSUME j \in Coordinators, NEW x, x = Coordinator(j[2], j[3], j[4] + 1)
        PROVE  Settles(<<<<"enqueue", x>>>>)
    <3> DEFINE e == <<"enqueue", x>>
    <3>1. j[2] \in Plans /\ j[3] \in Stages \cup {0} /\ j[4] + 1 \in 0 .. MaxFaults
      BY <1>3, <1>4, <2>3, CoordinatorOf, ControlAssumption
    <3>2. x \in Jobs
      BY <2>3, <3>1 DEF Jobs, Coordinators
    <3>3. x[2] = j[2] /\ x[4] = j[4] + 1
      BY <2>3 DEF Coordinator
    <3>4. x[4] <= faults
      <4>1. j[4] \in Int
        BY <2>3, CoordinatorOf
      <4> QED
        BY <1>3, <1>4, <3>3, <4>1
    <3>5. Known(x)'
      BY <1>3, <1>4, <1>10, <3>2, <3>3, <3>4 DEF Known
    <3>6. e \in Op /\ Fits(e)' /\ Quiet(e) /\ e[1] # "finish"
      BY <1>16, <3>2, <3>5, OpsAre, FitAnywhere, QuietOps
    <3> HIDE DEF e
    <3>7. Settles(<<e>>)
      BY <3>6, SettlesOne
    <3> QED
      BY <3>7 DEF e
  <2>4. PICK head : head = IF j \in Coordinators THEN CoordinatorRecovery(j) ELSE <<>>
    OBVIOUS
  <2>5. Settles(head)
    <3>1. CASE head = <<>>
      BY <3>1, SettlesNothing
    <3>2. CASE head # <<>>
      <4>1. PICK x : x = Coordinator(j[2], j[3], j[4] + 1)
        OBVIOUS
      <4>2. j \in Coordinators /\ head = <<<<"enqueue", x>>>>
        BY <2>4, <3>2, <4>1 DEF CoordinatorRecovery
      <4> QED
        BY <2>3, <4>1, <4>2
    <3> QED
      BY <3>1, <3>2
  <2>6. q = head \o <<d>>
    BY <1>14, <2>4
  <2> HIDE DEF d
  <2> QED
    BY <2>2, <2>5, <2>6, SettlesTogether
<1> QED
  BY <1>1, <1>3, <1>4, <1>12, <1>13, <1>15, <1>17, TakesUp, Zenon

(* What a pass may do about a lost stage settles it.                       *)
LEMMA StageRecoveriesSettle ==
    ASSUME IInv, NEW p \in Plans, NEW s \in Stages, worker'.phase = "recover",
           worker'.job = StageJob(p, s), NEW q \in StageRecoveries(p, s)
    PROVE  Settles(q)
<1>1. PICK status : status = attempt[p][s]
  OBVIOUS
<1> DEFINE d == <<"deliver", "none">>
           i == <<"attempt", status, "interrupted">>
           u == <<"attempt", status, "in_doubt">>
           x == <<"execution", "failed">>
           t == <<"settle">>
           a == <<"after", status>>
<1>2. worker'.job \in StageJobs
  BY DEF StageJobs
<1>3. /\ d \in Op /\ Fits(d)' /\ Quiet(d) /\ d[1] # "finish"
      /\ x \in Op /\ Fits(x)' /\ Quiet(x) /\ x[1] # "finish"
      /\ t \in Op /\ Fits(t)' /\ Quiet(t) /\ t[1] # "finish"
  BY <1>2, OpsAre, FitAnywhere, FitStage, QuietOps DEF Plain
<1>4. Settles(<<d>>) /\ Settles(<<t>>) /\ Settles(<<x, t>>)
  <2> HIDE DEF d, x, t
  <2> QED
    BY <1>3, SettlesOne, SettlesPair
<1>5. ASSUME status \in {"running", "in_doubt"}
      PROVE  Settles(<<i>>) /\ Settles(<<u>>)
  <2>1. /\ i \in Op /\ Fits(i)' /\ Quiet(i) /\ i[1] # "finish"
        /\ u \in Op /\ Fits(u)' /\ Quiet(u) /\ u[1] # "finish"
    BY <1>2, <1>5, OpsAre, FitStage, QuietOps DEF TerminalAttempt
  <2> HIDE DEF i, u
  <2> QED
    BY <2>1, SettlesOne
<1>6. ASSUME status \in TerminalAttempt
      PROVE  Settles(<<a>>)
  <2>1. a \in Op /\ Fits(a)' /\ Quiet(a) /\ a[1] # "finish"
    BY <1>2, <1>6, OpsAre, FitStage, QuietOps
  <2> HIDE DEF a
  <2> QED
    BY <2>1, SettlesOne
<1>7. Settles(Finish("failed_recoverable")) /\ Settles(Finish("in_doubt"))
  <2>1. /\ "failed_recoverable" \in FinishTarget /\ "in_doubt" \in FinishTarget
        /\ "failed_recoverable" \notin {"canceled", "succeeded"}
        /\ "in_doubt" \notin {"canceled", "succeeded"}
    BY DEF FinishTarget, FinishedRun
  <2> QED
    BY <2>1, SettlesFinish
<1>8. \/ status \in {"running", "in_doubt"}
         /\ \/ q = <<i>> \o Finish("failed_recoverable") \o <<x, t>> \o <<d>>
            \/ q = <<u>> \o Finish("in_doubt") \o <<d>>
      \/ q = <<t>> \o <<d>>
      \/ status \in TerminalAttempt /\ q = <<a>>
  BY <1>1 DEF StageRecoveries
<1> HIDE DEF d, i, u, x, t, a
<1>9. CASE /\ status \in {"running", "in_doubt"}
           /\ q = <<i>> \o Finish("failed_recoverable") \o <<x, t>> \o <<d>>
  BY <1>4, <1>5, <1>7, <1>9, SettlesTogether
<1>10. CASE status \in {"running", "in_doubt"} /\ q = <<u>> \o Finish("in_doubt") \o <<d>>
  BY <1>4, <1>5, <1>7, <1>10, SettlesTogether
<1>11. CASE q = <<t>> \o <<d>>
  BY <1>4, <1>11, SettlesTogether
<1>12. CASE status \in TerminalAttempt /\ q = <<a>>
  BY <1>6, <1>12
<1> QED
  BY <1>8, <1>9, <1>10, <1>11, <1>12

LEMMA RecoverInvariant == ASSUME IInv, Recover PROVE IInv'
<1>1. worker.phase = "look" /\ (Claimable = Jobs \/ Eligible # {}) /\ SameRows
  BY DEF Recover, SameRows
<1>2. PICK p \in Plans, s \in Stages :
         /\ job[StageJob(p, s)] = "lost"
         /\ \E q \in StageRecoveries(p, s) :
               worker' = [worker EXCEPT !.phase = "recover", !.job = StageJob(p, s), !.plan = q]
  BY Zenon DEF Recover
<1>3. PICK q \in StageRecoveries(p, s) :
         worker' = [worker EXCEPT !.phase = "recover", !.job = StageJob(p, s), !.plan = q]
  BY <1>2, Zenon
<1>4. PICK j : j = StageJob(p, s)
  OBVIOUS
<1>5. j \in Jobs /\ Known(j)
  <2>1. j \in Jobs
    BY <1>4 DEF Jobs, StageJobs
  <2> QED
    BY <1>2, <1>4, <2>1 DEF IInv, JobsFit
<1>6. worker'.phase = "recover" /\ worker'.job = StageJob(p, s)
  BY <1>3 DEF IInv, WorkerShapes, WorkerFields
<1>7. Settles(q)
  BY <1>6, StageRecoveriesSettle
<1>8. RowsMoved /\ SucceededMeansPassed' /\ run' = run
  BY <1>1, RowsStay DEF RowsMoved, SameRows, runRow
<1>9. worker' = [worker EXCEPT !.phase = "recover", !.job = j, !.plan = q]
  BY <1>3, <1>4
<1> QED
  BY <1>1, <1>5, <1>7, <1>8, <1>9, TakesUp, Zenon

-----------------------------------------------------------------------------
(* The operators, whose steps the worker does not see.                     *)

LEMMA Bystander ==
    ASSUME IInv, RowShapes', PlansFit', QueueFits', RecentFits', JobsFit',
           AcknowledgedIsDone', SucceededMeansPassed', Stays,
           run' = run \/ run' \notin {"paused", "canceled", "succeeded"},
           \A j \in Jobs : job[j] = "running" => job'[j] = "running",
           worker' = worker \/ worker' = [worker EXCEPT !.fresh = FALSE],
           worker.phase \in {"handle", "recover"} => (Begun => Begun') /\ (AllPassed => AllPassed')
    PROVE  IInv'
<1>1. /\ DOMAIN worker' = WorkerFields /\ worker'.plan = worker.plan /\ worker'.seen = worker.seen
      /\ worker'.phase = worker.phase /\ worker'.job = worker.job /\ worker'.held = worker.held
  BY DEF IInv, WorkerShapes, WorkerFields
<1>2. WorkerShapes'
  BY <1>1 DEF IInv, WorkerShapes
<1>3. worker.phase \in {"idle", "look"} => Places = {}
  <2> SUFFICES ASSUME worker.phase \in {"idle", "look"}
               PROVE  Places = {}
    OBVIOUS
  <2>1. Left = <<>>
    BY DEF IInv, WorkerFits, Left
  <2>2. Len(<<>>) = 0
    OBVIOUS
  <2> QED
    BY <2>1, <2>2 DEF Places
<1>4. worker.phase \in {"idle", "look", "handle", "recover"} /\ WorkerFits
  BY DEF IInv, WorkerFits
<1>5. PlanFits'
  <2>1. PlanFits /\ Left \in Seq(Op) /\ worker'.plan = Left
    BY <1>1 DEF IInv, WorkerShapes, Left
  <2>2. \A i \in Places : (Begun => Begun') /\ (AllPassed => AllPassed')
    BY <1>3, <1>4
  <2> QED
    BY <1>1, <2>1, <2>2, PlanStays
<1>6. WorkerFits'
  <2>1. CASE worker.phase \in {"handle", "recover"}
    <3>1. worker.phase = "handle" => job'[worker.job] = "running"
      BY <1>4 DEF WorkerFits, Known
    <3> QED
      BY <1>1, <1>4, <2>1, <3>1, WorkerStays
  <2>2. CASE worker.phase \in {"idle", "look"}
    BY <1>1, <1>4, <2>2 DEF WorkerFits
  <2> QED
    BY <1>4, <2>1, <2>2
<1>7. RestFits' /\ SucceededFits'
  BY <1>1 DEF IInv, RestFits, SucceededFits, Left, Places, P
<1> QED
  BY <1>2, <1>5, <1>6, <1>7 DEF IInv

LEMMA PlanContinuationInvariant == ASSUME IInv, PlanContinuation PROVE IInv'
<1>1. /\ Committed < MaxContinuations
      /\ \E targets \in {DefaultTargets} \cup {{s} : s \in Stages} :
            \E unconfirmed \in SUBSET (Invalidated(targets) \cap External) :
               draft' = Invalidated(targets) \ unconfirmed
      /\ UNCHANGED <<run, plans, stages, ctl, jobs, worker, faults>>
  BY DEF PlanContinuation
<1>2. /\ run' = run /\ plan' = plan /\ execution' = execution /\ runAttempt' = runAttempt
      /\ attempt' = attempt /\ latest' = latest /\ control' = control /\ base' = base
      /\ recent' = recent /\ job' = job /\ queue' = queue /\ worker' = worker /\ faults' = faults
  BY <1>1 DEF plans, stages, ctl, jobs
<1>3. draft' \subseteq Stages
  BY <1>1 DEF Invalidated
<1>4. RowShapes'
  BY <1>2, <1>3 DEF IInv, RowShapes
<1>5. Committed' = Committed
  BY <1>2 DEF Committed
<1>6. PlansFit'
  BY <1>1, <1>2, <1>5 DEF IInv, PlansFit
<1>7. QueueFits' /\ RecentFits' /\ JobsFit'
  BY <1>2, <1>5, Numbers, ListsKept, JobsKept DEF IInv
<1>8. Stays
  <2>1. /\ Target \in [Controls -> Stages] /\ base \in [Controls -> Plans]
        /\ Action \in [Controls -> {"pause", "cancel_stage", "terminate"}]
    BY ControlAssumption DEF IInv, RowShapes
  <2>2. /\ Committed \in Int /\ Committed' \in Int /\ Committed' >= Committed
        /\ faults \in Int /\ faults' \in Int /\ faults' >= faults
        /\ \A c \in Controls : base[c] \in Int /\ (Action[c] = "terminate" => base[c] <= Committed)
    BY <1>2, <1>5, Numbers
  <2> QED
    BY <1>2, <2>1, <2>2, StaysIf
<1>9. AcknowledgedIsDone' /\ SucceededMeansPassed'
  BY <1>2, <1>8, AcknowledgedStays, SucceededStays DEF IInv
<1>10. (Begun => Begun') /\ (AllPassed => AllPassed')
  BY <1>2 DEF Begun, AllPassed, Attempt, P
<1> QED
  BY <1>2, <1>4, <1>6, <1>7, <1>8, <1>9, <1>10, Bystander

\* The operation is new and pending; only its base is written besides.
LEMMA RequestInvariant == ASSUME IInv, NEW c \in Controls, Request(c) PROVE IInv'
<1>1. /\ control[c] = "absent" /\ control' = [control EXCEPT ![c] = "requested"]
      /\ recent' = <<c>> \o recent
      /\ UNCHANGED <<plans, stages, jobs, faults>>
  BY DEF Request, Requestable
<1>2. \/ /\ Action[c] = "cancel_stage" /\ base' = [base EXCEPT ![c] = latest[Target[c]]]
         /\ UNCHANGED <<runRow, worker>>
      \/ /\ base' = [base EXCEPT ![c] = Committed]
         /\ run' \in {"pause_requested", "stop_requested", "cancel_requested"} /\ draft' = {}
         /\ run \in {"running", "queued", "pause_requested", "pausing", "paused",
                     "resume_requested", "waiting_continuation"}
         /\ worker' = [worker EXCEPT !.fresh = FALSE]
  <2>1. CASE Action[c] = "cancel_stage"
    BY <2>1 DEF Request
  <2>2. CASE Action[c] # "cancel_stage"
    <3>1. /\ Requested(c) # "refused" /\ base' = [base EXCEPT ![c] = Committed]
          /\ run' = Requested(c) /\ draft' = {} /\ worker' = [worker EXCEPT !.fresh = FALSE]
      BY <2>2 DEF Request, Requestable, SetRun
    <3>2. /\ Requested(c) \in {"pause_requested", "stop_requested", "cancel_requested"}
          /\ run \in {"running", "queued", "pause_requested", "pausing", "paused",
                      "resume_requested", "waiting_continuation"}
      BY <3>1 DEF Requested
    <3> QED
      BY <3>1, <3>2
  <2> QED
    BY <2>1, <2>2
<1>3. /\ plan' = plan /\ execution' = execution /\ runAttempt' = runAttempt
      /\ attempt' = attempt /\ latest' = latest
      /\ job' = job /\ queue' = queue /\ faults' = faults
  BY <1>1 DEF plans, stages, jobs
<1>4. /\ run' \in RunStatus /\ draft' \in {draft, {}}
      /\ run = "canceled" => run' = "canceled"
      /\ run' = run \/ run' \notin {"paused", "canceled", "succeeded"}
      /\ worker' = worker \/ worker' = [worker EXCEPT !.fresh = FALSE]
  BY <1>2 DEF IInv, RowShapes, RunStatus, runRow
<1>5. /\ control \in [Controls -> ControlStatus] /\ base \in [Controls -> Plans]
      /\ Committed \in Plans /\ latest \in [Stages -> Plans] /\ "requested" \in ControlStatus
      /\ Target \in [Controls -> Stages]
      /\ Action \in [Controls -> {"pause", "cancel_stage", "terminate"}]
  BY Numbers, ControlAssumption DEF IInv, RowShapes, ControlStatus, Pending
<1>6. /\ control' \in [Controls -> ControlStatus] /\ control'[c] = "requested"
      /\ \A d \in Controls : d # c => control'[d] = control[d]
  BY <1>1, <1>5
<1>7. /\ base' \in [Controls -> Plans] /\ \A d \in Controls : d # c => base'[d] = base[d]
      /\ Action[c] = "terminate" => base'[c] = Committed
  <2>1. latest[Target[c]] \in Plans
    BY <1>5
  <2>2. \E b \in Plans : base' = [base EXCEPT ![c] = b] /\ (Action[c] = "terminate" => b = Committed)
    BY <1>2, <1>5, <2>1
  <2> QED
    BY <1>5, <2>2
<1>8. Committed' = Committed
  BY <1>3 DEF Committed
<1>9. PlansFit'
  <2>1. \A d \in Controls : Action[d] = "terminate" => base'[d] <= Committed
    <3>1. Committed <= Committed
      BY Numbers
    <3> QED
      BY <1>7, <3>1, Numbers
  <2> QED
    BY <1>3, <1>4, <1>8, <2>1 DEF IInv, PlansFit
<1>10. RecentFits' /\ recent' \in Seq(Controls)
  <2>1. PICK r : r = recent
    OBVIOUS
  <2>2. /\ r \in Seq(Controls) /\ Len(r) \in Nat
        /\ \A i, k \in 1 .. Len(r) : r[i] = r[k] => i = k
        /\ \A d \in Controls : control[d] \in Pending <=> \E i \in 1 .. Len(r) : r[i] = d
    BY <2>1 DEF IInv, RowShapes, RecentFits
  <2>3. PICK q : q = <<c>> \o r
    OBVIOUS
  <2>4. /\ q \in Seq(Controls) /\ Len(q) = Len(r) + 1 /\ q[1] = c
        /\ \A i \in 1 .. Len(r) : q[i + 1] = r[i]
    BY <2>2, <2>3
  <2>5. \A i \in 1 .. Len(q) : i = 1 \/ \E k \in 1 .. Len(r) : i = k + 1 /\ q[i] = r[k]
    <3> SUFFICES ASSUME NEW i \in 1 .. Len(q), i # 1
                 PROVE  \E k \in 1 .. Len(r) : i = k + 1 /\ q[i] = r[k]
      OBVIOUS
    <3>1. i - 1 \in 1 .. Len(r) /\ i = (i - 1) + 1
      BY <2>2, <2>4
    <3> QED
      BY <2>4, <3>1
  <2>6. \A i \in 1 .. Len(r) : r[i] # c
    BY <1>1, <2>2 DEF Pending
  <2>7. \A i, k \in 1 .. Len(q) : q[i] = q[k] => i = k
    <3> SUFFICES ASSUME NEW i \in 1 .. Len(q), NEW k \in 1 .. Len(q), q[i] = q[k]
                 PROVE  i = k
      OBVIOUS
    <3>1. CASE i = 1 \/ k = 1
      BY <2>4, <2>5, <2>6, <3>1
    <3>2. CASE i # 1 /\ k # 1
      BY <2>2, <2>5, <3>2
    <3> QED
      BY <3>1, <3>2
  <2>8. \A d \in Controls : (\E i \in 1 .. Len(q) : q[i] = d) <=>
                               d = c \/ \E i \in 1 .. Len(r) : r[i] = d
    <3>1. 1 \in 1 .. Len(q) /\ \A k \in 1 .. Len(r) : k + 1 \in 1 .. Len(q)
      BY <2>2, <2>4
    <3>2. ASSUME NEW d \in Controls, NEW i \in 1 .. Len(q), q[i] = d
          PROVE  d = c \/ \E k \in 1 .. Len(r) : r[k] = d
      BY <2>4, <2>5, <3>2
    <3>3. ASSUME NEW d \in Controls, NEW k \in 1 .. Len(r), r[k] = d
          PROVE  \E i \in 1 .. Len(q) : q[i] = d
      BY <2>4, <3>1, <3>3
    <3> QED
      BY <2>4, <3>1, <3>2, <3>3
  <2>9. recent' = q
    BY <1>1, <2>1, <2>3
  <2>10. \A d \in Controls : control'[d] \in Pending <=> \E i \in 1 .. Len(q) : q[i] = d
    <3>1. control'[c] \in Pending
      BY <1>6 DEF Pending
    <3> QED
      BY <1>6, <2>2, <2>8, <3>1
  <2>11. RecentFits'
    BY <2>7, <2>9, <2>10, RecentIs
  <2> QED
    BY <2>4, <2>9, <2>11
<1>11. RowShapes'
  <2>1. draft' \subseteq Stages
    BY <1>4 DEF IInv, RowShapes
  <2> QED
    BY <1>3, <1>4, <1>6, <1>7, <1>10, <2>1 DEF IInv, RowShapes
<1>12. QueueFits' /\ JobsFit'
  BY <1>3, <1>8, Numbers, ListsKept, JobsKept DEF IInv
<1>13. Stays
  <2>1. /\ Committed \in Int /\ Committed' \in Int /\ Committed' >= Committed
        /\ faults \in Int /\ faults' \in Int /\ faults' >= faults
        /\ \A d \in Controls : base[d] \in Int /\ (Action[d] = "terminate" => base[d] <= Committed)
    BY <1>3, <1>8, Numbers
  <2>2. \A d \in Controls : control[d] # "absent" => control'[d] # "absent" /\ base'[d] = base[d]
    BY <1>1, <1>6, <1>7
  <2> QED
    BY <1>3, <1>4, <1>5, <2>1, <2>2, StaysIf
<1>14. AcknowledgedIsDone' /\ SucceededMeansPassed'
  <2>1. \A d \in Controls : control'[d] = "acknowledged" => control[d] = "acknowledged"
    BY <1>6
  <2> QED
    BY <1>3, <1>4, <1>13, <2>1, AcknowledgedStays, SucceededStays DEF IInv
<1>15. worker.phase \in {"handle", "recover"} => (Begun => Begun') /\ (AllPassed => AllPassed')
  <2>1. worker'.job = worker.job
    BY <1>4 DEF IInv, WorkerShapes, WorkerFields
  <2> QED
    BY <1>3, <2>1 DEF Begun, AllPassed, Attempt, P
<1> QED
  BY <1>3, <1>4, <1>9, <1>10, <1>11, <1>12, <1>13, <1>14, <1>15, Bystander

(* The commit is the next continuation in number.                          *)
LEMMA CommittedGrows ==
    ASSUME PlansFit, NEW p, p = Committed + 1, p \in Plans, NEW d, d # {},
           plan \in [Plans -> SUBSET Stages], plan' = [plan EXCEPT ![p] = d]
    PROVE  /\ Committed' = p /\ plan'[0] = plan[0] /\ p \in Plans \ {0}
           /\ \A q \in Plans \ {0} : plan'[q] # {} <=> q <= p
<1>1. Committed \in Nat /\ Plans \subseteq Nat /\ 0 \in Plans /\ p \in Nat /\ p > 0
  BY ControlAssumption DEF PlansFit, Plans
<1>2. plan'[p] = d /\ \A q \in Plans : q # p => plan'[q] = plan[q]
  OBVIOUS
<1>3. \A q \in Plans \ {0} : plan'[q] # {} <=> q <= p
  <2> SUFFICES ASSUME NEW q \in Plans \ {0}
               PROVE  plan'[q] # {} <=> q <= p
    OBVIOUS
  <2>1. q \in Nat /\ (plan[q] # {} <=> q <= Committed)
    BY <1>1 DEF PlansFit
  <2> QED
    BY <1>1, <1>2, <2>1
<1>4. {q \in Plans : q > 0 /\ plan'[q] # {}} = 1 .. p
  <2>1. \A q \in Plans : q > 0 /\ plan'[q] # {} <=> q \in 1 .. p
    BY <1>1, <1>3
  <2>2. 1 .. p \subseteq Plans
    <3>1. p <= MaxContinuations /\ MaxContinuations \in Nat
      BY ControlAssumption DEF Plans
    <3> QED
      BY <1>1, <3>1 DEF Plans
  <2> QED
    BY <2>1, <2>2
<1>5. Cardinality(1 .. p) = p
  <2>1. Cardinality(1 .. p) = IF 1 > p THEN 0 ELSE p - 1 + 1
    BY <1>1, FS_Interval
  <2> QED
    BY <1>1, <2>1
<1>6. Committed' = p
  BY <1>4, <1>5 DEF Committed
<1> QED
  BY <1>1, <1>2, <1>3, <1>6

LEMMA CommitContinuationInvariant == ASSUME IInv, CommitContinuation PROVE IInv'
<1>1. PICK p : p = Committed + 1
  OBVIOUS
<1>2. PICK j : j = Coordinator(p, 0, 0)
  OBVIOUS
<1>3. /\ draft # {} /\ run' = "running" /\ draft' = {}
      /\ plan' = [plan EXCEPT ![p] = draft]
      /\ execution' = [execution EXCEPT ![p] = "queued"]
      /\ job' = [job EXCEPT ![j] = "queued"] /\ queue' = Append(queue, j)
      /\ worker' = [worker EXCEPT !.fresh = FALSE]
      /\ UNCHANGED <<runAttempt, stages, ctl, faults>>
  BY <1>1, <1>2 DEF CommitContinuation, SetRun
<1>4. /\ runAttempt' = runAttempt /\ attempt' = attempt /\ latest' = latest
      /\ control' = control /\ base' = base /\ recent' = recent /\ faults' = faults
  BY <1>3 DEF stages, ctl
<1>5. /\ plan \in [Plans -> SUBSET Stages] /\ draft \in SUBSET Stages
      /\ execution \in [Plans -> ExecutionState] /\ "queued" \in ExecutionState
      /\ job \in [Jobs -> JobState] /\ "queued" \in JobState /\ "running" \in RunStatus
  BY DEF IInv, RowShapes, ExecutionState, JobState, RunStatus
<1>6. Committed \in Nat /\ Committed < MaxContinuations /\ p \in Plans /\ p \in Nat /\ PlansFit
  <2>1. Committed \in Nat /\ Committed < MaxContinuations /\ PlansFit
    BY <1>3, Numbers DEF IInv, PlansFit
  <2> QED
    BY <1>1, <2>1, ControlAssumption DEF Plans
<1>7. /\ Committed' = p /\ plan'[0] = plan[0] /\ p \in Plans \ {0}
      /\ \A q \in Plans \ {0} : plan'[q] # {} <=> q <= p
  BY <1>1, <1>3, <1>5, <1>6, CommittedGrows
<1>8. j \in Jobs /\ j[2] = p /\ j[4] = 0
  <2>1. 0 \in 0 .. MaxFaults
    BY ControlAssumption
  <2> QED
    BY <1>2, <1>6, <2>1 DEF Jobs, Coordinators, Coordinator
<1>9. job[j] = "absent"
  <2>1. ~Known(j)
    BY <1>1, <1>6, <1>8 DEF Known
  <2> QED
    BY <1>8, <2>1 DEF IInv, JobsFit
<1>10. /\ job' \in [Jobs -> JobState] /\ job'[j] = "queued"
       /\ \A x \in Jobs : x # j => job'[x] = job[x]
  BY <1>3, <1>5, <1>8
<1>11. QueueFits' /\ queue' \in Seq(Jobs)
  BY <1>3, <1>8, <1>9, <1>10, QueueGrows
<1>12. /\ plan' \in [Plans -> SUBSET Stages] /\ execution' \in [Plans -> ExecutionState]
       /\ \A q \in Plans : q # p => plan'[q] = plan[q] /\ execution'[q] = execution[q]
  BY <1>3, <1>5, <1>6
<1>13. RowShapes'
  BY <1>3, <1>4, <1>5, <1>10, <1>11, <1>12 DEF IInv, RowShapes
<1>14. PlansFit'
  <2>1. \A q \in Plans : execution'[q] # "absent" => q <= p
    <3> SUFFICES ASSUME NEW q \in Plans, execution'[q] # "absent"
                 PROVE  q <= p
      OBVIOUS
    <3>1. q \in Nat
      BY ControlAssumption DEF Plans
    <3>2. q = p \/ q <= Committed
      BY <1>12 DEF IInv, PlansFit
    <3> QED
      BY <1>1, <1>6, <3>1, <3>2
  <2>2. \A c \in Controls : Action[c] = "terminate" => base'[c] <= p
    BY <1>1, <1>4, <1>6, Numbers
  <2>3. plan'[0] = Stages
    BY <1>6, <1>7 DEF PlansFit
  <2> QED
    BY <1>3, <1>7, <2>1, <2>2, <2>3 DEF PlansFit
<1>15. RecentFits'
  BY <1>4, ListsKept DEF IInv
<1>16. Stays
  <2>1. /\ Target \in [Controls -> Stages] /\ base \in [Controls -> Plans]
        /\ Action \in [Controls -> {"pause", "cancel_stage", "terminate"}]
    BY ControlAssumption DEF IInv, RowShapes
  <2>2. /\ Committed \in Int /\ Committed' \in Int /\ Committed' >= Committed
        /\ Committed' > Committed
        /\ faults \in Int /\ faults' \in Int /\ faults' >= faults
        /\ \A c \in Controls : base[c] \in Int /\ (Action[c] = "terminate" => base[c] <= Committed)
    BY <1>1, <1>4, <1>6, <1>7, Numbers
  <2> QED
    BY <1>4, <2>1, <2>2, StaysIf
<1>17. JobsFit'
  <2> SUFFICES ASSUME NEW x \in Jobs
               PROVE  /\ job'[x] # "absent" => Known(x)'
                      /\ job'[x] = "lapsed" => x[4] < faults'
    BY DEF JobsFit
  <2>1. CASE x = j
    <3>1. p <= p /\ 0 <= faults
      BY <1>6, Numbers
    <3> QED
      BY <1>4, <1>7, <1>8, <1>10, <2>1, <3>1 DEF Known
  <2>2. CASE x # j
    <3>1. job'[x] = job[x]
      BY <1>10, <2>2
    <3> QED
      BY <1>4, <1>16, <3>1 DEF IInv, JobsFit, Stays
  <2> QED
    BY <2>1, <2>2
<1>18. AcknowledgedIsDone' /\ SucceededMeansPassed'
  <2>1. SucceededMeansPassed'
    BY <1>3 DEF SucceededMeansPassed
  <2> QED
    BY <1>4, <1>16, <2>1, AcknowledgedStays DEF IInv
<1>19. worker.phase \in {"handle", "recover"} => (Begun => Begun') /\ (AllPassed => AllPassed')
  <2> SUFFICES ASSUME worker.phase \in {"handle", "recover"}
               PROVE  (Begun => Begun') /\ (AllPassed => AllPassed')
    OBVIOUS
  <2>1. Known(worker.job)
    BY DEF IInv, WorkerFits
  <2>2. P \in Plans /\ P <= Committed
    BY <2>1 DEF Known, P, Jobs, StageJobs, Coordinators, StageJob, Coordinator
  <2>3. P # p
    <3>1. P \in Nat
      BY <2>2, ControlAssumption DEF Plans
    <3> QED
      BY <1>1, <1>6, <2>2, <3>1
  <2>4. plan'[P] = plan[P] /\ execution'[P] = execution[P]
    BY <1>12, <2>2, <2>3
  <2>5. worker'.job = worker.job
    BY <1>3 DEF IInv, WorkerShapes, WorkerFields
  <2>6. P' = P
    BY <2>5 DEF P
  <2> QED
    BY <1>4, <2>4, <2>6 DEF Begun, AllPassed, Attempt
<1>20. \A x \in Jobs : job[x] = "running" => job'[x] = "running"
  BY <1>9, <1>10
<1>21. run' \notin {"paused", "canceled", "succeeded"}
  BY <1>3
<1>22. worker' = [worker EXCEPT !.fresh = FALSE]
  BY <1>3
<1> QED
  BY <1>11, <1>13, <1>14, <1>15, <1>16, <1>17, <1>18, <1>19, <1>20, <1>21, <1>22, Bystander

-----------------------------------------------------------------------------
(* The invariant.                                                          *)

LEMMA CommittedFirst ==
    ASSUME plan = [p \in Plans |-> IF p = 0 THEN Stages ELSE {}]
    PROVE  Committed = 0
<1>1. {p \in Plans : p > 0 /\ plan[p] # {}} = {}
  OBVIOUS
<1> QED
  BY <1>1, FS_EmptySet DEF Committed

LEMMA InitInvariant == ASSUME Init PROVE IInv
<1> DEFINE j == Coordinator(0, 0, 0)
<1>1. /\ run = "queued" /\ draft = {} /\ faults = 0
      /\ plan = [p \in Plans |-> IF p = 0 THEN Stages ELSE {}]
      /\ execution = [p \in Plans |-> "absent"]
      /\ runAttempt = [p \in Plans |-> "none"]
      /\ attempt = [p \in Plans |-> [s \in Stages |-> "absent"]]
      /\ latest = [s \in Stages |-> 0]
      /\ control = [c \in Controls |-> "absent"]
      /\ base = [c \in Controls |-> 0]
      /\ recent = <<>>
      /\ job = [x \in Jobs |-> IF x = j THEN "queued" ELSE "absent"]
      /\ queue = <<j>>
      /\ worker = IdleWorker
  BY DEF Init
<1>2. 0 \in Plans /\ 0 \in 0 .. MaxFaults
  BY ControlAssumption DEF Plans
<1>3. j \in Jobs /\ j[2] = 0 /\ j[4] = 0
  BY <1>2 DEF Jobs, Coordinators, Coordinator
<1> HIDE DEF j
<1>4. Committed = 0
  BY <1>1, CommittedFirst
<1>5. RowShapes
  <2>1. /\ run \in RunStatus /\ draft \subseteq Stages /\ faults \in 0 .. MaxFaults
        /\ plan \in [Plans -> SUBSET Stages] /\ latest \in [Stages -> Plans]
        /\ base \in [Controls -> Plans]
    BY <1>1, <1>2 DEF RunStatus
  <2>2. /\ execution \in [Plans -> ExecutionState]
        /\ runAttempt \in [Plans -> {"none", "queued", "running"} \cup FinishedRun \cup {"failed"}]
        /\ attempt \in [Plans -> [Stages -> AttemptStatus]]
        /\ control \in [Controls -> ControlStatus]
        /\ job \in [Jobs -> JobState]
    BY <1>1 DEF ExecutionState, AttemptStatus, ControlStatus, JobState
  <2>3. recent \in Seq(Controls) /\ queue \in Seq(Jobs)
    BY <1>1, <1>3
  <2> QED
    BY <2>1, <2>2, <2>3 DEF RowShapes
<1>6. /\ DOMAIN worker = WorkerFields /\ worker.plan = <<>> /\ worker.seen = "queued"
      /\ worker.phase = "idle" /\ worker.job = NoJob /\ worker.held = NoControl
  BY <1>1 DEF IdleWorker, WorkerFields
<1>7. WorkerShapes
  <2>1. <<>> \in Seq(Op) /\ "queued" \in RunStatus
    BY DEF RunStatus
  <2> QED
    BY <1>6, <2>1 DEF WorkerShapes
<1>8. WorkerFits /\ RestFits /\ SucceededFits
  BY <1>6 DEF WorkerFits, RestFits, SucceededFits
<1>9. PlanFits
  <2>1. Left = <<>> /\ Places = {} /\ Len(<<>>) = 0
    BY <1>6 DEF Left, Places
  <2>2. OpsFit /\ AcksFit /\ HaltsFit /\ SuccessFits
    BY <2>1 DEF OpsFit, AcksFit, HaltsFit, SuccessFits
  <2>3. ReadsFit
    BY <2>1 DEF ReadsFit
  <2> QED
    BY <2>2, <2>3 DEF PlanFits
<1>10. PlansFit
  <2>1. \A p \in Plans \ {0} : ~(p <= 0)
    BY ControlAssumption DEF Plans
  <2>2. \A c \in Controls : base[c] <= Committed
    BY <1>1, <1>4
  <2> QED
    BY <1>1, <1>2, <1>4, <2>1, <2>2 DEF PlansFit
<1>11. QueueFits
  <2>1. PICK q : q = <<j>>
    OBVIOUS
  <2>2. queue = q /\ Len(q) = 1 /\ q[1] = j
    BY <1>1, <2>1
  <2>3. \A i \in 1 .. Len(q) : i = 1
    BY <2>2
  <2>4. 1 \in 1 .. Len(q)
    BY <2>2
  <2>5. \A x \in Jobs : job[x] = "queued" <=> x = j
    BY <1>1
  <2> QED
    BY <2>2, <2>3, <2>4, <2>5 DEF QueueFits
<1>12. RecentFits
  <2>1. Len(<<>>) = 0 /\ 1 .. 0 = {}
    OBVIOUS
  <2>2. \A c \in Controls : control[c] \notin Pending
    BY <1>1 DEF Pending
  <2> QED
    BY <1>1, <2>1, <2>2 DEF RecentFits
<1>13. JobsFit
  <2>1. \A x \in Jobs : /\ job[x] # "absent" => x = j
                        /\ job[x] # "lapsed"
    BY <1>1
  <2>2. Known(j)
    BY <1>1, <1>3, <1>4 DEF Known
  <2> QED
    BY <2>1, <2>2 DEF JobsFit
<1>14. AcknowledgedIsDone /\ SucceededMeansPassed
  BY <1>1 DEF AcknowledgedIsDone, SucceededMeansPassed
<1> QED
  BY <1>5, <1>7, <1>8, <1>9, <1>10, <1>11, <1>12, <1>13, <1>14 DEF IInv

LEMMA StutterInvariant == ASSUME IInv, UNCHANGED vars PROVE IInv'
<1>1. SameRows /\ worker' = worker /\ run' = run
  BY DEF vars, SameRows, runRow, plans, stages, ctl, jobs
<1>2. /\ RowShapes' /\ PlansFit' /\ QueueFits' /\ RecentFits' /\ JobsFit'
      /\ AcknowledgedIsDone' /\ SucceededMeansPassed' /\ Stays
  BY <1>1, RowsStay
<1>3. (Begun => Begun') /\ (AllPassed => AllPassed')
  BY <1>1 DEF SameRows, plans, stages, Begun, AllPassed, Attempt, P
<1>4. job' = job
  BY <1>1 DEF SameRows, jobs
<1> QED
  BY <1>1, <1>2, <1>3, <1>4, Bystander

LEMMA NextInvariant == ASSUME IInv, Next PROVE IInv'
<1>1. CASE \E c \in Controls : Request(c)
  BY <1>1, RequestInvariant
<1>2. CASE PlanContinuation \/ CommitContinuation
  BY <1>2, PlanContinuationInvariant, CommitContinuationInvariant
<1>3. CASE Look \/ Claim
  BY <1>3, LookInvariant, ClaimInvariant
<1>4. CASE Coordinate
  BY <1>4, ValidateInputsInvariant, StartExecutionInvariant, PreExecutionControlInvariant,
     BeginRunInvariant, EnsureRunAttemptInvariant, DecideCoordinatorInvariant,
     PlanStageAttemptInvariant, CompleteRunInvariant, CloseExecutionInvariant DEF Coordinate
<1>5. CASE Execute
  BY <1>5, LoadStageInvariant, BoundaryPauseInvariant, ExecuteStageInvariant, PauseRunInvariant
     DEF Execute
<1>6. CASE Commit
  BY <1>6, ReadRunInvariant, MoveInvariant, FinishRunInvariant, FinishRunAttemptsInvariant,
     TransitionStageAttemptInvariant, SettleControlInvariant, FinishExecutionInvariant,
     EnqueueInvariant, DeliverInvariant DEF Commit
<1>7. CASE Recovery
  BY <1>7, ScanInvariant, RecoverInvariant, RestoreTerminalInvariant, SettleDeliveryInvariant
     DEF Recovery
<1>8. CASE PollControls \/ PollFails \/ Lose
  BY <1>8, PollControlsInvariant, PollFailsInvariant, LoseInvariant
<1> QED
  BY <1>1, <1>2, <1>3, <1>4, <1>5, <1>6, <1>7, <1>8 DEF Next, Work

(* What the workers and the operators keep true.                           *)
LEMMA Invariant == Spec => []IInv
<1>1. Init => IInv
  BY InitInvariant
<1>2. IInv /\ [Next]_vars => IInv'
  BY NextInvariant, StutterInvariant
<1> QED
  BY <1>1, <1>2, PTL DEF Spec

-----------------------------------------------------------------------------
(* The theorems.                                                           *)

(* The rows, the worker and the lists of pending controls and queued jobs   *)
(* are as the store and the session keep them.                             *)
THEOREM ControlTypes == Spec => []TypeOK
<1>1. IInv => TypeOK
  <2> SUFFICES ASSUME IInv
               PROVE  TypeOK
    OBVIOUS
  <2>1. RowShapes /\ WorkerShapes /\ WorkerFits /\ RecentFits /\ QueueFits
    BY DEF IInv
  <2>2. ToSet(recent) = {c \in Controls : control[c] \in Pending}
    <3>1. PICK q : q = recent
      OBVIOUS
    <3>2. q \in Seq(Controls) /\ DOMAIN q = 1 .. Len(q)
      BY <2>1, <3>1 DEF RowShapes
    <3>3. \A i \in 1 .. Len(q) : q[i] \in Controls
      BY <3>2
    <3>4. \A c \in Controls : control[c] \in Pending <=> \E i \in 1 .. Len(q) : q[i] = c
      BY <2>1, <3>1 DEF RecentFits
    <3> QED
      BY <3>1, <3>2, <3>3, <3>4 DEF ToSet
  <2>3. ToSet(queue) = {j \in Jobs : job[j] = "queued"}
    <3>1. PICK q : q = queue
      OBVIOUS
    <3>2. q \in Seq(Jobs) /\ DOMAIN q = 1 .. Len(q)
      BY <2>1, <3>1 DEF RowShapes
    <3>3. \A i \in 1 .. Len(q) : q[i] \in Jobs
      BY <3>2
    <3>4. \A j \in Jobs : job[j] = "queued" <=> \E i \in 1 .. Len(q) : q[i] = j
      BY <2>1, <3>1 DEF QueueFits
    <3> QED
      BY <3>1, <3>2, <3>3, <3>4 DEF ToSet
  <2>4. worker.held \in Controls \cup {NoControl}
    BY <2>1 DEF WorkerFits
  <2> QED
    BY <2>1, <2>2, <2>3, <2>4 DEF TypeOK, RowShapes, WorkerShapes, WorkerFits
<1> QED
  BY <1>1, Invariant, PTL

(* What the runtime acknowledged it did: a terminate ended the Run until an *)
(* operator commits another continuation, a cancel_stage ended the attempt  *)
(* it addressed.                                                           *)
THEOREM ControlAcknowledgedIsDone == Spec => []AcknowledgedIsDone
<1>1. IInv => AcknowledgedIsDone
  BY DEF IInv
<1> QED
  BY <1>1, Invariant, PTL

(* A Run is completed only by a plan that was begun and whose stages passed *)
(* in their newest attempts, and no attempt that is still queued takes     *)
(* that back.                                                              *)
THEOREM ControlSucceededMeansPassed == Spec => []SucceededMeansPassed
<1>1. IInv => SucceededMeansPassed
  BY DEF IInv
<1> QED
  BY <1>1, Invariant, PTL

LEMMA WhoMovesTheRun ==
    ASSUME Next, run' # run
    PROVE  \/ \E c \in Controls : Request(c)
           \/ CommitContinuation \/ Move \/ FinishRun \/ ValidateInputs
<1>1. PlanContinuation => run' = run
  BY DEF PlanContinuation
<1>2. Look \/ Claim => run' = run
  BY DEF Look, Claim, runRow
<1>3. StartExecution \/ PreExecutionControl \/ BeginRun \/ EnsureRunAttempt => run' = run
  BY DEF StartExecution, PreExecutionControl, BeginRun, EnsureRunAttempt, runRow
<1>4. DecideCoordinator \/ PlanStageAttempt \/ CompleteRun \/ CloseExecution => run' = run
  BY DEF DecideCoordinator, PlanStageAttempt, CompleteRun, CloseExecution, runRow
<1>5. LoadStage \/ BoundaryPause \/ ExecuteStage \/ PauseRun => run' = run
  BY DEF LoadStage, BoundaryPause, ExecuteStage, PauseRun, runRow
<1>6. ReadRun \/ FinishRunAttempts \/ TransitionStageAttempt \/ SettleControl => run' = run
  BY DEF ReadRun, FinishRunAttempts, TransitionStageAttempt, SettleControl, runRow
<1>7. FinishExecution \/ Enqueue \/ Deliver => run' = run
  BY DEF FinishExecution, Enqueue, Deliver, runRow
<1>8. RestoreTerminal \/ SettleDelivery => run' = run
  BY DEF RestoreTerminal, SettleDelivery, runRow
<1>10. Scan => UNCHANGED runRow
  BY Zenon DEF Scan
<1>11. Recover => UNCHANGED runRow
  BY Zenon DEF Recover
<1>12. UNCHANGED runRow => run' = run
  BY DEF runRow
<1>9. PollControls \/ PollFails \/ Lose => run' = run
  BY DEF PollControls, PollFails, Lose, runRow
<1> QED
  BY <1>1, <1>2, <1>3, <1>4, <1>5, <1>6, <1>7, <1>8, <1>9, <1>10, <1>11, <1>12
     DEF Next, Work, Coordinate, Execute, Commit, Recovery

(* Nothing the worker still has queued or at hand moves a paused Run: only  *)
(* an operator's terminate, the commit of a continuation, or a coordinator  *)
(* of a continuation does.                                                 *)
THEOREM ControlPauseHolds == Spec => PauseHolds
<1> DEFINE Held == run = "paused" /\ run' # "paused" =>
          \/ run' = "cancel_requested"
          \/ Committed' > Committed
          \/ worker.phase = "handle" /\ worker.job \in Coordinators /\ P > 0
<1>1. ASSUME IInv, Next
      PROVE  Held
  <2> SUFFICES ASSUME run = "paused", run' # "paused"
               PROVE  \/ run' = "cancel_requested"
                      \/ Committed' > Committed
                      \/ worker.phase = "handle" /\ worker.job \in Coordinators /\ P > 0
    OBVIOUS
  <2>1. \/ \E c \in Controls : Request(c)
        \/ CommitContinuation \/ Move \/ FinishRun \/ ValidateInputs
    BY <1>1, WhoMovesTheRun
  <2>2. ASSUME NEW c \in Controls, Request(c)
        PROVE  run' = "cancel_requested"
    <3>1. Action[c] # "cancel_stage" /\ Requested(c) # "refused" /\ run' = Requested(c)
      BY <2>2 DEF Request, Requestable, SetRun, runRow
    <3> QED
      BY <3>1 DEF Requested
  <2>3. ASSUME CommitContinuation
        PROVE  Committed' > Committed
    <3>1. PICK p : p = Committed + 1
      OBVIOUS
    <3>2. draft # {} /\ plan' = [plan EXCEPT ![p] = draft]
      BY <2>3, <3>1 DEF CommitContinuation
    <3>3. Committed \in Nat /\ Committed < MaxContinuations
      BY <1>1, <3>2, Numbers DEF IInv, PlansFit
    <3>4. p \in Plans
      BY <3>1, <3>3, ControlAssumption DEF Plans
    <3>5. Committed' = p
      BY <1>1, <3>1, <3>2, <3>4, CommittedGrows DEF IInv, RowShapes
    <3> QED
      BY <3>1, <3>3, <3>5
  <2>4. ASSUME NEW k, At(k), ~Harmless(Left[1])
        PROVE  worker.phase = "handle" /\ worker.job \in Coordinators /\ P > 0
    BY <1>1, <2>4, NotHalted
  <2>5. ASSUME Move
        PROVE  worker.phase = "handle" /\ worker.job \in Coordinators /\ P > 0
    <3>1. At("move")
      BY <2>5 DEF Move
    <3>2. ~Harmless(Left[1])
      BY <1>1, <3>1, Acting DEF Harmless
    <3> QED
      BY <2>4, <3>1, <3>2
  <2>6. ASSUME FinishRun
        PROVE  worker.phase = "handle" /\ worker.job \in Coordinators /\ P > 0
    <3>1. At("finish") /\ (run' # run => run' = Arg(2) /\ ValidRunTransition(run, Arg(2)))
      BY <2>6 DEF FinishRun, SetRun, runRow
    <3>2. Left[1] \in Op /\ Left[1][1] = "finish" /\ Head(worker.plan) = Left[1]
      BY <1>1, <3>1, Acting
    <3>3. Arg(2) \in FinishTarget /\ Arg(2) = Left[1][2]
      BY <3>2, OpFacts DEF Arg
    <3>4. Arg(2) \in {"resume_requested", "cancel_requested", "canceled"}
      BY <3>1, ValidFrom
    <3>5. Left[1][2] = "canceled"
      BY <3>3, <3>4 DEF FinishTarget, FinishedRun
    <3>6. ~Harmless(Left[1])
      BY <3>2, <3>5 DEF Harmless
    <3> QED
      BY <2>4, <3>1, <3>6
  <2>7. ASSUME ValidateInputs
        PROVE  worker.phase = "handle" /\ worker.job \in Coordinators /\ P > 0
    <3>1. At("inputs")
      BY <2>7 DEF ValidateInputs
    <3>2. ~Harmless(Left[1])
      BY <1>1, <3>1, Acting DEF Harmless
    <3> QED
      BY <2>4, <3>1, <3>2
  <2> QED
    BY <2>1, <2>2, <2>3, <2>5, <2>6, <2>7
<1>2. UNCHANGED vars => Held
  BY DEF vars
<1>3. IInv /\ [Next]_vars => [Held]_vars
  BY <1>1, <1>2
<1> QED
  BY <1>3, Invariant, PTL DEF Spec, PauseHolds
=============================================================================
