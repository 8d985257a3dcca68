---------------------------- MODULE JobDelivery ----------------------------
(***************************************************************************)
(* What the durable job queue promises: a job is handed to one worker at   *)
(* most, its effects and its outcome are written by that worker while it   *)
(* still has authority, and once the delivery is declared lost nothing     *)
(* that worker does can reach the job any more.                            *)
(***************************************************************************)
EXTENDS Naturals

CONSTANTS
    Jobs, Workers,
    Nobody,      \* the authority over a job nobody may act for
    Outcomes     \* the delivery-final states a handler may ask for

VARIABLES
    stage,       \* stage[j]: how far the delivery of j has come
    authority,   \* authority[j]: the worker that may write for j
    effects      \* effects[j]: how many writes the handler of j has made

vars == <<stage, authority, effects>>

Init ==
    /\ stage = [j \in Jobs |-> "absent"]
    /\ authority = [j \in Jobs |-> Nobody]
    /\ effects = [j \in Jobs |-> 0]

Submit(j) ==
    /\ stage[j] = "absent"
    /\ stage' = [stage EXCEPT ![j] = "queued"]
    /\ UNCHANGED <<authority, effects>>

Deliver(j, w) ==
    /\ stage[j] = "queued"
    /\ stage' = [stage EXCEPT ![j] = "running"]
    /\ authority' = [authority EXCEPT ![j] = w]
    /\ UNCHANGED effects

Write(j) ==
    /\ authority[j] # Nobody
    /\ effects' = [effects EXCEPT ![j] = @ + 1]
    /\ UNCHANGED <<stage, authority>>

Finish(j, outcome) ==
    /\ authority[j] # Nobody
    /\ stage' = [stage EXCEPT ![j] = outcome]
    /\ authority' = [authority EXCEPT ![j] = Nobody]
    /\ UNCHANGED effects

\* Authority lapses with time, for any number of jobs at once, never to return.
Lapse(S) ==
    /\ authority' = [j \in Jobs |-> IF j \in S THEN Nobody ELSE authority[j]]
    /\ UNCHANGED <<stage, effects>>

\* Only a running delivery without authority can be declared lost.
DeclareLost(S) ==
    /\ \A j \in S : authority[j] = Nobody
    /\ stage' = [j \in Jobs |->
                   IF j \in S /\ stage[j] = "running" THEN "lost" ELSE stage[j]]
    /\ UNCHANGED <<authority, effects>>

Settle(j) ==
    /\ stage[j] = "lost"
    /\ stage' = [stage EXCEPT ![j] = "interrupted"]
    /\ UNCHANGED <<authority, effects>>

Next ==
    \/ \E j \in Jobs :
          \/ Submit(j) \/ Write(j) \/ Settle(j)
          \/ \E w \in Workers : Deliver(j, w)
          \/ \E outcome \in Outcomes : Finish(j, outcome)
    \/ \E S \in SUBSET Jobs : Lapse(S) \/ DeclareLost(S)

Spec == Init /\ [][Next]_vars
=============================================================================
