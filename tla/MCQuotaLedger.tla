---------------------------- MODULE MCQuotaLedger ----------------------------
(* A stage admitted to a task account and to its actor's account, and a    *)
(* second reservation in the actor's account, which can afford one of both.*)
EXTENDS QuotaLedger, TLC
CONSTANTS stage, direct, task, actor
MCDimension == [a \in {task, actor} |-> "stage_attempt"]
MCScopes == {{task}, {actor}}
MCClaims == stage :> {task, actor} @@ direct :> {actor}
MCUnits == stage :> 2 @@ direct :> 1
MCPolicy == stage :> "reclaim_unused" @@ direct :> "never"
MCPolicyLimit == [j \in {stage, direct} |-> 2]
MCCost == [e \in {"use"} |-> 1]
=============================================================================
