----------------------------- MODULE QuotaLedger -----------------------------
(***************************************************************************)
(* The durable quota ledger (internal/harbor/store/v5_quota.go,            *)
(* v5_quota_batch.go) as the frozen runtime and the owner use it: an       *)
(* admission reserves the claims of a stage in its task account and in its *)
(* actor account, the executor charges, renews and settles the pair, the   *)
(* recovery of a lost execution closes it, the owner raises limits.        *)
(*                                                                         *)
(* A job reserves at most one lease per account, so a lease is a pair      *)
(* <<job, account>>; its fencing token never changes and every caller      *)
(* copies it from the row, so tokens are left out.  `left' counts the      *)
(* ticks before expires_at; expiry alone never returns units.              *)
(***************************************************************************)
EXTENDS Integers, FiniteSetsExt

CONSTANTS
    Jobs,
    Direct,        \* jobs that reserve with ReserveQuota instead of an admission
    Accounts,
    Dimension,     \* Dimension[a]: what account a counts
    Scopes,        \* the account sets of one task or one actor
    Claims,        \* Claims[j]: the accounts in which j reserves
    Units,         \* Units[j]: the units it claims in each of them
    Policy,        \* Policy[j]: its reclaim policy
    PolicyLimit,   \* PolicyLimit[j]: the account limit its frozen policy asks for
    Events,        \* usage events of one stage
    Cost,          \* Cost[e]: the units of usage event e
    Recoverers,    \* processes that reconcile lost executions
    Grants,        \* budget grants of the owner
    Delta,         \* the units of a grant
    Opening,       \* limits an operator opens accounts with
    MaxUnits,      \* 2^63 - 1 in the code
    TTL,
    NoJob, NoAccount

Leases == {p \in Jobs \X Accounts : p[2] \in Claims[p[1]]}
Policies == {"reclaim_unused", "never"}

ASSUME QuotaAssumption ==
    /\ MaxUnits \in Nat /\ TTL \in Nat \ {0} /\ Delta \in 1 .. MaxUnits
    /\ Opening \subseteq 0 .. MaxUnits
    /\ IsFiniteSet(Jobs) /\ Direct \subseteq Jobs
    /\ Claims \in [Jobs -> SUBSET Accounts]
    /\ \A j \in Direct : \A a, b \in Claims[j] : a = b
    /\ Scopes \subseteq SUBSET Accounts
    /\ Units \in [Jobs -> 1 .. MaxUnits] /\ PolicyLimit \in [Jobs -> 1 .. MaxUnits]
    /\ Policy \in [Jobs -> Policies] /\ Cost \in [Events -> 1 .. MaxUnits]
    /\ NoJob \notin Jobs /\ NoAccount \notin Accounts

VARIABLES
    account,     \* account[a]: the quota_accounts_v5 row and its policy binding
    lease,       \* lease[<<j, a>>]: the quota_leases_v5 row
    usage,       \* usage[<<j, a>>]: the usage events recorded
    rows,        \* rows[<<j, a>>]: the idempotency keys of its settlements
    decision,    \* decision[j]: the admission decision
    fence,       \* fence[j]: the dispatch lease of the execution of j; "withheld":
                 \* lost, and a control of its Run stays reconcile_required
    doubt,       \* doubt[j]: an external effect of j may have happened
    recovery,    \* recovery[r]: what recoverer r has read
    grant        \* grant[g]: what the owner asked for

vars == <<account, lease, usage, rows, decision, fence, doubt, recovery, grant>>

LeaseState == {"none", "active", "expired", "uncertain", "settled"}

(* The settlement keys: the executor's, one per outcome (stage-settlement),*)
(* and the recovery's (stage-lease-loss-uncertain, -canceled).             *)
DirectKeys == {"completed", "canceled", "uncertain", "loss_uncertain"}
UncertainKeys == {"uncertain", "loss_uncertain"}
Keys == DirectKeys \cup {"loss_canceled"}

Account == [exists : BOOLEAN, limit : 0 .. MaxUnits, initial : 0 .. MaxUnits,
            consumed : 0 .. MaxUnits, reserved : 0 .. MaxUnits, version : Nat]
Lease == [state : LeaseState, left : 0 .. TTL, reserved : 0 .. MaxUnits,
          consumed : 0 .. MaxUnits, released : 0 .. MaxUnits]
Recovery == [job : Jobs \cup {NoJob}, step : {"idle", "read", "mark", "close"},
             batch : SUBSET Leases]
NoLease == [state |-> "none", left |-> 0, reserved |-> 0, consumed |-> 0, released |-> 0]
Idle == [job |-> NoJob, step |-> "idle", batch |-> {}]

TypeOK ==
    /\ account \in [Accounts -> Account]
    /\ lease \in [Leases -> Lease]
    /\ usage \in [Leases -> SUBSET Events]
    /\ rows \in [Leases -> SUBSET Keys]
    /\ decision \in [Jobs -> {"none", "accepted", "quota_exhausted"}]
    /\ fence \in [Jobs -> {"held", "delivered", "lost", "withheld"}]
    /\ doubt \in [Jobs -> BOOLEAN]
    /\ recovery \in [Recoverers -> Recovery]
    /\ grant \in [Grants -> [account : Accounts \cup {NoAccount}, expected : Nat, applied : BOOLEAN]]

Init ==
    /\ account = [a \in Accounts |-> [exists |-> FALSE, limit |-> 0, initial |-> 0,
                                      consumed |-> 0, reserved |-> 0, version |-> 0]]
    /\ lease = [p \in Leases |-> NoLease]
    /\ usage = [p \in Leases |-> {}]
    /\ rows = [p \in Leases |-> {}]
    /\ decision = [j \in Jobs |-> "none"]
    /\ fence = [j \in Jobs |-> "held"]     \* the jobs have been claimed
    /\ doubt = [j \in Jobs |-> FALSE]
    /\ recovery = [r \in Recoverers |-> Idle]
    /\ grant = [g \in Grants |-> [account |-> NoAccount, expected |-> 0, applied |-> FALSE]]

Of(j) == {p \in Leases : p[1] = j}
Available(row) == row.limit - row.consumed - row.reserved
Remaining(p) == lease[p].reserved - lease[p].consumed - lease[p].released

-----------------------------------------------------------------------------
(* Accounts: configured by an operator, or bootstrapped from the policy    *)
(* frozen with the first Run that needs them (initial = 0: not bound).     *)

Opened(limit, initial) ==
    [exists |-> TRUE, limit |-> limit, initial |-> initial,
     consumed |-> 0, reserved |-> 0, version |-> 1]

CreateQuotaAccount(a, limit) ==
    /\ ~account[a].exists
    /\ account' = [account EXCEPT ![a] = Opened(limit, 0)]
    /\ UNCHANGED <<lease, usage, rows, decision, fence, doubt, recovery, grant>>

\* ensureQuotaAccountFromPolicyTx: create, adopt at the exact limit, or find
\* the binding of this limit; anything else is a mismatch and an error.
PolicyFits(a, limit) ==
    \/ ~account[a].exists
    \/ account[a].initial = 0 /\ account[a].limit = limit
    \/ account[a].initial # 0 /\ limit \in {account[a].initial, account[a].limit}

Ensured(a, limit) ==
    IF ~account[a].exists THEN Opened(limit, limit)
    ELSE IF account[a].initial = 0 THEN [account[a] EXCEPT !.initial = limit]
    ELSE account[a]

Charged(row, units) == [row EXCEPT !.reserved = @ + units, !.version = @ + 1]
Reserved(units) == [NoLease EXCEPT !.state = "active", !.left = TTL, !.reserved = units]

Admissible(j) == \A a \in Claims[j] : Available(Ensured(a, PolicyLimit[j])) >= Units[j]

\* All leases or none; a refusal is recorded too, and a repeated call finds
\* the decision.
AdmitTaskActorQuota(j) ==
    /\ j \notin Direct
    /\ fence[j] = "held"
    /\ decision[j] = "none"
    /\ \A a \in Claims[j] : PolicyFits(a, PolicyLimit[j])
    /\ decision' = [decision EXCEPT ![j] =
           IF Admissible(j) THEN "accepted" ELSE "quota_exhausted"]
    /\ account' = [a \in Accounts |->
           IF a \notin Claims[j] THEN account[a]
           ELSE IF Admissible(j) THEN Charged(Ensured(a, PolicyLimit[j]), Units[j])
           ELSE Ensured(a, PolicyLimit[j])]
    /\ lease' = [p \in Leases |->
           IF p \in Of(j) /\ Admissible(j) THEN Reserved(Units[j]) ELSE lease[p]]
    /\ UNCHANGED <<usage, rows, fence, doubt, recovery, grant>>

\* One lease in one existing account; refused without a trace.
ReserveQuota(j) ==
    /\ j \in Direct
    /\ fence[j] = "held"
    /\ decision[j] = "none"
    /\ \A a \in Claims[j] : account[a].exists /\ Available(account[a]) >= Units[j]
    /\ decision' = [decision EXCEPT ![j] = "accepted"]
    /\ account' = [a \in Accounts |->
           IF a \in Claims[j] THEN Charged(account[a], Units[j]) ELSE account[a]]
    /\ lease' = [p \in Leases |-> IF p \in Of(j) THEN Reserved(Units[j]) ELSE lease[p]]
    /\ UNCHANGED <<usage, rows, fence, doubt, recovery, grant>>

-----------------------------------------------------------------------------
(* Every batch validates all its leases before it changes any: an unusable *)
(* state rolls the whole batch back, a lapsed lease is marked expired, the *)
(* mark is committed and the batch refused.                                *)

Executing(j) == fence[j] = "held" /\ decision[j] = "accepted"
Lapsed(p) == lease[p].state = "active" /\ lease[p].left = 0
Overdue(S) == {p \in S : Lapsed(p) \/ lease[p].state = "expired"}
MarkedExpired(S) ==
    [p \in Leases |-> IF p \in S /\ Lapsed(p) THEN [lease[p] EXCEPT !.state = "expired"]
                      ELSE lease[p]]

ObservesExpiry(S) ==
    /\ lease' = MarkedExpired(S)
    /\ UNCHANGED <<account, usage, rows>>

\* Mutant: a usage event delivered again is charged again.
Mut_ChargeFresh(S, e) == S

ChargeFresh(S, e) == {p \in S : e \notin usage[p]}

Spent(row, units) ==
    [row EXCEPT !.reserved = @ - units, !.consumed = @ + units, !.version = @ + 1]

ChargeBatch(j, S, e) ==
    LET Fresh == ChargeFresh(S, e)
    IN  /\ Fresh # {}                         \* else a replay
        /\ \A p \in Fresh : lease[p].state \in {"active", "expired"}
        /\ IF Overdue(Fresh) # {} THEN ObservesExpiry(Fresh)
           ELSE /\ \A p \in Fresh : Cost[e] <= Remaining(p) /\ Cost[e] <= account[p[2]].reserved
                /\ account' = [a \in Accounts |->
                       IF <<j, a>> \in Fresh THEN Spent(account[a], Cost[e]) ELSE account[a]]
                /\ lease' = [p \in Leases |->
                       IF p \in Fresh THEN [lease[p] EXCEPT !.consumed = @ + Cost[e]] ELSE lease[p]]
                /\ usage' = [p \in Leases |-> IF p \in Fresh THEN usage[p] \cup {e} ELSE usage[p]]
                /\ UNCHANGED rows

HeartbeatBatch(S) ==
    /\ \A p \in S : lease[p].state \in {"active", "expired"}
    /\ IF Overdue(S) # {} THEN ObservesExpiry(S)
       ELSE /\ lease' = [p \in Leases |->
                   IF p \in S THEN [lease[p] EXCEPT !.left = TTL] ELSE lease[p]]
            /\ UNCHANGED <<account, usage, rows>>

\* A usage event of one dimension charges the task's and the actor's lease.
RecordQuotaUsages(j, e) ==
    /\ Executing(j) /\ j \notin Direct
    /\ \E d \in {Dimension[a] : a \in Claims[j]} :
          ChargeBatch(j, {p \in Of(j) : Dimension[p[2]] = d}, e)
    /\ UNCHANGED <<decision, fence, doubt, recovery, grant>>

HeartbeatQuotaLeases(j) ==
    /\ Executing(j) /\ j \notin Direct
    /\ HeartbeatBatch(Of(j))
    /\ UNCHANGED <<decision, fence, doubt, recovery, grant>>

\* The single-lease calls are batches of one.
RecordQuotaUsage(j, e) ==
    /\ Executing(j) /\ j \in Direct
    /\ \E p \in Of(j) : ChargeBatch(j, {p}, e)
    /\ UNCHANGED <<decision, fence, doubt, recovery, grant>>

HeartbeatQuotaLease(j) ==
    /\ Executing(j) /\ j \in Direct
    /\ \E p \in Of(j) : HeartbeatBatch({p})
    /\ UNCHANGED <<decision, fence, doubt, recovery, grant>>

\* ExpireQuotaLeases(ForScope): the operator's reconcile, no fence.
ExpireQuotaLeases(S) ==
    /\ \E p \in Leases : p[2] \in S /\ Lapsed(p)
    /\ lease' = MarkedExpired({p \in Leases : p[2] \in S})
    /\ UNCHANGED <<account, usage, rows, decision, fence, doubt, recovery, grant>>

-----------------------------------------------------------------------------
(* Settlement of a batch under one idempotency key per lease.              *)

SettleFresh(S, key) == {p \in S : key \notin rows[p]}

\* Mutant: only uncertain reservations are reconciled, not expired ones.
Mut_Acceptable(p, key) ==
    lease[p].state \in IF key \in DirectKeys THEN {"active", "expired"} ELSE {"uncertain"}

\* Mutant: a settled reservation still takes another settlement key.
Mut_AcceptsSettled(p, key) ==
    lease[p].state \in
        IF key \in DirectKeys THEN {"active", "expired", "settled"} ELSE {"expired", "uncertain"}

Acceptable(p, key) ==
    lease[p].state \in
        IF key \in DirectKeys THEN {"active", "expired"} ELSE {"expired", "uncertain"}

Refused(S, key) ==
    \/ \E p \in SettleFresh(S, key) : ~Acceptable(p, key)
    \/ /\ key \notin DirectKeys \/ Overdue(SettleFresh(S, key)) = {}
       /\ key \notin UncertainKeys
       /\ \E p \in SettleFresh(S, key) : account[p[2]].reserved < Remaining(p)

Closed(p, key) ==
    IF key \in UncertainKeys
    THEN [lease[p] EXCEPT !.state = "uncertain", !.left = 0]
    ELSE IF Policy[p[1]] = "never"
    THEN [lease[p] EXCEPT !.state = "settled", !.left = 0, !.consumed = @ + Remaining(p)]
    ELSE [lease[p] EXCEPT !.state = "settled", !.left = 0, !.released = @ + Remaining(p)]

\* Mutant: the account of a reclaim-never lease keeps its consumption.
Mut_Balanced(p, key) == [account[p[2]] EXCEPT !.reserved = @ - Remaining(p), !.version = @ + 1]

Balanced(p, key) ==
    IF key \in UncertainKeys THEN account[p[2]]
    ELSE [account[p[2]] EXCEPT
             !.reserved = @ - Remaining(p),
             !.consumed = IF Policy[p[1]] = "never" THEN @ + Remaining(p) ELSE @,
             !.version = @ + 1]

\* applyPreparedQuotaSettlementBatch, unless it is Refused.
SettleBatch(j, S, key) ==
    LET Fresh == SettleFresh(S, key)
    IN  IF key \in DirectKeys /\ Overdue(Fresh) # {} THEN ObservesExpiry(Fresh)
        ELSE /\ lease' = [p \in Leases |-> IF p \in Fresh THEN Closed(p, key) ELSE lease[p]]
             /\ account' = [a \in Accounts |->
                    IF <<j, a>> \in Fresh THEN Balanced(<<j, a>>, key) ELSE account[a]]
             /\ rows' = [p \in Leases |-> IF p \in S THEN rows[p] \cup {key} ELSE rows[p]]
             /\ UNCHANGED usage

\* settleStageQuota at the stage's projection, with whatever outcome it has,
\* and again when the reply was lost.
SettleQuotaLeases(j, key) ==
    /\ Executing(j) /\ j \notin Direct
    /\ key \in DirectKeys \ {"loss_uncertain"}
    /\ SettleFresh(Of(j), key) # {} /\ ~Refused(Of(j), key)
    /\ SettleBatch(j, Of(j), key)
    /\ UNCHANGED <<decision, fence, doubt, recovery, grant>>

SettleQuotaLease(j, key) ==
    /\ Executing(j) /\ j \in Direct
    /\ \E p \in Of(j) : /\ SettleFresh({p}, key) # {} /\ ~Refused({p}, key)
                        /\ SettleBatch(j, {p}, key)
    /\ UNCHANGED <<decision, fence, doubt, recovery, grant>>

-----------------------------------------------------------------------------
(* The execution ends: its job is delivered, or its dispatch lease lapses  *)
(* and a scan declares the loss; from then on the fence refuses it.        *)
Deliver(j) ==
    /\ fence[j] = "held"
    /\ fence' = [fence EXCEPT ![j] = "delivered"]
    /\ UNCHANGED <<account, lease, usage, rows, decision, doubt, recovery, grant>>

\* The scan that declares a loss marks the open controls of the Run too.
Lose(j, unknown) ==
    /\ fence[j] = "held" /\ j \notin Direct
    /\ \E state \in {"lost", "withheld"} : fence' = [fence EXCEPT ![j] = state]
    /\ doubt' = [doubt EXCEPT ![j] = unknown]
    /\ UNCHANGED <<account, lease, usage, rows, decision, recovery, grant>>

\* A control of the Run becomes reconcile_required after the loss, and stays
\* so: the code has no transition out of it.
Withhold(j) ==
    /\ fence[j] = "lost"
    /\ fence' = [fence EXCEPT ![j] = "withheld"]
    /\ UNCHANGED <<account, lease, usage, rows, decision, doubt, recovery, grant>>

\* A domain reconciliation resolved the external effect.
ResolveEffect(j) ==
    /\ doubt[j]
    /\ doubt' = [doubt EXCEPT ![j] = FALSE]
    /\ UNCHANGED <<account, lease, usage, rows, decision, fence, recovery, grant>>

\* reconcileLeaseLostStageQuota: read, mark the active ones uncertain, read
\* again until none is active; then close what is left unless an effect is
\* in doubt.  Several processes may do so at once; none begins while a control
\* of the Run is reconcile_required.
Active(j) == {p \in Of(j) : lease[p].state = "active"}
Unsettled(j) == {p \in Of(j) : lease[p].state \in {"expired", "uncertain"}}

BeginRecovery(r, j) ==
    /\ recovery[r] = Idle
    /\ fence[j] = "lost" /\ decision[j] # "none"
    /\ Active(j) \cup (IF doubt[j] THEN {} ELSE Unsettled(j)) # {}  \* else nothing to do
    /\ recovery' = [recovery EXCEPT ![r] = [job |-> j, step |-> "read", batch |-> {}]]
    /\ UNCHANGED <<account, lease, usage, rows, decision, fence, doubt, grant>>

NextRead(j) ==
    IF Active(j) # {} THEN [job |-> j, step |-> "mark", batch |-> Active(j)]
    ELSE IF doubt[j] \/ Unsettled(j) = {} THEN Idle
    ELSE [job |-> j, step |-> "close", batch |-> Unsettled(j)]

ReadLeases(r) ==
    /\ recovery[r].step = "read"
    /\ recovery' = [recovery EXCEPT ![r] = NextRead(@.job)]
    /\ UNCHANGED <<account, lease, usage, rows, decision, fence, doubt, grant>>

MarkUncertain(r) ==
    LET j == recovery[r].job  S == recovery[r].batch
    IN  /\ recovery[r].step = "mark"
        /\ IF Refused(S, "loss_uncertain")
           THEN recovery' = [recovery EXCEPT ![r] = Idle] /\ UNCHANGED <<account, lease, usage, rows>>
           ELSE /\ SettleBatch(j, S, "loss_uncertain")
                /\ recovery' = [recovery EXCEPT ![r].step = "read", ![r].batch = {}]
        /\ UNCHANGED <<decision, fence, doubt, grant>>

CloseCanceled(r) ==
    LET j == recovery[r].job  S == recovery[r].batch
    IN  /\ recovery[r].step = "close"
        /\ recovery' = [recovery EXCEPT ![r] = Idle]
        /\ IF Refused(S, "loss_canceled") THEN UNCHANGED <<account, lease, usage, rows>>
           ELSE SettleBatch(j, S, "loss_canceled")
        /\ UNCHANGED <<decision, fence, doubt, grant>>

RecovererDies(r) ==
    /\ recovery[r] # Idle
    /\ recovery' = [recovery EXCEPT ![r] = Idle]
    /\ UNCHANGED <<account, lease, usage, rows, decision, fence, doubt, grant>>

-----------------------------------------------------------------------------
(* The owner reads an account, decides, and grants under the version read; *)
(* the call may be repeated when its reply was lost.                       *)
AskForGrant(g, a) ==
    /\ grant[g].account = NoAccount
    /\ account[a].exists
    /\ grant' = [grant EXCEPT ![g] = [account |-> a, expected |-> account[a].version, applied |-> FALSE]]
    /\ UNCHANGED <<account, lease, usage, rows, decision, fence, doubt, recovery>>

Grantable(a, expected) ==
    account[a].version = expected /\ account[a].limit <= MaxUnits - Delta

GrantQuota(g) ==
    LET a == grant[g].account
    IN  /\ a # NoAccount
        /\ ~grant[g].applied
        /\ Grantable(a, grant[g].expected)
        /\ account' = [account EXCEPT ![a].limit = @ + Delta, ![a].version = @ + 1]
        /\ grant' = [grant EXCEPT ![g].applied = TRUE]
        /\ UNCHANGED <<lease, usage, rows, decision, fence, doubt, recovery>>

Tick ==
    /\ \E p \in Leases : lease[p].left > 0
    /\ lease' = [p \in Leases |->
           IF lease[p].left > 0 THEN [lease[p] EXCEPT !.left = @ - 1] ELSE lease[p]]
    /\ UNCHANGED <<account, usage, rows, decision, fence, doubt, recovery, grant>>

Recover(r) ==
    ReadLeases(r) \/ MarkUncertain(r) \/ CloseCanceled(r) \/ \E j \in Jobs : BeginRecovery(r, j)

Next ==
    \/ \E a \in Accounts, n \in Opening : CreateQuotaAccount(a, n)
    \/ \E j \in Jobs :
          \/ AdmitTaskActorQuota(j) \/ ReserveQuota(j)
          \/ \E e \in Events : RecordQuotaUsages(j, e) \/ RecordQuotaUsage(j, e)
          \/ HeartbeatQuotaLeases(j) \/ HeartbeatQuotaLease(j)
          \/ \E key \in Keys : SettleQuotaLeases(j, key) \/ SettleQuotaLease(j, key)
          \/ Deliver(j) \/ \E unknown \in BOOLEAN : Lose(j, unknown)
          \/ Withhold(j) \/ ResolveEffect(j)
    \/ \E S \in Scopes : ExpireQuotaLeases(S)
    \/ \E r \in Recoverers : Recover(r) \/ RecovererDies(r)
    \/ \E g \in Grants : GrantQuota(g) \/ \E a \in Accounts : AskForGrant(g, a)
    \/ Tick

Spec == Init /\ [][Next]_vars

-----------------------------------------------------------------------------
(* No order of admissions, charges, losses, settlements and grants spends  *)
(* or promises more than an account's limit, and no sum leaves int64.      *)
WithinLimit ==
    \A a \in Accounts : account[a].consumed + account[a].reserved <= account[a].limit

(* The projections of an account are the sums over its leases, and what one *)
(* stage consumed is the same in its task account and in its actor account, *)
(* settled together: no unit is lost by a batch one half of which had       *)
(* lapsed, freed twice by a late settlement, or spent twice by a retry; so  *)
(* the `projection is invalid' errors cannot occur, and what the leases     *)
(* hold together stays within the limit.                                    *)
In(a) == {p \in Leases : p[2] = a}
Consumption == [p \in Leases |-> lease[p].consumed]
Holding == [p \in Leases |-> Remaining(p)]
ProjectionsAreSums ==
    \A a \in Accounts :
        /\ account[a].consumed = SumFunctionOnSet(Consumption, In(a))
        /\ account[a].reserved = SumFunctionOnSet(Holding, In(a))
HalvesAgree ==
    \A j \in Jobs : \A p, q \in Of(j) :
        /\ lease[p].state = "settled" => lease[q].state = "settled"
        /\ Dimension[p[2]] = Dimension[q[2]] => lease[p].consumed = lease[q].consumed
AccountMatchesLeases == WithinLimit /\ ProjectionsAreSums /\ HalvesAgree

(* A settled lease is closed for good: a late usage event, a second         *)
(* settlement with another outcome, or a recovery that read it before it    *)
(* was settled, changes nothing of it.                                      *)
SettledIsFinal ==
    [][\A p \in Leases : lease[p].state = "settled" => lease'[p] = lease[p] /\ usage'[p] = usage[p]]_vars

(* Every account implements the manager of pkg/workflowkit: the batches,   *)
(* replays, deferred expiry and recovery add nothing to its rules.         *)
Bucket(a) == [limit |-> account[a].limit, consumed |-> account[a].consumed,
              reserved |-> account[a].reserved, version |-> account[a].version]
Row(p) == [status |-> IF Lapsed(p) THEN "expired" ELSE lease[p].state,
           policy |-> IF lease[p].state = "none" THEN "reclaim_unused" ELSE Policy[p[1]],
           left |-> lease[p].left, reserved |-> lease[p].reserved,
           consumed |-> lease[p].consumed, released |-> lease[p].released]
Manager(a) == INSTANCE QuotaManager WITH
    LeaseIDs <- In(a),
    bucket <- Bucket(a),
    lease <- [p \in In(a) |-> Row(p)],
    charged <- [p \in In(a) |-> usage[p]]
ImplementsManager ==
    /\ \A a \in Accounts : Manager(a)!Init
    /\ [][\A a \in Accounts : [Manager(a)!Next]_(Manager(a)!vars)]_vars

(* Somebody reconciles again as long as there is something to reconcile,   *)
(* and not every pass is cut off.  No process of the program promises it:  *)
(* a pass is made by a session of the Run or by an operator's command.     *)
ReconcilersReturn ==
    \A r \in Recoverers :
        /\ SF_vars(ReadLeases(r)) /\ SF_vars(MarkUncertain(r)) /\ SF_vars(CloseCanceled(r))
        /\ WF_vars(Recover(r))

(* If reconcilers return, the reservation of a lost execution does not     *)
(* stay reserved, whatever two of them do to each other's batches; unless  *)
(* an external effect stays in doubt or a control is to be reconciled.     *)
LostReservationIsClosed ==
    ReconcilersReturn =>
        \A j \in Jobs :
            (fence[j] = "lost" /\ decision[j] = "accepted")
                ~> \/ doubt[j] \/ fence[j] = "withheld"
                   \/ \A p \in Of(j) : lease[p].state = "settled"
=============================================================================
