---------------------------- MODULE QuotaManager ----------------------------
(***************************************************************************)
(* What one quota bucket promises: the in-memory manager of               *)
(* pkg/workflowkit/quota.go, which states the accounting rules without a   *)
(* database.  QuotaLedger shows that every account of the SQL ledger       *)
(* implements it.                                                          *)
(*                                                                         *)
(* Every call of the manager first expires what has lapsed                 *)
(* (expireLeasesLocked), so a lapsed lease is never seen active: here the  *)
(* clock itself expires it.                                                *)
(***************************************************************************)
EXTENDS Integers

CONSTANTS
    LeaseIDs,
    Events,       \* usage events
    MaxUnits,     \* the largest quantity a counter holds (math.MaxInt64)
    TTL           \* bound: the longest lifetime of a lease, in ticks

VARIABLES
    bucket,       \* limit, consumed, reserved, version; version 0: not installed
    lease,        \* lease[l]: the reservation l
    charged       \* charged[l]: the usage events recorded against l

vars == <<bucket, lease, charged>>

Status == {"none", "active", "expired", "uncertain", "settled"}
Policies == {"reclaim_unused", "never"}
canAdd(left, right) == left <= MaxUnits - right
available(b) == b.limit - b.consumed - b.reserved
remaining(l) == lease[l].reserved - lease[l].consumed - lease[l].released

Absent == [status |-> "none", policy |-> "reclaim_unused", left |-> 0,
           reserved |-> 0, consumed |-> 0, released |-> 0]

Init ==
    /\ bucket = [limit |-> 0, consumed |-> 0, reserved |-> 0, version |-> 0]
    /\ lease = [l \in LeaseIDs |-> Absent]
    /\ charged = [l \in LeaseIDs |-> {}]

\* A bucket is installed with its limit before it is first used.
Installed(limit) ==
    IF bucket.version = 0 THEN [bucket EXCEPT !.limit = limit, !.version = 1] ELSE bucket

Install(limit) ==
    /\ bucket' = Installed(limit)
    /\ UNCHANGED <<lease, charged>>

Reserve(l, units, policy, limit) ==
    /\ lease[l].status = "none"
    /\ units <= available(Installed(limit))
    /\ canAdd(bucket.reserved, units)
    /\ bucket' = [Installed(limit) EXCEPT !.reserved = @ + units, !.version = @ + 1]
    /\ lease' = [lease EXCEPT ![l] =
           [Absent EXCEPT !.status = "active", !.policy = policy, !.left = TTL, !.reserved = units]]
    /\ UNCHANGED charged

Charge(l, event, units) ==
    /\ event \notin charged[l]
    /\ lease[l].status = "active"
    /\ units <= remaining(l)
    /\ canAdd(bucket.consumed, units)
    /\ lease' = [lease EXCEPT ![l].consumed = @ + units]
    /\ bucket' = [bucket EXCEPT !.reserved = @ - units, !.consumed = @ + units, !.version = @ + 1]
    /\ charged' = [charged EXCEPT ![l] = @ \cup {event}]

Heartbeat(l) ==
    /\ lease[l].status = "active"
    /\ lease' = [lease EXCEPT ![l].left = TTL]
    /\ UNCHANGED <<bucket, charged>>

SettleUncertain(l) ==
    /\ lease[l].status = "active"
    /\ lease' = [lease EXCEPT ![l].status = "uncertain", ![l].left = 0]
    /\ UNCHANGED <<bucket, charged>>

\* A known outcome, direct or after reconciliation: what is left goes back
\* to the bucket or, under reclaim_never, is spent.
SettleKnown(l) ==
    /\ lease[l].status \in {"active", "expired", "uncertain"}
    /\ IF lease[l].policy = "never"
       THEN /\ canAdd(bucket.consumed, remaining(l))
            /\ lease' = [lease EXCEPT ![l].status = "settled", ![l].left = 0,
                                      ![l].consumed = @ + remaining(l)]
            /\ bucket' = [bucket EXCEPT !.reserved = @ - remaining(l),
                                        !.consumed = @ + remaining(l), !.version = @ + 1]
       ELSE /\ lease' = [lease EXCEPT ![l].status = "settled", ![l].left = 0,
                                      ![l].released = @ + remaining(l)]
            /\ bucket' = [bucket EXCEPT !.reserved = @ - remaining(l), !.version = @ + 1]
    /\ UNCHANGED charged

Grant(delta) ==
    /\ bucket.version > 0
    /\ canAdd(bucket.limit, delta)
    /\ bucket' = [bucket EXCEPT !.limit = @ + delta, !.version = @ + 1]
    /\ UNCHANGED <<lease, charged>>

Tick ==
    /\ lease' = [l \in LeaseIDs |->
          IF lease[l].status # "active" THEN lease[l]
          ELSE IF lease[l].left <= 1 THEN [lease[l] EXCEPT !.status = "expired", !.left = 0]
          ELSE [lease[l] EXCEPT !.left = @ - 1]]
    /\ UNCHANGED <<bucket, charged>>

Next ==
    \/ \E n \in 0 .. MaxUnits : Install(n)
    \/ \E n \in 1 .. MaxUnits : Grant(n)
    \/ \E l \in LeaseIDs :
          \/ \E n \in 1 .. MaxUnits, policy \in Policies, limit \in 0 .. MaxUnits :
                 Reserve(l, n, policy, limit)
          \/ \E n \in 1 .. MaxUnits, event \in Events : Charge(l, event, n)
          \/ Heartbeat(l) \/ SettleUncertain(l) \/ SettleKnown(l)
    \/ Tick

Spec == Init /\ [][Next]_vars
=============================================================================
