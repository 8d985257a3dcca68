----------------------------- MODULE LeaseTable -----------------------------
(***************************************************************************)
(* The generic lease rows of the SQLite control plane and the supervisors  *)
(* that hold them (internal/harbor/store/v2_jobs.go, the run-worker lease  *)
(* of internal/app/run_worker_session.go, the versioned heartbeat loop of  *)
(* internal/app/lease_heartbeat.go).                                       *)
(*                                                                         *)
(* Each store call is one SQLite transaction, hence one action.  What a    *)
(* supervisor knows is the copy of the row it last read; between the       *)
(* moment it decides to renew and the moment the transaction runs, and     *)
(* between a commit and its acknowledgement, anything may happen.          *)
(*                                                                         *)
(* Time is relative: `left' is the number of ticks before expires_at, and  *)
(* left = 0 is the code's "not ExpiresAt.After(now)".  Store and workers   *)
(* read the clock of one host, so a tick reaches every copy at once.       *)
(* The names of supervisors, variables and the specification are this      *)
(* module's own, so that it can be extended together with RunActivation.   *)
(***************************************************************************)
EXTENDS Naturals, Sequences

CONSTANTS
    Supervisors,  \* supervisor processes, each with an owner name of its own
    Resources,    \* lease resources: (resource_type, resource_id)
    NoLease,      \* the copy of a process that holds nothing
    TTL,          \* lease lifetime in ticks
    MaxGrants,    \* bound: lease rows per resource
    MaxVersion    \* bound: versions of one row

\* What a process remembers of a row.
Copy == [resource : Resources, token : Nat \ {0}, left : 0 .. TTL, version : Nat]

ASSUME LeaseAssumption ==
    /\ TTL \in Nat \ {0}
    /\ MaxGrants \in Nat
    /\ MaxVersion \in Nat
    /\ NoLease \notin Copy

VARIABLES
    rows,   \* rows[r]: the lease rows of r, oldest first; never deleted
    copy,   \* copy[w]: the row as w last saw it
    phase   \* where w's heartbeat goroutine is

leaseVars == <<rows, copy, phase>>

LeaseState == {"active", "expired", "released"}
Lease == [owner : Supervisors, left : 0 .. TTL, state : LeaseState, version : Nat]
Phase == {"idle", "holding", "calling", "reloading", "lost"}

LeaseTypeOK ==
    /\ rows \in [Resources -> Seq(Lease)]
    /\ copy \in [Supervisors -> Copy \cup {NoLease}]
    /\ phase \in [Supervisors -> Phase]
    /\ \A w \in Supervisors : phase[w] = "idle" <=> copy[w] = NoLease

LeaseInit ==
    /\ rows = [r \in Resources |-> << >>]
    /\ copy = [w \in Supervisors |-> NoLease]
    /\ phase = [w \in Supervisors |-> "idle"]

-----------------------------------------------------------------------------
(* Reading the table.  The fencing token of a row is MAX(token) + 1 at the *)
(* time of its insertion; rows are never deleted, so it is its position.   *)

Unexpired(row) == row.left > 0
ActiveTokens(r) == {t \in DOMAIN rows[r] : rows[r][t].state = "active"}

HeldUnexpired(r) == \E t \in ActiveTokens(r) : Unexpired(rows[r][t])
RowOf(w) == rows[copy[w].resource][copy[w].token]
CopyOf(r, t, row) == [resource |-> r, token |-> t, left |-> row.left, version |-> row.version]

Expired(row) == [row EXCEPT !.state = "expired", !.version = @ + 1]
Renewed(row) == [row EXCEPT !.left = TTL, !.version = @ + 1]

ExpireActive(r) ==
    [t \in DOMAIN rows[r] |-> IF t \in ActiveTokens(r) THEN Expired(rows[r][t]) ELSE rows[r][t]]

-----------------------------------------------------------------------------
(* AcquireLease: refused while an active row is unexpired; an active but   *)
(* expired row is expired first, in the same transaction.                  *)

\* Mutant: the last tick before expires_at already counts as expired.
Mut_Grantable(r) == \A t \in ActiveTokens(r) : rows[r][t].left <= 1

Grantable(r) == ~HeldUnexpired(r)

\* Mutant: the superseded row is left active.
Mut_GrantTo(w, r) ==
    Append(rows[r], [owner |-> w, left |-> TTL, state |-> "active", version |-> 1])

GrantTo(w, r) ==
    Append(ExpireActive(r), [owner |-> w, left |-> TTL, state |-> "active", version |-> 1])

AcquireLease(w, r) ==
    /\ phase[w] = "idle"
    /\ Grantable(r)
    /\ Len(rows[r]) < MaxGrants
    /\ rows' = [rows EXCEPT ![r] = GrantTo(w, r)]
    /\ \/ /\ copy' = [copy EXCEPT ![w] =
                CopyOf(r, Len(rows[r]) + 1, [left |-> TTL, version |-> 1])]
          /\ phase' = [phase EXCEPT ![w] = "holding"]
       \/ UNCHANGED <<copy, phase>>      \* committed, but the reply was lost

-----------------------------------------------------------------------------
(* The heartbeat goroutine: retryVersionedLeaseHeartbeat around            *)
(* HeartbeatLease.                                                         *)

\* leaseHeartbeatCallContext: no call starts at or past the copy's deadline.
BeginHeartbeat(w) ==
    /\ phase[w] = "holding"
    /\ phase' = [phase EXCEPT ![w] = IF copy[w].left > 0 THEN "calling" ELSE "lost"]
    /\ UNCHANGED <<rows, copy>>

VersionMatches(w) == RowOf(w).version = copy[w].version

\* Mutant: identity is enough; neither version, state nor expiry is compared.
Mut_HeartbeatAccepted(w) == RowOf(w).owner = w

HeartbeatAccepted(w) ==
    /\ VersionMatches(w)
    /\ RowOf(w).owner = w
    /\ RowOf(w).state = "active"
    /\ Unexpired(RowOf(w))

WithRow(w, row) == [rows EXCEPT ![copy[w].resource][copy[w].token] = row]

HeartbeatCommits(w) ==
    /\ phase[w] = "calling"
    /\ HeartbeatAccepted(w)
    /\ RowOf(w).version < MaxVersion
    /\ rows' = WithRow(w, Renewed(RowOf(w)))
    /\ \/ /\ copy' = [copy EXCEPT ![w] =
                CopyOf(copy[w].resource, copy[w].token, Renewed(RowOf(w)))]
          /\ phase' = [phase EXCEPT ![w] = "holding"]
       \/ /\ phase' = [phase EXCEPT ![w] = "reloading"]   \* acknowledgement lost
          /\ UNCHANGED copy

\* ErrOptimisticLock is transient; ErrImmutable is not; an expired row is
\* marked expired by the refused heartbeat itself.
HeartbeatRefused(w) ==
    /\ phase[w] = "calling"
    /\ ~HeartbeatAccepted(w)
    /\ phase' = [phase EXCEPT ![w] = IF VersionMatches(w) THEN "lost" ELSE "reloading"]
    /\ rows' = IF VersionMatches(w) /\ RowOf(w).state = "active"
               THEN WithRow(w, Expired(RowOf(w)))
               ELSE rows
    /\ UNCHANGED copy

\* SQLITE_BUSY, SQLITE_LOCKED and SQLITE_IOERR leave the row alone and are
\* retried; any other store failure, or the call's deadline, is final.
HeartbeatStoreError(w) ==
    /\ phase[w] = "calling"
    /\ \E p \in {"reloading", "lost"} : phase' = [phase EXCEPT ![w] = p]
    /\ UNCHANGED <<rows, copy>>

StillMine(w) ==
    /\ RowOf(w).state = "active"
    /\ RowOf(w).owner = w
    /\ Unexpired(RowOf(w))

Reload(w) ==
    /\ phase[w] = "reloading"
    /\ IF copy[w].left = 0 \/ ~StillMine(w)
       THEN /\ phase' = [phase EXCEPT ![w] = "lost"]
            /\ UNCHANGED copy
       ELSE /\ phase' = [phase EXCEPT ![w] = "holding"]
            /\ copy' = [copy EXCEPT ![w] = CopyOf(copy[w].resource, copy[w].token, RowOf(w))]
    /\ UNCHANGED rows

\* The read fails: a transient failure waits and calls again, another is final.
ReloadFails(w) ==
    /\ phase[w] = "reloading"
    /\ \E p \in {"holding", "lost"} : phase' = [phase EXCEPT ![w] = p]
    /\ UNCHANGED <<rows, copy>>

-----------------------------------------------------------------------------
(* The supervisor stops (its Run is quiescent, or its lease is lost) and   *)
(* releases whatever its latest copy still names; a crash releases         *)
(* nothing.  ReleaseLease does not look at the expiry.                     *)

Releasable(w) ==
    /\ VersionMatches(w)
    /\ RowOf(w).owner = w
    /\ RowOf(w).state = "active"

\* Mutant: the supervisor loop never looks at heartbeats.err().
Mut_StopSupervisor(w) ==
    /\ phase[w] = "holding"
    /\ rows' = rows
    /\ copy' = [copy EXCEPT ![w] = NoLease]
    /\ phase' = [phase EXCEPT ![w] = "idle"]

StopSupervisor(w) ==
    /\ phase[w] \in {"holding", "lost"}
    /\ rows' = IF Releasable(w)
               THEN WithRow(w, [RowOf(w) EXCEPT !.state = "released", !.version = @ + 1])
               ELSE rows
    /\ copy' = [copy EXCEPT ![w] = NoLease]
    /\ phase' = [phase EXCEPT ![w] = "idle"]

Crash(w) ==
    /\ phase[w] # "idle"
    /\ copy' = [copy EXCEPT ![w] = NoLease]
    /\ phase' = [phase EXCEPT ![w] = "idle"]
    /\ UNCHANGED rows

\* ExpireLeasesForResource: an operator's reconciliation.
DueTokens(r) == {t \in ActiveTokens(r) : ~Unexpired(rows[r][t])}

ExpireDue(r) ==
    /\ DueTokens(r) # {}
    /\ rows' = [rows EXCEPT ![r] =
          [t \in DOMAIN rows[r] |->
             IF t \in DueTokens(r) THEN Expired(rows[r][t]) ELSE rows[r][t]]]
    /\ UNCHANGED <<copy, phase>>

-----------------------------------------------------------------------------
Less(n) == IF n = 0 THEN 0 ELSE n - 1

Tick ==
    /\ rows' = [r \in Resources |->
                  [t \in DOMAIN rows[r] |-> [rows[r][t] EXCEPT !.left = Less(@)]]]
    /\ copy' = [w \in Supervisors |->
                  IF copy[w] = NoLease THEN NoLease
                  ELSE [copy[w] EXCEPT !.left = Less(@)]]
    /\ UNCHANGED phase

HeartbeatStep(w) ==
    \/ BeginHeartbeat(w)
    \/ HeartbeatCommits(w)
    \/ HeartbeatRefused(w)
    \/ HeartbeatStoreError(w)
    \/ Reload(w)
    \/ ReloadFails(w)

LeaseNext ==
    \/ \E w \in Supervisors, r \in Resources : AcquireLease(w, r)
    \/ \E w \in Supervisors : HeartbeatStep(w) \/ StopSupervisor(w) \/ Crash(w)
    \/ \E r \in Resources : ExpireDue(r)
    \/ Tick

LeaseSpec == LeaseInit /\ [][LeaseNext]_leaseVars

(* Time passes; the ticker of a live holder fires; a supervisor whose       *)
(* heartbeat has failed returns from Run, whose deferred call releases.     *)
StopLost(w) == phase[w] = "lost" /\ StopSupervisor(w)
Fairness ==
    /\ WF_leaseVars(Tick)
    /\ \A w \in Supervisors : WF_leaseVars(HeartbeatStep(w)) /\ WF_leaseVars(StopLost(w))

FairLeaseSpec == LeaseSpec /\ Fairness

-----------------------------------------------------------------------------
(* Only the newest row of a resource can be active: a grant closes the row *)
(* it supersedes in the transaction that inserts the new one.              *)
OnlyNewestActive ==
    \A r \in Resources : \A t \in ActiveTokens(r) : t = Len(rows[r])

(* What a supervisor believes until its own deadline is true: the row it   *)
(* copied is still active, still its own, and expires no earlier than the  *)
(* copy says, lost acknowledgements, reloads and failed loops included.    *)
BeliefIsSound ==
    \A w \in Supervisors :
        (copy[w] # NoLease /\ copy[w].left > 0) =>
            /\ RowOf(w).state = "active"
            /\ RowOf(w).left >= copy[w].left

(* Mutual exclusion: no two supervisors act on one Run at once, each       *)
(* within the deadline it knows.                                           *)
Believes(w, r) == copy[w] # NoLease /\ copy[w].resource = r /\ copy[w].left > 0
SoleSupervisor ==
    \A r \in Resources, v, w \in Supervisors : Believes(v, r) /\ Believes(w, r) => v = w

(* A superseded row is history: from the step that grants a newer token    *)
(* on, no late heartbeat, release or sweep changes its state, its version  *)
(* or its owner, and the history itself only grows.                        *)
SupersededIsFrozen ==
    [][\A r \in Resources :
          /\ Len(rows'[r]) >= Len(rows[r])
          /\ \A t \in 1 .. Len(rows[r]) :
                t < Len(rows[r]) =>
                    /\ rows'[r][t].state = rows[r][t].state
                    /\ rows'[r][t].version = rows[r][t].version
                    /\ rows'[r][t].owner = rows[r][t].owner]_leaseVars

(* A resource is never stranded by a crash: if no process holds an active  *)
(* row's lease any more, the resource becomes grantable.                   *)
Orphaned(r) ==
    /\ HeldUnexpired(r)
    /\ \A w \in Supervisors : copy[w] = NoLease \/ copy[w].resource # r
OrphanBecomesGrantable == \A r \in Resources : Orphaned(r) ~> Grantable(r)

(* A supervisor whose row is no longer active finds out and leaves.        *)
Dispossessed(w) == copy[w] # NoLease /\ RowOf(w).state # "active"
DispossessedLeaves == \A w \in Supervisors : Dispossessed(w) ~> copy[w] = NoLease

(* A lease and its holder do not stay apart: what a dead holder left can be *)
(* granted again, and a live one that was replaced leaves.                  *)
LossIsResolved == OrphanBecomesGrantable /\ DispossessedLeaves
=============================================================================
