------------------------ MODULE AuthoringLaunch_proofs ------------------------
(***************************************************************************)
(* A launch, its repetitions and its restarts, for any number of callers,  *)
(* keys, archives, deployments and calls.                                  *)
(***************************************************************************)
EXTENDS AuthoringLaunch, TLAPS

Caller ==
    [at : Step, key : Keys \cup {None}, definition : Deployments \cup {None},
     digest : Digests \cup {None}, old : ReadRun \cup {None}]
File ==
    [preparation : Deployments \cup {None}, request : BOOLEAN,
     failure : BOOLEAN, receipt : Digests \cup {None}]
Operation == [state : {"none", "prepared", "completed"}, old : ReadRun \cup {None}]

LaunchSteps == {"lease", "prepare", "request", "capture", "seal", "source", "create"}
PreparedSteps == {"request", "capture", "seal", "source", "create", "task", "session"}
SealedSteps == {"source", "create", "task", "session"}
Holds(c) == caller[c].at \in LeaseSteps /\ caller[c].key \in Launches

(* What was read of a Run before its restart still holds where it matters. *)
OldFits(o) ==
    /\ o \in ReadRun /\ run[o.run] # None
    /\ o.status = "ended" => run[o.run].status = "ended" /\ task[o.run] = "draft"

(* A caller's step fits its key and what was written before it.            *)
KeyFits(c) ==
    /\ caller[c].at # "idle" => caller[c].key \in Keys
    /\ caller[c].at \in LaunchSteps => caller[c].key \in Launches
    /\ caller[c].at = "begin" => caller[c].key \in Restarts /\ OldFits(caller[c].old)
    /\ caller[c].at \notin {"idle", "begin"} => op[caller[c].key].state # "none"

CaptureFits(c) ==
    LET l == caller[c].key IN
    /\ caller[c].at \in PreparedSteps /\ l \in Launches => file[l].preparation # None
    /\ caller[c].at = "seal" => caller[c].digest \in objects
    /\ caller[c].at \in SealedSteps /\ l \in Launches =>
          caller[c].digest = file[l].receipt /\ caller[c].digest \in objects
    /\ caller[c].at \in {"task", "session"} /\ l \in Launches => source[caller[c].digest] # None

SessionFits(c) ==
    /\ caller[c].at \in {"run", "commit", "complete"} => session[caller[c].key] # None
    /\ caller[c].at = "complete" => run[caller[c].key] # None

(* What nobody else may have done meanwhile.                               *)
Fresh(c) ==
    caller[c].definition # None =>
        /\ caller[c].at \in {"lease", "prepare"}
        /\ file[caller[c].key].preparation = None
Committing(c) ==
    caller[c].at = "commit" => dir[caller[c].key] /\ run[caller[c].key] = None

CallersFit ==
    \A c \in Callers : KeyFits(c) /\ CaptureFits(c) /\ SessionFits(c) /\ Fresh(c) /\ Committing(c)

(* One caller of a key at a time holds its lease, its deployment, its mkdir. *)
Exclusive ==
    \A c, d \in Callers : c # d /\ caller[c].key = caller[d].key =>
        /\ ~(Holds(c) /\ Holds(d))
        /\ ~(caller[c].definition # None /\ caller[d].definition # None)
        /\ ~(caller[c].at = "commit" /\ caller[d].at = "commit")

SessionBound(k) ==
    /\ op[k].state # "none"
    /\ k \in Launches =>
        /\ session[k].digest = file[k].receipt /\ session[k].definition = file[k].preparation
        /\ session[k].digest \in objects /\ source[session[k].digest] # None
        /\ file[k].preparation # None
    /\ k \in Restarts =>
        /\ session[k].digest = run[op[k].old.run].digest
        /\ session[k].definition = run[op[k].old.run].definition

RowsFit ==
    \A k \in Keys :
        /\ session[k] # None => SessionBound(k)
        /\ run[k] # None =>
            /\ session[k] # None
            /\ run[k].digest = session[k].digest /\ run[k].definition = session[k].definition
        /\ op[k].state = "completed" => run[k] # None
        /\ k \in Restarts /\ op[k].state # "none" => OldFits(op[k].old)
        /\ k \in Launches /\ op[k].state = "none" => file[k].preparation = None

(* An archive fetched is sealed, lost, or in somebody's hands.             *)
InHand(l) == \E c \in Callers : caller[c].at = "seal" /\ caller[c].key = l
CapturesFit ==
    \A l \in Launches :
        /\ captures[l] <= 1 + lost[l]
        /\ file[l].receipt = None /\ ~InHand(l) => captures[l] <= lost[l]
        /\ file[l].receipt # None => file[l].receipt \in objects

IInv == TypeOK /\ CallersFit /\ Exclusive /\ RowsFit /\ CapturesFit

(* What no step takes back.                                                *)
Grows ==
    /\ \A k \in Keys :
        /\ op[k].state # "none" =>
            op'[k].state # "none" /\ (k \in Restarts => op'[k].old = op[k].old)
        /\ session[k] # None => session'[k] = session[k]
        /\ run[k] # None =>
            /\ run'[k] # None
            /\ run'[k].digest = run[k].digest /\ run'[k].definition = run[k].definition
            /\ run[k].status = "ended" => run'[k].status = "ended"
            /\ run[k].status = "ended" /\ task[k] = "draft" => task'[k] = "draft"
    /\ \A l \in Launches :
        /\ file[l].preparation # None => file'[l].preparation = file[l].preparation
        /\ file[l].receipt # None => file'[l].receipt = file[l].receipt
    /\ objects \subseteq objects'
    /\ \A d \in Digests : source[d] # None => source'[d] # None

USE AuthoringLaunchAssumption

LEMMA InitInvariant == Init => IInv
  <1> SUFFICES ASSUME Init PROVE IInv
    OBVIOUS
  <1>1. /\ Idle \in Caller
        /\ Idle.at = "idle" /\ Idle.key = None /\ Idle.definition = None
    BY DEF Idle, Caller, Step
  <1>2. TypeOK
    BY <1>1 DEF Init, TypeOK, Caller
  <1>3. CallersFit /\ Exclusive
    BY <1>1 DEF Init, CallersFit, Exclusive, KeyFits, CaptureFits, SessionFits, Fresh, Committing,
        LaunchSteps, PreparedSteps, SealedSteps, Holds, LeaseSteps
  <1>4. RowsFit /\ CapturesFit
    BY DEF Init, RowsFit, CapturesFit, Keys
  <1> QED
    BY <1>2, <1>3, <1>4 DEF IInv

-----------------------------------------------------------------------------
(* The ways a caller moves.                                                *)
LEMMA GotoMoves ==
  ASSUME TypeOK, NEW c \in Callers, NEW s \in Step, Goto(c, s)
  PROVE  /\ caller' \in [Callers -> Caller]
         /\ caller'[c].at = s
         /\ caller'[c].key = caller[c].key /\ caller'[c].definition = caller[c].definition
         /\ caller'[c].digest = caller[c].digest /\ caller'[c].old = caller[c].old
         /\ \A d \in Callers \ {c} : caller'[d] = caller[d]
  <1>1. caller[c] \in Caller
    BY DEF TypeOK, Caller
  <1>2. [caller[c] EXCEPT !.at = s] \in Caller
    BY <1>1 DEF Caller
  <1>3. caller' = [caller EXCEPT ![c] = [caller[c] EXCEPT !.at = s]]
    BY DEF Goto
  <1>4. /\ [caller[c] EXCEPT !.at = s].at = s
        /\ [caller[c] EXCEPT !.at = s].key = caller[c].key
        /\ [caller[c] EXCEPT !.at = s].definition = caller[c].definition
        /\ [caller[c] EXCEPT !.at = s].digest = caller[c].digest
        /\ [caller[c] EXCEPT !.at = s].old = caller[c].old
    BY <1>1 DEF Caller
  <1>5. caller \in [Callers -> Caller]
    BY DEF TypeOK, Caller
  <1> QED
    BY <1>2, <1>3, <1>4, <1>5

LEMMA ReturnMoves ==
  ASSUME TypeOK, NEW c \in Callers, Return(c)
  PROVE  /\ caller' \in [Callers -> Caller]
         /\ caller'[c].at = "idle" /\ caller'[c].definition = None
         /\ \A d \in Callers \ {c} : caller'[d] = caller[d]
  <1>1. Idle \in Caller /\ Idle.at = "idle" /\ Idle.definition = None
    BY DEF Idle, Caller, Step
  <1>2. caller \in [Callers -> Caller]
    BY DEF TypeOK, Caller
  <1> QED
    BY <1>1, <1>2 DEF Return

(* A caller goes on with another digest, another deployment.               *)
LEMMA DigestMoves ==
  ASSUME TypeOK, NEW c \in Callers, NEW s \in Step, NEW x \in Digests \cup {None},
         caller' = [caller EXCEPT ![c].at = s, ![c].digest = x]
  PROVE  /\ caller' \in [Callers -> Caller]
         /\ caller'[c].at = s /\ caller'[c].digest = x
         /\ caller'[c].key = caller[c].key /\ caller'[c].definition = caller[c].definition
         /\ \A d \in Callers \ {c} : caller'[d] = caller[d]
  <1>1. caller \in [Callers -> Caller] /\ caller[c] \in Caller
    BY DEF TypeOK, Caller
  <1>2. caller' = [caller EXCEPT ![c] = [caller[c] EXCEPT !.at = s, !.digest = x]]
    BY <1>1
  <1>3. [caller[c] EXCEPT !.at = s, !.digest = x] \in Caller
    BY <1>1 DEF Caller
  <1>4. /\ [caller[c] EXCEPT !.at = s, !.digest = x].at = s
        /\ [caller[c] EXCEPT !.at = s, !.digest = x].digest = x
        /\ [caller[c] EXCEPT !.at = s, !.digest = x].key = caller[c].key
        /\ [caller[c] EXCEPT !.at = s, !.digest = x].definition = caller[c].definition
    BY <1>1 DEF Caller
  <1> QED
    BY <1>1, <1>2, <1>3, <1>4

LEMMA OperationMoves ==
  ASSUME TypeOK, NEW k \in Keys, NEW s \in {"prepared", "completed"},
         op' = [op EXCEPT ![k].state = s]
  PROVE  /\ op' \in [Keys -> Operation]
         /\ op'[k].state = s /\ op'[k].old = op[k].old
         /\ \A j \in Keys \ {k} : op'[j] = op[j]
  <1>1. op \in [Keys -> Operation] /\ op[k] \in Operation
    BY DEF TypeOK, Operation
  <1>2. op' = [op EXCEPT ![k] = [op[k] EXCEPT !.state = s]]
    BY <1>1
  <1>3. [op[k] EXCEPT !.state = s] \in Operation
    BY <1>1 DEF Operation
  <1>4. [op[k] EXCEPT !.state = s].state = s /\ [op[k] EXCEPT !.state = s].old = op[k].old
    BY <1>1 DEF Operation
  <1> QED
    BY <1>1, <1>2, <1>3, <1>4

LEMMA FileMoves ==
  ASSUME TypeOK, NEW l \in Launches, NEW f \in File, file' = [file EXCEPT ![l] = f]
  PROVE  /\ file' \in [Launches -> File]
         /\ file'[l] = f
         /\ \A j \in Launches \ {l} : file'[j] = file[j]
  BY DEF TypeOK, File

(* A mark in a launch's directory says nothing of what it captured.        *)
LEMMA MarkMoves ==
  ASSUME TypeOK, NEW l \in Launches,
         \/ file' = [file EXCEPT ![l].request = TRUE]
         \/ file' = [file EXCEPT ![l].failure = TRUE]
  PROVE  /\ file' \in [Launches -> File]
         /\ \A k \in Launches :
              file'[k].preparation = file[k].preparation /\ file'[k].receipt = file[k].receipt
  <1> DEFINE requested == [file[l] EXCEPT !.request = TRUE]
             failed == [file[l] EXCEPT !.failure = TRUE]
  <1>1. file[l] \in File
    BY DEF TypeOK, File
  <1>2. /\ requested \in File /\ failed \in File
        /\ requested.preparation = file[l].preparation /\ requested.receipt = file[l].receipt
        /\ failed.preparation = file[l].preparation /\ failed.receipt = file[l].receipt
    BY <1>1 DEF File
  <1>3. file' = [file EXCEPT ![l] = requested] \/ file' = [file EXCEPT ![l] = failed]
    BY DEF TypeOK
  <1> HIDE DEF requested, failed
  <1> QED
    BY <1>2, <1>3, FileMoves

-----------------------------------------------------------------------------
(* What is known of a caller is known after a step of another.             *)
LEMMA OthersFit ==
  ASSUME IInv, Grows, NEW d \in Callers, caller'[d] = caller[d]
  PROVE  KeyFits(d)' /\ CaptureFits(d)' /\ SessionFits(d)'
  <1>1. KeyFits(d) /\ CaptureFits(d) /\ SessionFits(d)
    BY DEF IInv, CallersFit
  <1>2. /\ caller[d].digest \in Digests \cup {None}
        /\ objects \subseteq Digests
    BY DEF IInv, TypeOK
  <1>3. KeyFits(d)'
    BY <1>1 DEF KeyFits, OldFits, Grows, ReadRun, Keys, LaunchSteps
  <1>4. CaptureFits(d)'
    BY <1>1, <1>2 DEF CaptureFits, Grows, PreparedSteps, SealedSteps
  <1>5. SessionFits(d)'
    BY <1>1 DEF SessionFits, KeyFits, Grows
  <1> QED
    BY <1>3, <1>4, <1>5

(* So is what is known of a session and of a restarted Run.                *)
LEMMA SessionStays ==
  ASSUME IInv, Grows, NEW k \in Keys, session[k] # None
  PROVE  SessionBound(k)'
  <1>1. SessionBound(k) /\ session[k] \in SessionOf
    BY DEF IInv, RowsFit, TypeOK
  <1>2. session[k].digest \in Digests /\ session[k].definition \in Deployments
    BY <1>1 DEF SessionOf
  <1>3. k \in Restarts => op[k].old.run \in Keys /\ run[op[k].old.run] # None
    BY <1>1 DEF SessionBound, IInv, RowsFit, OldFits, ReadRun
  <1> QED
    BY <1>1, <1>2, <1>3 DEF SessionBound, Grows

LEMMA OldStays ==
  ASSUME IInv, Grows, NEW k \in Keys, k \in Restarts, op[k].state # "none"
  PROVE  OldFits(op[k].old)'
  <1>1. OldFits(op[k].old)
    BY DEF IInv, RowsFit
  <1> QED
    BY <1>1 DEF OldFits, Grows, ReadRun

(* The rows fit when those of operations, sessions and Runs stay.          *)
LEMMA RowsStay ==
  ASSUME IInv, Grows, UNCHANGED <<op, session, run>>,
         \A l \in Launches : op[l].state = "none" => file'[l].preparation = None
  PROVE  RowsFit'
  BY SessionStays, OldStays DEF RowsFit, IInv

(* Nobody fetches, and what was in the caller's hands stays there or was   *)
(* sealed.                                                                 *)
LEMMA CapturesStay ==
  ASSUME IInv, NEW c \in Callers, UNCHANGED <<captures, lost>>,
         \A d \in Callers \ {c} : caller'[d] = caller[d],
         objects \subseteq objects',
         \A l \in Launches :
            file'[l].receipt = file[l].receipt \/ file'[l].receipt \in objects \ {None},
         caller[c].at = "seal" => file'[caller[c].key].receipt # None
  PROVE  CapturesFit'
  <1>1. \A l \in Launches : file'[l].receipt = None => file[l].receipt = None
    OBVIOUS
  <1> QED
    BY <1>1 DEF IInv, CapturesFit, InHand

(* What was in the caller's hands is lost.                                 *)
LEMMA CaptureLost ==
  ASSUME IInv, NEW c \in Callers, caller[c].at = "seal", caller[c].key \in Launches,
         \A d \in Callers \ {c} : caller'[d] = caller[d],
         caller'[c].at # "seal", UNCHANGED <<captures, objects>>,
         \A l \in Launches : file'[l].receipt = file[l].receipt,
         lost' = [lost EXCEPT ![caller[c].key] = @ + 1]
  PROVE  CapturesFit'
  <1> DEFINE k == caller[c].key
  <1>1. lost \in [Launches -> Nat] /\ captures \in [Launches -> Nat]
    BY DEF IInv, TypeOK
  <1>2. lost'[k] = lost[k] + 1 /\ \A l \in Launches \ {k} : lost'[l] = lost[l]
    BY <1>1
  <1>3. \A l \in Launches \ {k} : InHand(l) => InHand(l)'
    BY DEF InHand
  <1>4. \A l \in Launches : lost[l] \in Nat /\ captures[l] \in Nat
    BY <1>1
  <1> QED
    BY <1>2, <1>3, <1>4 DEF IInv, CapturesFit

(* One caller moves and keeps everybody else's ground.                     *)
LEMMA CallerStep ==
  ASSUME IInv, NEW c \in Callers, Grows, TypeOK',
         \A d \in Callers \ {c} : caller'[d] = caller[d],
         KeyFits(c)', CaptureFits(c)', SessionFits(c)', Fresh(c)', Committing(c)',
         \A d \in Callers \ {c} : Fresh(d)' /\ Committing(d)',
         \A d \in Callers \ {c} : caller'[c].key = caller[d].key =>
            /\ ~(Holds(c)' /\ Holds(d))
            /\ ~(caller'[c].definition # None /\ caller[d].definition # None)
            /\ ~(caller'[c].at = "commit" /\ caller[d].at = "commit"),
         RowsFit', CapturesFit'
  PROVE  IInv'
  <1>1. \A d \in Callers \ {c} : KeyFits(d)' /\ CaptureFits(d)' /\ SessionFits(d)'
    BY OthersFit
  <1>2. CallersFit'
    BY <1>1 DEF CallersFit
  <1>3. \A d \in Callers \ {c} : Holds(d)' <=> Holds(d)
    BY DEF Holds
  <1>4. \A a, b \in Callers \ {c} : a # b /\ caller'[a].key = caller'[b].key =>
            /\ ~(Holds(a) /\ Holds(b))
            /\ ~(caller'[a].definition # None /\ caller'[b].definition # None)
            /\ ~(caller'[a].at = "commit" /\ caller'[b].at = "commit")
    BY DEF IInv, Exclusive
  <1>5. Exclusive'
    BY <1>3, <1>4 DEF Exclusive
  <1> QED
    BY <1>2, <1>5 DEF IInv

(* Others' ground, where only the caller's launch is written to.           *)
LEMMA OthersStand ==
  ASSUME IInv, NEW d \in Callers, caller'[d] = caller[d], UNCHANGED <<dir, run>>,
         caller[d].definition # None =>
            file'[caller[d].key].preparation = file[caller[d].key].preparation
  PROVE  Fresh(d)' /\ Committing(d)'
  BY DEF IInv, CallersFit, Fresh, Committing

(* A caller that goes on from where it was holds what it held.             *)
LEMMA StillExclusive ==
  ASSUME IInv, NEW c \in Callers, NEW d \in Callers \ {c}, caller'[c].key = caller[c].key,
         caller'[c].key = caller[d].key,
         Holds(c)' => Holds(c),
         caller'[c].definition # None => caller[c].definition # None,
         caller'[c].at = "commit" => caller[c].at = "commit"
  PROVE  /\ ~(Holds(c)' /\ Holds(d))
         /\ ~(caller'[c].definition # None /\ caller[d].definition # None)
         /\ ~(caller'[c].at = "commit" /\ caller[d].at = "commit")
  BY DEF IInv, Exclusive

(* A call that ends, with everything it wrote left where it is.            *)
LEMMA RestFits ==
  ASSUME NEW c \in Callers, caller'[c].at = "idle", caller'[c].definition = None
  PROVE  /\ KeyFits(c)' /\ CaptureFits(c)' /\ SessionFits(c)' /\ Fresh(c)' /\ Committing(c)'
         /\ ~Holds(c)'
  BY DEF KeyFits, CaptureFits, SessionFits, Fresh, Committing, Holds, LaunchSteps,
     PreparedSteps, SealedSteps, LeaseSteps

LEMMA CallerReturns ==
  ASSUME IInv, NEW c \in Callers, Return(c), Grows, TypeOK', RowsFit', CapturesFit',
         \A l \in Launches : file'[l].preparation = file[l].preparation,
         \A d \in Callers \ {c} : caller[d].at = "commit" =>
            dir'[caller[d].key] /\ run'[caller[d].key] = None
  PROVE  IInv'
  <1>1. /\ caller'[c].at = "idle" /\ caller'[c].definition = None
        /\ \A d \in Callers \ {c} : caller'[d] = caller[d]
    BY ReturnMoves DEF IInv
  <1>2. /\ KeyFits(c)' /\ CaptureFits(c)' /\ SessionFits(c)' /\ Fresh(c)' /\ Committing(c)'
        /\ ~Holds(c)'
    BY <1>1, RestFits
  <1>3. \A d \in Callers \ {c} : Fresh(d)' /\ Committing(d)'
    BY <1>1 DEF IInv, CallersFit, KeyFits, Fresh, Committing, LaunchSteps
  <1> QED
    BY <1>1, <1>2, <1>3, CallerStep

(* A caller of a launch that holds its lease, or of a restart, goes on.    *)
LEMMA CallerGoesOn ==
  ASSUME IInv, NEW c \in Callers, Grows, TypeOK', RowsFit', CapturesFit',
         UNCHANGED <<dir, run>>,
         \A d \in Callers \ {c} : caller'[d] = caller[d],
         \A l \in Launches : file'[l].preparation = file[l].preparation,
         caller'[c].key = caller[c].key, caller'[c].definition = None,
         caller[c].at \in LeaseSteps \/ caller[c].key \in Restarts,
         caller'[c].at # "commit",
         KeyFits(c)', CaptureFits(c)', SessionFits(c)'
  PROVE  IInv'
  <1>1. Fresh(c)' /\ Committing(c)'
    BY DEF Fresh, Committing
  <1>2. \A d \in Callers \ {c} : Fresh(d)' /\ Committing(d)'
    BY DEF IInv, CallersFit, KeyFits, Fresh, Committing, LaunchSteps
  <1>3. Holds(c)' => Holds(c)
    BY DEF Holds
  <1>4. \A d \in Callers \ {c} : caller'[c].key = caller[d].key =>
            /\ ~(Holds(c)' /\ Holds(d))
            /\ ~(caller'[c].definition # None /\ caller[d].definition # None)
            /\ ~(caller'[c].at = "commit" /\ caller[d].at = "commit")
    BY <1>3, StillExclusive
  <1> QED
    BY <1>1, <1>2, <1>4, CallerStep

LEMMA OnlyCallerTyped ==
  ASSUME TypeOK, caller' \in [Callers -> Caller],
         UNCHANGED <<op, launchVars, runVars, worker, installed, bounds>>
  PROVE  TypeOK'
  BY DEF TypeOK, Caller, launchVars, runVars, bounds

LEMMA NothingGrows ==
  ASSUME UNCHANGED <<op, file, objects, source, session, run, task>>
  PROVE  Grows
  BY DEF Grows

(* What is known of a caller before its step.                              *)
LEMMA AtStep ==
  ASSUME IInv, NEW c \in Callers
  PROVE  /\ TypeOK /\ caller[c] \in Caller
         /\ KeyFits(c) /\ CaptureFits(c) /\ SessionFits(c) /\ Fresh(c) /\ Committing(c)
         /\ \A l \in Launches : op[l].state = "none" => file[l].preparation = None
         /\ caller[c].at \notin {"lease", "prepare"} => caller[c].definition = None
  BY DEF IInv, TypeOK, CallersFit, RowsFit, Keys, Fresh, Caller

(* A call that ends and writes nothing.                                    *)
LEMMA QuietReturn ==
  ASSUME IInv, NEW c \in Callers, Return(c), caller[c].at # "seal",
         UNCHANGED <<op, launchVars, runVars, worker, installed, bounds>>
  PROVE  IInv'
  <1>1. /\ caller' \in [Callers -> Caller]
        /\ \A d \in Callers \ {c} : caller'[d] = caller[d]
    BY AtStep, ReturnMoves
  <1>2. UNCHANGED <<op, file, objects, source, captures, lost, task, session, dir, run>>
    BY DEF launchVars, runVars
  <1>3. Grows
    BY <1>2, NothingGrows
  <1>4. RowsFit' /\ TypeOK' /\ CapturesFit'
    BY <1>1, <1>2, <1>3, RowsStay, AtStep, OnlyCallerTyped, CapturesStay
  <1> QED
    BY <1>2, <1>3, <1>4, CallerReturns DEF IInv, CallersFit, Committing

(* A call that goes on and writes nothing.                                 *)
LEMMA QuietStep ==
  ASSUME IInv, NEW c \in Callers, caller' \in [Callers -> Caller],
         \A d \in Callers \ {c} : caller'[d] = caller[d],
         caller'[c].key = caller[c].key, caller'[c].definition = None,
         caller[c].at \in LeaseSteps \/ caller[c].key \in Restarts,
         caller[c].at # "seal", caller'[c].at # "commit",
         KeyFits(c)', CaptureFits(c)', SessionFits(c)',
         UNCHANGED <<op, launchVars, runVars, worker, installed, bounds>>
  PROVE  IInv'
  <1>1. UNCHANGED <<op, file, objects, source, captures, lost, task, session, dir, run>>
    BY DEF launchVars, runVars
  <1>2. Grows
    BY <1>1, NothingGrows
  <1>3. RowsFit' /\ TypeOK' /\ CapturesFit'
    BY <1>1, <1>2, RowsStay, AtStep, OnlyCallerTyped, CapturesStay
  <1> QED
    BY <1>1, <1>2, <1>3, CallerGoesOn

-----------------------------------------------------------------------------
(* The launch. *)

LEMMA BeginLaunchInvariant ==
  ASSUME IInv, NEW c \in Callers, NEW l \in Launches, BeginLaunch(c, l)
  PROVE  IInv'
  <1> DEFINE frozen == IF op[l].state = "none" THEN installed ELSE None
  <1>1. /\ TypeOK /\ caller[c].at = "idle" /\ l \in Keys /\ frozen \in Deployments \cup {None}
        /\ op[l].state # "completed"
    BY DEF IInv, TypeOK, BeginLaunch, Call, Keys
  <1>2. [Idle EXCEPT !.at = "lease", !.key = l, !.definition = frozen] \in Caller
    BY <1>1 DEF Idle, Caller, Step
  <1>3. caller' = [caller EXCEPT ![c] = [Idle EXCEPT !.at = "lease", !.key = l, !.definition = frozen]]
    BY DEF BeginLaunch
  <1>4. /\ caller' \in [Callers -> Caller]
        /\ caller'[c].at = "lease" /\ caller'[c].key = l /\ caller'[c].definition = frozen
        /\ \A d \in Callers \ {c} : caller'[d] = caller[d]
    BY <1>1, <1>2, <1>3 DEF Idle, TypeOK, Caller
  <1>5. /\ op'[l].state = "prepared" /\ op'[l].old = op[l].old
        /\ \A k \in Keys \ {l} : op'[k] = op[k]
        /\ op' \in [Keys -> Operation]
    BY <1>1, OperationMoves DEF BeginLaunch
  <1>6. UNCHANGED <<launchVars, runVars, worker, installed, moves>> /\ calls' \in 0 .. MaxCalls
    BY <1>1 DEF BeginLaunch, Call, TypeOK
  <1>7. TypeOK'
    BY <1>1, <1>4, <1>5, <1>6 DEF TypeOK, Caller, Operation, launchVars, runVars
  <1>8. Grows
    BY <1>1, <1>5, <1>6 DEF Grows, TypeOK, launchVars, runVars
  <1>9. RowsFit'
    <2> SUFFICES ASSUME NEW k \in Keys
                 PROVE  /\ session[k] # None => SessionBound(k)'
                        /\ run[k] # None =>
                            /\ session[k] # None
                            /\ run[k].digest = session[k].digest /\ run[k].definition = session[k].definition
                        /\ op'[k].state = "completed" => run[k] # None
                        /\ k \in Restarts /\ op'[k].state # "none" => OldFits(op[k].old)'
                        /\ k \in Launches /\ op'[k].state = "none" => file[k].preparation = None
      BY <1>6 DEF RowsFit, launchVars, runVars
    <2>1. k \in Restarts => k # l
      BY DEF Keys
    <2>2. UNCHANGED <<session, run, file, objects, source, task>>
      BY <1>6 DEF launchVars, runVars
    <2>3. session[k] # None => SessionBound(k)'
      BY <1>5, <2>1, <2>2 DEF IInv, RowsFit, SessionBound
    <2>4. k \in Restarts /\ op'[k].state # "none" => OldFits(op[k].old)'
      BY <1>5, <2>1, <2>2 DEF IInv, RowsFit, OldFits
    <2> QED
      BY <1>5, <2>3, <2>4 DEF IInv, RowsFit
  <1>10. CapturesFit'
    BY <1>1, <1>4, <1>6, CapturesStay DEF launchVars
  <1>11. KeyFits(c)' /\ CaptureFits(c)' /\ SessionFits(c)' /\ Fresh(c)' /\ Committing(c)'
    BY <1>1, <1>4, <1>5, <1>6 DEF IInv, RowsFit, KeyFits, CaptureFits, SessionFits, Fresh, Committing,
        LaunchSteps, PreparedSteps, SealedSteps, launchVars
  <1>12. \A d \in Callers \ {c} : Fresh(d)' /\ Committing(d)'
    BY <1>4, <1>6, OthersStand DEF launchVars, runVars
  <1>13. ~Holds(c)' /\ caller'[c].at # "commit"
    BY <1>4 DEF Holds, LeaseSteps
  <1>14. \A d \in Callers \ {c} : caller[d].key = l /\ caller[d].definition # None => frozen = None
    BY <1>1 DEF IInv, CallersFit, Fresh, KeyFits
  <1> QED
    BY <1>4, <1>7, <1>8, <1>9, <1>10, <1>11, <1>12, <1>13, <1>14, CallerStep

LEMMA TakeLeaseInvariant ==
  ASSUME IInv, NEW c \in Callers, TakeLease(c)
  PROVE  IInv'
  <1>1. /\ TypeOK /\ KeyFits(c) /\ Fresh(c) /\ caller[c].at = "lease"
        /\ caller[c].key \in Launches /\ caller[c].key \in Keys
    BY AtStep DEF TakeLease, KeyFits, LaunchSteps
  <1>2. UNCHANGED <<op, launchVars, runVars, worker, installed, bounds>>
    BY DEF TakeLease
  <1>3. UNCHANGED <<op, file, objects, source, captures, lost, task, session, dir, run>>
    BY <1>2 DEF launchVars, runVars
  <1>4. Grows
    BY <1>3, NothingGrows
  <1>5. RowsFit'
    BY <1>3, <1>4, RowsStay, AtStep
  <1>6. CASE Return(c)
    BY <1>1, <1>2, <1>6, QuietReturn
  <1>7. CASE Goto(c, "prepare")
    <2>1. /\ caller' \in [Callers -> Caller]
          /\ caller'[c].at = "prepare" /\ caller'[c].key = caller[c].key
          /\ caller'[c].definition = caller[c].definition
          /\ \A d \in Callers \ {c} : caller'[d] = caller[d]
      BY <1>1, <1>7, GotoMoves DEF Step, LeaseSteps
    <2>2. TypeOK' /\ CapturesFit'
      BY <1>1, <1>2, <1>3, <2>1, OnlyCallerTyped, CapturesStay
    <2>3. KeyFits(c)' /\ CaptureFits(c)' /\ SessionFits(c)' /\ Fresh(c)' /\ Committing(c)'
      BY <1>1, <1>3, <2>1 DEF KeyFits, CaptureFits, SessionFits, Fresh, Committing,
          LaunchSteps, PreparedSteps, SealedSteps
    <2>4. \A d \in Callers \ {c} : Fresh(d)' /\ Committing(d)'
      BY <1>3, <2>1, OthersStand
    <2>5. \A d \in Callers : ~HoldsLease(d, caller[c].key)
      BY DEF TakeLease
    <2>6. \A d \in Callers \ {c} : caller'[c].key = caller[d].key =>
              /\ ~Holds(d)
              /\ ~(caller'[c].definition # None /\ caller[d].definition # None)
      BY <2>1, <2>5 DEF HoldsLease, Holds, IInv, Exclusive
    <2> QED
      BY <1>4, <1>5, <2>1, <2>2, <2>3, <2>4, <2>6, CallerStep
  <1> QED
    BY <1>6, <1>7 DEF TakeLease

LEMMA PrepareInvariant ==
  ASSUME IInv, NEW c \in Callers, Prepare(c)
  PROVE  IInv'
  <1> DEFINE l == caller[c].key
             frozen == caller[c].definition
  <1>1. /\ TypeOK /\ KeyFits(c) /\ Fresh(c) /\ caller[c].at = "prepare" /\ caller[c] \in Caller
        /\ l \in Launches /\ l \in Keys /\ op[l].state # "none"
        /\ \A k \in Launches : op[k].state = "none" => file[k].preparation = None
    BY AtStep DEF Prepare, KeyFits, LaunchSteps
  <1>2. UNCHANGED <<op, objects, source, captures, lost, runVars, worker, installed, bounds>>
    BY DEF Prepare
  <1>3. UNCHANGED <<op, objects, source, captures, lost, task, session, dir, run>>
    BY <1>2 DEF runVars
  <1>4. CASE frozen = None /\ file[l].preparation # installed /\ Return(c) /\ UNCHANGED file
    BY <1>1, <1>2, <1>4, QuietReturn DEF launchVars
  <1>5. CASE frozen = None /\ file[l].preparation = installed /\ Goto(c, "request") /\ UNCHANGED file
    <2>1. /\ caller' \in [Callers -> Caller]
          /\ caller'[c].at = "request" /\ caller'[c].key = l /\ caller'[c].definition = None
          /\ \A d \in Callers \ {c} : caller'[d] = caller[d]
      BY <1>1, <1>5, GotoMoves DEF Step, LeaseSteps
    <2>2. Grows
      BY <1>3, <1>5, NothingGrows
    <2>3. RowsFit' /\ TypeOK' /\ CapturesFit'
      BY <1>1, <1>2, <1>3, <1>5, <2>1, <2>2, RowsStay, OnlyCallerTyped, CapturesStay DEF launchVars
    <2>4. file[l].preparation # None
      BY <1>1, <1>5 DEF TypeOK
    <2>5. KeyFits(c)' /\ CaptureFits(c)' /\ SessionFits(c)'
      BY <1>1, <1>3, <1>5, <2>1, <2>4 DEF KeyFits, CaptureFits, SessionFits, LaunchSteps, SealedSteps
    <2> QED
      BY <1>1, <1>3, <1>5, <2>1, <2>2, <2>3, <2>5, CallerGoesOn DEF LeaseSteps
  <1>6. CASE /\ frozen # None
             /\ file' = [file EXCEPT ![l].preparation = frozen]
             /\ caller' = [caller EXCEPT ![c].at = "request", ![c].definition = None]
    <2>1. caller' = [caller EXCEPT ![c] = [caller[c] EXCEPT !.at = "request", !.definition = None]]
      BY <1>1, <1>6 DEF TypeOK
    <2>2. /\ [caller[c] EXCEPT !.at = "request", !.definition = None] \in Caller
          /\ [caller[c] EXCEPT !.at = "request", !.definition = None].at = "request"
          /\ [caller[c] EXCEPT !.at = "request", !.definition = None].key = l
          /\ [caller[c] EXCEPT !.at = "request", !.definition = None].definition = None
      BY <1>1 DEF Caller, Step, LeaseSteps
    <2>3. /\ caller' \in [Callers -> Caller]
          /\ caller'[c].at = "request" /\ caller'[c].key = l /\ caller'[c].definition = None
          /\ \A d \in Callers \ {c} : caller'[d] = caller[d]
      BY <1>1, <2>1, <2>2 DEF TypeOK, Caller
    <2>4. file[l] \in File /\ frozen \in Deployments
      BY <1>1, <1>6 DEF TypeOK, File, Caller
    <2>5. /\ [file[l] EXCEPT !.preparation = frozen] \in File
          /\ [file[l] EXCEPT !.preparation = frozen].preparation = frozen
          /\ [file[l] EXCEPT !.preparation = frozen].receipt = file[l].receipt
      BY <2>4 DEF File
    <2>6. file' = [file EXCEPT ![l] = [file[l] EXCEPT !.preparation = frozen]]
      BY <1>1, <1>6 DEF TypeOK
    <2>7. /\ file' \in [Launches -> File]
          /\ file'[l].preparation = frozen /\ file'[l].receipt = file[l].receipt
          /\ \A k \in Launches \ {l} : file'[k] = file[k]
      BY <1>1, <2>5, <2>6, FileMoves
    <2>8. TypeOK'
      BY <1>1, <1>2, <2>3, <2>7 DEF TypeOK, Caller, File, runVars, bounds
    <2>9. file[l].preparation = None
      BY <1>1, <1>6 DEF Fresh
    <2>10. Grows
      BY <1>3, <2>7, <2>9 DEF Grows
    <2>11. RowsFit' /\ CapturesFit'
      BY <1>1, <1>3, <2>3, <2>7, <2>10, RowsStay, CapturesStay
    <2>12. KeyFits(c)' /\ CaptureFits(c)' /\ SessionFits(c)' /\ Fresh(c)' /\ Committing(c)'
      BY <1>1, <1>3, <2>3, <2>4, <2>7 DEF KeyFits, CaptureFits, SessionFits, Fresh, Committing, LaunchSteps, SealedSteps
    <2>13. \A d \in Callers \ {c} : caller[d].definition # None => caller[d].key # l
      BY <1>6 DEF IInv, Exclusive
    <2>14. \A d \in Callers \ {c} : Fresh(d)' /\ Committing(d)'
      <3> SUFFICES ASSUME NEW d \in Callers \ {c} PROVE Fresh(d)' /\ Committing(d)'
        OBVIOUS
      <3>1. caller[d].definition # None => caller[d].key \in Launches \ {l}
        BY <2>13, AtStep DEF Fresh, KeyFits, LaunchSteps
      <3> QED
        BY <1>3, <2>3, <2>7, <3>1, OthersStand
    <2>15. Holds(c)' => Holds(c)
      BY <1>1, <2>3 DEF Holds, LeaseSteps
    <2>16. \A d \in Callers \ {c} : caller'[c].key = caller[d].key =>
              /\ ~(Holds(c)' /\ Holds(d))
              /\ ~(caller'[c].definition # None /\ caller[d].definition # None)
              /\ ~(caller'[c].at = "commit" /\ caller[d].at = "commit")
      BY <2>3, <2>15, StillExclusive
    <2> QED
      BY <2>3, <2>8, <2>10, <2>11, <2>12, <2>14, <2>16, CallerStep
  <1> QED
    BY <1>4, <1>5, <1>6 DEF Prepare

LEMMA RecordRequestInvariant ==
  ASSUME IInv, NEW c \in Callers, RecordRequest(c)
  PROVE  IInv'
  <1> DEFINE l == caller[c].key
  <1>1. /\ TypeOK /\ KeyFits(c) /\ CaptureFits(c) /\ caller[c].at = "request"
        /\ l \in Launches /\ l \in Keys /\ caller[c].definition = None
        /\ file[l].preparation # None /\ op[l].state # "none"
        /\ \A k \in Launches : op[k].state = "none" => file[k].preparation = None
    BY AtStep DEF RecordRequest, KeyFits, CaptureFits, LaunchSteps, PreparedSteps
  <1>2. UNCHANGED <<op, objects, source, captures, lost, runVars, worker, installed, bounds>>
    BY DEF RecordRequest
  <1>3. UNCHANGED <<op, objects, source, captures, lost, task, session, dir, run>>
    BY <1>2 DEF runVars
  <1>4. /\ caller' \in [Callers -> Caller]
        /\ caller'[c].at = "capture" /\ caller'[c].key = l /\ caller'[c].definition = None
        /\ \A d \in Callers \ {c} : caller'[d] = caller[d]
    BY <1>1, GotoMoves DEF RecordRequest, Step, LeaseSteps
  <1>5. /\ file' \in [Launches -> File]
        /\ \A k \in Launches :
              file'[k].preparation = file[k].preparation /\ file'[k].receipt = file[k].receipt
    BY <1>1, MarkMoves DEF RecordRequest
  <1>6. TypeOK'
    BY <1>1, <1>2, <1>4, <1>5 DEF TypeOK, Caller, File, runVars, bounds
  <1>7. Grows
    BY <1>3, <1>5 DEF Grows
  <1>8. RowsFit' /\ CapturesFit'
    BY <1>1, <1>3, <1>4, <1>5, <1>7, RowsStay, CapturesStay
  <1>9. KeyFits(c)' /\ CaptureFits(c)' /\ SessionFits(c)'
    BY <1>1, <1>3, <1>4, <1>5 DEF KeyFits, CaptureFits, SessionFits, LaunchSteps, SealedSteps
  <1> QED
    BY <1>1, <1>3, <1>4, <1>5, <1>6, <1>7, <1>8, <1>9, CallerGoesOn DEF LeaseSteps

-----------------------------------------------------------------------------
(* The capture. *)

LEMMA AtCapture ==
  ASSUME IInv, NEW c \in Callers,
         caller[c].at \in {"capture", "seal", "source", "create"}
  PROVE  /\ TypeOK /\ caller[c] \in Caller
         /\ caller[c].key \in Launches /\ caller[c].key \in Keys
         /\ caller[c].definition = None /\ op[caller[c].key].state # "none"
         /\ file[caller[c].key].preparation # None
         /\ \A k \in Launches : op[k].state = "none" => file[k].preparation = None
         /\ caller[c].at = "seal" => caller[c].digest \in objects
         /\ caller[c].at \in {"source", "create"} =>
              caller[c].digest = file[caller[c].key].receipt /\ caller[c].digest \in objects
  BY AtStep DEF KeyFits, CaptureFits, LaunchSteps, PreparedSteps, SealedSteps

LEMMA ReuseCaptureInvariant ==
  ASSUME IInv, NEW c \in Callers, ReuseCapture(c)
  PROVE  IInv'
  <1> DEFINE receipt == file[caller[c].key].receipt
  <1>1. /\ caller[c].at = "capture" /\ receipt \in objects
        /\ caller' = [caller EXCEPT ![c].at = "source", ![c].digest = receipt]
        /\ UNCHANGED <<op, launchVars, runVars, worker, installed, bounds>>
        /\ UNCHANGED <<op, file, objects>>
    BY DEF ReuseCapture, launchVars
  <1>2. /\ TypeOK /\ caller[c].key \in Launches /\ caller[c].key \in Keys
        /\ caller[c].definition = None /\ op[caller[c].key].state # "none"
        /\ file[caller[c].key].preparation # None
    BY <1>1, AtCapture
  <1>3. receipt \in Digests /\ "source" \in Step
    BY <1>1, <1>2 DEF TypeOK, Step, LeaseSteps
  <1> HIDE DEF receipt
  <1>4. /\ caller' \in [Callers -> Caller]
        /\ caller'[c].at = "source" /\ caller'[c].digest = receipt
        /\ caller'[c].key = caller[c].key /\ caller'[c].definition = None
        /\ \A d \in Callers \ {c} : caller'[d] = caller[d]
    BY <1>1, <1>2, <1>3, DigestMoves
  <1>5. KeyFits(c)' /\ CaptureFits(c)' /\ SessionFits(c)'
    BY <1>1, <1>2, <1>4 DEF KeyFits, CaptureFits, SessionFits, receipt
  <1> QED
    BY <1>1, <1>4, <1>5, QuietStep DEF LeaseSteps

LEMMA CaptureSourceInvariant ==
  ASSUME IInv, NEW c \in Callers, CaptureSource(c)
  PROVE  IInv'
  <1> DEFINE l == caller[c].key
  <1>1. PICK x \in Digests :
            /\ objects' = objects \cup {x}
            /\ caller' = [caller EXCEPT ![c].at = "seal", ![c].digest = x]
    BY DEF CaptureSource
  <1>2. /\ caller[c].at = "capture" /\ file[l].receipt = None
        /\ captures' = [captures EXCEPT ![l] = @ + 1]
        /\ UNCHANGED <<op, file, source, lost, runVars, worker, installed, bounds>>
        /\ UNCHANGED <<op, file, source, lost, task, session, dir, run>>
    BY DEF CaptureSource, runVars
  <1>3. /\ TypeOK /\ l \in Launches /\ l \in Keys
        /\ caller[c].definition = None /\ op[l].state # "none" /\ file[l].preparation # None
        /\ \A k \in Launches : op[k].state = "none" => file[k].preparation = None
    BY <1>2, AtCapture
  <1>4. /\ caller' \in [Callers -> Caller]
        /\ caller'[c].at = "seal" /\ caller'[c].digest = x
        /\ caller'[c].key = l /\ caller'[c].definition = None
        /\ \A d \in Callers \ {c} : caller'[d] = caller[d]
    <2>1. "seal" \in Step /\ x \in Digests \cup {None}
      BY DEF Step, LeaseSteps
    <2>2. caller' = [caller EXCEPT ![c].at = "seal", ![c].digest = x]
      BY <1>1
    <2> HIDE DEF l
    <2>3. /\ caller' \in [Callers -> Caller]
          /\ caller'[c].at = "seal" /\ caller'[c].digest = x
          /\ caller'[c].key = caller[c].key /\ caller'[c].definition = caller[c].definition
          /\ \A d \in Callers \ {c} : caller'[d] = caller[d]
      BY <1>3, <2>1, <2>2, DigestMoves
    <2> QED
      BY <1>3, <2>3 DEF l
  <1>5. TypeOK'
    BY <1>1, <1>2, <1>3, <1>4 DEF TypeOK, Caller, runVars, bounds
  <1>6. Grows
    BY <1>1, <1>2 DEF Grows
  <1>7. RowsFit'
    BY <1>2, <1>3, <1>6, RowsStay
  <1>8. ~InHand(l)
    BY <1>2, <1>3 DEF InHand, IInv, Exclusive, Holds, LeaseSteps
  <1>9. CapturesFit'
    <2> SUFFICES ASSUME NEW k \in Launches
                 PROVE  /\ captures'[k] <= 1 + lost[k]
                        /\ file[k].receipt = None /\ ~InHand(k)' => captures'[k] <= lost[k]
      BY <1>1, <1>2 DEF IInv, CapturesFit
    <2>1. CASE k = l
      <3>1. captures[l] <= lost[l] /\ captures[l] \in Nat /\ lost[l] \in Nat
        BY <1>2, <1>3, <1>8 DEF IInv, CapturesFit, TypeOK
      <3>2. captures'[l] = captures[l] + 1
        BY <1>2, <1>3 DEF TypeOK
      <3>3. InHand(k)'
        BY <1>4, <2>1 DEF InHand
      <3> QED
        BY <2>1, <3>1, <3>2, <3>3
    <2>2. CASE k # l
      <3>1. captures'[k] = captures[k]
        BY <1>2, <1>3, <2>2 DEF TypeOK
      <3>2. InHand(k) => InHand(k)'
        BY <1>2, <1>4, <2>2 DEF InHand
      <3> QED
        BY <3>1, <3>2 DEF IInv, CapturesFit
    <2> QED
      BY <2>1, <2>2
  <1>10. KeyFits(c)' /\ CaptureFits(c)' /\ SessionFits(c)'
    BY <1>1, <1>2, <1>3, <1>4 DEF KeyFits, CaptureFits, SessionFits, SealedSteps
  <1> QED
    BY <1>2, <1>4, <1>5, <1>6, <1>7, <1>9, <1>10, CallerGoesOn DEF LeaseSteps

LEMMA CaptureFailsInvariant ==
  ASSUME IInv, NEW c \in Callers, CaptureFails(c)
  PROVE  IInv'
  <1> DEFINE l == caller[c].key
  <1>1. /\ caller[c].at = "capture" /\ Return(c)
        /\ file' = [file EXCEPT ![l].failure = TRUE]
        /\ UNCHANGED <<op, objects, source, captures, lost, runVars, worker, installed, bounds>>
        /\ UNCHANGED <<op, objects, source, captures, lost, task, session, dir, run>>
    BY DEF CaptureFails, runVars
  <1>2. /\ TypeOK /\ l \in Launches
        /\ \A k \in Launches : op[k].state = "none" => file[k].preparation = None
    BY <1>1, AtCapture
  <1>3. /\ file' \in [Launches -> File]
        /\ \A k \in Launches :
              file'[k].preparation = file[k].preparation /\ file'[k].receipt = file[k].receipt
    BY <1>1, <1>2, MarkMoves
  <1>4. /\ caller' \in [Callers -> Caller]
        /\ \A d \in Callers \ {c} : caller'[d] = caller[d]
    BY <1>1, <1>2, ReturnMoves
  <1>5. TypeOK'
    BY <1>1, <1>2, <1>3, <1>4 DEF TypeOK, Caller, File, runVars, bounds
  <1>6. Grows
    BY <1>1, <1>3 DEF Grows
  <1>7. RowsFit' /\ CapturesFit'
    BY <1>1, <1>2, <1>3, <1>4, <1>6, RowsStay, CapturesStay
  <1> QED
    BY <1>1, <1>3, <1>5, <1>6, <1>7, CallerReturns DEF IInv, CallersFit, Committing

LEMMA SealReceiptInvariant ==
  ASSUME IInv, NEW c \in Callers, SealReceipt(c)
  PROVE  IInv'
  <1> DEFINE l == caller[c].key
             receipt == IF file[l].receipt = None THEN caller[c].digest ELSE file[l].receipt
             sealed == [file[l] EXCEPT !.receipt = receipt]
  <1>1. /\ caller[c].at = "seal"
        /\ file' = [file EXCEPT ![l].receipt = receipt]
        /\ caller' = [caller EXCEPT ![c].at = "source", ![c].digest = receipt]
        /\ UNCHANGED <<op, objects, source, captures, lost, runVars, worker, installed, bounds>>
        /\ UNCHANGED <<op, objects, source, captures, lost, task, session, dir, run>>
    BY DEF SealReceipt, runVars
  <1>2. /\ TypeOK /\ l \in Launches /\ l \in Keys /\ caller[c].digest \in objects
        /\ caller[c].definition = None /\ op[l].state # "none" /\ file[l].preparation # None
        /\ \A k \in Launches : op[k].state = "none" => file[k].preparation = None
    BY <1>1, AtCapture
  <1>3. file[l].receipt # None => file[l].receipt \in objects
    BY <1>2 DEF IInv, CapturesFit
  <1>4. receipt \in Digests /\ receipt \in objects /\ receipt # None
    BY <1>2, <1>3 DEF TypeOK
  <1>5. file[l] \in File
    BY <1>2 DEF TypeOK, File
  <1>6. /\ sealed \in File /\ sealed.preparation = file[l].preparation /\ sealed.receipt = receipt
    BY <1>4, <1>5 DEF File
  <1>7. file' = [file EXCEPT ![l] = sealed]
    BY <1>1, <1>2 DEF TypeOK
  <1>0. file[l].receipt # None => receipt = file[l].receipt
    OBVIOUS
  <1> HIDE DEF sealed, receipt
  <1>8. /\ file' \in [Launches -> File]
        /\ file'[l].preparation = file[l].preparation /\ file'[l].receipt = receipt
        /\ \A k \in Launches \ {l} : file'[k] = file[k]
    BY <1>2, <1>6, <1>7, FileMoves
  <1>9. /\ caller' \in [Callers -> Caller]
        /\ caller'[c].at = "source" /\ caller'[c].digest = receipt
        /\ caller'[c].key = l /\ caller'[c].definition = None
        /\ \A d \in Callers \ {c} : caller'[d] = caller[d]
    BY <1>1, <1>2, <1>4, DigestMoves DEF Step, LeaseSteps
  <1>10. TypeOK'
    BY <1>1, <1>2, <1>8, <1>9 DEF TypeOK, Caller, File, runVars, bounds
  <1>11. Grows
    BY <1>0, <1>1, <1>8 DEF Grows
  <1>12. RowsFit' /\ CapturesFit'
    BY <1>1, <1>2, <1>3, <1>4, <1>8, <1>9, <1>11, RowsStay, CapturesStay
  <1>13. KeyFits(c)' /\ CaptureFits(c)' /\ SessionFits(c)'
    BY <1>1, <1>2, <1>4, <1>8, <1>9 DEF KeyFits, CaptureFits, SessionFits
  <1> QED
    BY <1>1, <1>8, <1>9, <1>10, <1>11, <1>12, <1>13, CallerGoesOn DEF LeaseSteps

LEMMA SealFailsInvariant ==
  ASSUME IInv, NEW c \in Callers, SealFails(c)
  PROVE  IInv'
  <1> DEFINE l == caller[c].key
  <1>1. /\ caller[c].at = "seal" /\ Return(c)
        /\ file' = [file EXCEPT ![l].failure = TRUE]
        /\ lost' = [lost EXCEPT ![l] = @ + 1]
        /\ UNCHANGED <<op, objects, source, captures, runVars, worker, installed, bounds>>
        /\ UNCHANGED <<op, objects, source, captures, task, session, dir, run>>
    BY DEF SealFails, runVars
  <1>2. /\ TypeOK /\ l \in Launches
        /\ \A k \in Launches : op[k].state = "none" => file[k].preparation = None
    BY <1>1, AtCapture
  <1>3. /\ file' \in [Launches -> File]
        /\ \A k \in Launches :
              file'[k].preparation = file[k].preparation /\ file'[k].receipt = file[k].receipt
    BY <1>1, <1>2, MarkMoves
  <1>4. /\ caller' \in [Callers -> Caller] /\ caller'[c].at = "idle"
        /\ \A d \in Callers \ {c} : caller'[d] = caller[d]
    BY <1>1, <1>2, ReturnMoves
  <1>5. TypeOK'
    BY <1>1, <1>2, <1>3, <1>4 DEF TypeOK, Caller, File, runVars, bounds
  <1>6. Grows
    BY <1>1, <1>3 DEF Grows
  <1>7. RowsFit' /\ CapturesFit'
    BY <1>1, <1>2, <1>3, <1>4, <1>6, RowsStay, CaptureLost
  <1> QED
    BY <1>1, <1>3, <1>5, <1>6, <1>7, CallerReturns DEF IInv, CallersFit, Committing

LEMMA LookUpSourceInvariant ==
  ASSUME IInv, NEW c \in Callers, LookUpSource(c)
  PROVE  IInv'
  <1>1. /\ caller[c].at = "source"
        /\ IF source[caller[c].digest] # None THEN Goto(c, "task") ELSE Goto(c, "create")
        /\ UNCHANGED <<op, launchVars, runVars, worker, installed, bounds>>
        /\ UNCHANGED <<op, file, objects, source>>
    BY DEF LookUpSource, launchVars
  <1>2. /\ TypeOK /\ caller[c].key \in Launches /\ caller[c].key \in Keys
        /\ caller[c].definition = None /\ op[caller[c].key].state # "none"
        /\ file[caller[c].key].preparation # None
        /\ caller[c].digest = file[caller[c].key].receipt /\ caller[c].digest \in objects
    BY <1>1, AtCapture
  <1>3. PICK s \in {"task", "create"} :
            Goto(c, s) /\ (s = "task" => source[caller[c].digest] # None)
    BY <1>1
  <1>4. s \in Step
    BY DEF Step, LeaseSteps
  <1>5. /\ caller' \in [Callers -> Caller]
        /\ caller'[c].at = s /\ caller'[c].key = caller[c].key /\ caller'[c].definition = None
        /\ caller'[c].digest = caller[c].digest
        /\ \A d \in Callers \ {c} : caller'[d] = caller[d]
    BY <1>2, <1>3, <1>4, GotoMoves
  <1>6. KeyFits(c)' /\ CaptureFits(c)' /\ SessionFits(c)'
    BY <1>1, <1>2, <1>3, <1>5 DEF KeyFits, CaptureFits, SessionFits
  <1> QED
    BY <1>1, <1>5, <1>6, QuietStep DEF LeaseSteps

LEMMA CreateSourceInvariant ==
  ASSUME IInv, NEW c \in Callers, CreateSource(c)
  PROVE  IInv'
  <1> DEFINE x == caller[c].digest
  <1>1. /\ caller[c].at = "create" /\ Goto(c, "task")
        /\ source' = [source EXCEPT ![x] = IF @ = None THEN caller[c].key ELSE @]
        /\ UNCHANGED <<op, file, objects, captures, lost, runVars, worker, installed, bounds>>
        /\ UNCHANGED <<op, file, objects, captures, lost, task, session, dir, run>>
    BY DEF CreateSource, runVars
  <1>2. /\ TypeOK /\ caller[c].key \in Launches /\ caller[c].key \in Keys
        /\ caller[c].definition = None /\ op[caller[c].key].state # "none"
        /\ file[caller[c].key].preparation # None
        /\ x = file[caller[c].key].receipt /\ x \in objects /\ x \in Digests
        /\ \A k \in Launches : op[k].state = "none" => file[k].preparation = None
    BY <1>1, AtCapture DEF TypeOK
  <1>3. /\ caller' \in [Callers -> Caller]
        /\ caller'[c].at = "task" /\ caller'[c].key = caller[c].key /\ caller'[c].definition = None
        /\ caller'[c].digest = x
        /\ \A d \in Callers \ {c} : caller'[d] = caller[d]
    BY <1>1, <1>2, GotoMoves DEF Step, LeaseSteps
  <1>4. /\ source' \in [Digests -> Launches \cup {None}] /\ source'[x] # None
        /\ \A d \in Digests : source[d] # None => source'[d] # None
    BY <1>1, <1>2 DEF TypeOK, Keys
  <1>5. TypeOK'
    BY <1>1, <1>2, <1>3, <1>4 DEF TypeOK, Caller, runVars, bounds
  <1>6. Grows
    BY <1>1, <1>4 DEF Grows
  <1>7. RowsFit' /\ CapturesFit'
    BY <1>1, <1>2, <1>3, <1>6, RowsStay, CapturesStay
  <1>8. KeyFits(c)' /\ CaptureFits(c)' /\ SessionFits(c)'
    BY <1>1, <1>2, <1>3, <1>4 DEF KeyFits, CaptureFits, SessionFits
  <1> QED
    BY <1>1, <1>3, <1>5, <1>6, <1>7, <1>8, CallerGoesOn DEF LeaseSteps

-----------------------------------------------------------------------------
(* Task and session, of a launch and of a restart. *)

LEMMA AtFinish ==
  ASSUME IInv, NEW c \in Callers,
         caller[c].at \in {"task", "session", "run", "commit", "complete"}
  PROVE  /\ TypeOK /\ caller[c] \in Caller
         /\ caller[c].key \in Keys /\ caller[c].definition = None
         /\ op[caller[c].key].state # "none"
         /\ \A k \in Launches : op[k].state = "none" => file[k].preparation = None
  BY AtStep DEF KeyFits

LEMMA EnsureTaskInvariant ==
  ASSUME IInv, NEW c \in Callers, EnsureTask(c)
  PROVE  IInv'
  <1> DEFINE k == caller[c].key
  <1>1. /\ caller[c].at = "task"
        /\ UNCHANGED <<op, launchVars, session, dir, run, worker, installed, bounds>>
        /\ UNCHANGED <<op, file, objects, source, captures, lost, session, dir, run>>
    BY DEF EnsureTask, launchVars
  <1>2. /\ TypeOK /\ k \in Keys /\ caller[c].definition = None /\ op[k].state # "none"
        /\ \A l \in Launches : op[l].state = "none" => file[l].preparation = None
        /\ CaptureFits(c)
    BY <1>1, AtFinish, AtStep
  <1>3. CASE Return(c) /\ UNCHANGED task
    BY <1>1, <1>3, QuietReturn DEF runVars
  <1>4. CASE task[k] # "revised" /\ task' = [task EXCEPT ![k] = "draft"] /\ Goto(c, "session")
    <2>1. /\ caller' \in [Callers -> Caller]
          /\ caller'[c].at = "session" /\ caller'[c].key = k /\ caller'[c].definition = None
          /\ caller'[c].digest = caller[c].digest
          /\ \A d \in Callers \ {c} : caller'[d] = caller[d]
      BY <1>2, <1>4, GotoMoves DEF Step, LeaseSteps
    <2>2. /\ task' \in [Keys -> {"absent", "draft", "revised"}]
          /\ \A j \in Keys : task[j] = "draft" => task'[j] = "draft"
      BY <1>2, <1>4 DEF TypeOK
    <2>3. TypeOK'
      BY <1>1, <1>2, <2>1, <2>2 DEF TypeOK, Caller, launchVars, bounds
    <2>4. Grows
      BY <1>1, <2>2 DEF Grows
    <2>5. RowsFit' /\ CapturesFit'
      BY <1>1, <1>2, <2>1, <2>4, RowsStay, CapturesStay
    <2>6. KeyFits(c)' /\ CaptureFits(c)' /\ SessionFits(c)'
      BY <1>1, <1>2, <2>1 DEF KeyFits, CaptureFits, SessionFits, LaunchSteps, PreparedSteps, SealedSteps
    <2> QED
      BY <1>1, <2>1, <2>3, <2>4, <2>5, <2>6, CallerGoesOn DEF LeaseSteps
  <1> QED
    BY <1>3, <1>4 DEF EnsureTask

LEMMA CreateSessionInvariant ==
  ASSUME IInv, NEW c \in Callers, CreateSession(c)
  PROVE  IInv'
  <1> DEFINE k == caller[c].key
  <1>1. /\ caller[c].at = "session"
        /\ UNCHANGED <<op, launchVars, task, dir, run, worker, installed, bounds>>
        /\ UNCHANGED <<op, file, objects, source, captures, lost, task, dir, run>>
    BY DEF CreateSession, launchVars
  <1>2. /\ TypeOK /\ k \in Keys /\ caller[c].definition = None /\ op[k].state # "none"
        /\ \A l \in Launches : op[l].state = "none" => file[l].preparation = None
        /\ CaptureFits(c)
    BY <1>1, AtFinish, AtStep
  <1>3. CASE Return(c) /\ UNCHANGED session
    BY <1>1, <1>3, QuietReturn DEF runVars
  <1>4. CASE /\ session' = [session EXCEPT ![k] = IF @ = None THEN Inputs(c) ELSE @]
             /\ caller' = [caller EXCEPT ![c].at = "run", ![c].digest = None]
    <2>1. "run" \in Step /\ None \in Digests \cup {None}
      BY DEF Step, LeaseSteps
    <2>2. /\ caller' \in [Callers -> Caller]
          /\ caller'[c].at = "run" /\ caller'[c].key = caller[c].key /\ caller'[c].definition = None
          /\ \A d \in Callers \ {c} : caller'[d] = caller[d]
      BY <1>2, <1>4, <2>1, DigestMoves
    <2>3. k \in Launches =>
            /\ Inputs(c) = [digest |-> caller[c].digest, definition |-> file[k].preparation]
            /\ caller[c].digest = file[k].receipt /\ caller[c].digest \in objects
            /\ caller[c].digest \in Digests /\ file[k].preparation \in Deployments
            /\ source[caller[c].digest] # None /\ file[k].preparation # None
      BY <1>1, <1>2 DEF CaptureFits, TypeOK, Inputs, PreparedSteps, SealedSteps
    <2>4. k \notin Launches =>
            /\ k \in Restarts /\ op[k].old.run \in Keys /\ run[op[k].old.run] # None
            /\ Inputs(c) = session[op[k].old.run] /\ session[op[k].old.run] # None
            /\ session[op[k].old.run] \in SessionOf
            /\ run[op[k].old.run].digest = session[op[k].old.run].digest
            /\ run[op[k].old.run].definition = session[op[k].old.run].definition
      BY <1>2 DEF IInv, RowsFit, OldFits, ReadRun, Keys, Inputs, TypeOK
    <2>5. Inputs(c) \in SessionOf
      BY <2>3, <2>4 DEF SessionOf
    <2>6. /\ session' \in [Keys -> SessionOf \cup {None}]
          /\ session'[k] # None /\ (session[k] = None => session'[k] = Inputs(c))
          /\ \A j \in Keys : session[j] # None => session'[j] = session[j]
          /\ \A j \in Keys \ {k} : session'[j] = session[j]
      BY <1>2, <1>4, <2>5 DEF TypeOK
    <2>7. TypeOK'
      BY <1>1, <1>2, <2>2, <2>6 DEF TypeOK, Caller, launchVars, bounds
    <2>8. Grows
      BY <1>1, <2>6 DEF Grows
    <2>9. PICK i \in Keys : i = k
      BY <1>2
    <2>10. SessionBound(i)'
      <3>1. CASE session[i] # None
        BY <2>8, <3>1, SessionStays
      <3>2. CASE session[i] = None
        <4>1. session'[i] = Inputs(c)
          BY <2>6, <2>9, <3>2
        <4>2. i \in Launches =>
                session'[i].digest = caller[c].digest /\ session'[i].definition = file[i].preparation
          BY <2>3, <2>9, <4>1
        <4>3. i \in Restarts => i \notin Launches
          OBVIOUS
        <4>4. op[i].state # "none"
          BY <1>2, <2>9
        <4> QED
          BY <1>1, <2>3, <2>4, <2>9, <4>1, <4>2, <4>3, <4>4 DEF SessionBound
      <3> QED
        BY <3>1, <3>2
    <2>11. RowsFit'
      <3>1. \A j \in Keys : session'[j] # None => SessionBound(j)'
        <4> SUFFICES ASSUME NEW j \in Keys, session'[j] # None PROVE SessionBound(j)'
          OBVIOUS
        <4>1. CASE j = i
          BY <2>10, <4>1
        <4>2. CASE j # i
          BY <2>6, <2>8, <2>9, <4>2, SessionStays
        <4> QED
          BY <4>1, <4>2
      <3>2. \A j \in Keys : j \in Restarts /\ op[j].state # "none" => OldFits(op[j].old)'
        BY <2>8, OldStays
      <3> QED
        BY <1>1, <2>6, <3>1, <3>2 DEF IInv, RowsFit
    <2>12. CapturesFit'
      BY <1>1, <2>2, CapturesStay
    <2>13. KeyFits(c)' /\ CaptureFits(c)' /\ SessionFits(c)'
      BY <1>1, <1>2, <2>2, <2>6 DEF KeyFits, CaptureFits, SessionFits, LaunchSteps, PreparedSteps, SealedSteps
    <2> QED
      BY <1>1, <2>2, <2>7, <2>8, <2>11, <2>12, <2>13, CallerGoesOn DEF LeaseSteps
  <1> QED
    BY <1>3, <1>4 DEF CreateSession

-----------------------------------------------------------------------------
(* The Run and the end of the operation. *)

LEMMA StartAuthoringRunInvariant ==
  ASSUME IInv, NEW c \in Callers, StartAuthoringRun(c)
  PROVE  IInv'
  <1> DEFINE k == caller[c].key
  <1>1. /\ caller[c].at = "run"
        /\ UNCHANGED <<op, launchVars, task, session, run, worker, installed, bounds>>
        /\ UNCHANGED <<op, file, objects, source, captures, lost, task, session, run>>
    BY DEF StartAuthoringRun, launchVars
  <1>2. /\ TypeOK /\ k \in Keys /\ caller[c].definition = None /\ op[k].state # "none"
        /\ \A l \in Launches : op[l].state = "none" => file[l].preparation = None
        /\ session[k] # None
    BY <1>1, AtFinish, AtStep DEF SessionFits
  <1>3. CASE Return(c) /\ UNCHANGED dir
    BY <1>1, <1>3, QuietReturn DEF runVars
  <1>4. CASE run[k] # None /\ Goto(c, "complete") /\ UNCHANGED dir
    <2>1. /\ caller' \in [Callers -> Caller]
          /\ caller'[c].at = "complete" /\ caller'[c].key = k /\ caller'[c].definition = None
          /\ \A d \in Callers \ {c} : caller'[d] = caller[d]
      BY <1>2, <1>4, GotoMoves DEF Step, LeaseSteps
    <2>2. KeyFits(c)' /\ CaptureFits(c)' /\ SessionFits(c)'
      BY <1>1, <1>2, <1>4, <2>1 DEF KeyFits, CaptureFits, SessionFits, LaunchSteps, PreparedSteps, SealedSteps
    <2> QED
      BY <1>1, <1>4, <2>1, <2>2, QuietStep DEF LeaseSteps, runVars
  <1>5. CASE run[k] = None /\ ~dir[k] /\ dir' = [dir EXCEPT ![k] = TRUE] /\ Goto(c, "commit")
    <2>1. /\ caller' \in [Callers -> Caller]
          /\ caller'[c].at = "commit" /\ caller'[c].key = k /\ caller'[c].definition = None
          /\ \A d \in Callers \ {c} : caller'[d] = caller[d]
      BY <1>2, <1>5, GotoMoves DEF Step, LeaseSteps
    <2>2. dir' \in [Keys -> BOOLEAN] /\ dir'[k] /\ \A j \in Keys : dir[j] => dir'[j]
      BY <1>2, <1>5 DEF TypeOK
    <2>3. TypeOK'
      BY <1>1, <1>2, <2>1, <2>2 DEF TypeOK, Caller, launchVars, bounds
    <2>4. Grows
      BY <1>1, NothingGrows
    <2>5. RowsFit' /\ CapturesFit'
      BY <1>1, <1>2, <2>1, <2>4, RowsStay, CapturesStay
    <2>6. KeyFits(c)' /\ CaptureFits(c)' /\ SessionFits(c)' /\ Fresh(c)' /\ Committing(c)'
      BY <1>1, <1>2, <1>5, <2>1, <2>2 DEF KeyFits, CaptureFits, SessionFits, Fresh, Committing,
          LaunchSteps, PreparedSteps, SealedSteps
    <2>7. \A d \in Callers \ {c} : Fresh(d)' /\ Committing(d)'
      BY <1>1, <2>1, <2>2, AtStep DEF Fresh, Committing, KeyFits
    <2>8. \A d \in Callers \ {c} : caller[d].at = "commit" => caller[d].key # k
      BY <1>5, AtStep DEF Committing
    <2>9. Holds(c)' => Holds(c)
      BY <1>1, <2>1 DEF Holds, LeaseSteps
    <2>10. \A d \in Callers \ {c} : caller'[c].key = caller[d].key =>
              /\ ~(Holds(c)' /\ Holds(d))
              /\ ~(caller'[c].definition # None /\ caller[d].definition # None)
              /\ ~(caller'[c].at = "commit" /\ caller[d].at = "commit")
      BY <2>1, <2>8, <2>9 DEF IInv, Exclusive
    <2> QED
      BY <2>1, <2>3, <2>4, <2>5, <2>6, <2>7, <2>10, CallerStep
  <1> QED
    BY <1>3, <1>4, <1>5 DEF StartAuthoringRun

LEMMA CommitRunInvariant ==
  ASSUME IInv, NEW c \in Callers, CommitRun(c)
  PROVE  IInv'
  <1>1. /\ caller[c].at = "commit" /\ Goto(c, "complete")
        /\ UNCHANGED <<op, launchVars, task, session, dir, worker, installed, bounds>>
        /\ UNCHANGED <<op, file, objects, source, captures, lost, task, session, dir>>
    BY DEF CommitRun, launchVars
  <1>2. PICK k \in Keys : k = caller[c].key
    BY <1>1, AtFinish
  <1> DEFINE new == [status |-> "queued", version |-> 1,
                     digest |-> session[k].digest, definition |-> session[k].definition]
  <1>3. /\ TypeOK /\ caller[c].definition = None /\ op[k].state # "none"
        /\ \A l \in Launches : op[l].state = "none" => file[l].preparation = None
        /\ session[k] # None /\ session[k] \in SessionOf /\ run[k] = None /\ dir[k]
    BY <1>1, <1>2, AtFinish, AtStep DEF SessionFits, Committing, TypeOK
  <1>4. /\ new \in RunOf /\ new # None
        /\ new.digest = session[k].digest /\ new.definition = session[k].definition
    BY <1>3 DEF SessionOf, RunOf, Status
  <1>5. run' = [run EXCEPT ![k] = new]
    BY <1>2 DEF CommitRun
  <1> HIDE DEF new
  <1>6. /\ run' \in [Keys -> RunOf \cup {None}] /\ run'[k] = new
        /\ \A j \in Keys \ {k} : run'[j] = run[j]
    BY <1>3, <1>4, <1>5 DEF TypeOK
  <1>7. /\ caller' \in [Callers -> Caller]
        /\ caller'[c].at = "complete" /\ caller'[c].key = k /\ caller'[c].definition = None
        /\ \A d \in Callers \ {c} : caller'[d] = caller[d]
    BY <1>1, <1>2, <1>3, GotoMoves DEF Step, LeaseSteps
  <1>8. TypeOK'
    BY <1>1, <1>3, <1>6, <1>7 DEF TypeOK, Caller, launchVars, bounds
  <1>9. Grows
    BY <1>1, <1>3, <1>6 DEF Grows
  <1>10. RowsFit'
    <2>1. \A j \in Keys : session[j] # None => SessionBound(j)'
      BY <1>9, SessionStays
    <2>2. \A j \in Keys : j \in Restarts /\ op[j].state # "none" => OldFits(op[j].old)'
      BY <1>9, OldStays
    <2> QED
      BY <1>1, <1>3, <1>4, <1>6, <2>1, <2>2 DEF IInv, RowsFit
  <1>11. CapturesFit'
    BY <1>1, <1>7, CapturesStay
  <1>12. KeyFits(c)' /\ CaptureFits(c)' /\ SessionFits(c)' /\ Fresh(c)' /\ Committing(c)'
    BY <1>1, <1>3, <1>4, <1>6, <1>7 DEF KeyFits, CaptureFits, SessionFits, Fresh, Committing,
        LaunchSteps, PreparedSteps, SealedSteps
  <1>13. \A d \in Callers \ {c} : caller[d].at = "commit" => caller[d].key # k
    BY <1>1, <1>2 DEF IInv, Exclusive
  <1>14. \A d \in Callers \ {c} : Fresh(d)' /\ Committing(d)'
    BY <1>1, <1>6, <1>7, <1>13, AtStep DEF Fresh, Committing, KeyFits
  <1>15. Holds(c)' => Holds(c)
    BY <1>1, <1>2, <1>7 DEF Holds, LeaseSteps
  <1>16. \A d \in Callers \ {c} : caller'[c].key = caller[d].key =>
            /\ ~(Holds(c)' /\ Holds(d))
            /\ ~(caller'[c].definition # None /\ caller[d].definition # None)
            /\ ~(caller'[c].at = "commit" /\ caller[d].at = "commit")
    BY <1>2, <1>7, <1>15, StillExclusive
  <1> QED
    BY <1>7, <1>8, <1>9, <1>10, <1>11, <1>12, <1>14, <1>16, CallerStep

LEMMA CommitFailsInvariant ==
  ASSUME IInv, NEW c \in Callers, CommitFails(c)
  PROVE  IInv'
  <1> DEFINE k == caller[c].key
  <1>1. /\ caller[c].at = "commit" /\ Return(c) /\ dir' = [dir EXCEPT ![k] = FALSE]
        /\ UNCHANGED <<op, launchVars, task, session, run, worker, installed, bounds>>
        /\ UNCHANGED <<op, file, objects, source, captures, lost, task, session, run>>
    BY DEF CommitFails, launchVars
  <1>2. /\ TypeOK /\ k \in Keys
        /\ \A l \in Launches : op[l].state = "none" => file[l].preparation = None
    BY <1>1, AtFinish
  <1>3. dir' \in [Keys -> BOOLEAN] /\ \A j \in Keys \ {k} : dir'[j] = dir[j]
    BY <1>1, <1>2 DEF TypeOK
  <1>4. /\ caller' \in [Callers -> Caller]
        /\ \A d \in Callers \ {c} : caller'[d] = caller[d]
    BY <1>1, <1>2, ReturnMoves
  <1>5. TypeOK'
    BY <1>1, <1>2, <1>3, <1>4 DEF TypeOK, Caller, launchVars, bounds
  <1>6. Grows
    BY <1>1, NothingGrows
  <1>7. RowsFit' /\ CapturesFit'
    BY <1>1, <1>2, <1>4, <1>6, RowsStay, CapturesStay
  <1>8. \A d \in Callers \ {c} : caller[d].at = "commit" =>
            caller[d].key \in Keys \ {k} /\ dir[caller[d].key] /\ run[caller[d].key] = None
    BY <1>1, AtStep DEF IInv, Exclusive, Committing, KeyFits
  <1> QED
    BY <1>1, <1>3, <1>5, <1>6, <1>7, <1>8, CallerReturns

LEMMA CompleteInvariant ==
  ASSUME IInv, NEW c \in Callers, Complete(c)
  PROVE  IInv'
  <1>1. /\ caller[c].at = "complete" /\ Return(c)
        /\ op' = [op EXCEPT ![caller[c].key].state = "completed"]
        /\ UNCHANGED <<launchVars, runVars, worker, installed, bounds>>
        /\ UNCHANGED <<file, objects, source, captures, lost, task, session, dir, run>>
    BY DEF Complete, launchVars, runVars
  <1>2. PICK k \in Keys : k = caller[c].key
    BY <1>1, AtFinish
  <1>3. /\ TypeOK /\ op[k].state # "none" /\ run[k] # None
        /\ \A l \in Launches : op[l].state = "none" => file[l].preparation = None
    BY <1>1, <1>2, AtFinish, AtStep DEF SessionFits
  <1>4. /\ op' \in [Keys -> Operation]
        /\ op'[k].state = "completed" /\ op'[k].old = op[k].old
        /\ \A j \in Keys \ {k} : op'[j] = op[j]
    BY <1>1, <1>2, <1>3, OperationMoves
  <1>5. /\ caller' \in [Callers -> Caller]
        /\ \A d \in Callers \ {c} : caller'[d] = caller[d]
    BY <1>1, <1>3, ReturnMoves
  <1>6. TypeOK'
    BY <1>1, <1>3, <1>4, <1>5 DEF TypeOK, Caller, Operation, launchVars, runVars, bounds
  <1>7. Grows
    BY <1>1, <1>3, <1>4 DEF Grows
  <1>8. RowsFit'
    <2>1. \A j \in Keys : session[j] # None => SessionBound(j)'
      BY <1>7, SessionStays
    <2>2. \A j \in Keys : j \in Restarts /\ op[j].state # "none" => OldFits(op[j].old)'
      BY <1>7, OldStays
    <2>3. \A j \in Keys :
            /\ op'[j].state = "none" => op[j].state = "none"
            /\ op'[j].state # "none" => op[j].state # "none"
            /\ op'[j].state = "completed" => op[j].state = "completed" \/ j = k
      BY <1>3, <1>4
    <2>4. \A j \in Keys :
            /\ run'[j] # None =>
                /\ session'[j] # None
                /\ run'[j].digest = session'[j].digest /\ run'[j].definition = session'[j].definition
            /\ op'[j].state = "completed" => run'[j] # None
      BY <1>1, <1>3, <2>3 DEF IInv, RowsFit
    <2>5. \A j \in Keys : session'[j] # None => SessionBound(j)'
      BY <1>1, <2>1
    <2>6. \A j \in Keys : j \in Restarts /\ op'[j].state # "none" => OldFits(op[j].old)'
      BY <2>2, <2>3
    <2>7. \A j \in Keys : j \in Launches /\ op'[j].state = "none" => file'[j].preparation = None
      BY <1>1, <1>3, <2>3
    <2> QED
      BY <2>4, <2>5, <2>6, <2>7 DEF RowsFit
  <1>9. CapturesFit'
    BY <1>1, <1>5, CapturesStay
  <1> QED
    BY <1>1, <1>6, <1>7, <1>8, <1>9, CallerReturns DEF IInv, CallersFit, Committing

LEMMA CrashInvariant ==
  ASSUME IInv, NEW c \in Callers, Crash(c)
  PROVE  IInv'
  <1>1. /\ Return(c)
        /\ UNCHANGED <<op, file, objects, source, captures, runVars, worker, installed, bounds>>
        /\ UNCHANGED <<op, file, objects, source, captures, task, session, dir, run>>
    BY DEF Crash, runVars
  <1>2. CASE caller[c].at # "seal"
    BY <1>1, <1>2, QuietReturn DEF Crash, launchVars
  <1>3. CASE caller[c].at = "seal"
    <2>1. /\ lost' = [lost EXCEPT ![caller[c].key] = @ + 1]
          /\ TypeOK /\ caller[c].key \in Launches
          /\ \A l \in Launches : op[l].state = "none" => file[l].preparation = None
      BY <1>3, AtCapture DEF Crash
    <2>2. /\ caller' \in [Callers -> Caller] /\ caller'[c].at = "idle"
          /\ \A d \in Callers \ {c} : caller'[d] = caller[d]
      BY <1>1, <2>1, ReturnMoves
    <2>3. TypeOK'
      BY <1>1, <2>1, <2>2 DEF TypeOK, Caller, runVars, bounds
    <2>4. Grows
      BY <1>1, NothingGrows
    <2>5. RowsFit' /\ CapturesFit'
      BY <1>1, <1>3, <2>1, <2>2, <2>4, RowsStay, CaptureLost
    <2> QED
      BY <1>1, <2>3, <2>4, <2>5, CallerReturns DEF IInv, CallersFit, Committing
  <1> QED
    BY <1>2, <1>3

-----------------------------------------------------------------------------
(* The restart. *)

LEMMA ReadRestartedInvariant ==
  ASSUME IInv, NEW c \in Callers, NEW k \in Restarts, NEW r \in Keys, ReadRestarted(c, k, r)
  PROVE  IInv'
  <1> DEFINE old == [run |-> r, version |-> run[r].version, status |-> run[r].status]
             new == [Idle EXCEPT !.at = "begin", !.key = k, !.old = old]
  <1>1. /\ TypeOK /\ caller[c].at = "idle" /\ k \in Keys
        /\ run[r] # None /\ run[r] \in RunOf /\ task[r] = "draft"
        /\ caller' = [caller EXCEPT ![c] = new]
        /\ calls' \in 0 .. MaxCalls
        /\ UNCHANGED <<op, launchVars, runVars, worker, installed, moves>>
        /\ UNCHANGED <<op, file, objects, source, captures, lost, task, session, dir, run>>
    BY DEF IInv, TypeOK, ReadRestarted, Call, Keys, launchVars, runVars
  <1>2. old \in ReadRun /\ OldFits(old)
    BY <1>1 DEF ReadRun, RunOf, OldFits
  <1> HIDE DEF old
  <1>3. /\ new \in Caller /\ new.at = "begin" /\ new.key = k /\ new.old = old
        /\ new.definition = None
    BY <1>1, <1>2 DEF Idle, Caller, Step
  <1> HIDE DEF new
  <1>4. /\ caller' \in [Callers -> Caller] /\ caller'[c] = new
        /\ \A d \in Callers \ {c} : caller'[d] = caller[d]
    BY <1>1, <1>3 DEF TypeOK, Caller
  <1>5. TypeOK'
    BY <1>1, <1>4 DEF TypeOK, Caller, launchVars, runVars
  <1>6. Grows
    BY <1>1, NothingGrows
  <1>7. RowsFit' /\ CapturesFit'
    BY <1>1, <1>4, <1>6, AtStep, RowsStay, CapturesStay
  <1>8. KeyFits(c)' /\ CaptureFits(c)' /\ SessionFits(c)' /\ Fresh(c)' /\ Committing(c)'
    BY <1>1, <1>2, <1>3, <1>4 DEF KeyFits, CaptureFits, SessionFits, Fresh, Committing, OldFits,
        LaunchSteps, PreparedSteps, SealedSteps
  <1>9. \A d \in Callers \ {c} : Fresh(d)' /\ Committing(d)'
    BY <1>1, <1>4, OthersStand
  <1>10. ~Holds(c)' /\ caller'[c].at # "commit" /\ caller'[c].definition = None
    BY <1>3, <1>4 DEF Holds, LeaseSteps
  <1> QED
    BY <1>4, <1>5, <1>6, <1>7, <1>8, <1>9, <1>10, CallerStep

LEMMA BeginRestartInvariant ==
  ASSUME IInv, NEW c \in Callers, BeginRestart(c)
  PROVE  IInv'
  <1>1. /\ TypeOK /\ caller[c].at = "begin" /\ caller[c].key \in Restarts
        /\ OldFits(caller[c].old) /\ caller[c] \in Caller /\ caller[c].definition = None
        /\ \A l \in Launches : op[l].state = "none" => file[l].preparation = None
    BY AtStep DEF BeginRestart, KeyFits
  <1>2. /\ UNCHANGED <<launchVars, runVars, worker, installed, bounds>>
        /\ UNCHANGED <<file, objects, source, captures, lost, task, session, dir, run>>
    BY DEF BeginRestart, launchVars, runVars
  <1>3. PICK k \in Keys : k = caller[c].key
    BY <1>1 DEF Keys
  <1>4. PICK old \in ReadRun : old = caller[c].old
    BY <1>1 DEF OldFits
  <1>5. CASE Return(c) /\ UNCHANGED op
    BY <1>1, <1>2, <1>5, QuietReturn
  <1>6. CASE /\ op[k].state = "none" \/ (op[k].state = "prepared" /\ op[k].old = old)
             /\ op' = [op EXCEPT ![k] = [state |-> "prepared", old |-> old]]
             /\ caller' = [caller EXCEPT ![c].at = "task", ![c].old = None]
    <2> DEFINE new == [caller[c] EXCEPT !.at = "task", !.old = None]
    <2>1. caller' = [caller EXCEPT ![c] = new]
      BY <1>1, <1>6 DEF TypeOK
    <2>2. /\ new \in Caller /\ new.at = "task" /\ new.key = k /\ new.definition = None
      BY <1>1, <1>3 DEF Caller, Step, LeaseSteps
    <2> HIDE DEF new
    <2>3. /\ caller' \in [Callers -> Caller]
          /\ caller'[c].at = "task" /\ caller'[c].key = k /\ caller'[c].definition = None
          /\ \A d \in Callers \ {c} : caller'[d] = caller[d]
      BY <1>1, <2>1, <2>2 DEF TypeOK, Caller
    <2>4. /\ op' \in [Keys -> Operation]
          /\ op'[k].state = "prepared" /\ op'[k].old = old
          /\ \A j \in Keys \ {k} : op'[j] = op[j]
      BY <1>1, <1>6 DEF TypeOK, Operation
    <2>5. TypeOK'
      BY <1>1, <1>2, <2>3, <2>4 DEF TypeOK, Caller, Operation, launchVars, runVars, bounds
    <2>6. Grows
      BY <1>2, <1>6, <2>4 DEF Grows
    <2>7. RowsFit'
      <3>1. \A j \in Keys : session'[j] # None => SessionBound(j)'
        BY <1>2, <2>6, SessionStays
      <3>2. OldFits(op[k].old)'
        BY <1>1, <1>2, <1>4, <2>4 DEF OldFits
      <3>3. \A j \in Keys : j \in Restarts /\ op'[j].state # "none" => OldFits(op[j].old)'
        <4> SUFFICES ASSUME NEW j \in Keys, j \in Restarts, op'[j].state # "none"
                     PROVE  OldFits(op[j].old)'
          OBVIOUS
        <4>1. CASE j = k
          BY <3>2, <4>1
        <4>2. CASE j # k
          <5>1. op[j].state # "none"
            BY <2>4, <4>2
          <5> QED
            BY <2>6, <5>1, OldStays
        <4> QED
          BY <4>1, <4>2
      <3>4. k \notin Launches
        BY <1>1, <1>3
      <3>5. \A j \in Keys :
              /\ op'[j].state = "completed" => op[j].state = "completed"
              /\ j \in Launches => op'[j] = op[j]
        BY <2>4, <3>4
      <3>6. \A j \in Keys :
              /\ run'[j] # None =>
                  /\ session'[j] # None
                  /\ run'[j].digest = session'[j].digest /\ run'[j].definition = session'[j].definition
              /\ op'[j].state = "completed" => run'[j] # None
              /\ j \in Launches /\ op'[j].state = "none" => file'[j].preparation = None
        BY <1>1, <1>2, <3>5 DEF IInv, RowsFit
      <3> QED
        BY <3>1, <3>3, <3>6 DEF RowsFit
    <2>8. CapturesFit'
      BY <1>1, <1>2, <2>3, CapturesStay
    <2>9. KeyFits(c)' /\ CaptureFits(c)' /\ SessionFits(c)'
      BY <1>1, <1>3, <2>3, <2>4 DEF KeyFits, CaptureFits, SessionFits, LaunchSteps, PreparedSteps, SealedSteps
    <2> QED
      BY <1>1, <1>2, <1>3, <2>3, <2>5, <2>6, <2>7, <2>8, <2>9, CallerGoesOn
  <1> QED
    BY <1>3, <1>4, <1>5, <1>6 DEF BeginRestart

-----------------------------------------------------------------------------
(* What no caller does. *)

LEMMA OthersMove ==
  ASSUME IInv, Grows, TypeOK', RowsFit',
         UNCHANGED <<caller, op, file, objects, source, captures, lost, dir>>,
         \A k \in Keys : run[k] = None => run'[k] = None
  PROVE  IInv'
  <1>1. \A d \in Callers : KeyFits(d)' /\ CaptureFits(d)' /\ SessionFits(d)'
    BY OthersFit
  <1>2. \A d \in Callers : Fresh(d)' /\ Committing(d)'
    BY AtStep DEF Fresh, Committing, KeyFits
  <1>3. Exclusive'
    BY DEF IInv, Exclusive, Holds
  <1>4. CapturesFit'
    BY DEF IInv, CapturesFit, InHand
  <1> QED
    BY <1>1, <1>2, <1>3, <1>4 DEF IInv, CallersFit

LEMMA MoveRunInvariant ==
  ASSUME IInv, NEW k \in Keys, MoveRun(k)
  PROVE  IInv'
  <1>1. /\ TypeOK /\ run[k] # None /\ run[k] \in RunOf /\ moves' \in 0 .. MaxMoves
        /\ UNCHANGED <<caller, op, launchVars, task, session, dir, worker, installed, calls>>
        /\ UNCHANGED <<file, objects, source, captures, lost>>
    BY DEF IInv, TypeOK, MoveRun, launchVars
  <1>2. PICK s \in Successors(run[k].status) :
            run' = [run EXCEPT ![k].status = s, ![k].version = @ + 1]
    BY DEF MoveRun
  <1>3. run[k].status \in Status /\ run[k].version \in Nat
    BY <1>1 DEF RunOf
  <1>4. s \in Status /\ run[k].status # "ended"
    BY <1>2, <1>3 DEF Successors, Status
  <1> DEFINE new == [run[k] EXCEPT !.status = s, !.version = run[k].version + 1]
  <1>5. run' = [run EXCEPT ![k] = new]
    BY <1>1, <1>2 DEF TypeOK
  <1>6. /\ new \in RunOf /\ new # None
        /\ new.digest = run[k].digest /\ new.definition = run[k].definition
    <2>1. run[k].version + 1 \in Nat
      BY <1>3
    <2>2. new \in RunOf
      BY <1>1, <1>4, <2>1 DEF RunOf
    <2>3. new.digest = run[k].digest /\ new.definition = run[k].definition
      BY <1>1 DEF RunOf
    <2> HIDE DEF new
    <2> QED
      BY <2>2, <2>3
  <1> HIDE DEF new
  <1>7. /\ run' \in [Keys -> RunOf \cup {None}] /\ run'[k] = new
        /\ \A j \in Keys \ {k} : run'[j] = run[j]
    BY <1>1, <1>5, <1>6 DEF TypeOK
  <1>8. TypeOK'
    BY <1>1, <1>7 DEF TypeOK, launchVars
  <1>9. Grows
    BY <1>1, <1>4, <1>6, <1>7 DEF Grows
  <1>10. RowsFit'
    <2>1. \A j \in Keys : session'[j] # None => SessionBound(j)'
      BY <1>1, <1>9, SessionStays
    <2>2. \A j \in Keys : j \in Restarts /\ op'[j].state # "none" => OldFits(op[j].old)'
      BY <1>1, <1>9, OldStays
    <2>3. \A j \in Keys :
            /\ run'[j] # None => run[j] # None
            /\ run[j] # None => run'[j] # None
            /\ run[j] # None =>
                  run'[j].digest = run[j].digest /\ run'[j].definition = run[j].definition
      BY <1>1, <1>6, <1>7
    <2>4. \A j \in Keys :
            /\ run'[j] # None =>
                /\ session'[j] # None
                /\ run'[j].digest = session'[j].digest /\ run'[j].definition = session'[j].definition
            /\ op'[j].state = "completed" => run'[j] # None
            /\ j \in Launches /\ op'[j].state = "none" => file'[j].preparation = None
      BY <1>1, <2>3 DEF IInv, RowsFit
    <2> QED
      BY <2>1, <2>2, <2>4 DEF RowsFit
  <1>11. \A j \in Keys : run[j] = None => run'[j] = None
    BY <1>1, <1>7
  <1> QED
    BY <1>1, <1>8, <1>9, <1>10, <1>11, OthersMove

LEMMA ReadSubjectInvariant ==
  ASSUME IInv, NEW w \in Workers, NEW k \in Keys, ReadSubject(w, k)
  PROVE  IInv'
  <1>1. /\ TypeOK /\ run[k] \in RunOf
        /\ worker' = [worker EXCEPT ![w] = [key |-> k, seen |-> run[k].version]]
        /\ UNCHANGED <<caller, op, launchVars, runVars, installed, bounds>>
        /\ UNCHANGED <<op, file, objects, source, captures, lost, task, session, dir, run>>
    BY DEF IInv, TypeOK, ReadSubject, launchVars, runVars
  <1>2. [key |-> k, seen |-> run[k].version] \in [key : Keys \cup {None}, seen : Nat]
    BY <1>1 DEF RunOf
  <1>3. TypeOK'
    BY <1>1, <1>2 DEF TypeOK, launchVars, runVars, bounds
  <1>4. Grows
    BY <1>1, NothingGrows
  <1>5. RowsFit'
    BY <1>1, <1>4, AtStep, RowsStay DEF IInv, RowsFit, Keys
  <1> QED
    BY <1>1, <1>3, <1>4, <1>5, OthersMove

LEMMA MaterializeInvariant ==
  ASSUME IInv, NEW w \in Workers, Materialize(w)
  PROVE  IInv'
  <1>1. /\ TypeOK
        /\ worker' = [worker EXCEPT ![w] = [key |-> None, seen |-> 0]]
        /\ UNCHANGED <<caller, op, launchVars, session, dir, run, installed, bounds>>
        /\ UNCHANGED <<op, file, objects, source, captures, lost, session, dir, run>>
    BY DEF IInv, Materialize, launchVars
  <1>2. PICK k \in Keys : k = worker[w].key
    BY <1>1 DEF TypeOK, Materialize
  <1>3. \/ run[k].status = "running" /\ task' = [task EXCEPT ![k] = "revised"]
        \/ UNCHANGED task
    BY <1>2 DEF Materialize, Materializable
  <1>4. /\ task' \in [Keys -> {"absent", "draft", "revised"}]
        /\ \A j \in Keys : run[j].status = "ended" => task'[j] = task[j]
    BY <1>1, <1>3 DEF TypeOK
  <1>5. TypeOK'
    BY <1>1, <1>4 DEF TypeOK, launchVars, bounds
  <1>6. Grows
    BY <1>1, <1>4 DEF Grows
  <1>7. \A l \in Launches : op[l].state = "none" => file[l].preparation = None
    BY DEF IInv, RowsFit, Keys
  <1>8. RowsFit'
    BY <1>1, <1>6, <1>7, RowsStay
  <1> QED
    BY <1>1, <1>5, <1>6, <1>8, OthersMove

LEMMA InstallInvariant ==
  ASSUME IInv, Install
  PROVE  IInv'
  <1>1. /\ TypeOK /\ installed' \in Deployments
        /\ UNCHANGED <<caller, op, launchVars, runVars, worker, bounds>>
        /\ UNCHANGED <<op, file, objects, source, captures, lost, task, session, dir, run>>
    BY DEF IInv, Install, launchVars, runVars
  <1>2. TypeOK'
    BY <1>1 DEF TypeOK, launchVars, runVars, bounds
  <1>3. Grows
    BY <1>1, NothingGrows
  <1>4. RowsFit'
    BY <1>1, <1>3, RowsStay DEF IInv, RowsFit, Keys
  <1> QED
    BY <1>1, <1>2, <1>3, <1>4, OthersMove

-----------------------------------------------------------------------------
LEMMA CallerInvariant ==
  ASSUME IInv, NEW c \in Callers, Launch(c) \/ Restart(c) \/ Finish(c) \/ Crash(c)
  PROVE  IInv'
  <1>1. CASE Launch(c)
    <2>1. CASE \E l \in Launches : BeginLaunch(c, l) \/ RetryLaunch(c, l)
      BY <2>1, BeginLaunchInvariant DEF RetryLaunch
    <2>2. CASE TakeLease(c) \/ Prepare(c) \/ RecordRequest(c)
      BY <2>2, TakeLeaseInvariant, PrepareInvariant, RecordRequestInvariant
    <2>3. CASE ReuseCapture(c) \/ CaptureSource(c) \/ CaptureFails(c)
      BY <2>3, ReuseCaptureInvariant, CaptureSourceInvariant, CaptureFailsInvariant
    <2>4. CASE SealReceipt(c) \/ SealFails(c)
      BY <2>4, SealReceiptInvariant, SealFailsInvariant
    <2>5. CASE LookUpSource(c) \/ CreateSource(c)
      BY <2>5, LookUpSourceInvariant, CreateSourceInvariant
    <2> QED
      BY <1>1, <2>1, <2>2, <2>3, <2>4, <2>5 DEF Launch
  <1>2. CASE Restart(c)
    BY <1>2, ReadRestartedInvariant, BeginRestartInvariant DEF Restart
  <1>3. CASE Finish(c)
    BY <1>3, EnsureTaskInvariant, CreateSessionInvariant, StartAuthoringRunInvariant,
       CommitRunInvariant, CommitFailsInvariant, CompleteInvariant DEF Finish
  <1> QED
    BY <1>1, <1>2, <1>3, CrashInvariant

LEMMA StutterInvariant == IInv /\ UNCHANGED vars => IInv'
  BY DEF IInv, vars, launchVars, runVars, bounds, TypeOK, CallersFit, KeyFits, OldFits,
     CaptureFits, SessionFits, Fresh, Committing, Exclusive, Holds, RowsFit, SessionBound,
     CapturesFit, InHand

LEMMA NextInvariant == IInv /\ [Next]_vars => IInv'
  <1> SUFFICES ASSUME IInv, [Next]_vars PROVE IInv'
    OBVIOUS
  <1>1. CASE \E c \in Callers : Launch(c) \/ Restart(c) \/ Finish(c) \/ Crash(c)
    BY <1>1, CallerInvariant
  <1>2. CASE \E k \in Keys : MoveRun(k) \/ \E w \in Workers : ReadSubject(w, k)
    BY <1>2, MoveRunInvariant, ReadSubjectInvariant
  <1>3. CASE \E w \in Workers : Materialize(w)
    BY <1>3, MaterializeInvariant
  <1>4. CASE Install
    BY <1>4, InstallInvariant
  <1>5. CASE UNCHANGED vars
    BY <1>5, StutterInvariant
  <1> QED
    BY <1>1, <1>2, <1>3, <1>4, <1>5 DEF Next

LEMMA InvariantHolds == Spec => []IInv
  <1> QED
    BY InitInvariant, NextInvariant, PTL DEF Spec

(* Every state of every launch is of the shape the model gives it.         *)
THEOREM TypeCorrect == Spec => []TypeOK
  <1>1. IInv => TypeOK
    BY DEF IInv
  <1> QED
    BY <1>1, InvariantHolds, PTL

(* For any number of callers, launches, restarts, archives, deployments,   *)
(* calls and deaths: the Run of a launch works on the archive its receipt  *)
(* sealed, which is stored and recorded, under the deployment it prepared, *)
(* that of a restart on what the restarted Run worked on, and a completed  *)
(* operation has its Run (Start, RestartAuthoringRun).                     *)
THEOREM RunIsBound == Spec => []RunBoundToReceipt
  <1>1. IInv => RunBoundToReceipt
    <2> SUFFICES ASSUME IInv PROVE RunBoundToReceipt
      OBVIOUS
    <2>1. \A k \in Keys : run[k] # None =>
            /\ SessionBound(k)
            /\ run[k].digest = session[k].digest /\ run[k].definition = session[k].definition
      BY DEF IInv, RowsFit
    <2>2. \A l \in Launches : run[l] # None =>
            /\ run[l].digest = file[l].receipt /\ run[l].definition = file[l].preparation
            /\ run[l].digest \in objects /\ source[run[l].digest] # None
      BY <2>1 DEF SessionBound, Keys
    <2>3. \A k \in Restarts : run[k] # None =>
            /\ run[k].digest = run[op[k].old.run].digest
            /\ run[k].definition = run[op[k].old.run].definition
      BY <2>1 DEF SessionBound, Keys
    <2>4. \A k \in Keys : op[k].state = "completed" => run[k] # None
      BY DEF IInv, RowsFit
    <2> QED
      BY <2>2, <2>3, <2>4 DEF RunBoundToReceipt
  <1> QED
    BY <1>1, InvariantHolds, PTL

(* For any number of callers and captures: Git is asked at most once more  *)
(* than captures were lost before a receipt, so two callers never fetch    *)
(* side by side and a sealed launch never fetches again                    *)
(* (ensureStandardAuthoringLaunchCaptureReceipt).                          *)
THEOREM OneCaptureIsSealed == Spec => []RecaptureOnlyAfterInterruption
  <1>1. IInv => RecaptureOnlyAfterInterruption
    BY DEF IInv, CapturesFit, RecaptureOnlyAfterInterruption
  <1> QED
    BY <1>1, InvariantHolds, PTL

(* For any number of workers, transitions and restarts of restarts: the    *)
(* Task of a Run restarted after its end stays a draft                     *)
(* (RestartAuthoringRun, MaterializeAuthoringTask).                        *)
THEOREM HistoryStays == Spec => []RestartedRunIsHistory
  <1>1. IInv => RestartedRunIsHistory
    BY DEF IInv, RowsFit, OldFits, RestartedRunIsHistory, Keys
  <1> QED
    BY <1>1, InvariantHolds, PTL
=============================================================================
