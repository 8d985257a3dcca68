------------------------- MODULE TaskLifecycle_proofs -------------------------
(***************************************************************************)
(* The purge's fence and a release's files, for any number of callers,     *)
(* keys, transitions, leases and calls.                                    *)
(***************************************************************************)
EXTENDS TaskLifecycle, TLAPS

Keys == CommandKeys \cup PurgeKeys
StartSteps == {"mkdir", "write", "commit", "undo"}
PackageSteps == {"look", "prepare", "seal", "confirm", "promote", "record", "publish"}

Caller ==
    [at : Step, key : Keys \cup {None}, made : BOOLEAN, won : BOOLEAN,
     taken : Packaged \cup {None}, rev : {"validated", "released", None},
     task : [state : TaskState \cup {None}, version : Nat], seen : Nat]
Release == [key : PackageKeys \cup {None}, withdrawn : BOOLEAN, taken : Packaged \cup {None}]
Operation == [state : {"none", "prepared", "completed"}, task : Nat, rev : Nat]
PurgeOperation ==
    [state : {"none", "in_progress", "blocked", "completed"}, task : Nat,
     version : Nat, lease : {"none", "held", "lapsed"}]

(* The sets the variables live in, where TypeOK names only what matters.   *)
Shapes ==
    /\ caller \in [Callers -> Caller]
    /\ task \in [state : TaskState, version : 1 .. MaxTaskVersion]
    /\ op \in [CommandKeys -> Operation]
    /\ release \in Release
    /\ purge \in [PurgeKeys -> PurgeOperation]

(* A checkpoint is not of the future.                                      *)
CheckpointsArePast ==
    \A k \in CommandKeys : op[k].state # "none" => op[k].rev \in 1 .. rev.version

(* A step of a command belongs to a key of that command.                   *)
KeyFits(c) ==
    /\ caller[c].at \in StartSteps => caller[c].key \in StartKeys
    /\ caller[c].at \in PackageSteps => caller[c].key \in PackageKeys
    /\ caller[c].at \in {"check", "finish"} => caller[c].key \in CommandKeys
    /\ caller[c].at \in {"remove", "failed"} => caller[c].key \in PurgeKeys

(* Whoever works has frozen a checkpoint, and who read a validated revision *)
(* froze it as validated.                                                  *)
CheckpointFits(c) ==
    /\ caller[c].at \in StartSteps \cup PackageSteps \cup {"check", "finish"} =>
          op[caller[c].key].state # "none"
    /\ caller[c].at \in {"prepare", "seal", "confirm", "promote"} /\ caller[c].rev = "validated" =>
          op[caller[c].key].rev = 1

(* A package that was sealed when its caller took it is sealed still.      *)
TakenStands(c) ==
    caller[c].taken \in Packaged /\ (caller[c].taken = "sealed" => pkgDir = "sealed")

(* Who is between the mkdir and the receipt finds the directory unfinished, *)
(* who has a receipt to confirm finds it readable, and only the owner of   *)
(* the release goes on to the task.                                        *)
FilesFit(c) ==
    /\ caller[c].at = "seal" => pkgDir = "partial"
    /\ caller[c].at = "confirm" => pkgDir = "readable"
    /\ caller[c].at \in {"promote", "record"} => TakenStands(c)
    /\ caller[c].at = "publish" \/ (caller[c].at = "finish" /\ caller[c].key \in PackageKeys) =>
          release.key = caller[c].key

Sealing == {"seal", "confirm"}
OneSealer == \A c, d \in Callers : caller[c].at \in Sealing /\ caller[d].at \in Sealing => c = d

CallersFit ==
    /\ OneSealer
    /\ \A c \in Callers : KeyFits(c) /\ CheckpointFits(c) /\ FilesFit(c)

IInv ==
    /\ Shapes /\ TypeOK /\ CheckpointsArePast /\ CallersFit
    /\ ReleaseIsPackaged /\ PurgedAsReviewed

USE TaskLifecycleAssumption

(* Nothing has been called: every part holds at the start.                 *)
LEMMA InitInvariant == Init => IInv
  <1> SUFFICES ASSUME Init PROVE IInv
    OBVIOUS
  <1>1. Idle \in Caller
    BY DEF Idle, Caller, Step, TaskState
  <1>2. Shapes
    BY <1>1 DEF Init, Shapes, Release, Operation, PurgeOperation, TaskState
  <1>3. TypeOK
    <2>1. \A c \in Callers : caller[c].at \in Step /\ caller[c].made \in BOOLEAN
      BY DEF Init, Idle, Step
    <2>2. task.state \in TaskState /\ task.version \in 1 .. MaxTaskVersion /\ current \in BOOLEAN
      BY DEF Init, TaskState
    <2>3. run \in [StartKeys -> {"none", "active", "kept", "empty"}]
      BY DEF Init
    <2>4. runDir \in [StartKeys -> {"none", "partial", "manifest"}]
      BY DEF Init
    <2>5. \A k \in CommandKeys : op[k].state \in {"none", "prepared", "completed"}
      BY DEF Init
    <2>6. \A p \in PurgeKeys : purge[p].state = "none" /\ purge[p].lease = "none"
      BY DEF Init
    <2> QED
      BY <2>1, <2>2, <2>3, <2>4, <2>5, <2>6 DEF Init, TypeOK
  <1>4. CheckpointsArePast /\ ReleaseIsPackaged /\ PurgedAsReviewed
    BY DEF Init, CheckpointsArePast, ReleaseIsPackaged, PurgedAsReviewed, CommandKeys
  <1>5. CallersFit
    BY DEF Init, Idle, CallersFit, OneSealer, Sealing, KeyFits, CheckpointFits, FilesFit, TakenStands, StartSteps, PackageSteps
  <1> QED
    BY <1>2, <1>3, <1>4, <1>5 DEF IInv

-----------------------------------------------------------------------------
(* The three ways a caller moves.                                          *)
LEMMA GotoMoves ==
  ASSUME Shapes, NEW c \in Callers, NEW s \in Step, Goto(c, s)
  PROVE  /\ caller' \in [Callers -> Caller]
         /\ caller'[c].at = s
         /\ caller'[c].key = caller[c].key /\ caller'[c].rev = caller[c].rev
         /\ caller'[c].taken = caller[c].taken
         /\ \A d \in Callers \ {c} : caller'[d] = caller[d]
  <1>1. caller[c] \in Caller
    BY DEF Shapes
  <1>2. [caller[c] EXCEPT !.at = s] \in Caller
    BY <1>1 DEF Caller, Packaged
  <1>3. caller' = [caller EXCEPT ![c] = [caller[c] EXCEPT !.at = s]]
    BY DEF Goto
  <1>4. /\ [caller[c] EXCEPT !.at = s].at = s
        /\ [caller[c] EXCEPT !.at = s].key = caller[c].key
        /\ [caller[c] EXCEPT !.at = s].rev = caller[c].rev
        /\ [caller[c] EXCEPT !.at = s].taken = caller[c].taken
    BY <1>1 DEF Caller, Packaged
  <1> QED
    BY <1>2, <1>3, <1>4 DEF Shapes

LEMMA TakeMoves ==
  ASSUME Shapes, NEW c \in Callers, NEW dir \in Packaged, Take(c, dir)
  PROVE  /\ caller' \in [Callers -> Caller]
         /\ caller'[c].at = "promote" /\ caller'[c].taken = dir
         /\ caller'[c].key = caller[c].key /\ caller'[c].rev = caller[c].rev
         /\ \A d \in Callers \ {c} : caller'[d] = caller[d]
  <1> DEFINE new == [caller[c] EXCEPT !.at = "promote", !.taken = dir]
  <1>1. caller[c] \in Caller
    BY DEF Shapes
  <1>1a. "promote" \in Step
    BY DEF Step
  <1>2. /\ new \in Caller /\ new.at = "promote" /\ new.taken = dir
        /\ new.key = caller[c].key /\ new.rev = caller[c].rev
    BY <1>1, <1>1a DEF Caller
  <1>3. caller' = [caller EXCEPT ![c] = new]
    BY DEF Take
  <1> HIDE DEF new
  <1> QED
    BY <1>2, <1>3 DEF Shapes

LEMMA ReturnMoves ==
  ASSUME Shapes, NEW c \in Callers, Return(c)
  PROVE  /\ caller' \in [Callers -> Caller]
         /\ caller'[c].at = "idle"
         /\ \A d \in Callers \ {c} : caller'[d] = caller[d]
  <1>1. Idle \in Caller /\ Idle.at = "idle"
    BY DEF Idle, Caller, Step, TaskState
  <1> QED
    BY <1>1 DEF Shapes, Return

LEMMA FinishMoves ==
  ASSUME Shapes, NEW c \in Callers, Finish(c)
  PROVE  /\ caller' \in [Callers -> Caller]
         /\ caller'[c].at = "finish" /\ caller'[c].key = caller[c].key
         /\ \A d \in Callers \ {c} : caller'[d] = caller[d]
  <1>1. [Idle EXCEPT !.at = "finish", !.key = caller[c].key] \in Caller
    BY DEF Shapes, Idle, Caller, Packaged, Step, TaskState
  <1>2. /\ [Idle EXCEPT !.at = "finish", !.key = caller[c].key].at = "finish"
        /\ [Idle EXCEPT !.at = "finish", !.key = caller[c].key].key = caller[c].key
    BY DEF Idle
  <1> QED
    BY <1>1, <1>2 DEF Shapes, Finish

(* One caller moves over rows and a package that stay: it fits if its new  *)
(* step does.                                                              *)
LEMMA CallerMoves ==
  ASSUME IInv, NEW c \in Callers, caller' \in [Callers -> Caller],
         \A d \in Callers \ {c} : caller'[d] = caller[d],
         UNCHANGED <<op, pkgDir, release>>,
         KeyFits(c)', CheckpointFits(c)', FilesFit(c)',
         caller'[c].at \notin {"seal", "confirm"}
  PROVE  CallersFit'
  <1>1. OneSealer'
    BY DEF IInv, CallersFit, OneSealer, Sealing
  <1>2. \A d \in Callers \ {c} : KeyFits(d)' /\ CheckpointFits(d)' /\ FilesFit(d)'
    BY DEF IInv, CallersFit, KeyFits, CheckpointFits, FilesFit, TakenStands
  <1> QED
    BY <1>1, <1>2 DEF CallersFit

(* Nothing is expected of a caller at rest.                                *)
LEMMA RestFits ==
  ASSUME NEW c \in Callers, caller'[c].at = "idle"
  PROVE  KeyFits(c)' /\ CheckpointFits(c)' /\ FilesFit(c)'
  BY DEF KeyFits, CheckpointFits, FilesFit, TakenStands, StartSteps, PackageSteps

(* A step that writes at most a Run or its directory, and moves a caller.  *)
LEMMA RunMoves ==
  ASSUME IInv, UNCHANGED <<task, current, rev, op, release, purge, pkgDir, taskDir>>, CallersFit',
         caller' \in [Callers -> Caller],
         run' \in [StartKeys -> {"none", "active", "kept", "empty"}],
         runDir' \in [StartKeys -> {"none", "partial", "manifest"}],
         calls' \in 0 .. MaxCalls
  PROVE  IInv'
  <1>1. /\ task' = task /\ current' = current /\ rev' = rev /\ op' = op
        /\ release' = release /\ purge' = purge
    OBVIOUS
  <1>2. Shapes'
    BY <1>1 DEF IInv, Shapes
  <1>3. \A c \in Callers : caller'[c].at \in Step /\ caller'[c].made \in BOOLEAN
    BY DEF Caller, Packaged
  <1>4. TypeOK'
    BY <1>1, <1>3 DEF IInv, TypeOK
  <1>5. CheckpointsArePast' /\ ReleaseIsPackaged' /\ PurgedAsReviewed'
    BY <1>1 DEF IInv, CheckpointsArePast, ReleaseIsPackaged, PurgedAsReviewed
  <1> QED
    BY <1>2, <1>4, <1>5 DEF IInv

LEMMA RowsStay ==
  ASSUME IInv, UNCHANGED <<rows, pkgDir, taskDir>>, CallersFit',
         caller' \in [Callers -> Caller],
         runDir' \in [StartKeys -> {"none", "partial", "manifest"}],
         calls' \in 0 .. MaxCalls
  PROVE  IInv'
  <1>1. /\ UNCHANGED <<task, current, rev, op, release, purge, pkgDir, taskDir>>
        /\ run' \in [StartKeys -> {"none", "active", "kept", "empty"}]
    BY DEF rows, IInv, TypeOK
  <1> QED
    BY <1>1, RunMoves

(* A step on the package's directory before it is sealed.                  *)
LEMMA PackageMoves ==
  ASSUME IInv, UNCHANGED <<rows, runDir, taskDir, calls>>, pkgDir # "sealed",
         caller' \in [Callers -> Caller], CallersFit', pkgDir' \in {"none", "partial"} \cup Packaged
  PROVE  IInv'
  <1>1. /\ task' = task /\ current' = current /\ rev' = rev /\ op' = op /\ run' = run
        /\ release' = release /\ purge' = purge
    BY DEF rows
  <1>2. Shapes'
    BY <1>1 DEF IInv, Shapes
  <1>3. \A c \in Callers : caller'[c].at \in Step /\ caller'[c].made \in BOOLEAN
    BY DEF Caller, Packaged
  <1>4. TypeOK'
    BY <1>1, <1>3 DEF IInv, TypeOK
  <1>5. CheckpointsArePast' /\ ReleaseIsPackaged' /\ PurgedAsReviewed'
    BY <1>1 DEF IInv, CheckpointsArePast, ReleaseIsPackaged, PurgedAsReviewed
  <1> QED
    BY <1>2, <1>4, <1>5 DEF IInv

(* A step on the release's row.                                            *)
LEMMA ReleaseMoves ==
  ASSUME IInv, UNCHANGED <<task, current, rev, op, run, purge, pkgDir, taskDir, runDir, calls>>,
         release' \in Release,
         caller' \in [Callers -> Caller], CallersFit', ReleaseIsPackaged'
  PROVE  IInv'
  <1>1. Shapes'
    BY DEF IInv, Shapes
  <1>2. \A c \in Callers : caller'[c].at \in Step /\ caller'[c].made \in BOOLEAN
    BY DEF Caller, Packaged
  <1>3. TypeOK'
    BY <1>2 DEF IInv, TypeOK, Release
  <1>4. CheckpointsArePast' /\ PurgedAsReviewed'
    BY DEF IInv, CheckpointsArePast, PurgedAsReviewed
  <1> QED
    BY <1>1, <1>3, <1>4 DEF IInv

(* The same, with nothing moved but one caller that goes on or rests.      *)
LEMMA CallerReturns ==
  ASSUME IInv, NEW c \in Callers, Return(c), UNCHANGED <<op, pkgDir, release>>
  PROVE  caller' \in [Callers -> Caller] /\ CallersFit'
  <1>1. Shapes
    BY DEF IInv
  <1>2. /\ caller' \in [Callers -> Caller] /\ caller'[c].at = "idle"
        /\ \A d \in Callers \ {c} : caller'[d] = caller[d]
    BY <1>1, ReturnMoves
  <1>3. KeyFits(c)' /\ CheckpointFits(c)' /\ FilesFit(c)'
    BY <1>2, RestFits
  <1> QED
    BY <1>2, <1>3, CallerMoves

LEMMA CallerGoesOn ==
  ASSUME IInv, NEW c \in Callers, NEW s \in Step \ {"seal", "confirm", "idle"}, Goto(c, s),
         UNCHANGED <<op, pkgDir, release>>,
         s \in StartSteps => caller[c].key \in StartKeys,
         s \in PackageSteps => caller[c].key \in PackageKeys,
         s = "check" => caller[c].key \in CommandKeys,
         s = "finish" => caller[c].key \in CommandKeys,
         s \in {"remove", "failed"} => caller[c].key \in PurgeKeys,
         s \notin {"remove", "failed"} => op[caller[c].key].state # "none",
         s \in {"prepare", "promote"} /\ caller[c].rev = "validated" => op[caller[c].key].rev = 1,
         s \in {"promote", "record"} => TakenStands(c),
         s = "publish" \/ (s = "finish" /\ caller[c].key \in PackageKeys) => release.key = caller[c].key
  PROVE  caller' \in [Callers -> Caller] /\ CallersFit'
  <1>1. Shapes
    BY DEF IInv
  <1>2. /\ caller' \in [Callers -> Caller] /\ caller'[c].at = s
        /\ caller'[c].key = caller[c].key /\ caller'[c].rev = caller[c].rev
        /\ caller'[c].taken = caller[c].taken
        /\ \A d \in Callers \ {c} : caller'[d] = caller[d]
    BY <1>1, GotoMoves
  <1>3. KeyFits(c)'
    BY <1>2 DEF KeyFits
  <1>4. CheckpointFits(c)'
    BY <1>2 DEF CheckpointFits, StartSteps, PackageSteps
  <1>5. FilesFit(c)'
    BY <1>2 DEF FilesFit, TakenStands
  <1> QED
    BY <1>2, <1>3, <1>4, <1>5, CallerMoves

LEMMA CallerFinishes ==
  ASSUME IInv, NEW c \in Callers, Finish(c), UNCHANGED <<op, pkgDir, release>>,
         caller[c].key \in CommandKeys, op[caller[c].key].state # "none",
         caller[c].key \in PackageKeys => release.key = caller[c].key
  PROVE  caller' \in [Callers -> Caller] /\ CallersFit'
  <1>1. Shapes
    BY DEF IInv
  <1>2. /\ caller' \in [Callers -> Caller] /\ caller'[c].at = "finish"
        /\ caller'[c].key = caller[c].key
        /\ \A d \in Callers \ {c} : caller'[d] = caller[d]
    BY <1>1, FinishMoves
  <1>3. KeyFits(c)' /\ CheckpointFits(c)' /\ FilesFit(c)'
    BY <1>2 DEF KeyFits, CheckpointFits, FilesFit, TakenStands, StartSteps, PackageSteps
  <1> QED
    BY <1>2, <1>3, CallerMoves

(* What is known of a caller at a step of a command.                       *)
LEMMA AtStep ==
  ASSUME IInv, NEW c \in Callers
  PROVE  /\ caller[c] \in Caller
         /\ caller[c].at \in StartSteps => caller[c].key \in StartKeys /\ caller[c].key \in CommandKeys /\ caller[c].key \notin PackageKeys
         /\ caller[c].at \in PackageSteps => caller[c].key \in PackageKeys /\ caller[c].key \in CommandKeys /\ caller[c].key # None
         /\ caller[c].at \in {"check", "finish"} => caller[c].key \in CommandKeys
         /\ caller[c].at \in {"remove", "failed"} => caller[c].key \in PurgeKeys
         /\ caller[c].at \in StartSteps \cup PackageSteps \cup {"check", "finish"} =>
               op[caller[c].key].state # "none"
         /\ caller[c].at \in {"promote", "record"} => TakenStands(c)
         /\ caller[c].at = "seal" => pkgDir = "partial"
         /\ caller[c].at = "confirm" => pkgDir = "readable"
  BY DEF IInv, Shapes, CallersFit, KeyFits, CheckpointFits, FilesFit, TakenStands, CommandKeys

-----------------------------------------------------------------------------
(* StartRun. *)

LEMMA CheckStartInvariant ==
  ASSUME IInv, NEW c \in Callers, CheckStart(c)
  PROVE  IInv'
  <1>1. /\ caller[c].at = "check" /\ caller[c].key \in StartKeys /\ caller[c].key \notin PackageKeys
        /\ caller[c].key \in CommandKeys /\ op[caller[c].key].state # "none"
    BY AtStep DEF CheckStart, At, CommandKeys
  <1>2. UNCHANGED <<rows, files, calls>> /\ UNCHANGED <<op, pkgDir, release>>
    BY DEF CheckStart, rows, files
  <1>3. Finish(c) \/ Goto(c, "mkdir") \/ Return(c)
    BY DEF CheckStart
  <1>4. caller' \in [Callers -> Caller] /\ CallersFit'
    <2>1. CASE Finish(c)
      BY <1>1, <1>2, <2>1, CallerFinishes
    <2>2. CASE Goto(c, "mkdir")
      BY <1>1, <1>2, <2>2, CallerGoesOn DEF Step, StartSteps, PackageSteps
    <2>3. CASE Return(c)
      BY <1>2, <2>3, CallerReturns
    <2> QED
      BY <1>3, <2>1, <2>2, <2>3
  <1> QED
    BY <1>2, <1>4, RowsStay DEF IInv, TypeOK, files

LEMMA MakeRunDirectoryInvariant ==
  ASSUME IInv, NEW c \in Callers, MakeRunDirectory(c)
  PROVE  IInv'
  <1>1. caller[c].at = "mkdir" /\ caller[c].at \in StartSteps
    BY DEF MakeRunDirectory, StartSteps
  <1>1a. /\ caller[c].key \in StartKeys /\ caller[c].key \notin PackageKeys
         /\ caller[c].key \in CommandKeys /\ op[caller[c].key].state # "none"
    BY <1>1, AtStep
  <1>2. UNCHANGED <<rows, pkgDir, taskDir, calls>> /\ UNCHANGED <<op, pkgDir, release>>
    BY DEF MakeRunDirectory, rows
  <1>3. runDir' \in [StartKeys -> {"none", "partial", "manifest"}]
    BY <1>1a DEF MakeRunDirectory, IInv, TypeOK
  <1>4. caller' \in [Callers -> Caller] /\ CallersFit'
    <2>1. CASE caller' = [caller EXCEPT ![c].at = "write", ![c].made = TRUE]
      <3> DEFINE new == [caller[c] EXCEPT !.at = "write", !.made = TRUE]
      <3>0. caller[c] \in Caller /\ "write" \in Step
        BY AtStep DEF Step
      <3>1. new \in Caller /\ new.at = "write" /\ new.key = caller[c].key
        BY <3>0 DEF Caller
      <3>2. caller' = [caller EXCEPT ![c] = new]
        BY <2>1
      <3> HIDE DEF new
      <3>3. /\ caller' \in [Callers -> Caller]
            /\ caller'[c].at = "write" /\ caller'[c].key = caller[c].key
            /\ \A d \in Callers \ {c} : caller'[d] = caller[d]
        BY <3>1, <3>2 DEF IInv, Shapes
      <3>4. KeyFits(c)' /\ CheckpointFits(c)' /\ FilesFit(c)'
        BY <1>1a, <1>2, <3>3 DEF KeyFits, CheckpointFits, FilesFit, TakenStands, StartSteps, PackageSteps
      <3> QED
        BY <1>2, <3>3, <3>4, CallerMoves
    <2>2. CASE Goto(c, "commit")
      BY <1>1a, <1>2, <2>2, CallerGoesOn DEF Step, StartSteps, PackageSteps
    <2>3. CASE Return(c)
      BY <1>2, <2>3, CallerReturns
    <2> QED
      BY <2>1, <2>2, <2>3 DEF MakeRunDirectory
  <1> QED
    BY <1>2, <1>3, <1>4, RowsStay DEF IInv, TypeOK

LEMMA WriteRunInputsInvariant ==
  ASSUME IInv, NEW c \in Callers, WriteRunInputs(c)
  PROVE  IInv'
  <1>1. caller[c].at = "write" /\ caller[c].at \in StartSteps
    BY DEF WriteRunInputs, StartSteps
  <1>1a. /\ caller[c].key \in StartKeys /\ caller[c].key \notin PackageKeys
         /\ caller[c].key \in CommandKeys /\ op[caller[c].key].state # "none"
    BY <1>1, AtStep
  <1>2. UNCHANGED <<rows, pkgDir, taskDir, calls>> /\ UNCHANGED <<op, pkgDir, release>>
    BY DEF WriteRunInputs, rows
  <1>3. runDir' \in [StartKeys -> {"none", "partial", "manifest"}]
    BY <1>1a DEF WriteRunInputs, IInv, TypeOK
  <1>4. caller' \in [Callers -> Caller] /\ CallersFit'
    <2>1. CASE Goto(c, "commit")
      BY <1>1a, <1>2, <2>1, CallerGoesOn DEF Step, StartSteps, PackageSteps
    <2>2. CASE Goto(c, "undo")
      BY <1>1a, <1>2, <2>2, CallerGoesOn DEF Step, StartSteps, PackageSteps
    <2>3. CASE Return(c)
      BY <1>2, <2>3, CallerReturns
    <2> QED
      BY <2>1, <2>2, <2>3 DEF WriteRunInputs
  <1> QED
    BY <1>2, <1>3, <1>4, RowsStay DEF IInv, TypeOK

LEMMA RemoveRunDirectoryInvariant ==
  ASSUME IInv, NEW c \in Callers, RemoveRunDirectory(c)
  PROVE  IInv'
  <1>1. caller[c].at = "undo" /\ caller[c].at \in StartSteps
    BY DEF RemoveRunDirectory, StartSteps
  <1>1a. /\ caller[c].key \in StartKeys /\ caller[c].key \notin PackageKeys
         /\ caller[c].key \in CommandKeys /\ op[caller[c].key].state # "none"
    BY <1>1, AtStep
  <1>2. UNCHANGED <<rows, pkgDir, taskDir, calls>> /\ UNCHANGED <<op, pkgDir, release>>
    BY DEF RemoveRunDirectory, rows
  <1>3. runDir' \in [StartKeys -> {"none", "partial", "manifest"}]
    BY <1>1a DEF RemoveRunDirectory, IInv, TypeOK
  <1>4. caller' \in [Callers -> Caller] /\ CallersFit'
    <2>1. CASE Finish(c)
      BY <1>1a, <1>2, <2>1, CallerFinishes
    <2>2. CASE Return(c)
      BY <1>2, <2>2, CallerReturns
    <2> QED
      BY <2>1, <2>2 DEF RemoveRunDirectory
  <1> QED
    BY <1>2, <1>3, <1>4, RowsStay DEF IInv, TypeOK

(* CommitRun leaves the caller finished, at rest or with a cleanup to run. *)
LEMMA CommitRunInvariant ==
  ASSUME IInv, NEW c \in Callers, CommitRun(c)
  PROVE  IInv'
  <1>1. caller[c].at = "commit" /\ caller[c].at \in StartSteps
    BY DEF CommitRun, StartSteps
  <1>1a. /\ caller[c].key \in StartKeys /\ caller[c].key \notin PackageKeys
         /\ caller[c].key \in CommandKeys /\ op[caller[c].key].state # "none"
    BY <1>1, AtStep
  <1>2. UNCHANGED <<task, current, rev, op, release, purge, pkgDir, taskDir, runDir, calls>>
    BY DEF CommitRun, files
  <1>3. run' \in [StartKeys -> {"none", "active", "kept", "empty"}]
    <2>1. run' = run \/ run' = [run EXCEPT ![caller[c].key] = "active"]
      BY DEF CommitRun
    <2>2. run \in [StartKeys -> {"none", "active", "kept", "empty"}]
      BY DEF IInv, TypeOK
    <2> QED
      BY <1>1a, <2>1, <2>2
  <1>4. caller' \in [Callers -> Caller] /\ CallersFit'
    <2>1. CASE Finish(c)
      BY <1>1a, <1>2, <2>1, CallerFinishes
    <2>2. ASSUME NEW won \in BOOLEAN, AfterCommit(c, won)
          PROVE  caller' \in [Callers -> Caller] /\ CallersFit'
      <3>1. CASE caller[c].made
        <4> DEFINE new == [caller[c] EXCEPT !.at = "undo", !.won = won]
        <4>0. caller[c] \in Caller /\ "undo" \in Step
          BY AtStep DEF Step
        <4>1. new \in Caller /\ new.at = "undo" /\ new.key = caller[c].key
          BY <2>2, <4>0 DEF Caller
        <4>2. caller' = [caller EXCEPT ![c] = new]
          BY <2>2, <3>1 DEF AfterCommit
        <4> HIDE DEF new
        <4>3. /\ caller' \in [Callers -> Caller]
              /\ caller'[c].at = "undo" /\ caller'[c].key = caller[c].key
              /\ \A d \in Callers \ {c} : caller'[d] = caller[d]
          BY <4>1, <4>2 DEF IInv, Shapes
        <4>4. KeyFits(c)' /\ CheckpointFits(c)' /\ FilesFit(c)'
          BY <1>1a, <1>2, <4>3 DEF KeyFits, CheckpointFits, FilesFit, TakenStands, StartSteps, PackageSteps
        <4> QED
          BY <1>2, <4>3, <4>4, CallerMoves
      <3>2. CASE ~caller[c].made /\ won
        <4>1. Finish(c)
          BY <2>2, <3>2 DEF AfterCommit, Finish
        <4> QED
          BY <1>1a, <1>2, <4>1, CallerFinishes
      <3>3. CASE ~caller[c].made /\ ~won
        <4>1. Return(c)
          BY <2>2, <3>3 DEF AfterCommit, Return
        <4> QED
          BY <1>2, <4>1, CallerReturns
      <3> QED
        BY <3>1, <3>2, <3>3
    <2> QED
      BY <2>1, <2>2 DEF CommitRun
  <1> QED
    BY <1>2, <1>3, <1>4, RunMoves DEF IInv, TypeOK

(* No caller moves while a Run ends or continues.                          *)
LEMMA RunInvariant ==
  ASSUME IInv, NEW k \in StartKeys, EndRun(k) \/ ContinueRun(k)
  PROVE  IInv'
  <1>1. UNCHANGED <<caller, task, current, rev, op, release, purge, pkgDir, taskDir, runDir, calls>>
    BY DEF EndRun, ContinueRun, files
  <1>2. run' \in [StartKeys -> {"none", "active", "kept", "empty"}]
    BY DEF EndRun, ContinueRun, IInv, TypeOK
  <1>3. caller' \in [Callers -> Caller] /\ CallersFit'
    BY <1>1 DEF IInv, Shapes, CallersFit, OneSealer, Sealing, KeyFits, CheckpointFits, FilesFit, TakenStands
  <1> QED
    BY <1>1, <1>2, <1>3, RunMoves DEF IInv, TypeOK

LEMMA CrashInvariant ==
  ASSUME IInv, NEW c \in Callers, Crash(c)
  PROVE  IInv'
  <1>1. UNCHANGED <<rows, files, calls>> /\ UNCHANGED <<op, pkgDir, release>> /\ Return(c)
    BY DEF Crash, rows, files
  <1>2. caller' \in [Callers -> Caller] /\ CallersFit'
    BY <1>1, CallerReturns
  <1> QED
    BY <1>1, <1>2, RowsStay DEF IInv, TypeOK, files

-----------------------------------------------------------------------------
(* Package. *)

LEMMA CheckPackageInvariant ==
  ASSUME IInv, NEW c \in Callers, CheckPackage(c)
  PROVE  IInv'
  <1>1. /\ caller[c].at = "check" /\ caller[c].key \in PackageKeys
        /\ caller[c].key \in CommandKeys /\ op[caller[c].key].state # "none"
    BY AtStep DEF CheckPackage, At, CommandKeys
  <1>2. UNCHANGED <<rows, files, calls>> /\ UNCHANGED <<op, pkgDir, release>>
    BY DEF CheckPackage, rows, files
  <1>3. caller' \in [Callers -> Caller] /\ CallersFit'
    <2>1. CASE Goto(c, "look")
      BY <1>1, <1>2, <2>1, CallerGoesOn DEF Step, StartSteps, PackageSteps
    <2>2. CASE Return(c)
      BY <1>2, <2>2, CallerReturns
    <2> QED
      BY <2>1, <2>2 DEF CheckPackage
  <1> QED
    BY <1>2, <1>3, RowsStay DEF IInv, TypeOK, files

(* What a caller reads of a validated revision is the version it froze.    *)
LEMMA LookPackageInvariant ==
  ASSUME IInv, NEW c \in Callers, LookPackage(c)
  PROVE  IInv'
  <1>1. caller[c].at = "look" /\ caller[c].at \in PackageSteps
    BY DEF LookPackage, PackageSteps
  <1>1a. /\ caller[c].key \in PackageKeys /\ caller[c].key \in CommandKeys
         /\ op[caller[c].key].state # "none"
    BY <1>1, AtStep
  <1>2. UNCHANGED <<rows, files, calls>> /\ UNCHANGED <<op, pkgDir, release>>
    BY DEF LookPackage, rows, files
  <1>3. rev.state = "validated" => op[caller[c].key].rev = 1
    <2>1. op[caller[c].key].rev \in 1 .. rev.version
      BY <1>1a DEF IInv, CheckpointsArePast
    <2>2. rev.state = "validated" => rev.version = 1
      BY DEF IInv, TypeOK
    <2> QED
      BY <2>1, <2>2
  <1>4. task \in [state : TaskState \cup {None}, version : Nat]
    <2>1. 1 .. MaxTaskVersion \subseteq Nat
      OBVIOUS
    <2> QED
      BY <2>1 DEF IInv, Shapes
  <1>5. caller' \in [Callers -> Caller] /\ CallersFit'
    <2>1. CASE Return(c)
      BY <1>2, <2>1, CallerReturns
    <2>2. CASE caller' = [caller EXCEPT ![c].at = "prepare", ![c].rev = rev.state, ![c].task = task]
      <3> DEFINE new == [caller[c] EXCEPT !.at = "prepare", !.rev = rev.state, !.task = task]
      <3>1. rev.state \in {"validated", "released"}
        BY DEF IInv, TypeOK
      <3>2. new \in Caller /\ new.at = "prepare" /\ new.key = caller[c].key /\ new.rev = rev.state
        <4>1. caller[c] \in Caller /\ "prepare" \in Step
          BY AtStep DEF Step
        <4>2. rev.state \in {"validated", "released", None}
          BY <3>1
        <4> QED
          BY <1>4, <4>1, <4>2 DEF Caller
      <3>3. caller' = [caller EXCEPT ![c] = new]
        BY <2>2
      <3> HIDE DEF new
      <3>4. /\ caller' \in [Callers -> Caller]
            /\ caller'[c].at = "prepare" /\ caller'[c].key = caller[c].key /\ caller'[c].rev = rev.state
            /\ \A d \in Callers \ {c} : caller'[d] = caller[d]
        BY <3>2, <3>3 DEF IInv, Shapes
      <3>5. KeyFits(c)' /\ CheckpointFits(c)' /\ FilesFit(c)'
        BY <1>1a, <1>2, <1>3, <3>4 DEF KeyFits, CheckpointFits, FilesFit, TakenStands, StartSteps, PackageSteps
      <3> QED
        BY <1>2, <3>4, <3>5, CallerMoves
    <2>3. CASE /\ release.key = caller[c].key
               /\ caller' = [caller EXCEPT ![c].at = "publish", ![c].task = task]
      <3> DEFINE new == [caller[c] EXCEPT !.at = "publish", !.task = task]
      <3>1. caller[c] \in Caller /\ "publish" \in Step
        BY AtStep DEF Step
      <3>2. new \in Caller /\ new.at = "publish" /\ new.key = caller[c].key
        BY <1>4, <3>1 DEF Caller
      <3>3. caller' = [caller EXCEPT ![c] = new]
        BY <2>3
      <3> HIDE DEF new
      <3>4. /\ caller' \in [Callers -> Caller]
            /\ caller'[c].at = "publish" /\ caller'[c].key = caller[c].key
            /\ \A d \in Callers \ {c} : caller'[d] = caller[d]
        BY <3>2, <3>3 DEF IInv, Shapes
      <3>5. KeyFits(c)' /\ CheckpointFits(c)' /\ FilesFit(c)'
        BY <1>1a, <1>2, <2>3, <3>4 DEF KeyFits, CheckpointFits, FilesFit, TakenStands, StartSteps, PackageSteps
      <3> QED
        BY <1>2, <3>4, <3>5, CallerMoves
    <2> QED
      BY <2>1, <2>2, <2>3 DEF LookPackage
  <1> QED
    BY <1>2, <1>5, RowsStay DEF IInv, TypeOK, files

(* The mkdir is exclusive: no other caller is packaging.                   *)
LEMMA PreparePackageInvariant ==
  ASSUME IInv, NEW c \in Callers, PreparePackage(c)
  PROVE  IInv'
  <1>1. caller[c].at = "prepare" /\ caller[c].at \in PackageSteps
    BY DEF PreparePackage, PackageSteps
  <1>1a. /\ caller[c].key \in PackageKeys /\ caller[c].key \in CommandKeys
         /\ op[caller[c].key].state # "none"
         /\ caller[c].rev = "validated" => op[caller[c].key].rev = 1
    BY <1>1, AtStep DEF IInv, CallersFit, CheckpointFits
  <1>2. UNCHANGED <<rows, runDir, taskDir, calls>> /\ UNCHANGED <<op, rev, release>>
    BY DEF PreparePackage, rows
  <1>3. CASE pkgDir = "none" /\ pkgDir' = "partial" /\ Goto(c, "seal")
    <2>1. /\ caller' \in [Callers -> Caller] /\ caller'[c].at = "seal"
          /\ caller'[c].key = caller[c].key /\ caller'[c].rev = caller[c].rev
          /\ \A d \in Callers \ {c} : caller'[d] = caller[d]
      <3>1. Shapes /\ "seal" \in Step
        BY DEF IInv, Step
      <3> QED
        BY <1>3, <3>1, GotoMoves
    <2>2. \A d \in Callers : /\ caller[d].at \notin Sealing
                             /\ caller[d].at \in {"promote", "record"} => caller[d].taken = "readable"
      BY <1>3, AtStep DEF Sealing, TakenStands, Packaged
    <2>3. OneSealer'
      BY <2>1, <2>2 DEF OneSealer, Sealing
    <2>4. KeyFits(c)' /\ CheckpointFits(c)' /\ FilesFit(c)'
      BY <1>1a, <1>2, <1>3, <2>1 DEF KeyFits, CheckpointFits, FilesFit, TakenStands, StartSteps, PackageSteps
    <2>5. \A d \in Callers \ {c} : KeyFits(d)' /\ CheckpointFits(d)' /\ FilesFit(d)'
      BY <1>2, <2>1, <2>2 DEF IInv, CallersFit, KeyFits, CheckpointFits, FilesFit, TakenStands, Sealing, Packaged
    <2>6. CallersFit'
      BY <2>3, <2>4, <2>5 DEF CallersFit
    <2> QED
      BY <1>2, <1>3, <2>1, <2>6, PackageMoves
  <1>4. CASE UNCHANGED pkgDir
    <2>1. caller' \in [Callers -> Caller] /\ CallersFit'
      <3>1. CASE pkgDir \in Packaged /\ Take(c, pkgDir)
        <4>1. Shapes
          BY DEF IInv
        <4>2. /\ caller' \in [Callers -> Caller]
              /\ caller'[c].at = "promote" /\ caller'[c].taken = pkgDir
              /\ caller'[c].key = caller[c].key /\ caller'[c].rev = caller[c].rev
              /\ \A d \in Callers \ {c} : caller'[d] = caller[d]
          BY <3>1, <4>1, TakeMoves
        <4>3. KeyFits(c)' /\ CheckpointFits(c)' /\ FilesFit(c)' /\ caller'[c].at \notin {"seal", "confirm"}
          BY <1>1a, <1>2, <1>4, <3>1, <4>2
             DEF KeyFits, CheckpointFits, FilesFit, TakenStands, Sealing, StartSteps, PackageSteps
        <4> QED
          BY <1>2, <1>4, <4>2, <4>3, CallerMoves
      <3>2. CASE Return(c)
        BY <1>2, <1>4, <3>2, CallerReturns
      <3> QED
        BY <1>4, <3>1, <3>2 DEF PreparePackage
    <2> QED
      BY <1>2, <1>4, <2>1, RowsStay DEF IInv, TypeOK
  <1> QED
    BY <1>3, <1>4 DEF PreparePackage

(* Who seals is alone in the directory, and nobody relies on it as sealed. *)
LEMMA SealerMoves ==
  ASSUME IInv, NEW c \in Callers, caller[c].at \in Sealing, pkgDir # "sealed",
         UNCHANGED <<rows, runDir, taskDir, calls>>,
         pkgDir' \in {"none", "partial"} \cup Packaged,
         caller' \in [Callers -> Caller],
         \A d \in Callers \ {c} : caller'[d] = caller[d],
         KeyFits(c)', CheckpointFits(c)', FilesFit(c)'
  PROVE  IInv'
  <1>1. UNCHANGED <<op, rev, release>>
    BY DEF rows
  <1>2. /\ \A d \in Callers \ {c} : caller[d].at \notin Sealing
        /\ \A d \in Callers : caller[d].at \in {"promote", "record"} => caller[d].taken = "readable"
    BY AtStep DEF IInv, CallersFit, OneSealer, TakenStands, Packaged
  <1>3. OneSealer'
    BY <1>2 DEF OneSealer
  <1>4. \A d \in Callers \ {c} : KeyFits(d)' /\ CheckpointFits(d)' /\ FilesFit(d)'
    BY <1>1, <1>2 DEF IInv, CallersFit, KeyFits, CheckpointFits, FilesFit, TakenStands, Sealing
  <1>5. CallersFit'
    BY <1>3, <1>4 DEF CallersFit
  <1> QED
    BY <1>5, PackageMoves

LEMMA SealPackageInvariant ==
  ASSUME IInv, NEW c \in Callers, SealPackage(c)
  PROVE  IInv'
  <1>1. caller[c].at = "seal" /\ caller[c].at \in PackageSteps /\ caller[c].at \in Sealing
    BY DEF SealPackage, PackageSteps, Sealing
  <1>1a. /\ caller[c].key \in PackageKeys /\ caller[c].key \in CommandKeys
         /\ op[caller[c].key].state # "none" /\ pkgDir = "partial"
         /\ caller[c].rev = "validated" => op[caller[c].key].rev = 1
    BY <1>1, AtStep DEF IInv, CallersFit, CheckpointFits
  <1>2. UNCHANGED <<rows, runDir, taskDir, calls>> /\ UNCHANGED <<op, rev, release>>
    BY DEF SealPackage, rows
  <1>3. Shapes /\ "confirm" \in Step
    BY DEF IInv, Step
  <1>4. CASE pkgDir' = "readable" /\ Goto(c, "confirm")
    <2>1. /\ caller' \in [Callers -> Caller] /\ caller'[c].at = "confirm"
          /\ caller'[c].key = caller[c].key /\ caller'[c].rev = caller[c].rev
          /\ \A d \in Callers \ {c} : caller'[d] = caller[d]
      BY <1>3, <1>4, GotoMoves
    <2>2. KeyFits(c)' /\ CheckpointFits(c)' /\ FilesFit(c)'
      BY <1>1a, <1>2, <1>4, <2>1 DEF KeyFits, CheckpointFits, FilesFit, StartSteps, PackageSteps
    <2> QED
      BY <1>1, <1>1a, <1>2, <1>4, <2>1, <2>2, SealerMoves DEF Packaged
  <1>5. CASE pkgDir' = "none" /\ Return(c)
    <2>1. /\ caller' \in [Callers -> Caller] /\ caller'[c].at = "idle"
          /\ \A d \in Callers \ {c} : caller'[d] = caller[d]
      BY <1>3, <1>5, ReturnMoves
    <2>2. KeyFits(c)' /\ CheckpointFits(c)' /\ FilesFit(c)'
      BY <2>1, RestFits
    <2> QED
      BY <1>1, <1>1a, <1>2, <1>5, <2>1, <2>2, SealerMoves
  <1> QED
    BY <1>4, <1>5 DEF SealPackage

(* A receipt that fails after it could be read takes the directory with    *)
(* it: whoever found it readable goes on without it.                       *)
LEMMA ConfirmReceiptInvariant ==
  ASSUME IInv, NEW c \in Callers, ConfirmReceipt(c)
  PROVE  IInv'
  <1>1. caller[c].at = "confirm" /\ caller[c].at \in PackageSteps /\ caller[c].at \in Sealing
    BY DEF ConfirmReceipt, PackageSteps, Sealing
  <1>1a. /\ caller[c].key \in PackageKeys /\ caller[c].key \in CommandKeys
         /\ op[caller[c].key].state # "none" /\ pkgDir = "readable"
         /\ caller[c].rev = "validated" => op[caller[c].key].rev = 1
    BY <1>1, AtStep DEF IInv, CallersFit, CheckpointFits
  <1>2. UNCHANGED <<rows, runDir, taskDir, calls>> /\ UNCHANGED <<op, rev, release>>
    BY DEF ConfirmReceipt, rows
  <1>3. Shapes /\ "sealed" \in Packaged
    BY DEF IInv, Packaged
  <1>4. CASE pkgDir' = "sealed" /\ Take(c, "sealed")
    <2>1. /\ caller' \in [Callers -> Caller]
          /\ caller'[c].at = "promote" /\ caller'[c].taken = "sealed"
          /\ caller'[c].key = caller[c].key /\ caller'[c].rev = caller[c].rev
          /\ \A d \in Callers \ {c} : caller'[d] = caller[d]
      BY <1>3, <1>4, TakeMoves
    <2>2. KeyFits(c)' /\ CheckpointFits(c)' /\ FilesFit(c)'
      BY <1>1a, <1>2, <1>3, <1>4, <2>1
         DEF KeyFits, CheckpointFits, FilesFit, TakenStands, StartSteps, PackageSteps
    <2> QED
      BY <1>1, <1>1a, <1>2, <1>3, <1>4, <2>1, <2>2, SealerMoves
  <1>5. CASE pkgDir' \in {"none", "partial", pkgDir} /\ Return(c)
    <2>1. /\ caller' \in [Callers -> Caller] /\ caller'[c].at = "idle"
          /\ \A d \in Callers \ {c} : caller'[d] = caller[d]
      BY <1>3, <1>5, ReturnMoves
    <2>2. KeyFits(c)' /\ CheckpointFits(c)' /\ FilesFit(c)'
      BY <2>1, RestFits
    <2>3. pkgDir' \in {"none", "partial"} \cup Packaged
      BY <1>1a, <1>5 DEF Packaged
    <2> QED
      BY <1>1, <1>1a, <1>2, <2>1, <2>2, <2>3, SealerMoves
  <1> QED
    BY <1>4, <1>5 DEF ConfirmReceipt

(* The revision is released from the version that was frozen, the first.   *)
LEMMA PromoteRevisionInvariant ==
  ASSUME IInv, NEW c \in Callers, PromoteRevision(c)
  PROVE  IInv'
  <1>1. caller[c].at = "promote" /\ caller[c].at \in PackageSteps
    BY DEF PromoteRevision, PackageSteps
  <1>1a. /\ caller[c].key \in PackageKeys /\ caller[c].key \in CommandKeys
         /\ op[caller[c].key].state # "none" /\ TakenStands(c)
         /\ caller[c].rev = "validated" => op[caller[c].key].rev = 1
    BY <1>1, AtStep DEF IInv, CallersFit, CheckpointFits
  <1>2. /\ UNCHANGED <<task, current, op, run, release, purge, files, calls>>
        /\ UNCHANGED <<op, pkgDir, release>>
    BY DEF PromoteRevision, files
  <1>3. caller' \in [Callers -> Caller] /\ CallersFit'
    <2>1. CASE Goto(c, "record")
      BY <1>1a, <1>2, <2>1, CallerGoesOn DEF Step, StartSteps, PackageSteps
    <2>2. CASE Return(c)
      BY <1>2, <2>2, CallerReturns
    <2> QED
      BY <2>1, <2>2 DEF PromoteRevision
  <1>4. rev' = rev \/ (rev.version = 1 /\ rev' = [state |-> "released", version |-> 2])
    <2>1. CASE caller[c].rev = "validated" /\ rev.version = op[caller[c].key].rev
               /\ rev' = [state |-> "released", version |-> rev.version + 1]
      BY <1>1a, <2>1
    <2> QED
      BY <2>1 DEF PromoteRevision
  <1>5. rev' \in {[state |-> "validated", version |-> 1], [state |-> "released", version |-> 2]}
    BY <1>4 DEF IInv, TypeOK
  <1>6. Shapes'
    BY <1>2, <1>3 DEF IInv, Shapes
  <1>7. TypeOK'
    <2>1. \A d \in Callers : caller'[d].at \in Step /\ caller'[d].made \in BOOLEAN
      BY <1>3 DEF Caller, Packaged
    <2> QED
      BY <1>2, <1>5, <2>1 DEF IInv, TypeOK, files
  <1>8. CheckpointsArePast'
    <2>1. rev.version \in {1, 2} /\ rev'.version \in {1, 2} /\ rev.version =< rev'.version
      BY <1>4 DEF IInv, TypeOK
    <2> QED
      BY <1>2, <2>1 DEF IInv, CheckpointsArePast
  <1>9. ReleaseIsPackaged' /\ PurgedAsReviewed'
    BY <1>2, <1>4 DEF IInv, TypeOK, ReleaseIsPackaged, PurgedAsReviewed, files
  <1> QED
    BY <1>3, <1>6, <1>7, <1>8, <1>9 DEF IInv

(* A release is recorded over a sealed package, which its caller relies on. *)
LEMMA RecordReleaseInvariant ==
  ASSUME IInv, NEW c \in Callers, RecordRelease(c)
  PROVE  IInv'
  <1>1. caller[c].at = "record" /\ caller[c].at \in PackageSteps
    BY DEF RecordRelease, PackageSteps
  <1>1a. /\ caller[c].key \in PackageKeys /\ caller[c].key \in CommandKeys /\ caller[c].key # None
         /\ op[caller[c].key].state # "none" /\ TakenStands(c)
    BY <1>1, AtStep
  <1>2. UNCHANGED <<task, current, rev, op, run, purge, pkgDir, taskDir, runDir, calls>>
    BY DEF RecordRelease, files
  <1>3. CASE /\ release.key = None /\ rev.state = "released"
             /\ release' = [key |-> caller[c].key, withdrawn |-> FALSE, taken |-> caller[c].taken]
             /\ Goto(c, "publish")
    <2>1. /\ caller' \in [Callers -> Caller] /\ caller'[c].at = "publish"
          /\ caller'[c].key = caller[c].key /\ caller'[c].rev = caller[c].rev
          /\ \A d \in Callers \ {c} : caller'[d] = caller[d]
      <3>1. Shapes /\ "publish" \in Step
        BY DEF IInv, Step
      <3> QED
        BY <1>3, <3>1, GotoMoves
    <2>2. release'.key = caller[c].key /\ release'.taken = caller[c].taken /\ release' \in Release
      BY <1>1a, <1>3 DEF Release, TakenStands
    <2>3. OneSealer'
      BY <2>1 DEF IInv, CallersFit, OneSealer, Sealing
    <2>4. KeyFits(c)' /\ CheckpointFits(c)' /\ FilesFit(c)'
      BY <1>1a, <1>2, <2>1, <2>2 DEF KeyFits, CheckpointFits, FilesFit, TakenStands, StartSteps, PackageSteps
    <2>5. \A d \in Callers : /\ caller[d].at # "publish"
                             /\ ~(caller[d].at = "finish" /\ caller[d].key \in PackageKeys)
      BY <1>3 DEF IInv, CallersFit, FilesFit, TakenStands, KeyFits, PackageSteps
    <2>6. \A d \in Callers \ {c} : KeyFits(d)' /\ CheckpointFits(d)' /\ FilesFit(d)'
      BY <1>2, <2>1, <2>5 DEF IInv, CallersFit, KeyFits, CheckpointFits, FilesFit, TakenStands
    <2>7. CallersFit'
      BY <2>3, <2>4, <2>6 DEF CallersFit
    <2>8. ReleaseIsPackaged'
      <3>1. \A k \in PackageKeys : op[k].state # "completed"
        BY <1>3 DEF IInv, ReleaseIsPackaged
      <3> QED
        BY <1>1a, <1>2, <1>3, <2>2, <3>1 DEF ReleaseIsPackaged, CommandKeys, TakenStands, Packaged
    <2> QED
      BY <1>2, <2>1, <2>2, <2>7, <2>8, ReleaseMoves
  <1>4. CASE UNCHANGED release
    <2>1. caller' \in [Callers -> Caller] /\ CallersFit'
      <3>1. CASE release.key = caller[c].key /\ Goto(c, "publish")
        BY <1>1a, <1>2, <1>4, <3>1, CallerGoesOn DEF Step, StartSteps, PackageSteps
      <3>2. CASE Return(c)
        BY <1>2, <1>4, <3>2, CallerReturns
      <3> QED
        BY <1>1a, <1>4, <3>1, <3>2 DEF RecordRelease
    <2>2. ReleaseIsPackaged'
      BY <1>2, <1>4 DEF IInv, ReleaseIsPackaged
    <2> QED
      BY <1>2, <1>4, <2>1, <2>2, ReleaseMoves DEF IInv, Shapes
  <1> QED
    BY <1>3, <1>4 DEF RecordRelease

(* A withdrawal keeps the release's key.                                   *)
LEMMA WithdrawInvariant ==
  ASSUME IInv, Withdraw
  PROVE  IInv'
  <1>1. UNCHANGED <<caller, task, current, rev, op, run, purge, pkgDir, taskDir, runDir, calls>>
    BY DEF Withdraw, files
  <1>2. /\ release' \in Release
        /\ release'.key = release.key /\ release'.taken = release.taken
    BY DEF Withdraw, IInv, Shapes, Release
  <1>3. caller' \in [Callers -> Caller] /\ CallersFit'
    BY <1>1, <1>2 DEF IInv, Shapes, CallersFit, OneSealer, Sealing, KeyFits, CheckpointFits, FilesFit, TakenStands
  <1>4. ReleaseIsPackaged'
    BY <1>1, <1>2 DEF IInv, ReleaseIsPackaged
  <1> QED
    BY <1>1, <1>2, <1>3, <1>4, ReleaseMoves

-----------------------------------------------------------------------------
(* The operation of a command begins and completes. *)

(* A step that writes one operation: the callers that work keep theirs.    *)
LEMMA OperationMoves ==
  ASSUME IInv, UNCHANGED <<task, current, rev, run, release, purge, files>>, calls' \in 0 .. MaxCalls,
         op' \in [CommandKeys -> Operation], caller' \in [Callers -> Caller],
         CheckpointsArePast', ReleaseIsPackaged', CallersFit'
  PROVE  IInv'
  <1>1. Shapes'
    BY DEF IInv, Shapes
  <1>2. \A c \in Callers : caller'[c].at \in Step /\ caller'[c].made \in BOOLEAN
    BY DEF Caller, Packaged
  <1>3. \A k \in CommandKeys : op'[k].state \in {"none", "prepared", "completed"}
    BY DEF Operation
  <1>4. TypeOK'
    BY <1>2, <1>3 DEF IInv, TypeOK, files
  <1>5. PurgedAsReviewed'
    BY DEF IInv, PurgedAsReviewed
  <1> QED
    BY <1>1, <1>4, <1>5 DEF IInv

(* A caller that joins an operation freezes its checkpoint or finds it.    *)
LEMMA BeginCommandInvariant ==
  ASSUME IInv, NEW c \in Callers, NEW k \in CommandKeys, BeginCommand(c, k)
  PROVE  IInv'
  <1> DEFINE begun == [state |-> "prepared", task |-> task.version, rev |-> rev.version]
  <1> DEFINE new == [Idle EXCEPT !.at = "check", !.key = k]
  <1>1. /\ UNCHANGED <<task, current, rev, run, release, purge, files>>
        /\ UNCHANGED <<pkgDir, release, rev>>
    BY DEF BeginCommand, files
  <1>2. calls' \in 0 .. MaxCalls
    BY DEF BeginCommand, IInv, TypeOK
  <1>3. new \in Caller /\ new.at = "check" /\ new.key = k
    BY DEF Idle, Caller, Step, TaskState, Keys
  <1>4. caller' = [caller EXCEPT ![c] = new]
    BY DEF BeginCommand
  <1>5. rev.version \in {1, 2} /\ task.version \in Nat
    BY DEF IInv, TypeOK
  <1>6. begun \in Operation /\ begun.state = "prepared" /\ begun.rev = rev.version
    BY <1>5 DEF Operation
  <1>7. \/ op[k].state = "prepared" /\ op' = [op EXCEPT ![k] = op[k]]
        \/ op[k].state = "none" /\ op' = [op EXCEPT ![k] = begun]
    BY DEF BeginCommand, IInv, TypeOK
  <1> HIDE DEF begun, new
  <1>8. /\ op' \in [CommandKeys -> Operation]
        /\ op'[k].state = "prepared"
        /\ \A j \in CommandKeys : op'[j] = op[j] \/ (j = k /\ op[k].state = "none" /\ op'[k].rev = rev.version)
    BY <1>6, <1>7 DEF IInv, Shapes
  <1>9. /\ caller' \in [Callers -> Caller]
        /\ caller'[c].at = "check" /\ caller'[c].key = k
        /\ \A d \in Callers \ {c} : caller'[d] = caller[d]
    BY <1>3, <1>4 DEF IInv, Shapes
  <1>10. CheckpointsArePast'
    BY <1>1, <1>5, <1>8 DEF IInv, CheckpointsArePast
  <1>11. ReleaseIsPackaged'
    <2>1. \A j \in PackageKeys : j \in CommandKeys /\ (op'[j].state = "completed" => op[j].state = "completed")
      BY <1>8 DEF CommandKeys
    <2> QED
      BY <1>1, <2>1 DEF IInv, ReleaseIsPackaged
  <1>12. CallersFit'
    <2>1. OneSealer'
      BY <1>9 DEF IInv, CallersFit, OneSealer, Sealing
    <2>2. KeyFits(c)' /\ CheckpointFits(c)' /\ FilesFit(c)'
      BY <1>8, <1>9 DEF KeyFits, CheckpointFits, FilesFit, TakenStands, StartSteps, PackageSteps
    <2>3. ASSUME NEW d \in Callers \ {c}
          PROVE  KeyFits(d)' /\ CheckpointFits(d)' /\ FilesFit(d)'
      <3>1. caller[d].at \in StartSteps \cup PackageSteps \cup {"check", "finish"} =>
              op'[caller[d].key] = op[caller[d].key]
        BY <1>8, AtStep
      <3>2. KeyFits(d) /\ CheckpointFits(d) /\ FilesFit(d)
        BY DEF IInv, CallersFit
      <3>3. KeyFits(d)' /\ FilesFit(d)'
        BY <1>1, <1>9, <3>2 DEF KeyFits, FilesFit, TakenStands
      <3>4. CheckpointFits(d)'
        BY <1>9, <3>1, <3>2 DEF CheckpointFits, PackageSteps
      <3> QED
        BY <3>3, <3>4
    <2> QED
      BY <2>1, <2>2, <2>3 DEF CallersFit
  <1> QED
    BY <1>1, <1>2, <1>8, <1>9, <1>10, <1>11, <1>12, OperationMoves

(* Whoever completes a Package operation found the release to be its own.  *)
LEMMA FinishCommandInvariant ==
  ASSUME IInv, NEW c \in Callers, FinishCommand(c)
  PROVE  IInv'
  <1> DEFINE k == caller[c].key
  <1> DEFINE done == [op[k] EXCEPT !.state = "completed"]
  <1>1. /\ UNCHANGED <<task, current, rev, run, release, purge, files, calls>>
        /\ UNCHANGED <<pkgDir, release, rev>>
    BY DEF FinishCommand, files
  <1>2. caller[c].at = "finish" /\ k \in CommandKeys /\ op[k].state # "none"
    BY AtStep DEF FinishCommand
  <1>3. k \in PackageKeys => release.key = k
    BY <1>2 DEF IInv, CallersFit, FilesFit, TakenStands
  <1>4. op[k] \in Operation
    BY <1>2 DEF IInv, Shapes
  <1>5. done \in Operation /\ done.state = "completed" /\ done.rev = op[k].rev
    BY <1>4 DEF Operation
  <1>6. op' = [op EXCEPT ![k] = done]
    BY DEF FinishCommand
  <1>7. /\ caller' \in [Callers -> Caller] /\ caller'[c].at = "idle"
        /\ \A d \in Callers \ {c} : caller'[d] = caller[d]
    <2>1. Shapes /\ Return(c)
      BY DEF IInv, FinishCommand
    <2> QED
      BY <2>1, ReturnMoves
  <1> HIDE DEF done
  <1>8. /\ op' \in [CommandKeys -> Operation]
        /\ \A j \in CommandKeys : /\ op'[j].rev = op[j].rev
                                  /\ op[j].state # "none" <=> op'[j].state # "none"
                                  /\ op'[j].state = "completed" => op[j].state = "completed" \/ j = k
    BY <1>2, <1>5, <1>6 DEF IInv, Shapes
  <1>9. CheckpointsArePast'
    BY <1>1, <1>8 DEF IInv, CheckpointsArePast
  <1>10. ReleaseIsPackaged'
    <2>1. \A j \in PackageKeys : j \in CommandKeys
      BY DEF CommandKeys
    <2> QED
      BY <1>1, <1>3, <1>8, <2>1 DEF IInv, ReleaseIsPackaged
  <1>11. CallersFit'
    <2>1. OneSealer'
      BY <1>7 DEF IInv, CallersFit, OneSealer, Sealing
    <2>2. KeyFits(c)' /\ CheckpointFits(c)' /\ FilesFit(c)'
      BY <1>7, RestFits
    <2>3. ASSUME NEW d \in Callers \ {c}
          PROVE  KeyFits(d)' /\ CheckpointFits(d)' /\ FilesFit(d)'
      <3>1. KeyFits(d) /\ CheckpointFits(d) /\ FilesFit(d)
        BY DEF IInv, CallersFit
      <3>2. caller[d].at \in StartSteps \cup PackageSteps \cup {"check", "finish"} =>
              caller[d].key \in CommandKeys
        BY AtStep
      <3>3. KeyFits(d)' /\ FilesFit(d)'
        BY <1>1, <1>7, <3>1 DEF KeyFits, FilesFit, TakenStands
      <3>4. CheckpointFits(d)'
        BY <1>7, <1>8, <3>1, <3>2 DEF CheckpointFits, PackageSteps
      <3> QED
        BY <3>3, <3>4
    <2> QED
      BY <2>1, <2>2, <2>3 DEF CallersFit
  <1> QED
    BY <1>1, <1>7, <1>8, <1>9, <1>10, <1>11, OperationMoves DEF IInv, TypeOK

-----------------------------------------------------------------------------
(* The task's row: whoever writes it has found no purge in its way. *)

LEMMA TaskMoves ==
  ASSUME IInv, UNCHANGED <<rev, op, run, release, purge, files, calls>>, current' \in BOOLEAN,
         task' \in [state : TaskState, version : 1 .. MaxTaskVersion],
         task' = task \/ ~Fenced,
         caller' \in [Callers -> Caller], CallersFit'
  PROVE  IInv'
  <1>1. Shapes'
    BY DEF IInv, Shapes
  <1>2. \A c \in Callers : caller'[c].at \in Step /\ caller'[c].made \in BOOLEAN
    BY DEF Caller, Packaged
  <1>3. TypeOK'
    BY <1>2 DEF IInv, TypeOK, files
  <1>4. CheckpointsArePast' /\ ReleaseIsPackaged'
    BY DEF IInv, CheckpointsArePast, ReleaseIsPackaged, files
  <1>5. PurgedAsReviewed'
    BY DEF IInv, PurgedAsReviewed, Fenced
  <1> QED
    BY <1>1, <1>3, <1>4, <1>5 DEF IInv

LEMMA CallersStay ==
  ASSUME IInv, UNCHANGED <<caller, op, pkgDir, release>>
  PROVE  caller' \in [Callers -> Caller] /\ CallersFit'
  BY DEF IInv, Shapes, CallersFit, OneSealer, Sealing, KeyFits, CheckpointFits, FilesFit, TakenStands

LEMMA MoveTaskMoves ==
  ASSUME IInv, NEW to \in TaskState, MoveTask(to)
  PROVE  ~Fenced /\ task' \in [state : TaskState, version : 1 .. MaxTaskVersion]
  BY DEF IInv, TypeOK, MoveTask

LEMMA TransitionTaskInvariant ==
  ASSUME IInv, TransitionTask
  PROVE  IInv'
  <1>1. PICK to \in TaskState : MoveTask(to)
    BY DEF TransitionTask
  <1>2. ~Fenced /\ task' \in [state : TaskState, version : 1 .. MaxTaskVersion]
    BY <1>1, MoveTaskMoves
  <1>3. /\ UNCHANGED <<rev, op, run, release, purge, files, calls>>
        /\ UNCHANGED <<caller, op, pkgDir, release, current>>
    BY DEF TransitionTask, files
  <1>4. caller' \in [Callers -> Caller] /\ CallersFit'
    BY <1>3, CallersStay
  <1> QED
    BY <1>2, <1>3, <1>4, TaskMoves DEF IInv, TypeOK

LEMMA PromoteTaskCurrentRevisionInvariant ==
  ASSUME IInv, PromoteTaskCurrentRevision
  PROVE  IInv'
  <1>1. ~Fenced /\ task' \in [state : TaskState, version : 1 .. MaxTaskVersion]
    BY DEF IInv, Shapes, TypeOK, PromoteTaskCurrentRevision
  <1>2. /\ UNCHANGED <<rev, op, run, release, purge, files, calls>>
        /\ UNCHANGED <<caller, op, pkgDir, release>> /\ current' \in BOOLEAN
    BY DEF PromoteTaskCurrentRevision, files
  <1>3. caller' \in [Callers -> Caller] /\ CallersFit'
    BY <1>2, CallersStay
  <1> QED
    BY <1>1, <1>2, <1>3, TaskMoves

LEMMA PublishTaskInvariant ==
  ASSUME IInv, NEW c \in Callers, PublishTask(c)
  PROVE  IInv'
  <1>1. caller[c].at = "publish" /\ caller[c].at \in PackageSteps
    BY DEF PublishTask, PackageSteps
  <1>2. /\ caller[c].key \in PackageKeys /\ caller[c].key \in CommandKeys
        /\ op[caller[c].key].state # "none" /\ release.key = caller[c].key
    BY <1>1, AtStep DEF IInv, CallersFit, FilesFit, TakenStands
  <1>3. /\ UNCHANGED <<rev, op, run, release, purge, files, calls>>
        /\ UNCHANGED <<op, pkgDir, release, current>>
    BY DEF PublishTask, files
  <1>4. caller' \in [Callers -> Caller] /\ CallersFit'
    <2>1. CASE Finish(c)
      BY <1>2, <1>3, <2>1, CallerFinishes
    <2>2. CASE Return(c)
      BY <1>3, <2>2, CallerReturns
    <2> QED
      BY <2>1, <2>2 DEF PublishTask
  <1>5. /\ task' \in [state : TaskState, version : 1 .. MaxTaskVersion]
        /\ task' = task \/ ~Fenced
    <2>1. CASE UNCHANGED task
      BY <2>1 DEF IInv, Shapes
    <2>2. CASE MoveTask("published")
      BY <2>2, MoveTaskMoves DEF TaskState
    <2> QED
      BY <2>1, <2>2 DEF PublishTask
  <1> QED
    BY <1>3, <1>4, <1>5, TaskMoves DEF IInv, TypeOK

-----------------------------------------------------------------------------
(* The purge. *)

(* A purge that is open or done after the step was open before it, or is   *)
(* alone and of the task as it is.                                         *)
LEMMA PurgeMoves ==
  ASSUME IInv, UNCHANGED <<task, current, rev, op, run, release, runDir, pkgDir>>,
         taskDir' \in {"intact", "damaged", "gone"}, calls' \in 0 .. MaxCalls,
         NEW p \in PurgeKeys, purge' \in [PurgeKeys -> PurgeOperation],
         \A q \in PurgeKeys \ {p} : purge'[q] = purge[q],
         purge'[p].lease # "none" => purge'[p].state = "in_progress",
         purge'[p].state \in {"in_progress", "completed"} =>
            \/ purge[p].state \in {"in_progress", "completed"} /\ purge'[p].task = purge[p].task
            \/ ~Fenced /\ task.state = "deleted" /\ purge'[p].task = task.version,
         caller' \in [Callers -> Caller], CallersFit'
  PROVE  IInv'
  <1>1. Shapes'
    BY DEF IInv, Shapes
  <1>2. \A c \in Callers : caller'[c].at \in Step /\ caller'[c].made \in BOOLEAN
    BY DEF Caller, Packaged
  <1>3. \A q \in PurgeKeys : /\ purge'[q].state \in {"none", "in_progress", "blocked", "completed"}
                             /\ purge'[q].lease # "none" => purge'[q].state = "in_progress"
    BY DEF IInv, TypeOK, PurgeOperation
  <1>4. ASSUME NEW q \in PurgeKeys, NEW r \in PurgeKeys,
               {purge'[q].state, purge'[r].state} \subseteq {"in_progress", "completed"}
        PROVE  q = r
    <2>1. \/ q = r
          \/ /\ purge[q].state \in {"in_progress", "completed"}
             /\ purge[r].state \in {"in_progress", "completed"}
      BY <1>4 DEF Fenced
    <2> QED
      BY <2>1 DEF IInv, TypeOK
  <1>5. TypeOK'
    BY <1>2, <1>3, <1>4 DEF IInv, TypeOK
  <1>6. PurgedAsReviewed'
    BY DEF IInv, PurgedAsReviewed
  <1>7. CheckpointsArePast' /\ ReleaseIsPackaged'
    BY DEF IInv, CheckpointsArePast, ReleaseIsPackaged
  <1> QED
    BY <1>1, <1>5, <1>6, <1>7 DEF IInv

(* The caller that holds a purge's lease goes to the directory.            *)
LEMMA PurgingMoves ==
  ASSUME IInv, NEW c \in Callers, NEW p \in PurgeKeys, Purging(c, p), purge'[p].version \in Nat,
         UNCHANGED <<op, pkgDir, release>>
  PROVE  caller' \in [Callers -> Caller] /\ CallersFit'
  <1> DEFINE new == [Idle EXCEPT !.at = "remove", !.key = p, !.seen = purge'[p].version]
  <1>1. new \in Caller /\ new.at = "remove" /\ new.key = p
    BY DEF Idle, Caller, Step, TaskState, Keys
  <1>2. caller' = [caller EXCEPT ![c] = new]
    BY DEF Purging
  <1> HIDE DEF new
  <1>3. /\ caller' \in [Callers -> Caller]
        /\ caller'[c].at = "remove" /\ caller'[c].key = p
        /\ \A d \in Callers \ {c} : caller'[d] = caller[d]
    BY <1>1, <1>2 DEF IInv, Shapes
  <1>4. KeyFits(c)' /\ CheckpointFits(c)' /\ FilesFit(c)'
    BY <1>3 DEF KeyFits, CheckpointFits, FilesFit, TakenStands, StartSteps, PackageSteps
  <1> QED
    BY <1>3, <1>4, CallerMoves

LEMMA PreparePurgeInvariant ==
  ASSUME IInv, NEW c \in Callers, NEW p \in PurgeKeys, PreparePurge(c, p)
  PROVE  IInv'
  <1>1. /\ UNCHANGED <<task, current, rev, op, run, release, runDir, pkgDir, taskDir>>
        /\ UNCHANGED <<op, pkgDir, release>>
    BY DEF PreparePurge, files
  <1>2. calls' \in 0 .. MaxCalls /\ taskDir' \in {"intact", "damaged", "gone"}
    BY <1>1 DEF PreparePurge, IInv, TypeOK
  <1>3. task.version \in Nat /\ task.state = "deleted"
    BY DEF PreparePurge, IInv, TypeOK
  <1>4. CASE /\ purge' = [purge EXCEPT ![p] = [state |-> "blocked", task |-> task.version,
                                               version |-> 1, lease |-> "none"]]
             /\ UNCHANGED caller
    <2>1. /\ purge' \in [PurgeKeys -> PurgeOperation]
          /\ purge'[p].state = "blocked" /\ purge'[p].lease = "none"
          /\ \A q \in PurgeKeys \ {p} : purge'[q] = purge[q]
      BY <1>3, <1>4 DEF IInv, Shapes, PurgeOperation
    <2>2. caller' \in [Callers -> Caller] /\ CallersFit'
      BY <1>1, <1>4, CallersStay
    <2> QED
      BY <1>1, <1>2, <2>1, <2>2, PurgeMoves
  <1>5. CASE /\ \A q \in PurgeKeys : purge[q].state # "in_progress"
             /\ purge' = [purge EXCEPT ![p] = [state |-> "in_progress", task |-> task.version,
                                               version |-> 1, lease |-> "held"]]
             /\ Purging(c, p)
    <2>1. /\ purge' \in [PurgeKeys -> PurgeOperation]
          /\ purge'[p].state = "in_progress" /\ purge'[p].task = task.version
          /\ purge'[p].version = 1
          /\ \A q \in PurgeKeys \ {p} : purge'[q] = purge[q]
      BY <1>3, <1>5 DEF IInv, Shapes, PurgeOperation
    <2>2. ~Fenced
      BY <1>5 DEF PreparePurge, Fenced
    <2>3. caller' \in [Callers -> Caller] /\ CallersFit'
      BY <1>1, <1>5, <2>1, PurgingMoves
    <2> QED
      BY <1>1, <1>2, <1>3, <2>1, <2>2, <2>3, PurgeMoves
  <1> QED
    BY <1>4, <1>5 DEF PreparePurge

LEMMA ReplayPurgeInvariant ==
  ASSUME IInv, NEW c \in Callers, NEW p \in PurgeKeys, ReplayPurge(c, p)
  PROVE  IInv'
  <1> DEFINE new == [purge[p] EXCEPT !.version = purge[p].version + 1, !.lease = "held"]
  <1>1. /\ UNCHANGED <<task, current, rev, op, run, release, runDir, pkgDir, taskDir>>
        /\ UNCHANGED <<op, pkgDir, release>>
    BY DEF ReplayPurge, files
  <1>2. calls' \in 0 .. MaxCalls /\ taskDir' \in {"intact", "damaged", "gone"}
    BY <1>1 DEF ReplayPurge, IInv, TypeOK
  <1>3. purge[p] \in PurgeOperation /\ purge[p].state = "in_progress"
    BY DEF ReplayPurge, IInv, Shapes
  <1>3a. purge[p].version + 1 \in Nat
    BY <1>3 DEF PurgeOperation
  <1>4. /\ new \in PurgeOperation /\ new.state = "in_progress" /\ new.task = purge[p].task
        /\ new.version \in Nat
    BY <1>3, <1>3a DEF PurgeOperation
  <1>5. purge' = [purge EXCEPT ![p] = new] /\ Purging(c, p)
    BY DEF ReplayPurge
  <1> HIDE DEF new
  <1>6. /\ purge' \in [PurgeKeys -> PurgeOperation] /\ purge'[p] = new
        /\ \A q \in PurgeKeys \ {p} : purge'[q] = purge[q]
    BY <1>4, <1>5 DEF IInv, Shapes
  <1>7. caller' \in [Callers -> Caller] /\ CallersFit'
    BY <1>1, <1>4, <1>5, <1>6, PurgingMoves
  <1> QED
    BY <1>1, <1>2, <1>3, <1>4, <1>6, <1>7, PurgeMoves

LEMMA PurgeLeaseLapsesInvariant ==
  ASSUME IInv, NEW p \in PurgeKeys, PurgeLeaseLapses(p)
  PROVE  IInv'
  <1> DEFINE new == [purge[p] EXCEPT !.lease = "lapsed"]
  <1>1. /\ UNCHANGED <<task, current, rev, op, run, release, runDir, pkgDir, taskDir, calls>>
        /\ UNCHANGED <<caller, op, pkgDir, release>>
    BY DEF PurgeLeaseLapses, files
  <1>2. calls' \in 0 .. MaxCalls /\ taskDir' \in {"intact", "damaged", "gone"}
    BY <1>1 DEF IInv, TypeOK
  <1>3. purge[p] \in PurgeOperation /\ purge[p].state = "in_progress"
    BY DEF PurgeLeaseLapses, IInv, Shapes, TypeOK
  <1>4. new \in PurgeOperation /\ new.state = "in_progress" /\ new.task = purge[p].task
    BY <1>3 DEF PurgeOperation
  <1>5. purge' = [purge EXCEPT ![p] = new]
    BY DEF PurgeLeaseLapses
  <1> HIDE DEF new
  <1>6. /\ purge' \in [PurgeKeys -> PurgeOperation] /\ purge'[p] = new
        /\ \A q \in PurgeKeys \ {p} : purge'[q] = purge[q]
    BY <1>4, <1>5 DEF IInv, Shapes
  <1>7. caller' \in [Callers -> Caller] /\ CallersFit'
    BY <1>1, CallersStay
  <1> QED
    BY <1>1, <1>2, <1>3, <1>4, <1>6, <1>7, PurgeMoves

(* What the end of an attempt leaves of its operation: open or done only   *)
(* if it was open, and no lease unless it stays as it was.                 *)
LEMMA FinalizePurgeInvariant ==
  ASSUME IInv, NEW c \in Callers, FinalizePurge(c)
  PROVE  IInv'
  <1> DEFINE p == caller[c].key
  <1>1. p \in PurgeKeys
    BY AtStep DEF FinalizePurge
  <1>2. /\ UNCHANGED <<task, current, rev, op, run, release, runDir, pkgDir, calls>>
        /\ UNCHANGED <<op, pkgDir, release>>
    BY DEF FinalizePurge
  <1>3. calls' \in 0 .. MaxCalls /\ taskDir' \in {"intact", "damaged", "gone"}
    BY <1>2 DEF FinalizePurge, RemovalFails, IInv, TypeOK
  <1>4. caller' \in [Callers -> Caller] /\ CallersFit'
    <2>1. CASE Return(c)
      BY <1>2, <2>1, CallerReturns
    <2>2. CASE Goto(c, "failed")
      BY <1>1, <1>2, <2>2, CallerGoesOn DEF Step, StartSteps, PackageSteps
    <2> QED
      BY <2>1, <2>2 DEF FinalizePurge
  <1>5. \/ UNCHANGED purge
        \/ /\ purge[p].state = "in_progress"
           /\ \E s \in {"blocked", "completed"} : ClosePurge(p, s)
    BY DEF FinalizePurge, Removable, MayRemove
  <1>6. CASE UNCHANGED purge
    BY <1>1, <1>2, <1>3, <1>4, <1>6, PurgeMoves DEF IInv, Shapes, TypeOK
  <1>7. CASE /\ purge[p].state = "in_progress"
             /\ \E s \in {"blocked", "completed"} : ClosePurge(p, s)
    <2>1. PICK s \in {"blocked", "completed"} : ClosePurge(p, s)
      BY <1>7
    <2> DEFINE new == [purge[p] EXCEPT !.state = s, !.version = purge[p].version + 1, !.lease = "none"]
    <2>2. purge[p] \in PurgeOperation
      BY <1>1 DEF IInv, Shapes
    <2>2a. purge[p].version + 1 \in Nat
      BY <2>2 DEF PurgeOperation
    <2>3. new \in PurgeOperation /\ new.lease = "none" /\ new.task = purge[p].task
      BY <2>2, <2>2a DEF PurgeOperation
    <2>4. purge' = [purge EXCEPT ![p] = new]
      BY <2>1 DEF ClosePurge
    <2> HIDE DEF new
    <2>5. /\ purge' \in [PurgeKeys -> PurgeOperation] /\ purge'[p] = new
          /\ \A q \in PurgeKeys \ {p} : purge'[q] = purge[q]
      BY <1>1, <2>3, <2>4 DEF IInv, Shapes
    <2> HIDE DEF p
    <2> QED
      BY <1>1, <1>2, <1>3, <1>4, <1>7, <2>3, <2>5, PurgeMoves
  <1> QED
    BY <1>5, <1>6, <1>7

LEMMA RecordPurgeFailureInvariant ==
  ASSUME IInv, NEW c \in Callers, RecordPurgeFailure(c)
  PROVE  IInv'
  <1> DEFINE p == caller[c].key
  <1> DEFINE new == [purge[p] EXCEPT !.version = purge[p].version + 1, !.lease = "none"]
  <1>1. p \in PurgeKeys
    BY AtStep DEF RecordPurgeFailure
  <1>2. /\ UNCHANGED <<task, current, rev, op, run, release, runDir, pkgDir, taskDir, calls>>
        /\ UNCHANGED <<op, pkgDir, release>>
    BY DEF RecordPurgeFailure, files
  <1>3. calls' \in 0 .. MaxCalls /\ taskDir' \in {"intact", "damaged", "gone"}
    BY <1>2 DEF IInv, TypeOK
  <1>4. caller' \in [Callers -> Caller] /\ CallersFit'
    BY <1>2, CallerReturns DEF RecordPurgeFailure
  <1>5. purge[p] \in PurgeOperation
    BY <1>1 DEF IInv, Shapes
  <1>5a. purge[p].version + 1 \in Nat
    BY <1>5 DEF PurgeOperation
  <1>6. new \in PurgeOperation /\ new.lease = "none" /\ new.state = purge[p].state /\ new.task = purge[p].task
    BY <1>5, <1>5a DEF PurgeOperation
  <1>7. UNCHANGED purge \/ purge' = [purge EXCEPT ![p] = new]
    BY DEF RecordPurgeFailure
  <1> HIDE DEF new
  <1>8. CASE UNCHANGED purge
    BY <1>1, <1>2, <1>3, <1>4, <1>8, PurgeMoves DEF IInv, Shapes, TypeOK
  <1>9. CASE purge' = [purge EXCEPT ![p] = new]
    <2>1. /\ purge' \in [PurgeKeys -> PurgeOperation] /\ purge'[p] = new
          /\ \A q \in PurgeKeys \ {p} : purge'[q] = purge[q]
      BY <1>1, <1>6, <1>9 DEF IInv, Shapes
    <2> HIDE DEF p
    <2> QED
      BY <1>1, <1>2, <1>3, <1>4, <1>6, <2>1, PurgeMoves
  <1> QED
    BY <1>7, <1>8, <1>9

-----------------------------------------------------------------------------
LEMMA StutterInvariant ==
  ASSUME IInv, UNCHANGED vars
  PROVE  IInv'
  <1>1. /\ UNCHANGED <<task, current, rev, op, run, release, purge, files, calls>>
        /\ UNCHANGED <<caller, op, pkgDir, release, current, task>>
    BY DEF vars, files
  <1>2. caller' \in [Callers -> Caller] /\ CallersFit'
    BY <1>1, CallersStay
  <1> QED
    BY <1>1, <1>2, TaskMoves DEF IInv, Shapes, TypeOK

LEMMA NextInvariant == IInv /\ [Next]_vars => IInv'
  <1> SUFFICES ASSUME IInv, [Next]_vars PROVE IInv'
    OBVIOUS
  <1>1. ASSUME NEW c \in Callers, Start(c) PROVE IInv'
    BY <1>1, CheckStartInvariant, MakeRunDirectoryInvariant, WriteRunInputsInvariant, CommitRunInvariant,
       RemoveRunDirectoryInvariant DEF Start
  <1>2. ASSUME NEW c \in Callers, Package(c) PROVE IInv'
    BY <1>2, CheckPackageInvariant, LookPackageInvariant, PreparePackageInvariant, SealPackageInvariant, ConfirmReceiptInvariant,
       PromoteRevisionInvariant, RecordReleaseInvariant, PublishTaskInvariant DEF Package
  <1>3. ASSUME NEW c \in Callers, Purge(c) PROVE IInv'
    BY <1>3, PreparePurgeInvariant, ReplayPurgeInvariant, FinalizePurgeInvariant, RecordPurgeFailureInvariant DEF Purge
  <1>4. ASSUME NEW c \in Callers, NEW k \in CommandKeys, BeginCommand(c, k) PROVE IInv'
    BY <1>4, BeginCommandInvariant
  <1>5. ASSUME NEW c \in Callers, FinishCommand(c) \/ Crash(c) PROVE IInv'
    BY <1>5, FinishCommandInvariant, CrashInvariant
  <1>6. CASE TransitionTask \/ PromoteTaskCurrentRevision \/ Withdraw
    BY <1>6, TransitionTaskInvariant, PromoteTaskCurrentRevisionInvariant, WithdrawInvariant
  <1>7. ASSUME NEW k \in StartKeys, EndRun(k) \/ ContinueRun(k) PROVE IInv'
    BY <1>7, RunInvariant
  <1>8. ASSUME NEW p \in PurgeKeys, PurgeLeaseLapses(p) PROVE IInv'
    BY <1>8, PurgeLeaseLapsesInvariant
  <1>9. CASE UNCHANGED vars
    BY <1>9, StutterInvariant
  <1> QED
    BY <1>1, <1>2, <1>3, <1>4, <1>5, <1>6, <1>7, <1>8, <1>9 DEF Next

(* The inductive invariant holds of every behaviour.                       *)
THEOREM Invariance == Spec => []IInv
  BY InitInvariant, NextInvariant, PTL DEF Spec

(* Every variable keeps its shape; a purge's lease never outlives its      *)
(* operation, and at most one purge of the task is open or done            *)
(* (PrepareTaskPurge, replayTaskPurgeTx, FinalizeTaskPurge).               *)
THEOREM TypeCorrect == Spec => []TypeOK
  <1>1. IInv => TypeOK
    BY DEF IInv
  <1> QED
    BY <1>1, Invariance, PTL

(* A release stands on a released revision, and a completed Package        *)
(* operation on its own release, whichever callers raced for the directory *)
(* and wherever they died; the package is there and sealed, but for the    *)
(* one release whose command took it from a call that had yet to learn     *)
(* whether its receipt was on disk (PackageRevision, writeNewJSON,         *)
(* CreateLocalPackageRelease, CompleteLifecycleOperation).                 *)
THEOREM ReleaseHasItsFiles == Spec => []ReleaseIsPackaged
  <1>1. IInv => ReleaseIsPackaged
    BY DEF IInv
  <1> QED
    BY <1>1, Invariance, PTL

(* A purge that is open or done finds the task as it was reviewed, through *)
(* lapsed leases and takeovers: everything that writes the task's row asks *)
(* the fence first (guardTaskPurgeMutationTx).                             *)
THEOREM PurgeFindsWhatWasReviewed == Spec => []PurgedAsReviewed
  <1>1. IInv => PurgedAsReviewed
    BY DEF IInv
  <1> QED
    BY <1>1, Invariance, PTL
=============================================================================
