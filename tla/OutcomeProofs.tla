--------------------------- MODULE OutcomeProofs ---------------------------
(***************************************************************************)
(* What the end of a transaction says of the host, for any users and       *)
(* requests: a report of an undone run is true (HonestRevert), what the    *)
(* client could not revert the trap reverts (BackstopHolds), a commit has  *)
(* carried out the request (CommittedMeansRequested), in the end it is all *)
(* or nothing (AllOrNothing), and every step is one of AtomicChange, or    *)
(* none.  Each theorem names the faults that it does not survive.          *)
(*                                                                         *)
(* Three invariants next to Ledger and Acceptance: Honest, what the revert *)
(* has verified so far; Backstop, when the trap may run and what it has    *)
(* still to put back; Carried, how far each working copy, and its file,    *)
(* has come.                                                               *)
(*                                                                         *)
(* Then what is left for the operator (BreakGlass), for any faults of the  *)
(* transaction: a restore, also one that fails or runs while the trap is   *)
(* still at work, writes nothing but originals, or a part of one when its  *)
(* swap is torn, and one that has finished has undone the transaction; and *)
(* after every report each changed file is in the document together with a *)
(* copy of its original.                                                   *)
(*                                                                         *)
(* A copy, a loaded file and an entry of meta.json are made at different   *)
(* moments; Records says that all three are of the time before the         *)
(* transaction.  Ledger (TransactionProofs) holds until the first restore; *)
(* a torn restore may break what it says of changed files, and from then   *)
(* on Leftover is all that is needed of it.                                *)
(***************************************************************************)
EXTENDS BreakGlass, TransactionProofs

USE DEF hostVars, guardVars, pcVars, txVars, envVars, historyVars

----------------------------------------------------------------------------
(* What an abort has put back.                                             *)

\* The file of user u is as it was.
Same(u) == file[PathOf[u]] = before[PathOf[u]]

EndSteps == {"close", "wait", "rm"}

RevertSteps == {"revert", "readback"}

\* Where a run may probe and where it may end, and with which outcome.
Endings ==
    /\ step = "probe" => phase \in WorkPhases
    /\ step \in EndSteps => phase \in {"cleanup", "abort", "dryRun", "release"}
    /\ phase \in {"dryRun", "release"} => step \in EndSteps
    /\ phase = "abort" => step \in RevertSteps \cup {"close", "wait"}
    /\ phase = "dryRun" => manifested = {}
    /\ outcome = "aborted-reverted" => phase = "abort" /\ step = "wait"
    /\ outcome = "failed-before-write" => phase \in {"setup", "release"}
    /\ outcome = "dry-run" => phase = "dryRun"

\* A changed file is dirty; the revert has verified those it has passed, or
\* remembers that it failed; and it is over only when all are verified.
Honest ==
    /\ Endings
    /\ late = {}
    /\ \A p \in Paths : file[p] # before[p] => \E u \in dirty : PathOf[u] = p
    /\ phase = "abort" /\ step \in RevertSteps =>
          cur >= 1 /\ (revertFailed \/ \A u \in dirty : u < cur => Same(u))
    /\ phase = "abort" /\ step \in {"close", "wait"} => file = before

\* The loop of the revert goes on to the next dirty file.
LEMMA RevertLoop ==
    ASSUME NEW u \in Nat, NEW d \in SUBSET Users
    PROVE  After(u, d) >= 1 /\ \A w \in d : w < After(u, d) => w <= u
<1>1. After(u, d) \in d \cup {NumUsers + 1}
  BY AfterType
<1>2. (\A w \in d : w \in Nat /\ w >= 1) /\ NumUsers \in Nat
  BY UsersAssumption DEF Users
<1>3. \A w \in d : w > u => After(u, d) <= w
  BY AfterSkips
<1>4. After(u, d) \in Nat /\ After(u, d) >= 1
  BY <1>1, <1>2
<1>5. ASSUME NEW w \in d, w < After(u, d) PROVE w <= u
  BY <1>2, <1>3, <1>4, <1>5
<1> QED
  BY <1>4, <1>5

\* A run that turns to abort with the files d dirty has verified nothing yet.
LEMMA GoAbortHonest ==
    ASSUME Honest, NEW d \in SUBSET Users, GoAbort(d), dirty' = d,
           UNCHANGED <<outcome, before>>, Running, late' = {},
           \A p \in Paths : file'[p] # before[p] => \E u \in d : PathOf[u] = p
    PROVE  Honest'
<1>1. phase' = "abort" /\ step' = "revert" /\ cur' = After(0, d)
  BY DEF GoAbort
<1>2. cur' >= 1 /\ \A w \in d : w < cur' => w <= 0
  <2>1. 0 \in Nat
    OBVIOUS
  <2>2. After(0, d) >= 1 /\ \A w \in d : w < After(0, d) => w <= 0
    BY <2>1, RevertLoop
  <2> QED
    BY <1>1, <2>2
<1>3. \A w \in d : ~(w <= 0)
  BY UsersAssumption DEF Users
<1>4. Endings'
  BY <1>1 DEF Endings, EndSteps, RevertSteps, Running
<1> QED
  BY <1>1, <1>2, <1>3, <1>4 DEF Honest, RevertSteps

\* A run that goes on with its work.
LEMMA WorkGoesOn ==
    ASSUME Honest, UNCHANGED <<outcome, before>>, Running, late' = {},
           phase' \in WorkPhases, step' \in EndSteps => phase' = "cleanup",
           \A p \in Paths : file'[p] # before[p] => \E u \in dirty' : PathOf[u] = p
    PROVE  Honest'
<1>1. Endings'
  BY DEF Endings, EndSteps, RevertSteps, Running, WorkPhases
<1> QED
  BY <1>1 DEF Honest, WorkPhases

\* A step outside the client touches no file, or puts an original back.
LEMMA OutsideHonest ==
    ASSUME Honest, UNCHANGED <<phase, step, cur, dirty, manifested, revertFailed, late, before>>,
           outcome' \in {outcome, "crashed"}, file' \in [Paths -> Contents],
           before \in [Paths -> Contents], PathOf \in [Users -> Paths], dirty \in SUBSET Users,
           \A p \in Paths : file'[p] \in {file[p], before[p]}
    PROVE  Honest'
<1>1. Endings'
  BY DEF Honest, Endings
<1>2. file = before => file' = before
  OBVIOUS
<1>3. \A u \in dirty : Same(u) => Same(u)'
  BY DEF Same
<1> QED
  BY <1>1, <1>2, <1>3 DEF Honest

----------------------------------------------------------------------------
(* The steps of a run that reports what it has put back.                   *)

\* A swap of the original into the file of user u.
LEMMA PutBack ==
    ASSUME Ledger, cur \in Users, SwapIn(orig[cur]), cur \in Named,
           phase \notin {"setup", "release"}, UNCHANGED before
    PROVE  /\ \A p \in Paths : file'[p] \in {file[p], before[p]}
           /\ \A u \in Users : Same(u) => Same(u)'
<1>1. orig[cur] = before[PathOf[cur]]
  BY DEF Ledger, Loaded
<1>2. \A p \in Paths : file'[p] \in {file[p], before[p]}
  BY <1>1 DEF SwapIn, Ledger
<1>3. \A u \in Users : PathOf[u] \in Paths
  BY PathsAssumption
<1> QED
  BY <1>2, <1>3 DEF Same

\* Until the files are loaded nothing has changed.
LEMMA SetupHonest ==
    ASSUME Ledger, Honest, Validate \/ Connect \/ ConnectFails \/ Load \/ LoadFails
    PROVE  Honest'
<1>1. /\ Running /\ phase = "setup" /\ step \in {"validate", "connect", "load"}
      /\ UNCHANGED <<file, before, late, dirty, manifested, revertFailed>>
  BY DEF Validate, Connect, ConnectFails, Load, LoadFails, At
<1>2. file = before /\ manifested = {}
  BY <1>1 DEF Ledger, Loaded
<1>3. CASE Validate \/ Connect \/ ConnectFails \/ LoadFails
  <2>1. /\ phase' \in {"setup", "release"}
        /\ phase' = "setup" => step' \notin EndSteps
        /\ phase' = "release" => step' = "close"
        /\ step' # "probe"
        /\ outcome' \in {"none", "failed-before-write"}
    BY <1>1, <1>3 DEF Validate, Connect, ConnectFails, LoadFails, Goto, Finish, Running, EndSteps
  <2>2. Endings'
    BY <2>1 DEF Endings, EndSteps, RevertSteps
  <2> QED
    BY <1>1, <1>2, <2>1, <2>2 DEF Honest
<1>4. CASE Load
  <2>1. outcome' = "none"
    BY <1>1, <1>4 DEF Load, Running
  <2>2. CASE phase' = "dryRun" /\ step' = "close"
    BY <1>1, <1>2, <2>1, <2>2 DEF Honest, Endings, EndSteps, RevertSteps
  <2>3. CASE Enter(Following("load"))
    <3>1. phase' \in WorkPhases /\ step' = "health"
      BY <2>3, FollowingType DEF Enter
    <3> QED
      BY <1>1, <1>2, <2>1, <3>1 DEF Honest, Endings, EndSteps, RevertSteps, WorkPhases
  <2> QED
    BY <1>4, <2>2, <2>3 DEF Load
<1> QED
  BY <1>3, <1>4

\* The run goes on with its work.
Working == phase' \in WorkPhases /\ step' \notin EndSteps

\* A run that goes on, or turns to abort.
LEMMA MovesHonest ==
    ASSUME Honest, UNCHANGED <<outcome, before>>, Running, late' = {}, dirty' \in SUBSET Users,
           \A p \in Paths : file'[p] # before[p] => \E u \in dirty' : PathOf[u] = p,
           GoAbort(dirty') \/ Working
    PROVE  Honest'
  BY GoAbortHonest, WorkGoesOn DEF Working

\* The moves of a run at work.
LEMMA CopyMoves == ASSUME phase \in WorkPhases, NEW u, ToCopy(u) PROVE Working
<1>1. CASE Enter(Following(phase))
  BY <1>1, FollowingType DEF Enter, Working, EndSteps
<1>2. CASE ~Enter(Following(phase))
  BY <1>2 DEF ToCopy, Working, EndSteps
<1> QED
  BY <1>1, <1>2

LEMMA ProbesMove == ASSUME phase \in WorkPhases, NEW pairs, StartProbes(pairs) PROVE Working
  BY FollowingType DEF StartProbes, Enter, Working, EndSteps

LEMMA ControlMoves == ASSUME phase \in WorkPhases, NEW u, ToControl(u) PROVE Working
  BY ProbesMove DEF ToControl, Working, EndSteps

LEMMA ProveMoves ==
    ASSUME phase \in WorkPhases, NEW u, ToProve(u)
    PROVE  GoAbort(dirty) \/ Working
  BY DEF ToProve, Goto, Working, EndSteps

LEMMA NextProbeMoves ==
    ASSUME phase \in WorkPhases, step \in ProbeSteps, NextProbe
    PROVE  Working
  BY FollowingType DEF NextProbe, Enter, Working, EndSteps, ProbeSteps

\* Copies change no file.
LEMMA CopyHonest ==
    ASSUME TypeInv, Honest, SaveLocal \/ SaveBackup \/ AppendManifest \/ Snapshot
    PROVE  Honest'
<1>1. /\ Running /\ phase \in {"add", "remove"}
      /\ UNCHANGED <<outcome, before, late, dirty, file>>
  BY DEF SaveLocal, SaveBackup, AppendManifest, Snapshot, Writing
<1>2. \/ GoAbort(dirty)
      \/ \E s \in {"backup", "manifest", "swap"} : Goto(s)
      \/ ToCopy(cur)
  BY DEF SaveLocal, SaveBackup, AppendManifest, Snapshot, ToSwap
<1>3. GoAbort(dirty') \/ Working
  BY <1>1, <1>2, CopyMoves DEF Goto, Working, EndSteps, WorkPhases
<1> QED
  BY <1>1, <1>3, MovesHonest DEF Honest, TypeInv, TypeOK

\* A swap that is not refused has marked its file dirty.
LEMMA SwapHonest ==
    ASSUME TypeInv, Honest, Swap, "late" \notin Faults, "swap" \notin Refusable
    PROVE  Honest'
<1>1. /\ Running /\ phase \in {"add", "remove"} /\ cur \in Users
      /\ UNCHANGED <<outcome, before, late>>
  BY DEF Swap, SwapAnswered, SwapRefused, SwapLost, SwapLanded, SwapTorn, SwapLate, Swapping,
     Writing
<1>2. dirty' = dirty \cup {cur}
  BY DEF Swap, SwapAnswered, SwapRefused, SwapLost, SwapLanded, SwapTorn, SwapLate, MarkDirty,
     Refused
<1>3. \A p \in Paths : file'[p] = file[p] \/ p = PathOf[cur]
  BY DEF Swap, SwapAnswered, SwapRefused, SwapLost, SwapLanded, SwapTorn, SwapLate, SwapIn,
     TypeInv, TypeOK, GuardTypeOK
<1>4. GoAbort(dirty') \/ Working
  BY <1>1, CopyMoves
  DEF Swap, SwapAnswered, SwapRefused, SwapLost, SwapLanded, SwapTorn, SwapLate, WorkPhases
<1>5. \A p \in Paths : file'[p] # before[p] => \E u \in dirty' : PathOf[u] = p
  BY <1>2, <1>3 DEF Honest
<1> QED
  BY <1>1, <1>2, <1>4, <1>5, MovesHonest DEF Honest, TypeInv, TypeOK

\* Health checks and probes change no file.
LEMMA CheckHonest ==
    ASSUME TypeInv, Honest, CheckHealth \/ Probe
    PROVE  Honest'
<1>1. Running /\ UNCHANGED <<outcome, before, late, dirty, file>>
  BY DEF CheckHealth, Probe, ProbeAgain, ProbeAdded, ProbeRemoved, PositiveControl, ProveAccess,
     Probing, ProbeUnchanged
<1>2. CASE CheckHealth
  <2>1. phase \in WorkPhases
    BY <1>2 DEF CheckHealth, TypeInv, ActiveSteps
  <2>2. Begin => GoAbort(dirty) \/ Working
    BY <2>1, CopyMoves, ProbesMove, ControlMoves, ProveMoves DEF Begin, WorkPhases
  <2> QED
    BY <1>1, <1>2, <2>2, MovesHonest DEF CheckHealth, Honest, TypeInv, TypeOK
<1>3. CASE Probe /\ step \in ProbeSteps
  <2>1. phase \in WorkPhases
    BY <1>3 DEF Honest, Endings, TypeInv, ActiveSteps, ProbeSteps
  <2>2. GoAbort(dirty) \/ Working
    BY <1>3, <2>1, NextProbeMoves, ControlMoves, ProveMoves
    DEF Probe, ProbeAgain, ProbeAdded, ProbeRemoved, PositiveControl, ProveAccess, SomeKey,
        Working, EndSteps, ProbeSteps
  <2> QED
    BY <1>1, <2>2, MovesHonest DEF Honest, TypeInv, TypeOK
<1>4. CASE Probe /\ step \notin ProbeSteps
  <2>1. ProbeAgain
    BY <1>4 DEF Probe, ProbeAdded, ProbeRemoved, PositiveControl, ProveAccess, Probing, ProbeSteps
  <2>2. UNCHANGED <<phase, step, cur, dirty, manifested, revertFailed, late, before, file, outcome>>
    BY <2>1 DEF ProbeAgain, ProbeUnchanged
  <2> QED
    BY <2>2, OutsideHonest, PathsAssumption DEF TypeInv, TypeOK, GuardTypeOK
<1> QED
  BY <1>2, <1>3, <1>4

\* The end of a run touches no file, and its report is of where it ends.
LEMMA EndHonest ==
    ASSUME TypeInv, Honest, WriteMarker \/ CloseStdin \/ AwaitGuard \/ RemoveTxDir \/ Report
    PROVE  Honest'
<1>1. /\ Running
      /\ UNCHANGED <<before, late, dirty, manifested, revertFailed, file>>
  BY DEF WriteMarker, CloseStdin, AwaitGuard, RemoveTxDir, Report, At
<1>2. CASE GoAbort(dirty)
  <2>1. outcome' = outcome
    BY <1>2 DEF GoAbort, WriteMarker, CloseStdin, AwaitGuard, RemoveTxDir, Report, Goto, At
  <2> QED
    BY <1>1, <1>2, <2>1, GoAbortHonest DEF Honest, TypeInv, TypeOK
<1>3. CASE ~GoAbort(dirty)
  <2>1. /\ phase' = phase /\ step \in {"marker"} \cup EndSteps /\ step' \in EndSteps
        /\ step = "marker" => phase = "cleanup"
        /\ step' = "rm" => phase # "abort"
        /\ phase = "abort" => step \in {"close", "wait"} /\ step' = "wait"
        /\ outcome' \in {outcome, Verdict}
    BY <1>3 DEF WriteMarker, CloseStdin, AwaitGuard, RemoveTxDir, Report, Goto, At, EndSteps, Finish,
       Honest, Endings, RevertSteps
  <2>2. Endings'
    BY <1>1, <2>1 DEF Honest, Endings, EndSteps, RevertSteps, Verdict, Running
  <2> QED
    BY <1>1, <2>1, <2>2 DEF Honest, EndSteps, RevertSteps
<1> QED
  BY <1>2, <1>3

\* The file the revert is at, unless it failed, is as it was when it goes on.
LEMMA AbortHonest ==
    ASSUME Ledger, Honest, RevertFile \/ ReadBack \/ Disarm \/ HangUp, "late" \notin Faults
    PROVE  Honest'
<1>1. /\ Running /\ phase = "abort" /\ step \in RevertSteps
      /\ UNCHANGED <<phase, before, late, dirty, manifested>>
  BY DEF RevertFile, RevertUnanswered, ReadBack, Disarm, HangUp, Reverting, Reverted, At,
     RevertSteps, NextRevert, Goto
<1>2. /\ dirty \in SUBSET Users /\ cur \in Nat
      /\ file \in [Paths -> Contents] /\ before \in [Paths -> Contents]
  BY UsersAssumption DEF Ledger, TypeInv, TypeOK, GuardTypeOK
<1>3. \A u \in dirty : orig[u] = before[PathOf[u]] /\ u \in Named
  BY <1>1 DEF Ledger, Loaded, Armed
<1>4. After(cur, dirty) >= 1 /\ \A w \in dirty : w < After(cur, dirty) => w <= cur
  BY <1>2, RevertLoop
<1>5. \A w \in dirty : w \in Nat
  BY <1>2, UsersAssumption DEF Users
<1>6. cur >= 1 /\ (revertFailed \/ \A u \in dirty : u < cur => Same(u))
  BY <1>1 DEF Honest
<1>7. CASE RevertFile
  <2>1. /\ cur \in Users /\ cur \in dirty /\ outcome' = outcome
        /\ step' \in RevertSteps
    BY <1>7 DEF RevertFile, RevertUnanswered, Reverting, At, Ledger, Position, RevertSteps, Goto,
       NextRevert
  <2>2. \A p \in Paths : file'[p] # before[p] => \E u \in dirty : PathOf[u] = p
    <3>1. \A p \in Paths : file'[p] = file[p] \/ p = PathOf[cur]
      BY <1>2, <1>7 DEF RevertFile, RevertUnanswered, SwapIn
    <3> QED
      BY <2>1, <3>1 DEF Honest
  <2>3. cur' >= 1 /\ (revertFailed' \/ \A u \in dirty : u < cur' => Same(u)')
    <3>1. CASE Goto("readback") /\ revertFailed' = revertFailed /\ SwapIn(orig[cur])
      <4>1. \A u \in Users : Same(u) => Same(u)'
        BY <1>1, <1>3, <2>1, <3>1, PutBack
      <4> QED
        BY <1>2, <1>6, <3>1, <4>1 DEF Goto
    <3>2. CASE NextRevert /\ revertFailed' = TRUE
      BY <1>4, <3>2 DEF NextRevert
    <3> QED
      BY <1>7, <3>1, <3>2 DEF RevertFile, RevertUnanswered
  <2>4. Endings'
    BY <1>1, <2>1 DEF Endings, EndSteps, RevertSteps, Running
  <2> QED
    BY <1>1, <2>1, <2>2, <2>3, <2>4 DEF Honest, RevertSteps
<1>8. CASE ReadBack
  <2>1. /\ step' = "revert" /\ cur' = After(cur, dirty) /\ UNCHANGED <<file, outcome>>
    BY <1>8 DEF ReadBack, NextRevert
  <2>2. revertFailed' \/ (~revertFailed /\ file[PathOf[cur]] = orig[cur])
    BY <1>8 DEF ReadBack
  <2>3. revertFailed' \/ \A u \in dirty : u < cur' => Same(u)
    <3>1. ASSUME ~revertFailed', NEW u \in dirty, u < cur' PROVE Same(u)
      <4>1. u <= cur
        BY <1>4, <2>1, <3>1
      <4>2. CASE u < cur
        BY <1>6, <2>2, <3>1, <4>2
      <4>3. CASE u = cur
        BY <1>3, <2>2, <3>1, <4>3 DEF Same
      <4> QED
        BY <1>2, <1>5, <4>1, <4>2, <4>3
    <3> QED
      BY <3>1
  <2>4. \A u \in dirty : Same(u)' = Same(u)
    BY <1>1, <2>1 DEF Same
  <2>5. Endings'
    BY <1>1, <2>1 DEF Endings, EndSteps, RevertSteps, Running
  <2> QED
    BY <1>1, <1>4, <2>1, <2>3, <2>4, <2>5 DEF Honest, RevertSteps
<1>9. CASE Disarm
  <2>1. /\ step' = "close" /\ UNCHANGED <<file, outcome>> /\ ~revertFailed /\ cur \notin Users
        /\ cur \in 0..(NumUsers + 1)
    BY <1>9 DEF Disarm, Goto, Reverted, Ledger, TypeInv, TypeOK
  <2>2. \A u \in dirty : u < cur
    <3>1. cur = NumUsers + 1
      BY <1>6, <2>1, UsersAssumption DEF Users
    <3> QED
      BY <1>2, <3>1, UsersAssumption DEF Users
  <2>3. \A p \in Paths : file[p] = before[p]
    BY <1>6, <2>1, <2>2 DEF Honest, Same
  <2>4. file = before
    BY <1>2, <2>3
  <2>5. Endings'
    BY <1>1, <2>1 DEF Endings, EndSteps, RevertSteps, Running
  <2> QED
    BY <1>1, <2>1, <2>4, <2>5 DEF Honest, RevertSteps
<1>10. CASE HangUp
  <2>1. UNCHANGED <<step, cur, revertFailed, file>> /\ outcome' = "revert-unverified"
    BY <1>10 DEF HangUp, Finish
  <2>2. Endings'
    BY <1>1, <2>1 DEF Honest, Endings
  <2>3. \A u \in dirty : Same(u)' = Same(u)
    BY <1>1, <2>1 DEF Same
  <2> QED
    BY <1>1, <2>1, <2>2, <2>3 DEF Honest
<1> QED
  BY <1>7, <1>8, <1>9, <1>10

\* Every step keeps the run honest.
LEMMA HonestStep ==
    ASSUME Ledger, Honest, [Next]_vars, "late" \notin Faults, "swap" \notin Refusable
    PROVE  Honest'
<1>1. /\ TypeInv /\ file \in [Paths -> Contents] /\ before \in [Paths -> Contents]
      /\ PathOf \in [Users -> Paths] /\ dirty \in SUBSET Users
  BY PathsAssumption DEF Ledger, TypeInv, TypeOK, GuardTypeOK
<1>2. CASE Client
  BY <1>1, <1>2, SetupHonest, CopyHonest, SwapHonest, CheckHonest, EndHonest, AbortHonest DEF Client
<1>3. CASE Script
  <2>1. \A p \in Paths : file'[p] \in {file[p], before[p]}
    BY <1>3, ScriptAside, TrapStepRestores
    DEF Ledger, TrapStep, GuardFault, TrapOnEOF, TrapOnSignal, EnterRestore, RestoreDone, KillGuard
  <2>2. file' \in [Paths -> Contents]
    BY <1>1, <1>3, ScriptAside, GuardStepType DEF TypeInv, TypeOK, GuardTypeOK
  <2> QED
    BY <1>1, <1>3, <2>1, <2>2, ScriptAside, OutsideHonest DEF asideVars
<1>4. CASE GuardExitSeen \/ Drop \/ Crash \/ Deny \/ UNCHANGED vars
  <2>1. /\ UNCHANGED <<phase, step, cur, dirty, manifested, revertFailed, late, before, file>>
        /\ outcome' \in {outcome, "crashed"}
    BY <1>4 DEF GuardExitSeen, Drop, Crash, Deny, Finish, vars
  <2> QED
    BY <1>1, <2>1, OutsideHonest
<1>5. ~LandLate
  BY DEF LandLate, Honest
<1> QED
  BY <1>2, <1>3, <1>4, <1>5 DEF Next, Environment, Rest, Script

\* Nothing has changed to begin with.
LEMMA HonestInit == Init => Honest
  BY DEF Init, Honest, Endings, EndSteps, RevertSteps

\* What the report of an honest run says of the files.
LEMMA HonestReports == Ledger /\ Honest => HonestRevert
<1> SUFFICES ASSUME Ledger, Honest,
                    outcome \in {"aborted-reverted", "failed-before-write", "dry-run"}
             PROVE  file = before
  BY DEF HonestRevert, AllOriginal
<1>1. file \in [Paths -> Contents] /\ before \in [Paths -> Contents]
  BY DEF Ledger, TypeInv, TypeOK, GuardTypeOK
<1>2. CASE outcome = "aborted-reverted"
  BY <1>2 DEF Honest, Endings
<1>3. CASE outcome = "failed-before-write"
  BY <1>3 DEF Honest, Endings, Ledger, Loaded
<1>4. CASE outcome = "dry-run"
  <2>1. manifested = {}
    BY <1>4 DEF Honest, Endings
  <2>2. \A p \in Paths : file[p] = before[p]
    BY <2>1 DEF Ledger, Changed
  <2> QED
    BY <1>1, <2>2
<1> QED
  BY <1>2, <1>3, <1>4

\* A run that reports "aborted-reverted", "failed-before-write" or "dry-run" has left every
\* file as it was and nothing changes them any more (tx.abort), for any number of users, on
\* one file or several, and whatever fails on the way, a torn swap included; but not when a
\* swap is refused, which clears the mark of a file that an earlier phase has written, and
\* not when a swap may land after the client has given it up.
THEOREM RevertIsHonest ==
    ASSUME "late" \notin Faults, "swap" \notin Refusable
    PROVE  Spec => []HonestRevert
<1>1. Ledger /\ Honest /\ [Next]_vars => Honest'
  BY HonestStep
<1> QED
  BY <1>1, HonestInit, HonestReports, LedgerInvariant, PTL DEF Spec

----------------------------------------------------------------------------
(* What the trap puts back.                                                *)

\* The faults that the backstop does not survive: a script that is signalled while the client
\* goes on, or killed; a swap that lands after the trap; a marker of which the client does
\* not know.
Backed == {"signal", "kill", "late"} \cap Faults = {} /\ "marker" \notin Losable

\* The restoring script has still to read a line for path p that restores its original.
Queued(p) ==
    \E i \in 1..Len(queue) : PathOf[queue[i].user] = p /\ Sound(queue[i])

Places ==
    /\ step = "probe" => phase \in WorkPhases
    /\ guard = "off" => phase = "setup" /\ step \in {"validate", "connect"}
    /\ stdin = "closed" => step \in {"wait", "rm"}
    /\ step \in EndSteps => phase \in {"cleanup", "abort", "dryRun", "release"}
    /\ phase = "abort" => step \in RevertSteps \cup {"close", "wait"}
    /\ commit => step \in EndSteps /\ phase \in {"cleanup", "abort"}
    /\ outcome = "revert-unverified" => phase = "abort" /\ step = "revert"

\* The trap does not run before the client has gone, or has closed the script's input; it
\* puts back all that has changed, unless it finds the marker.
Backstop ==
    /\ Places
    /\ late = {}
    /\ guard \in {"restoring", "exited"} => conn = "down" \/ stdin = "closed"
    /\ guard = "restoring" /\ step # "rm" => \A p \in Paths : file[p] # before[p] => Queued(p)
    /\ guard = "exited" /\ step # "rm" /\ ~commit => file = before

\* While the client can write, the trap waits.
LEMMA TrapWaits ==
    ASSUME Backstop, TypeInv, conn = "up", step \notin {"wait", "rm"}
    PROVE  guard \in {"off", "armed"}
  BY DEF Backstop, Places, TypeInv, TypeOK, GuardTypeOK

\* A step of the client for which the script lies in wait, before and after it.
LEMMA WaitingBackstop ==
    ASSUME Places', guard' \in {"off", "armed"}, late' = {}
    PROVE  Backstop'
  BY DEF Backstop

\* A step that leaves the files and the trap alone.
LEMMA IdleBackstop ==
    ASSUME Backstop, Places', UNCHANGED <<file, before, backup, queue, guard, late>>,
           conn' \in {conn, "down"}, stdin' \in {stdin, "closed"},
           step = "rm" => step' = "rm", commit => commit'
    PROVE  Backstop'
<1>1. \A p : Queued(p)' = Queued(p)
  BY DEF Queued, Sound
<1> QED
  BY <1>1 DEF Backstop

\* The places of a run at work, or that aborts.
LEMMA WorkPlaces ==
    ASSUME Places, guard' = guard, stdin' = stdin, commit' = commit, Running, outcome' = outcome,
           phase \in WorkPhases, step \notin EndSteps,
           Working \/ \E d : GoAbort(d)
    PROVE  Places'
<1>1. guard # "off" /\ stdin # "closed" /\ ~commit
  BY DEF Places, WorkPhases, EndSteps
<1> QED
  BY <1>1 DEF Places, Working, GoAbort, WorkPhases, EndSteps, RevertSteps, Running

\* The setup.
LEMMA SetupBackstop ==
    ASSUME Ledger, Backstop, Validate \/ Connect \/ ConnectFails \/ Load \/ LoadFails
    PROVE  Backstop'
<1>1. /\ phase = "setup" /\ Running /\ UNCHANGED <<file, before, backup, queue, late, stdin, commit>>
      /\ step \in {"validate", "connect", "load"}
  BY DEF Validate, Connect, ConnectFails, Load, LoadFails, At
<1>2. stdin # "closed" /\ ~commit
  BY <1>1 DEF Backstop, Places, EndSteps
<1>3. file = before
  BY <1>1 DEF Ledger, Loaded
<1>4. CASE Validate \/ LoadFails
  <2>1. /\ phase' \in {"setup", "release"} /\ outcome' # "revert-unverified"
        /\ phase' = "setup" => step' \in {"validate", "connect"}
        /\ phase' = "release" => step = "load" /\ step' = "close"
        /\ guard' = guard /\ conn' \in {conn, "down"}
    BY <1>1, <1>4 DEF Validate, LoadFails, Goto, Finish, Running, At
  <2>2. Places'
    BY <1>1, <1>2, <2>1 DEF Backstop, Places, EndSteps, RevertSteps
  <2> QED
    BY <1>1, <2>1, <2>2, IdleBackstop
<1>5. CASE Connect \/ ConnectFails
  <2>1. /\ phase' = "setup" /\ outcome' # "revert-unverified" /\ guard' \in {"off", "armed"}
        /\ guard' = "off" => step' = "connect"
        /\ step' \in {"connect", "load"}
    BY <1>1, <1>5 DEF Connect, ConnectFails, Goto, Finish, Running, At
  <2>2. Places'
    BY <1>1, <1>2, <2>1 DEF Backstop, Places, EndSteps, RevertSteps
  <2> QED
    BY <1>1, <2>1, <2>2, WaitingBackstop DEF Backstop
<1>6. CASE Load
  <2>1. /\ conn = "up" /\ step = "load" /\ outcome' = outcome /\ guard' = guard
        /\ (phase' = "dryRun" /\ step' = "close") \/ Enter(Following("load"))
    BY <1>6 DEF Load, At, Answered
  <2>2. guard = "armed"
    BY <1>1, <2>1, TrapWaits DEF Ledger, Backstop, Places
  <2>3. Places'
    BY <1>1, <1>2, <2>1, <2>2, FollowingType
    DEF Places, Enter, EndSteps, RevertSteps, WorkPhases, Running
  <2> QED
    BY <1>1, <2>1, <2>2, <2>3, WaitingBackstop DEF Backstop
<1> QED
  BY <1>4, <1>5, <1>6

\* The copies and the swaps: what is written is written while the script lies in wait.
LEMMA WriteBackstop ==
    ASSUME Backed, Ledger, Backstop,
           SaveLocal \/ SaveBackup \/ AppendManifest \/ Snapshot \/ Swap
    PROVE  Backstop'
<1>1. /\ phase \in {"add", "remove"} /\ Running
      /\ step \in CopySteps /\ UNCHANGED <<outcome, before, guard, stdin, commit>>
  BY DEF SaveLocal, SaveBackup, AppendManifest, Snapshot, Swap, SwapAnswered, SwapRefused, SwapLost,
     SwapLanded, SwapTorn, SwapLate, Swapping, Writing, CopySteps
<1>2. late' = {} /\ conn' \in {conn, "down"}
  BY DEF Backstop, Backed, SaveLocal, SaveBackup, AppendManifest, Snapshot, Swap, SwapAnswered,
     SwapRefused, SwapLost, SwapLanded, SwapTorn, SwapLate, Torn
<1>3. Working \/ \E d : GoAbort(d)
  <2>1. \/ \E d : GoAbort(d)
        \/ \E x \in {"manifest", "backup", "swap"} : Goto(x)
        \/ ToCopy(cur)
    BY DEF SaveLocal, SaveBackup, AppendManifest, Snapshot, ToSwap, Swap, SwapAnswered,
       SwapRefused, SwapLost, SwapLanded, SwapTorn, SwapLate
  <2> QED
    BY <1>1, <2>1, CopyMoves DEF Goto, Working, EndSteps, WorkPhases
<1>4. Places'
  BY <1>1, <1>3, WorkPlaces DEF Backstop, WorkPhases, CopySteps, EndSteps
<1>5. CASE conn = "up"
  <2>1. guard \in {"off", "armed"}
    BY <1>1, <1>5, TrapWaits DEF Ledger, CopySteps
  <2> QED
    BY <1>1, <1>2, <1>4, <2>1, WaitingBackstop
<1>6. CASE conn # "up"
  <2>1. UNCHANGED <<file, backup, queue, guard, late>>
    BY <1>1, <1>2, <1>6
    DEF SaveLocal, SaveBackup, AppendManifest, Snapshot, Swap, SwapAnswered, SwapRefused, SwapLost,
        SwapLanded, SwapTorn, SwapLate, Swapping, Answered, Landed, Refused, Torn, Backed, Backstop
  <2> QED
    BY <1>1, <1>2, <1>4, <2>1, IdleBackstop DEF CopySteps
<1> QED
  BY <1>5, <1>6

\* Health checks and probes.
LEMMA CheckBackstop ==
    ASSUME Ledger, Backstop, CheckHealth \/ Probe
    PROVE  Backstop'
<1>1. /\ Running
      /\ UNCHANGED <<outcome, before, guard, stdin, commit, file, backup, queue, late, conn>>
  BY DEF CheckHealth, Probe, ProbeAgain, ProbeAdded, ProbeRemoved, PositiveControl, ProveAccess,
     Probing, ProbeUnchanged
<1>2. CASE UNCHANGED <<phase, step>>
  BY <1>1, <1>2, IdleBackstop DEF Backstop, Places, Running
<1>3. CASE CheckHealth
  <2>1. phase \in WorkPhases /\ step = "health"
    BY <1>3 DEF CheckHealth, Ledger, TypeInv, ActiveSteps
  <2>2. Begin => GoAbort(dirty) \/ Working
    BY <2>1, CopyMoves, ProbesMove, ControlMoves, ProveMoves DEF Begin, WorkPhases
  <2>3. Working \/ \E d : GoAbort(d)
    BY <1>3, <2>2 DEF CheckHealth
  <2>4. Places'
    BY <1>1, <2>1, <2>3, WorkPlaces DEF Backstop, EndSteps
  <2> QED
    BY <1>1, <2>1, <2>4, IdleBackstop
<1>4. CASE Probe /\ ~ProbeAgain
  <2>1. phase \in WorkPhases /\ step \in ProbeSteps
    BY <1>4 DEF Probe, ProbeAdded, ProbeRemoved, PositiveControl, ProveAccess, Probing, ProbeSteps,
       Backstop, Places, Ledger, TypeInv, ActiveSteps
  <2>2. GoAbort(dirty) \/ Working
    BY <1>4, <2>1, NextProbeMoves, ControlMoves, ProveMoves
    DEF Probe, ProbeAdded, ProbeRemoved, PositiveControl, ProveAccess, SomeKey, Working, EndSteps,
        ProbeSteps
  <2>3. Places'
    BY <1>1, <2>1, <2>2, WorkPlaces DEF Backstop, EndSteps, ProbeSteps
  <2> QED
    BY <1>1, <2>1, <2>3, IdleBackstop DEF ProbeSteps
<1> QED
  BY <1>2, <1>3, <1>4 DEF Probe, ProbeAgain

\* The end of a run.
LEMMA EndBackstop ==
    ASSUME Backed, Ledger, Backstop,
           WriteMarker \/ CloseStdin \/ AwaitGuard \/ RemoveTxDir \/ Report
    PROVE  Backstop'
<1>1. Running /\ UNCHANGED <<before, guard, late, file>>
  BY DEF WriteMarker, CloseStdin, AwaitGuard, RemoveTxDir, Report, At
<1>2. CASE WriteMarker
  <2>1. /\ phase = "cleanup" /\ step = "marker" /\ UNCHANGED <<outcome, stdin, backup, queue, conn>>
        /\ \/ step' = "close" /\ phase' = "cleanup"
           \/ GoAbort(dirty) /\ commit' = commit
    BY <1>2 DEF WriteMarker, At, Goto, Landed, Backed
  <2>2. ~commit /\ guard # "off" /\ stdin # "closed"
    BY <2>1 DEF Backstop, Places, EndSteps
  <2>3. Places'
    BY <1>1, <2>1, <2>2 DEF GoAbort, Backstop, Places, EndSteps, RevertSteps, Running
  <2> QED
    BY <1>1, <2>1, <2>2, <2>3, IdleBackstop
<1>3. CASE CloseStdin \/ AwaitGuard
  <2>1. /\ phase' = phase /\ step \in {"close", "wait"} /\ step' \in {"wait", "rm"}
        /\ step = "wait" => stdin' = stdin
        /\ step = "close" => stdin' = "closed"
        /\ phase = "abort" => step' = "wait"
        /\ outcome' \in {outcome, Verdict} /\ conn' \in {conn, "down"}
        /\ UNCHANGED <<commit, backup, queue>>
    BY <1>3 DEF CloseStdin, AwaitGuard, Goto, Finish
  <2>2. Places'
    BY <1>1, <2>1 DEF Backstop, Places, EndSteps, RevertSteps, Running, Verdict
  <2> QED
    BY <1>1, <2>1, <2>2, IdleBackstop
<1>4. CASE RemoveTxDir \/ Report
  <2>1. /\ UNCHANGED <<phase, step, stdin>> /\ step = "rm"
        /\ commit' = commit \/ commit' = FALSE
        /\ outcome' \in {outcome, Verdict} /\ conn' \in {conn, "down"}
    BY <1>4 DEF RemoveTxDir, Report, Finish
  <2>2. Places'
    BY <1>1, <2>1 DEF Backstop, Places, EndSteps, RevertSteps, Running, Verdict
  <2> QED
    BY <1>1, <2>1, <2>2 DEF Backstop
<1> QED
  BY <1>2, <1>3, <1>4

\* The revert, and its end.
LEMMA AbortBackstop ==
    ASSUME Backed, Ledger, Backstop, RevertFile \/ ReadBack \/ Disarm \/ HangUp
    PROVE  Backstop'
<1>1. /\ Running /\ phase = "abort" /\ step \in RevertSteps
      /\ UNCHANGED <<phase, before, late, guard, stdin, backup, queue>>
      /\ conn' \in {conn, "down"}
  BY DEF Backed, RevertFile, RevertUnanswered, Torn, ReadBack, Disarm, HangUp, Reverting, Reverted,
     At, RevertSteps, NextRevert, Goto, Finish
<1>2. guard # "off" /\ stdin # "closed" /\ ~commit
  BY <1>1 DEF Backstop, Places, EndSteps, RevertSteps
<1>3. /\ step' \in RevertSteps \cup {"close"}
      /\ commit' = commit \/ step' = "close"
      /\ outcome' = outcome \/ (outcome' = "revert-unverified" /\ step' = "revert")
  BY DEF RevertFile, RevertUnanswered, ReadBack, Disarm, HangUp, Reverting, Reverted, At,
     RevertSteps, NextRevert, Goto, Finish
<1>4. Places'
  BY <1>1, <1>2, <1>3 DEF Backstop, Places, EndSteps, RevertSteps, Running
<1>5. CASE UNCHANGED file
  BY <1>1, <1>2, <1>3, <1>4, <1>5, IdleBackstop DEF RevertSteps
<1>6. CASE ~UNCHANGED file
  <2>1. conn = "up"
    BY <1>6 DEF RevertFile, RevertUnanswered, Torn, ReadBack, Disarm, HangUp, Answered, Landed
  <2>2. guard \in {"off", "armed"}
    BY <1>1, <2>1, TrapWaits DEF Ledger, RevertSteps
  <2>3. late' = {}
    BY <1>1 DEF Backstop
  <2> QED
    BY <1>1, <1>4, <2>2, <2>3, WaitingBackstop
<1> QED
  BY <1>5, <1>6

\* The script begins to restore with a line for every file that has changed.
LEMMA EnterBackstop ==
    ASSUME Ledger, Backstop, EnterRestore, conn = "down" \/ stdin = "closed", UNCHANGED asideVars
    PROVE  Backstop'
<1>1. /\ guard = "armed" /\ UNCHANGED <<phase, step, outcome, late, before>>
      /\ UNCHANGED <<file, backup, manifest, commit, restored, stdin, conn>>
      /\ guard' \in {"exited", "restoring"}
  BY DEF EnterRestore, asideVars
<1>2. Places' /\ late' = {}
  BY <1>1 DEF Backstop, Places
<1>3. step # "rm" => \A p \in Paths : file[p] # before[p] => Covered(p)
  BY LedgerCovers DEF WriteAhead
<1>4. CASE guard' = "restoring"
  <2>1. queue' = manifest
    BY <1>4 DEF EnterRestore
  <2>2. \A p \in Paths : Covered(p) => Queued(p)'
    BY <1>1, <2>1 DEF Covered, Queued, Sound
  <2> QED
    BY <1>1, <1>2, <1>3, <1>4, <2>2 DEF Backstop
<1>5. CASE guard' = "exited" /\ ~commit
  <2>1. manifest = << >>
    BY <1>1, <1>5 DEF EnterRestore
  <2>2. \A p \in Paths : ~Covered(p)
    BY <2>1 DEF Covered
  <2>3. file \in [Paths -> Contents] /\ before \in [Paths -> Contents]
    BY DEF Ledger, TypeInv, TypeOK, GuardTypeOK
  <2>4. step # "rm" => file = before
    BY <1>3, <2>2, <2>3
  <2> QED
    BY <1>1, <1>2, <1>5, <2>4 DEF Backstop
<1>6. CASE guard' = "exited" /\ commit
  BY <1>1, <1>2, <1>6 DEF Backstop
<1> QED
  BY <1>1, <1>4, <1>5, <1>6

\* One line: its file is as it was, and the others have still their lines.
LEMMA LineBackstop ==
    ASSUME Ledger, Backstop, RestoreEntry, UNCHANGED asideVars
    PROVE  Backstop'
<1>1. /\ guard = "restoring" /\ queue # << >> /\ queue' = Tail(queue)
      /\ file' = [file EXCEPT ![PathOf[Head(queue).user]] = RestoredContent(Head(queue))]
      /\ UNCHANGED <<backup, manifest, commit, restored, guard, stdin, conn>>
      /\ UNCHANGED <<phase, step, outcome, late, before>>
  BY DEF RestoreEntry, asideVars
<1>2. Places' /\ late' = {}
  BY <1>1 DEF Backstop, Places
<1>3. ASSUME step # "rm", NEW p \in Paths, file'[p] # before[p]
      PROVE  Queued(p)'
  <2>1. file'[p] \in {file[p], before[p]}
    BY TrapStepRestores DEF Ledger
  <2>2. PICK i \in 1..Len(queue) : PathOf[queue[i].user] = p /\ Sound(queue[i])
    BY <1>1, <1>3, <2>1 DEF Backstop, Queued
  <2>3. queue \in Seq(Entries) /\ Head(queue) = queue[1] /\ queue[i] \in Entries
    BY <1>1 DEF Ledger, TypeInv, TypeOK, GuardTypeOK
  <2>4. i # 1
    <3>1. SUFFICES ASSUME i = 1 PROVE FALSE
      OBVIOUS
    <3>2. file'[p] = RestoredContent(queue[1])
      BY <1>1, <2>2, <2>3, <3>1 DEF Ledger, TypeInv, TypeOK, GuardTypeOK
    <3>3. RestoredContent(queue[1]) = before[p]
      BY <2>2, <2>3, <3>1 DEF Sound, RestoredContent, Entries
    <3> QED
      BY <1>3, <3>2, <3>3
  <2>5. i - 1 \in 1..Len(Tail(queue)) /\ Tail(queue)[i - 1] = queue[i]
    BY <1>1, <2>2, <2>3, <2>4
  <2> QED
    BY <1>1, <2>2, <2>5 DEF Queued, Sound
<1> QED
  BY <1>1, <1>2, <1>3 DEF Backstop

\* Every step keeps the backstop.
LEMMA BackstopStep ==
    ASSUME Backed, Ledger, Backstop, [Next]_vars
    PROVE  Backstop'
<1>1. CASE Client
  BY <1>1, SetupBackstop, WriteBackstop, CheckBackstop, EndBackstop, AbortBackstop DEF Client
<1>2. CASE Script
  <2>1. \/ EnterRestore /\ (conn = "down" \/ stdin = "closed")
        \/ RestoreEntry \/ RestoreDone
    BY <1>2, ScriptAside DEF TrapStep, GuardFault, TrapOnEOF, TrapOnSignal, KillGuard, Backed
  <2>2. CASE RestoreDone
    <3>1. /\ guard = "restoring" /\ queue = << >> /\ guard' = "exited"
          /\ UNCHANGED <<phase, step, outcome, late, before, file, stdin, conn, commit>>
      BY <1>2, <2>2, ScriptAside DEF RestoreDone, asideVars
    <3>2. Places' /\ late' = {}
      BY <3>1 DEF Backstop, Places
    <3>3. step # "rm" => \A p \in Paths : file[p] = before[p]
      BY <3>1 DEF Backstop, Queued
    <3>4. step # "rm" => file = before
      BY <3>3 DEF Ledger, TypeInv, TypeOK, GuardTypeOK
    <3> QED
      BY <3>1, <3>2, <3>4 DEF Backstop
  <2> QED
    BY <1>2, <2>1, <2>2, ScriptAside, EnterBackstop, LineBackstop
<1>3. CASE GuardExitSeen \/ Drop \/ Crash \/ Deny \/ UNCHANGED vars
  <2>1. /\ UNCHANGED <<phase, step, file, before, backup, queue, guard, late, stdin, commit>>
        /\ conn' \in {conn, "down"} /\ outcome' \in {outcome, "crashed"}
    BY <1>3 DEF GuardExitSeen, Drop, Crash, Deny, Finish, vars
  <2>2. Places'
    BY <2>1 DEF Backstop, Places
  <2> QED
    BY <2>1, <2>2, IdleBackstop
<1>4. ~LandLate
  BY DEF LandLate, Backstop
<1> QED
  BY <1>1, <1>2, <1>3, <1>4 DEF Next, Environment, Rest, Script

LEMMA BackstopInit == Init => Backstop
  BY DEF Init, GuardInit, Backstop, Places, EndSteps

\* The trap has put back what the client could not: once the host has come to rest after a run
\* that ends "revert-unverified" every file is as before (tx.abort), for any users, on one file
\* or several, and any fault but those that Backed names.
THEOREM TrapBacksUp ==
    ASSUME Backed
    PROVE  Spec => []BackstopHolds
<1>1. Ledger /\ Backstop /\ [Next]_vars => Backstop'
  BY BackstopStep
<1>2. Backstop => BackstopHolds
  BY DEF Backstop, Places, EndSteps, BackstopHolds, Settled, AllOriginal
<1> QED
  BY <1>1, <1>2, BackstopInit, LedgerInvariant, PTL DEF Spec

----------------------------------------------------------------------------
(* What a commit has carried out.                                          *)

\* The faults and the hosts for which a commit is the request: the transaction directory is not
\* removed before the script has ended, and no two users share a file.
Separate == "stall" \notin Faults /\ \A u, v \in Users : PathOf[u] = PathOf[v] => u = v

Start(u) == KeysIn(before[PathOf[u]])

Widest(u) == Start(u) \cup req.add[u]

Final(u) == Widest(u) \ req.remove[u]

\* How far the working copy of user u has come.
Stage(u) ==
    CASE phase = "add" -> IF u < cur THEN Widest(u) ELSE Start(u)
      [] phase = "verifyAdd" -> Widest(u)
      [] phase = "remove" -> IF u < cur THEN Final(u) ELSE Widest(u)
      [] OTHER -> Final(u)

\* The files agree with the working copies while the client is connected and at work; the marker
\* is written when they are as requested, and the script that lies in wait will see it.
Carried ==
    /\ phase \in WorkPhases => \A u \in Named : work[u] = Stage(u)
    /\ phase \in WorkPhases /\ step \notin EndSteps /\ conn = "up" =>
          \A u \in Named : KeysIn(file[PathOf[u]]) = work[u]
    /\ phase = "cleanup" /\ step \in EndSteps =>
          AllRequested /\ guard \in {"armed", "exited"} /\ (guard = "armed" => commit)
    /\ exitSeen => phase # "setup" /\ (guard = "exited" \/ conn = "down")
    /\ step = "rm" => exitSeen
    /\ step = "health" => cur = 0
    /\ step \in ProbeSteps => phase \in {"verifyAdd", "verifyRemove", "cleanup"}

\* The user after u in the loop over S comes after u.
LEMMA AfterPast ==
    ASSUME NEW u \in Nat, NEW S \in SUBSET Users, After(u, S) \in Users
    PROVE  After(u, S) \in S /\ After(u, S) > u
<1> DEFINE later == {x \in S : x > u}
<1>1. later \in SUBSET Nat
  <2>1. Users \subseteq Nat
    BY UsersAssumption DEF Users
  <2> QED  BY <2>1
<1>2. later # {}
  <2>1. NumUsers + 1 \notin Users
    BY UsersAssumption DEF Users
  <2> QED  BY <2>1 DEF After
<1>3. PICK v \in later : \A x \in later : v <= x
  BY <1>1, <1>2, LeastNumber, Zenon
<1>4. v \in S /\ v > u /\ \A x \in S : x > u => v <= x
  BY <1>3
<1> QED  BY <1>4 DEF After

\* A step that leaves the files, the working copies and the marker alone.
LEMMA IdleCarried ==
    ASSUME Carried, UNCHANGED <<file, before, req, work, guard, commit>>, conn' \in {conn, "down"},
           exitSeen' = exitSeen, exitSeen => phase' # "setup",
           \/ phase' \notin WorkPhases
           \/ phase \in WorkPhases /\ phase' = phase /\ cur' = cur
              /\ (step' \in EndSteps => step \in EndSteps)
              /\ (step \in EndSteps => step' \in EndSteps),
           step' = "rm" => exitSeen, step' = "health" => cur' = 0,
           step' \in ProbeSteps => step \in ProbeSteps /\ phase' = phase
    PROVE  Carried'
<1>1. Named' = Named /\ AllRequested' = AllRequested
  BY DEF Named, AllRequested, Wanted
<1>2. phase' = phase /\ cur' = cur => \A u \in Named : Stage(u)' = Stage(u)
  BY DEF Stage, Start, Widest, Final
<1> QED
  BY <1>1, <1>2 DEF Carried, WorkPhases

\* The next phase, or the next file: the working copies have come as far.
LEMMA NextStage ==
    ASSUME Carried, UNCHANGED <<file, before, req, guard, commit, exitSeen>>,
           conn' = conn, phase \in WorkPhases, Working, step' = "health" => cur' = 0,
           step' \in ProbeSteps => phase' \in {"verifyAdd", "verifyRemove", "cleanup"},
           \A u \in Named : work'[u] = Stage(u)' /\ (conn = "up" => KeysIn(file[PathOf[u]]) = work'[u])
    PROVE  Carried'
<1>1. Named' = Named
  BY DEF Named
<1> QED
  BY <1>1 DEF Carried, Working, EndSteps, WorkPhases

\* The loops of phaseAdd and phaseRemove: the files up to w are done and those that are passed
\* over are in no need of it.
LEMMA StageAfterCopy ==
    ASSUME NEW w \in Nat, phase \in {"add", "remove"}, ToCopy(w), UNCHANGED <<before, req>>,
           req \in Request,
           \A u \in Named : u <= w => work'[u] = IF phase = "add" THEN Widest(u) ELSE Final(u),
           \A u \in Named : u > w => /\ work[u] = IF phase = "add" THEN Start(u) ELSE Widest(u)
                                     /\ work'[u] = work[u]
    PROVE  \A u \in Named : work'[u] = Stage(u)'
<1> DEFINE v == After(w, PhaseUsers)
           Done(u) == IF phase = "add" THEN Widest(u) ELSE Final(u)
           Todo(u) == IF phase = "add" THEN Start(u) ELSE Widest(u)
<1>1. Named \subseteq Users /\ PhaseUsers \subseteq Users /\ \A u \in Users : u \in Nat
  BY UsersAssumption DEF Named, Users, PhaseUsers, Adders
<1>2. \A u \in PhaseUsers : u > w => v \in Users /\ v <= u
  BY <1>1, AfterSkips
<1>3. \A u \in Named : u > w /\ u \notin PhaseUsers => Done(u) = Todo(u)
  <2>1. CASE phase = "add"
    BY <1>1, <2>1 DEF PhaseUsers, Adders, Widest
  <2>2. CASE phase = "remove"
    <3>1. \A u \in Named : u \notin PhaseUsers => work[u] \ req.remove[u] = work[u]
      BY <1>1, <2>2 DEF PhaseUsers, Edited
    <3> QED
      BY <2>2, <3>1 DEF Final
  <2> QED
    BY <2>1, <2>2
<1>4. \A u : /\ Start(u)' = Start(u) /\ Widest(u)' = Widest(u) /\ Final(u)' = Final(u)
  BY DEF Start, Widest, Final
<1>5. v \in Users => v \in Nat
  BY <1>1
<1>6. \A u \in Named : u <= w => work'[u] = Done(u)
  OBVIOUS
<1>7. \A u \in Named : u > w => work'[u] = Todo(u)
  OBVIOUS
<1>8. CASE v \in Users
  <2>1. phase' = phase /\ cur' = v
    BY <1>8 DEF ToCopy
  <2>2. \A u \in Named : Stage(u)' = IF u < v THEN Done(u) ELSE Todo(u)
    BY <1>4, <2>1 DEF Stage
  <2>3. v > w
    BY <1>1, <1>8, AfterPast
  <2> HIDE DEF v, Done, Todo
  <2>4. \A u \in Named : u <= w => u < v
    BY <1>1, <1>5, <1>8, <2>3
  <2>5. \A u \in Named : u > w /\ u < v => u \notin PhaseUsers
    BY <1>1, <1>2, <1>5, <1>8
  <2>6. ASSUME NEW u \in Named PROVE work'[u] = Stage(u)'
    <3>1. CASE u <= w
      BY <1>6, <2>2, <2>4, <3>1
    <3>2. CASE u > w /\ u < v
      BY <1>3, <1>7, <2>2, <2>5, <3>2
    <3>3. CASE u > w /\ ~(u < v)
      BY <1>7, <2>2, <3>3
    <3> QED
      BY <1>1, <3>1, <3>2, <3>3
  <2> QED
    BY <2>6
<1>9. CASE v \notin Users
  <2>1. phase' = IF phase = "add" THEN "verifyAdd" ELSE "verifyRemove"
    BY <1>9 DEF ToCopy, Enter, Following
  <2>2. \A u \in Named : Stage(u)' = Done(u)
    BY <1>4, <2>1 DEF Stage
  <2> HIDE DEF v, Done, Todo
  <2>3. ASSUME NEW u \in Named PROVE work'[u] = Done(u)
    <3>1. CASE u <= w
      BY <1>6, <3>1
    <3>2. CASE u > w
      BY <1>1, <1>2, <1>3, <1>7, <1>9, <3>2
    <3> QED
      BY <1>1, <3>1, <3>2
  <2> QED
    BY <2>2, <2>3
<1> QED
  BY <1>8, <1>9

\* A run that aborts, or ends without a change, has nothing more to carry out.
LEMMA LeftCarried ==
    ASSUME Carried, phase' \notin WorkPhases \cup {"setup"}, exitSeen' = exitSeen,
           guard' = guard \/ guard # "exited", conn' \in {conn, "down"},
           step' = "rm" => exitSeen, step' # "health", step' \notin ProbeSteps
    PROVE  Carried'
  BY DEF Carried, WorkPhases

\* The setup.
LEMMA SetupCarried ==
    ASSUME Ledger, Carried, Validate \/ Connect \/ ConnectFails \/ Load \/ LoadFails
    PROVE  Carried'
<1>1. /\ phase = "setup" /\ ~exitSeen /\ exitSeen' = exitSeen
      /\ step \in {"validate", "connect", "load"}
  BY DEF Validate, Connect, ConnectFails, Load, LoadFails, At, Carried
<1>2. CASE ~Load \/ (phase' = "dryRun" /\ step' = "close")
  <2>1. /\ phase' \in {"setup", "release", "dryRun"}
        /\ step' \in {"validate", "connect", "load", "close"}
    BY <1>1, <1>2 DEF Validate, Connect, ConnectFails, LoadFails, Goto, Finish
  <2> QED
    BY <1>1, <2>1 DEF Carried, WorkPhases, ProbeSteps
<1>3. CASE Load /\ Enter(Following("load"))
  <2>1. /\ step' = "health" /\ cur' = 0 /\ UNCHANGED <<file, before, req>>
        /\ phase' = IF Adders # {} THEN "add" ELSE "remove"
    BY <1>3 DEF Load, Enter, Following
  <2>2. file = before
    BY <1>1 DEF Ledger, Loaded
  <2>3. \A u \in Named : work'[u] = Start(u) /\ KeysIn(file[PathOf[u]]) = Start(u)
    <3>1. Named \subseteq Users
      BY DEF Named
    <3> QED
      BY <1>3, <2>2, <3>1 DEF Load, Start
  <2>4. Named' = Named /\ \A u : Start(u)' = Start(u) /\ Widest(u)' = Widest(u)
    BY <2>1 DEF Named, Start, Widest
  <2>5. \A u \in Named : u \in Users /\ ~(u < 0)
    BY UsersAssumption DEF Named, Users
  <2>6. Adders = {} => \A u \in Named : Widest(u) = Start(u)
    BY <2>5 DEF Adders, Widest
  <2>7. \A u \in Named : Stage(u)' = Start(u)
    BY <2>1, <2>4, <2>5, <2>6 DEF Stage
  <2> QED
    BY <1>1, <2>1, <2>3, <2>4, <2>7 DEF Carried, EndSteps, ProbeSteps
<1> QED
  BY <1>2, <1>3 DEF Load

\* Copies leave the working copies alone; a file that needs no swap has come as far.
LEMMA CopyCarried ==
    ASSUME Ledger, Carried, SaveLocal \/ SaveBackup \/ AppendManifest \/ Snapshot
    PROVE  Carried'
<1>1. /\ Running /\ phase \in {"add", "remove"} /\ cur \in Users /\ cur \in Nat
      /\ step \in CopySteps /\ UNCHANGED <<file, before, req, work, guard, commit, exitSeen, conn>>
      /\ req \in Request /\ cur \in Named
  BY UsersAssumption
  DEF SaveLocal, SaveBackup, AppendManifest, Snapshot, Writing, CopySteps, Users, Ledger, TypeInv,
      TypeOK, Position
<1>2. \/ GoAbort(dirty)
      \/ \E x \in {"manifest", "backup", "swap"} : Goto(x)
      \/ ToCopy(cur) /\ Edited(cur) = work[cur]
  BY DEF SaveLocal, SaveBackup, AppendManifest, Snapshot, ToSwap
<1>3. CASE GoAbort(dirty)
  BY <1>1, <1>3, LeftCarried DEF GoAbort, WorkPhases, ProbeSteps
<1>4. CASE \E x \in {"manifest", "backup", "swap"} : Goto(x)
  <2>1. step' \in {"manifest", "backup", "swap"} /\ phase' = phase /\ cur' = cur
    BY <1>4 DEF Goto
  <2> QED
    BY <1>1, <2>1, IdleCarried DEF EndSteps, CopySteps, Carried, WorkPhases, ProbeSteps
<1>5. CASE ToCopy(cur) /\ Edited(cur) = work[cur]
  <2>1. \A u \in Named : work[u] = Stage(u) /\ u \in Nat
    BY <1>1, UsersAssumption DEF Carried, WorkPhases, Named, Users
  <2>2. work[cur] = IF phase = "add" THEN Widest(cur) ELSE Final(cur)
    <3>1. work[cur] = IF phase = "add" THEN Start(cur) ELSE Widest(cur)
      BY <1>1, <2>1 DEF Stage
    <3> QED
      BY <1>1, <1>5, <3>1 DEF Edited, Widest, Final
  <2>3. \A u \in Named : u <= cur => work'[u] = IF phase = "add" THEN Widest(u) ELSE Final(u)
    <3>1. \A u \in Named : u < cur => work[u] = IF phase = "add" THEN Widest(u) ELSE Final(u)
      BY <1>1, <2>1 DEF Stage
    <3> QED
      BY <1>1, <2>1, <2>2, <3>1
  <2>4. \A u \in Named : u > cur => /\ work[u] = IF phase = "add" THEN Start(u) ELSE Widest(u)
                                    /\ work'[u] = work[u]
    BY <1>1, <2>1 DEF Stage
  <2>5. \A u \in Named : work'[u] = Stage(u)'
    BY <1>1, <1>5, <2>3, <2>4, StageAfterCopy
  <2>6. Working /\ (step' = "health" => cur' = 0) /\ step' \notin ProbeSteps
    BY <1>1, <1>5, CopyMoves DEF WorkPhases, ToCopy, Enter, ProbeSteps
  <2> QED
    BY <1>1, <2>5, <2>6, NextStage DEF Carried, WorkPhases, CopySteps, EndSteps
<1> QED
  BY <1>2, <1>3, <1>4, <1>5

\* A swap brings the working copy and the file to the same point.
LEMMA SwapCarried ==
    ASSUME Separate, Ledger, Carried, Swap
    PROVE  Carried'
<1>1. /\ phase \in {"add", "remove"} /\ cur \in Users /\ cur \in Nat /\ cur \in Named
      /\ step = "swap" /\ UNCHANGED <<before, req, guard, commit, exitSeen>>
      /\ req \in Request /\ work \in [Users -> SUBSET Keys] /\ conn' \in {conn, "down"}
      /\ work' = [work EXCEPT ![cur] = Edited(cur)]
  BY UsersAssumption
  DEF Torn, Swap, SwapAnswered, SwapRefused, SwapLost, SwapLanded, SwapTorn, SwapLate, Swapping, Writing,
      CopySteps, Users, Ledger, TypeInv, TypeOK, Position
<1>2. CASE GoAbort(dirty')
  BY <1>1, <1>2, LeftCarried DEF GoAbort, WorkPhases, ProbeSteps
<1>3. CASE SwapAnswered
  <2>1. /\ ToCopy(cur) /\ conn = "up" /\ conn' = conn
        /\ file' = [file EXCEPT ![PathOf[cur]] = work'[cur]]
    BY <1>3 DEF SwapAnswered, SwapIn, Answered
  <2>2. \A u \in Named : /\ work[u] = Stage(u) /\ u \in Nat /\ u \in Users
                         /\ KeysIn(file[PathOf[u]]) = work[u]
    BY <1>1, <2>1, UsersAssumption DEF Carried, WorkPhases, Named, Users, EndSteps
  <2>3. /\ work'[cur] = Edited(cur) /\ Edited(cur) \in SUBSET Keys
        /\ \A u \in Users : u # cur => work'[u] = work[u]
    BY <1>1, EditedType DEF Ledger
  <2>4. work'[cur] = IF phase = "add" THEN Widest(cur) ELSE Final(cur)
    <3>1. work[cur] = IF phase = "add" THEN Start(cur) ELSE Widest(cur)
      BY <1>1, <2>2 DEF Stage
    <3> QED
      BY <1>1, <2>3, <3>1 DEF Edited, Widest, Final
  <2>5. \A u \in Named : u <= cur => work'[u] = IF phase = "add" THEN Widest(u) ELSE Final(u)
    <3>1. \A u \in Named : u < cur => work[u] = IF phase = "add" THEN Widest(u) ELSE Final(u)
      BY <1>1, <2>2 DEF Stage
    <3>2. \A u \in Named : u < cur => work'[u] = work[u]
      BY <1>1, <2>2, <2>3
    <3> QED
      BY <1>1, <2>2, <2>4, <3>1, <3>2
  <2>6. \A u \in Named : u > cur => /\ work[u] = IF phase = "add" THEN Start(u) ELSE Widest(u)
                                    /\ work'[u] = work[u]
    BY <1>1, <2>2, <2>3 DEF Stage
  <2>7. \A u \in Named : work'[u] = Stage(u)'
    BY <1>1, <2>1, <2>5, <2>6, StageAfterCopy
  <2>8. \A u \in Named : KeysIn(file'[PathOf[u]]) = work'[u]
    <3>1. KeysIn(work'[cur]) = work'[cur]
      BY <2>3, AbsentAssumption DEF KeysIn
    <3>2. ASSUME NEW u \in Named PROVE KeysIn(file'[PathOf[u]]) = work'[u]
      <4>1. CASE u = cur
        BY <1>1, <2>1, <3>1, <4>1, PathsAssumption DEF Ledger, TypeInv, TypeOK, GuardTypeOK
      <4>2. CASE u # cur
        <5>1. PathOf[u] # PathOf[cur]
          BY <1>1, <2>2, <4>2 DEF Separate
        <5> QED
          BY <2>1, <2>2, <2>3, <4>2, <5>1, PathsAssumption DEF Ledger, TypeInv, TypeOK, GuardTypeOK
      <4> QED
        BY <4>1, <4>2
    <3> QED
      BY <3>2
  <2>9. Working /\ (step' = "health" => cur' = 0) /\ step' \notin ProbeSteps /\ Named' = Named
    BY <1>1, <2>1, CopyMoves DEF WorkPhases, ToCopy, Enter, Named, ProbeSteps
  <2> QED
    BY <1>1, <2>1, <2>7, <2>8, <2>9 DEF Carried, Working, EndSteps, WorkPhases
<1> QED
  BY <1>2, <1>3 DEF Swap, SwapRefused, SwapLost, SwapLanded, SwapTorn, SwapLate

\* A probe, or the move to the next one, leaves the phase where it is.
LEMMA StayCarried ==
    ASSUME Carried, UNCHANGED <<file, before, req, work, guard, commit, exitSeen>>, conn' = conn,
           phase \in {"verifyAdd", "verifyRemove", "cleanup"}, phase' = phase,
           step \notin EndSteps, step' \notin EndSteps \cup {"health"}
    PROVE  Carried'
<1>1. Named' = Named /\ \A u \in Named : Stage(u)' = Stage(u)
  BY DEF Named, Stage, Start, Widest, Final
<1> QED
  BY <1>1 DEF Carried, WorkPhases, EndSteps

\* A verified phase is followed by one at whose start the working copies are where it left them.
LEMMA VerifiedCarried ==
    ASSUME Carried, UNCHANGED <<file, before, req, work, guard, commit, exitSeen>>, conn' = conn,
           phase \in {"verifyAdd", "verifyRemove"}, step \notin EndSteps,
           Enter(Following(phase))
    PROVE  Carried'
<1>1. phase' \in {"remove", "cleanup"} /\ step' = "health" /\ cur' = 0
  BY DEF Enter, Following
<1>2. phase' = "remove" => phase = "verifyAdd"
  BY DEF Enter, Following
<1>3. phase = "verifyAdd" /\ phase' = "cleanup" => ~HasRemovals
  BY DEF Enter, Following
<1>4. Named' = Named /\ \A u \in Named : u \in Users /\ ~(u < 0)
  BY UsersAssumption DEF Named, Users
<1>5. \A u \in Named : /\ work'[u] = Stage(u)
                       /\ conn = "up" => KeysIn(file[PathOf[u]]) = work'[u]
  BY DEF Carried, WorkPhases
<1>6. ~HasRemovals => \A u \in Named : Final(u) = Widest(u)
  BY <1>4 DEF HasRemovals, Final
<1>7. \A u : Widest(u)' = Widest(u) /\ Final(u)' = Final(u)
  BY DEF Start, Widest, Final
<1>8. \A u \in Named : Stage(u)' = Stage(u)
  <2>1. CASE phase' = "remove"
    BY <1>1, <1>2, <1>4, <1>7, <2>1 DEF Stage
  <2>2. CASE phase' = "cleanup"
    BY <1>3, <1>6, <1>7, <2>2 DEF Stage
  <2> QED
    BY <1>1, <2>1, <2>2
<1> QED
  BY <1>1, <1>5, <1>8, NextStage DEF WorkPhases, Working, EndSteps, ProbeSteps

\* The moves of the phases that probe.
LEMMA MoveCarried ==
    ASSUME Carried, UNCHANGED <<file, before, req, work, guard, commit, exitSeen>>, conn' = conn,
           phase \in {"verifyAdd", "verifyRemove", "cleanup"}, step \notin EndSteps,
           \/ phase # "cleanup" /\ \E pairs : StartProbes(pairs)
           \/ phase # "cleanup" /\ NextProbe /\ step # "health"
           \/ phase # "cleanup" /\ \E u : ToControl(u)
           \/ phase = "cleanup" /\ \E u : ToProve(u)
           \/ phase' = phase /\ step' = step /\ step # "health"
           \/ GoAbort(dirty)
    PROVE  Carried'
<1>1. CASE GoAbort(dirty)
  BY <1>1, LeftCarried DEF GoAbort, WorkPhases, ProbeSteps
<1>2. CASE Enter(Following(phase)) /\ phase # "cleanup"
  BY <1>2, VerifiedCarried
<1>3. CASE ~GoAbort(dirty) /\ ~(Enter(Following(phase)) /\ phase # "cleanup")
  <2>1. phase' = phase /\ step' \notin EndSteps \cup {"health"}
    BY <1>3 DEF StartProbes, NextProbe, ToControl, ToProve, Goto, EndSteps
  <2> QED
    BY <2>1, StayCarried
<1> QED
  BY <1>1, <1>2, <1>3

\* The health checks and the probes.
LEMMA CheckCarried ==
    ASSUME Ledger, Carried, CheckHealth
    PROVE  Carried'
<1>1. /\ phase \in WorkPhases /\ step = "health" /\ cur = 0 /\ req \in Request
      /\ UNCHANGED <<file, before, req, work, guard, commit, exitSeen, conn>>
  BY DEF CheckHealth, Ledger, TypeInv, TypeOK, ActiveSteps, Carried
<1>2. CASE GoAbort(dirty)
  BY <1>1, <1>2, LeftCarried DEF GoAbort, WorkPhases, ProbeSteps
<1>3. CASE conn = "up" /\ Begin /\ phase \in {"add", "remove"}
  <2>1. ToCopy(0)
    BY <1>3 DEF Begin
  <2>2. \A u \in Named : /\ work[u] = Stage(u) /\ u \in Nat /\ u > 0
                         /\ KeysIn(file[PathOf[u]]) = work[u]
    BY <1>1, <1>3, UsersAssumption DEF Carried, WorkPhases, Named, Users, EndSteps
  <2>3. \A u \in Named : u > 0 => /\ work[u] = IF phase = "add" THEN Start(u) ELSE Widest(u)
                                  /\ work'[u] = work[u]
    BY <1>1, <1>3, <2>2 DEF Stage
  <2>4. \A u \in Named : u <= 0 => work'[u] = IF phase = "add" THEN Widest(u) ELSE Final(u)
    BY <2>2
  <2>5. \A u \in Named : work'[u] = Stage(u)'
    BY <1>1, <1>3, <2>1, <2>3, <2>4, StageAfterCopy
  <2>6. Working /\ (step' = "health" => cur' = 0) /\ step' \notin ProbeSteps
    BY <1>1, <2>1, CopyMoves DEF ToCopy, Enter, ProbeSteps
  <2> QED
    BY <1>1, <2>2, <2>5, <2>6, NextStage
<1>4. CASE conn = "up" /\ Begin /\ phase \notin {"add", "remove"}
  BY <1>1, <1>4, MoveCarried DEF Begin, WorkPhases, EndSteps
<1> QED
  BY <1>2, <1>3, <1>4 DEF CheckHealth, Answered
LEMMA ProbeCarried ==
    ASSUME Ledger, Carried, Probe
    PROVE  Carried'
<1>1. UNCHANGED <<file, before, req, work, guard, commit, exitSeen, conn>>
  BY DEF Probe, ProbeAgain, ProbeAdded, ProbeRemoved, PositiveControl, ProveAccess, ProbeUnchanged
<1>2. CASE ProbeAgain
  <2>1. UNCHANGED <<phase, step, cur>>
    BY <1>2 DEF ProbeAgain
  <2> QED
    BY <1>1, <2>1, IdleCarried DEF Carried
<1>3. CASE ~ProbeAgain
  <2>1. step \in ProbeSteps /\ phase \in {"verifyAdd", "verifyRemove", "cleanup"}
    BY <1>3
    DEF Probe, ProbeAdded, ProbeRemoved, PositiveControl, ProveAccess, Probing, ProbeSteps, Carried
  <2>2. CASE step = "probe"
    <3>1. phase # "cleanup" /\ (NextProbe \/ GoAbort(dirty))
      BY <1>3, <2>2
      DEF Probe, ProbeAdded, ProbeRemoved, PositiveControl, ProveAccess, Probing
    <3> QED
      BY <1>1, <2>1, <2>2, <3>1, MoveCarried DEF EndSteps
  <2>3. CASE step # "probe"
    <3>1. SomeKey
      BY <1>3, <2>3 DEF Probe, ProbeAdded, ProbeRemoved, PositiveControl, ProveAccess, Probing
    <3>2. \/ phase = "cleanup" /\ ToProve(cur)
          \/ phase # "cleanup" /\ ToControl(cur)
          \/ GoAbort(dirty)
          \/ phase' = phase /\ step' = step
      BY <3>1 DEF SomeKey
    <3> QED
      BY <1>1, <2>1, <2>3, <3>2, MoveCarried DEF EndSteps, ProbeSteps
  <2> QED
    BY <2>2, <2>3
<1> QED
  BY <1>2, <1>3

\* With a file of its own for every user, a file holds what is wanted when each working copy that
\* the request names does, and the others are as they were.
LEMMA WantedOne ==
    ASSUME Separate, NEW u \in Users
    PROVE  Wanted(PathOf[u]) = Final(u)
<1>1. {v \in Users : PathOf[v] = PathOf[u]} = {u}
  BY DEF Separate
<1>2. UNION {req.add[v] : v \in {u}} = req.add[u] /\ UNION {req.remove[v] : v \in {u}} = req.remove[u]
  OBVIOUS
<1> QED
  BY <1>1, <1>2 DEF Wanted, Final, Widest, Start

LEMMA RequestedOnce ==
    ASSUME Separate, Ledger, \A u \in Named : KeysIn(file[PathOf[u]]) = Final(u)
    PROVE  AllRequested
<1> SUFFICES ASSUME NEW p \in Paths PROVE KeysIn(file[p]) = Wanted(p)
  BY DEF AllRequested
<1>1. CASE \E u \in Named : PathOf[u] = p
  BY <1>1, WantedOne DEF Named
<1>2. CASE ~\E u \in Named : PathOf[u] = p
  <2>1. file[p] = before[p]
    BY <1>2 DEF Ledger, Changed, Armed
  <2>2. \A u \in Users : PathOf[u] = p => req.add[u] = {} /\ req.remove[u] = {}
    BY <1>2 DEF Named
  <2>3. Wanted(p) = KeysIn(before[p])
    BY <2>2 DEF Wanted
  <2> QED
    BY <2>1, <2>3
<1> QED
  BY <1>1, <1>2

\* The end of a run: the marker is written when the files are as requested, and the transaction
\* directory removed when the script is gone.
LEMMA EndCarried ==
    ASSUME Backed, Separate, Ledger, Backstop, Carried,
           WriteMarker \/ CloseStdin \/ AwaitGuard \/ RemoveTxDir \/ Report
    PROVE  Carried'
<1>1. UNCHANGED <<file, before, req, work, guard, exitSeen>> /\ AllRequested' = AllRequested
  <2>1. UNCHANGED <<file, before, req, work, guard, exitSeen>>
    BY DEF WriteMarker, CloseStdin, AwaitGuard, RemoveTxDir, Report
  <2> QED
    BY <2>1 DEF AllRequested, Wanted
<1>2. CASE WriteMarker
  <2>1. /\ phase = "cleanup" /\ step = "marker"
        /\ \/ Answered /\ commit' = TRUE /\ Goto("close") /\ conn = "up"
           \/ GoAbort(dirty) /\ UNCHANGED commit
        /\ conn' = conn
    BY <1>2 DEF WriteMarker, At, Answered, Landed, Backed
  <2>2. CASE GoAbort(dirty)
    BY <1>1, <2>1, <2>2, LeftCarried DEF GoAbort, WorkPhases, ProbeSteps
  <2>3. CASE conn = "up" /\ commit' = TRUE /\ Goto("close")
    <3>1. \A u \in Named : work[u] = Final(u) /\ KeysIn(file[PathOf[u]]) = work[u]
      BY <2>1, <2>3 DEF Carried, WorkPhases, EndSteps, Stage
    <3>2. AllRequested
      BY <3>1, RequestedOnce
    <3>3. guard = "armed"
      BY <2>1, <2>3, TrapWaits DEF Ledger, Backstop, Places
    <3>4. \A u \in Named : Stage(u)' = Stage(u)
      BY <1>1, <2>1, <2>3 DEF Goto, Stage, Start, Widest, Final
    <3>5. phase' = phase /\ step' = "close" /\ Named' = Named
      BY <1>1, <2>3 DEF Goto, Named
    <3> QED
      BY <1>1, <2>1, <2>3, <3>2, <3>3, <3>4, <3>5 DEF Carried, EndSteps, WorkPhases, ProbeSteps
  <2> QED
    BY <2>1, <2>2, <2>3
<1>3. CASE CloseStdin \/ AwaitGuard \/ Report
  <2>1. /\ UNCHANGED <<phase, cur, commit>> /\ conn' \in {conn, "down"}
        /\ step \in EndSteps /\ step' \in EndSteps
        /\ step' = "rm" => exitSeen
    BY <1>3 DEF CloseStdin, AwaitGuard, Report, Goto, Finish, EndSteps, Separate, Carried
  <2> QED
    BY <1>1, <2>1, IdleCarried DEF Carried, EndSteps, ProbeSteps
<1>4. CASE RemoveTxDir
  <2>1. step = "rm" /\ conn = "up" /\ UNCHANGED <<phase, step, cur, conn>>
    BY <1>4 DEF RemoveTxDir, Answered
  <2>2. guard = "exited"
    BY <2>1 DEF Carried
  <2>3. Named' = Named /\ \A u \in Named : Stage(u)' = Stage(u)
    BY <1>1, <2>1 DEF Named, Stage, Start, Widest, Final
  <2> QED
    BY <1>1, <2>1, <2>2, <2>3 DEF Carried, EndSteps, ProbeSteps
<1> QED
  BY <1>2, <1>3, <1>4

\* An abort carries out nothing.
LEMMA AbortCarried ==
    ASSUME Carried, RevertFile \/ ReadBack \/ Disarm \/ HangUp
    PROVE  Carried'
<1>1. /\ phase' = "abort" /\ UNCHANGED <<guard, exitSeen>> /\ conn' \in {conn, "down"}
      /\ step' \in RevertSteps \cup {"close"}
  BY DEF RevertFile, RevertUnanswered, Torn, ReadBack, Disarm, HangUp, Reverting, Reverted, At,
     RevertSteps, NextRevert, Goto, Finish
<1> QED
  BY <1>1, LeftCarried DEF WorkPhases, RevertSteps, ProbeSteps

\* The script, the connection and the host.
LEMMA OutsideCarried ==
    ASSUME Backed, Ledger, Backstop, Carried,
           (Trap \/ Environment \/ UNCHANGED vars)
    PROVE  Carried'
<1>1. ~LandLate
  BY DEF LandLate, Backstop
<1>2. UNCHANGED <<phase, step, cur, before, req, work>>
  BY <1>1 DEF Trap, Environment, GuardExitSeen, Drop, Crash, Deny, clientVars, vars
<1>3. /\ Named' = Named /\ \A u \in Named : Stage(u)' = Stage(u)
      /\ file' = file => AllRequested' = AllRequested
  <2>1. Named' = Named /\ \A u \in Named : Stage(u)' = Stage(u)
    BY <1>2 DEF Named, Stage, Start, Widest, Final
  <2>2. file' = file => AllRequested' = AllRequested
    BY <1>2 DEF AllRequested, Wanted
  <2> QED
    BY <2>1, <2>2
<1>4. CASE UNCHANGED <<file, guard, commit>>
  <2>1. conn' \in {conn, "down"}
    BY <1>1, <1>4 DEF Trap, TrapStep, TrapOnEOF, EnterRestore, RestoreEntry, RestoreDone, Environment,
       GuardExitSeen, Drop, Crash, Deny, Finish, vars, GuardFault, TrapOnSignal, KillGuard
  <2>2. exitSeen' => (phase # "setup" /\ (guard = "exited" \/ conn' = "down"))
    <3>1. CASE exitSeen' = exitSeen
      BY <2>1, <3>1 DEF Carried
    <3>2. CASE GuardExitSeen
      BY <3>2 DEF GuardExitSeen
    <3> QED
      BY <1>1, <3>1, <3>2 DEF Trap, Environment, Drop, Crash, Deny, clientVars, vars
  <2>3. exitSeen => exitSeen'
    BY <1>1 DEF Trap, Environment, GuardExitSeen, Drop, Crash, Deny, clientVars, vars
  <2> QED
    BY <1>2, <1>3, <1>4, <2>1, <2>2, <2>3 DEF Carried
<1>5. CASE ~UNCHANGED <<file, guard, commit>>
  <2>1. \/ EnterRestore /\ (conn = "down" \/ stdin = "closed")
        \/ RestoreEntry \/ RestoreDone
    BY <1>1, <1>5
    DEF Trap, TrapStep, GuardFault, TrapOnEOF, TrapOnSignal, KillGuard, Backed, Environment,
        GuardExitSeen, Drop, Crash, Deny, vars
  <2>2. UNCHANGED <<exitSeen, conn, commit>>
    BY <1>1, <2>1 DEF EnterRestore, RestoreEntry, RestoreDone, Trap, TrapStep, TrapOnEOF, Environment,
       GuardExitSeen, Drop, Crash, Deny, clientVars, vars, GuardFault, TrapOnSignal, KillGuard, Backed
  <2>3. CASE EnterRestore
    <3>1. guard = "armed" /\ file' = file /\ (commit => guard' = "exited")
      BY <2>3 DEF EnterRestore
    <3> QED
      BY <1>2, <1>3, <2>2, <3>1 DEF Carried
  <2>4. CASE RestoreEntry \/ RestoreDone
    <3>1. guard = "restoring"
      BY <2>4 DEF RestoreEntry, RestoreDone
    <3>2. conn = "down" \/ step \in EndSteps
      BY <3>1 DEF Backstop, Places, EndSteps
    <3>3. ~(phase = "cleanup" /\ step \in EndSteps) /\ (exitSeen => conn = "down")
      BY <3>1 DEF Carried
    <3> QED
      BY <1>2, <1>3, <2>2, <3>2, <3>3 DEF Carried
  <2> QED
    BY <2>1, <2>3, <2>4
<1> QED
  BY <1>4, <1>5

\* Every step keeps what a commit rests on.
LEMMA CarriedStep ==
    ASSUME Backed, Separate, Ledger, Backstop, Carried, [Next]_vars
    PROVE  Carried'
<1>1. CASE Client
  BY <1>1, SetupCarried, CopyCarried, SwapCarried, CheckCarried, ProbeCarried, EndCarried,
     AbortCarried DEF Client
<1> QED
  BY <1>1, OutsideCarried DEF Next, Rest

LEMMA CarriedInit == Init => Carried
  BY DEF Init, Carried, WorkPhases, EndSteps, ProbeSteps

\* A run that reports "committed" has carried out the whole request on every file, and nothing
\* takes it back afterwards (tx.commit), for any number of users with a file each and any
\* request, if the transaction directory is never removed before the script is gone.
THEOREM CommitIsTheRequest ==
    ASSUME Backed, Separate
    PROVE  Spec => []CommittedMeansRequested
<1>1. Ledger /\ Backstop /\ [Next]_vars => Backstop'
  BY BackstopStep
<1>2. Ledger /\ Backstop /\ Carried /\ [Next]_vars => Carried'
  BY CarriedStep
<1>3. Init => Acceptance
  BY DEF Init, Acceptance
<1>4. Ledger /\ Acceptance /\ [Next]_vars => Acceptance'
  BY AcceptanceStep
<1>5. Acceptance /\ Carried => CommittedMeansRequested
  BY DEF Acceptance, Carried, CommittedMeansRequested, EndSteps
<1> QED
  BY <1>1, <1>2, <1>3, <1>4, <1>5, BackstopInit, CarriedInit, LedgerInvariant, PTL DEF Spec
----------------------------------------------------------------------------
(* All or nothing.                                                         *)

\* The faults under which a run keeps the whole promise.
Promised == Backed /\ Separate /\ "swap" \notin Refusable

Whole == Ledger /\ Acceptance /\ Honest /\ Backstop /\ Carried

LEMMA WholeInit == Init => Whole
<1>1. Init => Acceptance
  BY DEF Init, Acceptance
<1> QED
  BY <1>1, LedgerInit, HonestInit, BackstopInit, CarriedInit DEF Whole

LEMMA WholeStep ==
    ASSUME Promised, Whole, [Next]_vars
    PROVE  Whole'
<1>1. Ledger' /\ Acceptance'
  BY LedgerStep, AcceptanceStep DEF Whole, Ledger
<1>2. Honest' /\ Backstop' /\ Carried'
  BY HonestStep, BackstopStep, CarriedStep DEF Whole, Promised, Backed
<1> QED
  BY <1>1, <1>2 DEF Whole

\* Once the script is gone, or was never there, the files are as the run found them or as it was
\* asked to leave them.
LEMMA WholeSettles == Whole => AllOrNothing
<1> SUFFICES ASSUME Whole, Settled PROVE AllOriginal \/ AllRequested
  BY DEF AllOrNothing
<1>1. /\ file \in [Paths -> Contents] /\ before \in [Paths -> Contents]
      /\ guard \in {"off", "exited"}
  BY DEF Whole, Ledger, TypeInv, TypeOK, GuardTypeOK, Settled
<1>2. CASE phase \in {"setup", "release"}
  BY <1>2 DEF Whole, Ledger, Loaded, AllOriginal
<1>3. CASE phase = "dryRun"
  <2>1. \A p \in Paths : file[p] = before[p]
    BY <1>3 DEF Whole, Honest, Endings, Ledger, Changed
  <2> QED
    BY <1>1, <2>1 DEF AllOriginal
<1>4. CASE phase = "cleanup" /\ step \in EndSteps
  BY <1>4 DEF Whole, Carried
<1>5. CASE phase = "abort" /\ step \in EndSteps
  BY <1>5 DEF Whole, Honest, Endings, EndSteps, RevertSteps, AllOriginal
<1>6. CASE phase \notin {"setup", "release", "dryRun"} /\ step \notin EndSteps
  <2>1. guard = "exited" /\ ~commit
    BY <1>1, <1>6 DEF Whole, Backstop, Places
  <2> QED
    BY <1>6, <2>1 DEF Whole, Backstop, EndSteps, AllOriginal
<1> QED
  BY <1>2, <1>3, <1>4, <1>5, <1>6 DEF Whole, Honest, Endings

\* However the client ends, once the host has come to rest either the whole request is carried
\* out or nothing of it (README: "one transaction"), for any number of users with a file each,
\* any request, crashes, dropped connections, torn swaps, users that sshd comes to refuse and
\* probes without a verdict.
THEOREM AllOrNothingEver ==
    ASSUME Promised
    PROVE  Spec => []AllOrNothing
<1>1. Whole /\ [Next]_vars => Whole'
  BY WholeStep
<1> QED
  BY <1>1, WholeInit, WholeSettles, PTL DEF Spec

\* A step that reports changes no file, and a reported outcome is the last.
LEMMA OneReport ==
    ASSUME [Next]_vars
    PROVE  outcome' = outcome \/ (outcome = "none" /\ file' = file /\ before' = before /\ req' = req)
<1>1. CASE Client
  <2>1. CASE Validate \/ ConnectFails \/ AwaitGuard \/ Report \/ HangUp
    BY <2>1 DEF Validate, ConnectFails, AwaitGuard, Report, HangUp, Reverted, At, Running
  <2>2. CASE ~(Validate \/ ConnectFails \/ AwaitGuard \/ Report \/ HangUp)
    BY <1>1, <2>2
    DEF Client, Connect, Load, LoadFails, SaveLocal, SaveBackup, AppendManifest, Snapshot, Swap,
        SwapAnswered, SwapRefused, SwapLost, SwapLanded, SwapTorn, SwapLate, Swapping, CheckHealth,
        Probe, ProbeAgain, ProbeAdded, ProbeRemoved, PositiveControl, ProveAccess, ProbeUnchanged,
        WriteMarker, CloseStdin, RemoveTxDir, RevertFile, ReadBack, Disarm
  <2> QED
    BY <2>1, <2>2
<1>2. CASE Trap \/ Environment \/ Rest \/ UNCHANGED vars
  BY <1>2, ScriptAside DEF Script, asideVars, Environment, GuardExitSeen, Drop, Crash, Deny,
     LandLate, Running, Rest, vars
<1> QED
  BY <1>1, <1>2 DEF Next

\* What a report says of the files is true.
Told ==
    /\ ReportOf(outcome) = "committed" => AllRequested
    /\ ReportOf(outcome) = "unchanged" => AllOriginal

LEMMA WholeTells == Whole => Told
<1> SUFFICES ASSUME Whole PROVE Told
  OBVIOUS
<1>1. HonestRevert
  BY HonestReports DEF Whole
<1>2. ReportOf(outcome) = "committed" => outcome = "committed"
  BY DEF ReportOf
<1>3. ReportOf(outcome) = "unchanged" =>
          outcome \in {"aborted-reverted", "failed-before-write", "dry-run"}
  BY DEF ReportOf
<1>4. outcome = "committed" => AllRequested
  BY DEF Whole, Acceptance, Carried, EndSteps
<1> QED
  BY <1>1, <1>2, <1>3, <1>4 DEF HonestRevert, Told

\* After a report of success or of failure the files stay.
LEMMA ReportStands ==
    ASSUME Promised, Whole, Told, Told', [Next]_vars, outcome' = outcome,
           ReportOf(outcome) \in {"committed", "unchanged"}
    PROVE  UNCHANGED <<AllOriginal, AllRequested>>
<1>1. outcome \in {"committed", "aborted-reverted", "failed-before-write", "dry-run"} /\ ~Running
  BY DEF ReportOf, Running
<1>2. ~Client
  BY <1>1
  DEF Client, Validate, Connect, ConnectFails, Load, LoadFails, SaveLocal, SaveBackup, AppendManifest,
      Snapshot, Swap, SwapAnswered, SwapRefused, SwapLost, SwapLanded, SwapTorn, SwapLate, Swapping,
      Writing, CheckHealth, Probe, ProbeAgain, ProbeAdded, ProbeRemoved, PositiveControl, ProveAccess,
      Probing, WriteMarker, CloseStdin, AwaitGuard, RemoveTxDir, Report, RevertFile, ReadBack, Disarm,
      HangUp, Reverting, Reverted, At
<1>3. UNCHANGED <<req, before>>
  BY <1>2 DEF Next, Trap, clientVars, Environment, GuardExitSeen, Drop, Crash, Deny, LandLate, Rest,
     vars
<1>4. file' = file
  <2>1. CASE outcome = "committed"
    <3>1. phase = "cleanup" /\ step \in EndSteps
      BY <2>1 DEF Whole, Acceptance, EndSteps
    <3>2. guard # "restoring" /\ late = {}
      BY <3>1 DEF Whole, Carried, Backstop
    <3> QED
      BY <1>2, <3>2
      DEF Next, Trap, TrapStep, TrapOnEOF, EnterRestore, RestoreEntry, RestoreDone, Environment,
          GuardExitSeen, Drop, Crash, Deny, LandLate, GuardFault, TrapOnSignal, KillGuard, Rest, vars
  <2>2. CASE outcome # "committed"
    <3>1. ReportOf(outcome) = "unchanged" /\ ReportOf(outcome)' = "unchanged"
      BY <1>1, <2>2 DEF ReportOf
    <3> QED
      BY <1>3, <3>1 DEF Told, AllOriginal
  <2> QED
    BY <2>1, <2>2
<1> QED
  BY <1>3, <1>4 DEF AllOriginal, AllRequested, Wanted

\* Every step of a transaction is one of the atomic change, or none.
LEMMA StepRefines ==
    ASSUME Promised, Whole, Told, Told', [Next]_vars
    PROVE  [Promise!Next]_(Promise!vars)
<1> DEFINE old == AllOriginal  new == AllRequested  r == ReportOf(outcome)
<1>1. old \in BOOLEAN /\ new \in BOOLEAN /\ old' \in BOOLEAN /\ new' \in BOOLEAN
  BY DEF AllOriginal, AllRequested
<1>2. r \in {"none", "committed", "unchanged", "left"}
  BY DEF ReportOf
<1>3. CASE outcome' = outcome
  <2>1. r' = r
    BY <1>3 DEF ReportOf
  <2>2. CASE r \in {"none", "left"}
    BY <1>1, <2>1, <2>2 DEF Promise!Next, Promise!Change
  <2>3. CASE r \in {"committed", "unchanged"}
    BY <1>3, <2>1, <2>3, ReportStands DEF Promise!vars
  <2> QED
    BY <1>2, <2>2, <2>3
<1>4. CASE outcome' # outcome
  <2>1. outcome = "none" /\ file' = file /\ before' = before /\ req' = req
    BY <1>4, OneReport
  <2>2. old' = old
    BY <2>1 DEF AllOriginal
  <2>3. new' = new
    BY <2>1 DEF AllRequested, Wanted
  <2>4. r = "none" /\ r' \in {"committed", "unchanged", "left"}
    BY <1>4, <2>1 DEF ReportOf
  <2>5. (r' = "committed" => new') /\ (r' = "unchanged" => old')
    BY DEF Told
  <2> QED
    BY <2>2, <2>3, <2>4, <2>5 DEF Promise!Next, Promise!Report, Promise!Reports
<1> QED
  BY <1>3, <1>4

\* The transaction implements the safety part of the atomic change that the README promises (the
\* part of ImplementsAtomicChange that is not liveness): whatever it does to the files it does
\* before its one report, and the report is true and stays so.
THEOREM ChangesAtomically ==
    ASSUME Promised
    PROVE  Spec => Promise!Init /\ [][Promise!Next]_(Promise!vars)
<1>1. Whole /\ [Next]_vars => Whole'
  BY WholeStep
<1>2. Whole /\ Told /\ Told' /\ [Next]_vars => [Promise!Next]_(Promise!vars)
  BY StepRefines
<1>3. Init => Promise!Init
  BY DEF Init, Promise!Init, AllOriginal, AllRequested, ReportOf
<1> QED
  BY <1>1, <1>2, <1>3, WholeInit, WholeTells, PTL DEF Spec

----------------------------------------------------------------------------
(* The copies, the document and a restore.                                 *)

USE DEF localVars, restoreVars, allVars

SetupSteps == {"validate", "connect", "load"}

\* What has been loaded is what was there before the transaction; the setup
\* over, every named file has been.
FilesRead ==
    /\ \A u \in DOMAIN files : u \in Named /\ files[u] = before[PathOf[u]]
    /\ phase \notin {"setup", "release"} => DOMAIN files = Named
    /\ step \in SetupSteps => phase = "setup"

\* A copy is of the original, and every manifested user has one.
CopiesSaved ==
    /\ manifested \subseteq local
    /\ copy \in [Users -> Contents]
    /\ \A u \in Users : copy[u] \in {Absent, before[PathOf[u]]}
    /\ \A u \in local : copy[u] = before[PathOf[u]]

\* The document says of its files whether they were there before, and once a
\* run has reported it names all that were loaded.
MetaTold ==
    /\ meta \in SUBSET [user : Users, existed : BOOLEAN]
    /\ \A m \in meta : m.existed <=> before[PathOf[m.user]] # Absent
    /\ outcome \in Outcomes /\ document # "lost" /\ step # "validate" =>
          \A u \in DOMAIN files : \E m \in meta : m.user = u

Records == FilesRead /\ CopiesSaved /\ MetaTold

\* A restore goes by the document of a run that is over.
Going ==
    restore = "running" => outcome # "none" /\ (at \in Users => at \in Documented)

Early == Ledger /\ Records /\ Going

\* The document has path p, and its original is with it.
Recorded(p) ==
    outcome \in Outcomes /\ document # "lost" =>
        \E u \in Documented :
            /\ PathOf[u] = p
            /\ copy[u] = before[p]
            /\ Existed(u) <=> before[p] # Absent

\* What has changed, or may still change by a swap that was given up.
AllRecorded ==
    /\ \A p \in Paths : file[p] # before[p] => Recorded(p)
    /\ \A w \in late : Recorded(w.path)

\* Until a restore is asked for the ledger holds.  A restore that fails may leave a
\* part of an original, which is no matter for the ledger: the trap may not know of
\* it.  Of the ledger what the trap goes by remains, and the document has the rest.
Leftover == TypeInv /\ outcome # "none" /\ Copies /\ Lines /\ AllRecorded

Kept ==
    /\ asked \in Nat
    /\ Records /\ Going
    /\ IF asked = 0 THEN Ledger /\ restore = "none" ELSE Leftover

----------------------------------------------------------------------------
(* What a step of the transaction may do to the state that the records     *)
(* depend on.                                                              *)

\* local and manifested grow by the user at hand, each at its own step.
Growth ==
    /\ local' = local \/ (Writing /\ step = "local" /\ local' = local \cup {cur})
    /\ \/ manifested' = manifested
       \/ step = "manifest" /\ manifested' = manifested \cup {cur} /\ UNCHANGED local

\* The setup is left by loading, and once the outcome is known the client is at rest.
Course ==
    /\ UNCHANGED <<req, before>>
    /\ step = "load" /\ step' # "load" => phase' # "setup"
    /\ phase' \notin {"setup", "release"} =>
          phase \notin {"setup", "release"} \/ (step = "load" /\ step' # "load")
    /\ phase' = "release" => phase = "release" \/ (step = "load" /\ step' # "load")
    /\ step' \in SetupSteps => step \in SetupSteps /\ phase' = phase
    /\ outcome # "none" => outcome' = outcome /\ UNCHANGED pcVars
    /\ outcome' # outcome => step' = step
    /\ outcome' \in Outcomes /\ outcome = "none" /\ step = "validate" => step' = "validate"

LEMMA SetupCourse ==
    ASSUME Validate \/ Connect \/ ConnectFails \/ Load \/ LoadFails
    PROVE  Growth /\ Course
<1>1. Growth
  BY DEF Validate, Connect, ConnectFails, Load, LoadFails, Growth
<1>2. Course
  BY DEF Validate, Connect, ConnectFails, Load, LoadFails, Course, At, Running, Goto, Enter,
         Finish, Following, Outcomes, SetupSteps
<1> QED  BY <1>1, <1>2

LEMMA CopyCourse ==
    ASSUME SaveLocal \/ SaveBackup \/ AppendManifest \/ Snapshot
    PROVE  Growth /\ Course
<1>1. Writing /\ step \in {"local", "backup", "manifest", "snapshot"}
      /\ UNCHANGED <<req, before, outcome>>
  BY DEF SaveLocal, SaveBackup, AppendManifest, Snapshot
<1>2. Growth
  BY DEF SaveLocal, SaveBackup, AppendManifest, Snapshot, Growth
<1>3. phase' \in WorkPhases \cup {"abort"} /\ step' \notin SetupSteps
  <2>1. phase \in {"add", "remove"}
    BY <1>1 DEF Writing
  <2> QED
    BY <2>1 DEF SaveLocal, SaveBackup, AppendManifest, Snapshot, Goto, GoAbort, ToSwap, ToCopy,
       Enter, Following, WorkPhases, SetupSteps
<1> QED
  BY <1>1, <1>2, <1>3 DEF Course, Writing, Running, WorkPhases, SetupSteps

LEMMA WorkCourse ==
    ASSUME TypeInv, Swap \/ CheckHealth \/ Probe
    PROVE  Growth /\ Course
<1>1. Running /\ UNCHANGED <<req, before, outcome, local, manifested>>
  BY DEF Swap, SwapAnswered, SwapRefused, SwapLost, SwapLanded, SwapTorn, SwapLate, Swapping,
     Writing, CheckHealth, Probe, ProbeAgain, ProbeAdded, ProbeRemoved, PositiveControl,
     ProveAccess, Probing, ProbeUnchanged
<1>2. UNCHANGED <<phase, step>> \/
      (phase \in WorkPhases /\ step # "load" /\ phase' \in WorkPhases \cup {"abort"} /\ step' \notin SetupSteps)
  <2>1. CASE Swap
    <3>1. phase \in {"add", "remove"} /\ step = "swap" /\
          (GoAbort(dirty') \/ ToCopy(cur))
      BY <2>1 DEF Swap, SwapAnswered, SwapRefused, SwapLost, SwapLanded, SwapTorn, SwapLate,
         Swapping, Writing
    <3> QED
      BY <3>1 DEF GoAbort, ToCopy, Enter, Following, WorkPhases, SetupSteps
  <2>2. CASE CheckHealth
    <3>1. phase \in WorkPhases /\ step = "health"
      BY <2>2 DEF CheckHealth, TypeInv, ActiveSteps
    <3> QED
      BY <2>2, <3>1 DEF CheckHealth, Begin, ToCopy, StartProbes, ToControl, ToProve, GoAbort, Goto,
         Enter, Following, WorkPhases, SetupSteps
  <2>3. CASE ProbeAgain
    BY <2>3 DEF ProbeAgain
  <2>4. CASE ProbeAdded \/ ProbeRemoved
    <3>1. phase \in {"verifyAdd", "verifyRemove"} /\ step = "probe" /\
          (GoAbort(dirty) \/ NextProbe)
      BY <2>4 DEF ProbeAdded, ProbeRemoved, Probing
    <3> QED
      BY <3>1 DEF GoAbort, NextProbe, Enter, Following, WorkPhases, SetupSteps
  <2>5. CASE PositiveControl \/ ProveAccess
    <3>1. phase \in WorkPhases /\ step \in {"control", "prove"} /\ SomeKey
      BY <2>5 DEF PositiveControl, ProveAccess, Probing, TypeInv, ActiveSteps
    <3> QED
      BY <3>1 DEF SomeKey, ToProve, ToControl, StartProbes, GoAbort, Goto, Enter, Following,
         WorkPhases, SetupSteps
  <2> QED
    BY <2>1, <2>2, <2>3, <2>4, <2>5 DEF Probe
<1> QED
  BY <1>1, <1>2 DEF Growth, Course, Running, WorkPhases, SetupSteps, Outcomes

LEMMA EndCourse ==
    ASSUME \/ WriteMarker \/ CloseStdin \/ AwaitGuard \/ RemoveTxDir \/ Report
           \/ RevertFile \/ ReadBack \/ Disarm \/ HangUp
    PROVE  Growth /\ Course
<1> USE DEF RevertUnanswered
<1>1. UNCHANGED <<req, before, local, manifested>> /\ Running
  BY DEF WriteMarker, CloseStdin, AwaitGuard, RemoveTxDir, Report, RevertFile, ReadBack, Disarm,
     HangUp, Running, At, Reverting, Reverted
<1>2. step \notin SetupSteps /\ step' \notin SetupSteps
      /\ (phase' = phase \/ (phase' = "abort" /\ phase \notin {"setup", "release"}))
  BY DEF WriteMarker, CloseStdin, AwaitGuard, RemoveTxDir, Report, RevertFile, ReadBack, Disarm,
     HangUp, At, Reverting, Reverted, Goto, GoAbort, NextRevert,
     SetupSteps
<1>3. outcome' # outcome => step' = step
  BY DEF WriteMarker, CloseStdin, AwaitGuard, RemoveTxDir, Report, RevertFile, ReadBack, Disarm,
     HangUp
<1> QED
  BY <1>1, <1>2, <1>3 DEF Growth, Course, Running, SetupSteps

\* What moves nothing of the client but its knowledge of the session.
LEMMA OutsideCourse ==
    ASSUME \/ Script
           \/ GuardExitSeen \/ Drop \/ Crash \/ Deny \/ LandLate
           \/ UNCHANGED vars
    PROVE  Growth /\ Course
<1>1. UNCHANGED <<req, before, local, manifested, pcVars>> /\ (outcome' = outcome \/ Crash)
  BY ScriptAside DEF asideVars, GuardExitSeen, Drop, Crash, Deny, LandLate, vars
<1> QED
  BY <1>1 DEF Growth, Course, Crash, Running, Finish, Outcomes, SetupSteps

LEMMA StepCourse ==
    ASSUME TypeInv, [Next]_vars
    PROVE  Growth /\ Course
<1>1. CASE Client
  BY <1>1, SetupCourse, CopyCourse, WorkCourse, EndCourse DEF Client
<1>2. CASE ~Client
  BY <1>2, OutsideCourse DEF Next, Environment, Rest, Script
<1> QED  BY <1>1, <1>2

----------------------------------------------------------------------------
(* The records.                                                            *)

LEMMA KeptInit == BreakGlassInit => Kept
<1> SUFFICES ASSUME BreakGlassInit PROVE Kept
  OBVIOUS
<1>1. Ledger
  BY LedgerInit DEF BreakGlassInit
<1>2. Absent \in Contents
  BY DEF Contents
<1> QED
  BY <1>1, <1>2 DEF BreakGlassInit, Init, Kept, Records, FilesRead, CopiesSaved, MetaTold, Going,
     Outcomes, SetupSteps

\* A step of the transaction reads the files before it changes any.
LEMMA TransactFiles ==
    ASSUME Early, Transact, Course
    PROVE  FilesRead'
<1>1. UNCHANGED <<req, before>> /\ Named' = Named
  BY DEF Course, Named
<1>2. CASE ~Loads
  <2>1. files' = files
    BY <1>2 DEF Transact, RecordFiles
  <2>2. phase' \notin {"setup", "release"} => phase \notin {"setup", "release"}
    BY <1>2 DEF Course, Loads
  <2>3. step' \in SetupSteps => phase' = "setup"
    BY DEF Course, Early, Records, FilesRead
  <2> QED
    BY <1>1, <2>1, <2>2, <2>3 DEF Early, Records, FilesRead
<1>3. CASE Loads
  <2>1. PICK S \in LoadedUsers : files' = [u \in S |-> file[PathOf[u]]]
    BY <1>3 DEF Transact, RecordFiles
  <2>2. S \subseteq Named /\ (phase' # "release" => S = Named)
    BY <2>1 DEF LoadedUsers
  <2>3. file = before
    BY <1>3 DEF Early, Ledger, Loaded, Records, FilesRead, Loads, SetupSteps
  <2>4. step' \in SetupSteps => phase' = "setup"
    BY DEF Course, Early, Records, FilesRead
  <2> QED
    BY <1>1, <2>1, <2>2, <2>3, <2>4 DEF FilesRead
<1> QED  BY <1>2, <1>3

\* A copy is taken of what was loaded, once for a user.
LEMMA TransactCopies ==
    ASSUME Early, Ledger', Transact, Growth, Course
    PROVE  CopiesSaved'
<1>1. UNCHANGED before /\ copy' = [u \in Users |-> IF u \in local' \ local THEN orig[u] ELSE copy[u]]
  BY DEF Course, Transact, RecordCopy
<1>2. manifested' \subseteq local'
  <2>1. step = "manifest" => cur \in local
    BY DEF Early, Ledger, Position
  <2> QED
    BY <2>1 DEF Growth, Early, Records, CopiesSaved
<1>3. \A u \in local' \ local : u \in Users /\ orig[u] \in Contents /\ orig[u] = before[PathOf[u]]
  <2> TAKE u \in local' \ local
  <2>1. Writing /\ step = "local" /\ u = cur
    BY DEF Growth
  <2>2. cur \in Named
    BY <2>1 DEF Early, Ledger, Position, CopySteps
  <2>3. orig[u] \in Contents /\ u \in Users
    BY <2>1, <2>2 DEF Early, Ledger, TypeInv, TypeOK, Named
  <2>4. phase \notin {"setup", "release"}
    BY <2>1 DEF Writing
  <2> QED
    BY <2>1, <2>2, <2>3, <2>4 DEF Early, Ledger, Loaded
<1>4. copy' \in [Users -> Contents]
  BY <1>1, <1>3 DEF Early, Records, CopiesSaved
<1>5. \A u \in Users : copy'[u] \in {Absent, before[PathOf[u]]}
  BY <1>1, <1>3 DEF Early, Records, CopiesSaved
<1>6. local \in SUBSET Users /\ local' \in SUBSET Users
  BY DEF Early, Ledger, TypeInv, TypeOK
<1>7. \A u \in local' : copy'[u] = before[PathOf[u]]
  BY <1>1, <1>3, <1>6 DEF Early, Records, CopiesSaved
<1> QED
  BY <1>1, <1>2, <1>4, <1>5, <1>7 DEF CopiesSaved

\* The document is made of what was loaded, when the outcome is set.
LEMMA TransactMeta ==
    ASSUME Early, Transact, Course
    PROVE  MetaTold'
<1>1. UNCHANGED before /\ FinishMeta
  BY DEF Course, Transact
<1>2. \A u \in DOMAIN files : Entry(u) \in [user : Users, existed : BOOLEAN]
                           /\ Entry(u).user = u
                           /\ Entry(u).existed = (before[PathOf[u]] # Absent)
  BY DEF Early, Records, FilesRead, Named, Entry
<1>3. CASE document' = "written" /\ meta' = {Entry(u) : u \in DOMAIN files}
           /\ outcome = "none" /\ outcome' \in Outcomes
  <2>1. files' = files
    BY <1>3 DEF Course, Outcomes, Transact, RecordFiles, Loads
  <2> HIDE DEF Entry
  <2> QED
    BY <1>1, <1>2, <1>3, <2>1 DEF MetaTold
<1>4. CASE document' = "lost" /\ UNCHANGED meta
  BY <1>1, <1>4 DEF Early, Records, MetaTold
<1>5. CASE ~(outcome = "none" /\ outcome' \in Outcomes /\ step # "validate")
           /\ UNCHANGED <<document, meta>>
  <2>1. outcome = "none" /\ outcome' \in Outcomes => step' = "validate"
    BY <1>5 DEF Course
  <2>2. outcome # "none" => outcome' = outcome /\ step' = step /\ files' = files
    BY DEF Course, Transact, RecordFiles, Loads
  <2> QED
    BY <1>1, <1>5, <2>1, <2>2 DEF Early, Records, MetaTold
<1> QED
  BY <1>1, <1>3, <1>4, <1>5 DEF FinishMeta

\* A transaction that is over changes nothing a restore goes by.
LEMMA TransactGoing ==
    ASSUME Early, Transact, Course
    PROVE  Going'
<1>1. CASE restore = "running"
  <2>1. outcome # "none" /\ outcome' = outcome /\ UNCHANGED <<restore, at, meta>>
    BY <1>1 DEF Early, Going, Course, Transact, FinishMeta
  <2> QED
    BY <2>1 DEF Early, Going, Documented
<1>2. CASE restore # "running"
  BY <1>2 DEF Transact, Going
<1> QED
  BY <1>1, <1>2

LEMMA TransactEarly ==
    ASSUME Early, Transact
    PROVE  Early'
<1>1. Ledger' /\ TypeInv
  BY LedgerStep DEF Early, Transact, Ledger
<1>2. Growth /\ Course
  BY <1>1, StepCourse DEF Transact
<1> QED
  BY <1>1, <1>2, TransactFiles, TransactCopies, TransactMeta, TransactGoing DEF Early, Records

\* Once the outcome is known only the script moves, and what lands late.
LEMMA OverMoves ==
    ASSUME outcome # "none", [Next]_vars
    PROVE  Script \/ LandLate \/ UNCHANGED vars
<1>1. ~Client
  BY DEF Client, Validate, Connect, ConnectFails, Load, LoadFails, SaveLocal, SaveBackup,
     AppendManifest, Snapshot, Swap, SwapAnswered, SwapRefused, SwapLost, SwapLanded, SwapTorn,
     SwapLate, Swapping, Writing, CheckHealth, Probe, ProbeAgain, ProbeAdded, ProbeRemoved,
     PositiveControl, ProveAccess, Probing, WriteMarker, CloseStdin, AwaitGuard, RemoveTxDir,
     Report, RevertFile, ReadBack, Disarm, HangUp, Reverting, Reverted, At, Running
<1> QED
  BY <1>1 DEF Next, Environment, Rest, Script, GuardExitSeen, Drop, Crash, Deny, Running

\* They change a file back, or to what was under way to it.
LEMMA OverWrites ==
    ASSUME TypeInv, Copies, Lines, Script \/ LandLate \/ UNCHANGED vars
    PROVE  /\ UNCHANGED <<req, pcVars, txVars, outcome, before, backup, manifest>>
           /\ late' \subseteq late
           /\ \A p \in Paths : \/ file'[p] \in {file[p], before[p]}
                              \/ \E w \in late \ late' : w.path = p
           /\ Copies' /\ Lines'
<1>1. CASE Script
  <2>1. TrapStep \/ GuardFault
    BY <1>1, ScriptAside
  <2>2. UNCHANGED <<req, pcVars, txVars, outcome, before, backup, manifest, late>>
    BY <1>1, <2>1, ScriptAside DEF asideVars, TrapStep, GuardFault, TrapOnEOF, TrapOnSignal,
       EnterRestore, RestoreEntry, RestoreDone, KillGuard
  <2>3. \A p \in Paths : file'[p] \in {file[p], before[p]}
    BY <2>1, TrapStepRestores
    DEF TrapStep, GuardFault, TrapOnEOF, TrapOnSignal, EnterRestore, RestoreDone, KillGuard
  <2>4. Lines'
    <3>1. CASE RestoreEntry
      BY <2>2, <3>1, HeadLineOK DEF RestoreEntry, Lines, LineOK
    <3>2. CASE ~RestoreEntry
      BY <2>1, <2>2, <3>2 DEF Lines, LineOK, TrapStep, GuardFault, TrapOnEOF, TrapOnSignal,
         EnterRestore, RestoreDone, KillGuard
    <3> QED  BY <3>1, <3>2
  <2> QED
    BY <2>2, <2>3, <2>4 DEF Copies
<1>2. CASE LandLate
  <2>1. PICK w \in late : file' = [file EXCEPT ![w.path] = w.content] /\ late' = late \ {w}
    BY <1>2 DEF LandLate
  <2>2. \A p \in Paths : file'[p] = file[p] \/ p = w.path
    BY <2>1 DEF TypeInv, TypeOK, GuardTypeOK
  <2>3. UNCHANGED <<req, pcVars, txVars, outcome, before, backup, manifest, queue>>
    BY <1>2 DEF LandLate
  <2> QED
    BY <2>1, <2>2, <2>3 DEF Copies, Lines, LineOK
<1>3. CASE UNCHANGED vars
  BY <1>3 DEF vars, Copies, Lines, LineOK
<1> QED  BY <1>1, <1>2, <1>3

\* A transaction that is over leaves the documents alone.
LEMMA OverKeepsRecords ==
    ASSUME Records, Transact, UNCHANGED <<req, pcVars, txVars, outcome, before>>
    PROVE  UNCHANGED <<files, copy, document, meta, restore, at, asked>>
<1>1. copy' = copy
  <2>1. copy' = [u \in Users |-> copy[u]]
    BY DEF Transact, RecordCopy
  <2> QED
    BY <2>1 DEF Records, CopiesSaved
<1> QED
  BY <1>1 DEF Transact, RecordFiles, Loads, FinishMeta, Outcomes

\* The ledger and the records together: what has changed is in the document.
LEMMA LedgerIsRecorded ==
    ASSUME Ledger, Records
    PROVE  AllRecorded
<1>1. ASSUME NEW u \in manifested, outcome \in Outcomes, document # "lost"
      PROVE  /\ u \in Documented
             /\ copy[u] = before[PathOf[u]]
             /\ Existed(u) <=> before[PathOf[u]] # Absent
  <2>1. phase \notin {"setup", "release"} /\ step # "validate"
    BY DEF Ledger, Loaded, Records, FilesRead, SetupSteps
  <2>2. u \in DOMAIN files /\ copy[u] = before[PathOf[u]]
    BY <2>1 DEF Ledger, Armed, Records, FilesRead, CopiesSaved
  <2>3. PICK m \in meta : m.user = u /\ m \in [user : Users, existed : BOOLEAN]
    BY <1>1, <2>1, <2>2 DEF Records, MetaTold
  <2>4. m.existed <=> before[PathOf[u]] # Absent
    BY <2>3 DEF Records, MetaTold
  <2>5. m = [user |-> u, existed |-> m.existed] /\ m.existed \in BOOLEAN
    BY <2>3
  <2>6. Existed(u) => before[PathOf[u]] # Absent
    BY DEF Existed, Records, MetaTold
  <2>7. before[PathOf[u]] # Absent => Existed(u)
    BY <2>3, <2>4, <2>5 DEF Existed
  <2> QED
    BY <2>2, <2>3, <2>6, <2>7 DEF Documented
<1>2. \A u \in manifested : Recorded(PathOf[u])
  BY <1>1 DEF Recorded
<1> QED
  BY <1>2 DEF Ledger, Changed, AllRecorded

LEMMA TransactKeeps ==
    ASSUME Kept, Transact
    PROVE  Kept'
<1>1. CASE asked = 0
  <2>1. Early /\ restore = "none" /\ UNCHANGED <<asked, restore>>
    BY <1>1 DEF Kept, Early, Transact
  <2> QED
    BY <1>1, <2>1, TransactEarly DEF Kept, Early
<1>2. CASE asked # 0
  <2>1. Leftover /\ Records
    BY <1>2 DEF Kept
  <2>2. /\ UNCHANGED <<req, pcVars, txVars, outcome, before, backup, manifest>>
        /\ late' \subseteq late
        /\ \A p \in Paths : \/ file'[p] \in {file[p], before[p]}
                           \/ \E w \in late \ late' : w.path = p
        /\ Copies' /\ Lines'
    BY <2>1, OverMoves, OverWrites DEF Leftover, Transact
  <2>3. UNCHANGED <<files, copy, document, meta, restore, at, asked>>
    BY <2>1, <2>2, OverKeepsRecords
  <2>4. TypeInv'
    BY <2>1, StepType DEF Leftover, Transact
  <2>5. \A p : Recorded(p) => Recorded(p)'
    BY <2>2, <2>3 DEF Recorded, Documented, Existed
  <2>6. AllRecorded'
    BY <2>1, <2>2, <2>5 DEF Leftover, AllRecorded
  <2>7. Records' /\ Going'
    BY <2>2, <2>3 DEF Kept, Records, FilesRead, CopiesSaved, MetaTold, Named, Going, Documented
  <2> QED
    BY <1>2, <2>1, <2>2, <2>3, <2>4, <2>6, <2>7 DEF Kept, Leftover
<1> QED
  BY <1>1, <1>2

----------------------------------------------------------------------------
(* The restore.                                                            *)

\* The loop goes over the users of the document.
LEMMA NextListed ==
    ASSUME Kept, NEW u \in Nat
    PROVE  /\ Documented \subseteq Users
           /\ After(u, Documented) \in Users => After(u, Documented) \in Documented
<1>1. Documented \in SUBSET Users
  BY DEF Documented, Kept, Records, MetaTold
<1>2. After(u, Documented) \in Documented \cup {NumUsers + 1}
  BY <1>1, AfterType
<1>3. NumUsers + 1 \notin Users
  BY UsersAssumption DEF Users
<1> QED
  BY <1>1, <1>2, <1>3

LEMMA AskKeeps ==
    ASSUME Kept, AskRestore
    PROVE  Kept'
<1>1. /\ UNCHANGED <<vars, localVars>> /\ outcome # "none" /\ at' = After(0, Documented)
      /\ asked' = asked + 1
  BY DEF AskRestore, Running
<1>2. TypeInv /\ Copies /\ Lines /\ AllRecorded
  BY LedgerIsRecorded DEF Kept, Ledger, Leftover
<1>3. TypeInv'
  BY <1>1, <1>2, StepType
<1>4. Copies' /\ Lines' /\ AllRecorded'
  BY <1>1, <1>2 DEF vars, Copies, Lines, LineOK, AllRecorded, Recorded, Documented, Existed
<1>5. Leftover'
  BY <1>1, <1>3, <1>4 DEF vars, Leftover
<1>6. Records'
  BY <1>1 DEF vars, Kept, Records, FilesRead, CopiesSaved, MetaTold, Named
<1>7. Going'
  BY <1>1, NextListed DEF Going, Documented, vars
<1>8. asked' \in Nat /\ asked' # 0
  BY <1>1 DEF Kept
<1> QED
  BY <1>5, <1>6, <1>7, <1>8 DEF Kept

\* What a restore makes of the file at hand is its original.
LEMMA OriginalAtHand ==
    ASSUME Kept, Restoring
    PROVE  /\ ~Existed(at) => before[PathOf[at]] = Absent
           /\ copy[at] # Absent => copy[at] = before[PathOf[at]]
           /\ copy[at] \in Contents
<1>1. PICK m \in meta : m.user = at /\ m \in [user : Users, existed : BOOLEAN]
  BY DEF Restoring, Kept, Going, Documented, Records, MetaTold
<1>2. m = [user |-> at, existed |-> m.existed] /\ m.existed \in BOOLEAN
  BY <1>1
<1>3. ~Existed(at) => ~m.existed
  BY <1>1, <1>2 DEF Existed
<1>4. ~m.existed => before[PathOf[at]] = Absent
  BY <1>1 DEF Kept, Records, MetaTold
<1> QED
  BY <1>3, <1>4 DEF Restoring, Kept, Records, CopiesSaved

LEMMA KeptTypes ==
    ASSUME Kept
    PROVE  TypeInv /\ file \in [Paths -> Contents] /\ before \in [Paths -> Contents]
  BY DEF Kept, Ledger, Leftover, TypeInv, TypeOK, GuardTypeOK

LEMMA PutsBack ==
    ASSUME Kept, Remove \/ Reapply
    PROVE  file'[PathOf[at]] = before[PathOf[at]]
<1>1. file \in [Paths -> Contents] /\ PathOf[at] \in Paths
  BY KeptTypes, PathsAssumption DEF Remove, Reapply, Restoring
<1> QED
  BY <1>1, OriginalAtHand DEF Remove, Reapply, Put

\* A step of the loop that succeeds writes an original or nothing.
LEMMA RestoreOriginal ==
    ASSUME Kept, RestoreStep
    PROVE  /\ file' \in [Paths -> Contents]
           /\ \A p \in Paths : file'[p] \in {file[p], before[p]}
<1>1. file \in [Paths -> Contents] /\ before \in [Paths -> Contents]
  BY KeptTypes
<1>2. ASSUME NEW c \in Contents, c = before[PathOf[at]], Put(c)
      PROVE  /\ file' \in [Paths -> Contents]
             /\ \A p \in Paths : file'[p] \in {file[p], before[p]}
  BY <1>1, <1>2 DEF Put
<1>3. Absent \in Contents
  BY DEF Contents
<1>4. CASE UNCHANGED file
  BY <1>1, <1>4
<1>5. CASE Remove
  BY <1>2, <1>3, <1>5, OriginalAtHand DEF Remove
<1>6. CASE Reapply
  BY <1>2, <1>6, OriginalAtHand DEF Reapply
<1> QED
  BY <1>4, <1>5, <1>6 DEF RestoreStep, NoCopy, AllRestored

\* What it sends is the original of a file that the document has, and what arrives
\* of it is that or a part.
LEMMA SendsOriginal ==
    ASSUME Kept, NEW c \in Contents, Sends(c), NEW arrived \in Arrivals(c)
    PROVE  /\ c = before[PathOf[at]]
           /\ arrived \in Contents
           /\ arrived = before[PathOf[at]] \/ PartOf(arrived, before[PathOf[at]])
           /\ at \in Users /\ at \in Documented
           /\ copy[at] = before[PathOf[at]]
           /\ Existed(at) <=> before[PathOf[at]] # Absent
<1>1. Restoring
  BY DEF Sends
<1>2. c = before[PathOf[at]] /\ copy[at] = before[PathOf[at]]
      /\ (Existed(at) <=> before[PathOf[at]] # Absent)
  <2>1. copy[at] \in {Absent, before[PathOf[at]]}
    BY <1>1 DEF Restoring, Kept, Records, CopiesSaved
  <2> QED
    BY <1>1, <2>1, OriginalAtHand DEF Sends
<1>3. arrived = c \/ (c # Absent /\ arrived \in SUBSET KeysIn(c))
  BY DEF Arrivals
<1>4. arrived \in Contents
  BY ArrivalsType
<1>5. arrived # c => PartOf(arrived, c)
  <2> SUFFICES ASSUME arrived # c PROVE PartOf(arrived, c)
    OBVIOUS
  <2>1. c # Absent /\ c \in SUBSET Keys /\ arrived \subseteq c
    BY <1>3 DEF KeysIn, Contents
  <2>2. arrived \in SUBSET Keys
    BY <2>1
  <2>3. arrived # Absent
    BY <2>2, AbsentAssumption
  <2> QED
    BY <2>1, <2>3 DEF PartOf
<1>6. at \in Users /\ at \in Documented
  BY <1>1 DEF Restoring, Kept, Going
<1> QED
  BY <1>2, <1>4, <1>5, <1>6

\* A restore that fails leaves the file at hand alone, or sends it.
LEMMA FailsAtHand ==
    ASSUME Kept, RestoreFails \/ RestoreLate
    PROVE  /\ file' \in [Paths -> Contents]
           /\ \A p \in Paths :
                 \/ file'[p] \in {file[p], before[p]}
                 \/ PartOf(file'[p], before[p])
           /\ \A w \in late' \ late :
                 /\ w.content = before[w.path] \/ PartOf(w.content, before[w.path])
                 /\ w.path \in Paths /\ w.content \in Contents
                 /\ w = [path |-> w.path, content |-> w.content]
           /\ \A p \in Paths :
                 \/ file'[p] = file[p] /\ \A w \in late' \ late : w.path # p
                 \/ Recorded(p)
           /\ late \subseteq late'
<1>1. file \in [Paths -> Contents] /\ before \in [Paths -> Contents]
  BY KeptTypes
<1>2. CASE UNCHANGED <<file, late>>
  BY <1>1, <1>2
<1>3. ASSUME NEW c \in Contents, Sends(c), NEW arrived \in Arrivals(c), Put(arrived), late' = late
      PROVE  /\ file' \in [Paths -> Contents]
             /\ \A p \in Paths :
                   \/ file'[p] \in {file[p], before[p]}
                   \/ PartOf(file'[p], before[p])
             /\ \A p \in Paths : file'[p] = file[p] \/ Recorded(p)
  <2>1. /\ arrived \in Contents
        /\ arrived = before[PathOf[at]] \/ PartOf(arrived, before[PathOf[at]])
        /\ Recorded(PathOf[at])
    BY <1>3, SendsOriginal DEF Recorded
  <2>2. \A p \in Paths : file'[p] = IF p = PathOf[at] THEN arrived ELSE file[p]
    BY <1>1, <1>3 DEF Put
  <2>3. file' \in [Paths -> Contents]
    BY <1>1, <1>3, <2>1 DEF Put
  <2> QED
    BY <2>1, <2>2, <2>3
<1>4. ASSUME NEW c \in Contents, Sends(c), NEW arrived \in Arrivals(c), file' = file,
             late' = late \cup {[path |-> PathOf[at], content |-> arrived]}
      PROVE  /\ \A w \in late' \ late :
                   /\ w.content = before[w.path] \/ PartOf(w.content, before[w.path])
                   /\ w.path \in Paths /\ w.content \in Contents
                   /\ w = [path |-> w.path, content |-> w.content]
             /\ \A p \in Paths : (\A w \in late' \ late : w.path # p) \/ Recorded(p)
  <2>1. /\ arrived \in Contents
        /\ arrived = before[PathOf[at]] \/ PartOf(arrived, before[PathOf[at]])
        /\ Recorded(PathOf[at])
        /\ PathOf[at] \in Paths
    BY <1>4, SendsOriginal, PathsAssumption DEF Recorded
  <2>2. \A w \in late' \ late : w = [path |-> PathOf[at], content |-> arrived]
    BY <1>4
  <2> QED
    BY <2>1, <2>2
<1>5. CASE RestoreFails
  <2>1. late' = late
    BY <1>5 DEF RestoreFails
  <2>2. CASE UNCHANGED file
    BY <1>2, <2>1, <2>2
  <2>3. CASE \E c \in Contents : Sends(c) /\ \E arrived \in Arrivals(c) : Put(arrived)
    <3>1. PICK c \in Contents : Sends(c) /\ \E arrived \in Arrivals(c) : Put(arrived)
      BY <2>3
    <3> QED
      BY <1>3, <2>1, <3>1
  <2> QED
    BY <1>5, <2>2, <2>3 DEF RestoreFails
<1>6. CASE RestoreLate
  <2>1. file' = file
    BY <1>6 DEF RestoreLate
  <2>2. PICK c \in Contents : Sends(c) /\ \E arrived \in Arrivals(c) :
            late' = late \cup {[path |-> PathOf[at], content |-> arrived]}
    BY <1>6 DEF RestoreLate
  <2> QED
    BY <1>1, <1>4, <2>1, <2>2
<1> QED
  BY <1>5, <1>6

\* What a restore leaves alone: what the trap goes by, and the records.
LEMMA RestoreAside ==
    ASSUME Kept, RestoreStep \/ RestoreFails \/ RestoreLate
    PROVE  /\ UNCHANGED <<backup, manifest, commit, restored, guard, queue, stdin, conn, req, pcVars,
                           txVars, exitSeen, outcome, denied, historyVars, localVars, asked>>
           /\ restore = "running"
           /\ Going'
<1>1. /\ UNCHANGED <<backup, manifest, commit, restored, guard, queue, stdin, conn, req, pcVars,
                      txVars, exitSeen, outcome, denied, historyVars, localVars, asked>>
      /\ restore = "running"
  BY DEF RestoreStep, RestoreFails, RestoreLate, Remove, Reapply, NoCopy, AllRestored,
     UnchangedByRestore, Restoring, Sends
<1>2. restore' = "running" => restore = "running" /\ (at' = at \/ (Restoring /\ PastFile))
  BY DEF RestoreStep, RestoreFails, RestoreLate, Remove, Reapply, NoCopy, AllRestored
<1>3. Restoring => at \in Nat
  BY UsersAssumption DEF Restoring, Users
<1> QED
  BY <1>1, <1>2, <1>3, NextListed DEF Kept, Going, PastFile, Documented

LEMMA RestoreKeeps ==
    ASSUME Kept, RestoreStep \/ RestoreFails \/ RestoreLate
    PROVE  Kept'
<1>1. /\ UNCHANGED <<backup, manifest, commit, restored, guard, queue, stdin, conn, req, pcVars,
                      txVars, exitSeen, outcome, denied, historyVars, localVars, asked>>
      /\ restore = "running"
      /\ Going'
  BY RestoreAside
<1>2. Leftover /\ Records /\ asked \in Nat /\ asked # 0
  BY <1>1 DEF Kept
<1>3. file' \in [Paths -> Contents] /\ late' \in SUBSET [path : Paths, content : Contents]
  <2>1. CASE RestoreStep
    <3>1. late' = late
      BY <2>1 DEF RestoreStep, Remove, Reapply, NoCopy, AllRestored
    <3> QED
      BY <1>2, <2>1, <3>1, RestoreOriginal DEF Leftover, TypeInv, TypeOK
  <2>2. CASE RestoreFails \/ RestoreLate
    <3>1. late \in SUBSET [path : Paths, content : Contents]
      BY <1>2 DEF Leftover, TypeInv, TypeOK
    <3>2. \A w \in late' \ late : w \in [path : Paths, content : Contents]
      BY <2>2, FailsAtHand
    <3> QED
      BY <2>2, <3>1, <3>2, FailsAtHand
  <2> QED
    BY <2>1, <2>2
<1>4. TypeInv'
  BY <1>1, <1>2, <1>3 DEF Leftover, TypeInv, TypeOK, GuardTypeOK
<1>5. Copies' /\ Lines'
  BY <1>1, <1>2 DEF Leftover, Copies, Lines, LineOK
<1>6. \A p : Recorded(p) => Recorded(p)'
  BY <1>1 DEF Recorded, Documented, Existed
<1>7. AllRecorded'
  <2>1. CASE RestoreStep
    <3>1. late' = late
      BY <2>1 DEF RestoreStep, Remove, Reapply, NoCopy, AllRestored
    <3> QED
      BY <1>1, <1>2, <1>6, <2>1, <3>1, RestoreOriginal DEF Leftover, AllRecorded
  <2>2. CASE RestoreFails \/ RestoreLate
    <3>1. \A p \in Paths : \/ file'[p] = file[p] /\ \A w \in late' \ late : w.path # p
                          \/ Recorded(p)
      BY <2>2, FailsAtHand
    <3>2. \A w \in late' \ late : w.path \in Paths
      BY <2>2, FailsAtHand
    <3> QED
      BY <1>1, <1>2, <1>6, <3>1, <3>2 DEF Leftover, AllRecorded
  <2> QED
    BY <2>1, <2>2
<1>8. Records'
  BY <1>1, <1>2 DEF Records, FilesRead, CopiesSaved, MetaTold, Named
<1> QED
  BY <1>1, <1>2, <1>4, <1>5, <1>7, <1>8 DEF Kept, Leftover

LEMMA KeptStep == Kept /\ [BreakGlassNext]_allVars => Kept'
<1> SUFFICES ASSUME Kept, [BreakGlassNext]_allVars PROVE Kept'
  OBVIOUS
<1>1. CASE UNCHANGED allVars
  <2>1. TypeInv'
    BY <1>1, KeptTypes, StepType
  <2>2. asked = 0 => Ledger'
    BY <1>1, LedgerStep DEF Kept
  <2>3. asked # 0 => Leftover'
    BY <1>1, <2>1
    DEF vars, Kept, Leftover, Copies, Lines, LineOK, AllRecorded, Recorded, Documented, Existed
  <2>4. Records' /\ Going'
    BY <1>1 DEF vars, Kept, Records, FilesRead, CopiesSaved, MetaTold, Named, Going, Documented
  <2> QED
    BY <1>1, <2>2, <2>3, <2>4 DEF Kept
<1> QED
  BY <1>1, TransactKeeps, AskKeeps, RestoreKeeps DEF BreakGlassNext

----------------------------------------------------------------------------
(* The theorems.                                                           *)

LEMMA KeptHolds == BreakGlassSpec => []Kept
  BY KeptInit, KeptStep, PTL DEF BreakGlassSpec

\* Whatever a restore writes, also one that fails, is torn, lands late or runs beside the
\* trap, is the file's content from before the transaction or, when it fails in the
\* middle, a part of that content (tx.ensureCAS, cli.restoreCmd, remote.SwapFile).
THEOREM RestoresOnlyOriginals == BreakGlassSpec => RestoreWritesOriginals
<1> DEFINE A == /\ \A p \in Paths :
                      \/ file'[p] \in {file[p], before[p]}
                      \/ restore' = "failed" /\ PartOf(file'[p], before[p])
                /\ \A w \in late' \ late :
                      w.content = before[w.path] \/ PartOf(w.content, before[w.path])
<1>1. ASSUME Kept, RestoreStep
      PROVE  A
  <2>1. late' = late
    BY <1>1 DEF RestoreStep, Remove, Reapply, NoCopy, AllRestored
  <2> QED
    BY <1>1, <2>1, RestoreOriginal
<1>2. ASSUME Kept, RestoreFails \/ RestoreLate
      PROVE  A
  <2>1. restore' = "failed"
    BY <1>2 DEF RestoreFails, RestoreLate
  <2> QED
    BY <1>2, <2>1, FailsAtHand
<1>3. Kept => [RestoreStep \/ RestoreFails \/ RestoreLate => A]_allVars
  BY <1>1, <1>2
<1> QED
  BY <1>3, KeptHolds, PTL DEF RestoreWritesOriginals

LEMMA KeptShows == Kept => ChangesDocumented
<1> SUFFICES ASSUME Kept PROVE ChangesDocumented
  OBVIOUS
<1>1. AllRecorded
  BY LedgerIsRecorded DEF Kept, Leftover
<1> QED
  BY <1>1 DEF AllRecorded, Recorded, ChangesDocumented

\* After every report each file that is not as it was is in the document, with
\* a copy of its original, unless the document could not be written
\* (tx.finishMeta).
THEOREM ChangesAlwaysDocumented == BreakGlassSpec => []ChangesDocumented
  BY KeptShows, KeptHolds, PTL

----------------------------------------------------------------------------
(* What a restore leaves.                                                  *)

\* A restore goes by a document that was written, its loop is at a user or
\* through, and the files behind it are as they were, unless a swap that the
\* run had given up has landed since.
Undone ==
    /\ document = "written" => outcome \in Outcomes /\ step # "validate"
    /\ restore \in {"running", "restored"} =>
        /\ document = "written"
        /\ restore = "running" => at \in Users \cup {NumUsers + 1}
        /\ ~strays => \A u \in Documented : u < at \/ restore = "restored" =>
                          file[PathOf[u]] = before[PathOf[u]]

LEMMA TransactUndone ==
    ASSUME Kept, Undone, Transact
    PROVE  Undone'
<1>1. TypeInv /\ Course
  BY KeptTypes, StepCourse DEF Transact
<1>2. document' = "written" => outcome' \in Outcomes /\ step' # "validate"
  <2>1. CASE document = "written"
    <3>1. outcome \in Outcomes /\ outcome # "none" /\ step # "validate"
      BY <2>1 DEF Undone, Outcomes
    <3> QED  BY <1>1, <3>1 DEF Course
  <2>2. CASE document # "written" /\ document' = "written"
    BY <1>1, <2>2 DEF Transact, FinishMeta, Course, Outcomes
  <2> QED  BY <2>1, <2>2
<1>3. CASE restore' \in {"running", "restored"}
  <2>1. restore' = restore /\ at' = at /\ document = "written" /\ outcome # "none"
    BY <1>3 DEF Transact, Undone, Outcomes
  <2>2. UNCHANGED <<before, document, meta>>
    BY <1>1, <2>1 DEF Course, Transact, FinishMeta
  <2>3. ASSUME ~strays'
        PROVE  ~strays /\ \A p \in Paths : file'[p] \in {file[p], before[p]}
    <3>1. Copies /\ Lines
      BY DEF Kept, Ledger, Leftover
    <3> QED
      BY <1>1, <2>1, <2>3, <3>1, OverMoves, OverWrites DEF Transact
  <2>4. \A u \in Documented : PathOf[u] \in Paths
    BY PathsAssumption DEF Documented, Kept, Records, MetaTold
  <2> QED
    BY <1>2, <1>3, <2>1, <2>2, <2>3, <2>4 DEF Undone, Documented
<1>4. CASE restore' \notin {"running", "restored"}
  BY <1>2, <1>4 DEF Undone
<1> QED  BY <1>3, <1>4

LEMMA AskUndone ==
    ASSUME Kept, AskRestore
    PROVE  Undone => Undone'
<1>1. UNCHANGED <<vars, localVars>> /\ at' = After(0, Documented)
      /\ restore' # "restored" /\ (restore' = "running" => document = "written")
  BY DEF AskRestore, Usable
<1>2. Documented \in SUBSET Users
  BY DEF Documented, Kept, Records, MetaTold
<1>3. at' \in Users \cup {NumUsers + 1}
  BY <1>1, <1>2, AfterType
<1>4. \A u \in Documented : ~(u < at')
  <2> SUFFICES ASSUME NEW u \in Documented PROVE ~(u < at')
    OBVIOUS
  <2>1. u \in Nat /\ u > 0
    BY <1>2, UsersAssumption DEF Users
  <2>2. After(0, Documented) \in Users /\ After(0, Documented) <= u
    BY <1>2, <2>1, AfterSkips
  <2> QED  BY <1>1, <2>1, <2>2, UsersAssumption DEF Users
<1> QED
  BY <1>1, <1>3, <1>4 DEF Undone, Documented, vars

\* The user at hand gets its original, and the loop goes on to the next.
LEMMA RestoreUndone ==
    ASSUME Kept, Undone, RestoreStep
    PROVE  Undone'
<1>1. UNCHANGED <<before, outcome, step, document, meta, strays>> /\ restore = "running"
  BY DEF RestoreStep, Remove, Reapply, NoCopy, AllRestored, UnchangedByRestore, Restoring
<1>2. at \in Users \cup {NumUsers + 1} /\ document = "written"
  BY <1>1 DEF Undone
<1>3. \A p \in Paths : file'[p] \in {file[p], before[p]}
  BY RestoreOriginal
<1>4. Documented \in SUBSET Users /\ Documented' = Documented
  BY <1>1 DEF Documented, Kept, Records, MetaTold
<1>5. \A u \in Documented : u \in Nat /\ PathOf[u] \in Paths
  BY <1>4, UsersAssumption, PathsAssumption DEF Users
<1>6. CASE Remove \/ Reapply
  <2>1. restore' = "running" /\ at \in Users /\ at \in Documented /\ at' = After(at, Documented)
    BY <1>1, <1>6 DEF Remove, Reapply, Restoring, PastFile, Kept, Going
  <2>2. file'[PathOf[at]] = before[PathOf[at]]
    BY <1>6, PutsBack
  <2>3. at \in Nat /\ at' \in Users \cup {NumUsers + 1}
    BY <1>4, <2>1, AfterType, UsersAssumption DEF Users
  <2>4. \A u \in Documented : u < at' => u < at \/ u = at
    <3> SUFFICES ASSUME NEW u \in Documented, u > at PROVE ~(u < at')
      BY <1>5, <2>3
    <3>1. After(at, Documented) \in Users /\ After(at, Documented) <= u
      BY <1>4, <2>3, AfterSkips
    <3> QED  BY <1>5, <2>1, <3>1, UsersAssumption DEF Users
  <2> QED
    BY <1>1, <1>2, <1>3, <1>4, <1>5, <2>1, <2>2, <2>3, <2>4 DEF Undone
<1>7. CASE AllRestored
  <2>1. restore' = "restored" /\ file' = file /\ at = NumUsers + 1
    BY <1>2, <1>7 DEF AllRestored
  <2>2. \A u \in Documented : u < at
    BY <1>4, <2>1, UsersAssumption DEF Users
  <2> QED
    BY <1>1, <1>2, <1>4, <2>1, <2>2 DEF Undone
<1>8. CASE NoCopy
  BY <1>1, <1>8 DEF NoCopy, Undone
<1> QED
  BY <1>6, <1>7, <1>8 DEF RestoreStep

LEMMA UndoneStep == Kept /\ Undone /\ [BreakGlassNext]_allVars => Undone'
<1> SUFFICES ASSUME Kept, Undone, [BreakGlassNext]_allVars PROVE Undone'
  OBVIOUS
<1>1. CASE UNCHANGED allVars
  BY <1>1 DEF vars, Undone, Documented
<1>2. CASE RestoreFails \/ RestoreLate
  <2>1. restore' = "failed" /\ UNCHANGED <<document, outcome, step>>
    BY <1>2, RestoreAside DEF RestoreFails, RestoreLate
  <2> QED
    BY <2>1 DEF Undone
<1> QED
  BY <1>1, <1>2, TransactUndone, AskUndone, RestoreUndone DEF BreakGlassNext

LEMMA UndoneInit == BreakGlassInit => Undone
  BY DEF BreakGlassInit, Undone

\* What is not in the document has not changed, and the rest has been put back.
LEMMA UndoneShows == Kept /\ Undone => RestoreUndoes
<1> SUFFICES ASSUME Kept, Undone, restore = "restored", ~strays PROVE file = before
  BY DEF RestoreUndoes, AllOriginal
<1>1. ChangesDocumented /\ outcome \in Outcomes /\ document # "lost"
  BY KeptShows DEF Undone
<1>2. \A u \in Documented : file[PathOf[u]] = before[PathOf[u]]
  BY DEF Undone
<1>3. \A p \in Paths : file[p] = before[p]
  BY <1>1, <1>2 DEF ChangesDocumented
<1>4. file \in [Paths -> Contents] /\ before \in [Paths -> Contents]
  BY KeptTypes
<1> QED
  BY <1>3, <1>4

\* A restore that exits 0 has undone the whole transaction, whichever way it
\* ended, whatever was restored before and whatever its trap still does; it
\* stays undone unless a swap that the run gave up lands (cli.restoreCmd).
THEOREM RestoresUndo == BreakGlassSpec => []RestoreUndoes
<1>1. BreakGlassSpec => []Undone
  BY UndoneInit, UndoneStep, KeptHolds, PTL DEF BreakGlassSpec
<1> QED
  BY <1>1, UndoneShows, KeptHolds, PTL
=============================================================================
