-------------------------- MODULE ContentionProofs --------------------------
(***************************************************************************)
(* What holds of any number of overlapping runs, keys and requests.        *)
(***************************************************************************)
EXTENDS Contention, TLAPS

\* The requests are requests.
LEMMA RequestFacts ==
    /\ \A q \in Requests : q.add \in SUBSET Keys /\ q.remove \in SUBSET Keys
    /\ InitialFiles \subseteq SUBSET Keys
BY RequestsAssumption, FilesAssumption DEF Request

\* The types of a state hold to begin with.
LEMMA TypeInit == Init => TypeOK
<1> SUFFICES ASSUME Init PROVE TypeOK
  OBVIOUS
<1>1. file \in SUBSET Keys /\ initial \in SUBSET Keys
  BY RequestFacts DEF Init
<1>2. req \in [Runs -> Requests]
  BY DEF Init
<1> QED  BY <1>1, <1>2 DEF Init, TypeOK, Steps

\* The requests of a run are sets of keys.
LEMMA RequestTypes ==
    ASSUME TypeOK, NEW r \in Runs
    PROVE  Adds(r) \in SUBSET Keys /\ Removes(r) \in SUBSET Keys
BY RequestFacts DEF TypeOK, Adds, Removes

\* Reading and copying.
LEMMA LoadType == ASSUME TypeOK, NEW r \in Runs, Load(r) PROVE TypeOK'
BY RequestTypes DEF TypeOK, Load, Loads, Steps

LEMMA CopyType ==
    ASSUME TypeOK, NEW r \in Runs, Copy(r) \/ CopyUnconfirmed(r) PROVE TypeOK'
<1>1. CASE Copy(r)
  BY <1>1, RequestTypes DEF TypeOK, Copy, Enter, Goto, Quiet, history, Steps
<1>2. CASE CopyUnconfirmed(r)
  BY <1>2 DEF TypeOK, CopyUnconfirmed, GoAbort, Goto, Quiet, history, Steps
<1> QED  BY <1>1, <1>2

\* Swapping.
LEMMA SwapType ==
    ASSUME TypeOK, NEW r \in Runs, Swap(r) \/ SwapUnconfirmed(r) PROVE TypeOK'
<1>1. Edited(r) \in SUBSET Keys
  BY RequestTypes DEF TypeOK, Edited
<1>2. CASE Swap(r)
  BY <1>1, <1>2, RequestTypes DEF TypeOK, Swap, Writes, Enter, Goto, Steps
<1>3. CASE SwapUnconfirmed(r)
  BY <1>1, <1>3 DEF TypeOK, SwapUnconfirmed, Writes, GoAbort, Goto, Quiet, history, Steps
<1> QED  BY <1>2, <1>3

\* Asking sshd.
LEMMA AskType ==
    ASSUME TypeOK, NEW r \in Runs,
           Probe(r) \/ AllProbed(r) \/ Control(r) \/ ProveAccess(r) \/ NoVerdict(r)
    PROVE  TypeOK'
<1>1. CASE Probe(r)
  BY <1>1 DEF TypeOK, Probe, Judging, GoAbort, Goto, Quiet, history, Steps
<1>2. CASE AllProbed(r)
  BY <1>2, RequestTypes
  DEF TypeOK, AllProbed, Judging, Enter, AfterAdd, Goto, Quiet, history, Steps
<1>3. CASE Control(r)
  BY <1>3 DEF TypeOK, Control, GoAbort, Goto, Quiet, history, Steps
<1>4. CASE ProveAccess(r)
  BY <1>4 DEF TypeOK, ProveAccess, GoAbort, Goto, Quiet, history, Steps
<1>5. CASE NoVerdict(r)
  BY <1>5 DEF TypeOK, NoVerdict, GoAbort, Goto, Quiet, history, Steps
<1> QED  BY <1>1, <1>2, <1>3, <1>4, <1>5

\* Ending, one way or another.
LEMMA EndType ==
    ASSUME TypeOK, NEW r \in Runs,
           Commit(r) \/ Revert(r) \/ RevertFails(r) \/ ReadBack(r) \/ Disarm(r) \/ Die(r)
    PROVE  TypeOK'
<1>1. CASE Commit(r)
  BY <1>1 DEF TypeOK, Commit, Ends, Goto, Quiet, history, Steps
<1>2. CASE Revert(r)
  BY <1>2 DEF TypeOK, Revert, Writes, Goto, Steps
<1>3. CASE RevertFails(r)
  BY <1>3 DEF TypeOK, RevertFails, Writes, Ends, Goto, Quiet, history, Steps
<1>4. CASE ReadBack(r)
  BY <1>4 DEF TypeOK, ReadBack, Ends, Goto, Quiet, history, Steps
<1>5. CASE Disarm(r)
  BY <1>5 DEF TypeOK, Disarm, Ends, Goto, Quiet, history, Steps
<1>6. CASE Die(r)
  BY <1>6 DEF TypeOK, Die, Report, Ends, Goto, Quiet, history, Steps
<1> QED  BY <1>1, <1>2, <1>3, <1>4, <1>5, <1>6

\* The traps.
LEMMA TrapType == ASSUME TypeOK, NEW r \in Runs, Trap(r) PROVE TypeOK'
<1>1. CASE TrapIdle(r)
  BY <1>1 DEF TypeOK, TrapIdle, Quiet, history
<1>2. CASE TrapTruncates(r)
  BY <1>2 DEF TypeOK, TrapTruncates
<1>3. CASE TrapWrites(r)
  BY <1>3 DEF TypeOK, TrapWrites, Quiet, history
<1> QED  BY <1>1, <1>2, <1>3 DEF Trap

\* The moves of the runs and of their traps, one by one.
LEMMA Moves ==
    ASSUME [Next]_vars
    PROVE  \/ UNCHANGED vars
           \/ \E r \in Runs : Load(r) \/ Copy(r) \/ CopyUnconfirmed(r)
           \/ \E r \in Runs : Swap(r) \/ SwapUnconfirmed(r)
           \/ \E r \in Runs : Probe(r) \/ AllProbed(r) \/ Control(r) \/ ProveAccess(r) \/ NoVerdict(r)
           \/ \E r \in Runs : Commit(r) \/ Revert(r) \/ RevertFails(r) \/ ReadBack(r) \/ Disarm(r) \/ Die(r)
           \/ \E r \in Runs : Trap(r)
BY DEF Next, Advance, Mishap, AllGone

LEMMA TypeStep == TypeOK /\ [Next]_vars => TypeOK'
<1> SUFFICES ASSUME TypeOK, [Next]_vars PROVE TypeOK'
  OBVIOUS
<1>1. CASE UNCHANGED vars
  BY <1>1 DEF TypeOK, vars, runVars, history
<1> QED  BY <1>1, Moves, LoadType, CopyType, SwapType, AskType, EndType, TrapType

\* The type invariant of Contention holds of any number of runs: a run's guard
\* is up exactly while the run is at work (tx.Run, guardScript).
THEOREM ContentionTypeCorrect == Spec => []TypeOK
<1> QED  BY TypeInit, TypeStep, PTL DEF Spec

----------------------------------------------------------------------------
(* What every copy of the file holds.                                      *)

\* The keys that no run is asked to remove.
Standing == {k \in initial : \A r \in Runs : k \notin Removes(r)}

\* A run that has read the file has them in what it would put back and in what
\* it would write, and so has the file unless a trap is emptying and writing it.
Copies ==
    /\ \A r \in Runs : step[r] # "load" => Standing \subseteq orig[r] /\ Standing \subseteq work[r]
    /\ onFile = {} => Standing \subseteq file

\* Whoever has the file open has read it.
Readers == \A r \in Runs : step[r] = "load" => guard[r] = "off"

\* The inductive invariant.
Stays == TypeOK /\ Readers /\ (~torn => Copies)

LEMMA StaysInit == Init => Stays
BY TypeInit DEF Init, Stays, Readers, Copies, Standing

\* Nobody changes what is asked for, or what the file was.
LEMMA StandingKept == ASSUME req' = req, initial' = initial PROVE Standing' = Standing
BY DEF Standing, Removes

\* Nobody forgets that a torn file has been read.
LEMMA TornKept == ASSUME TypeOK, [Next]_vars PROVE torn => torn'
<1>1. CASE UNCHANGED vars
  BY <1>1 DEF vars, history
<1>2. ASSUME NEW r \in Runs, Load(r) \/ Copy(r) \/ CopyUnconfirmed(r) PROVE torn => torn'
  BY <1>2 DEF Load, Loads, Copy, CopyUnconfirmed, Quiet, history
<1>3. ASSUME NEW r \in Runs, Swap(r) \/ SwapUnconfirmed(r) PROVE torn => torn'
  BY <1>3 DEF Swap, SwapUnconfirmed, Writes, Quiet, history
<1>4. ASSUME NEW r \in Runs,
             Probe(r) \/ AllProbed(r) \/ Control(r) \/ ProveAccess(r) \/ NoVerdict(r)
      PROVE torn => torn'
  BY <1>4 DEF Probe, AllProbed, Control, ProveAccess, NoVerdict, Quiet, history
<1>5. ASSUME NEW r \in Runs,
             Commit(r) \/ Revert(r) \/ RevertFails(r) \/ ReadBack(r) \/ Disarm(r) \/ Die(r)
      PROVE torn => torn'
  BY <1>5 DEF Commit, Revert, RevertFails, ReadBack, Disarm, Die, Writes, Quiet, history
<1>6. ASSUME NEW r \in Runs, Trap(r) PROVE torn => torn'
  BY <1>6 DEF Trap, TrapIdle, TrapTruncates, TrapWrites, Quiet, history
<1> QED  BY <1>1, <1>2, <1>3, <1>4, <1>5, <1>6, Moves

\* A step that only moves a run on: it changes no copy.
Moved(r) ==
    /\ Quiet
    /\ UNCHANGED <<req, orig, work>>
    /\ \A q \in Runs : step[q] = "load" => step'[q] = "load"

LEMMA MovedStays ==
    ASSUME ~torn => Copies, TypeOK, NEW r \in Runs, Moved(r)
    PROVE  ~torn' => Copies'
<1>1. Standing' = Standing
  BY StandingKept DEF Moved, Quiet, history
<1> QED  BY <1>1 DEF Moved, Quiet, history, Copies, TypeOK

\* A write of a content that has the standing keys, by a run that has read.
LEMMA WriteStays ==
    ASSUME ~torn => Copies, TypeOK, NEW r \in Runs, NEW c, Writes(r, c),
           ~torn => Standing \subseteq c,
           req' = req, orig' = orig,
           \A q \in Runs : step[q] = "load" => step'[q] = "load",
           \A q \in Runs : work'[q] = work[q] \/ (~torn => Standing \subseteq work'[q])
    PROVE  ~torn' => Copies'
<1>1. Standing' = Standing
  BY StandingKept DEF Writes
<1> QED  BY <1>1 DEF Writes, Copies, TypeOK

LEMMA LoadStays ==
    ASSUME ~torn => Copies, TypeOK, NEW r \in Runs, Load(r) PROVE ~torn' => Copies'
<1>1. Standing' = Standing
  BY StandingKept DEF Load, Loads
<1> QED  BY <1>1 DEF Load, Loads, Copies, TypeOK

LEMMA CopyStays ==
    ASSUME ~torn => Copies, TypeOK, NEW r \in Runs, Copy(r) \/ CopyUnconfirmed(r)
    PROVE  ~torn' => Copies'
<1>1. \A q \in Runs : step[q] = "load" => step'[q] = "load"
  BY DEF Copy, CopyUnconfirmed, Enter, GoAbort, Goto, TypeOK
<1>2. Moved(r)
  BY <1>1 DEF Moved, Copy, CopyUnconfirmed
<1> QED  BY <1>2, MovedStays

LEMMA SwapStays ==
    ASSUME ~torn => Copies, TypeOK, NEW r \in Runs, Swap(r) \/ SwapUnconfirmed(r)
    PROVE  ~torn' => Copies'
<1>1. ~torn => Standing \subseteq Edited(r)
  BY DEF Copies, Edited, Standing, Swap, SwapUnconfirmed
<1>2. \A q \in Runs : step[q] = "load" => step'[q] = "load"
  BY DEF Swap, SwapUnconfirmed, Enter, GoAbort, Goto, TypeOK
<1>3. CASE Swap(r)
  <2>1. \A q \in Runs : work'[q] = work[q] \/ (~torn => Standing \subseteq work'[q])
    BY <1>1, <1>3 DEF Swap, TypeOK
  <2> QED  BY <1>1, <1>2, <1>3, <2>1, WriteStays DEF Swap
<1>4. CASE SwapUnconfirmed(r) /\ Writes(r, Edited(r))
  BY <1>1, <1>2, <1>4, WriteStays DEF SwapUnconfirmed
<1>5. CASE SwapUnconfirmed(r) /\ Quiet
  BY <1>2, <1>5, MovedStays DEF Moved, SwapUnconfirmed
<1> QED  BY <1>3, <1>4, <1>5 DEF SwapUnconfirmed

LEMMA AskStays ==
    ASSUME ~torn => Copies, TypeOK, NEW r \in Runs,
           Probe(r) \/ AllProbed(r) \/ Control(r) \/ ProveAccess(r) \/ NoVerdict(r)
    PROVE  ~torn' => Copies'
<1>1. \A q \in Runs : step[q] = "load" => step'[q] = "load"
  <2>1. step[r] # "load"
    BY DEF Probe, AllProbed, Judging, Control, ProveAccess, NoVerdict
  <2>2. \A q \in Runs : q # r => step'[q] = step[q]
    <3>1. CASE AllProbed(r)
      BY <3>1 DEF AllProbed, Enter, Goto, TypeOK
    <3> QED  BY <3>1 DEF Probe, Control, ProveAccess, NoVerdict, GoAbort, Goto, TypeOK
  <2> QED  BY <2>1, <2>2
<1>2. Moved(r)
  BY <1>1 DEF Moved, Probe, AllProbed, Control, ProveAccess, NoVerdict
<1> QED  BY <1>2, MovedStays

LEMMA EndStays ==
    ASSUME ~torn => Copies, TypeOK, NEW r \in Runs,
           Commit(r) \/ Revert(r) \/ RevertFails(r) \/ ReadBack(r) \/ Disarm(r) \/ Die(r)
    PROVE  ~torn' => Copies'
<1>1. \A q \in Runs : step[q] = "load" => step'[q] = "load"
  BY DEF Commit, Revert, RevertFails, ReadBack, Disarm, Die, Ends, Goto, TypeOK
<1>2. CASE Commit(r) \/ ReadBack(r) \/ Disarm(r) \/ Die(r)
  <2>1. Moved(r)
    BY <1>1, <1>2 DEF Moved, Commit, ReadBack, Disarm, Die
  <2> QED  BY <2>1, MovedStays
<1>3. CASE (Revert(r) \/ RevertFails(r)) /\ Writes(r, orig[r])
  <2>1. ~torn => Standing \subseteq orig[r]
    BY <1>3 DEF Copies, Revert, RevertFails
  <2> QED  BY <1>1, <1>3, <2>1, WriteStays DEF Revert, RevertFails
<1>4. CASE RevertFails(r) /\ Quiet
  BY <1>1, <1>4, MovedStays DEF Moved, RevertFails
<1> QED  BY <1>2, <1>3, <1>4 DEF Revert, RevertFails

LEMMA TrapStays ==
    ASSUME ~torn => Copies, Readers, TypeOK, NEW r \in Runs, Trap(r)
    PROVE  ~torn' => Copies'
<1>1. Standing' = Standing
  BY StandingKept DEF Trap, TrapIdle, TrapTruncates, TrapWrites, Quiet, history
<1>2. CASE TrapIdle(r)
  <2>1. Moved(r)
    BY <1>2 DEF Moved, TrapIdle
  <2> QED  BY <2>1, MovedStays
<1>3. CASE TrapTruncates(r)
  BY <1>1, <1>3 DEF TrapTruncates, Copies, TypeOK
<1>4. CASE TrapWrites(r) /\ r \in onFile
  <2>1. step[r] # "load"
    BY <1>4 DEF TrapWrites, Readers
  <2> QED  BY <1>1, <1>4, <2>1 DEF TrapWrites, Copies, TypeOK
<1>5. CASE TrapWrites(r) /\ r \notin onFile
  <2>1. Moved(r)
    BY <1>5 DEF Moved, TrapWrites
  <2> QED  BY <2>1, MovedStays
<1> QED  BY <1>2, <1>3, <1>4, <1>5 DEF Trap

\* Who has yet to read has no guard.
LEMMA ReadersStep == ASSUME TypeOK, Readers, [Next]_vars PROVE Readers'
<1>1. CASE UNCHANGED vars
  BY <1>1 DEF vars, runVars, Readers
<1>2. ASSUME NEW r \in Runs, Load(r) \/ Copy(r) \/ CopyUnconfirmed(r) PROVE Readers'
  BY <1>2 DEF Load, Loads, Copy, CopyUnconfirmed, Enter, GoAbort, Goto, Readers, TypeOK
<1>3. ASSUME NEW r \in Runs, Swap(r) \/ SwapUnconfirmed(r) PROVE Readers'
  BY <1>3 DEF Swap, SwapUnconfirmed, Enter, GoAbort, Goto, Readers, TypeOK
<1>4. ASSUME NEW r \in Runs,
             Probe(r) \/ AllProbed(r) \/ Control(r) \/ ProveAccess(r) \/ NoVerdict(r)
      PROVE Readers'
  BY <1>4 DEF Probe, AllProbed, Control, ProveAccess, NoVerdict, Enter, AfterAdd, GoAbort, Goto,
              Readers, TypeOK
<1>5. ASSUME NEW r \in Runs,
             Commit(r) \/ Revert(r) \/ RevertFails(r) \/ ReadBack(r) \/ Disarm(r) \/ Die(r)
      PROVE Readers'
  BY <1>5 DEF Commit, Revert, RevertFails, ReadBack, Disarm, Die, Ends, Goto, Readers, TypeOK
<1>6. ASSUME NEW r \in Runs, Trap(r) PROVE Readers'
  BY <1>6 DEF Trap, TrapIdle, TrapTruncates, TrapWrites, Readers, TypeOK
<1> QED  BY <1>1, <1>2, <1>3, <1>4, <1>5, <1>6, Moves

LEMMA StaysStep == Stays /\ [Next]_vars => Stays'
<1> SUFFICES ASSUME Stays, [Next]_vars PROVE Stays'
  OBVIOUS
<1>1. TypeOK' /\ Readers'
  BY TypeStep, ReadersStep DEF Stays
<1>2. ~torn' => Copies'
  <2>1. CASE UNCHANGED vars
    BY <2>1 DEF vars, runVars, history, Stays, Copies, Standing, Removes
  <2> QED  BY <2>1, Moves, LoadStays, CopyStays, SwapStays, AskStays, EndStays, TrapStays
           DEF Stays
<1> QED  BY <1>1, <1>2 DEF Stays

\* A key that was in the file and that none of the runs is asked to remove stays
\* there, however many runs overlap: each copy of the file that a swap, a revert
\* or a trap writes holds it, unless one was made of a file that a trap was
\* writing (remote.SwapFile, tx.abort, guardScript).
THEOREM StandingKeysStayForAll == Spec => []StandingKeysStay
<1>1. Stays => StandingKeysStay
  BY DEF Stays, Copies, Standing, StandingKeysStay
<1> QED  BY <1>1, StaysInit, StaysStep, PTL DEF Spec

----------------------------------------------------------------------------
(* What the last writer is told.                                           *)

\* The whole edit of what the run has loaded.
Edit(r) == (orig[r] \cup Adds(r)) \ Removes(r)

Told(r) == IF outcome[r] = "committed" THEN Edit(r) ELSE orig[r]

Early == {"load", "addCopy", "addSwap"}

Checking == {"verifyAdded", "removeCopy", "removeSwap", "control", "verifyRemoved", "prove", "marker"}

\* The working copy and the records of one run, by where it is.
Shape(r) ==
    /\ step[r] \in {"addCopy", "addSwap"} => work[r] = orig[r]
    /\ step[r] \in {"verifyAdded", "removeCopy", "removeSwap"} => work[r] = orig[r] \cup Adds(r)
    /\ step[r] \in {"control", "verifyRemoved", "prove", "marker"} => work[r] = Edit(r)
    /\ step[r] \in {"addSwap", "removeSwap"} => manifested[r]
    /\ dirty[r] => manifested[r]
    /\ step[r] \in {"revert", "readback"} => dirty[r]
    /\ outcome[r] = "committed" => step[r] = "over" /\ marker[r]
    /\ marker[r] => step[r] = "over"

\* What the file holds when this run was the last to write it.
Claim(r) ==
    last = r =>
        /\ step[r] \notin Early
        /\ manifested[r] /\ (step[r] # "over" => dirty[r])
        /\ step[r] \in Checking => file = work[r]
        /\ step[r] \in {"readback", "disarm"} => file = orig[r]
        /\ guard[r] = "cut" /\ marker[r] => file = Told(r)
        /\ guard[r] = "writing" => r \in onFile /\ file = {}
        /\ guard[r] = "off" => file = Told(r)

\* Only the last writer can still have the file open.
Opened(r) == r \in onFile => last = r /\ guard[r] = "writing"

\* A trap restores what was not marked.
Restoring(r) == guard[r] = "writing" => manifested[r] /\ ~marker[r]

Fits(r) == Shape(r) /\ Restoring(r) /\ (~torn => Claim(r) /\ Opened(r))

\* The inductive invariant.
Truth == TypeOK /\ Readers /\ \A r \in Runs : Fits(r)

LEMMA TruthInit == Init => Truth
<1> SUFFICES ASSUME Init PROVE Truth
  OBVIOUS
<1>1. last \notin Runs /\ onFile = {}
  BY RunsAssumption DEF Init
<1>2. ASSUME NEW r \in Runs PROVE Fits(r)
  BY <1>1, <1>2 DEF Init, Fits, Shape, Claim, Opened, Restoring
<1> QED  BY <1>2, TypeInit DEF Truth, Readers, Init

\* A step of the run r leaves the records of the others alone, and either
\* leaves the file alone too or makes r the last to write it.
Frame(r) ==
    /\ req' = req
    /\ torn => torn'
    /\ \A q \in Runs \ {r} :
        /\ step'[q] = step[q] /\ orig'[q] = orig[q] /\ work'[q] = work[q]
        /\ dirty'[q] = dirty[q] /\ manifested'[q] = manifested[q] /\ marker'[q] = marker[q]
        /\ guard'[q] = guard[q] /\ outcome'[q] = outcome[q]
    /\ \/ UNCHANGED <<file, last, onFile>>
       \/ last' = r /\ (torn' \/ onFile' \subseteq {r})

LEMMA OthersFit ==
    ASSUME Truth, NEW r \in Runs, Frame(r), NEW q \in Runs \ {r}
    PROVE  Fits(q)'
<1>1. Fits(q)
  BY DEF Truth
<1>2. Adds(q)' = Adds(q) /\ Removes(q)' = Removes(q)
  BY DEF Frame, Adds, Removes
<1>3. Shape(q)' /\ Restoring(q)'
  BY <1>1, <1>2 DEF Fits, Frame, Shape, Restoring, Edit
<1>4. Told(q)' = Told(q)
  BY <1>2 DEF Told, Edit, Frame
<1>5. ASSUME ~torn' PROVE Claim(q)' /\ Opened(q)'
  <2>1. CASE UNCHANGED <<file, last, onFile>>
    BY <1>1, <1>4, <1>5, <2>1 DEF Fits, Frame, Claim, Opened
  <2>2. CASE last' = r /\ onFile' \subseteq {r}
    BY <2>2 DEF Claim, Opened
  <2> QED  BY <1>5, <2>1, <2>2 DEF Frame
<1> QED  BY <1>3, <1>5 DEF Fits

\* It remains to look at the run that moves.
LEMMA OneFits ==
    ASSUME Truth, TypeOK', Readers', NEW r \in Runs, Frame(r), Fits(r)' PROVE Truth'
BY OthersFit DEF Truth

LEMMA LoadFits == ASSUME Truth, NEW r \in Runs, Load(r) PROVE Frame(r) /\ Fits(r)'
<1>1. Frame(r)
  BY DEF Truth, TypeOK, Load, Loads, Frame
<1>2. Adds(r)' = Adds(r) /\ Removes(r)' = Removes(r)
  BY DEF Load, Loads, Adds, Removes
<1>3. Fits(r)
  BY DEF Truth
<1>4. guard[r] = "off" /\ guard'[r] = "up" /\ ~marker[r] /\ outcome[r] # "committed"
  BY <1>3 DEF Truth, TypeOK, Readers, Load, Loads, Fits, Shape
<1>5. orig'[r] = file /\ work'[r] = file
  BY DEF Truth, TypeOK, Load, Loads
<1>6. step'[r] = IF Adds(r) # {} THEN "addCopy"
                 ELSE IF file \cap Removes(r) # {} THEN "removeCopy"
                 ELSE "control"
  BY DEF Truth, TypeOK, Load, Loads
<1>7. Shape(r)' /\ Restoring(r)'
  BY <1>2, <1>3, <1>4, <1>5, <1>6 DEF Load, Loads, Fits, Shape, Restoring, Edit
<1>8. ~torn' => Claim(r)' /\ Opened(r)'
  BY <1>3, <1>4 DEF Load, Loads, Fits, Claim, Opened, Early
<1> QED  BY <1>1, <1>7, <1>8 DEF Fits

\* A step that changes neither the file nor the records of it.
LEMMA QuietFrame ==
    ASSUME Truth, NEW r \in Runs, Quiet, UNCHANGED <<req, orig>>,
           \A q \in Runs \ {r} :
              /\ step'[q] = step[q] /\ work'[q] = work[q]
              /\ dirty'[q] = dirty[q] /\ manifested'[q] = manifested[q] /\ marker'[q] = marker[q]
              /\ guard'[q] = guard[q] /\ outcome'[q] = outcome[q]
    PROVE  Frame(r) /\ Edit(r)' = Edit(r) /\ Adds(r)' = Adds(r)
BY DEF Frame, Quiet, history, Edit, Adds, Removes

\* The marker and the outcome of a run at work.
LEMMA AtWork ==
    ASSUME Truth, NEW r \in Runs, step[r] \notin {"load", "over"}
    PROVE  /\ ~marker[r] /\ outcome[r] # "committed" /\ guard[r] = "up"
           /\ ~torn => r \notin onFile
<1>1. Fits(r) /\ guard[r] = "up"
  BY DEF Truth, TypeOK
<1> QED  BY <1>1 DEF Fits, Shape, Opened

LEMMA CopyFits ==
    ASSUME Truth, NEW r \in Runs, Copy(r) \/ CopyUnconfirmed(r)
    PROVE  Frame(r) /\ Fits(r)'
<1>1. Frame(r) /\ Edit(r)' = Edit(r) /\ Adds(r)' = Adds(r)
  BY QuietFrame DEF Truth, TypeOK, Copy, CopyUnconfirmed, Enter, GoAbort, Goto
<1>2. Fits(r) /\ ~marker[r] /\ outcome[r] # "committed" /\ guard[r] = "up" /\ (~torn => r \notin onFile)
  BY AtWork DEF Truth, Copy, CopyUnconfirmed
<1>3. manifested'[r] /\ UNCHANGED <<file, last, onFile, torn, orig, work, dirty, marker, guard, outcome>>
  BY DEF Truth, TypeOK, Copy, CopyUnconfirmed, Quiet, history
<1>4. CASE Copy(r)
  <2>1. step'[r] = CASE step[r] = "removeCopy" -> "removeSwap"
                     [] step[r] = "addCopy" /\ Adds(r) \subseteq work[r] -> "verifyAdded"
                     [] OTHER -> "addSwap"
    BY <1>4 DEF Truth, TypeOK, Copy, Enter, Goto
  <2>2. CASE step[r] = "removeCopy"
    <3>1. step'[r] = "removeSwap"
      BY <2>1, <2>2
    <3> QED  BY <1>1, <1>2, <1>3, <2>2, <3>1
             DEF Fits, Shape, Claim, Opened, Restoring, Early, Checking, Told
  <2>3. CASE step[r] = "addCopy" /\ Adds(r) \subseteq work[r]
    <3>1. step'[r] = "verifyAdded"
      BY <2>1, <2>3
    <3> QED  BY <1>1, <1>2, <1>3, <2>3, <3>1
             DEF Fits, Shape, Claim, Opened, Restoring, Early, Checking, Told
  <2>4. CASE step[r] = "addCopy" /\ ~(Adds(r) \subseteq work[r])
    <3>1. step'[r] = "addSwap"
      BY <2>1, <2>4
    <3> QED  BY <1>1, <1>2, <1>3, <2>4, <3>1
             DEF Fits, Shape, Claim, Opened, Restoring, Early, Checking, Told
  <2> QED  BY <1>1, <1>4, <2>2, <2>3, <2>4 DEF Copy
<1>5. CASE CopyUnconfirmed(r)
  <2>1. step[r] # "over" /\ step'[r] = IF dirty[r] THEN "revert" ELSE "disarm"
    BY <1>5 DEF Truth, TypeOK, CopyUnconfirmed, GoAbort, Goto
  <2> QED  BY <1>1, <1>2, <1>3, <2>1
           DEF Fits, Shape, Claim, Opened, Restoring, Early, Checking, Told
<1> QED  BY <1>4, <1>5

LEMMA SwapFits ==
    ASSUME Truth, NEW r \in Runs, Swap(r) \/ SwapUnconfirmed(r)
    PROVE  Frame(r) /\ Fits(r)'
<1>1. Frame(r)
  BY DEF Frame, Truth, TypeOK, Swap, SwapUnconfirmed, Writes, Quiet, history, Enter, GoAbort, Goto
<1>2. Fits(r) /\ ~marker[r] /\ outcome[r] # "committed" /\ guard[r] = "up" /\ (~torn => r \notin onFile)
  BY AtWork DEF Truth, Swap, SwapUnconfirmed
<1>3. Adds(r)' = Adds(r) /\ Removes(r)' = Removes(r) /\ manifested[r]
  BY <1>2 DEF Adds, Removes, Swap, SwapUnconfirmed, Fits, Shape
<1>4. UNCHANGED <<orig, manifested, marker, guard, outcome, torn>> /\ dirty'[r]
  BY DEF Truth, TypeOK, Swap, SwapUnconfirmed, Writes, Quiet, history
<1>5. r \notin onFile' \/ torn'
  BY <1>2 DEF Swap, SwapUnconfirmed, Writes, Quiet, history
<1>6. CASE Swap(r)
  <2>1. file' = Edited(r) /\ work'[r] = Edited(r) /\ step'[r] \in {"verifyAdded", "control"}
    BY <1>6 DEF Truth, TypeOK, Swap, Writes, Enter, Goto
  <2>2. CASE step[r] = "addSwap"
    <3>1. step'[r] = "verifyAdded" /\ Edited(r) = orig[r] \cup Adds(r)
      BY <1>2, <1>6, <2>2 DEF Truth, TypeOK, Swap, Enter, Goto, Edited, Fits, Shape
    <3> QED  BY <1>1, <1>2, <1>3, <1>4, <1>5, <2>1, <3>1
             DEF Fits, Shape, Claim, Opened, Restoring, Early, Checking, Told
  <2>3. CASE step[r] = "removeSwap"
    <3>1. step'[r] = "control" /\ Edited(r) = Edit(r)
      BY <1>2, <1>6, <2>3 DEF Truth, TypeOK, Swap, Enter, Goto, Edited, Fits, Shape, Edit
    <3>2. Edit(r)' = Edit(r)
      BY <1>3, <1>4 DEF Edit
    <3> QED  BY <1>1, <1>2, <1>3, <1>4, <1>5, <2>1, <3>1, <3>2
             DEF Fits, Shape, Claim, Opened, Restoring, Early, Checking, Told
  <2> QED  BY <1>6, <2>2, <2>3 DEF Swap
<1>7. CASE SwapUnconfirmed(r)
  <2>1. step'[r] = "revert"
    BY <1>7 DEF Truth, TypeOK, SwapUnconfirmed, GoAbort, Goto
  <2> QED  BY <1>1, <1>2, <1>3, <1>4, <1>5, <2>1
           DEF Fits, Shape, Claim, Opened, Restoring, Early, Checking, Told
<1> QED  BY <1>6, <1>7

LEMMA AskFits ==
    ASSUME Truth, NEW r \in Runs,
           Probe(r) \/ AllProbed(r) \/ Control(r) \/ ProveAccess(r) \/ NoVerdict(r)
    PROVE  Frame(r) /\ Fits(r)'
<1>1. Frame(r) /\ Edit(r)' = Edit(r) /\ Adds(r)' = Adds(r)
  <2>1. CASE AllProbed(r)
    BY <2>1, QuietFrame DEF Truth, TypeOK, AllProbed, Enter, Goto
  <2> QED  BY <2>1, QuietFrame DEF Truth, TypeOK, Probe, Control, ProveAccess, NoVerdict, GoAbort, Goto
<1>2. /\ Fits(r) /\ ~marker[r] /\ outcome[r] # "committed" /\ guard[r] = "up" /\ (~torn => r \notin onFile)
      /\ step[r] # "over"
  BY AtWork DEF Truth, Probe, AllProbed, Judging, Control, ProveAccess, NoVerdict
<1>3. UNCHANGED <<file, last, onFile, torn, orig, work, dirty, manifested, marker, guard, outcome>>
  BY DEF Probe, AllProbed, Control, ProveAccess, NoVerdict, Quiet, history
<1>4. CASE step'[r] = IF dirty[r] THEN "revert" ELSE "disarm"
  BY <1>1, <1>2, <1>3, <1>4
  DEF Fits, Shape, Claim, Opened, Restoring, Early, Checking, Told
<1>5. CASE step'[r] = step[r]
  BY <1>1, <1>2, <1>3, <1>5
  DEF Fits, Shape, Claim, Opened, Restoring, Early, Checking, Told
<1>6. CASE step[r] = "verifyAdded" /\ step'[r] = AfterAdd(r)
  <2>1. work[r] = orig[r] \cup Adds(r)
    BY <1>2, <1>6 DEF Fits, Shape
  <2>2. CASE work[r] \cap Removes(r) # {}
    <3>1. step'[r] = "removeCopy"
      BY <1>6, <2>2 DEF AfterAdd
    <3> QED  BY <1>1, <1>2, <1>3, <1>6, <2>1, <3>1
             DEF Fits, Shape, Claim, Opened, Restoring, Early, Checking, Told
  <2>3. CASE work[r] \cap Removes(r) = {}
    <3>1. step'[r] \in {"control", "prove"}
      BY <1>6, <2>3 DEF AfterAdd
    <3>2. work[r] = Edit(r)
      BY <2>1, <2>3 DEF Edit
    <3> QED  BY <1>1, <1>2, <1>3, <1>6, <3>1, <3>2
             DEF Fits, Shape, Claim, Opened, Restoring, Early, Checking, Told
  <2> QED  BY <2>2, <2>3
<1>7. CASE /\ step[r] \in {"control", "verifyRemoved", "prove"}
           /\ step'[r] \in {"verifyRemoved", "prove", "marker"}
  BY <1>1, <1>2, <1>3, <1>7
  DEF Fits, Shape, Claim, Opened, Restoring, Early, Checking, Told
<1>8. \/ step'[r] = IF dirty[r] THEN "revert" ELSE "disarm"
      \/ step'[r] = step[r]
      \/ step[r] = "verifyAdded" /\ step'[r] = AfterAdd(r)
      \/ /\ step[r] \in {"control", "verifyRemoved", "prove"}
         /\ step'[r] \in {"verifyRemoved", "prove", "marker"}
  <2>1. CASE AllProbed(r)
    BY <2>1 DEF Truth, TypeOK, AllProbed, Judging, Enter, Goto
  <2>2. CASE Probe(r) \/ Control(r) \/ ProveAccess(r) \/ NoVerdict(r)
    BY <2>2 DEF Truth, TypeOK, Probe, Control, ProveAccess, NoVerdict, GoAbort, Goto
  <2> QED  BY <2>1, <2>2
<1> QED  BY <1>4, <1>5, <1>6, <1>7, <1>8

LEMMA EndFits ==
    ASSUME Truth, NEW r \in Runs,
           Commit(r) \/ Revert(r) \/ RevertFails(r) \/ ReadBack(r) \/ Disarm(r) \/ Die(r)
    PROVE  Frame(r) /\ Fits(r)'
<1>1. Fits(r) /\ ~marker[r] /\ outcome[r] # "committed" /\ guard[r] = "up" /\ (~torn => r \notin onFile)
  BY AtWork DEF Truth, Commit, Revert, RevertFails, ReadBack, Disarm, Die
<1>2. Adds(r)' = Adds(r) /\ Removes(r)' = Removes(r) /\ Edit(r)' = Edit(r)
  BY DEF Adds, Removes, Edit, Commit, Revert, RevertFails, ReadBack, Disarm, Die
<1>3. UNCHANGED <<orig, work, dirty, manifested, torn>>
  BY DEF Commit, Revert, RevertFails, ReadBack, Disarm, Die, Writes, Quiet, history
<1>4. Frame(r)
  BY DEF Frame, Truth, TypeOK, Commit, Revert, RevertFails, ReadBack, Disarm, Die, Ends, Goto,
         Writes, Quiet, history
<1>5. CASE Commit(r)
  <2>1. /\ step[r] = "marker" /\ step'[r] = "over" /\ outcome'[r] = "committed"
        /\ guard'[r] = "cut" /\ marker'[r] /\ UNCHANGED <<file, last, onFile>>
    BY <1>5 DEF Truth, TypeOK, Commit, Ends, Goto, Quiet, history
  <2> QED  BY <1>1, <1>2, <1>3, <1>4, <2>1
           DEF Fits, Shape, Claim, Opened, Restoring, Early, Checking, Told
<1>6. CASE Revert(r)
  <2>1. /\ step[r] = "revert" /\ step'[r] = "readback" /\ file' = orig[r] /\ onFile' = {}
        /\ last' = r /\ UNCHANGED <<marker, guard, outcome>>
    BY <1>6 DEF Truth, TypeOK, Revert, Goto, Writes
  <2> QED  BY <1>1, <1>2, <1>3, <1>4, <2>1
           DEF Fits, Shape, Claim, Opened, Restoring, Early, Checking, Told
<1>7. CASE RevertFails(r) \/ Die(r)
  <2>1. /\ step'[r] = "over" /\ outcome'[r] # "committed" /\ guard'[r] = "cut"
        /\ UNCHANGED marker
    BY <1>7 DEF Truth, TypeOK, RevertFails, Die, Ends, Report, Goto
  <2>2. \/ UNCHANGED <<file, last, onFile>>
        \/ step[r] = "revert" /\ onFile' = {}
    BY <1>7 DEF RevertFails, Die, Quiet, history, Writes
  <2> QED  BY <1>1, <1>2, <1>3, <1>4, <2>1, <2>2
           DEF Fits, Shape, Claim, Opened, Restoring, Early, Checking, Told
<1>8. CASE ReadBack(r)
  <2>1. /\ step[r] = "readback" /\ UNCHANGED <<marker, file, last, onFile>>
        /\ \/ step'[r] = "disarm" /\ file = orig[r] /\ UNCHANGED <<outcome, guard>>
           \/ step'[r] = "over" /\ outcome'[r] # "committed" /\ guard'[r] = "cut"
    BY <1>8 DEF Truth, TypeOK, ReadBack, Ends, Goto, Quiet, history
  <2> QED  BY <1>1, <1>2, <1>3, <1>4, <2>1
           DEF Fits, Shape, Claim, Opened, Restoring, Early, Checking, Told
<1>9. CASE Disarm(r)
  <2>1. /\ step[r] = "disarm" /\ step'[r] = "over" /\ outcome'[r] = "aborted-reverted"
        /\ guard'[r] = "cut" /\ UNCHANGED <<file, last, onFile>>
    BY <1>9 DEF Truth, TypeOK, Disarm, Ends, Goto, Quiet, history
  <2> QED  BY <1>1, <1>2, <1>3, <1>4, <2>1
           DEF Fits, Shape, Claim, Opened, Restoring, Early, Checking, Told
<1> QED  BY <1>5, <1>6, <1>7, <1>8, <1>9

LEMMA TrapFits ==
    ASSUME Truth, NEW r \in Runs, Trap(r) PROVE Frame(r) /\ Fits(r)'
<1>1. Fits(r) /\ step[r] # "load"
  BY DEF Truth, Readers, Trap, TrapIdle, TrapTruncates, TrapWrites
<1>2. /\ UNCHANGED <<req, step, orig, work, todo, dirty, manifested, marker, outcome>>
      /\ torn => torn'
  BY DEF Trap, TrapIdle, TrapTruncates, TrapWrites, Quiet, history
<1>3. Adds(r)' = Adds(r) /\ Edit(r)' = Edit(r) /\ Told(r)' = Told(r)
  BY <1>2 DEF Adds, Removes, Edit, Told
<1>4. step[r] = "over"
  BY <1>1 DEF Truth, TypeOK, Trap, TrapIdle, TrapTruncates, TrapWrites
<1>5. CASE TrapIdle(r)
  <2>1. guard[r] = "cut" /\ guard'[r] = "off" /\ ~Restores(r) /\ UNCHANGED <<file, last, onFile, torn>>
    BY <1>5 DEF Truth, TypeOK, TrapIdle, Quiet, history
  <2>2. Frame(r)
    BY <1>2, <1>5, <2>1 DEF Frame, Truth, TypeOK, TrapIdle
  <2> QED  BY <1>1, <1>2, <1>3, <1>4, <2>1, <2>2
           DEF Restores, Fits, Shape, Claim, Opened, Restoring, Early, Checking
<1>6. CASE TrapTruncates(r)
  <2>1. /\ guard'[r] = "writing" /\ Restores(r) /\ file' = {} /\ last' = r
        /\ onFile' = onFile \cup {r} /\ (~torn' => onFile = {})
    BY <1>6 DEF Truth, TypeOK, TrapTruncates
  <2>2. Frame(r)
    BY <1>2, <1>6, <2>1 DEF Frame, Truth, TypeOK, TrapTruncates
  <2> QED  BY <1>1, <1>2, <1>3, <1>4, <2>1, <2>2
           DEF Restores, Fits, Shape, Claim, Opened, Restoring, Early, Checking
<1>7. CASE TrapWrites(r) /\ r \in onFile
  <2>1. guard[r] = "writing" /\ guard'[r] = "off" /\ torn' = torn /\ last' = r /\ onFile' = onFile \ {r}
    BY <1>7 DEF Truth, TypeOK, TrapWrites
  <2>2. ~torn => file = {} /\ last = r
    BY <1>1, <1>7, <2>1 DEF Fits, Claim, Opened
  <2>3. ~torn => file' = orig[r]
    BY <1>7, <2>2 DEF TrapWrites
  <2>4. ~torn => onFile \subseteq {r}
    BY <2>2 DEF Truth, TypeOK, Fits, Opened
  <2>5. Frame(r)
    BY <1>2, <1>7, <2>1, <2>4 DEF Frame, Truth, TypeOK, TrapWrites
  <2>6. Told(r) = orig[r] /\ manifested[r]
    BY <1>1, <2>1 DEF Told, Fits, Shape, Restoring
  <2> QED  BY <1>1, <1>2, <1>3, <1>4, <2>1, <2>3, <2>5, <2>6
           DEF Fits, Shape, Claim, Opened, Restoring, Early, Checking
<1>8. CASE TrapWrites(r) /\ r \notin onFile
  <2>1. guard[r] = "writing" /\ guard'[r] = "off" /\ UNCHANGED <<file, last, onFile, torn>>
    BY <1>8 DEF Truth, TypeOK, TrapWrites, Quiet, history
  <2>2. Frame(r)
    BY <1>2, <1>8, <2>1 DEF Frame, Truth, TypeOK, TrapWrites
  <2>3. ~torn => last # r
    BY <1>1, <1>8, <2>1 DEF Fits, Claim
  <2> QED  BY <1>1, <1>2, <1>4, <1>3, <1>8, <2>1, <2>2, <2>3
           DEF Fits, Shape, Claim, Opened, Restoring, Early, Checking
<1> QED  BY <1>5, <1>6, <1>7, <1>8 DEF Trap

LEMMA TruthStep == Truth /\ [Next]_vars => Truth'
<1> SUFFICES ASSUME Truth, [Next]_vars PROVE Truth'
  OBVIOUS
<1>1. TypeOK' /\ Readers'
  BY TypeStep, ReadersStep DEF Truth
<1>2. CASE UNCHANGED vars
  <2>1. ASSUME NEW r \in Runs PROVE Fits(r)'
    BY <1>2 DEF vars, runVars, history, Truth, Fits, Shape, Claim, Opened, Restoring, Told, Edit,
                Adds, Removes
  <2> QED  BY <1>1, <2>1 DEF Truth
<1> QED  BY <1>1, <1>2, Moves, LoadFits, CopyFits, SwapFits, AskFits, EndFits, TrapFits, OneFits

\* The run that wrote the file last, when it is over and its trap gone, finds
\* there exactly what it has reported, however many others were at work: its
\* whole edit of what it had loaded if it committed, and what it had loaded if
\* not, by its own revert or its trap's (tx.Run, tx.abort, guardScript).
THEOREM LastWriterIsToldTheTruth == Spec => []LastWriterTrue
<1>1. Truth => LastWriterTrue
  BY DEF Truth, Fits, Claim, Told, Edit, LastWriterTrue, Gone
<1> QED  BY <1>1, TruthInit, TruthStep, PTL DEF Spec
=============================================================================
