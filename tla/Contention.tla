----------------------------- MODULE Contention -----------------------------
(***************************************************************************)
(* Several runs of the client that change the same file at the same time:  *)
(* two operators, or one who starts again before the trap of the run that  *)
(* died has fired.  Nothing in the code locks the file or compares it with *)
(* what was loaded; each run has its own working copy, its own backup and  *)
(* its own trap.                                                           *)
(*                                                                         *)
(* Transaction follows one run command by command.  Here a run is what the *)
(* others can see of it: when it reads the file, when it writes it, when   *)
(* it asks sshd.  A content is the set of its keys; a file that is missing *)
(* holds none.  sshd accepts a key if it is in the file when it is asked.  *)
(*                                                                         *)
(* The ways in which a run goes wrong on its own are the subject of        *)
(* Transaction and are left out: a second swap that is refused, a commit   *)
(* marker that lands unheard, a swap that lands after its command.         *)
(***************************************************************************)
EXTENDS Naturals, FiniteSets

CONSTANTS
    Keys,
    Runs,           \* the runs, all as a guard user who may write the file
    Requests,       \* what they may ask for: records of the keys to add and remove
    InitialFiles,   \* what the file may hold beforehand
    Faults          \* what may go wrong: probe, swap, revert, crash

Request == [add : SUBSET Keys, remove : SUBSET Keys]

\* validate and rejectSelfCancellingOps.
ASSUME RequestsAssumption ==
    /\ Requests \subseteq Request
    /\ \A q \in Requests : q.add \cup q.remove # {} /\ q.add \cap q.remove = {}

\* 0 stands for no run.
ASSUME RunsAssumption == 0 \notin Runs

ASSUME FilesAssumption == InitialFiles \subseteq (SUBSET Keys) \ {{}}

ASSUME FaultsAssumption == Faults \subseteq {"probe", "swap", "revert", "crash"}

VARIABLES
    file,       \* the keys in the file
    req,        \* the request of each run
    step,       \* where it is
    orig, work, \* userFile.orig and userFile.work
    todo,       \* keys it has still to probe in this phase
    dirty,      \* userFile.dirty
    manifested, \* the manifest has the file, and the backup is there
    marker,     \* $TX/commit
    guard,      \* off, up, cut (its trap has yet to run) or writing
    outcome,    \* Result.Outcome; none while running, crashed
    onFile,     \* traps at work that have the file open: a swap puts another
                \* file in its place
    initial,    \* history: the file before all the runs
    last,       \* history: the run that wrote the file last, 0 if none has
    torn        \* history: a run has loaded the file, or another trap has
                \* opened it, while a trap wrote it

runVars == <<req, step, orig, work, todo, dirty, manifested, marker, guard, outcome>>

history == <<initial, last, torn>>

vars == <<file, runVars, onFile, history>>

Steps == {"load", "addCopy", "addSwap", "verifyAdded", "removeCopy", "removeSwap",
          "control", "verifyRemoved", "prove", "marker", "revert", "readback",
          "disarm", "over"}

TypeOK ==
    /\ file \in SUBSET Keys
    /\ req \in [Runs -> Requests]
    /\ step \in [Runs -> Steps]
    /\ orig \in [Runs -> SUBSET Keys]
    /\ work \in [Runs -> SUBSET Keys]
    /\ todo \in [Runs -> SUBSET Keys]
    /\ dirty \in [Runs -> BOOLEAN]
    /\ manifested \in [Runs -> BOOLEAN]
    /\ marker \in [Runs -> BOOLEAN]
    /\ guard \in [Runs -> {"off", "up", "cut", "writing"}]
    /\ outcome \in [Runs -> {"none", "committed", "aborted-reverted", "revert-unverified", "crashed"}]
    /\ onFile \in SUBSET Runs
    /\ initial \in SUBSET Keys
    /\ last \in Runs \cup {0}
    /\ torn \in BOOLEAN
    /\ \A r \in Runs : guard[r] = "up" <=> step[r] \notin {"load", "over"}

Init ==
    /\ file \in InitialFiles
    /\ req \in [Runs -> Requests]
    /\ step = [r \in Runs |-> "load"]
    /\ orig = [r \in Runs |-> {}]
    /\ work = [r \in Runs |-> {}]
    /\ todo = [r \in Runs |-> {}]
    /\ dirty = [r \in Runs |-> FALSE]
    /\ manifested = [r \in Runs |-> FALSE]
    /\ marker = [r \in Runs |-> FALSE]
    /\ guard = [r \in Runs |-> "off"]
    /\ outcome = [r \in Runs |-> "none"]
    /\ onFile = {} /\ initial = file /\ last = 0 /\ torn = FALSE

----------------------------------------------------------------------------
(* The order of the phases of one run.                                     *)

Adds(r) == req[r].add

Removes(r) == req[r].remove

Goto(r, s) == step' = [step EXCEPT ![r] = s]

\* SwapFile: a new file in the place of the old one.
Writes(r, c) == file' = c /\ last' = r /\ onFile' = {} /\ UNCHANGED <<initial, torn>>

Quiet == UNCHANGED <<file, onFile, history>>

\* phaseRemove leaves a file alone that has none of the keys; without a
\* removal the phase and its verification are skipped.
AfterAdd(r) ==
    IF work[r] \cap Removes(r) # {} THEN "removeCopy"
    ELSE IF Removes(r) # {} THEN "control"
    ELSE "prove"

\* Every removed key is to be probed, also one that was not there.
Enter(r, s) ==
    /\ Goto(r, s)
    /\ todo' = [todo EXCEPT ![r] = CASE s = "verifyAdded" -> Adds(r)
                                     [] s = "control" -> Removes(r)
                                     [] OTHER -> {}]

\* return t.abort(err): a file without an issued swap is not reverted.
GoAbort(r, d) == Goto(r, IF d THEN "revert" ELSE "disarm")

Ends(r, o) ==
    /\ Goto(r, "over")
    /\ outcome' = [outcome EXCEPT ![r] = o]
    /\ guard' = [guard EXCEPT ![r] = "cut"]

----------------------------------------------------------------------------
(* The steps of a run.                                                     *)

\* What a run sets out with, given what it has read.
Loads(r) ==
    /\ step[r] = "load"
    /\ orig' = [orig EXCEPT ![r] = file]
    /\ work' = [work EXCEPT ![r] = file]
    /\ torn' = (torn \/ onFile # {})
    /\ step' = [step EXCEPT ![r] =
            IF Adds(r) # {} THEN "addCopy"
            ELSE IF file \cap Removes(r) # {} THEN "removeCopy"
            ELSE "control"]
    /\ todo' = [todo EXCEPT ![r] = IF Adds(r) = {} THEN Removes(r) ELSE {}]
    /\ UNCHANGED <<file, req, dirty, manifested, marker, outcome, onFile, initial, last>>

\* A connect that goes on without its guard.
LoadUnguarded(r) == Loads(r) /\ UNCHANGED guard

\* connect, which arms the trap, and loadFiles.
Load(r) == Loads(r) /\ guard' = [guard EXCEPT ![r] = "up"]

\* ensureCAS: backup and manifest are of what was loaded.  A run that does not
\* change the file has copied it all the same when it is to add keys.
Copy(r) ==
    /\ step[r] \in {"addCopy", "removeCopy"}
    /\ manifested' = [manifested EXCEPT ![r] = TRUE]
    /\ Enter(r, CASE step[r] = "removeCopy" -> "removeSwap"
                  [] step[r] = "addCopy" /\ Adds(r) \subseteq work[r] -> "verifyAdded"
                  [] OTHER -> "addSwap")
    /\ Quiet
    /\ UNCHANGED <<req, orig, work, dirty, marker, guard, outcome>>

\* A working copy that starts empty.
EditedAnew(r) == IF step[r] = "addSwap" THEN Adds(r) ELSE work[r] \ Removes(r)

Edited(r) == IF step[r] = "addSwap" THEN work[r] \cup Adds(r) ELSE work[r] \ Removes(r)

\* The manifest has its line, and the answer to the command is lost.
CopyUnconfirmed(r) ==
    /\ "swap" \in Faults
    /\ step[r] \in {"addCopy", "removeCopy"}
    /\ manifested' = [manifested EXCEPT ![r] = TRUE]
    /\ GoAbort(r, dirty[r])
    /\ Quiet
    /\ UNCHANGED <<req, orig, work, todo, dirty, marker, guard, outcome>>

\* The swap replaces the file by the working copy, whatever it holds by now.
Swap(r) ==
    /\ step[r] \in {"addSwap", "removeSwap"}
    /\ Writes(r, Edited(r))
    /\ work' = [work EXCEPT ![r] = Edited(r)]
    /\ dirty' = [dirty EXCEPT ![r] = TRUE]
    /\ Enter(r, IF step[r] = "addSwap" THEN "verifyAdded" ELSE "control")
    /\ UNCHANGED <<req, orig, manifested, marker, guard, outcome>>

\* The answer to a swap that landed, or did not, is lost.
SwapUnconfirmed(r) ==
    /\ "swap" \in Faults
    /\ step[r] \in {"addSwap", "removeSwap"}
    /\ Writes(r, Edited(r)) \/ Quiet
    /\ dirty' = [dirty EXCEPT ![r] = TRUE]
    /\ GoAbort(r, TRUE)
    /\ UNCHANGED <<req, orig, work, todo, manifested, marker, guard, outcome>>

Judging(r) == step[r] \in {"verifyAdded", "verifyRemoved"}

\* A probe of a key: accepted in verifyAdded, refused in verifyRemoved.
Expected(r, k) == (k \in file) <=> (step[r] = "verifyAdded")

Probe(r) ==
    /\ Judging(r)
    /\ \E k \in todo[r] :
        /\ todo' = [todo EXCEPT ![r] = @ \ {k}]
        /\ IF Expected(r, k) THEN UNCHANGED step ELSE GoAbort(r, dirty[r])
    /\ Quiet
    /\ UNCHANGED <<req, orig, work, dirty, manifested, marker, guard, outcome>>

AllProbed(r) ==
    /\ Judging(r) /\ todo[r] = {}
    /\ Enter(r, IF step[r] = "verifyAdded" THEN AfterAdd(r) ELSE "prove")
    /\ Quiet
    /\ UNCHANGED <<req, orig, work, dirty, manifested, marker, guard, outcome>>

SomeAccepted(r) == work[r] \cap file # {}

\* The positive control of phaseVerifyRemoved: none when no key is left.
Control(r) ==
    /\ step[r] = "control"
    /\ IF work[r] = {} \/ SomeAccepted(r) THEN Goto(r, "verifyRemoved") ELSE GoAbort(r, dirty[r])
    /\ Quiet
    /\ UNCHANGED <<req, orig, work, todo, dirty, manifested, marker, guard, outcome>>

\* proveAccess: of a file that no swap was issued for, nothing.
ProveAccess(r) ==
    /\ step[r] = "prove"
    /\ IF dirty[r] => SomeAccepted(r) THEN Goto(r, "marker") ELSE GoAbort(r, dirty[r])
    /\ Quiet
    /\ UNCHANGED <<req, orig, work, todo, dirty, manifested, marker, guard, outcome>>

\* A commit that forgets the marker.
CommitUnmarked(r) ==
    /\ step[r] = "marker"
    /\ Ends(r, "committed")
    /\ Quiet
    /\ UNCHANGED <<req, orig, work, todo, dirty, manifested, marker>>

Commit(r) ==
    /\ step[r] = "marker"
    /\ marker' = [marker EXCEPT ![r] = TRUE]
    /\ Ends(r, "committed")
    /\ Quiet
    /\ UNCHANGED <<req, orig, work, todo, dirty, manifested>>

\* A probe has no verdict, or the health check before a phase fails.
NoVerdict(r) ==
    /\ "probe" \in Faults
    /\ step[r] \in {"addCopy", "verifyAdded", "removeCopy", "control", "verifyRemoved", "prove", "marker"}
    /\ GoAbort(r, dirty[r])
    /\ Quiet
    /\ UNCHANGED <<req, orig, work, todo, dirty, manifested, marker, guard, outcome>>

\* A revert that undoes the run's own edit in what the file holds by now.
RevertEdit(r) ==
    /\ step[r] = "revert"
    /\ Writes(r, (file \ (Adds(r) \ orig[r])) \cup (orig[r] \cap Removes(r)))
    /\ Goto(r, "readback")
    /\ UNCHANGED <<req, orig, work, todo, dirty, manifested, marker, guard, outcome>>

\* abort: the file gets the content that was loaded.
Revert(r) ==
    /\ step[r] = "revert"
    /\ Writes(r, orig[r])
    /\ Goto(r, "readback")
    /\ UNCHANGED <<req, orig, work, todo, dirty, manifested, marker, guard, outcome>>

\* The revert fails, whether or not it landed: the connection is closed.
RevertFails(r) ==
    /\ "revert" \in Faults
    /\ step[r] = "revert"
    /\ Writes(r, orig[r]) \/ Quiet
    /\ Ends(r, "revert-unverified")
    /\ UNCHANGED <<req, orig, work, todo, dirty, manifested, marker>>

\* Somebody else's write is a mismatch, and leaves the file to the trap.
ReadBack(r) ==
    /\ step[r] = "readback"
    /\ IF file = orig[r]
       THEN Goto(r, "disarm") /\ UNCHANGED <<outcome, guard>>
       ELSE Ends(r, "revert-unverified")
    /\ Quiet
    /\ UNCHANGED <<req, orig, work, todo, dirty, manifested, marker>>

\* The marker of an abort may fail to be written: "guard will re-restore on
\* close; harmless (idempotent restore)".
Disarm(r) ==
    /\ step[r] = "disarm"
    /\ \/ marker' = [marker EXCEPT ![r] = TRUE]
       \/ "revert" \in Faults /\ UNCHANGED marker
    /\ Ends(r, "aborted-reverted")
    /\ Quiet
    /\ UNCHANGED <<req, orig, work, todo, dirty, manifested>>

Advance(r) ==
    \/ Load(r) \/ Copy(r) \/ Swap(r) \/ Probe(r) \/ AllProbed(r) \/ Control(r)
    \/ ProveAccess(r) \/ Commit(r) \/ Revert(r) \/ ReadBack(r) \/ Disarm(r)

\* What is reported of a run whose connection is gone: a revert that cannot be
\* made or read back, or one that had been, or had nothing to undo.
Report(r) == IF dirty[r] /\ step[r] # "disarm" THEN "revert-unverified" ELSE "aborted-reverted"

\* The process or the connection of a run dies; with the connection alone
\* every further command fails.
Die(r) ==
    /\ "crash" \in Faults
    /\ step[r] \notin {"load", "over"}
    /\ \E o \in {"crashed", Report(r)} : Ends(r, o)
    /\ Quiet
    /\ UNCHANGED <<req, orig, work, todo, dirty, manifested, marker>>

----------------------------------------------------------------------------
(* The trap of a run, when sshd reaps its session.                         *)

Restores(r) == manifested[r] /\ ~marker[r]

TrapIdle(r) ==
    /\ guard[r] = "cut" /\ ~Restores(r)
    /\ guard' = [guard EXCEPT ![r] = "off"]
    /\ Quiet
    /\ UNCHANGED <<req, step, orig, work, todo, dirty, manifested, marker, outcome>>

\* cat backup > target: the shell opens the file and empties it first.
TrapTruncates(r) ==
    /\ guard[r] = "cut" /\ Restores(r)
    /\ guard' = [guard EXCEPT ![r] = "writing"]
    /\ file' = {} /\ last' = r
    /\ onFile' = onFile \cup {r}
    /\ torn' = (torn \/ onFile # {})
    /\ UNCHANGED <<req, step, orig, work, todo, dirty, manifested, marker, outcome, initial>>

\* cat writes from the beginning of the file that the shell has opened.  After
\* a swap that file has no name any more; what another trap has put there in
\* the meantime may show behind the end of a shorter backup.
TrapWrites(r) ==
    /\ guard[r] = "writing"
    /\ guard' = [guard EXCEPT ![r] = "off"]
    /\ IF r \in onFile
       THEN /\ \E rest \in SUBSET file : file' = orig[r] \cup rest
            /\ last' = r /\ onFile' = onFile \ {r}
            /\ UNCHANGED <<initial, torn>>
       ELSE Quiet
    /\ UNCHANGED <<req, step, orig, work, todo, dirty, manifested, marker, outcome>>

Trap(r) == TrapIdle(r) \/ TrapTruncates(r) \/ TrapWrites(r)

Mishap(r) == CopyUnconfirmed(r) \/ SwapUnconfirmed(r) \/ NoVerdict(r) \/ RevertFails(r) \/ Die(r)

Gone(r) == step[r] = "over" /\ guard[r] = "off"

AllGone == (\A r \in Runs : Gone(r)) /\ UNCHANGED vars

Next == (\E r \in Runs : Advance(r) \/ Mishap(r) \/ Trap(r)) \/ AllGone

Spec == Init /\ [][Next]_vars

----------------------------------------------------------------------------
\* Whoever wrote the file last has had it all his way: once his run is over and
\* its trap gone, the file is exactly what the run reported (his whole edit of
\* what he had loaded if it committed, what he had loaded otherwise), never a
\* mixture with another run's (remote.SwapFile, tx.abort, the guard script).
LastWriterTrue ==
    \A r \in Runs : Gone(r) /\ last = r /\ ~torn =>
        file = IF outcome[r] = "committed" THEN (orig[r] \cup Adds(r)) \ Removes(r) ELSE orig[r]

\* A key that was in the file and that no run is asked to remove is never lost,
\* however the runs, their reverts and their traps overlap, except while a trap
\* writes, and after another has gone by what the file was then.
StandingKeysStay ==
    ~torn /\ onFile = {} =>
        \A k \in initial : (\A r \in Runs : k \notin Removes(r)) => k \in file

\* When all is over, somebody can still get in (README.md: "lockout-safe").
NoLockout == (\A r \in Runs : Gone(r)) => file # {}

\* What a run has committed stays, unless another was asked for the opposite
\* (README.md: "Every run is one transaction").
EditsSurvive ==
    (\A r \in Runs : Gone(r)) =>
        \A r \in Runs : outcome[r] = "committed" =>
            /\ \A k \in Adds(r) : k \in file \/ \E q \in Runs : k \in Removes(q)
            /\ \A k \in Removes(r) : k \notin file \/ \E q \in Runs : k \in Adds(q)
=============================================================================
