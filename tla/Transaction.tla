---------------------------- MODULE Transaction ----------------------------
(***************************************************************************)
(* One run of the client (tx.Run in tx.go) against one host: connect, load *)
(* the files, add, verify the additions, remove, verify the removals,      *)
(* prove access and commit; any failure funnels into abort, which reverts  *)
(* and reads back every file a swap was issued for.                        *)
(*                                                                         *)
(* A remote command is one step of the client with several outcomes:       *)
(*   Answered  it ran and its success was reported;                        *)
(*   Refused   it exited with a non-zero status and changed nothing;       *)
(*   Lost      it changed nothing and the client knows nothing of it;      *)
(*   Landed    it took effect and the client knows nothing of it.          *)
(* On a dead connection every command is Lost.  Refusable and Losable name *)
(* the commands that a run lets fail on a live one.                        *)
(***************************************************************************)
EXTENDS Guard

CONSTANTS
    Requests,       \* the requests an operator may make (Config.Ops, DryRun)
    InitialFiles,   \* what the host's files may hold beforehand
    Elsewhere,      \* <<user, key>>: accepted whatever the user's file holds
    ProbeAttempts,  \* probeAttempts
    Refusable,      \* commands that may exit with a non-zero status
    Losable         \* commands whose answer may be lost

Commands == {"health", "load", "local", "backup", "manifest", "snapshot",
             "swap", "revert", "readback", "marker", "disarm", "rm"}

\* add and remove are the keys of the --add and --remove operations of each
\* user; fingerprint holds the removals given by fingerprint only.
Request == [add : [Users -> SUBSET Keys], remove : [Users -> SUBSET Keys],
            fingerprint : [Users -> SUBSET Keys], dryRun : BOOLEAN]

ASSUME RequestsAssumption == Requests \subseteq Request

ASSUME FilesAssumption == InitialFiles \subseteq [Paths -> Contents]

ASSUME ElsewhereAssumption == Elsewhere \subseteq Users \X Keys

ASSUME AttemptsAssumption == ProbeAttempts \in Nat \ {0}

ASSUME CommandsAssumption == Refusable \subseteq Commands /\ Losable \subseteq Commands

VARIABLES
    req,            \* the request
    phase, step,    \* where the client is
    cur,            \* the user its loop is at; NumUsers + 1 when it is over
    todo,           \* <<user, key>> pairs it has still to probe
    tries,          \* probes of the first of them without a verdict so far
    orig, work,     \* userFile.orig and the keys of userFile.work
    dirty,          \* users whose userFile.dirty is set
    manifested,     \* users whose userFile.manifested is set
    local,          \* users whose original content is saved locally
    revertFailed,   \* abort's revertFailed
    exitSeen,       \* guard.exited: sess.Wait has returned
    outcome,        \* Result.Outcome; none while running, or crashed
    denied,         \* users that sshd refuses whatever their file holds
    late,           \* swaps given up by the client that may still land
    before,         \* history: the files before the transaction
    proven,         \* history: pairs a probe has seen accepted
    witnessed       \* history: users of whom a probe has seen a key of the
                    \* working copy accepted since their file was last
                    \* written, by the client or by the trap

pcVars == <<phase, step, cur, todo, tries>>

txVars == <<orig, work, dirty, manifested, local, revertFailed>>

envVars == <<denied, late>>

historyVars == <<before, proven, witnessed>>

vars == <<guardVars, req, pcVars, txVars, exitSeen, outcome, envVars, historyVars>>

Phases == {"setup", "add", "verifyAdd", "remove", "verifyRemove", "cleanup",
           "abort", "release", "dryRun"}

Steps == {"validate", "connect", "load", "health", "local", "backup", "manifest",
          "snapshot", "swap", "probe", "control", "prove", "marker", "revert",
          "readback", "close", "wait", "rm"}

Outcomes == {"committed", "dry-run", "aborted-reverted", "revert-unverified",
             "failed-before-write"}

TypeOK ==
    /\ GuardTypeOK
    /\ req \in Request
    /\ phase \in Phases
    /\ step \in Steps
    /\ cur \in 0..(NumUsers + 1)
    /\ todo \in SUBSET (Users \X Keys)
    /\ tries \in Nat
    /\ orig \in [Users -> Contents]
    /\ work \in [Users -> SUBSET Keys]
    /\ dirty \in SUBSET Users
    /\ manifested \in SUBSET Users
    /\ local \in SUBSET Users
    /\ revertFailed \in BOOLEAN
    /\ exitSeen \in BOOLEAN
    /\ outcome \in Outcomes \cup {"none", "crashed"}
    /\ denied \in SUBSET Users
    /\ late \in SUBSET [path : Paths, content : Contents]
    /\ before \in [Paths -> Contents]
    /\ proven \in SUBSET (Users \X Keys)
    /\ witnessed \in SUBSET Users

Init ==
    /\ GuardInit
    /\ file \in InitialFiles
    /\ req \in Requests
    /\ phase = "setup" /\ step = "validate" /\ cur = 0 /\ todo = {} /\ tries = 0
    /\ orig = [u \in Users |-> Absent]
    /\ work = [u \in Users |-> {}]
    /\ dirty = {} /\ manifested = {} /\ local = {}
    /\ revertFailed = FALSE
    /\ exitSeen = FALSE
    /\ outcome = "none"
    /\ denied = {} /\ late = {}
    /\ before = file /\ proven = {} /\ witnessed = {}

----------------------------------------------------------------------------
(* The outcomes of a command.                                              *)

Running == outcome = "none"

At(p, s) == Running /\ phase = p /\ step = s

Answered == conn = "up"

Refused(c) == conn = "up" /\ c \in Refusable

Lost(c) == conn = "down" \/ c \in Losable

Failed(c) == Refused(c) \/ Lost(c)

Landed(c) == conn = "up" /\ c \in Losable

\* What SwapFile sends can arrive in part.
Torn == conn = "up" /\ "torn" \in Faults

Arrivals(c) == {c} \cup {part \in SUBSET KeysIn(c) : "torn" \in Faults /\ c # Absent}

----------------------------------------------------------------------------
(* The request, and the loops over users in sorted order.                  *)

Adders == {u \in Users : req.add[u] # {}}

HasRemovals == \E u \in Users : req.remove[u] # {}

Named == {u \in Users : req.add[u] \cup req.remove[u] # {}}

AddPairs == {p \in Users \X Keys : p[2] \in req.add[p[1]]}

\* A removal is probed when its key is known: it was given in full, or its
\* fingerprint matched a line of the file (enrichRemovalKeys).
RejectPairs == {p \in Users \X Keys :
    /\ p[2] \in req.remove[p[1]]
    /\ p[2] \notin req.fingerprint[p[1]] \/ p[2] \in KeysIn(orig[p[1]])}

\* rejectSelfCancellingOps, and the refusal of an empty request.
Valid == Named # {} /\ \A u \in Users : req.add[u] \cap req.remove[u] = {}

\* The first user after u in S, or NumUsers + 1.
After(u, S) ==
    IF \E v \in S : v > u
    THEN CHOOSE v \in S : v > u /\ \A w \in S : w > u => v <= w
    ELSE NumUsers + 1

\* The phases in the order of the request: what is taken away goes first.
FollowingRemoveFirst(p) ==
    CASE p = "load" -> IF HasRemovals THEN "remove" ELSE "add"
      [] p = "remove" -> "verifyRemove"
      [] p = "verifyRemove" -> IF Adders # {} THEN "add" ELSE "cleanup"
      [] p = "add" -> "verifyAdd"
      [] OTHER -> "cleanup"

\* The phase that follows p; a phase without operations is skipped.
Following(p) ==
    CASE p = "load" -> IF Adders # {} THEN "add" ELSE "remove"
      [] p = "add" -> "verifyAdd"
      [] p = "verifyAdd" -> IF HasRemovals THEN "remove" ELSE "cleanup"
      [] p = "remove" -> "verifyRemove"
      [] OTHER -> "cleanup"

Enter(p) == phase' = p /\ step' = "health" /\ cur' = 0 /\ todo' = {} /\ tries' = 0

Goto(s) == step' = s /\ UNCHANGED <<phase, cur, todo, tries>>

\* return t.abort(err), with the files d dirty.
GoAbort(d) ==
    phase' = "abort" /\ step' = "revert" /\ cur' = After(0, d) /\ todo' = {} /\ tries' = 0

Finish(o) == outcome' = o /\ conn' = "down"

----------------------------------------------------------------------------
(* Setup: validate, connect, loadFiles.                                    *)

\* A request that is refused, or a local directory that cannot be made.
Validate ==
    /\ At("setup", "validate")
    /\ \/ Valid /\ Goto("connect") /\ UNCHANGED <<outcome, conn>>
       \/ /\ ~Valid \/ "local" \in Refusable
          /\ Finish("failed-before-write") /\ UNCHANGED pcVars
    /\ UNCHANGED <<hostVars, stdin, req, txVars, exitSeen, envVars, historyVars>>

Connect ==
    /\ At("setup", "connect")
    /\ guard' = "armed"
    /\ conn' = "up"
    /\ Goto("load")
    /\ UNCHANGED <<file, backup, manifest, commit, restored, queue, stdin, req,
                   txVars, exitSeen, outcome, envVars, historyVars>>

\* Any failure of connect, before or after the trap is armed; its deferred
\* function closes the connection.
ConnectFails ==
    /\ At("setup", "connect")
    /\ guard' \in {"off", "armed"}
    /\ Finish("failed-before-write")
    /\ UNCHANGED <<file, backup, manifest, commit, restored, queue, stdin, req,
                   pcVars, txVars, exitSeen, envVars, historyVars>>

Load ==
    /\ At("setup", "load")
    /\ Answered
    /\ orig' = [u \in Users |-> IF u \in Named THEN file[PathOf[u]] ELSE Absent]
    /\ work' = [u \in Users |-> KeysIn(orig'[u])]
    /\ IF req.dryRun
       THEN phase' = "dryRun" /\ step' = "close" /\ UNCHANGED <<cur, todo, tries>>
       ELSE Enter(Following("load"))
    /\ UNCHANGED <<guardVars, req, dirty, manifested, local, revertFailed,
                   exitSeen, outcome, envVars, historyVars>>

LoadFails ==
    /\ At("setup", "load")
    /\ Failed("load")
    /\ phase' = "release" /\ step' = "close" /\ UNCHANGED <<cur, todo, tries>>
    /\ UNCHANGED <<guardVars, req, txVars, exitSeen, outcome, envVars, historyVars>>

----------------------------------------------------------------------------
(* ensureCAS and swap, in the loops of phaseAdd and phaseRemove.           *)

Writing == Running /\ phase \in {"add", "remove"} /\ cur \in Users

\* The working copy after this phase's operations of user u.
Edited(u) == IF phase = "add" THEN work[u] \cup req.add[u] ELSE work[u] \ req.remove[u]

\* phaseAdd copies every file it has operations for, phaseRemove only those
\* that an operation changes.
PhaseUsers == IF phase = "add" THEN Adders ELSE {u \in Users : Edited(u) # work[u]}

ToCopy(u) ==
    LET v == After(u, PhaseUsers)
    IN  IF v \in Users
        THEN /\ cur' = v
             /\ step' = IF v \in manifested THEN "snapshot" ELSE "local"
             /\ UNCHANGED <<phase, todo, tries>>
        ELSE Enter(Following(phase))

ToSwap == IF Edited(cur) # work[cur] THEN Goto("swap") ELSE ToCopy(cur)

SaveLocal ==
    /\ Writing /\ step = "local"
    /\ \/ /\ local' = local \cup {cur}
          /\ Goto(IF orig[cur] = Absent THEN "manifest" ELSE "backup")
       \/ /\ "local" \in Refusable
          /\ GoAbort(dirty)
          /\ UNCHANGED local
    /\ UNCHANGED <<guardVars, req, orig, work, dirty, manifested, revertFailed,
                   exitSeen, outcome, envVars, historyVars>>

SaveBackup ==
    /\ Writing /\ step = "backup"
    /\ \/ /\ Answered
          /\ backup' = [backup EXCEPT ![cur] = orig[cur]]
          /\ Goto("manifest")
       \/ /\ Landed("backup")
          /\ backup' = [backup EXCEPT ![cur] = orig[cur]]
          /\ GoAbort(dirty)
       \/ /\ Failed("backup")
          /\ GoAbort(dirty)
          /\ UNCHANGED backup
    /\ UNCHANGED <<file, manifest, commit, restored, guard, queue, stdin, conn,
                   req, txVars, exitSeen, outcome, envVars, historyVars>>

\* A line for the path instead of the user, and one that takes every file to
\* have existed.
EntryOfPath(u) == [typ |-> IF orig[u] = Absent THEN "A" ELSE "F", user |-> PathOf[u]]

EntryOfCopy(u) == [typ |-> "F", user |-> u]

\* The manifest line that undoes the transaction for u's file.
EntryOf(u) == [typ |-> IF orig[u] = Absent THEN "A" ELSE "F", user |-> u]

\* A restoring trap holds the manifest open and reads what is appended.
AddEntry(u) ==
    /\ manifest' = Append(manifest, EntryOf(u))
    /\ queue' = IF guard = "restoring" THEN Append(queue, EntryOf(u)) ELSE queue

AppendManifest ==
    /\ Writing /\ step = "manifest"
    /\ \/ /\ Answered
          /\ AddEntry(cur)
          /\ manifested' = manifested \cup {cur}
          /\ ToSwap
       \/ /\ Landed("manifest")
          /\ AddEntry(cur)
          /\ GoAbort(dirty)
          /\ UNCHANGED manifested
       \/ /\ Failed("manifest")
          /\ GoAbort(dirty)
          /\ UNCHANGED <<manifest, queue, manifested>>
    /\ UNCHANGED <<file, backup, commit, restored, guard, stdin, conn, req,
                   orig, work, dirty, local, revertFailed, exitSeen, outcome,
                   envVars, historyVars>>

\* A later phase that saves its copy under the name of the backup.
SnapshotOverBackup ==
    /\ Writing /\ step = "snapshot"
    /\ Answered
    /\ backup' = [backup EXCEPT ![cur] = file[PathOf[cur]]]
    /\ ToSwap
    /\ UNCHANGED <<file, manifest, commit, restored, guard, queue, stdin, conn,
                   req, txVars, exitSeen, outcome, envVars, historyVars>>

\* A later phase only takes a forensic copy of the present content.
Snapshot ==
    /\ Writing /\ step = "snapshot"
    /\ \/ Answered /\ ToSwap
       \/ Failed("snapshot") /\ GoAbort(dirty)
    /\ UNCHANGED <<guardVars, req, txVars, exitSeen, outcome, envVars, historyVars>>

\* What every outcome of swap has in common.
Swapping ==
    /\ Writing /\ step = "swap"
    /\ work' = [work EXCEPT ![cur] = Edited(cur)]
    /\ UNCHANGED <<backup, manifest, commit, restored, guard, queue, stdin, req,
                   orig, manifested, local, revertFailed, exitSeen, outcome,
                   denied, before, proven>>

SwapIn(c) ==
    /\ file' = [file EXCEPT ![PathOf[cur]] = c]
    /\ witnessed' = {u \in witnessed : PathOf[u] # PathOf[cur]}

MarkDirty == dirty' = dirty \cup {cur}

\* A clean non-zero exit clears uf.dirty.
ClearDirty == dirty' = dirty \ {cur}

SwapAnswered ==
    /\ Swapping /\ Answered
    /\ SwapIn(work'[cur]) /\ MarkDirty
    /\ ToCopy(cur)
    /\ UNCHANGED <<conn, late>>

SwapRefused ==
    /\ Swapping /\ Refused("swap")
    /\ ClearDirty
    /\ GoAbort(dirty')
    /\ UNCHANGED <<file, witnessed, conn, late>>

SwapLost ==
    /\ Swapping /\ Lost("swap")
    /\ MarkDirty
    /\ GoAbort(dirty')
    /\ UNCHANGED <<file, witnessed, conn, late>>

SwapLanded ==
    /\ Swapping /\ Landed("swap")
    /\ SwapIn(work'[cur]) /\ MarkDirty
    /\ GoAbort(dirty')
    /\ UNCHANGED <<conn, late>>

\* The session ends while the content is on its way, with the connection or
\* because CommandTimeout closes it: `cat` sees end of file and the rename goes
\* ahead with what has arrived.
SwapTorn ==
    /\ Swapping /\ Torn
    /\ \E part \in SUBSET work'[cur] : SwapIn(part)
    /\ MarkDirty
    /\ conn' \in {"up", "down"}
    /\ GoAbort(dirty')
    /\ UNCHANGED late

\* The command outlives its session: CommandTimeout, or the connection, ends
\* while it is still running, and it completes later, maybe with a part only.
SwapLate ==
    /\ Swapping /\ conn = "up" /\ "late" \in Faults
    /\ \E c \in Arrivals(work'[cur]) :
            late' = late \cup {[path |-> PathOf[cur], content |-> c]}
    /\ MarkDirty
    /\ GoAbort(dirty')
    /\ UNCHANGED <<file, witnessed, conn>>

Swap == SwapAnswered \/ SwapRefused \/ SwapLost \/ SwapLanded \/ SwapTorn \/ SwapLate
----------------------------------------------------------------------------
(* checkHealth, before every phase that has operations.                    *)

Healthy == conn = "up" /\ ~exitSeen /\ ~restored

\* Users whose removals need a positive control, in phaseVerifyRemoved.
Controlled == {u \in Users : req.remove[u] # {} /\ work[u] # {}}

StartProbes(pairs) ==
    IF pairs = {}
    THEN Enter(Following(phase))
    ELSE step' = "probe" /\ todo' = pairs /\ tries' = 0 /\ UNCHANGED <<phase, cur>>

ToControl(u) ==
    LET v == After(u, Controlled)
    IN  IF v \in Users
        THEN cur' = v /\ step' = "control" /\ todo' = {v} \X work[v] /\ tries' = 0
             /\ UNCHANGED phase
        ELSE StartProbes(RejectPairs)

\* A commit that takes the verification of the phases for proof.
ToProveNothing(u) == Goto("marker")

\* proveAccess refuses to commit a file that it would leave without a key.
ToProve(u) ==
    LET v == After(u, dirty)
    IN  IF v \in Users
        THEN IF work[v] = {}
             THEN GoAbort(dirty)
             ELSE cur' = v /\ step' = "prove" /\ todo' = {v} \X work[v] /\ tries' = 0
                  /\ UNCHANGED phase
        ELSE Goto("marker")

Begin ==
    CASE phase \in {"add", "remove"} -> ToCopy(0)
      [] phase = "verifyAdd" -> StartProbes(AddPairs)
      [] phase = "verifyRemove" -> ToControl(0)
      [] phase = "cleanup" -> ToProve(0)

CheckHealth ==
    /\ Running /\ step = "health"
    /\ \/ Answered /\ Healthy /\ Begin
       \/ (~Healthy \/ Failed("health")) /\ GoAbort(dirty)
    /\ UNCHANGED <<guardVars, req, txVars, exitSeen, outcome, envVars, historyVars>>

----------------------------------------------------------------------------
(* Probes: fresh connections, on which sshd answers from the files.        *)

Accepts(p) ==
    /\ p[1] \notin denied
    /\ p[2] \in KeysIn(file[PathOf[p[1]]]) \/ p \in Elsewhere

\* The probe under way; the code takes them in the order of the operations
\* or of the lines, here in any one fixed order.
Current == CHOOSE p \in todo : TRUE

Probing(s) == Running /\ step = s /\ todo # {}

ProbeUnchanged == UNCHANGED <<guardVars, req, txVars, exitSeen, outcome, envVars, before>>

Witness ==
    /\ proven' = proven \cup {Current}
    /\ witnessed' = IF Current[2] \in work[Current[1]]
                    THEN witnessed \cup {Current[1]} ELSE witnessed

ProbeSteps == {"probe", "control", "prove"}

\* probeVerdict: a probe without a verdict is repeated, ProbeAttempts in all.
ProbeAgain ==
    /\ Running /\ step \in ProbeSteps /\ todo # {}
    /\ "noverdict" \in Faults
    /\ tries + 1 < ProbeAttempts
    /\ tries' = tries + 1
    /\ UNCHANGED <<phase, step, cur, todo, proven, witnessed>>
    /\ ProbeUnchanged

NoVerdict == "noverdict" \in Faults /\ tries + 1 >= ProbeAttempts

NextProbe ==
    IF todo = {Current}
    THEN Enter(Following(phase))
    ELSE todo' = todo \ {Current} /\ tries' = 0 /\ UNCHANGED <<phase, step, cur>>

\* phaseVerifyAdded: every added key must be accepted.
ProbeAdded ==
    /\ Probing("probe") /\ phase = "verifyAdd"
    /\ \/ Accepts(Current) /\ NextProbe /\ Witness
       \/ /\ ~Accepts(Current) \/ NoVerdict
          /\ GoAbort(dirty)
          /\ UNCHANGED <<proven, witnessed>>
    /\ ProbeUnchanged

\* phaseVerifyRemoved: every removed key must be refused.
ProbeRemoved ==
    /\ Probing("probe") /\ phase = "verifyRemove"
    /\ \/ ~Accepts(Current) /\ NextProbe
       \/ (Accepts(Current) \/ NoVerdict) /\ GoAbort(dirty)
    /\ UNCHANGED <<proven, witnessed>>
    /\ ProbeUnchanged

\* someKeyAccepted, for the positive control and for proveAccess: one key of
\* the user is enough, and no verdict counts as a key that was not accepted.
SomeKey ==
    \/ Accepts(Current) /\ Witness /\ (IF phase = "cleanup" THEN ToProve(cur) ELSE ToControl(cur))
    \/ /\ ~Accepts(Current) \/ NoVerdict
       /\ IF todo = {Current}
          THEN GoAbort(dirty)
          ELSE todo' = todo \ {Current} /\ tries' = 0 /\ UNCHANGED <<phase, step, cur>>
       /\ UNCHANGED <<proven, witnessed>>

PositiveControl == Probing("control") /\ SomeKey /\ ProbeUnchanged

ProveAccess == Probing("prove") /\ SomeKey /\ ProbeUnchanged

Probe == ProbeAgain \/ ProbeAdded \/ ProbeRemoved \/ PositiveControl \/ ProveAccess

----------------------------------------------------------------------------
(* commit, releaseGuardNoChanges and the end of abort.                     *)

\* The commit marker; it is not written under a condition on the guard.
WriteMarker ==
    /\ At("cleanup", "marker")
    /\ \/ Answered /\ commit' = TRUE /\ Goto("close")
       \/ Landed("marker") /\ commit' = TRUE /\ GoAbort(dirty)
       \/ Failed("marker") /\ UNCHANGED commit /\ GoAbort(dirty)
    /\ UNCHANGED <<file, backup, manifest, restored, guard, queue, stdin, conn,
                   req, txVars, exitSeen, outcome, envVars, historyVars>>

\* closeGraceful: close stdin, then wait until the session has ended or the
\* timeout is over; neither is an error to the callers.
CloseStdin ==
    /\ Running /\ step = "close"
    /\ stdin' = "closed"
    /\ Goto("wait")
    /\ UNCHANGED <<hostVars, conn, req, txVars, exitSeen, outcome, envVars, historyVars>>

Verdict ==
    CASE phase = "cleanup" -> "committed"
      [] phase = "abort" -> "aborted-reverted"
      [] phase = "dryRun" -> "dry-run"
      [] OTHER -> "failed-before-write"

AwaitGuard ==
    /\ Running /\ step = "wait"
    /\ exitSeen \/ "stall" \in Faults
    /\ IF phase = "abort"
       THEN Finish(Verdict) /\ UNCHANGED pcVars
       ELSE Goto("rm") /\ UNCHANGED <<outcome, conn>>
    /\ UNCHANGED <<hostVars, stdin, req, txVars, exitSeen, envVars, historyVars>>

\* rm -rf $TX unlinks one name after the other, in no particular order.
RemoveTxDir ==
    /\ Running /\ step = "rm" /\ Answered
    /\ \/ commit /\ commit' = FALSE /\ UNCHANGED <<manifest, backup>>
       \/ manifest # << >> /\ manifest' = << >> /\ UNCHANGED <<commit, backup>>
       \/ /\ \E u \in Users :
               backup[u] # Absent /\ backup' = [backup EXCEPT ![u] = Absent]
          /\ UNCHANGED <<commit, manifest>>
    /\ UNCHANGED <<file, restored, guard, queue, stdin, conn, req, pcVars, txVars,
                   exitSeen, outcome, envVars, historyVars>>

TxDirGone == ~commit /\ manifest = << >> /\ \A u \in Users : backup[u] = Absent

Report ==
    /\ Running /\ step = "rm"
    /\ (Answered /\ TxDirGone) \/ Failed("rm")
    /\ Finish(Verdict)
    /\ UNCHANGED <<hostVars, stdin, req, pcVars, txVars, exitSeen, envVars, historyVars>>

----------------------------------------------------------------------------
(* abort: revert and read back every dirty file.                           *)

Reverting == At("abort", "revert") /\ cur \in Users

\* A loop that steps over every other file, and one that starts over.
NextRevertSkips == step' = "revert" /\ cur' = After(cur + 1, dirty) /\ UNCHANGED <<phase, todo, tries>>

NextRevertRestarts == step' = "revert" /\ cur' = After(0, dirty) /\ UNCHANGED <<phase, todo, tries>>

NextRevert == step' = "revert" /\ cur' = After(cur, dirty) /\ UNCHANGED <<phase, todo, tries>>

\* No success is reported, whatever has become of the revert: the original goes
\* back by SwapFile, which may be torn or late as a swap may.
RevertUnanswered ==
    /\ NextRevert
    /\ revertFailed' = TRUE
    /\ \/ Failed("revert") /\ UNCHANGED <<file, witnessed, conn, late>>
       \/ Landed("revert") /\ SwapIn(orig[cur]) /\ UNCHANGED <<conn, late>>
       \/ /\ Torn /\ orig[cur] # Absent
          /\ \E part \in SUBSET orig[cur] : SwapIn(part)
          /\ conn' \in {"up", "down"}
          /\ UNCHANGED late
       \/ /\ conn = "up" /\ "late" \in Faults
          /\ \E c \in Arrivals(orig[cur]) :
                 late' = late \cup {[path |-> PathOf[cur], content |-> c]}
          /\ UNCHANGED <<file, witnessed, conn>>

RevertFile ==
    /\ Reverting
    /\ \/ /\ Answered
          /\ SwapIn(orig[cur])
          /\ Goto("readback")
          /\ UNCHANGED <<revertFailed, conn, late>>
       \/ RevertUnanswered
    /\ UNCHANGED <<backup, manifest, commit, restored, guard, queue, stdin, req,
                   orig, work, dirty, manifested, local, exitSeen, outcome, denied,
                   before, proven>>

ReadBack ==
    /\ At("abort", "readback")
    /\ \/ /\ Answered
          /\ revertFailed' = (revertFailed \/ file[PathOf[cur]] # orig[cur])
       \/ Failed("readback") /\ revertFailed' = TRUE
    /\ NextRevert
    /\ UNCHANGED <<guardVars, req, orig, work, dirty, manifested, local, exitSeen,
                   outcome, envVars, historyVars>>

Reverted == At("abort", "revert") /\ cur \notin Users

\* Every revert verified: disarm the trap, which may fail, and close.
Disarm ==
    /\ Reverted /\ ~revertFailed
    /\ \/ (Answered \/ Landed("disarm")) /\ commit' = TRUE
       \/ Failed("disarm") /\ UNCHANGED commit
    /\ Goto("close")
    /\ UNCHANGED <<file, backup, manifest, restored, guard, queue, stdin, conn, req,
                   txVars, exitSeen, outcome, envVars, historyVars>>

\* An abort that disarms the trap although a revert failed.
HangUpDisarmed ==
    /\ Reverted /\ revertFailed
    /\ Finish("revert-unverified")
    /\ commit' = TRUE
    /\ UNCHANGED <<file, backup, manifest, restored, guard, queue, stdin, req, pcVars,
                   txVars, exitSeen, envVars, historyVars>>

\* Some revert failed: drop the connection and leave the rest to the trap.
HangUp ==
    /\ Reverted /\ revertFailed
    /\ Finish("revert-unverified")
    /\ UNCHANGED <<hostVars, stdin, req, pcVars, txVars, exitSeen, envVars, historyVars>>

----------------------------------------------------------------------------
(* What is not the client's or the trap's choice.                          *)

\* sess.Wait returns: the script has exited, or the connection is gone.
GuardExitSeen ==
    /\ Running /\ phase # "setup"
    /\ ~exitSeen
    /\ guard = "exited" \/ conn = "down"
    /\ exitSeen' = TRUE
    /\ UNCHANGED <<guardVars, req, pcVars, txVars, outcome, envVars, historyVars>>

Drop ==
    /\ Running /\ "drop" \in Faults /\ conn = "up"
    /\ conn' = "down"
    /\ UNCHANGED <<hostVars, stdin, req, pcVars, txVars, exitSeen, outcome, envVars, historyVars>>

Crash ==
    /\ Running /\ "crash" \in Faults /\ phase # "setup"
    /\ Finish("crashed")
    /\ UNCHANGED <<hostVars, stdin, req, pcVars, txVars, exitSeen, envVars, historyVars>>

\* sshd comes to refuse a user outright (AllowUsers, a locked account).
Deny ==
    /\ Running /\ "deny" \in Faults
    /\ \E u \in Users \ denied : denied' = denied \cup {u}
    /\ UNCHANGED <<guardVars, req, pcVars, txVars, exitSeen, outcome, late, historyVars>>

LandLate ==
    /\ \E w \in late :
        /\ file' = [file EXCEPT ![w.path] = w.content]
        /\ witnessed' = {u \in witnessed : PathOf[u] # w.path}
        /\ late' = late \ {w}
    /\ UNCHANGED <<backup, manifest, commit, restored, guard, queue, stdin, conn, req,
                   pcVars, txVars, exitSeen, outcome, denied, before, proven>>

----------------------------------------------------------------------------
clientVars == <<req, pcVars, txVars, exitSeen, outcome, envVars, historyVars>>

Client ==
    \/ Validate \/ Connect \/ ConnectFails \/ Load \/ LoadFails
    \/ SaveLocal \/ SaveBackup \/ AppendManifest \/ Snapshot \/ Swap
    \/ CheckHealth \/ Probe
    \/ WriteMarker \/ CloseStdin \/ AwaitGuard \/ RemoveTxDir \/ Report
    \/ RevertFile \/ ReadBack \/ Disarm \/ HangUp

\* The client learns nothing of the trap; what a probe has seen of a file that
\* the trap changes is evidence no longer.
Trap ==
    /\ TrapStep
    /\ witnessed' = {u \in witnessed : file'[PathOf[u]] = file[PathOf[u]]}
    /\ UNCHANGED <<req, pcVars, txVars, exitSeen, outcome, envVars, before, proven>>

Environment ==
    \/ GuardExitSeen \/ Drop \/ Crash \/ Deny \/ LandLate
    \/ GuardFault /\ UNCHANGED clientVars

Settled == ~Running /\ guard \in {"off", "exited"} /\ late = {}

Rest == Settled /\ UNCHANGED vars

Next == Client \/ Trap \/ Environment \/ Rest

Spec == Init /\ [][Next]_vars
=============================================================================
