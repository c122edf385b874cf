----------------------------- MODULE BreakGlass -----------------------------
(***************************************************************************)
(* A transaction together with what it leaves on the operator's disk: the  *)
(* copies of the originals that ensureCAS takes, the document meta.json    *)
(* that finishMeta writes when the process gets that far, and the later    *)
(* `sshkeytx restore` that goes by them (restoreCmd in cli.go).            *)
(*                                                                         *)
(* A restore opens a connection of its own and holds no trap.  It may run  *)
(* while the trap of the transaction is still at work.  Who may write a    *)
(* file (CheckWriteTarget) is the subject of Recovery: here the host just  *)
(* lets a write land or not.                                               *)
(***************************************************************************)
EXTENDS TransactionProperties

CONSTANTS
    Known,          \* the paths that have one of the two shapes restore takes
    MaxRestores     \* bound: how often the operator asks for a restore

ASSUME KnownAssumption == Known \subseteq Paths

ASSUME MaxRestoresAssumption == MaxRestores \in Nat

VARIABLES
    files,      \* t.files by user, with uf.orig; its domain is t.order
    copy,       \* <local>/files/<user>/authorized_keys; Absent if there is none
    document,   \* meta.json: none, written, or lost when it could not be
    meta,       \* its files: user and Existed
    restore,    \* none, running, refused (exit 2), failed (exit 4), printed
                \* (--dry-run), elsewhere (another host) or restored (exit 0)
    at,         \* the user its loop is at; NumUsers + 1 when it is over
    asked,      \* restores asked for so far
    strays      \* history: a swap that the run or a restore had given up has
                \* landed since the last of them began

localVars == <<files, copy, document, meta>>

restoreVars == <<restore, at, asked, strays>>

allVars == <<vars, localVars, restoreVars>>

\* The ways to ask: of the host the backup is from or another, with
\* --force-different-host or without, with --dry-run or without.
Ask == [same : BOOLEAN, force : BOOLEAN, dryRun : BOOLEAN]

BreakGlassTypeOK ==
    /\ TypeOK
    /\ DOMAIN files \subseteq Users
    /\ \A u \in DOMAIN files : files[u] \in Contents
    /\ copy \in [Users -> Contents]
    /\ document \in {"none", "written", "lost"}
    /\ meta \in SUBSET [user : Users, existed : BOOLEAN]
    /\ restore \in {"none", "running", "refused", "failed", "printed", "elsewhere", "restored"}
    /\ at \in 0..(NumUsers + 1)
    /\ asked \in 0..MaxRestores /\ strays \in BOOLEAN

BreakGlassInit ==
    /\ Init
    /\ files = << >>
    /\ copy = [u \in Users |-> Absent]
    /\ document = "none" /\ meta = {}
    /\ restore = "none" /\ at = 0 /\ asked = 0 /\ strays = FALSE

----------------------------------------------------------------------------
(* What a step of the transaction leaves on the operator's disk.           *)

Loads == step = "load" /\ step' # "load"

\* loadFiles takes the users in order and stops at the first failure.
LoadedUsers ==
    IF phase' = "release"
    THEN {{u \in Named : u < v} : v \in Named}
    ELSE {Named}

RecordFiles ==
    IF Loads
    THEN \E S \in LoadedUsers : files' = [u \in S |-> file[PathOf[u]]]
    ELSE UNCHANGED files

\* A later phase that saves its snapshot under the name of the copy.
RecordCopyAgain ==
    copy' = [u \in Users |->
        IF u \in local' \ local THEN orig[u]
        ELSE IF u = cur /\ step = "snapshot" /\ step' # "snapshot" THEN file[PathOf[u]]
        ELSE copy[u]]

\* The snapshot of a later phase has a name of its own.
RecordCopy ==
    copy' = [u \in Users |-> IF u \in local' \ local THEN orig[u] ELSE copy[u]]

Entry(u) == [user |-> u, existed |-> files[u] # Absent]

\* A finishMeta that is called for a commit only.
FinishMetaOfCommit ==
    IF outcome = "none" /\ outcome' = "committed"
    THEN document' = "written" /\ meta' = {Entry(u) : u \in DOMAIN files}
    ELSE UNCHANGED <<document, meta>>

\* finishMeta: every file that was loaded, touched or not, whether or not
\* there is a copy of it.  It comes before the end of the process and not
\* before the end of setup; a crash precedes it, and it may fail unnoticed.
FinishMeta ==
    IF outcome = "none" /\ outcome' \in Outcomes /\ step # "validate"
    THEN \/ document' = "written" /\ meta' = {Entry(u) : u \in DOMAIN files}
         \/ "disk" \in Faults /\ document' = "lost" /\ UNCHANGED meta
    ELSE UNCHANGED <<document, meta>>

Transact ==
    /\ Next
    /\ RecordFiles
    /\ RecordCopy
    /\ FinishMeta
    /\ strays' = (strays \/ late \ late' # {})
    /\ UNCHANGED <<restore, at, asked>>

----------------------------------------------------------------------------
(* restoreCmd.                                                             *)

Documented == {m.user : m \in meta}

\* The checks before the first connection: the document, the host it names,
\* the paths it names.
Usable(ask) ==
    /\ document = "written"
    /\ ask.same \/ ask.force
    /\ \A u \in Documented : PathOf[u] \in Known

\* The transaction's process is over; another host's files are not this
\* model's.
AskRestore ==
    /\ ~Running /\ restore # "running" /\ asked < MaxRestores
    /\ asked' = asked + 1
    /\ \E ask \in Ask :
        restore' = CASE ~Usable(ask) -> "refused"
                     [] Usable(ask) /\ ask.dryRun -> "printed"
                     [] Usable(ask) /\ ~ask.dryRun /\ ~ask.same -> "elsewhere"
                     [] OTHER -> "running"
    /\ at' = After(0, Documented)
    /\ strays' = FALSE
    /\ UNCHANGED <<vars, localVars>>

Restoring == restore = "running" /\ at \in Users

\* Loops that leave a file out: every other one, and those without a copy.
PastFileSkips == at' = After(at + 1, Documented)

PastFileCopied == at' = After(at, {u \in Documented : copy[u] # Absent})

PastFile == at' = After(at, Documented)

Existed(u) == [user |-> u, existed |-> TRUE] \in meta

Put(c) == file' = [file EXCEPT ![PathOf[at]] = c]

UnchangedByRestore ==
    UNCHANGED <<backup, manifest, commit, restored, guard, queue, stdin, conn, req, pcVars,
                txVars, exitSeen, outcome, denied, historyVars, localVars, asked, strays>>

\* A restore that does not care whether the file was there.
RemoveAny ==
    /\ Restoring
    /\ Put(Absent) /\ PastFile
    /\ UNCHANGED <<restore, late>>
    /\ UnchangedByRestore

\* A file that was not there before the transaction is removed.
Remove ==
    /\ Restoring /\ ~Existed(at)
    /\ Put(Absent) /\ PastFile
    /\ UNCHANGED <<restore, late>>
    /\ UnchangedByRestore

Reapply ==
    /\ Restoring /\ Existed(at) /\ copy[at] # Absent
    /\ Put(copy[at]) /\ PastFile
    /\ UNCHANGED <<restore, late>>
    /\ UnchangedByRestore

\* The document names a file that was never copied.
NoCopy ==
    /\ Restoring /\ Existed(at) /\ copy[at] = Absent
    /\ restore' = "refused"
    /\ UNCHANGED <<file, late, at>>
    /\ UnchangedByRestore

\* What the loop has for the file it is at: the copy, or nothing.
Sends(c) == Restoring /\ c = (IF Existed(at) THEN copy[at] ELSE Absent) /\ (Existed(at) => c # Absent)

\* A dial or a command of the loop fails, or it took effect and its answer was
\* lost; SwapFile may be torn.
RestoreFails ==
    /\ "outage" \in Faults
    /\ restore = "running"
    /\ restore' = "failed"
    /\ \/ UNCHANGED file
       \/ \E c \in Contents : Sends(c) /\ \E arrived \in Arrivals(c) : Put(arrived)
    /\ UNCHANGED <<late, at>>
    /\ UnchangedByRestore

\* Or it outlives the restore and completes later.
RestoreLate ==
    /\ "outage" \in Faults /\ "late" \in Faults
    /\ restore' = "failed"
    /\ \E c \in Contents :
        /\ Sends(c)
        /\ \E arrived \in Arrivals(c) :
             late' = late \cup {[path |-> PathOf[at], content |-> arrived]}
    /\ UNCHANGED <<file, at>>
    /\ UnchangedByRestore

AllRestored ==
    /\ restore = "running" /\ at \notin Users
    /\ restore' = "restored"
    /\ UNCHANGED <<file, late, at>>
    /\ UnchangedByRestore

RestoreStep == Remove \/ Reapply \/ NoCopy \/ AllRestored

BreakGlassNext == Transact \/ AskRestore \/ RestoreStep \/ RestoreFails \/ RestoreLate

BreakGlassSpec == BreakGlassInit /\ [][BreakGlassNext]_allVars

----------------------------------------------------------------------------
\* A restore that exits 0 has undone the whole transaction, whichever way it
\* ended and whatever its trap is still doing, and nothing takes the files
\* from there again but a swap that the run gave up and the host did not
\* (README: "re-apply the local pre-transaction backups").
RestoreUndoes == restore = "restored" /\ ~strays => AllOriginal

\* What a restore puts into a file, now or by a swap that lands later, comes from
\* before the transaction: all of the original or, when the restore fails in the middle
\* of a swap, a part of it, and never a key of an intermediate state.  A file that was
\* not there is not created (tx.ensureCAS, cli.restoreCmd, remote.SwapFile).
PartOf(c, whole) == c # Absent /\ whole # Absent /\ c \subseteq whole

RestoreWritesOriginals ==
    [][RestoreStep \/ RestoreFails \/ RestoreLate =>
        /\ \A p \in Paths :
              \/ file'[p] \in {file[p], before[p]}
              \/ restore' = "failed" /\ PartOf(file'[p], before[p])
        /\ \A w \in late' \ late :
              w.content = before[w.path] \/ PartOf(w.content, before[w.path])]_allVars

\* Once a run has reported, whatever it reported, every file that is not as it
\* was can be put back by hand: the document names it, and its original is
\* with it, unless the document could not be written (tx.finishMeta).
ChangesDocumented ==
    outcome \in Outcomes /\ document # "lost" =>
        \A p \in Paths : file[p] # before[p] =>
            \E u \in Documented :
                /\ PathOf[u] = p
                /\ copy[u] = before[p]
                /\ Existed(u) <=> before[p] # Absent

BreakGlassFairness == Fairness /\ WF_allVars(RestoreStep)

BreakGlassFairSpec == BreakGlassSpec /\ BreakGlassFairness

Complete == \A u \in Documented : Existed(u) => copy[u] # Absent

\* A restore of a transaction that has copied every file it names brings all
\* of them back for good, unless a command of it fails or a swap of the run
\* still lands (README: break-glass).
BreakGlassWorks ==
    (restore = "running" /\ Complete) ~> (restore = "failed" \/ strays \/ []AllOriginal)

\* The backups that an unverified revert points the operator to can be put
\* back (tx.abort: "local pre-transaction backups: %s (sshkeytx restore can
\* re-apply them)").
BackupsReapply == outcome = "revert-unverified" /\ restore = "running" => Complete

\* Every path that a document names has one of the shapes that restore takes
\* (cli.restoreCmd: "the two shapes a transaction produces").
ShapesProduced == \A u \in Documented : PathOf[u] \in Known
=============================================================================
