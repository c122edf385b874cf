------------------------------ MODULE Recovery ------------------------------
(***************************************************************************)
(* The writes of one transaction and of a later `sshkeytx restore`, as     *)
(* they meet the owners and modes of the host (tx.writeOpts and abort in   *)
(* tx.go, restoreCmd in cli.go).  Transaction leaves these out: there a    *)
(* write lands or fails for no reason given.                               *)
(*                                                                         *)
(* A file is swapped once here, the phases of a transaction being the      *)
(* subject of Transaction, and the connection of apply stays up: what the  *)
(* trap writes, as the guard user, is not part of this module.             *)
(***************************************************************************)
EXTENDS WritePolicy, FiniteSets

CONSTANTS
    NumFiles,   \* files of the transaction, in the order of their users
    Guards,     \* whom the guard connection may log in as
    Entries,    \* the users whose files they may be
    FileInfos,  \* the files' states to begin with
    DirInfos,   \* and their directories'
    Outages     \* whether the connection of a restore may fail

Files == 1..NumFiles

ASSUME NumFilesAssumption == NumFiles \in Nat

ASSUME UsersAssumption == Guards \subseteq Owners /\ Entries \subseteq Owners

\* A file or directory that is there has an owner.
ASSUME InfosAssumption ==
    /\ FileInfos \subseteq Infos /\ DirInfos \subseteq Infos
    /\ \A info \in FileInfos \cup DirInfos : info.exists => info.owner \in Owners

VARIABLES
    guard,      \* the guard user
    entry,      \* the user of each file
    was,        \* its state before the transaction, as loaded and in meta.json
    disk,       \* its state, with its content: old or new
    dir,        \* its directory
    phase,      \* loading, applying, reverting, committed, aborted, unverified,
                \* restoring, refused, failed (exit 4), restored (exit 0)
    cur,        \* the file at hand
    dirty,      \* files whose userFile.dirty is set
    revertFailed,
    rewritten,  \* files that the restore has written or removed
    asRoot      \* history: files written, and files unlinked, with root's
                \* credentials

txVars == <<dirty, revertFailed>>

vars == <<guard, entry, was, disk, dir, phase, cur, txVars, rewritten, asRoot>>

fixed == <<guard, entry, was>>

Content == {"old", "new"}

With(info, c) == [info |-> info, content |-> c]

Acts == [file : Files, how : {"write", "unlink"}]

NoFile == [exists |-> FALSE, owner |-> Nobody, mode |-> << >>]

TypeOK ==
    /\ guard \in Owners
    /\ entry \in [Files -> Owners]
    /\ was \in [Files -> Infos]
    /\ disk \in [Files -> [info : Infos, content : Content]]
    /\ \A i \in Files : disk[i].info.exists => disk[i].info.owner \in Owners
    /\ dir \in [Files -> Infos]
    /\ phase \in {"loading", "applying", "reverting", "committed", "aborted",
                  "unverified", "restoring", "refused", "failed", "restored"}
    /\ cur \in 1..(NumFiles + 1)
    /\ dirty \in SUBSET Files
    /\ revertFailed \in BOOLEAN
    /\ rewritten \in SUBSET Files
    /\ asRoot \in SUBSET Acts

Init ==
    /\ guard \in Guards
    /\ entry \in [Files -> Entries]
    /\ \A i, j \in Files : entry[i] = entry[j] => i = j
    /\ was \in [Files -> FileInfos]
    /\ disk = [i \in Files |-> With(was[i], "old")]
    /\ dir \in [Files -> DirInfos]
    /\ \A i \in Files : was[i].exists => dir[i].exists
    /\ phase = "loading" /\ cur = 1
    /\ dirty = {} /\ revertFailed = FALSE /\ rewritten = {} /\ asRoot = {}

\* The target of file i as apply and as restore describe it.
ApplyTarget(i) ==
    [guard |-> guard, entry |-> entry[i], entryUID |-> entry[i], file |-> was[i], dir |-> dir[i]]

\* restore looks up no uid for the entry user, and gives a file that is gone
\* the recorded mode.
RestoreTarget(i) ==
    [guard |-> guard, entry |-> entry[i], entryUID |-> Nobody,
     file |-> IF disk[i].info.exists THEN disk[i].info
              ELSE [exists |-> TRUE, owner |-> Nobody, mode |-> was[i].mode],
     dir |-> dir[i]]

\* What user u does to file i.
ActAs(u, i, how) ==
    asRoot' = IF u = Root THEN asRoot \cup {[file |-> i, how |-> how]} ELSE asRoot

\* A write of file i with opts that has landed.
Write(i, opts, c) ==
    /\ disk' = [disk EXCEPT ![i] =
            With([exists |-> TRUE, owner |-> SwappedOwner(guard, opts), mode |-> opts.mode], c)]
    /\ dir' = [dir EXCEPT ![i] = IF @.exists THEN @
            ELSE [exists |-> TRUE, owner |-> Writer(guard, opts), mode |-> <<7, 0, 0>>]]
    /\ ActAs(Writer(guard, opts), i, "write")

Unlink(i) == disk' = [disk EXCEPT ![i] = With(NoFile, "old")]

\* rm -f as the guard user.
RemoveAsGuard(i) == Unlink(i) /\ ActAs(guard, i, "unlink")

\* loadFiles checks every target before the first write.
Load ==
    /\ phase = "loading"
    /\ phase' = IF \A i \in Files : CheckWriteTarget(ApplyTarget(i)) THEN "applying" ELSE "aborted"
    /\ UNCHANGED <<fixed, disk, dir, cur, txVars, rewritten, asRoot>>

\* A swap that the host refuses is known not to have happened; a mode that
\* SwapFile itself refuses to pass on is an error like a lost answer.
Apply ==
    /\ phase = "applying" /\ cur \in Files
    /\ LET opts == DecideWriteOpts(ApplyTarget(cur))
       IN  IF SwapLands(guard, entry[cur], dir[cur], opts, ~was[cur].exists)
           THEN /\ Write(cur, opts, "new")
                /\ dirty' = dirty \cup {cur}
                /\ cur' = cur + 1
                /\ UNCHANGED phase
           ELSE /\ phase' = "reverting" /\ cur' = 1
                /\ dirty' = IF ValidMode(opts.mode) THEN dirty ELSE dirty \cup {cur}
                /\ UNCHANGED <<disk, dir, asRoot>>
    /\ UNCHANGED <<fixed, revertFailed, rewritten>>

\* Every file is written: the transaction commits, or a verification fails.
Verified ==
    /\ phase = "applying" /\ cur \notin Files
    /\ \/ phase' = "committed" /\ UNCHANGED cur
       \/ phase' = "reverting" /\ cur' = 1
    /\ UNCHANGED <<fixed, disk, dir, txVars, rewritten, asRoot>>

\* An abort that puts back what was there and leaves what was not.
RevertExisting ==
    /\ phase = "reverting" /\ cur \in Files
    /\ LET opts == DecideWriteOpts(ApplyTarget(cur))
       IN  IF cur \in dirty /\ was[cur].exists /\ ValidMode(opts.mode)
           THEN Write(cur, opts, "old")
           ELSE UNCHANGED <<disk, dir, asRoot>>
    /\ cur' = cur + 1
    /\ UNCHANGED <<fixed, phase, txVars, rewritten>>

\* The original goes back under the same policy.
PutBack ==
    /\ cur \in dirty /\ was[cur].exists
    /\ LET opts == DecideWriteOpts(ApplyTarget(cur))
       IN  IF SwapLands(guard, entry[cur], dir[cur], opts, FALSE)
           THEN Write(cur, opts, "old") /\ UNCHANGED revertFailed
           ELSE revertFailed' = TRUE /\ UNCHANGED <<disk, dir, asRoot>>

\* A file that was not there is removed by the guard user.  The directory made
\* for it stays.
RemoveNew ==
    /\ cur \in dirty /\ ~was[cur].exists
    /\ IF MayWriteIn(guard, dir[cur])
       THEN RemoveAsGuard(cur) /\ UNCHANGED revertFailed
       ELSE revertFailed' = TRUE /\ UNCHANGED <<disk, asRoot>>
    /\ UNCHANGED dir

\* abort: the loop over the dirty files.
Revert ==
    /\ phase = "reverting" /\ cur \in Files
    /\ \/ PutBack
       \/ RemoveNew
       \/ cur \notin dirty /\ UNCHANGED <<disk, dir, revertFailed, asRoot>>
    /\ cur' = cur + 1
    /\ UNCHANGED <<fixed, phase, dirty, rewritten>>

Reverted ==
    /\ phase = "reverting" /\ cur \notin Files
    /\ phase' = IF revertFailed THEN "unverified" ELSE "aborted"
    /\ UNCHANGED <<fixed, disk, dir, cur, txVars, rewritten, asRoot>>

----------------------------------------------------------------------------
\* Some time after the commit the operator asks for the backup to be put
\* back; one of the files may have been deleted meanwhile.
Restore ==
    /\ phase = "committed"
    /\ phase' = "restoring" /\ cur' = 1
    /\ \/ UNCHANGED disk
       \/ \E i \in Files : Unlink(i)
    /\ UNCHANGED <<fixed, dir, txVars, rewritten, asRoot>>

RemoveFile ==
    /\ phase = "restoring" /\ cur \in Files /\ ~was[cur].exists
    /\ IF ~disk[cur].info.exists \/ MayWriteIn(guard, dir[cur])
       THEN /\ RemoveAsGuard(cur)
            /\ rewritten' = rewritten \cup {cur} /\ cur' = cur + 1 /\ UNCHANGED phase
       ELSE phase' = "failed" /\ UNCHANGED <<disk, rewritten, cur, asRoot>>
    /\ UNCHANGED <<fixed, dir, txVars>>

RestoreFile ==
    /\ phase = "restoring" /\ cur \in Files /\ was[cur].exists
    /\ CheckWriteTarget(RestoreTarget(cur))
    /\ LET opts == [DecideWriteOpts(RestoreTarget(cur)) EXCEPT !.mode = was[cur].mode]
       IN  IF SwapLands(guard, entry[cur], dir[cur], opts, FALSE)
           THEN Write(cur, opts, "old") /\ rewritten' = rewritten \cup {cur} /\ cur' = cur + 1
                /\ UNCHANGED phase
           ELSE phase' = "failed" /\ UNCHANGED <<disk, dir, rewritten, cur, asRoot>>
    /\ UNCHANGED <<fixed, txVars>>

Refuse ==
    /\ phase = "restoring" /\ cur \in Files /\ was[cur].exists
    /\ ~CheckWriteTarget(RestoreTarget(cur))
    /\ phase' = "refused"
    /\ UNCHANGED <<fixed, disk, dir, cur, txVars, rewritten, asRoot>>

\* Any remote command of the loop fails.
RestoreFails ==
    /\ Outages
    /\ phase = "restoring" /\ cur \in Files
    /\ phase' = "failed"
    /\ UNCHANGED <<fixed, disk, dir, cur, txVars, rewritten, asRoot>>

Restored ==
    /\ phase = "restoring" /\ cur \notin Files
    /\ phase' = "restored"
    /\ UNCHANGED <<fixed, disk, dir, cur, txVars, rewritten, asRoot>>

Rest == phase \in {"aborted", "unverified", "refused", "failed", "restored"} /\ UNCHANGED vars

Next ==
    \/ Load \/ Apply \/ Verified \/ Revert \/ Reverted
    \/ Restore \/ RemoveFile \/ RestoreFile \/ Refuse \/ RestoreFails \/ Restored
    \/ Rest

Spec == Init /\ [][Next]_vars

----------------------------------------------------------------------------
\* A transaction that aborts puts back everything its swaps have replaced: a
\* decision that could write a file can also undo it (tx.writeOpts: "a
\* decision that cannot land here cannot be undone either").  The revert fails
\* for no other file than one whose swap never got past SwapFile's own check.
RevertLands ==
    /\ phase \in {"aborted", "unverified"} =>
        \A i \in Files : disk[i].content = "old" /\ disk[i].info.exists = was[i].exists
    /\ phase = "unverified" => \E i \in dirty : ~ValidMode(was[i].mode)

\* With a root guard no write of the transaction or of its revert gives a file
\* that is there another owner or mode (tx.swap: "ownership/mode preserved";
\* remote.CheckWriteTarget).
OwnershipKept ==
    guard = Root /\ phase \notin {"restoring", "refused", "failed", "restored"} =>
        \A i \in Files : was[i].exists => disk[i].info = was[i]

\* What apply, revert and restore write with root's credentials is in a directory
\* of root's that nobody else can write, or is the guard user's own
\* (remote.DecideWriteOpts).  Their rm -f runs as root in any directory, but
\* only on a file that was absent before the transaction (tx.abort,
\* cli.restoreCmd).
NoRootWriteInUserDir ==
    \A act \in asRoot :
        \/ dir[act.file].owner = Root /\ ~WritableByOthers(dir[act.file].mode)
        \/ entry[act.file] = guard
        \/ act.how = "unlink" /\ ~was[act.file].exists

\* restore decides as apply does, so it refuses no file that apply has written
\* (cli.go: "Same decision as `apply`, through the same function").
RestoreTakesWhatApplyWrote == phase # "refused"

\* Exit code 4 is given only when nothing was written (cli.go: "4 = failed
\* before any write").
FailedBeforeWrite == phase \in {"refused", "failed"} => rewritten = {}
=============================================================================
