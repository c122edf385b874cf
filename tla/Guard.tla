------------------------------- MODULE Guard -------------------------------
(***************************************************************************)
(* The remote half of one transaction (guard.go): the authorized_keys      *)
(* files, the transaction directory $TX on the host, and the dead-man trap *)
(* of the shell script that the guard session runs.                        *)
(*                                                                         *)
(* A file's content is the set of keys it holds, or Absent.  The trap      *)
(* starts when the session ends (its stdin reaches end of file, or a       *)
(* signal); without $TX/commit it reads $TX/manifest line by line and puts *)
(* back each file the manifest names.                                      *)
(*                                                                         *)
(* The script refuses to restore through a symbolic link; links are not    *)
(* part of this model.                                                     *)
(***************************************************************************)
EXTENDS Integers, Sequences, FiniteSets

CONSTANTS
    NumUsers,   \* users the transaction may name, numbered in sorted order
    Keys,       \* public keys
    Paths,      \* paths of authorized_keys files
    PathOf,     \* the file of each user, from Config.PathTemplate
    Absent,     \* the content of a file that does not exist
    Faults      \* the faults of the environment that a run allows

Users == 1..NumUsers

Contents == {Absent} \cup SUBSET Keys

ASSUME UsersAssumption == NumUsers \in Nat \ {0}

ASSUME PathsAssumption == PathOf \in [Users -> Paths]

ASSUME AbsentAssumption == \A S \in SUBSET Keys : S # Absent

KeysIn(c) == IF c = Absent THEN {} ELSE c

VARIABLES
    file,       \* the content of each path
    backup,     \* $TX/backup/<user>; Absent when there is no copy
    manifest,   \* the lines of $TX/manifest
    commit,     \* $TX/commit exists
    restored,   \* $TX/restored exists: the trap has fired
    guard,      \* the guard script: off, armed, restoring, exited
    queue,      \* manifest lines the restoring trap has still to read
    stdin,      \* the guard session's stdin: open or closed
    conn        \* the connection that carries the guard and the commands

hostVars == <<file, backup, manifest, commit, restored, guard, queue>>

guardVars == <<hostVars, stdin, conn>>

Entries == [typ : {"F", "A"}, user : Users]

GuardTypeOK ==
    /\ file \in [Paths -> Contents]
    /\ backup \in [Users -> Contents]
    /\ manifest \in Seq(Entries)
    /\ commit \in BOOLEAN
    /\ restored \in BOOLEAN
    /\ guard \in {"off", "armed", "restoring", "exited"}
    /\ queue \in Seq(Entries)
    /\ stdin \in {"open", "closed"}
    /\ conn \in {"up", "down"}

GuardInit ==
    /\ backup = [u \in Users |-> Absent]
    /\ manifest = << >>
    /\ commit = FALSE
    /\ restored = FALSE
    /\ guard = "off"
    /\ queue = << >>
    /\ stdin = "open"
    /\ conn = "down"

----------------------------------------------------------------------------
(* The trap.                                                               *)

\* A trap that does not look for the commit marker.
EnterRestoreAlways ==
    /\ guard = "armed"
    /\ IF manifest = << >>
       THEN guard' = "exited" /\ UNCHANGED queue
       ELSE guard' = "restoring" /\ queue' = manifest
    /\ UNCHANGED <<file, backup, manifest, commit, restored, stdin, conn>>

\* restore_all tests for the commit marker once, on entry, and for a
\* manifest; without the one and with the other it opens the manifest.
EnterRestore ==
    /\ guard = "armed"
    /\ IF commit \/ manifest = << >>
       THEN guard' = "exited" /\ UNCHANGED queue
       ELSE guard' = "restoring" /\ queue' = manifest
    /\ UNCHANGED <<file, backup, manifest, commit, restored, stdin, conn>>

\* End of file on the session's stdin: `cat > /dev/null` returns, the script
\* ends and its EXIT trap runs.
TrapOnEOF ==
    /\ conn = "down" \/ stdin = "closed"
    /\ EnterRestore

\* HUP, INT or TERM reaches the script while its session is open.
TrapOnSignal ==
    /\ "signal" \in Faults
    /\ EnterRestore

\* A trap that knows only files that existed.
RestoredContentIfAny(e) ==
    IF backup[e.user] # Absent THEN backup[e.user] ELSE file[PathOf[e.user]]

\* What one manifest line makes of the file it names: F overwrites it with
\* its backup if there is one, A deletes it.
RestoredContent(e) ==
    CASE e.typ = "A" -> Absent
      [] e.typ = "F" /\ backup[e.user] # Absent -> backup[e.user]
      [] OTHER -> file[PathOf[e.user]]

RestoreEntry ==
    /\ guard = "restoring"
    /\ queue # << >>
    /\ file' = [file EXCEPT ![PathOf[Head(queue).user]] = RestoredContent(Head(queue))]
    /\ queue' = Tail(queue)
    /\ UNCHANGED <<backup, manifest, commit, restored, guard, stdin, conn>>

\* A loop that loses the last line.
RestoreDoneEarly ==
    /\ guard = "restoring"
    /\ Len(queue) <= 1
    /\ restored' = TRUE
    /\ guard' = "exited"
    /\ UNCHANGED <<file, backup, manifest, commit, queue, stdin, conn>>

\* End of the manifest: evidence is left and the script exits.
RestoreDone ==
    /\ guard = "restoring"
    /\ queue = << >>
    /\ restored' = TRUE
    /\ guard' = "exited"
    /\ UNCHANGED <<file, backup, manifest, commit, queue, stdin, conn>>

\* kill -9: no trap runs.
KillGuard ==
    /\ "kill" \in Faults
    /\ guard \in {"armed", "restoring"}
    /\ guard' = "exited"
    /\ UNCHANGED <<file, backup, manifest, commit, restored, queue, stdin, conn>>

TrapStep == TrapOnEOF \/ RestoreEntry \/ RestoreDone

GuardFault == TrapOnSignal \/ KillGuard
=============================================================================
