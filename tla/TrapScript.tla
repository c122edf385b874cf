----------------------------- MODULE TrapScript -----------------------------
(***************************************************************************)
(* The shell script of the guard session (guardScript in guard.go), one    *)
(* command at a time, and the client on the same connection.  Guard takes  *)
(* the restore of a file for one step and a signal for the end of the      *)
(* session; here the shell runs a signal's trap when its present command   *)
(* is over, over and over if more signals come, and `cat backup > target`  *)
(* truncates the target before it writes it.                               *)
(*                                                                         *)
(* restore_all is the same whether it runs for EXIT or for a signal, and   *)
(* the shell ends after either: a signal during restore_all, or between    *)
(* its return and the shell's exit, runs it once more from its beginning   *)
(* and abandons the run it interrupted.                                    *)
(***************************************************************************)
EXTENDS Integers, Sequences, FiniteSets

CONSTANTS
    Paths,      \* the files of the transaction
    MaxSignals, \* bound: signals that reach the shell
    Kill        \* whether kill -9 may

ASSUME MaxSignalsAssumption == MaxSignals \in Nat

ASSUME KillAssumption == Kill \in BOOLEAN

VARIABLES
    was,        \* what each file is before: original, or gone
    file,       \* what it is now: also new (swapped), or torn (truncated)
    link,       \* files that somebody has replaced by symbolic links
    backup,     \* files with a copy in $TX/backup
    manifest,   \* the lines of $TX/manifest; a partial one has no newline
    commit,     \* $TX/commit exists
    restored,   \* $TX/restored exists
    refused,    \* the lines of $TX/restore-refused
    open,       \* the session is open: the client can reach the host
    pc,         \* the shell: wait, woken, read, cat, leaving, ended, killed
    pos,        \* lines of the manifest that the loop has read
    pending,    \* a signal has come whose trap has not run yet
    signals,    \* signals so far
    marked,     \* history: the marker was there when the session ended
    promised,   \* history: lines of the manifest at that moment
    since       \* history: files swapped after it

hostVars == <<file, backup, manifest, commit>>

shellVars == <<restored, refused, pc, pos, pending>>

historyVars == <<marked, promised, since>>

vars == <<was, hostVars, link, open, shellVars, signals, historyVars>>

Line == [typ : {"F", "A", "partial"}, dst : Paths]

TypeOK ==
    /\ was \in [Paths -> {"original", "gone"}]
    /\ file \in [Paths -> {"original", "gone", "new", "torn"}]
    /\ link \subseteq Paths /\ backup \subseteq Paths /\ refused \subseteq Paths
    /\ manifest \in Seq(Line)
    /\ commit \in BOOLEAN /\ restored \in BOOLEAN /\ open \in BOOLEAN
    /\ pc \in {"wait", "woken", "read", "cat", "leaving", "ended", "killed"}
    /\ pos \in 0..Len(manifest)
    /\ pending \in BOOLEAN /\ signals \in 0..MaxSignals
    /\ marked \in BOOLEAN /\ promised \in 0..Len(manifest) /\ since \subseteq Paths

\* The session has been armed: the script reads its stdin.
Init ==
    /\ was \in [Paths -> {"original", "gone"}]
    /\ file = was
    /\ link = {} /\ backup = {} /\ refused = {} /\ since = {}
    /\ manifest = << >>
    /\ commit = FALSE /\ restored = FALSE /\ marked = FALSE
    /\ open = TRUE /\ pc = "wait" /\ pos = 0 /\ promised = 0
    /\ pending = FALSE /\ signals = 0

----------------------------------------------------------------------------
(* The shell.                                                              *)

ByShell == UNCHANGED <<was, backup, manifest, commit, link, open, signals, since>>

\* `cat > /dev/null` has come to the end of the session's stdin.
Wake ==
    /\ pc = "wait" /\ ~open
    /\ pc' = "woken"
    /\ ByShell /\ UNCHANGED <<file, restored, refused, pos, pending, marked, promised>>

\* The head of restore_all: with a marker, or without a manifest, it returns.
BeginAlways == pc' = IF manifest = << >> THEN "leaving" ELSE "read"

Begin == pc' = IF commit \/ manifest = << >> THEN "leaving" ELSE "read"

\* The EXIT trap, or the trap of a signal that has come in the meantime.
EnterTrap ==
    /\ pc = "woken"
    /\ Begin
    /\ pending' = FALSE
    /\ marked' = commit /\ promised' = Len(manifest)
    /\ ByShell /\ UNCHANGED <<file, restored, refused, pos>>

\* Signal traps that only exit, or that return to the interrupted loop.
InterruptExits ==
    /\ pending /\ pc = "read"
    /\ pc' = "ended" /\ pos' = 0 /\ pending' = FALSE
    /\ ByShell /\ UNCHANGED <<file, restored, refused, marked, promised>>

InterruptResumes ==
    /\ pending /\ pc = "read"
    /\ pending' = FALSE
    /\ ByShell /\ UNCHANGED <<file, restored, refused, pc, pos, marked, promised>>

\* A trap of a signal that restores without a look at the marker.
InterruptUnchecked ==
    /\ pending /\ pc \in {"read", "leaving"}
    /\ BeginAlways
    /\ pos' = 0 /\ pending' = FALSE
    /\ ByShell /\ UNCHANGED <<file, restored, refused, marked, promised>>

\* Between two commands of restore_all, or when it has returned and the shell
\* is about to exit, the trap of a signal runs.
Interrupt ==
    /\ pending /\ pc \in {"read", "leaving"}
    /\ Begin
    /\ pos' = 0 /\ pending' = FALSE
    /\ ByShell /\ UNCHANGED <<file, restored, refused, marked, promised>>

\* `read` fails at the end of the file, and at a line without its newline.
MoreLines == pos < Len(manifest) /\ manifest[pos + 1].typ # "partial"

Advance == pos' = pos + 1

\* One line: a link is refused and recorded, a file that was not there is
\* removed, one without a copy is passed over, and any other is truncated.
ReadLine ==
    /\ pc = "read" /\ ~pending /\ MoreLines
    /\ LET line == manifest[pos + 1]
           copied == line.typ = "F" /\ line.dst \in backup
       IN  \/ /\ line.dst \in link
              /\ refused' = refused \cup {line.dst}
              /\ UNCHANGED <<file, pc>>
           \/ /\ line.dst \notin link /\ (line.typ = "A" \/ copied)
              /\ file' = [file EXCEPT ![line.dst] = IF copied THEN "torn" ELSE "gone"]
              /\ pc' = IF copied THEN "cat" ELSE "read"
              /\ UNCHANGED refused
           \/ line.dst \notin link /\ line.typ = "F" /\ ~copied /\ UNCHANGED <<file, pc, refused>>
    /\ Advance
    /\ ByShell /\ UNCHANGED <<restored, pending, marked, promised>>

\* `cat` has written the whole copy.
Written ==
    /\ pc = "cat"
    /\ file' = [file EXCEPT ![manifest[pos].dst] = "original"]
    /\ pc' = "read"
    /\ ByShell /\ UNCHANGED <<restored, refused, pos, pending, marked, promised>>

\* Evidence that is left with the last line still to be read.
EndOfManifestEarly ==
    /\ pc = "read" /\ ~pending /\ pos + 1 >= Len(manifest)
    /\ restored' = TRUE /\ pc' = "leaving"
    /\ ByShell /\ UNCHANGED <<file, refused, pos, pending, marked, promised>>

EndOfManifest ==
    /\ pc = "read" /\ ~pending /\ ~MoreLines
    /\ restored' = TRUE /\ pc' = "leaving"
    /\ ByShell /\ UNCHANGED <<file, refused, pos, pending, marked, promised>>

\* The shell exits; a signal may have come too late for its trap.
Leave ==
    /\ pc = "leaving"
    /\ pc' = "ended"
    /\ ByShell /\ UNCHANGED <<file, restored, refused, pos, pending, marked, promised>>

Shell ==
    \/ Wake \/ EnterTrap \/ Interrupt
    \/ ReadLine \/ Written \/ EndOfManifest \/ Leave

\* HUP, INT or TERM, to the shell alone or to the command it waits for as
\* well: that command dies, and leaves what it has done.
Signal ==
    /\ pc \notin {"ended", "killed"} /\ signals < MaxSignals
    /\ signals' = signals + 1
    /\ pending' = TRUE
    /\ \/ UNCHANGED pc
       \/ pc = "wait" /\ pc' = "woken"
       \/ pc = "cat" /\ pc' = "read"
    /\ UNCHANGED <<was, hostVars, link, open, restored, refused, pos, historyVars>>

\* kill -9, or a reboot.
KillShell ==
    /\ Kill /\ pc \notin {"ended", "killed"}
    /\ pc' = "killed"
    /\ UNCHANGED <<was, hostVars, link, open, restored, refused, pos, pending,
                   signals, historyVars>>

----------------------------------------------------------------------------
(* The client, which learns of a trap at its next health check only.       *)

ByClient ==
    /\ open
    /\ UNCHANGED <<was, link, shellVars, signals, marked, promised>>

Manifested(p) == \E i \in 1..Len(manifest) : manifest[i].typ # "partial" /\ manifest[i].dst = p

SaveBackup(p) ==
    /\ ByClient /\ ~commit
    /\ was[p] = "original" /\ p \notin backup
    /\ backup' = backup \cup {p}
    /\ UNCHANGED <<file, manifest, commit, open, since>>

\* The line of a file that was there follows its copy.  The connection may
\* die while the line is on its way.
AppendLine(p) ==
    /\ ByClient /\ ~commit
    /\ ~Manifested(p) /\ (was[p] = "gone" \/ p \in backup)
    /\ \/ /\ manifest' = Append(manifest,
                [typ |-> IF was[p] = "gone" THEN "A" ELSE "F", dst |-> p])
          /\ UNCHANGED open
       \/ /\ manifest' = Append(manifest, [typ |-> "partial", dst |-> p])
          /\ open' = FALSE
    /\ UNCHANGED <<file, backup, commit, since>>

\* swap and the revert of abort: a rename, of a target that is no link.
SwapFile(p) ==
    /\ ByClient /\ ~commit
    /\ Manifested(p) /\ p \notin link
    /\ \E c \in {"new", was[p]} : file' = [file EXCEPT ![p] = c]
    /\ since' = IF pc \in {"wait", "woken"} THEN since ELSE since \cup {p}
    /\ UNCHANGED <<backup, manifest, commit, open>>

\* The marker: a commit, or an abort that has reverted everything.
WriteMarker ==
    /\ ByClient /\ ~commit
    /\ commit' = TRUE
    /\ UNCHANGED <<file, backup, manifest, open, since>>

Disconnect ==
    /\ ByClient
    /\ open' = FALSE
    /\ UNCHANGED <<hostVars, since>>

\* The owner of a directory replaces a file by a link.
Relink(p) ==
    /\ pc = "wait" /\ p \notin link
    /\ link' = link \cup {p}
    /\ UNCHANGED <<was, hostVars, open, shellVars, signals, historyVars>>

Client ==
    \/ \E p \in Paths : SaveBackup(p) \/ AppendLine(p) \/ SwapFile(p)
    \/ WriteMarker \/ Disconnect

Rest == pc \in {"ended", "killed"} /\ UNCHANGED vars

Next == Shell \/ Client \/ Signal \/ KillShell \/ (\E p \in Paths : Relink(p)) \/ Rest

Spec == Init /\ [][Next]_vars

\* The host runs the shell, and sshd ends the session sooner or later.
FairSpec == Spec /\ WF_vars(Shell) /\ WF_vars(Disconnect)

----------------------------------------------------------------------------
\* A line is dealt with when its file is as it was or its refusal is recorded;
\* the client may have swapped the file again meanwhile.
Dealt(i) ==
    LET p == manifest[i].dst
    IN  manifest[i].typ = "partial" \/ file[p] = was[p] \/ p \in refused \/ p \in since

\* A script that has ended without the marker has dealt with every line that
\* was in the manifest when the session ended, however many signals came in
\* between (guardScript: "restores every file named in $TX/manifest", "a
\* refusal is recorded, never silent").
RestoresAll ==
    pc = "ended" /\ ~commit => \A i \in 1..promised : Dealt(i)

\* The same for a session that ended without the marker, also when the marker
\* came later (guardScript: "If the session ends without $TX/commit existing
\* [...] the trap restores every file named in $TX/manifest").
RestoresOnceStarted ==
    pc = "ended" /\ ~marked => \A i \in 1..promised : Dealt(i)

\* $TX/restored, by which a health check knows that the trap has fired, does
\* not appear before everything is dealt with, through any interruption
\* (tx.checkHealth).
EvidenceIsLast ==
    [][~restored /\ restored' => \A i \in 1..promised : Dealt(i)']_vars

\* With the marker in place when the session ends, the script writes no file,
\* also when a signal that comes after restore_all has returned runs it once
\* more (guardScript: "the trap sees $TX/commit and restores nothing").
MarkerDisarms == [][Shell /\ marked => UNCHANGED file]_vars

\* A truncated file does not stay so: the run of restore_all that truncates it
\* writes it, or the next one does (guardScript: `cat backup > target`).
TornIsRepaired ==
    \A p \in Paths : file[p] = "torn" ~> (file[p] # "torn" \/ pc = "killed" \/ commit)

=============================================================================
