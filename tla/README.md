# A TLA+ model of sshkeytx

sshkeytx changes `authorized_keys` files over SSH as one transaction: it holds a
connection open, arms a trap on the host that undoes the change if the
connection ends without a commit marker, adds keys, proves them on fresh
connections, removes keys, proves that too, and only then lets go. This
directory models that program, checks it with TLC on small instances, and proves
with TLAPS, for all of them, every safety invariant that is checked.

References such as `tx.go:603` are to `src/internal/<package>/`.

## 1. The system

| part | state it keeps | operations | talks to |
|---|---|---|---|
| transaction driver (`tx/tx.go`) | per user: path, original content, working copy, `dirty`, `manifested`, `writeUnconfirmed`; local backup directory; the order of users | `Run`: validate, connect, loadFiles, phaseAdd, phaseVerifyAdded, phaseRemove, phaseVerifyRemoved, commit; any error goes to `abort` | remote commands, guard, probes, local disk |
| guard session and trap (`tx/guard.go`) | client side: `exited`, a goroutine on stdout and one in `Wait`; host side: `$TX/ready`, `$TX/manifest`, `$TX/backup/*`, `$TX/commit`, `$TX/restored`, `$TX/restore-refused` | `startGuard`, `alive`, `closeGraceful`; the script's `restore_all` on end of file or a signal | one session on the guard connection; the files |
| remote commands (`remote/remote.go`) | none; a goroutine per command that may be given up | `Run` with a timeout; `Stat`, `ReadFile`, `SwapFile`, `WriteFile`, `AppendFile`, `Remove`, `LookupUser`, `MkTxDir` | a new session per command on the guard connection |
| write policy (`remote/remote.go`) | none | `CheckWriteTarget`, `DecideWriteOpts` | called by apply, its revert, and restore |
| text edits (`authkeys/authkeys.go`) | the parsed lines, `noFinalNewline` | `Parse`, `Render`, `Find`, `Remove`, `Add` | called by the driver |
| probes (`sshx/sshx.go`) | none; sshd keeps penalties for their failures | `ProbeKey`, `VerifyAuth`: accepted, refused or no verdict | fresh connections to sshd |
| watchdog (`tx.go:357`) | `connLost`, `connErr`, a goroutine per keepalive | a keepalive every 15 s | read by `checkHealth` |
| local backup, `meta.json` | one directory per transaction | `ensureCAS` writes the copies, `finishMeta` the document | read by restore |
| check, probe (`cli/cli.go`) | check: the map `files`, one reading per user | judge claims about keys; ask sshd about keys | the files over one connection; probes |
| rest of the command line (`cli/cli.go`) | none | apply, restore, version | all of the above |

### What is hard about it

* *Partial knowledge.* A command that failed may have taken effect. What the
  client believes of a file and what the file holds come apart, and the reports
  ("reverted and verified") have to stay true.
* *Two writers.* The client and the trap both write the files, and neither
  excludes the other: the trap starts when *it* notices the end of its session.
  A second run, with a trap of its own, may write them too.
* *Order.* Copy, manifest line, swap; additions proven before removals; evidence
  before the marker; the marker before the transaction directory goes.
* *Failures on the way out.* abort runs when something is already broken, and
  its own commands may fail; so may the restore that comes after it.
* *Waiting.* Several goroutines share one connection that may fall silent, and
  each has its own idea of how long to wait.
* *Being counted.* A probe that proves a removal is a failed login to sshd, which
  shuts out those who collect too many.
* *Policy.* A decision who writes a file also decides whether the write can be
  undone, and restore takes the decision again years later.

### What makes each part correct

* driver: reports are true (`HonestRevert`, `CommittedMeansRequested`), nothing
  is removed too early (`RemovalAfterProof`, `NoEmptyWindow`), a commit rests on
  current evidence (`CommitRestsOnAcceptance`), it always ends (`Termination`);
* guard: every changed file can be restored (`WriteAhead`), the trap writes
  originals only (`TrapRestoresOriginal`), and does so whenever it is needed
  (`DeadMan`, `BackstopHolds`); command by command, it deals with every line
  (`RestoresAll`), says so last (`EvidenceIsLast`), heeds the marker
  (`MarkerDisarms`) and leaves no file truncated (`TornIsRepaired`);
* both together: `AllOrNothing`, and the abstract `AtomicChange`;
* connection: its loss is noticed and reported once (`DeathNoticed`,
  `LossReported`), connect ends and leaves nothing behind (`ConnectEnds`,
  `NothingLeft`);
* probes: a verdict is sshd's and about the key (`PassedIsProven`,
  `RefusedIsJudged`), their own penalties do not defeat them
  (`OwnPenaltiesPass`), and they end (`ProbesEnd`);
* several runs: the last writer is told the truth (`LastWriterTrue`), and nobody
  loses a key that none of them is asked to remove (`StandingKeysStay`);
* local backup and restore: what has changed is documented
  (`ChangesDocumented`), a restore writes originals (`RestoreWritesOriginals`),
  undoes the whole transaction (`RestoreUndoes`) and works (`BreakGlassWorks`);
* policy: `RevertLands`, `OwnershipKept`, `NoRootWriteInUserDir`;
* check: its verdicts are of one moment (`OneReading`);
* text: `RoundTrip`, `EditsTheKeySet`, `KeepsOtherLines`.

## 2. The modules

```
AtomicChange                      what an operator is promised
     ^ refinement
TransactionProperties             the properties and the fairness
     | extends     ^---- BreakGlass    the copies, meta.json, restore  <--- MCBreakGlass
Transaction                       tx.go      <--- MCTransaction (TLC)
     | extends
Guard                             guard.go

TransactionProofs  extends TransactionProperties     types, ledger, order
OutcomeProofs      extends BreakGlass, TransactionProofs   outcomes, refinement, restore

Recovery                          abort and restore against owners and modes
     | extends                                    <--- MCRecovery, RecoveryProofs
WritePolicy                       remote.go: who writes

TrapScript     the script, command by command     <--- MCTrapScript, GuardProofs
Connect        connections and goroutines         <--- GuardProofs
Probes         probes against sshd's penalties    <--- MCProbes, ProbeProofs
Contention     several runs on one file           <--- MCContention, ContentionProofs
Audit          the check command                  <--- MCAudit, AuditProofs
AuthKeys       authkeys.go: the text              <--- MCAuthKeys, AuthKeysProofs
```

Transaction follows one run through all of its commands. What it takes for one
step, because the rest of the run cannot see more of it, is taken apart in a module
of its own: the script in TrapScript, the connection in Connect, a probe in Probes,
the local disk in BreakGlass, the reason for which a write fails in Recovery, the
text of a file in AuthKeys. Contention goes the other way: it makes a run coarser
to put two of them side by side.

**Guard** holds what is on the host. `file` maps a path to its content: a set of
keys, or `Absent`. `backup`, `manifest`, `commit` and `restored` are the contents
of `$TX`. `guard` is where the script is (off, armed, restoring, exited), `queue`
the manifest lines its loop has still to read. `EnterRestore` is the head of
`restore_all`, which looks for the marker *once*; `RestoreEntry` is one turn of
the loop; `RestoreDone` leaves `$TX/restored`. The trap runs when stdin is closed
or the connection is down (`TrapOnEOF`), or on a signal (`TrapOnSignal`).

**Transaction** is the client. `phase` and `step` say where it is, `cur` is the
user its loop is at, `todo` the pairs it has still to probe, `tries` the attempts
at the present probe. `orig`, `work`, `dirty`, `manifested` are the fields of
`userFile` (a set of users for a Boolean field); `writeUnconfirmed` only changes a
log line and is left out. `exitSeen` is `guard.exited`, set by the goroutine that
waits for the session (`GuardExitSeen`), some time after the script has ended.
Each remote command is one step with the outcomes that `remote.Run` can report:
*answered*; *refused* (an `ExitError`, nothing changed); *lost* (nothing changed,
nothing known); *landed* (it took effect, nothing known). What `SwapFile`
sends, in a swap or in a revert, has two more: *torn* (the session ends while the
content is sent, with the connection or because `CommandTimeout` closes it; `cat`
sees end of file and the rename installs what arrived) and *late* (the command
outlives its session and lands later, whole or in part). The step of a command
includes everything the code does with its result up to the next command.

**TransactionProperties** states the properties. `before`, `proven` and
`witnessed` are history variables; no guard reads them. A user leaves `witnessed`
with every write that changes its file, whoever writes it: a swap, a revert, a
late command or the trap.

**AtomicChange** is the promise without mechanism: files old, new or in between;
one report, true when made and ever after; and in the end all or nothing.

**BreakGlass** adds the operator's disk to Transaction: `files` is `t.files` with
its originals, `copy` the saved authorized_keys of each user, `document` and `meta`
are `meta.json` as `finishMeta` leaves it at every end of a run (or does not: the
process crashed, the disk refused). Each action of Transaction is conjoined with
what it does to that disk, and `restoreCmd` follows: its refusals before it
connects, `--force-different-host`, `--dry-run`, and a loop over the files of which
every command may fail, and every `SwapFile` be torn or land late as well
(`RestoreFails`, `RestoreLate`). A restore can be asked for again, and runs on a connection
of its own while the trap of the transaction may still be at work. `strays`
remembers that a swap the run had given up has landed since.

**WritePolicy** translates `CheckWriteTarget`, `DecideWriteOpts`,
`dirWritableByOthers`, the mode check of `WriteOpts.validate`, and what `SwapFile`
leaves behind. `MayWriteIn` is the host's permission check, which is not the
program's. **Recovery** runs these through one transaction, its revert, and a
later restore, over files and directories of every kind. It is where a write
fails for a *reason*; in Transaction it just fails. A mode that `WriteOpts.validate`
refuses is no `ExitError`, so the file stays `dirty`, its revert fails for the same
reason, and the run ends "unverified". `asRoot` records what root's credentials
have done: which file, and whether it was a write or an unlink. The trap is not in
this module.

**TrapScript** is `guardScript` one shell command at a time: `pc` is the command,
`pos` the lines read, `pending` a signal whose trap runs when the present command
is over, from the beginning of `restore_all` and abandoning the run it interrupts.
`cat backup > target` truncates (`file[p] = "torn"`) and then writes. A line may
be partial, a target may have become a symbolic link (then it is refused and the
refusal recorded), the shell may be killed. The client goes on beside it until the
session is over; `promised` and `marked` remember what was there at that moment. When
`restore_all` has returned the shell has still to exit ("leaving"), and a signal may
run it once more: it looks for the marker again, and without one it writes the
files again, though `$TX/restored` is already there.

**Connect** is the guard connection: the dial, the commands of `connect` with the
bound of `remote.Run`, `startGuard` with its readiness token and timeout, the
watchdog with its ticker and its goroutine in `SendRequest`, the waiter, the reader
on stdout, `closeGraceful`, and the deferred cleanup when connect fails. A
connection may go down, or fall *silent*: nothing comes through and nobody is
told, until the kernel gives it up. Time passes in the sense that every timeout may
expire while its operation is under way.

**Probes** is what Transaction calls `Accepts`: `agenda` is the sequence of goals
in the order in which the phases (or the probe command) ask, each with its probes.
`Handshake` gives sshd's answer for each policy of a user (an `AuthorizedKeysFile`
elsewhere, a user refused, a second factor, no authentication at all), and the
penalty is counted in whole seconds as OpenSSH does: booked up to `Lag` failures late, in
force above a threshold, expiring. `asleep` is the sleep of `probeVerdict`,
`lastErr` the variable of `someKeyAccepted`. Lost connections and the failures of
others behind the same address are the `Noise`.

**Contention** puts several runs on one file. A run is what the others can see of
it: when it reads, writes and asks. Each has its `orig`, `work`, backup, marker and
trap; `onFile` are the traps that have the file open (a trap writes in place, a
swap replaces the file, so a trap may go on writing into the unlinked one).

**Audit** is `checkCmd`: presences first, then absences, each user's file read
once (`files`), while others rewrite the files. `held` is history: what each file
has held since the command started.

**AuthKeys** is the text. A line body is a model value and `KeyOf` says which key
it parses to; there is a body with options, a comment, and the empty line. `Split`, `Only` (the
lines that `Remove` keeps) and `Joined` scan a sequence as the code's loops do, as
recursive functions. What `Transaction` assumes, that a content *is* its set of
keys, is checked here, and proved.

**Connect** and **TrapScript** name their state apart (`stage` and `pc`,
`ConnectSpec` and `Spec`): GuardProofs extends both.

### Correspondence

`PROJECT.json` ("map") gives the lines of each definition. Actions by code:

| code | actions |
|---|---|
| `validate`, `connect`, `loadFiles` | Validate, Connect, ConnectFails, Load, LoadFails |
| `checkHealth` | CheckHealth (its four failures: connLost and a lost answer, exited, restored, refused) |
| `ensureCAS` | SaveLocal, SaveBackup, AppendManifest, or Snapshot in a later phase; in BreakGlass with the copy on disk |
| `swap` | SwapAnswered, SwapRefused, SwapLost, SwapLanded, SwapTorn, SwapLate |
| `probeVerdict`, phaseVerify\*, `someKeyAccepted`, `proveAccess` | ProbeAgain, ProbeAdded, ProbeRemoved, PositiveControl, ProveAccess; in Probes one action per attempt, sleep and booking |
| `commit`, `releaseGuardNoChanges` | WriteMarker, CloseStdin, AwaitGuard, RemoveTxDir, Report |
| `abort` | RevertFile, ReadBack, Disarm, CloseStdin, AwaitGuard, HangUp |
| `finishMeta`, `restoreCmd` | the actions of BreakGlass; Restore, RemoveFile, RestoreFile, Refuse, RestoreFails, Restored of Recovery |
| `guardScript` | Guard's TrapStep; TrapScript's Shell, command by command |
| `connect`'s goroutines, `startGuard`, `closeGraceful`, `remote.Run` | the actions of Connect |
| `checkCmd`, `probeCmd` | the actions of Audit; Probes with a request of the probe command |

### Abstractions

* In Transaction the watchdog is no process: it can only make a later
  `checkHealth` fail, and every health check of the model may fail that way. The
  watchdog itself is in Connect, as are the commands of `connect`, which are one
  step here because nothing is written until they are over.
* `loadFiles` is one step for the same reason.
* Loops over keys probe in one fixed order (`CHOOSE`); the code's order is that of
  the operations or of the lines, and the properties do not depend on it. Probes
  has the code's order, because there the penalty does.
* In Transaction the trap restores a file in one step. That this is sound for one
  run is the subject of TrapScript; what another run can see of the gap is in
  Contention.
* Symbolic links are in TrapScript only: the client refuses them before it writes
  and nothing in the other modules makes one.
* Of the commands only `SwapFile` is torn or lands late: a manifest line that is
  sent in part is in TrapScript, and copies and markers are in `$TX`. In Contention
  no swap is torn or late.
* Recovery leaves out the trap, whose writes as root go wherever apply has written.
* Connect's `mktemp` that is cut off may or may not have made the directory.
* `Finish` closes the connection (`defer t.client.Close()`) in the step that
  reports.
* A copy on the operator's disk is there whole or not at all.
* Time is in Probes only, in seconds, the dial timeout included; elsewhere a timeout
  just may expire.
* Contention leaves out what goes wrong in a run on its own (a refused second
  swap, a marker that lands unheard, a late swap): Transaction has it.
* Audit takes a fingerprint for its key, and a missing file for one without keys.
* In Recovery a user is both name and uid, and groups have no members.

## 3. The runs that pass

| run | what varies | shows |
|---|---|---|
| TxSafety | seven requests × three states of the files; guard signalled, killed, stalled; connection drops; crash; denied users; silent probes (three attempts, as in the code); every command refused or unheard, except that a swap is not refused | `HonestRevert`, `RemovalAfterProof`, `NoEmptyWindow`: reports of "nothing changed" are true; additions proven before removals; no window without a usable key |
| TxFaults | two requests; all of the above, refused swaps, torn and late swaps and reverts; a key that opens a user whatever the file holds | `WriteAhead`, `TrapRestoresOriginal`, `CommitRestsOnAcceptance`: what needs no assumption on swaps |
| TxLiveness | seven requests × three states; drops, torn swaps, crashes, lost answers, silent probes; fair | `CommittedMeansRequested`, `AllOrNothing`, `BackstopHolds`, `DeadMan`, `Termination`, and the refinement of AtomicChange |
| BreakGlass | three requests (one of them a plan) × two states, a new file among them; local disk, swaps and reverts refused; lines, swaps, reverts and markers unheard, swaps and reverts torn and late; guard signalled or killed; drops; crash; an outage of the host for the restore, whose swaps may be torn or late, too; a disk that cannot be written; up to two restores of every kind; fair | `ChangesDocumented`, `RestoreWritesOriginals`, `RestoreUndoes`, `BreakGlassWorks` |
| TrapScript | two files, each old or new; two signals at any command and after the last, `kill -9`, targets replaced by links, partial lines, a client that goes on; fair | `RestoresAll`, `EvidenceIsLast`, `MarkerDisarms`, `TornIsRepaired` |
| Connect | a connection that falls silent, drops or is slow at every stage; refused commands; a kernel that gives up a silent connection or never does; fair | `LossReported`, `DeathNoticed`, `ConnectEnds`, `NothingLeft` |
| Probes | four requests and a `probe` command × every pair of policies; the penalties of OpenSSH 9.8 in seconds; three disturbances; fair | `PassedIsProven`, `RefusedIsJudged`, `OwnPenaltiesPass`, `ProbesEnd` |
| Contention | two runs, each with one of four requests, on a file with one key or two; probes without a verdict, lost swaps, failed reverts, crashes | `LastWriterTrue`, `StandingKeysStay` |
| Recovery | guard root or a user; two files of any of three users; four states of a file and five of a directory; restores that fail or find a file deleted | `RevertLands`, `OwnershipKept`, `NoRootWriteInUserDir` |
| Audit | six command lines (two users of one file, both claims of one key, a malformed one); every content of two files; three rewrites meanwhile | `OneReading` |
| AuthKeys | every text of up to five tokens over four bodies and the newline, blank lines included; three edits, stored at any time | `RoundTrip`, `EditsTheKeySet`, `KeepsOtherLines` |

TxSafety, Probes and Contention check a type invariant too. Those of the other
modules (`TypeOK`, `BreakGlassTypeOK`) are stated and were checked while the
modules were written; Recovery's is a theorem.

### Bounds, and why they are enough

* **Two users.** Loops over users are in sorted order and a user's file is touched
  by its own steps only; two are the least number with a file done, one at hand and
  one to come. One user with a shared path is in SharedFile.
* **Three keys.** One to take away, one to add, one that stays. The requests
  rotate both users or one, grant to one and revoke from the other, take away what
  may be the last key, name keys by fingerprint that are there or not, add what is
  there already, plan without writing, and cancel themselves.
* **ProbeAttempts** is 3 in TxSafety and Probes (the code's `probeAttempts`) and 2
  elsewhere; two suffice to have a repeated probe. In BreakGlass, where the probes
  only decide how the transaction ends, it is 1.
* **MaxRestores = 2**: one that fails half way and one that is to finish it.
* **MaxSignals = 2**: one that starts the trap and one that interrupts it.
* **Noise = 3, Lag = 1** (Probes): as many disturbances as attempts, and a
  connection that comes before the failure of the last one is booked.
* **Two runs** (Contention): one to write and one to write over it.
* **MaxWrites = 3** (Audit): one more than the files.
* **MaxText = 5, MaxEdits = 3**: five tokens hold three lines, blank ones and a
  missing final newline included; three edits allow add, remove, add.
* **NumFiles = 2** (Recovery): one file done before another fails.

Nothing else is bounded: the manifest has at most a line per user because the
client writes no more. For the safety properties the proofs of section 5 do away
with the bounds.

### Why some faults are left out of a run

A run names the faults under which its properties hold; where one does not, there
is a configuration that shows it (section 4) or a line here.

* TxSafety has no refused, torn or late swap: SwapRefused breaks `HonestRevert`,
  a late swap does so as well, and a torn one empties a file for a moment
  (`NoEmptyWindow`).
* TxLiveness has no signalled, killed or stalled guard, no refused or unheard
  marker and no late swap: see GuardSignalled, MarkerUnheard and LateSwap;
  `kill -9` is excluded by the program's own limitations (`src/README.md:145`). A
  *stalled* guard, which has not looked for the marker ten seconds after its
  stdin was closed, meets an `rm -rf` that may unlink the marker before the
  manifest, and then restores a committed transaction: `CommittedMeansRequested`
  fails under "stall" too.
* Contention excepts, in both properties, what a run has made of a file that a
  trap was just writing: `cat backup > target` truncates, and a run that loads the
  file in that moment takes it for empty (`torn`).
* Connect has no `mkdir` that fails (DirectoryLeft).

### Fairness

`Fairness` (Transaction) is weak fairness of the client, the trap, the goroutine
that waits for the guard session, and late commands. The client is one goroutine
that, on a connection that does not fall silent, never waits without a bound:
commands end after `CommandTimeout`, probes after the dial timeout and
`probeAttempts`, `closeGraceful` after its timeout. The script runs on the host's
shell and sshd ends its session when the connection is gone (on a silent partition
only after the server's own timeouts, `src/README.md:142`; the property says
"eventually"). Faults are never fair.

* `BreakGlassFairness` adds the steps of a restore that has been asked for; that it
  is asked for, and that a command of it fails, is not fair.
* TrapScript: the shell, and the end of the session.
* Connect: the main goroutine, each of the others, and a host that answers on a
  connection that is up. That the kernel gives up a silent connection is an
  assumption of its own, `Patience`, made only where it is needed (`ConnectEnds`,
  `NothingLeft`); `DeathNoticed` does without. CommandHangs shows what happens
  without it.
* Probes: the client, and sshd's booking of failures.
* Contention, Audit, Recovery and AuthKeys state no liveness and assume none.

## 4. Claims that do not hold

Each line is a configuration in this directory with one property, taken from what
the repository says of itself, and TLC finds it violated:
`tlc -config <name>.cfg <module>`. SwapRefused is kept as a run of the project.

| configuration, module | the code | what it contradicts |
|---|---|---|
| SwapRefused, MCTransaction | `tx.go:603`: a swap that exits with a non-zero status clears `dirty` also when the previous phase's swap of that file has landed. abort skips the file and reports `aborted-reverted`; the added key stays. | the comment at `tx.go:595`, `src/README.md:18` |
| GuardSignalled, MCTransaction | `tx.go:972`: between the last health check and the marker there may be minutes of probes; a trap that has started in the meantime restores the files and the run reports a commit. | `tx.go:976` |
| MarkerUnheard, MCTransaction | `tx.go:973`: the marker landed and its answer was lost; abort reverts, a revert fails, and the trap it falls back to is disarmed. | `tx.go:1056`, `src/README.md:125` |
| SharedFile, MCTransaction | `tx.go:489`: working copies are per user; two users with one path undo each other's changes. | `src/README.md:20` |
| LateSwap, MCTransaction | `remote.go:76`: the session of a command is given up, the command is not; it may land after the trap has restored. | `src/README.md:18` |
| RestoreRefuses, MCRecovery | `cli.go:553`: the target of a restore has no `EntryUID`, so a root guard refuses a user's own file in its own directory. | `cli.go:525` |
| RestoreHalf, MCRecovery | `cli.go:571`: a restore that fails at the second file exits 4. | `cli.go:28`, `src/README.md:135` |
| RestoreShort, MCBreakGlass | `tx.go:1137`: `meta.json` names every file of the transaction, the copies are taken one by one; a run that aborts before the last copy leaves a backup that a restore cannot finish. | `tx.go:1060` |
| PathShape, MCBreakGlass | `cli.go:482`: restore takes two shapes of paths, apply takes any template. | `cli.go:478` |
| SecondSignal, MCTrapScript | `guard.go:65`: a signal restarts `restore_all`, which looks for the marker again; if it has come in the meantime the interrupted restore is given up half way. | `guard.go:24` |
| DirectoryLeft, Connect | `remote.go:276`: `mktemp` and `mkdir` are one command; when the second fails nobody knows the directory's name. | `tx.go:325` |
| CommandHangs, Connect | `remote.go:58`: the session of a command is opened before its timeout starts; on a connection that has fallen silent that waits for the kernel. | `remote.go:56` |
| BlankLineLost, MCAuthKeys | `authkeys.go:66`, `authkeys.go:122`: when the last key of a text without a final newline is removed and a blank line stood before it, `Render` trims the newline that this line consists of. | `authkeys.go:3` |
| ProbeCommand, MCProbes | the probe command tries each key once: after five keys sshd's penalty for the first ones is its answer to the rest. | `tx.go:864` and the retries it argues for |
| GoneForHours, MCProbes | `tx.go:913`: `someKeyAccepted` asks for every key of the file, three times with a back-off; with 45 keys a host that is gone is given up after more than an hour, with the guard held open. | `tx.go:873` |
| LockedOut, MCContention | two runs that load the same file and revoke different keys leave none, although each has proven access. | `src/README.md:3` |
| EditLost, MCContention | `tx.go:480`: a swap writes what the run has loaded and edited; a commit of another run in between is lost. | `src/README.md:7` |
| HiddenFile, MCAudit | `remote.go:125`: `[ -e path ]` is false for a path in a directory that the guard user cannot search; `check --absent` passes for a key that is there. | `src/README.md:131` |

LateSwap, LockedOut and EditLost are limits of what can be done without a lock on
the host; the others are differences between one line of the code and another.
`tx.go:1046` calls a trap that fires after a verified revert "harmless (idempotent
restore)": for one run that is so (`HonestRevert` holds in TxSafety, where the
disarming marker may be lost), beside a second run it is one more writer.

## 5. What is proved

Every theorem holds for all values of the constants that satisfy the named
assumptions of its module: any number of users, runs, files and lines, any keys,
paths, requests, policies, and, unless it says otherwise, any choice of commands
and faults. TLC evaluates the assumptions on every run.

| module | theorem | statement | extra assumption |
|---|---|---|---|
| TransactionProofs | TypeCorrect | `Spec => []TypeOK` | |
| | LedgerInvariant | `Spec => []Ledger` | |
| | WriteAheadHolds | `Spec => []WriteAhead` | |
| | TrapRestoresTheOriginal | `Spec => TrapRestoresOriginal` | |
| | AdditionsComeFirst | `Spec => []RemovalAfterProof` | no torn swap |
| | CommitAlwaysWitnessed | `Spec => []CommitRestsOnAcceptance` | |
| | WindowStaysClosed | `Spec => []NoEmptyWindow` | no torn swap; a file of its own for every user |
| | EveryStepCounts | `Spec => []Counted /\ [][Lessens]_vars`, and `Fewer` is well-founded | finitely many keys |
| OutcomeProofs | RevertIsHonest | `Spec => []HonestRevert` | no refused or late swap |
| | TrapBacksUp | `Spec => []BackstopHolds` | `Backed` |
| | CommitIsTheRequest | `Spec => []CommittedMeansRequested` | `Backed`, `Separate` |
| | AllOrNothingEver | `Spec => []AllOrNothing` | `Promised` |
| | ChangesAtomically | `Spec => Promise!Init /\ [][Promise!Next]_(Promise!vars)` | `Promised` |
| | RestoresOnlyOriginals | `BreakGlassSpec => RestoreWritesOriginals` | |
| | ChangesAlwaysDocumented | `BreakGlassSpec => []ChangesDocumented` | |
| | RestoresUndo | `BreakGlassSpec => []RestoreUndoes` | |
| GuardProofs | RestoresEverything | `Spec => []RestoresAll` | |
| | EvidenceComesLast | `Spec => EvidenceIsLast` | |
| | MarkerAlwaysDisarms | `Spec => MarkerDisarms` | |
| | NoFileStaysTorn | `Spec => []NothingLeftTorn` | |
| | LossIsReported | `ConnectSpec => []LossReported` | |
| | LeftoversWane | `ConnectSpec => []Wired /\ [][Wanes]_connectVars` | |
| | ConnectGoesOn | `ConnectSpec => [][Advances]_connectVars` | |
| | ConnectTypeCorrect | `ConnectSpec => []ConnectTypeOK` | |
| ProbeProofs | ProbesTypeCorrect | `Spec => []TypeOK` | |
| | OwnPenaltiesNeverWin | `Spec => []OwnPenaltiesPass` | |
| | PassesAreProven | `Spec => []PassedIsProven` | |
| | RefusalsAreJudged | `Spec => []RefusedIsJudged` | |
| | EveryProbeCounts | `Spec => []Natural /\ [][Lessens]_vars`, and `Fewer` is well-founded | |
| ContentionProofs | ContentionTypeCorrect | `Spec => []TypeOK` | |
| | StandingKeysStayForAll | `Spec => []StandingKeysStay` | |
| | LastWriterIsToldTheTruth | `Spec => []LastWriterTrue` | |
| RecoveryProofs | RevertAlwaysLands | `Spec => []RevertLands` | |
| | OwnershipAlwaysKept | `Spec => []OwnershipKept` | |
| | RootStaysOut | `Spec => []NoRootWriteInUserDir` | |
| AuditProofs | OneReadingAlways | `Spec => []OneReading` | no hidden file |
| AuthKeysProofs | FileRoundTrip | `Spec => []RoundTrip` | |
| | EditsAreOfKeySet | `Spec => []EditsTheKeySet` | |
| | OtherLinesKept | `Spec => []KeepsOtherLines` | |

`Backed`: the script is not signalled or killed, no swap lands late, the answer to
the marker is not lost. `Separate`: the script is not stalled, and every user has a
file of its own. `Promised`: both, and no swap is refused. Each exception is real:
without it TLC finds a violation (section 4, and "Why some faults are left out").

### TransactionProofs

*Types.* `TypeOK` alone is not inductive: that `ToCopy` yields a step of the
program needs the phase to be one of the two that write. `TypeInv` adds which
phases go with which steps (`PcOK`). The loop `After(u, S)` picks a least element;
that it exists is `LeastNumber`, from the well-foundedness of `<`.

*The ledger.* `WriteAhead` speaks of files that changed and lines that restore
them; a step that appends a line or swaps a file preserves it only because of
where the client is. `Ledger` makes that explicit:

* *Loaded*: nothing is written before the originals are loaded, and afterwards
  `orig` is the content from before;
* *Copies*, *Lines*: a backup is of the original; a line that deletes names a file
  that was not there;
* *Position*: at "backup" the local copy exists, at "manifest" the backup is that of
  `orig`, at "swap" the user is manifested;
* *Armed*: every manifested user has its copy, its backup and its line, until the
  directory is removed;
* *Changed*: only files of manifested users differ from before, or can come to by a
  late swap.

`WriteAhead` follows from Armed and Changed; `TrapRestoresOriginal` from Copies and
Lines, since the trap writes nothing but what a line and a backup say. The proof
has a lemma per group of actions, `LedgerStep` puts them together, and TLC checked
`Ledger` as an invariant of the instances before it was proved.

*The order.* `RemovalAfterProof` compares the files with what a probe has seen, and
says nothing of a swap that is still to land or of the working copy that the next
swap installs. `Order` adds both, and what each phase has proven: *Probed* ("remove"
and everything after it has all the additions proven, and in "verifyAdd" a pair is
proven or still to be probed) and, while additions are left to prove, *Intact*
(every file, every late swap and every working copy holds the keys its file held
before). The one fault it excludes is real: a torn swap installs a prefix of the new
content, and a key of the old one may be missing from it until the trap has run.

*The window.* `NoEmptyWindow` follows from `Window`: any content that is, or may
come to be, in a file holds all that was there, or all that is wanted with the
additions proven (`Livable`). Whether a working copy is such a content depends on
the phase and, in "add", on the place in the loop.

*The evidence.* `Acceptance` says what `proveAccess` has been through: the users
before `cur` are witnessed, the probes of the present one are of its working copy,
and from "marker" on all are, each of them unless its file is back at the original.
The last clause is the trap's: it may write between the evidence and the report
(GuardSignalled shows such a run), takes the user out of `witnessed` when it changes
the file, and can change it to nothing but what was there before, which is what
`Ledger` says of its backups and lines. Nobody else writes after the evidence, but
for a swap that was given up, and that one has sent the client to abort.

*The end.* `Termination` is beyond the prover, but most of it is safety. `Remaining`
counts what is left: whether the client still runs, its phases, the steps of the
phase, the users of the loop, the commands for the user, the probes and their
attempts, the names in `$TX` that `rm` has to unlink; then the trap's states and its
queue, and how often the world can still interfere (users that become unreachable,
swaps that land late, the connection, the waiter). `EveryStepCounts` says that these
fourteen numbers stay natural (`Counted`) and that every step, whoever takes it,
makes them smaller in lexicographic order (`Lessens`), which nothing does for ever.
The order is where the argument is: a client's step may refill the loop or the
agenda of probes only by going on to a later phase or step, and the trap and the world
come behind the client because nothing they do sets it back. `Bounded` is the
invariant it needs: `tries` stays below `ProbeAttempts`, a readback is of a user,
the set of late swaps is finite. A retry that forgot to count, or a phase that went
back, would break it. What is left of `Termination` is that the client is never
stuck, which TLC checks.

### OutcomeProofs

Three invariants on top of these, and then the end of a run:

* *Honest*: a changed file is dirty; the revert has verified the dirty files it has
  passed, or `revertFailed` is set; it closes the guard only when all are as before.
  A refused swap breaks the first part, which is the violation of section 4.
* *Backstop*: the trap does not run before the client is gone or has closed its
  stdin, and while it runs every changed file has a sound line still in its queue;
  when it has ended without a marker the files are as before.
* *Carried*: how far each working copy has come (`Stage`, by phase and place in the
  loop: the start, with the additions, without the removals); the files agree with
  the working copies while the client is connected; the marker is written when all
  are at their final stage, and `rm` comes only after the script has ended.

`AllOrNothing` is then a case analysis over where the client was when it ended, and
the refinement says that a report changes nothing, is true, and is followed by no
change. `ImplementsAtomicChange` is the safety part (`ChangesAtomically`) and
`Settles`, which TLC checks.

The operator's disk and the restore:

* *Kept* joins `Ledger` to the disk. The copies are of the originals, every
  manifested user is in `files` with its copy, and the document is one of `files`
  (`Records`); a restore is at a documented user (`Going`).
* *Undone*: the files behind the restore's loop are as before the transaction. What
  keeps them there is `OnlyStraysWrite`: once a run has its outcome, the trap that
  may still run and everything else can only take a file back to its original, but
  for a swap that was given up. That the document names every changed file
  (`ChangesDocumented`) makes of it that *all* files are as before.

### The other modules

* *GuardProofs*, the script: lines name different files, so that a restored one is
  not touched again by a later line; what the loop has passed is dealt with; a run
  of `restore_all` that was interrupted counts for nothing, because it starts over.
  A truncated file (`TornAhead`): only the script truncates, with the line that writes
  the file at hand, and until it is written that line is ahead of the loop, or
  becomes so again with the run that is pending after a signal.
  The watchdog: it is started once, with the connection, and closes `connLost` from
  the last of its places, behind the one that notes the reason (`Places`).
  The end of a connection: `Wired` says that nobody who is left waits for something
  that cannot come. Every connection has a watchdog, and one that waits for a reply
  has a keepalive under way; a run that is over has closed its connection, which ends
  each of the goroutines. From then on every step lessens `Leftovers` (`Wanes`): no
  goroutine starts another, the watchdog does not tick again. A watchdog that kept
  ticking on a closed connection, or a command started in the cleanup after
  `Close`, would break it. `MainLeft` counts the same way what connect and its cleanup
  have before them: whatever fails, they never go back.
* *ProbeProofs*: `IndInv` bounds what can be left of the penalty after the attempts
  made so far. `PenaltyAssumption` is the arithmetic that the comment at `tx.go:864`
  gives in words: the sleeps of one probe outlast the largest penalty
  (`Min + AuthFail * (Lag + 1) < (ProbeAttempts - 1) * Backoff`), and what sshd books
  late does not reach the threshold by itself (`AuthFail * (Lag + 1) <= Min`).
  `Judged` says what the goals behind the client have come to, and the keys of the
  present one that it has tried. `Remaining` is the measure of `EveryProbeCounts`:
  goals, keys of the goal, attempts, the sleep, and behind them the disturbances,
  what sshd has to book and the seconds of the penalty.
* *ContentionProofs*: `Stays` (every content that is, or may come to be, in the file
  by a working copy, an original or a backup holds the standing keys), `Truth` (what
  the last writer knows of the file), and that other runs leave a run's own state
  alone (`Frame`). What a run has loaded from a file that a trap was writing is
  excepted by `torn`.
* *RecoveryProofs*: a directory that exists never changes and a file changes owner
  only as `SwapFile` says, so the decision taken for the swap is the one taken for
  the revert. The assumptions are about users and modes (`NobodyAssumption`,
  `ModesAssumption`, `UsersAssumption`, `InfosAssumption`, `NumFilesAssumption`).
* *AuditProofs*: what `files` remembers of a user is a content its file has held.
* *AuthKeysProofs*: a scan of a sequence is a recursive function, and what it
  computes needs induction. The library's induction theorems take an operator as a
  parameter, which no installed prover instantiates; the lemmas here take a *set*
  instead (`Induction`, from `WFMin`; `Recursion`, that a recursive definition has
  the value it describes; `Appending`, induction over sequences). With them `Only`,
  `Split` and `Joined` get one lemma for the empty sequence and one for `Append`,
  and nothing else looks inside them. Then `Only` is the measure for everything: a
  key is in a text when `Only(text, Matching(k))` is not empty, the other lines are
  `Only(text, Others)`, and splitting, joining and trimming move newlines alone, which
  `Only` does not see. `KeyedLines` says that of the working copy against the text
  on the host; `RenderParse` is the round trip.

### Not proved

Out of the prover's reach: liveness under fairness and `ENABLED` (`Termination`,
`DeadMan`, `BreakGlassWorks`, `TornIsRepaired`, `DeathNoticed`, `NothingLeft`,
`ConnectEnds`, `ProbesEnd`, the `Settles` part of AtomicChange). TLC checks these on
the instances of section 3. The safety half is proved: of `Termination`
(`EveryStepCounts`), `TornIsRepaired` (`NoFileStaysTorn`), `ProbesEnd`
(`EveryProbeCounts`), `ConnectEnds` (`ConnectGoesOn`), `NothingLeft` and `DeathNoticed`
(`LeftoversWane`). What TLC adds is that somebody with fairness can always move.
Every invariant and every action property of the runs is stated by a theorem.

## 6. Not modelled

* host-key policy, identities, the agent, the SSH handshake: library code without
  state of the program;
* parsing of key specifications, quoting, user-name validation, the output of
  `stat` and `id`, flags: text;
* `version`, `main`;
* writers of the files that are not this program: in Audit they rewrite a file at
  any time, in the other modules nobody does; no part of the code locks or compares
  a file, and Contention shows for its own runs what follows from that;
* a local copy or a document that is written half;
* `testsshd`: a server for the tests.

## 7. Plan

Done, most important first: Guard and Transaction with their safety properties;
AtomicChange and liveness; AuthKeys; WritePolicy and Recovery; BreakGlass;
TrapScript; Connect; Probes; Contention; Audit; and the proofs of section 5. Left:

1. **Proofs.** What else of the liveness is safety: a measure for the restore (the
   core of `BreakGlassWorks`). That the trap of Guard, which restores a line in one
   step, is what TrapScript does.
2. **Composition.** Transaction with two connections' worth of Connect under it
   would replace the assumption that a command is bounded by one about the kernel.
   The product is beyond TLC; as a refinement it would need Connect's steps as
   stuttering steps of Transaction.
