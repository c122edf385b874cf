----------------------- MODULE TransactionProperties -----------------------
(***************************************************************************)
(* What a transaction promises, stated over the state of Transaction.  The *)
(* README's claims and the comments of tx.go and guard.go are the source   *)
(* of each; which faults a promise survives is what the runs show.         *)
(***************************************************************************)
EXTENDS Transaction

AllOriginal == file = before

\* The keys of path p once the whole request is carried out.
Wanted(p) ==
    LET owners == {u \in Users : PathOf[u] = p}
    IN  (KeysIn(before[p]) \cup UNION {req.add[u] : u \in owners})
            \ UNION {req.remove[u] : u \in owners}

AllRequested == \A p \in Paths : KeysIn(file[p]) = Wanted(p)

----------------------------------------------------------------------------
(* Safety.                                                                 *)

\* A run that reports "aborted-reverted", "failed-before-write" or "dry-run"
\* leaves every file as it found it, from that moment on: the remote trap,
\* still alive when abort closes it, undoes nothing of it either
\* (tx.abort, README "verified byte-for-byte").
HonestRevert ==
    outcome \in {"aborted-reverted", "failed-before-write", "dry-run"} => AllOriginal

\* A run that reports "committed" has carried out the whole request on every
\* file, and neither the trap nor the cleanup takes any of it back (tx.commit).
CommittedMeansRequested == outcome = "committed" => AllRequested

\* Until the transaction directory is removed, every file whose content has
\* changed is named by a manifest line that restores the original, and its
\* original is saved locally: the copy comes before the swap (tx.ensureCAS).
Sound(e) ==
    IF e.typ = "A" THEN before[PathOf[e.user]] = Absent
    ELSE before[PathOf[e.user]] # Absent /\ backup[e.user] = before[PathOf[e.user]]

Covered(p) ==
    \E i \in 1..Len(manifest) :
        /\ PathOf[manifest[i].user] = p
        /\ manifest[i].user \in local
        /\ Sound(manifest[i])

WriteAhead ==
    step # "rm" =>
        \A p \in Paths : file[p] # before[p] => Covered(p)

\* Whatever the trap writes is the pre-transaction content: a later phase's
\* copy of an intermediate state never becomes what it restores
\* (tx.ensureCAS: "the trap always restores the pre-transaction original").
TrapRestoresOriginal ==
    [][RestoreEntry => \A p \in Paths : file'[p] \in {file[p], before[p]}]_vars

\* No key disappears from any file before every added key, of every user, has
\* been accepted on a fresh connection (tx.Run: "Additions land and are
\* proven BEFORE anything is removed").
RemovalAfterProof ==
    (\E p \in Paths : KeysIn(before[p]) \ KeysIn(file[p]) # {}) => AddPairs \subseteq proven

\* A file that ends with a key, and began with one, never passes through a
\* state in which it holds none that was usable from the start or has been
\* proven (tx.Run: "the host never passes through a state with no key the
\* operator can use").
NoEmptyWindow ==
    \A u \in Users :
        KeysIn(before[PathOf[u]]) # {} /\ Wanted(PathOf[u]) # {} =>
            \E k \in KeysIn(file[PathOf[u]]) :
                k \in KeysIn(before[PathOf[u]]) \/ <<u, k>> \in proven

\* A commit rests on evidence of the final state: for every file that it
\* leaves changed, a key of its working copy was accepted on a fresh connection
\* after the last write that changed the file, the trap's included; a file
\* without such evidence is back at its original content (tx.proveAccess).
CommitRestsOnAcceptance ==
    outcome = "committed" =>
        \A u \in dirty : u \in witnessed \/ file[PathOf[u]] = before[PathOf[u]]

\* A run that ends "revert-unverified" has left the revert to the trap, and
\* once the trap is through every file is as before (tx.abort: "fall back to
\* the dead-man trap").
BackstopHolds == Settled /\ outcome = "revert-unverified" => AllOriginal

\* However the client ends, once the host has come to rest either the whole
\* request is carried out or nothing of it (README: "one transaction").
AllOrNothing == Settled => AllOriginal \/ AllRequested

----------------------------------------------------------------------------
(* Liveness.  The client is a program that keeps running while it has a    *)
(* step to take (every remote command is bounded by CommandTimeout), the   *)
(* script runs on the host's shell, sshd closes the session of a dead      *)
(* connection, and a command that has outlived its session ends.           *)

Fairness ==
    /\ WF_vars(Client)
    /\ WF_vars(Trap)
    /\ WF_vars(GuardExitSeen)
    /\ WF_vars(LandLate)

FairSpec == Spec /\ Fairness

\* The run ends and the host comes to rest: no wait of the client is for
\* something that cannot happen.
Termination == <>[]Settled

\* Once the connection is gone with the trap armed and no commit marker, every
\* file is put back and stays so, whatever the client does or does not do
\* (README: "If the process or the connection dies instead, the remote trap
\* performs the same revert on its own").
DeadMan == (conn = "down" /\ guard = "armed" /\ ~commit) ~> []AllOriginal

----------------------------------------------------------------------------
(* Refinement.                                                             *)

ReportOf(o) ==
    CASE o \in {"committed", "none"} -> o
      [] o \in {"aborted-reverted", "failed-before-write", "dry-run"} -> "unchanged"
      [] OTHER -> "left"

Promise == INSTANCE AtomicChange
    WITH old <- AllOriginal, new <- AllRequested, report <- ReportOf(outcome)

\* The transaction implements the atomic change that the README promises.
ImplementsAtomicChange == Promise!Spec
=============================================================================
