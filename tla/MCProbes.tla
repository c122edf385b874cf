------------------------------ MODULE MCProbes ------------------------------
(* Small instances of Probes for TLC.                                      *)
EXTENDS Probes

CONSTANTS old, new, kept, dss

MCKeys == {old, new, kept, dss}

Add(u, k) == [action |-> "add", user |-> u, key |-> k]

Remove(u, k) == [action |-> "remove", user |-> u, key |-> k]

Apply(ops, final, held) ==
    [command |-> "apply", ops |-> ops, final |-> final, held |-> held]

\* The rotation of tx.go:874: two users, with and without the private key.
Rotate(held) ==
    Apply(<<Remove(1, old), Remove(2, old), Add(1, new), Add(2, new)>>,
          <<<<kept, new>>, <<new>>>>, held)

\* Two removals from one file, and the last key of another.
RevokeTwo == Apply(<<Remove(1, old), Remove(1, new)>>, <<<<kept, dss>>, <<kept>>>>, {})

RevokeLast == Apply(<<Remove(1, old), Add(2, new)>>, <<<<>>, <<kept, new>>>>, {new})

\* The probe command, for the keys of both users.
Ask(ops) == [command |-> "probe", ops |-> ops, final |-> <<<<>>, <<>>>>, held |-> {}]

AskFour == Ask(<<Add(1, kept), Add(1, new), Add(2, kept), Add(2, new)>>)

MCRequests == {Rotate({}), Rotate({new}), RevokeTwo, RevokeLast, AskFour}

AskFive == {Ask(<<Add(1, kept), Add(1, new), Add(2, kept), Add(2, new), Add(1, kept)>>)}

\* A file with as many keys as a team has members.
ManyKeys == {Apply(<<Add(1, new)>>, <<[i \in 1..45 |-> kept], <<>>>>, {})}
=============================================================================
