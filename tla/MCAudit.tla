------------------------------ MODULE MCAudit ------------------------------
(* Small instances of Audit for TLC: two files, two keys.                  *)
EXTENDS Audit, TLC

CONSTANTS old, new, root, toor, alice, nobody, p1, p2

MCUsers == {root, toor, alice, nobody}

MCKeys == {old, new}

MCPaths == {p1, p2}

\* root and toor have one home directory.
MCPathOf == root :> p1 @@ toor :> p1 @@ alice :> p2 @@ nobody :> p2

Present(u, k) == [flag |-> "present", user |-> u, key |-> k, bad |-> FALSE]

Absent(u, k) == [flag |-> "absent", user |-> u, key |-> k, bad |-> FALSE]

Line(present, absent) == [present |-> present, absent |-> absent]

\* A rotation is audited for two users, or for two that share a file; a key is
\* claimed to be there and not to be there; an argument is malformed.
MCLines == {
    Line(<< >>, << >>),
    Line(<< >>, <<Absent(alice, old), Absent(nobody, old)>>),
    Line(<<Present(root, new)>>, <<Absent(root, old), Absent(alice, old)>>),
    Line(<<Present(root, new)>>, <<Absent(toor, old), Absent(root, old)>>),
    Line(<<Present(root, old)>>, <<Absent(root, old)>>),
    Line(<<Present(root, old)>>, <<[Absent(root, old) EXCEPT !.bad = TRUE]>>)}

OneLine == {Line(<< >>, <<Absent(alice, old)>>)}

EveryFile == [MCPaths -> SUBSET MCKeys]

BothOld == {[p \in MCPaths |-> {old}]}
=============================================================================
