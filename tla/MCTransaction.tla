--------------------------- MODULE MCTransaction ---------------------------
(* Small instances of Transaction for TLC: two users, three keys.          *)
EXTENDS TransactionProperties, TLC

CONSTANTS k1, k2, k3, p1, p2, absent

MCKeys == {k1, k2, k3}

MCPaths == {p1, p2}

OwnPaths == 1 :> p1 @@ 2 :> p2

SharedPath == 1 :> p1 @@ 2 :> p1

Ask(add1, add2, rm1, rm2) ==
    [add |-> <<add1, add2>>, remove |-> <<rm1, rm2>>,
     fingerprint |-> <<{}, {}>>, dryRun |-> FALSE]

\* Replace k1 by k2 for both users, or for one.
Rotate == Ask({k2}, {k2}, {k1}, {k1})
RotateOne == Ask({k2}, {}, {k1}, {})

\* Grant k2 to user 1 and take k1 from user 2.
GrantAndRevoke == Ask({k2}, {}, {}, {k1})

\* Take the key that may be the only one from both users.
Revoke == Ask({}, {}, {k1}, {k1})

\* The same by fingerprint, with an addition that may already be there.
Mixed == [Ask({k1}, {}, {k3}, {k1, k2}) EXCEPT !.fingerprint = <<{k3}, {k2}>>]

Plan == [Rotate EXCEPT !.dryRun = TRUE]

SelfCancelling == Ask({k1}, {}, {k1}, {})

EveryRequest == {Rotate, RotateOne, GrantAndRevoke, Revoke, Mixed, Plan, SelfCancelling}

\* User 2 gets in with k3 whatever its file holds.
KeyElsewhere == {<<2, k3>>}

FewRequests == {Rotate, GrantAndRevoke}

\* Grant k2 to user 1 and take k3 from user 2.
GrantAndRevokeOther == Ask({k2}, {}, {}, {k3})

\* Another request for each violation run.
OnlyRotateOne == {RotateOne}

OnlyRotate == {Rotate}

OnlyGrantAndRevokeOther == {GrantAndRevokeOther}

TwoKeysEach == {p1 :> {k1, k3} @@ p2 :> {k1, k3}}

\* One file with k1, and the other with k1, with k1 and another, or absent.
MCFiles == {p1 :> {k1} @@ p2 :> c : c \in {{k1}, {k1, k3}, absent}}

OneKeyEach == {p1 :> {k1} @@ p2 :> {k1}}
=============================================================================
