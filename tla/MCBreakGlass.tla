---------------------------- MODULE MCBreakGlass ----------------------------
(* The instances of MCTransaction, each followed by restores.              *)
EXTENDS BreakGlass, TLC

CONSTANTS k1, k2, p1, p2, absent

MCKeys == {k1, k2}

MCPaths == {p1, p2}

OwnPaths == 1 :> p1 @@ 2 :> p2

AskFor(add1, add2, rm1, rm2) ==
    [add |-> <<add1, add2>>, remove |-> <<rm1, rm2>>,
     fingerprint |-> <<{}, {}>>, dryRun |-> FALSE]

Rotate == AskFor({k2}, {k2}, {k1}, {k1})

\* User 2's file needs no change: its key is not there.
RevokeOneInVain == AskFor({k2}, {}, {k1}, {k2})

GrantBoth == AskFor({k2}, {k2}, {}, {})

Plan == [Rotate EXCEPT !.dryRun = TRUE]

MCRequests == {RevokeOneInVain, GrantBoth, Plan}

OnlyRotate == {Rotate}

\* One file with k1, and the other with k1 or absent.
MCFiles == {p1 :> {k1} @@ p2 :> c : c \in {{k1}, absent}}

OneKeyEach == {p1 :> {k1} @@ p2 :> {k1}}

OnlyP1 == {p1}
=============================================================================
