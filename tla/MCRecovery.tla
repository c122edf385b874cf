----------------------------- MODULE MCRecovery -----------------------------
(* Two files, of root or of either of two users, in directories of each    *)
(* kind.                                                                   *)
EXTENDS Recovery

CONSTANTS root, ann, bob, nobody

MCPeople == {ann, bob}

File(o, m) == [exists |-> TRUE, owner |-> o, mode |-> m]

MCModes == {<< >>, <<6, 0, 0>>, <<4, 4, 4>>, <<4, 4>>, <<7, 0, 0>>, <<7, 5, 5>>, <<7, 7, 7>>, <<7, 7, 5>>}

AnyFile == {NoFile, File(root, <<4, 4, 4>>), File(ann, <<6, 0, 0>>), File(bob, <<4, 4>>)}

AnyDir == {NoFile, File(root, <<7, 5, 5>>), File(ann, <<7, 0, 0>>),
           File(root, <<7, 7, 7>>), File(bob, <<7, 7, 5>>)}

Everybody == {root, ann, bob}

OnlyRoot == {root}

RootOrAnn == {root, ann}

OwnFile == {File(ann, <<6, 0, 0>>)}

OwnDir == {File(ann, <<7, 0, 0>>)}

OnlyAnn == {ann}

AnnAndBob == {ann, bob}

RootDir == {File(root, <<7, 5, 5>>)}

RootFile == {File(root, <<4, 4, 4>>)}
=============================================================================
