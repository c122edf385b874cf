----------------------------- MODULE MCAuthKeys -----------------------------
(* Two keys, one of them also on a line with options, and a comment.       *)
EXTENDS AuthKeys, TLC

CONSTANTS k1, k2, none, l1, l1opt, l2, note

MCAKeys == {k1, k2}

MCBodies == {l1, l1opt, l2, note}

MCKeyOf == l1 :> k1 @@ l1opt :> k1 @@ l2 :> k2 @@ note :> none

MCNewBody == k1 :> l1 @@ k2 :> l2
=============================================================================
