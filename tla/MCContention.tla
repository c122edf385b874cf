---------------------------- MODULE MCContention ----------------------------
(* Two runs on a file of at most three keys.                               *)
EXTENDS Contention

CONSTANTS old, other, new

MCKeys == {old, other, new}

Rotate == [add |-> {new}, remove |-> {old}]

Grant == [add |-> {new}, remove |-> {}]

Revoke == [add |-> {}, remove |-> {old}]

RevokeOther == [add |-> {}, remove |-> {other}]

OneOrTwo == {{old}, {old, other}}

MCRequests == {Rotate, Grant, Revoke, RevokeOther}
=============================================================================
