\* The last key of a text without a final newline is removed, and the blank line before
\* it goes with it.
CONSTANTS
    k1 = k1
    k2 = k2
    none = none
    l1 = l1
    l1opt = l1opt
    l2 = l2
    note = note
    AKeys <- MCAKeys
    Bodies <- MCBodies
    KeyOf <- MCKeyOf
    NewBody <- MCNewBody
    NoKey = none
    Newline = Newline
    Blank = Blank
    MaxText = 5
    MaxEdits = 1

SPECIFICATION Spec

INVARIANT EveryOtherLineKept
