\* Texts of up to five bodies and newlines, three edits over any transactions.
CONSTANTS
    k1 = k1
    k2 = k2
    none = none
    l1 = l1
    l1opt = l1opt
    l2 = l2
    note = note
    AKeys <- MCAKeys
    Bodies <- MCBodies
    KeyOf <- MCKeyOf
    NewBody <- MCNewBody
    NoKey = none
    Newline = Newline
    Blank = Blank
    MaxText = 5
    MaxEdits = 3

SPECIFICATION Spec

INVARIANTS
    RoundTrip
    EditsTheKeySet
    KeepsOtherLines
