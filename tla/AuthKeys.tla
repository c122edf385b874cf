------------------------------ MODULE AuthKeys ------------------------------
(***************************************************************************)
(* The text of an authorized_keys file and its edits (authkeys.go): Parse, *)
(* Render, Remove and Add, as one transaction after the other applies them *)
(* to the file of one user.  Transaction takes a content to be the set of  *)
(* its keys; here it is checked that the edits of the text are those of    *)
(* the set, and that they disturb nothing else.                            *)
(*                                                                         *)
(* A text is a sequence of line bodies and newlines with no two bodies     *)
(* side by side; an empty line is nothing between two newlines.            *)
(***************************************************************************)
EXTENDS Integers, Sequences, SequencesExt

CONSTANTS
    AKeys,          \* public keys
    Bodies,         \* the line bodies that occur
    KeyOf,          \* the key that a body parses to; NoKey for a comment
    NewBody,        \* the body that Add writes for a key
    NoKey,
    Newline,
    Blank,          \* the body of an empty line
    MaxText,        \* bound: the longest text to begin with
    MaxEdits        \* bound: edits of the working copy

ASSUME TokensAssumption == Newline \notin Bodies /\ Blank \notin Bodies

\* What Add writes parses to the key it is for.
ASSUME KeysAssumption ==
    /\ NoKey \notin AKeys
    /\ KeyOf \in [Bodies -> AKeys \cup {NoKey}]
    /\ NewBody \in [AKeys -> Bodies]
    /\ \A k \in AKeys : KeyOf[NewBody[k]] = k

ASSUME BoundsAssumption == MaxText \in Nat /\ MaxEdits \in Nat

IsText(t) == \A i \in 1..(Len(t) - 1) : t[i] = Newline \/ t[i + 1] = Newline

Texts == {t \in SeqOf(Bodies \cup {Newline}, MaxText) : IsText(t)}

VARIABLES
    text,       \* the content on the host
    f,          \* the working copy: its lines and noFinalNewline
    added,      \* history: keys added to the working copy since it was parsed
    removed,    \* history: keys removed
    edits       \* edits so far

vars == <<text, f, added, removed, edits>>

\* The members of s that are in S, in the order of s.
Only(s, S) ==
    LET kept[i \in 0..Len(s)] ==
            IF i = 0 THEN << >>
            ELSE IF s[i] \in S THEN Append(kept[i - 1], s[i]) ELSE kept[i - 1]
    IN  kept[Len(s)]

Trim(t) == IF t # << >> /\ Last(t) = Newline THEN Front(t) ELSE t

\* strings.Split at the newlines: the last line grows, and a newline begins
\* the next one.
Split(t) ==
    LET lines[i \in 0..Len(t)] ==
            IF i = 0 THEN <<Blank>>
            ELSE IF t[i] = Newline THEN Append(lines[i - 1], Blank)
            ELSE Append(Front(lines[i - 1]), t[i])
    IN  lines[Len(t)]

\* A parse that does not notice a missing final newline.
ParseClosed(t) ==
    [lines |-> IF t = << >> THEN << >> ELSE Split(Trim(t)), noFinalNewline |-> FALSE]

Parse(t) ==
    [lines |-> IF t = << >> THEN << >> ELSE Split(Trim(t)),
     noFinalNewline |-> t # << >> /\ Last(t) # Newline]

\* Every line with a newline behind it.
Joined(lines) ==
    LET written(b) == IF b = Blank THEN <<Newline>> ELSE <<b, Newline>>
        out[i \in 0..Len(lines)] ==
            IF i = 0 THEN << >> ELSE out[i - 1] \o written(lines[i])
    IN  out[Len(lines)]

Render(g) == IF g.noFinalNewline THEN Trim(Joined(g.lines)) ELSE Joined(g.lines)

Matching(k) == {b \in Bodies : KeyOf[b] = k}

Finds(g, k) == \E i \in DOMAIN g.lines : g.lines[i] \in Matching(k)

\* A removal that stops at the first line that matches, and one that takes
\* every line without a key for one that matches.
RemoveFirstLine(g, k) ==
    LET at == CHOOSE i \in DOMAIN g.lines : g.lines[i] \in Matching(k)
    IN  [g EXCEPT !.lines = RemoveAt(@, at)]

RemoveKeylessLines(g, k) ==
    LET kept == Only(g.lines, Bodies \ (Matching(k) \cup Matching(NoKey)))
    IN  [lines |-> kept, noFinalNewline |-> kept # << >> /\ g.noFinalNewline]

RemoveLines(g, k) ==
    LET kept == Only(g.lines, (Bodies \cup {Blank}) \ Matching(k))
    IN  [lines |-> kept, noFinalNewline |-> kept # << >> /\ g.noFinalNewline]

AddLine(g, k) == [lines |-> Append(g.lines, NewBody[k]), noFinalNewline |-> FALSE]

Init ==
    /\ text \in Texts
    /\ f = Parse(text)
    /\ added = {} /\ removed = {} /\ edits = 0

RemoveKey(k) ==
    /\ edits < MaxEdits
    /\ Finds(f, k)
    /\ f' = RemoveLines(f, k)
    /\ added' = added \ {k}
    /\ removed' = removed \cup {k}
    /\ edits' = edits + 1
    /\ UNCHANGED text

AddKey(k) ==
    /\ edits < MaxEdits
    /\ ~Finds(f, k)
    /\ f' = AddLine(f, k)
    /\ added' = added \cup {k}
    /\ edits' = edits + 1
    /\ UNCHANGED <<text, removed>>

\* The working copy is swapped in, and the next transaction parses it.
Store ==
    /\ text' = Render(f)
    /\ f' = Parse(text')
    /\ added' = {} /\ removed' = {}
    /\ UNCHANGED edits

Next == Store \/ \E k \in AKeys : RemoveKey(k) \/ AddKey(k)

Spec == Init /\ [][Next]_vars

----------------------------------------------------------------------------
KeysOfText(t) == {KeyOf[t[i]] : i \in {j \in DOMAIN t : t[j] # Newline}} \ {NoKey}

\* A file that is parsed and written back without an edit keeps every byte,
\* blank lines and a missing final newline included (authkeys package comment,
\* File.noFinalNewline).
RoundTrip == Render(Parse(text)) = text

\* The edited text holds exactly the keys that the edits of the set give, with
\* a key written on several lines gone from all of them (File.Remove), so that
\* Transaction may take a content for the set of its keys.
EditsTheKeySet ==
    KeysOfText(Render(f)) = (KeysOfText(text) \ removed) \cup added

\* The lines that no edit names: those of other keys, comments, blank lines.
Unnamed == {b \in Bodies : KeyOf[b] \notin removed \cup added} \cup {Blank}

OtherLines(g) == Only(g.lines, Unnamed)

\* When an edit takes away the last line of a text without a final newline, a
\* blank line may come to be the last; Render drops the newline it consists of.
EndsInLostBlank(g) == g.noFinalNewline /\ Last(g.lines) = Blank

\* What is written has every line that no edit names, blank ones included, in
\* the order in which the text on the host has them, but for the blank line
\* that EndsInLostBlank loses (package comment: "Only lines explicitly matched
\* by an edit are touched").
KeepsOtherLines ==
    LET written == OtherLines(Parse(Render(f)))
    IN  OtherLines(Parse(text)) = IF EndsInLostBlank(f) THEN Append(written, Blank) ELSE written

\* The package comment without the exception ("comments, blank lines, options
\* and unparseable lines pass through byte-for-byte"), which does not hold.
EveryOtherLineKept == OtherLines(Parse(Render(f))) = OtherLines(Parse(text))
=============================================================================
