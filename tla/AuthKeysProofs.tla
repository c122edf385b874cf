--------------------------- MODULE AuthKeysProofs ---------------------------
(***************************************************************************)
(* For files of any length and any edits: a file comes back byte for byte  *)
(* from Parse and Render, the edits of the text are those of the key set,  *)
(* and no other line is touched, but for one blank line that is lost at    *)
(* the end of a text that has no final newline.                            *)
(*                                                                         *)
(* The operators of AuthKeys scan a sequence from its first member on.     *)
(* What such a scan computes is shown by induction over the sequence: a    *)
(* set of sequences that has the empty one, and each sequence with one     *)
(* more member, has them all (Appending).  It rests on a recursive         *)
(* definition having a value (Recursion) and that value depending on what  *)
(* has been scanned only (Extended); so each operator has a lemma for the  *)
(* empty sequence and one for Append, and nothing else looks inside it.    *)
(*                                                                         *)
(* Only does most of the work.  The keys of a text are what Only keeps of  *)
(* it, its other lines what Only keeps of its lines.  The bodies of a text *)
(* are those of its lines, because Only commutes with splitting, joining   *)
(* and trimming; and a file that is rendered and parsed has the same       *)
(* lines, blank ones included, up to the one that is lost.                 *)
(***************************************************************************)
EXTENDS AuthKeys, TLAPS, WellFoundedInduction

----------------------------------------------------------------------------
(* Induction.                                                              *)

Below == {ss \in Nat \X Nat : ss[1] < ss[2]}

\* What holds of 0, and of each number up to n when it holds of the one before,
\* holds of all of them.
LEMMA Induction ==
    ASSUME NEW n \in Nat, NEW T, 0 \in T, \A i \in 1..n : i - 1 \in T => i \in T
    PROVE  \A i \in 0..n : i \in T
<1> DEFINE rest == (0..n) \ T
<1> SUFFICES ASSUME rest # {} PROVE FALSE
  OBVIOUS
<1>1. IsWellFoundedOn(Below, Nat)
  BY NatLessThanWellFounded DEF OpToRel, Below
<1>2. rest \subseteq Nat
  OBVIOUS
<1>3. PICK x \in rest : \A y \in rest : ~ (<<y, x>> \in Below)
  <2> HIDE DEF rest
  <2> QED  BY <1>1, <1>2, WFMin, Zenon
<1>4. ASSUME NEW y \in rest
      PROVE  ~(y < x)
  <2>1. x \in Nat /\ y \in Nat
    BY <1>2, <1>3
  <2>2. <<y, x>> \notin Below
    BY <1>3
  <2> QED  BY <2>1, <2>2 DEF Below
<1>5. x \in 1..n /\ x - 1 \in rest
  BY <1>3
<1> QED  BY <1>4, <1>5

\* A function may be defined by its value at 0 and each value from the one
\* before.
GoesOn(g, n, c, next) == g[0] = c /\ \A i \in 1..n : g[i] = next[i][g[i - 1]]

Follows(g, n, S, c, next) == g \in [0..n -> S] /\ GoesOn(g, n, c, next)

LEMMA Recursion ==
    ASSUME NEW n \in Nat, NEW S, NEW c \in S, NEW next \in [1..n -> [S -> S]]
    PROVE  \E g : Follows(g, n, S, c, next)
<1> DEFINE T == {m \in 0..n : \E g : Follows(g, m, S, c, next)}
<1>1. 0 \in T
  <2>1. Follows([i \in 0..0 |-> c], 0, S, c, next)
    BY DEF Follows, GoesOn
  <2> QED  BY <2>1
<1>2. ASSUME NEW m \in 1..n, m - 1 \in T
      PROVE  m \in T
  <2>1. PICK g : Follows(g, m - 1, S, c, next)
    BY <1>2
  <2> DEFINE h == [i \in 0..m |-> IF i = m THEN next[m][g[m - 1]] ELSE g[i]]
  <2>2. g[m - 1] \in S /\ next[m][g[m - 1]] \in S
    BY <2>1 DEF Follows, GoesOn
  <2>3. h \in [0..m -> S] /\ h[0] = c
    BY <2>1, <2>2 DEF Follows, GoesOn
  <2>4. \A i \in 1..m : h[i] = next[i][h[i - 1]]
    BY <2>1 DEF Follows, GoesOn
  <2>5. Follows(h, m, S, c, next)
    BY <2>3, <2>4 DEF Follows, GoesOn
  <2> HIDE DEF h
  <2> QED  BY <2>5
<1>3. \A i \in 0..n : i \in T
  <2> HIDE DEF T
  <2> QED  BY <1>1, <1>2, Induction
<1> QED  BY <1>3

\* Two functions that go on in the same way from the same value are equal as
\* far as both are defined.
LEMMA Agreement ==
    ASSUME NEW n \in Nat, NEW c, NEW next, NEW g, NEW h,
           GoesOn(g, n, c, next), GoesOn(h, n, c, next)
    PROVE  \A i \in 0..n : g[i] = h[i]
<1> DEFINE T == {i \in 0..n : g[i] = h[i]}
<1>1. 0 \in T
  BY DEF GoesOn
<1>2. ASSUME NEW i \in 1..n, i - 1 \in T
      PROVE  i \in T
  BY <1>2 DEF GoesOn
<1>3. \A i \in 0..n : i \in T
  <2> HIDE DEF T
  <2> QED  BY <1>1, <1>2, Induction
<1> QED  BY <1>3

\* What holds of the empty sequence, and of a sequence with one more member
\* when it holds of the sequence, holds of every sequence.
LEMMA Appending ==
    ASSUME NEW X, NEW T, << >> \in T,
           \A s \in Seq(X), e \in X : s \in T => Append(s, e) \in T
    PROVE  \A s \in Seq(X) : s \in T
<1> SUFFICES ASSUME NEW s \in Seq(X) PROVE s \in T
  OBVIOUS
<1> DEFINE I == {i \in 0..Len(s) : SubSeq(s, 1, i) \in T}
<1>1. 0 \in I
  <2>1. SubSeq(s, 1, 0) = << >>
    OBVIOUS
  <2>2. 0 \in 0..Len(s)
    OBVIOUS
  <2> QED  BY <2>1, <2>2, Zenon
<1>2. ASSUME NEW i \in 1..Len(s), i - 1 \in I
      PROVE  i \in I
  <2>1. SubSeq(s, 1, i - 1) \in Seq(X) /\ s[i] \in X
    OBVIOUS
  <2>2. SubSeq(s, 1, i) = Append(SubSeq(s, 1, i - 1), s[i])
    OBVIOUS
  <2>3. i \in 0..Len(s)
    OBVIOUS
  <2>4. SubSeq(s, 1, i - 1) \in T
    BY <1>2, Zenon
  <2> QED  BY <2>1, <2>2, <2>3, <2>4, Zenon
<1>3. Len(s) \in Nat
  OBVIOUS
<1>4. \A i \in 0..Len(s) : i \in I
  <2> HIDE DEF I
  <2> QED  BY <1>1, <1>2, <1>3, Induction
<1>5. Len(s) \in 0..Len(s) /\ SubSeq(s, 1, Len(s)) = s
  OBVIOUS
<1> QED  BY <1>4, <1>5, Zenon

LEMMA Following ==
    ASSUME NEW n \in Nat, NEW S, NEW c \in S, NEW next \in [1..n -> [S -> S]], NEW g,
           g = [i \in 0..n |-> g[i]], g[0] = c,
           \A i \in 1..n : g[i - 1] \in S => g[i] = next[i][g[i - 1]]
    PROVE  Follows(g, n, S, c, next)
<1> DEFINE T == {i \in 0..n : g[i] \in S}
<1>1. 0 \in T
  OBVIOUS
<1>2. ASSUME NEW i \in 1..n, i - 1 \in T
      PROVE  i \in T
  <2>1. g[i - 1] \in S
    BY <1>2
  <2>2. g[i] \in S
    <3>1. g[i] = next[i][g[i - 1]]
      BY <2>1, Zenon
    <3>2. next[i] \in [S -> S]
      OBVIOUS
    <3> QED  BY <2>1, <3>1, <3>2
  <2> QED  BY <2>2
<1>3. \A i \in 0..n : i \in T
  <2> HIDE DEF T
  <2> QED  BY <1>1, <1>2, Induction
<1>4. \A i \in 0..n : g[i] \in S
  BY <1>3
<1>5. g \in [0..n -> S]
  BY <1>4
<1>6. ASSUME NEW i \in 1..n
      PROVE  g[i] = next[i][g[i - 1]]
  <2>1. i - 1 \in 0..n
    OBVIOUS
  <2> QED  BY <1>4, <2>1
<1> QED  BY <1>5, <1>6 DEF Follows, GoesOn

\* One step more.
LEMMA Extended ==
    ASSUME NEW n \in Nat, NEW S, NEW c, NEW next, NEW longer, NEW g, NEW h,
           Follows(g, n, S, c, next), Follows(h, n + 1, S, c, longer),
           \A i \in 1..n : longer[i] = next[i]
    PROVE  g[n] \in S /\ h[n + 1] = longer[n + 1][g[n]]
<1>1. GoesOn(g, n, c, next)
  BY DEF Follows
<1>2. GoesOn(h, n, c, next)
  <2>1. \A i \in 1..(n + 1) : h[i] = longer[i][h[i - 1]]
    BY DEF Follows, GoesOn
  <2>2. \A i \in 1..n : i \in 1..(n + 1)
    OBVIOUS
  <2>3. h[0] = c
    BY DEF Follows, GoesOn
  <2> QED  BY <2>1, <2>2, <2>3, Zenon DEF GoesOn
<1>3. \A i \in 0..n : g[i] = h[i]
  BY <1>1, <1>2, Agreement
<1>4. h[n + 1] = longer[n + 1][h[n]]
  BY DEF Follows, GoesOn
<1>5. g[n] \in S
  BY DEF Follows, GoesOn
<1> QED  BY <1>3, <1>4, <1>5

----------------------------------------------------------------------------
(* The members of a sequence that are in a set.                            *)

Keeps(s, S, e, i) == IF s[i] \in S THEN Append(e, s[i]) ELSE e

Kept(s, S) ==
    CHOOSE kept : kept = [i \in 0..Len(s) |->
        IF i = 0 THEN << >>
        ELSE IF s[i] \in S THEN Append(kept[i - 1], s[i]) ELSE kept[i - 1]]

KeepsNext(X, s, S) == [i \in 1..Len(s) |-> [e \in Seq(X) |-> Keeps(s, S, e, i)]]

LEMMA OnlyIsKept == \A s, S : Only(s, S) = Kept(s, S)[Len(s)]
  BY DEF Only, Kept

LEMMA KeepsNextType ==
    ASSUME NEW X, NEW s \in Seq(X), NEW S
    PROVE  KeepsNext(X, s, S) \in [1..Len(s) -> [Seq(X) -> Seq(X)]]
  BY DEF KeepsNext, Keeps

LEMMA KeptUnfolds ==
    ASSUME NEW X, NEW s \in Seq(X), NEW S
    PROVE  Kept(s, S) = [i \in 0..Len(s) |->
                IF i = 0 THEN << >>
                ELSE IF s[i] \in S THEN Append(Kept(s, S)[i - 1], s[i]) ELSE Kept(s, S)[i - 1]]
<1>1. PICK g : Follows(g, Len(s), Seq(X), << >>, KeepsNext(X, s, S))
  <2>1. << >> \in Seq(X) /\ Len(s) \in Nat
    OBVIOUS
  <2> QED  BY <2>1, KeepsNextType, Recursion, Zenon
<1>2. ASSUME NEW i \in 1..Len(s)
      PROVE  g[i] = Keeps(s, S, g[i - 1], i)
  <2>1. g[i - 1] \in Seq(X) /\ g[i] = KeepsNext(X, s, S)[i][g[i - 1]]
    BY <1>1 DEF Follows, GoesOn
  <2> QED  BY <2>1 DEF KeepsNext
<1>3. ASSUME NEW i \in 0..Len(s)
      PROVE  g[i] = IF i = 0 THEN << >>
                    ELSE IF s[i] \in S THEN Append(g[i - 1], s[i]) ELSE g[i - 1]
  <2>1. CASE i = 0
    BY <1>1, <2>1 DEF Follows, GoesOn
  <2>2. CASE i # 0
    <3>1. i \in 1..Len(s)
      BY <2>2
    <3> QED  BY <1>2, <2>2, <3>1 DEF Keeps
  <2> QED  BY <2>1, <2>2
<1>4. g = [i \in 0..Len(s) |-> g[i]]
  BY <1>1 DEF Follows, GoesOn
<1>5. \E kept : kept = [i \in 0..Len(s) |->
          IF i = 0 THEN << >>
          ELSE IF s[i] \in S THEN Append(kept[i - 1], s[i]) ELSE kept[i - 1]]
  BY <1>3, <1>4, Zenon
<1> QED  BY <1>5, Zenon DEF Kept

LEMMA KeptFollows ==
    ASSUME NEW X, NEW s \in Seq(X), NEW S
    PROVE  Follows(Kept(s, S), Len(s), Seq(X), << >>, KeepsNext(X, s, S))
<1> DEFINE k == Kept(s, S)
<1>1. k = [i \in 0..Len(s) |->
               IF i = 0 THEN << >>
               ELSE IF s[i] \in S THEN Append(k[i - 1], s[i]) ELSE k[i - 1]]
  BY KeptUnfolds
<1> HIDE DEF k
<1>2. k[0] = << >>
  <2>1. 0 \in 0..Len(s)
    OBVIOUS
  <2> QED  BY <1>1, <2>1, Zenon
<1>3. ASSUME NEW i \in 1..Len(s), k[i - 1] \in Seq(X)
      PROVE  k[i] = KeepsNext(X, s, S)[i][k[i - 1]]
  <2>1. i \in 0..Len(s) /\ i # 0
    OBVIOUS
  <2>2. k[i] = Keeps(s, S, k[i - 1], i)
    BY <1>1, <2>1, Zenon DEF Keeps
  <2> QED  BY <1>3, <2>2 DEF KeepsNext
<1>4. k = [i \in 0..Len(s) |-> k[i]]
  BY <1>1, Zenon
<1>5. << >> \in Seq(X) /\ Len(s) \in Nat
  OBVIOUS
<1>6. Follows(k, Len(s), Seq(X), << >>, KeepsNext(X, s, S))
  BY <1>2, <1>3, <1>4, <1>5, KeepsNextType, Following, Zenon
<1> QED  BY <1>6 DEF k

LEMMA OnlyEmpty == \A S : Only(<< >>, S) = << >>
<1> SUFFICES ASSUME NEW S PROVE Only(<< >>, S) = << >>
  OBVIOUS
<1>1. << >> \in Seq({}) /\ Len(<< >>) = 0
  OBVIOUS
<1>2. Follows(Kept(<< >>, S), Len(<< >>), Seq({}), << >>, KeepsNext({}, << >>, S))
  BY <1>1, KeptFollows, Zenon
<1> QED  BY <1>1, <1>2, OnlyIsKept, Zenon DEF Follows, GoesOn

LEMMA OnlyAppend ==
    ASSUME NEW X, NEW s \in Seq(X), NEW e \in X, NEW S
    PROVE  /\ Only(s, S) \in Seq(X)
           /\ Only(Append(s, e), S) = IF e \in S THEN Append(Only(s, S), e) ELSE Only(s, S)
<1> DEFINE t == Append(s, e)
<1>1. /\ t \in Seq(X) /\ Len(t) = Len(s) + 1 /\ Len(s) \in Nat
      /\ t[Len(s) + 1] = e /\ \A i \in 1..Len(s) : t[i] = s[i]
      /\ Len(s) + 1 \in 1..(Len(s) + 1)
  OBVIOUS
<1> HIDE DEF t
<1>2. Follows(Kept(s, S), Len(s), Seq(X), << >>, KeepsNext(X, s, S))
  BY KeptFollows
<1>3. Follows(Kept(t, S), Len(s) + 1, Seq(X), << >>, KeepsNext(X, t, S))
  BY <1>1, KeptFollows
<1>4. ASSUME NEW i \in 1..Len(s)
      PROVE  KeepsNext(X, t, S)[i] = KeepsNext(X, s, S)[i]
  <2>1. i \in 1..Len(t) /\ t[i] = s[i]
    BY <1>1
  <2> QED  BY <2>1, Zenon DEF KeepsNext, Keeps
<1>5. /\ Kept(s, S)[Len(s)] \in Seq(X)
      /\ Kept(t, S)[Len(s) + 1] = KeepsNext(X, t, S)[Len(s) + 1][Kept(s, S)[Len(s)]]
  BY <1>1, <1>2, <1>3, <1>4, Extended
<1>6. Kept(t, S)[Len(s) + 1] = Keeps(t, S, Kept(s, S)[Len(s)], Len(s) + 1)
  BY <1>1, <1>5, Zenon DEF KeepsNext
<1>7. Only(t, S) = Keeps(t, S, Only(s, S), Len(s) + 1)
  BY <1>1, <1>6, OnlyIsKept, Zenon
<1> QED  BY <1>1, <1>5, <1>7, OnlyIsKept, Zenon DEF Keeps, t

----------------------------------------------------------------------------
(* Every line with a newline behind it. *)

Lines == Bodies \cup {Blank}

Marks == Bodies \cup {Newline}

MarkSeqs == Seq(Marks)

Written(b) == IF b = Blank THEN <<Newline>> ELSE <<b, Newline>>

Writes(lines, e, i) ==
    e \o (IF lines[i] = Blank THEN <<Newline>> ELSE <<lines[i], Newline>>)

Output(lines) ==
    CHOOSE out : out = [i \in 0..Len(lines) |->
        IF i = 0 THEN << >>
        ELSE out[i - 1] \o (IF lines[i] = Blank THEN <<Newline>> ELSE <<lines[i], Newline>>)]

OutputNext(lines) == [i \in 1..Len(lines) |-> [e \in MarkSeqs |-> Writes(lines, e, i)]]

LEMMA JoinedIsOutput == \A lines : Joined(lines) = Output(lines)[Len(lines)]
  BY DEF Joined, Output

LEMMA OutputNextType ==
    ASSUME NEW lines \in Seq(Lines)
    PROVE  OutputNext(lines) \in [1..Len(lines) -> [MarkSeqs -> MarkSeqs]]
<1>1. ASSUME NEW i \in 1..Len(lines)
      PROVE  (IF lines[i] = Blank THEN <<Newline>> ELSE <<lines[i], Newline>>) \in Seq(Marks)
  <2>1. Newline \in Marks /\ (lines[i] # Blank => lines[i] \in Marks)
    BY DEF Lines, Marks
  <2>2. \A b, c \in Marks : <<b>> \in Seq(Marks) /\ <<b, c>> \in Seq(Marks)
    OBVIOUS
  <2> QED  BY <2>1, <2>2, Zenon
<1>2. \A s, r \in Seq(Marks) : s \o r \in Seq(Marks)
  OBVIOUS
<1>3. \A i \in 1..Len(lines), e \in MarkSeqs : Writes(lines, e, i) \in MarkSeqs
  BY <1>1, <1>2, Zenon DEF Writes, MarkSeqs
<1> QED  BY <1>3, Zenon DEF OutputNext

LEMMA OutputUnfolds ==
    ASSUME NEW lines \in Seq(Lines)
    PROVE  Output(lines) = [i \in 0..Len(lines) |->
        IF i = 0 THEN << >>
        ELSE Output(lines)[i - 1] \o (IF lines[i] = Blank THEN <<Newline>> ELSE <<lines[i], Newline>>)]
<1>1. PICK g : Follows(g, Len(lines), MarkSeqs, << >>, OutputNext(lines))
  <2>1. << >> \in MarkSeqs /\ Len(lines) \in Nat
    BY DEF MarkSeqs
  <2> QED  BY <2>1, OutputNextType, Recursion, Zenon
<1>2. ASSUME NEW i \in 1..Len(lines)
      PROVE  g[i] = Writes(lines, g[i - 1], i)
  <2>1. g[i - 1] \in MarkSeqs /\ g[i] = OutputNext(lines)[i][g[i - 1]]
    BY <1>1 DEF Follows, GoesOn
  <2> QED  BY <2>1 DEF OutputNext
<1>3. ASSUME NEW i \in 0..Len(lines)
      PROVE  g[i] =
        IF i = 0 THEN << >>
        ELSE g[i - 1] \o (IF lines[i] = Blank THEN <<Newline>> ELSE <<lines[i], Newline>>)
  <2>1. CASE i = 0
    BY <1>1, <2>1 DEF Follows, GoesOn
  <2>2. CASE i # 0
    <3>1. i \in 1..Len(lines)
      BY <2>2
    <3> QED  BY <1>2, <2>2, <3>1, Zenon DEF Writes
  <2> QED  BY <2>1, <2>2
<1>4. g = [i \in 0..Len(lines) |-> g[i]]
  BY <1>1 DEF Follows
<1>5. \E out : out = [i \in 0..Len(lines) |->
        IF i = 0 THEN << >>
        ELSE out[i - 1] \o (IF lines[i] = Blank THEN <<Newline>> ELSE <<lines[i], Newline>>)]
  BY <1>3, <1>4, Zenon
<1> QED  BY <1>5, Zenon DEF Output

LEMMA OutputFollows ==
    ASSUME NEW lines \in Seq(Lines)
    PROVE  Follows(Output(lines), Len(lines), MarkSeqs, << >>, OutputNext(lines))
<1> DEFINE k == Output(lines)
<1>1. k = [i \in 0..Len(lines) |->
        IF i = 0 THEN << >>
        ELSE k[i - 1] \o (IF lines[i] = Blank THEN <<Newline>> ELSE <<lines[i], Newline>>)]
  BY OutputUnfolds
<1> HIDE DEF k
<1>2. k[0] = << >>
  <2>1. 0 \in 0..Len(lines)
    OBVIOUS
  <2> QED  BY <1>1, <2>1, Zenon
<1>3. ASSUME NEW i \in 1..Len(lines), k[i - 1] \in MarkSeqs
      PROVE  k[i] = OutputNext(lines)[i][k[i - 1]]
  <2>1. i \in 0..Len(lines) /\ i # 0
    OBVIOUS
  <2>2. k[i] = Writes(lines, k[i - 1], i)
    BY <1>1, <2>1, Zenon DEF Writes
  <2> QED  BY <1>3, <2>2 DEF OutputNext
<1>4. k = [i \in 0..Len(lines) |-> k[i]]
  BY <1>1, Zenon
<1>5. << >> \in MarkSeqs /\ Len(lines) \in Nat
  BY DEF MarkSeqs
<1>6. Follows(k, Len(lines), MarkSeqs, << >>, OutputNext(lines))
  BY <1>2, <1>3, <1>4, <1>5, OutputNextType, Following, Zenon
<1> QED  BY <1>6 DEF k

LEMMA JoinedEmpty == Joined(<< >>) = << >>
<1>1. << >> \in Seq(Lines) /\ Len(<< >>) = 0
  OBVIOUS
<1>2. Follows(Output(<< >>), Len(<< >>), MarkSeqs, << >>, OutputNext(<< >>))
  BY <1>1, OutputFollows, Zenon
<1> QED  BY <1>1, <1>2, JoinedIsOutput, Zenon DEF Follows, GoesOn

LEMMA JoinedAppend ==
    ASSUME NEW lines \in Seq(Lines), NEW b \in Lines
    PROVE  /\ Joined(lines) \in MarkSeqs
           /\ Joined(Append(lines, b)) = Joined(lines) \o Written(b)
<1> DEFINE u == Append(lines, b)
<1>1. /\ u \in Seq(Lines) /\ Len(u) = Len(lines) + 1 /\ Len(lines) \in Nat
      /\ u[Len(lines) + 1] = b /\ \A i \in 1..Len(lines) : u[i] = lines[i]
      /\ Len(lines) + 1 \in 1..(Len(lines) + 1)
  OBVIOUS
<1> HIDE DEF u
<1>2. Follows(Output(lines), Len(lines), MarkSeqs, << >>, OutputNext(lines))
  BY OutputFollows
<1>3. Follows(Output(u), Len(lines) + 1, MarkSeqs, << >>, OutputNext(u))
  BY <1>1, OutputFollows
<1>4. ASSUME NEW i \in 1..Len(lines)
      PROVE  OutputNext(u)[i] = OutputNext(lines)[i]
  <2>1. i \in 1..Len(u) /\ u[i] = lines[i]
    BY <1>1
  <2> QED  BY <2>1, Zenon DEF OutputNext, Writes
<1>5. /\ Output(lines)[Len(lines)] \in MarkSeqs
      /\ Output(u)[Len(lines) + 1] = OutputNext(u)[Len(lines) + 1][Output(lines)[Len(lines)]]
  BY <1>1, <1>2, <1>3, <1>4, Extended
<1>6. Output(u)[Len(lines) + 1] = Writes(u, Output(lines)[Len(lines)], Len(lines) + 1)
  BY <1>1, <1>5, Zenon DEF OutputNext
<1>7. Joined(u) = Writes(u, Joined(lines), Len(lines) + 1)
  BY <1>1, <1>6, JoinedIsOutput, Zenon
<1> QED  BY <1>1, <1>5, <1>7, JoinedIsOutput, Zenon DEF Writes, Written, u

----------------------------------------------------------------------------
(* The lines between the newlines. *)

LineSeqs == Seq(Lines) \ {<< >>}

Scans(t, e, i) ==
    IF t[i] = Newline THEN Append(e, Blank) ELSE Append(Front(e), t[i])

Scan(t) ==
    CHOOSE out : out = [i \in 0..Len(t) |->
        IF i = 0 THEN <<Blank>>
        ELSE IF t[i] = Newline THEN Append(out[i - 1], Blank) ELSE Append(Front(out[i - 1]), t[i])]

ScanNext(t) == [i \in 1..Len(t) |-> [e \in LineSeqs |-> Scans(t, e, i)]]

LEMMA SplitIsScan == \A t : Split(t) = Scan(t)[Len(t)]
  BY DEF Split, Scan

LEMMA ScanNextType ==
    ASSUME NEW t \in Seq(Marks)
    PROVE  ScanNext(t) \in [1..Len(t) -> [LineSeqs -> LineSeqs]]
<1>1. ASSUME NEW i \in 1..Len(t), NEW e \in LineSeqs
      PROVE  Scans(t, e, i) \in LineSeqs
  <2>1. e \in Seq(Lines) /\ Front(e) \in Seq(Lines)
    BY DEF LineSeqs, Front
  <2>2. Blank \in Lines /\ (t[i] # Newline => t[i] \in Lines)
    BY DEF Lines, Marks
  <2>3. ASSUME NEW s \in Seq(Lines), NEW b \in Lines
        PROVE  Append(s, b) \in Seq(Lines) \ {<< >>}
    <3>1. Append(s, b) \in Seq(Lines) /\ Len(Append(s, b)) = Len(s) + 1 /\ Len(s) \in Nat
      OBVIOUS
    <3>2. Len(Append(s, b)) # 0
      BY <3>1
    <3>3. Append(s, b) # << >>
      BY <3>2
    <3> QED  BY <3>1, <3>3
  <2> QED  BY <2>1, <2>2, <2>3, Zenon DEF Scans, LineSeqs
<1> QED  BY <1>1, Zenon DEF ScanNext

LEMMA ScanUnfolds ==
    ASSUME NEW t \in Seq(Marks)
    PROVE  Scan(t) = [i \in 0..Len(t) |->
        IF i = 0 THEN <<Blank>>
        ELSE IF t[i] = Newline THEN Append(Scan(t)[i - 1], Blank) ELSE Append(Front(Scan(t)[i - 1]), t[i])]
<1>1. PICK g : Follows(g, Len(t), LineSeqs, <<Blank>>, ScanNext(t))
  <2>1. <<Blank>> \in LineSeqs /\ Len(t) \in Nat
    BY DEF LineSeqs, Lines
  <2> QED  BY <2>1, ScanNextType, Recursion, Zenon
<1>2. ASSUME NEW i \in 1..Len(t)
      PROVE  g[i] = Scans(t, g[i - 1], i)
  <2>1. g[i - 1] \in LineSeqs /\ g[i] = ScanNext(t)[i][g[i - 1]]
    BY <1>1 DEF Follows, GoesOn
  <2> QED  BY <2>1 DEF ScanNext
<1>3. ASSUME NEW i \in 0..Len(t)
      PROVE  g[i] =
        IF i = 0 THEN <<Blank>>
        ELSE IF t[i] = Newline THEN Append(g[i - 1], Blank) ELSE Append(Front(g[i - 1]), t[i])
  <2>1. CASE i = 0
    BY <1>1, <2>1 DEF Follows, GoesOn
  <2>2. CASE i # 0
    <3>1. i \in 1..Len(t)
      BY <2>2
    <3> QED  BY <1>2, <2>2, <3>1, Zenon DEF Scans
  <2> QED  BY <2>1, <2>2
<1>4. g = [i \in 0..Len(t) |-> g[i]]
  BY <1>1 DEF Follows
<1>5. \E out : out = [i \in 0..Len(t) |->
        IF i = 0 THEN <<Blank>>
        ELSE IF t[i] = Newline THEN Append(out[i - 1], Blank) ELSE Append(Front(out[i - 1]), t[i])]
  BY <1>3, <1>4, Zenon
<1> QED  BY <1>5, Zenon DEF Scan

LEMMA ScanFollows ==
    ASSUME NEW t \in Seq(Marks)
    PROVE  Follows(Scan(t), Len(t), LineSeqs, <<Blank>>, ScanNext(t))
<1> DEFINE k == Scan(t)
<1>1. k = [i \in 0..Len(t) |->
        IF i = 0 THEN <<Blank>>
        ELSE IF t[i] = Newline THEN Append(k[i - 1], Blank) ELSE Append(Front(k[i - 1]), t[i])]
  BY ScanUnfolds
<1> HIDE DEF k
<1>2. k[0] = <<Blank>>
  <2>1. 0 \in 0..Len(t)
    OBVIOUS
  <2> QED  BY <1>1, <2>1, Zenon
<1>3. ASSUME NEW i \in 1..Len(t), k[i - 1] \in LineSeqs
      PROVE  k[i] = ScanNext(t)[i][k[i - 1]]
  <2>1. i \in 0..Len(t) /\ i # 0
    OBVIOUS
  <2>2. k[i] = Scans(t, k[i - 1], i)
    BY <1>1, <2>1, Zenon DEF Scans
  <2> QED  BY <1>3, <2>2 DEF ScanNext
<1>4. k = [i \in 0..Len(t) |-> k[i]]
  BY <1>1, Zenon
<1>5. <<Blank>> \in LineSeqs /\ Len(t) \in Nat
  BY DEF LineSeqs, Lines
<1>6. Follows(k, Len(t), LineSeqs, <<Blank>>, ScanNext(t))
  BY <1>2, <1>3, <1>4, <1>5, ScanNextType, Following, Zenon
<1> QED  BY <1>6 DEF k

LEMMA SplitEmpty == Split(<< >>) = <<Blank>>
<1>1. << >> \in Seq(Marks) /\ Len(<< >>) = 0
  OBVIOUS
<1>2. Follows(Scan(<< >>), Len(<< >>), LineSeqs, <<Blank>>, ScanNext(<< >>))
  BY <1>1, ScanFollows, Zenon
<1> QED  BY <1>1, <1>2, SplitIsScan, Zenon DEF Follows, GoesOn

LEMMA SplitAppend ==
    ASSUME NEW t \in Seq(Marks), NEW b \in Marks
    PROVE  /\ Split(t) \in LineSeqs
           /\ Split(Append(t, b)) = IF b = Newline THEN Append(Split(t), Blank) ELSE Append(Front(Split(t)), b)
<1> DEFINE u == Append(t, b)
<1>1. /\ u \in Seq(Marks) /\ Len(u) = Len(t) + 1 /\ Len(t) \in Nat
      /\ u[Len(t) + 1] = b /\ \A i \in 1..Len(t) : u[i] = t[i]
      /\ Len(t) + 1 \in 1..(Len(t) + 1)
  OBVIOUS
<1> HIDE DEF u
<1>2. Follows(Scan(t), Len(t), LineSeqs, <<Blank>>, ScanNext(t))
  BY ScanFollows
<1>3. Follows(Scan(u), Len(t) + 1, LineSeqs, <<Blank>>, ScanNext(u))
  BY <1>1, ScanFollows
<1>4. ASSUME NEW i \in 1..Len(t)
      PROVE  ScanNext(u)[i] = ScanNext(t)[i]
  <2>1. i \in 1..Len(u) /\ u[i] = t[i]
    BY <1>1
  <2> QED  BY <2>1, Zenon DEF ScanNext, Scans
<1>5. /\ Scan(t)[Len(t)] \in LineSeqs
      /\ Scan(u)[Len(t) + 1] = ScanNext(u)[Len(t) + 1][Scan(t)[Len(t)]]
  BY <1>1, <1>2, <1>3, <1>4, Extended
<1>6. Scan(u)[Len(t) + 1] = Scans(u, Scan(t)[Len(t)], Len(t) + 1)
  BY <1>1, <1>5, Zenon DEF ScanNext
<1>7. Split(u) = Scans(u, Split(t), Len(t) + 1)
  BY <1>1, <1>6, SplitIsScan, Zenon
<1> QED  BY <1>1, <1>5, <1>7, SplitIsScan, Zenon DEF Scans, u

----------------------------------------------------------------------------
(* What they do to each other.                                             *)

LEMMA OnlyType ==
    ASSUME NEW X, NEW s \in Seq(X), NEW S
    PROVE  Only(s, S) \in Seq(X)
<1>1. Follows(Kept(s, S), Len(s), Seq(X), << >>, KeepsNext(X, s, S))
  BY KeptFollows
<1>2. Len(s) \in 0..Len(s)
  OBVIOUS
<1> QED  BY <1>1, <1>2, OnlyIsKept DEF Follows

LEMMA OnlyOnly ==
    ASSUME NEW X, NEW s \in Seq(X), NEW S, NEW R
    PROVE  Only(Only(s, S), R) = Only(s, S \cap R)
<1> DEFINE T == {r \in Seq(X) : Only(Only(r, S), R) = Only(r, S \cap R)}
<1>1. << >> \in T
  <2>1. << >> \in Seq(X)
    OBVIOUS
  <2> QED  BY <2>1, OnlyEmpty
<1>2. ASSUME NEW r \in Seq(X), NEW e \in X, r \in T
      PROVE  Append(r, e) \in T
  <2>1. Only(Only(r, S), R) = Only(r, S \cap R)
    BY <1>2
  <2>2. Only(r, S) \in Seq(X)
    BY OnlyType
  <2>3. Append(r, e) \in Seq(X)
    OBVIOUS
  <2> DEFINE both == S \cap R
  <2>4. e \in both <=> e \in S /\ e \in R
    OBVIOUS
  <2> HIDE DEF both
  <2>5. Only(Append(r, e), both) = IF e \in both THEN Append(Only(r, both), e) ELSE Only(r, both)
    BY OnlyAppend
  <2>6. Only(Append(r, e), S) = IF e \in S THEN Append(Only(r, S), e) ELSE Only(r, S)
    BY OnlyAppend
  <2>7. Only(Only(Append(r, e), S), R) = Only(Append(r, e), both)
    <3>1. Only(Only(r, S), R) = Only(r, both)
      BY <2>1 DEF both
    <3>2. CASE e \in S
      <4>1. Only(Append(Only(r, S), e), R) =
                IF e \in R THEN Append(Only(Only(r, S), R), e) ELSE Only(Only(r, S), R)
        <5>1. \A q \in Seq(X) : Only(Append(q, e), R) =
                  IF e \in R THEN Append(Only(q, R), e) ELSE Only(q, R)
          BY OnlyAppend
        <5> QED  BY <2>2, <5>1, Zenon
      <4> QED  BY <2>4, <2>5, <2>6, <3>1, <3>2, <4>1, Zenon
    <3>3. CASE e \notin S
      BY <2>4, <2>5, <2>6, <3>1, <3>3, Zenon
    <3> QED  BY <3>2, <3>3
  <2> QED  BY <2>3, <2>7 DEF both
<1>3. \A r \in Seq(X) : r \in T
  <2> HIDE DEF T
  <2> QED  BY <1>1, <1>2, Appending
<1> QED  BY <1>3

\* Nothing is kept when no member is in the set.
LEMMA OnlyNone ==
    ASSUME NEW X, NEW s \in Seq(X), NEW S
    PROVE  Only(s, S) = << >> <=> \A i \in 1..Len(s) : s[i] \notin S
<1> DEFINE T == {r \in Seq(X) : Only(r, S) = << >> <=> \A i \in 1..Len(r) : r[i] \notin S}
<1>1. << >> \in T
  <2>1. << >> \in Seq(X) /\ 1..Len(<< >>) = {}
    OBVIOUS
  <2> QED  BY <2>1, OnlyEmpty
<1>2. ASSUME NEW r \in Seq(X), NEW e \in X, r \in T
      PROVE  Append(r, e) \in T
  <2>1. Only(r, S) = << >> <=> \A i \in 1..Len(r) : r[i] \notin S
    BY <1>2
  <2>2. /\ Append(r, e) \in Seq(X) /\ Len(r) \in Nat
        /\ Len(Append(r, e)) = Len(r) + 1 /\ Append(r, e)[Len(r) + 1] = e
        /\ \A i \in 1..Len(r) : Append(r, e)[i] = r[i]
    OBVIOUS
  <2>3. (\A i \in 1..(Len(r) + 1) : Append(r, e)[i] \notin S)
            <=> e \notin S /\ \A i \in 1..Len(r) : r[i] \notin S
    <3> DEFINE t == Append(r, e)
    <3>1. /\ Len(r) \in Nat /\ t[Len(r) + 1] = e
          /\ \A i \in 1..Len(r) : t[i] = r[i]
      BY <2>2
    <3> HIDE DEF t
    <3>2. \A i \in 1..(Len(r) + 1) : i \in 1..Len(r) \/ i = Len(r) + 1
      BY <3>1
    <3>3. Len(r) + 1 \in 1..(Len(r) + 1) /\ \A i \in 1..Len(r) : i \in 1..(Len(r) + 1)
      BY <3>1
    <3>4. (\A i \in 1..(Len(r) + 1) : t[i] \notin S)
            <=> e \notin S /\ \A i \in 1..Len(r) : r[i] \notin S
      BY <3>1, <3>2, <3>3, Zenon
    <3> QED  BY <3>4 DEF t
  <2>4. Only(r, S) \in Seq(X)
    BY OnlyType
  <2>5. Append(Only(r, S), e) # << >>
    <3>1. Len(Append(Only(r, S), e)) = Len(Only(r, S)) + 1 /\ Len(Only(r, S)) \in Nat
      BY <2>4
    <3>2. Len(Append(Only(r, S), e)) # 0
      BY <3>1
    <3>3. Len(<< >>) = 0
      OBVIOUS
    <3> QED  BY <3>2, <3>3, Zenon
  <2>6. Only(Append(r, e), S) = IF e \in S THEN Append(Only(r, S), e) ELSE Only(r, S)
    BY OnlyAppend
  <2>7. Only(Append(r, e), S) = << >> <=> \A i \in 1..(Len(r) + 1) : Append(r, e)[i] \notin S
    BY <2>1, <2>3, <2>5, <2>6, Zenon
  <2> QED  BY <2>2, <2>7, Zenon
<1>3. \A r \in Seq(X) : r \in T
  <2> HIDE DEF T
  <2> QED  BY <1>1, <1>2, Appending
<1> QED  BY <1>3

\* A newline is appended, with a body before it if the line has one.
LEMMA WrittenAppends ==
    ASSUME NEW e \in Seq(Marks), NEW b \in Lines
    PROVE  /\ b = Blank => e \o Written(b) = Append(e, Newline)
           /\ b # Blank => /\ b \in Marks /\ b \in Bodies
                           /\ e \o Written(b) = Append(Append(e, b), Newline)
<1>1. e \o <<Newline>> = Append(e, Newline)
  OBVIOUS
<1>2. e \o <<b, Newline>> = Append(Append(e, b), Newline)
  OBVIOUS
<1>3. b # Blank => b \in Marks /\ b \in Bodies
  BY DEF Lines, Marks
<1> QED  BY <1>1, <1>2, <1>3, Zenon DEF Written

LEMMA JoinedType ==
    ASSUME NEW l \in Seq(Lines)
    PROVE  Joined(l) \in Seq(Marks)
<1>1. Blank \in Lines
  BY DEF Lines
<1> QED  BY <1>1, JoinedAppend DEF MarkSeqs

LEMMA SplitType ==
    ASSUME NEW t \in Seq(Marks)
    PROVE  Split(t) \in Seq(Lines) /\ Split(t) # << >>
<1>1. Newline \in Marks
  BY DEF Marks
<1> QED  BY <1>1, SplitAppend DEF LineSeqs

\* The newlines apart, the text has the bodies of its lines.
LEMMA OnlyJoined ==
    ASSUME NEW K \in SUBSET Bodies, NEW l \in Seq(Lines)
    PROVE  Only(Joined(l), K) = Only(l, K)
<1> DEFINE T == {r \in Seq(Lines) : Only(Joined(r), K) = Only(r, K)}
<1>1. << >> \in T
  <2>1. << >> \in Seq(Lines)
    OBVIOUS
  <2> QED  BY <2>1, OnlyEmpty, JoinedEmpty
<1>2. ASSUME NEW r \in Seq(Lines), NEW b \in Lines, r \in T
      PROVE  Append(r, b) \in T
  <2>1. Only(Joined(r), K) = Only(r, K)
    BY <1>2
  <2>2. Joined(r) \in Seq(Marks) /\ Joined(Append(r, b)) = Joined(r) \o Written(b)
    BY JoinedAppend, JoinedType
  <2>3. Append(r, b) \in Seq(Lines) /\ Newline \in Marks /\ Newline \notin K /\ Blank \notin K
    BY TokensAssumption DEF Marks
  <2>4. Only(Append(r, b), K) = IF b \in K THEN Append(Only(r, K), b) ELSE Only(r, K)
    BY OnlyAppend
  <2>5. CASE b = Blank
    <3>1. Joined(Append(r, b)) = Append(Joined(r), Newline)
      BY <2>2, <2>5, WrittenAppends
    <3>2. Only(Append(Joined(r), Newline), K) = Only(Joined(r), K)
      BY <2>2, <2>3, OnlyAppend
    <3> QED  BY <2>1, <2>3, <2>4, <2>5, <3>1, <3>2, Zenon
  <2>6. CASE b # Blank
    <3>1. Joined(Append(r, b)) = Append(Append(Joined(r), b), Newline) /\ b \in Marks
      BY <2>2, <2>6, WrittenAppends
    <3>2. Append(Joined(r), b) \in Seq(Marks)
      BY <2>2, <3>1
    <3>3. \A q \in Seq(Marks), c \in Marks :
              Only(Append(q, c), K) = IF c \in K THEN Append(Only(q, K), c) ELSE Only(q, K)
      BY OnlyAppend
    <3>4. Only(Append(Append(Joined(r), b), Newline), K) = Only(Append(Joined(r), b), K)
      BY <2>3, <3>2, <3>3, Zenon
    <3>5. Only(Append(Joined(r), b), K) =
              IF b \in K THEN Append(Only(Joined(r), K), b) ELSE Only(Joined(r), K)
      BY <2>2, <3>1, <3>3, Zenon
    <3> QED  BY <2>1, <2>3, <2>4, <3>1, <3>4, <3>5, Zenon
  <2> QED  BY <2>5, <2>6
<1>3. \A r \in Seq(Lines) : r \in T
  <2> HIDE DEF T
  <2> QED  BY <1>1, <1>2, Appending
<1> QED  BY <1>3

----------------------------------------------------------------------------
(* Texts.                                                                  *)

\* A line that is empty may be followed by a body, every line by a newline.
LEMMA TextGrows ==
    ASSUME NEW t \in Seq(Marks), IsText(t)
    PROVE  /\ IsText(Append(t, Newline))
           /\ \A b \in Marks : t = << >> \/ Last(t) = Newline => IsText(Append(t, b))
<1>1. ASSUME NEW b \in Marks, t = << >> \/ Last(t) = Newline \/ b = Newline
      PROVE  IsText(Append(t, b))
  <2> DEFINE u == Append(t, b)
  <2>1. /\ Len(u) = Len(t) + 1 /\ Len(t) \in Nat /\ u[Len(t) + 1] = b
        /\ \A i \in 1..Len(t) : u[i] = t[i]
    OBVIOUS
  <2> HIDE DEF u
  <2>2. ASSUME NEW i \in 1..(Len(u) - 1)
        PROVE  u[i] = Newline \/ u[i + 1] = Newline
    <3>1. CASE i = Len(t)
      <4>1. t # << >>
        BY <2>1, <3>1
      <4>2. u[i + 1] = b /\ u[i] = t[Len(t)]
        BY <2>1, <3>1
      <4> QED  BY <1>1, <4>1, <4>2 DEF Last
    <3>2. CASE i \in 1..(Len(t) - 1)
      <4>1. u[i] = t[i] /\ u[i + 1] = t[i + 1]
        BY <2>1, <3>2
      <4> QED  BY <3>2, <4>1 DEF IsText
    <3> QED  BY <2>1, <3>1, <3>2
  <2>3. IsText(u)
    BY <2>2 DEF IsText
  <2> QED  BY <2>3 DEF u
<1>2. Newline \in Marks
  BY DEF Marks
<1> QED  BY <1>1, <1>2

LEMMA TextShrinks ==
    ASSUME NEW t \in Seq(Marks), NEW b \in Marks, IsText(Append(t, b))
    PROVE  IsText(t) /\ (b # Newline => t = << >> \/ Last(t) = Newline)
<1> DEFINE u == Append(t, b)
<1>1. /\ Len(u) = Len(t) + 1 /\ Len(t) \in Nat /\ u[Len(t) + 1] = b
      /\ \A i \in 1..Len(t) : u[i] = t[i]
  OBVIOUS
<1>2. \A i \in 1..(Len(u) - 1) : u[i] = Newline \/ u[i + 1] = Newline
  BY DEF IsText
<1> HIDE DEF u
<1>3. ASSUME NEW i \in 1..(Len(t) - 1)
      PROVE  t[i] = Newline \/ t[i + 1] = Newline
  <2>1. u[i] = t[i] /\ u[i + 1] = t[i + 1] /\ i \in 1..(Len(u) - 1)
    BY <1>1
  <2> QED  BY <1>2, <2>1
<1>4. ASSUME b # Newline, t # << >>
      PROVE  Last(t) = Newline
  <2>1. Len(t) \in 1..(Len(u) - 1)
    BY <1>1, <1>4
  <2>2. u[Len(t)] = Newline \/ u[Len(t) + 1] = Newline
    BY <1>2, <2>1
  <2> QED  BY <1>1, <1>4, <2>1, <2>2 DEF Last
<1> QED  BY <1>3, <1>4 DEF IsText

\* A sequence that is not empty is its front and its last member.
LEMMA FrontLast ==
    ASSUME NEW X, NEW s \in Seq(X), s # << >>
    PROVE  /\ Front(s) \in Seq(X) /\ Last(s) \in X
           /\ s = Append(Front(s), Last(s))
  BY DEF Front, Last

LEMMA Appended ==
    ASSUME NEW X, NEW s \in Seq(X), NEW e \in X
    PROVE  /\ Append(s, e) \in Seq(X) /\ Append(s, e) # << >>
           /\ Front(Append(s, e)) = s /\ Last(Append(s, e)) = e
<1>1. /\ Append(s, e) \in Seq(X) /\ Len(Append(s, e)) = Len(s) + 1
      /\ Len(s) \in Nat /\ Append(s, e)[Len(s) + 1] = e
  OBVIOUS
<1>2. SubSeq(Append(s, e), 1, Len(s)) = s
  OBVIOUS
<1>3. Len(Append(s, e)) # 0 /\ Len(Append(s, e)) - 1 = Len(s)
  BY <1>1
<1>4. Append(s, e) # << >>
  <2>1. Len(<< >>) = 0
    OBVIOUS
  <2> QED  BY <1>3, <2>1, Zenon
<1> QED  BY <1>1, <1>2, <1>3, <1>4, Zenon DEF Front, Last

\* The lines of a text, written out, are the text, closed by a newline: the
\* last line is empty where nothing is behind the last newline.
LEMMA JoinedSplit ==
    ASSUME NEW t \in Seq(Marks), IsText(t)
    PROVE  Joined(Split(t)) = Append(t, Newline)
<1> DEFINE Closed(r) == /\ Joined(Split(r)) = Append(r, Newline)
                        /\ Last(Split(r)) = Blank <=> (r = << >> \/ Last(r) = Newline)
           T == {r \in Seq(Marks) : IsText(r) => Closed(r)}
<1>1. << >> \in T
  <2>1. << >> \in Seq(Marks) /\ << >> \in Seq(Lines) /\ Append(<< >>, Blank) = <<Blank>>
    OBVIOUS
  <2>2. Blank \in Lines
    BY DEF Lines
  <2>3. Last(<<Blank>>) = Blank
    BY DEF Last
  <2>4. Joined(<<Blank>>) = << >> \o Written(Blank)
    BY <2>1, <2>2, JoinedAppend, JoinedEmpty
  <2>5. << >> \o Written(Blank) = Append(<< >>, Newline)
    BY <2>1, <2>2, WrittenAppends
  <2> QED  BY <2>1, <2>3, <2>4, <2>5, SplitEmpty, Zenon
<1>2. ASSUME NEW r \in Seq(Marks), NEW c \in Marks, r \in T
      PROVE  Append(r, c) \in T
  <2> SUFFICES ASSUME IsText(Append(r, c)) PROVE Closed(Append(r, c))
    <3>1. Append(r, c) \in Seq(Marks)
      OBVIOUS
    <3> QED  BY <3>1, Zenon
  <2>1. IsText(r) /\ (c # Newline => r = << >> \/ Last(r) = Newline)
    BY TextShrinks
  <2>2. Closed(r)
    BY <1>2, <2>1
  <2> DEFINE l == Split(r)
  <2>3. /\ l \in Seq(Lines) /\ l # << >>
        /\ Split(Append(r, c)) =
               IF c = Newline THEN Append(l, Blank) ELSE Append(Front(l), c)
    BY SplitType, SplitAppend
  <2>4. /\ Joined(l) = Append(r, Newline)
        /\ Last(l) = Blank <=> (r = << >> \/ Last(r) = Newline)
    BY <2>2
  <2> HIDE DEF l
  <2>5. Append(r, c) # << >> /\ Last(Append(r, c)) = c
    BY Appended
  <2>6. /\ Joined(Split(Append(r, c))) = Append(Append(r, c), Newline)
        /\ Last(Split(Append(r, c))) = Blank <=> c = Newline
    <3>1. CASE c = Newline
      <4>1. Blank \in Lines /\ Newline \in Marks
        BY DEF Lines, Marks
      <4>2. Joined(Append(l, Blank)) = Joined(l) \o Written(Blank)
        BY <2>3, <4>1, JoinedAppend
      <4>3. Append(r, Newline) \in Seq(Marks)
        BY <4>1
      <4>4. Append(r, Newline) \o Written(Blank) = Append(Append(r, Newline), Newline)
        BY <4>1, <4>3, WrittenAppends
      <4>5. Last(Append(l, Blank)) = Blank
        BY <2>3, <4>1, Appended
      <4> QED  BY <2>3, <2>4, <3>1, <4>2, <4>4, <4>5, Zenon
    <3>2. CASE c # Newline
      <4>1. c \in Lines /\ c # Blank /\ Blank \in Lines /\ Newline \in Marks
        BY <3>2, TokensAssumption DEF Lines, Marks
      <4>2. Last(l) = Blank
        BY <2>1, <2>4, <3>2
      <4>3. Front(l) \in Seq(Lines) /\ l = Append(Front(l), Blank)
        BY <2>3, <4>2, FrontLast
      <4> DEFINE a == Front(l)
      <4>4. a \in Seq(Lines) /\ l = Append(a, Blank)
        BY <4>3
      <4> HIDE DEF a
      <4>5. Joined(a) \in Seq(Marks)
        BY <4>4, JoinedType
      <4>6. Joined(l) = Joined(a) \o Written(Blank)
        BY <4>1, <4>4, JoinedAppend
      <4>7. Joined(l) = Append(Joined(a), Newline)
        BY <4>1, <4>5, <4>6, WrittenAppends
      <4>8. Joined(a) = r
        <5>1. Front(Append(r, Newline)) = r
          BY <4>1, Appended
        <5>2. Front(Append(Joined(a), Newline)) = Joined(a)
          BY <4>1, <4>5, Appended
        <5> QED  BY <2>4, <4>7, <5>1, <5>2, Zenon
      <4>9. Joined(Append(a, c)) = r \o Written(c)
        BY <4>1, <4>4, <4>8, JoinedAppend
      <4>10. r \o Written(c) = Append(Append(r, c), Newline)
        BY <4>1, WrittenAppends
      <4>11. Last(Append(a, c)) = c
        BY <4>1, <4>4, Appended
      <4> QED  BY <2>3, <3>2, <4>1, <4>9, <4>10, <4>11, Zenon DEF a
    <3> QED  BY <3>1, <3>2
  <2> QED  BY <2>5, <2>6
<1>3. \A r \in Seq(Marks) : r \in T
  <2> HIDE DEF T
  <2> QED  BY <1>1, <1>2, Appending
<1> QED  BY <1>3

LEMMA TrimText ==
    ASSUME NEW t \in Seq(Marks), IsText(t)
    PROVE  /\ Trim(t) \in Seq(Marks) /\ IsText(Trim(t))
           /\ \A K \in SUBSET Bodies : Only(Trim(t), K) = Only(t, K)
<1>1. CASE t # << >> /\ Last(t) = Newline
  <2>1. Front(t) \in Seq(Marks) /\ t = Append(Front(t), Newline) /\ Newline \in Marks
    BY <1>1, FrontLast
  <2> DEFINE u == Front(t)
  <2>2. u \in Seq(Marks) /\ t = Append(u, Newline) /\ Newline \in Marks /\ Trim(t) = u
    BY <1>1, <2>1 DEF Trim
  <2> HIDE DEF u
  <2>3. IsText(u)
    BY <2>2, TextShrinks
  <2>4. ASSUME NEW K \in SUBSET Bodies
        PROVE  Only(u, K) = Only(t, K)
    <3>1. Only(t, K) = IF Newline \in K THEN Append(Only(u, K), Newline) ELSE Only(u, K)
      BY <2>2, OnlyAppend
    <3> QED  BY <3>1, TokensAssumption
  <2> QED  BY <2>2, <2>3, <2>4
<1>2. CASE ~(t # << >> /\ Last(t) = Newline)
  BY <1>2 DEF Trim
<1> QED  BY <1>1, <1>2

LEMMA JoinedText ==
    ASSUME NEW l \in Seq(Lines)
    PROVE  /\ IsText(Joined(l))
           /\ Joined(l) = << >> \/ Last(Joined(l)) = Newline
<1> DEFINE Closed(r) == IsText(Joined(r)) /\ (Joined(r) = << >> \/ Last(Joined(r)) = Newline)
           T == {r \in Seq(Lines) : Closed(r)}
<1>1. << >> \in T
  <2>1. << >> \in Seq(Lines) /\ IsText(<< >>)
    BY DEF IsText
  <2> QED  BY <2>1, JoinedEmpty
<1>2. ASSUME NEW r \in Seq(Lines), NEW b \in Lines, r \in T
      PROVE  Append(r, b) \in T
  <2> DEFINE j == Joined(r)
  <2>1. /\ j \in Seq(Marks) /\ IsText(j) /\ (j = << >> \/ Last(j) = Newline)
        /\ Joined(Append(r, b)) = j \o Written(b)
    BY <1>2, JoinedType, JoinedAppend
  <2>2. Append(r, b) \in Seq(Lines) /\ Newline \in Marks
    BY DEF Marks
  <2> HIDE DEF j
  <2>3. CASE b = Blank
    <3>1. Joined(Append(r, b)) = Append(j, Newline)
      BY <2>1, <2>3, WrittenAppends
    <3>2. IsText(Append(j, Newline)) /\ Last(Append(j, Newline)) = Newline
      BY <2>1, <2>2, TextGrows, Appended
    <3> QED  BY <2>2, <3>1, <3>2
  <2>4. CASE b # Blank
    <3> DEFINE i == Append(j, b)
    <3>1. b \in Marks /\ Joined(Append(r, b)) = Append(i, Newline)
      BY <2>1, <2>4, WrittenAppends
    <3>2. i \in Seq(Marks) /\ IsText(i)
      BY <2>1, <3>1, TextGrows, Appended
    <3> HIDE DEF i
    <3>3. IsText(Append(i, Newline)) /\ Last(Append(i, Newline)) = Newline
      BY <2>2, <3>2, TextGrows, Appended
    <3> QED  BY <2>2, <3>1, <3>3
  <2> QED  BY <2>3, <2>4
<1>3. \A r \in Seq(Lines) : r \in T
  <2> HIDE DEF T
  <2> QED  BY <1>1, <1>2, Appending
<1> QED  BY <1>3

Files == [lines : Seq(Lines), noFinalNewline : BOOLEAN]

\* A text, parsed and rendered, is the text; its lines have its bodies.
LEMMA RenderParse ==
    ASSUME NEW t \in Seq(Marks), IsText(t)
    PROVE  /\ Parse(t) \in Files
           /\ Render(Parse(t)) = t
           /\ \A K \in SUBSET Bodies : Only(Parse(t).lines, K) = Only(t, K)
<1>1. CASE t = << >>
  <2>1. Parse(t) = [lines |-> << >>, noFinalNewline |-> FALSE]
    BY <1>1 DEF Parse
  <2>2. << >> \in Seq(Lines)
    OBVIOUS
  <2>3. /\ Parse(t) \in Files
        /\ Parse(t).lines = << >> /\ ~Parse(t).noFinalNewline
    BY <2>1, <2>2 DEF Files
  <2>4. Render(Parse(t)) = t
    BY <1>1, <2>3, JoinedEmpty, Zenon DEF Render
  <2> QED  BY <1>1, <2>3, <2>4, Zenon
<1>2. CASE t # << >>
  <2> DEFINE u == Trim(t)
             l == Split(u)
             open == Last(t) # Newline
  <2>1. Parse(t) = [lines |-> l, noFinalNewline |-> open]
    BY <1>2 DEF Parse
  <2>2. /\ u \in Seq(Marks) /\ IsText(u)
        /\ \A K \in SUBSET Bodies : Only(u, K) = Only(t, K)
    BY TrimText
  <2>3. l \in Seq(Lines) /\ Joined(l) = Append(u, Newline) /\ open \in BOOLEAN
    BY <2>2, SplitType, JoinedSplit
  <2>4. Newline \in Marks
    BY DEF Marks
  <2>5. ASSUME NEW K \in SUBSET Bodies
        PROVE  Only(l, K) = Only(t, K)
    <3>1. Only(Joined(l), K) = Only(l, K)
      BY <2>3, OnlyJoined
    <3>2. Only(Append(u, Newline), K) = Only(u, K)
      <4> HIDE DEF u
      <4>1. Only(Append(u, Newline), K) =
                IF Newline \in K THEN Append(Only(u, K), Newline) ELSE Only(u, K)
        BY <2>2, <2>4, OnlyAppend
      <4> QED  BY <4>1, TokensAssumption
    <3> QED  BY <2>2, <2>3, <3>1, <3>2
  <2>6. (IF open THEN Trim(Append(u, Newline)) ELSE Append(u, Newline)) = t
    <3>1. CASE open
      <4>1. u = t
        BY <3>1 DEF Trim
      <4>2. Trim(Append(t, Newline)) = t
        BY <2>4, Appended DEF Trim
      <4> QED  BY <3>1, <4>1, <4>2
    <3>2. CASE ~open
      <4>1. u = Front(t)
        BY <1>2, <3>2 DEF Trim
      <4>2. t = Append(Front(t), Last(t))
        BY <1>2, FrontLast
      <4> QED  BY <3>2, <4>1, <4>2
    <3> QED  BY <3>1, <3>2
  <2> HIDE DEF u, l, open
  <2>7. Parse(t).lines = l /\ Parse(t).noFinalNewline = open /\ Parse(t) \in Files
    BY <2>1, <2>3 DEF Files
  <2>8. Render(Parse(t)) = IF open THEN Trim(Joined(l)) ELSE Joined(l)
    BY <2>7 DEF Render
  <2> QED  BY <2>3, <2>5, <2>6, <2>7, <2>8, Zenon
<1> QED  BY <1>1, <1>2

\* What is rendered is a text, with the bodies of the lines.
LEMMA RenderText ==
    ASSUME NEW g \in Files
    PROVE  /\ Render(g) \in Seq(Marks) /\ IsText(Render(g))
           /\ \A K \in SUBSET Bodies : Only(Render(g), K) = Only(g.lines, K)
<1>1. g.lines \in Seq(Lines)
  BY DEF Files
<1>2. /\ Joined(g.lines) \in Seq(Marks) /\ IsText(Joined(g.lines))
      /\ \A K \in SUBSET Bodies : Only(Joined(g.lines), K) = Only(g.lines, K)
  BY <1>1, JoinedType, JoinedText, OnlyJoined
<1> DEFINE j == Joined(g.lines)
<1>3. /\ Trim(j) \in Seq(Marks) /\ IsText(Trim(j))
      /\ \A K \in SUBSET Bodies : Only(Trim(j), K) = Only(j, K)
  BY <1>2, TrimText
<1> QED  BY <1>2, <1>3, Zenon DEF Render

\* Lines that are written out come back from the split, with an empty one for
\* what is behind the last newline.
LEMMA SplitJoined ==
    ASSUME NEW l \in Seq(Lines)
    PROVE  Split(Joined(l)) = Append(l, Blank)
<1> DEFINE T == {r \in Seq(Lines) : Split(Joined(r)) = Append(r, Blank)}
<1>1. << >> \in T
  <2>1. << >> \in Seq(Lines) /\ Append(<< >>, Blank) = <<Blank>>
    OBVIOUS
  <2> QED  BY <2>1, JoinedEmpty, SplitEmpty
<1>2. ASSUME NEW r \in Seq(Lines), NEW b \in Lines, r \in T
      PROVE  Append(r, b) \in T
  <2> DEFINE j == Joined(r)
  <2>1. /\ j \in Seq(Marks) /\ Split(j) = Append(r, Blank)
        /\ Joined(Append(r, b)) = j \o Written(b)
    BY <1>2, JoinedType, JoinedAppend
  <2>2. Append(r, b) \in Seq(Lines) /\ Newline \in Marks /\ Blank \in Lines
    BY DEF Marks, Lines
  <2> HIDE DEF j
  <2>3. CASE b = Blank
    <3>1. Joined(Append(r, b)) = Append(j, Newline)
      BY <2>1, <2>3, WrittenAppends
    <3>2. Split(Append(j, Newline)) = Append(Split(j), Blank)
      BY <2>1, <2>2, SplitAppend
    <3> QED  BY <2>1, <2>2, <2>3, <3>1, <3>2
  <2>4. CASE b # Blank
    <3>1. b \in Marks /\ b # Newline /\ Joined(Append(r, b)) = Append(Append(j, b), Newline)
      BY <2>1, <2>4, WrittenAppends, TokensAssumption
    <3>2. Split(Append(j, b)) = Append(Front(Split(j)), b)
      BY <2>1, <3>1, SplitAppend
    <3>3. Front(Append(r, Blank)) = r
      BY <2>2, Appended
    <3>4. Split(Append(j, b)) = Append(r, b)
      BY <2>1, <3>2, <3>3, Zenon
    <3>5. Append(j, b) \in Seq(Marks)
      BY <2>1, <3>1
    <3>6. Split(Append(Append(j, b), Newline)) = Append(Split(Append(j, b)), Blank)
      BY <2>2, <3>5, SplitAppend
    <3>7. Split(Joined(Append(r, b))) = Append(Append(r, b), Blank)
      BY <3>1, <3>4, <3>6, Zenon
    <3> QED  BY <2>2, <3>7
  <2> QED  BY <2>3, <2>4
<1>3. \A r \in Seq(Lines) : r \in T
  <2> HIDE DEF T
  <2> QED  BY <1>1, <1>2, Appending
<1> QED  BY <1>3

\* What is left of the written lines when the last newline is trimmed.
LEMMA TrimJoined ==
    ASSUME NEW a \in Seq(Lines), NEW b \in Lines
    PROVE  LET t == Joined(Append(a, b))
           IN  /\ t \in Seq(Marks) /\ t # << >> /\ Last(t) = Newline
               /\ Split(Trim(t)) = Append(a, b)
               /\ b = Blank => Trim(t) = Joined(a)
               /\ b # Blank => Trim(t) \in Seq(Marks) /\ Trim(t) # << >> /\ Last(Trim(t)) # Newline
<1> DEFINE j == Joined(a)
           t == Joined(Append(a, b))
<1>1. /\ j \in Seq(Marks) /\ Split(j) = Append(a, Blank) /\ t = j \o Written(b)
  BY JoinedType, JoinedAppend, SplitJoined
<1>2. Newline \in Marks /\ Blank \in Lines
  BY DEF Marks, Lines
<1> HIDE DEF j, t
<1>3. CASE b = Blank
  <2>1. t = Append(j, Newline)
    BY <1>1, <1>3, WrittenAppends
  <2>2. t \in Seq(Marks) /\ t # << >> /\ Last(t) = Newline /\ Front(t) = j
    BY <1>1, <1>2, <2>1, Appended
  <2>3. Trim(t) = j
    BY <2>2 DEF Trim
  <2> QED  BY <1>1, <1>3, <2>2, <2>3 DEF j, t
<1>4. CASE b # Blank
  <2> DEFINE u == Append(j, b)
  <2>1. b \in Marks /\ b # Newline /\ t = Append(u, Newline)
    BY <1>1, <1>4, WrittenAppends, TokensAssumption
  <2>2. u \in Seq(Marks) /\ u # << >> /\ Last(u) = b
    BY <1>1, <2>1, Appended
  <2>3. Split(u) = Append(Front(Split(j)), b)
    BY <1>1, <2>1, SplitAppend
  <2> HIDE DEF u
  <2>4. t \in Seq(Marks) /\ t # << >> /\ Last(t) = Newline /\ Front(t) = u
    BY <1>2, <2>1, <2>2, Appended
  <2>5. Trim(t) = u
    BY <2>4 DEF Trim
  <2>6. Front(Append(a, Blank)) = a
    BY <1>2, Appended
  <2>7. Split(u) = Append(a, b)
    BY <1>1, <2>3, <2>6, Zenon
  <2> QED  BY <1>4, <2>1, <2>2, <2>4, <2>5, <2>7 DEF t
<1> QED  BY <1>3, <1>4

\* A file that is rendered and parsed again has its lines, but for the blank
\* one that Render may lose at the end.
LEMMA ParseRender ==
    ASSUME NEW g \in Files, g.noFinalNewline => g.lines # << >>
    PROVE  LET l == Parse(Render(g)).lines
           IN  /\ l \in Seq(Lines)
               /\ EndsInLostBlank(g) => g.lines = Append(l, Blank)
               /\ ~EndsInLostBlank(g) => l = g.lines
<1> DEFINE l == Parse(Render(g)).lines
<1>1. g.lines \in Seq(Lines) /\ g.noFinalNewline \in BOOLEAN
  BY DEF Files
<1>2. \A t : t # << >> => Parse(t).lines = Split(Trim(t))
  BY DEF Parse
<1>3. Parse(<< >>).lines = << >>
  BY DEF Parse
<1>4. CASE g.lines = << >>
  <2>1. ~EndsInLostBlank(g) /\ Render(g) = << >>
    BY <1>4, JoinedEmpty DEF EndsInLostBlank, Render
  <2> QED  BY <1>1, <1>3, <1>4, <2>1
<1>5. CASE g.lines # << >>
  <2>1. PICK a \in Seq(Lines), b \in Lines : g.lines = Append(a, b) /\ Last(g.lines) = b
    BY <1>1, <1>5, FrontLast
  <2> DEFINE t == Joined(Append(a, b))
  <2>2. /\ t \in Seq(Marks) /\ t # << >> /\ Last(t) = Newline
        /\ Split(Trim(t)) = Append(a, b)
        /\ b = Blank => Trim(t) = Joined(a)
        /\ b # Blank => Trim(t) \in Seq(Marks) /\ Trim(t) # << >> /\ Last(Trim(t)) # Newline
    BY TrimJoined
  <2>3. Render(g) = IF g.noFinalNewline THEN Trim(t) ELSE t
    BY <2>1, Zenon DEF Render
  <2>4. EndsInLostBlank(g) <=> g.noFinalNewline /\ b = Blank
    BY <2>1 DEF EndsInLostBlank
  <2> HIDE DEF t
  <2>5. CASE ~g.noFinalNewline
    <3>1. Parse(t).lines = Split(Trim(t))
      BY <1>2, <2>2, Zenon
    <3> QED  BY <1>1, <2>1, <2>2, <2>3, <2>4, <2>5, <3>1, Zenon
  <2>6. CASE g.noFinalNewline /\ b # Blank
    <3>1. Trim(Trim(t)) = Trim(t)
      BY <2>2, <2>6 DEF Trim
    <3>2. Parse(Trim(t)).lines = Split(Trim(Trim(t)))
      BY <1>2, <2>2, <2>6, Zenon
    <3> QED  BY <1>1, <2>1, <2>2, <2>3, <2>4, <2>6, <3>1, <3>2, Zenon
  <2>7. CASE g.noFinalNewline /\ b = Blank
    <3>1. Render(g) = Joined(a)
      BY <2>2, <2>3, <2>7, Zenon
    <3>2. l = a
      <4>1. CASE a = << >>
        BY <1>3, <3>1, <4>1, JoinedEmpty, Zenon
      <4>2. CASE a # << >>
        <5>1. PICK c \in Seq(Lines), d \in Lines : a = Append(c, d)
          BY <4>2, FrontLast
        <5>2. Joined(a) # << >> /\ Split(Trim(Joined(a))) = a
          BY <5>1, TrimJoined
        <5> QED  BY <1>2, <3>1, <5>2, Zenon
      <4> QED  BY <4>1, <4>2
    <3> QED  BY <2>1, <2>4, <2>7, <3>2, Zenon
  <2> QED  BY <1>1, <2>5, <2>6, <2>7, Zenon
<1> QED  BY <1>4, <1>5, Zenon

----------------------------------------------------------------------------
(* The edits.                                                              *)

\* A text has a key if it has a body with the key.
LEMMA KeysShown ==
    ASSUME NEW t \in Seq(Marks), NEW k
    PROVE  k \in KeysOfText(t) <=> k # NoKey /\ Only(t, Matching(k)) # << >>
<1>1. Only(t, Matching(k)) = << >> <=> \A i \in 1..Len(t) : t[i] \notin Matching(k)
  BY OnlyNone
<1>2. DOMAIN t = 1..Len(t)
  OBVIOUS
<1>3. ASSUME NEW i \in 1..Len(t)
      PROVE  t[i] \in Matching(k) <=> t[i] # Newline /\ KeyOf[t[i]] = k
  <2>1. t[i] \in Marks
    OBVIOUS
  <2> QED  BY <2>1, TokensAssumption, Zenon DEF Marks, Matching
<1> QED  BY <1>1, <1>2, <1>3, Zenon DEF KeysOfText

\* The working copy has the keys of the text, less the removed and with the
\* added ones, and apart from the lines of these the lines of the text.
KeyedLines ==
    /\ text \in Seq(Marks) /\ IsText(text)
    /\ f \in Files
    /\ added \subseteq AKeys /\ removed \subseteq AKeys
    /\ \A k \in AKeys : Only(f.lines, Matching(k)) # << >> <=>
           k \in added \/ (k \notin removed /\ Only(text, Matching(k)) # << >>)
    /\ f.noFinalNewline => f.lines # << >>
    /\ OtherLines(f) = OtherLines(Parse(text))

\* A text that lacks the final newline is not empty, nor are its lines.
LEMMA ParsedLines ==
    ASSUME NEW t \in Seq(Marks)
    PROVE  Parse(t).noFinalNewline => Parse(t).lines # << >>
<1> SUFFICES ASSUME t # << >>, Last(t) # Newline PROVE Parse(t).lines # << >>
  BY DEF Parse
<1>1. Parse(t).lines = Split(t)
  BY DEF Parse, Trim
<1> QED  BY <1>1, SplitType

LEMMA KeyedInit == Init => KeyedLines
<1> SUFFICES ASSUME Init PROVE KeyedLines
  OBVIOUS
<1>1. text \in Seq(Marks) /\ IsText(text)
  BY BoundsAssumption DEF Init, Texts, SeqOf, Marks
<1>2. f = Parse(text) /\ added = {} /\ removed = {}
  BY DEF Init
<1>3. /\ f \in Files
      /\ \A K \in SUBSET Bodies : Only(f.lines, K) = Only(text, K)
  BY <1>1, <1>2, RenderParse, Zenon
<1>4. \A k \in AKeys : Matching(k) \in SUBSET Bodies
  BY DEF Matching
<1>5. f.noFinalNewline => f.lines # << >>
  BY <1>1, <1>2, ParsedLines
<1> QED  BY <1>1, <1>2, <1>3, <1>4, <1>5, Zenon DEF KeyedLines

LEMMA KeyedStore == KeyedLines /\ Store => KeyedLines'
<1> SUFFICES ASSUME KeyedLines, Store PROVE KeyedLines'
  OBVIOUS
<1>1. text' \in Seq(Marks) /\ IsText(text')
  BY RenderText DEF KeyedLines, Store
<1>2. f' = Parse(text') /\ added' = {} /\ removed' = {}
  BY DEF Store
<1>3. /\ f' \in Files
      /\ \A K \in SUBSET Bodies : Only(f'.lines, K) = Only(text', K)
  BY <1>1, <1>2, RenderParse, Zenon
<1>4. \A k \in AKeys : Matching(k) \in SUBSET Bodies
  BY DEF Matching
<1>5. f'.noFinalNewline => f'.lines # << >>
  BY <1>1, <1>2, ParsedLines
<1>6. OtherLines(f)' = OtherLines(Parse(text))'
  BY <1>2 DEF OtherLines
<1> QED  BY <1>1, <1>2, <1>3, <1>4, <1>5, <1>6, Zenon DEF KeyedLines

\* What is kept of a part is kept of the whole.
LEMMA OnlyPart ==
    ASSUME NEW X, NEW s \in Seq(X), NEW S, NEW R, R \subseteq S
    PROVE  Only(Only(s, S), R) = Only(s, R)
<1>1. S \cap R = R
  OBVIOUS
<1> QED  BY <1>1, OnlyOnly

LEMMA KeyedRemove == \A k \in AKeys : KeyedLines /\ RemoveKey(k) => KeyedLines'
<1> SUFFICES ASSUME NEW k \in AKeys, KeyedLines, RemoveKey(k) PROVE KeyedLines'
  OBVIOUS
<1> DEFINE l == f.lines
           keep == (Bodies \cup {Blank}) \ Matching(k)
<1>1. /\ l \in Seq(Lines) /\ f.noFinalNewline \in BOOLEAN
      /\ text \in Seq(Marks) /\ IsText(text)
      /\ added \subseteq AKeys /\ removed \subseteq AKeys
  BY DEF KeyedLines, Files
<1>2. /\ text' = text /\ added' = added \ {k} /\ removed' = removed \cup {k}
      /\ f' = RemoveLines(f, k)
  BY DEF RemoveKey
<1>3. f'.lines = Only(l, keep)
  BY <1>2 DEF RemoveLines
<1>4. f' \in Files
  <2>1. Only(l, keep) \in Seq(Lines)
    BY <1>1, OnlyType
  <2>2. (Only(l, keep) # << >> /\ f.noFinalNewline) \in BOOLEAN
    BY <1>1
  <2> QED  BY <1>2, <2>1, <2>2 DEF RemoveLines, Files
<1>5. ASSUME NEW j \in AKeys
      PROVE  Only(f'.lines, Matching(j)) # << >> <=>
                 j \in added' \/ (j \notin removed' /\ Only(text', Matching(j)) # << >>)
  <2>1. CASE j = k
    <3>1. keep \cap Matching(j) = {}
      BY <2>1
    <3>2. Only(f'.lines, Matching(j)) = Only(l, {})
      BY <1>1, <1>3, <3>1, OnlyOnly
    <3>3. Only(l, {}) = << >>
      BY <1>1, OnlyNone
    <3> QED  BY <1>2, <2>1, <3>2, <3>3
  <2>2. CASE j # k
    <3>1. Matching(j) \subseteq keep
      BY <2>2 DEF Matching
    <3>2. Only(f'.lines, Matching(j)) = Only(l, Matching(j))
      BY <1>1, <1>3, <3>1, OnlyPart
    <3>3. (j \in added' <=> j \in added) /\ (j \in removed' <=> j \in removed)
      BY <1>2, <2>2
    <3>4. Only(l, Matching(j)) # << >> <=>
              j \in added \/ (j \notin removed /\ Only(text, Matching(j)) # << >>)
      BY DEF KeyedLines
    <3> QED  BY <1>2, <3>2, <3>3, <3>4
  <2> QED  BY <2>1, <2>2
<1>6. OtherLines(f)' = OtherLines(Parse(text))'
  <2> DEFINE h == Parse(text).lines
             o == Unnamed'
  <2>1. o = Unnamed \ Matching(k)
    BY <1>2, TokensAssumption DEF Unnamed, Matching
  <2>2. o \subseteq Unnamed /\ o \subseteq keep
    BY <2>1 DEF Unnamed
  <2>3. h \in Seq(Lines) /\ Only(l, Unnamed) = Only(h, Unnamed)
    BY <1>1, RenderParse DEF KeyedLines, OtherLines, Files
  <2>4. OtherLines(f)' = Only(f'.lines, o) /\ OtherLines(Parse(text))' = Only(h, o)
    BY <1>2 DEF OtherLines
  <2> HIDE DEF o, h
  <2>5. Only(f'.lines, o) = Only(l, o)
    BY <1>1, <1>3, <2>2, OnlyPart
  <2>6. Only(Only(l, Unnamed), o) = Only(l, o)
    BY <1>1, <2>2, OnlyPart
  <2>7. Only(Only(h, Unnamed), o) = Only(h, o)
    BY <2>2, <2>3, OnlyPart
  <2> QED  BY <2>3, <2>4, <2>5, <2>6, <2>7, Zenon
<1>7. added' \subseteq AKeys /\ removed' \subseteq AKeys
  BY <1>1, <1>2
<1>8. f'.noFinalNewline => f'.lines # << >>
  BY <1>2 DEF RemoveLines
<1> QED  BY <1>1, <1>2, <1>4, <1>5, <1>6, <1>7, <1>8, Zenon DEF KeyedLines

LEMMA KeyedAdd == \A k \in AKeys : KeyedLines /\ AddKey(k) => KeyedLines'
<1> SUFFICES ASSUME NEW k \in AKeys, KeyedLines, AddKey(k) PROVE KeyedLines'
  OBVIOUS
<1> DEFINE l == f.lines
           b == NewBody[k]
<1>1. /\ l \in Seq(Lines)
      /\ text \in Seq(Marks) /\ IsText(text)
      /\ added \subseteq AKeys /\ removed \subseteq AKeys
      /\ b \in Bodies /\ b \in Lines /\ KeyOf[b] = k
  BY KeysAssumption DEF KeyedLines, Files, Lines
<1>2. /\ text' = text /\ added' = added \cup {k} /\ removed' = removed
      /\ f' = AddLine(f, k)
  BY DEF AddKey
<1>3. f'.lines = Append(l, b) /\ f' \in Files
  <2>1. Append(l, b) \in Seq(Lines)
    BY <1>1
  <2> QED  BY <1>2, <2>1 DEF AddLine, Files
<1> HIDE DEF l, b
<1>4. \A K : Only(f'.lines, K) = IF b \in K THEN Append(Only(l, K), b) ELSE Only(l, K)
  <2>1. \A K : Only(Append(l, b), K) = IF b \in K THEN Append(Only(l, K), b) ELSE Only(l, K)
    <3>1. l \in Seq(Lines) /\ b \in Lines
      BY <1>1
    <3> QED  BY <3>1, OnlyAppend
  <2> QED  BY <1>3, <2>1, Zenon
<1>5. ASSUME NEW j \in AKeys
      PROVE  Only(f'.lines, Matching(j)) # << >> <=>
                 j \in added' \/ (j \notin removed' /\ Only(text', Matching(j)) # << >>)
  <2>1. CASE j = k
    <3>1. b \in Matching(j)
      BY <1>1, <2>1 DEF Matching
    <3>2. Only(l, Matching(j)) \in Seq(Lines)
      BY <1>1, OnlyType
    <3>3. Append(Only(l, Matching(j)), b) # << >>
      BY <1>1, <3>2, Appended
    <3> QED  BY <1>2, <1>4, <2>1, <3>1, <3>3
  <2>2. CASE j # k
    <3>1. b \notin Matching(j)
      BY <1>1, <2>2 DEF Matching
    <3>2. j \in added' <=> j \in added
      BY <1>2, <2>2
    <3>3. Only(l, Matching(j)) # << >> <=>
              j \in added \/ (j \notin removed /\ Only(text, Matching(j)) # << >>)
      BY DEF KeyedLines, l
    <3> QED  BY <1>2, <1>4, <3>1, <3>2, <3>3
  <2> QED  BY <2>1, <2>2
<1>6. OtherLines(f)' = OtherLines(Parse(text))'
  <2> DEFINE h == Parse(text).lines
             o == Unnamed'
  <2>1. o = Unnamed \ Matching(k)
    BY <1>2, TokensAssumption DEF Unnamed, Matching
  <2>2. o \subseteq Unnamed /\ b \notin o
    BY <1>1, <2>1 DEF Matching
  <2>3. h \in Seq(Lines) /\ Only(l, Unnamed) = Only(h, Unnamed)
    BY <1>1, RenderParse DEF KeyedLines, OtherLines, Files, l
  <2>4. OtherLines(f)' = Only(f'.lines, o) /\ OtherLines(Parse(text))' = Only(h, o)
    BY <1>2 DEF OtherLines
  <2> HIDE DEF o, h
  <2>5. Only(f'.lines, o) = Only(l, o)
    BY <1>4, <2>2
  <2>6. Only(Only(l, Unnamed), o) = Only(l, o)
    BY <1>1, <2>2, OnlyPart
  <2>7. Only(Only(h, Unnamed), o) = Only(h, o)
    BY <2>2, <2>3, OnlyPart
  <2> QED  BY <2>3, <2>4, <2>5, <2>6, <2>7, Zenon
<1>7. added' \subseteq AKeys /\ removed' \subseteq AKeys
  BY <1>1, <1>2
<1>8. ~f'.noFinalNewline
  BY <1>2 DEF AddLine
<1> QED  BY <1>1, <1>2, <1>3, <1>5, <1>6, <1>7, <1>8, Zenon DEF KeyedLines

LEMMA KeyedStep == KeyedLines /\ [Next]_vars => KeyedLines'
<1> SUFFICES ASSUME KeyedLines, [Next]_vars PROVE KeyedLines'
  OBVIOUS
<1>1. CASE Store
  BY <1>1, KeyedStore
<1>2. CASE \E k \in AKeys : RemoveKey(k)
  BY <1>2, KeyedRemove
<1>3. CASE \E k \in AKeys : AddKey(k)
  BY <1>3, KeyedAdd
<1>4. CASE UNCHANGED vars
  BY <1>4 DEF vars, KeyedLines, OtherLines, Unnamed
<1> QED  BY <1>1, <1>2, <1>3, <1>4 DEF Next

LEMMA KeyedShows == KeyedLines => RoundTrip /\ EditsTheKeySet /\ KeepsOtherLines
<1> SUFFICES ASSUME KeyedLines PROVE RoundTrip /\ EditsTheKeySet /\ KeepsOtherLines
  OBVIOUS
<1> DEFINE r == Render(f)
<1>1. text \in Seq(Marks) /\ IsText(text) /\ f \in Files
  BY DEF KeyedLines
<1>2. r \in Seq(Marks) /\ \A K \in SUBSET Bodies : Only(r, K) = Only(f.lines, K)
  BY <1>1, RenderText
<1>3. RoundTrip
  BY <1>1, RenderParse DEF RoundTrip
<1> HIDE DEF r
<1>4. ASSUME NEW k
      PROVE  k \in KeysOfText(r) <=> k \in (KeysOfText(text) \ removed) \cup added
  <2>1. k \in KeysOfText(r) <=> k # NoKey /\ Only(f.lines, Matching(k)) # << >>
    <3>1. Matching(k) \in SUBSET Bodies
      BY DEF Matching
    <3> QED  BY <1>2, <3>1, KeysShown
  <2>2. k \in KeysOfText(text) <=> k # NoKey /\ Only(text, Matching(k)) # << >>
    BY <1>1, KeysShown
  <2>3. added \subseteq AKeys /\ NoKey \notin added
    BY KeysAssumption DEF KeyedLines
  <2>4. CASE k \in AKeys
    <3>1. Only(f.lines, Matching(k)) # << >> <=>
              k \in added \/ (k \notin removed /\ Only(text, Matching(k)) # << >>)
      BY <2>4 DEF KeyedLines
    <3> QED  BY <2>1, <2>2, <2>3, <3>1, Zenon
  <2>5. CASE k \notin AKeys /\ k # NoKey
    <3>1. Matching(k) = {}
      BY <2>5, KeysAssumption DEF Matching
    <3>2. Only(f.lines, {}) = << >> /\ Only(text, {}) = << >>
      BY <1>1, OnlyNone DEF Files
    <3> QED  BY <2>1, <2>2, <2>3, <2>5, <3>1, <3>2
  <2>6. CASE k = NoKey
    BY <2>1, <2>2, <2>3, <2>6
  <2> QED  BY <2>4, <2>5, <2>6
<1>5. EditsTheKeySet
  BY <1>4 DEF EditsTheKeySet, r
<1>6. KeepsOtherLines
  <2> DEFINE l == Parse(r).lines
  <2>1. /\ l \in Seq(Lines)
        /\ EndsInLostBlank(f) => f.lines = Append(l, Blank)
        /\ ~EndsInLostBlank(f) => l = f.lines
    BY <1>1, ParseRender DEF KeyedLines, r
  <2> HIDE DEF l
  <2>2. Blank \in Lines /\ Blank \in Unnamed
    BY DEF Lines, Unnamed
  <2>3. Only(Append(l, Blank), Unnamed) = Append(Only(l, Unnamed), Blank)
    BY <2>1, <2>2, OnlyAppend
  <2>4. OtherLines(Parse(text)) = Only(f.lines, Unnamed)
    BY DEF KeyedLines, OtherLines
  <2> QED  BY <2>1, <2>3, <2>4, Zenon DEF KeepsOtherLines, OtherLines, l, r
<1> QED  BY <1>3, <1>5, <1>6

LEMMA Keyed == Spec => []KeyedLines
<1>1. Init => KeyedLines
  BY KeyedInit
<1>2. KeyedLines /\ [Next]_vars => KeyedLines'
  BY KeyedStep
<1> QED  BY <1>1, <1>2, PTL DEF Spec

\* Whatever edits are made and stored, the file on the host is one that comes
\* back byte for byte when it is parsed and rendered (Parse, Render).
THEOREM FileRoundTrip == Spec => []RoundTrip
  BY Keyed, KeyedShows, PTL

\* The text that the edits render has the keys that the edits of the key set
\* give (File.Remove, File.Add), for files of any length.
THEOREM EditsAreOfKeySet == Spec => []EditsTheKeySet
  BY Keyed, KeyedShows, PTL

\* No edit changes, moves or loses a line that it does not name, a blank one
\* included, but for the one that EndsInLostBlank loses (File.Remove, File.Add,
\* File.Render), for files of any length.
THEOREM OtherLinesKept == Spec => []KeepsOtherLines
  BY Keyed, KeyedShows, PTL

=============================================================================
