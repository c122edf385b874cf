----------------------------- MODULE GuardProofs -----------------------------
(***************************************************************************)
(* The two ends of the guard session, each taken apart.                    *)
(*                                                                         *)
(* The script (TrapScript), for every set of files and number of signals:  *)
(* one that ends without the marker has dealt with every line it found,    *)
(* leaves its evidence last, and with the marker writes nothing.           *)
(* The argument: the lines of the manifest name different files, so the    *)
(* file that one line truncates is not one that an earlier line has dealt  *)
(* with; and an interrupted run counts for nothing, because its successor  *)
(* starts again at the first line.                                         *)
(* A file that it truncates is whole again when it ends: the line that     *)
(* writes it stays ahead of the loop until it is written.                  *)
(*                                                                         *)
(* The connection (Connect), whatever fails on it: its loss is reported    *)
(* once, and with the reason; what is left of it when the run is over only *)
(* comes to its end, and connect never goes back to a step.                *)
(***************************************************************************)
EXTENDS TrapScript, Connect, TLAPS, FiniteSetTheorems

----------------------------------------------------------------------------
(* The script.                                                             *)


Whole(i) == manifest[i].typ # "partial"

\* A partial line is the last one, and nothing is sent after it.
PartialIsLast ==
    \A i \in 1..Len(manifest) : ~Whole(i) => i = Len(manifest) /\ ~open

\* A line says whether its file was there, and follows the copy of one that was.
LinesSound ==
    \A i \in 1..Len(manifest) :
        /\ manifest[i].typ = "A" => was[manifest[i].dst] = "gone"
        /\ manifest[i].typ = "F" => was[manifest[i].dst] = "original" /\ manifest[i].dst \in backup

LinesDiffer ==
    \A i, j \in 1..Len(manifest) :
        Whole(i) /\ Whole(j) /\ manifest[i].dst = manifest[j].dst => i = j

\* Before the trap has run nothing is read or promised.
Fresh == pc \in {"wait", "woken"} => pos = 0 /\ promised = 0 /\ ~marked

\* The run that is under way has dealt with the lines it has read; one that a
\* signal has interrupted will start again.
Progress ==
    /\ pc \in {"read", "cat"} => manifest # << >> /\ ~marked
    /\ pc = "read" /\ ~pending => \A i \in 1..pos : Dealt(i)
    /\ pc = "cat" => pos \in 1..Len(manifest) /\ manifest[pos].typ = "F"
                     /\ \A i \in 1..(pos - 1) : Dealt(i)

\* A run that has returned without the marker has dealt with every line, and
\* only a new one, for a signal, undoes that for a while.
Finished == pc \in {"leaving", "ended"} /\ ~commit => \A i \in 1..promised : Dealt(i)

\* A marker that was there when the session ended stays: no run reads a line.
Evidence ==
    /\ restored => pc \notin {"wait", "woken"}
    /\ marked => commit /\ pc \in {"leaving", "ended", "killed"}

Script ==
    /\ TypeOK /\ PartialIsLast /\ LinesSound /\ LinesDiffer /\ Fresh /\ Progress /\ Evidence
    /\ Finished

USE DEF hostVars, shellVars, historyVars

----------------------------------------------------------------------------
LEMMA ScriptInit == Init => Script
<1> SUFFICES ASSUME Init PROVE Script
  OBVIOUS
<1>1. Len(manifest) = 0 /\ manifest \in Seq(Line)
  BY DEF Init
<1>2. TypeOK
  <2>1. was \in [Paths -> {"original", "gone"}]
        /\ file \in [Paths -> {"original", "gone", "new", "torn"}]
    BY DEF Init
  <2>2. pos \in 0..Len(manifest) /\ promised \in 0..Len(manifest) /\ signals \in 0..MaxSignals
    BY <1>1, MaxSignalsAssumption DEF Init
  <2> QED
    BY <1>1, <2>1, <2>2 DEF Init, TypeOK
<1> QED
  BY <1>1, <1>2 DEF Init, Script, PartialIsLast, LinesSound, LinesDiffer, Fresh, Progress,
     Evidence, Finished

\* A line names a file.
LEMMA LineDst ==
    ASSUME Script, NEW i \in 1..Len(manifest)
    PROVE  manifest[i] \in Line /\ manifest[i].dst \in Paths
<1>1. manifest[i] \in Line
  BY DEF Script, TypeOK
<1> QED
  BY <1>1 DEF Line

\* A line stays dealt with as long as its file is left alone, or is swapped by
\* the client while the trap runs.
LEMMA StaysDealt ==
    ASSUME NEW i, Dealt(i), manifest'[i] = manifest[i], UNCHANGED was,
           refused \subseteq refused', since \subseteq since',
           Whole(i) => file'[manifest[i].dst] = file[manifest[i].dst] \/ manifest[i].dst \in since'
    PROVE  Dealt(i)'
  BY DEF Dealt, Whole

\* A step that leaves the manifest and the marker alone.
Reading == UNCHANGED <<was, backup, manifest, commit, open, since>>

LEMMA ReadingKeeps ==
    ASSUME Script, Reading
    PROVE  PartialIsLast' /\ LinesSound' /\ LinesDiffer'
  BY DEF Script, Reading, PartialIsLast, LinesSound, LinesDiffer, Whole

\* A loop that comes to its end has dealt with all lines, a partial one with
\* nothing.
LEMMA EndDealsWithAll ==
    ASSUME Script, EndOfManifest
    PROVE  \A i \in 1..promised : Dealt(i)'
<1>1. Reading /\ UNCHANGED <<file, refused>>
  BY DEF EndOfManifest, ByShell, Reading
<1>2. \A i : Dealt(i)' <=> Dealt(i)
  BY <1>1 DEF Dealt, Reading
<1>3. Len(manifest) \in Nat /\ pos \in 0..Len(manifest) /\ promised \in 0..Len(manifest)
  BY DEF Script, TypeOK
<1>4. \A i \in 1..Len(manifest) : i <= pos \/ ~Whole(i)
  <2>1. CASE pos >= Len(manifest)
    BY <1>3, <2>1
  <2>2. CASE pos + 1 \in 1..Len(manifest) /\ ~Whole(pos + 1)
    <3>1. pos + 1 = Len(manifest)
      BY <2>2 DEF Script, PartialIsLast
    <3> QED
      BY <1>3, <2>2, <3>1
  <2> QED
    BY <1>3, <2>1, <2>2 DEF EndOfManifest, MoreLines, Whole
<1>5. \A i \in 1..Len(manifest) : Dealt(i)
  BY <1>3, <1>4 DEF EndOfManifest, Script, Progress, Dealt, Whole
<1> QED
  BY <1>2, <1>3, <1>5

\* The steps of the shell that do not touch a file.
LEMMA TurnsKeep ==
    ASSUME Script, Wake \/ EnterTrap \/ Interrupt \/ EndOfManifest \/ Leave
    PROVE  Script'
<1>1. Reading /\ UNCHANGED <<file, link, refused, signals>>
  BY DEF Wake, EnterTrap, Interrupt, EndOfManifest, Leave, ByShell, Reading
<1>2. \A i : Dealt(i)' <=> Dealt(i)
  BY <1>1 DEF Dealt, Reading
<1>3. Len(manifest) \in Nat
  BY DEF Script, TypeOK
<1>4. TypeOK'
  <2>1. /\ pc' \in {"wait", "woken", "read", "cat", "leaving", "ended", "killed"} /\ pos' \in 0..Len(manifest)
        /\ pending' \in BOOLEAN /\ restored' \in BOOLEAN /\ marked' \in BOOLEAN
        /\ promised' \in 0..Len(manifest)
    <3>1. 0 \in 0..Len(manifest) /\ Len(manifest) \in 0..Len(manifest)
      BY <1>3
    <3> QED
      BY <3>1 DEF Script, TypeOK, Wake, EnterTrap, Interrupt, EndOfManifest, Leave, Begin
  <2> QED
    BY <1>1, <2>1 DEF Script, TypeOK, Reading
<1>5. PartialIsLast' /\ LinesSound' /\ LinesDiffer'
  BY <1>1, ReadingKeeps
<1>6. Fresh' /\ Evidence'
  BY <1>1 DEF Script, Fresh, Evidence, Progress, Wake, EnterTrap, Interrupt, EndOfManifest,
     Leave, ByShell, Begin, Reading
<1>7. CASE Wake
  BY <1>1, <1>2, <1>4, <1>5, <1>6, <1>7
     DEF Script, Progress, Finished, Wake, Reading
<1>8. CASE EnterTrap
  <2>1. /\ pc' = (IF commit \/ manifest = << >> THEN "leaving" ELSE "read")
        /\ pos' = 0 /\ promised' = Len(manifest) /\ marked' = commit
        /\ manifest' = manifest /\ commit' = commit
    BY <1>1, <1>8 DEF EnterTrap, Begin, Script, Fresh, Evidence, TypeOK, Reading
  <2>2. Progress'
    BY <2>1 DEF Progress
  <2>3. Finished'
    BY <2>1 DEF Finished
  <2> QED
    BY <1>4, <1>5, <1>6, <2>2, <2>3 DEF Script
<1>9. CASE Interrupt
  <2>1. /\ pc' = (IF commit \/ manifest = << >> THEN "leaving" ELSE "read")
        /\ pos' = 0 /\ marked' = marked /\ promised' = promised
        /\ manifest' = manifest /\ commit' = commit
    BY <1>1, <1>9 DEF Interrupt, Begin, Reading
  <2>4. marked => commit
    BY DEF Script, Evidence
  <2>5. manifest = << >> => promised = 0
    BY <1>3 DEF Script, TypeOK
  <2>2. Progress'
    BY <2>1, <2>4 DEF Progress
  <2>3. Finished'
    BY <2>1, <2>5 DEF Finished
  <2> QED
    BY <1>4, <1>5, <1>6, <2>2, <2>3 DEF Script
<1>10. CASE EndOfManifest
  <2>1. pc' = "leaving" /\ promised' = promised
    BY <1>10 DEF EndOfManifest
  <2>2. Progress'
    BY <2>1 DEF Progress
  <2>3. Finished'
    BY <1>10, <2>1, EndDealsWithAll DEF Finished
  <2> QED
    BY <1>4, <1>5, <1>6, <2>2, <2>3 DEF Script
<1>11. CASE Leave
  <2>1. pc = "leaving" /\ pc' = "ended" /\ UNCHANGED <<promised, commit, marked, manifest>>
    BY <1>1, <1>11 DEF Leave, Reading
  <2>2. Progress'
    BY <2>1 DEF Progress
  <2>3. Finished'
    BY <1>2, <2>1 DEF Script, Finished
  <2> QED
    BY <1>4, <1>5, <1>6, <2>2, <2>3 DEF Script
<1> QED
  BY <1>7, <1>8, <1>9, <1>10, <1>11

\* A line is read: it is dealt with, or its file is truncated.
LEMMA ReadKeeps ==
    ASSUME Script, ReadLine
    PROVE  Script'
<1> DEFINE n == pos + 1
           dst == manifest[n].dst
           copied == manifest[n].typ = "F" /\ dst \in backup
<1>1. /\ pc = "read" /\ ~pending /\ pos' = n
      /\ UNCHANGED <<restored, pending, marked, promised, link, signals>>
      /\ Reading
  BY DEF ReadLine, Advance, ByShell, Reading
<1>2. Len(manifest) \in Nat /\ pos \in 0..Len(manifest) /\ n \in 1..Len(manifest) /\ Whole(n)
  BY DEF ReadLine, MoreLines, Script, TypeOK, Whole
<1>3. manifest[n] \in Line
  BY <1>2, LineDst
<1>4. dst \in Paths /\ manifest[n].typ \in {"F", "A"}
  BY <1>2, <1>3 DEF Line, Whole
<1>5. /\ manifest[n].typ = "A" => was[dst] = "gone"
      /\ manifest[n].typ = "F" => was[dst] = "original" /\ copied
  BY <1>2 DEF Script, LinesSound
<1>6. \/ refused' = refused \cup {dst} /\ UNCHANGED <<file, pc>>
      \/ ~copied /\ file' = [file EXCEPT ![dst] = "gone"] /\ pc' = "read" /\ UNCHANGED refused
         /\ manifest[n].typ = "A"
      \/ copied /\ file' = [file EXCEPT ![dst] = "torn"] /\ pc' = "cat" /\ UNCHANGED refused
  BY <1>4, <1>5 DEF ReadLine
<1>7. \A p \in Paths : p # dst => file'[p] = file[p]
  BY <1>6 DEF Script, TypeOK
<1>8. TypeOK'
  <2>1. file' \in [Paths -> {"original", "gone", "new", "torn"}] /\ refused' \subseteq Paths
        /\ pc' \in {"wait", "woken", "read", "cat", "leaving", "ended", "killed"}
    BY <1>1, <1>4, <1>6 DEF Script, TypeOK
  <2> QED
    BY <1>1, <1>2, <2>1 DEF Script, TypeOK, Reading
<1>9. PartialIsLast' /\ LinesSound' /\ LinesDiffer'
  BY <1>1, ReadingKeeps
<1>10. \A i \in 1..pos : Dealt(i)'
  <2> TAKE i \in 1..pos
  <2>1. i \in 1..Len(manifest) /\ i # n /\ Dealt(i)
    BY <1>1, <1>2 DEF Script, Progress
  <2>2. Whole(i) => manifest[i].dst # dst
    BY <1>2, <2>1 DEF Script, LinesDiffer
  <2>3. manifest[i].dst \in Paths
    BY <2>1, LineDst
  <2>4. Whole(i) => file'[manifest[i].dst] = file[manifest[i].dst]
    BY <1>7, <2>2, <2>3
  <2> QED
    BY <1>1, <1>6, <2>1, <2>4, StaysDealt DEF Reading
<1>11. pc' = "read" => \A i \in 1..n : i = n => Dealt(i)'
  <2> SUFFICES ASSUME pc' = "read", NEW i \in 1..n, i = n PROVE Dealt(i)'
    OBVIOUS
  <2>1. UNCHANGED <<manifest, was>>
    BY <1>1 DEF Reading
  <2>2. CASE dst \in refused'
    BY <2>1, <2>2 DEF Dealt
  <2>3. CASE dst \notin refused'
    <3>1. file'[dst] = "gone" /\ was[dst] = "gone"
      BY <1>4, <1>5, <1>6, <2>3 DEF Script, TypeOK
    <3> QED
      BY <2>1, <3>1 DEF Dealt
  <2> QED
    BY <2>2, <2>3
<1>12. Progress'
  <2>1. pc' = "read" => \A i \in 1..n : Dealt(i)'
    <3>1. \A i \in 1..n : i \in 1..pos \/ i = n
      BY <1>2
    <3> QED
      BY <1>10, <1>11, <3>1
  <2>2. pc' = "cat" => manifest[n].typ = "F"
    BY <1>1, <1>6
  <2>3. manifest' = manifest /\ manifest # << >> /\ ~marked'
    BY <1>1, <1>2 DEF Reading, Script, Progress
  <2>4. n - 1 = pos
    BY <1>2
  <2> QED
    BY <1>1, <1>2, <1>10, <2>1, <2>2, <2>3, <2>4 DEF Progress
<1>13. Fresh' /\ Evidence' /\ Finished'
  BY <1>1, <1>6 DEF Script, Fresh, Evidence, Finished, Progress
<1> QED
  BY <1>8, <1>9, <1>12, <1>13 DEF Script

\* The copy is written: the line at hand is dealt with.
LEMMA WrittenKeeps ==
    ASSUME Script, Written
    PROVE  Script'
<1> DEFINE dst == manifest[pos].dst
<1>1. /\ pc = "cat" /\ pc' = "read" /\ file' = [file EXCEPT ![dst] = "original"]
      /\ UNCHANGED <<restored, refused, pos, pending, marked, promised, link, signals>>
      /\ Reading
  BY DEF Written, ByShell, Reading
<1>2. pos \in 1..Len(manifest) /\ Len(manifest) \in Nat /\ Whole(pos) /\ manifest[pos].typ = "F"
  BY <1>1 DEF Script, Progress, TypeOK, Whole
<1>3. dst \in Paths /\ was[dst] = "original"
  BY <1>2 DEF Script, TypeOK, LinesSound, Line
<1>4. TypeOK'
  <2>1. file' \in [Paths -> {"original", "gone", "new", "torn"}]
    BY <1>1, <1>3 DEF Script, TypeOK
  <2> QED
    BY <1>1, <2>1 DEF Script, TypeOK, Reading
<1>5. \A i \in 1..(pos - 1) : Dealt(i)'
  <2> TAKE i \in 1..(pos - 1)
  <2>1. i \in 1..Len(manifest) /\ i # pos /\ Dealt(i)
    BY <1>1, <1>2 DEF Script, Progress
  <2>2. Whole(i) => manifest[i].dst # dst
    BY <1>2, <2>1 DEF Script, LinesDiffer
  <2>3. manifest[i].dst \in Paths
    BY <2>1, LineDst
  <2>4. Whole(i) => file'[manifest[i].dst] = file[manifest[i].dst]
    BY <1>1, <2>2, <2>3 DEF Script, TypeOK
  <2> QED
    BY <1>1, <2>1, <2>4, StaysDealt DEF Reading
<1>6. file'[dst] = was'[dst] /\ manifest' = manifest
  BY <1>1, <1>3 DEF Script, TypeOK, Reading
<1>7. \A i \in 1..pos : Dealt(i)'
  <2>1. \A i \in 1..pos : i = pos => Dealt(i)'
    BY <1>6 DEF Dealt
  <2> QED
    BY <1>2, <1>5, <2>1
<1>8. Progress'
  BY <1>1, <1>6, <1>7 DEF Script, Progress
<1>9. PartialIsLast' /\ LinesSound' /\ LinesDiffer'
  BY <1>1, ReadingKeeps
<1>10. Fresh' /\ Evidence' /\ Finished'
  BY <1>1 DEF Script, Fresh, Evidence, Finished, Progress
<1> QED
  BY <1>4, <1>8, <1>9, <1>10 DEF Script

\* What is neither the shell's nor the client's doing.
LEMMA OutsideKeeps ==
    ASSUME Script,
           Signal \/ KillShell \/ (\E p \in Paths : Relink(p)) \/ Rest \/ UNCHANGED vars
    PROVE  Script'
<1>1. Reading /\ UNCHANGED <<file, refused, restored, pos, marked, promised>>
  BY DEF Signal, KillShell, Relink, Rest, vars, Reading
<1>2. \A i : Dealt(i)' <=> Dealt(i)
  BY <1>1 DEF Dealt, Reading
<1>3. /\ pc' \in {"wait", "woken", "read", "cat", "leaving", "ended", "killed"} /\ pending' \in BOOLEAN
      /\ signals' \in 0..MaxSignals /\ link' \subseteq Paths
  <2>1. CASE Signal
    <3>1. signals + 1 \in 0..MaxSignals
      BY <2>1, MaxSignalsAssumption DEF Script, TypeOK, Signal
    <3> QED
      BY <2>1, <3>1 DEF Script, TypeOK, Signal
  <2>2. CASE KillShell \/ (\E p \in Paths : Relink(p)) \/ Rest \/ UNCHANGED vars
    BY <2>2 DEF Script, TypeOK, KillShell, Relink, Rest, vars
  <2> QED
    BY <2>1, <2>2
<1>4. TypeOK'
  BY <1>1, <1>3 DEF Script, TypeOK, Reading
<1>5. PartialIsLast' /\ LinesSound' /\ LinesDiffer'
  BY <1>1, ReadingKeeps
<1>6. /\ pc' = pc \/ pc' \in {"woken", "read", "killed"}
      /\ pc' = "woken" => pc \in {"wait", "woken"}
      /\ pc' = "read" => pc = "read" \/ (pending' /\ pc = "cat")
      /\ pc' = "read" /\ ~pending' => ~pending
      /\ pc' # pc => pc \notin {"ended", "killed"}
  BY DEF Signal, KillShell, Relink, Rest, vars, Script, TypeOK
<1>7. Progress'
  BY <1>1, <1>2, <1>6 DEF Script, Progress, Reading
<1>8. Fresh' /\ Evidence' /\ Finished'
  BY <1>1, <1>2, <1>6 DEF Script, Fresh, Evidence, Finished, Reading
<1> QED
  BY <1>4, <1>5, <1>7, <1>8 DEF Script

\* What the client's steps leave to the shell.
LEMMA ClientKeeps ==
    ASSUME Script, ByClient, UNCHANGED manifest, commit => commit',
           file' \in [Paths -> {"original", "gone", "new", "torn"}], backup' \subseteq Paths,
           backup \subseteq backup', commit' \in BOOLEAN, open' \in BOOLEAN, since' \subseteq Paths,
           since \subseteq since',
           pc \notin {"wait", "woken"} =>
               \A p \in Paths : file'[p] = file[p] \/ p \in since'
    PROVE  Script'
<1>1. UNCHANGED <<was, link, restored, refused, pc, pos, pending, signals, marked, promised>> /\ open
  BY DEF ByClient
<1>2. TypeOK'
  BY <1>1 DEF Script, TypeOK
<1>3. PartialIsLast' /\ LinesSound' /\ LinesDiffer'
  BY <1>1 DEF Script, PartialIsLast, LinesSound, LinesDiffer, Whole
<1>4. pc \notin {"wait", "woken"} => \A i \in 1..Len(manifest) : Dealt(i) => Dealt(i)'
  <2> SUFFICES ASSUME pc \notin {"wait", "woken"}, NEW i \in 1..Len(manifest), Dealt(i)
               PROVE  Dealt(i)'
    OBVIOUS
  <2>1. manifest[i].dst \in Paths
    BY LineDst
  <2> QED
    BY <1>1, <2>1, StaysDealt
<1>5. Len(manifest) \in Nat /\ pos \in 0..Len(manifest) /\ promised \in 0..Len(manifest)
  BY DEF Script, TypeOK
<1>6. Fresh' /\ Evidence'
  BY <1>1 DEF Script, Fresh, Evidence
<1>7. Progress'
  BY <1>1, <1>4, <1>5 DEF Script, Progress
<1>8. Finished'
  <2> QED
    BY <1>1, <1>4, <1>5 DEF Script, Finished
<1> QED
  BY <1>2, <1>3, <1>6, <1>7, <1>8 DEF Script

\* A new line is the last one, for a file that none before it names.
LEMMA AppendKeeps ==
    ASSUME Script, NEW p \in Paths, AppendLine(p)
    PROVE  Script'
<1> DEFINE line == manifest'[Len(manifest) + 1]
<1>1. /\ UNCHANGED <<was, link, restored, refused, pc, pos, pending, signals, marked, promised>>
      /\ UNCHANGED <<file, backup, commit, since>> /\ open /\ open' \in BOOLEAN
  BY DEF AppendLine, ByClient, Script, TypeOK
<1>2. PICK new \in Line :
          /\ manifest' = Append(manifest, new) /\ new.dst = p
          /\ new.typ = "A" => was[p] = "gone"
          /\ new.typ = "F" => was[p] = "original" /\ p \in backup
          /\ new.typ = "partial" => ~open'
  <2>1. was[p] \in {"original", "gone"}
    BY DEF Script, TypeOK
  <2>2. CASE /\ manifest' = Append(manifest,
                    [typ |-> IF was[p] = "gone" THEN "A" ELSE "F", dst |-> p])
             /\ was[p] = "gone" \/ p \in backup
    <3>1. [typ |-> IF was[p] = "gone" THEN "A" ELSE "F", dst |-> p] \in Line
      BY DEF Line
    <3> QED
      BY <2>1, <2>2, <3>1
  <2>3. CASE manifest' = Append(manifest, [typ |-> "partial", dst |-> p]) /\ open' = FALSE
    <3>1. [typ |-> "partial", dst |-> p] \in Line
      BY DEF Line
    <3> QED
      BY <2>3, <3>1
  <2> QED
    BY <2>2, <2>3 DEF AppendLine
<1>3. manifest \in Seq(Line) /\ Len(manifest) \in Nat
  BY DEF Script, TypeOK
<1>4. /\ manifest' \in Seq(Line) /\ Len(manifest') = Len(manifest) + 1
      /\ line = new
      /\ \A i \in 1..Len(manifest) : manifest'[i] = manifest[i]
      /\ \A i \in 1..Len(manifest') : i \in 1..Len(manifest) \/ i = Len(manifest')
  BY <1>2, <1>3
<1>5. \A i \in 1..Len(manifest) : Whole(i) /\ manifest[i].dst # p
  BY <1>1 DEF AppendLine, Manifested, Script, PartialIsLast, Whole
<1>6. TypeOK'
  BY <1>1, <1>3, <1>4 DEF Script, TypeOK
<1>7. PartialIsLast'
  BY <1>2, <1>3, <1>4, <1>5 DEF PartialIsLast, Whole
<1>8. LinesSound'
  BY <1>1, <1>2, <1>3, <1>4 DEF Script, LinesSound
<1>9. LinesDiffer'
  BY <1>2, <1>3, <1>4, <1>5 DEF Script, LinesDiffer, Whole
<1>10. \A i \in 1..Len(manifest) : Dealt(i)' <=> Dealt(i)
  BY <1>1, <1>4 DEF Dealt
<1>11. pos \in 0..Len(manifest) /\ promised \in 0..Len(manifest)
  BY DEF Script, TypeOK
<1>12. Fresh' /\ Evidence'
  BY <1>1 DEF Script, Fresh, Evidence
<1>13. Progress'
  <2>1. manifest' # << >>
    BY <1>3, <1>4
  <2>2. pc = "cat" => pos \in 1..Len(manifest') /\ manifest'[pos].typ = "F"
    BY <1>3, <1>4 DEF Script, Progress
  <2> QED
    BY <1>1, <1>3, <1>10, <1>11, <2>1, <2>2 DEF Script, Progress
<1>14. Finished'
  BY <1>1, <1>3, <1>10, <1>11 DEF Script, Finished
<1> QED
  BY <1>6, <1>7, <1>8, <1>9, <1>12, <1>13, <1>14 DEF Script

LEMMA ScriptStep == Script /\ [Next]_vars => Script'
<1> SUFFICES ASSUME Script, [Next]_vars PROVE Script'
  OBVIOUS
<1>1. CASE Shell
  BY <1>1, TurnsKeep, ReadKeeps, WrittenKeeps DEF Shell
<1>2. CASE Client
  <2>1. ASSUME NEW p \in Paths, AppendLine(p) PROVE Script'
    BY <2>1, AppendKeeps
  <2>2. ASSUME NEW p \in Paths, SaveBackup(p) PROVE Script'
    BY <2>2, ClientKeeps DEF SaveBackup, ByClient, Script, TypeOK
  <2>3. ASSUME NEW p \in Paths, SwapFile(p) PROVE Script'
    <3>1. PICK c \in {"new", was[p]} : file' = [file EXCEPT ![p] = c]
      BY <2>3 DEF SwapFile
    <3>2. c \in {"original", "gone", "new", "torn"}
      BY <3>1 DEF Script, TypeOK
    <3>3. file' \in [Paths -> {"original", "gone", "new", "torn"}]
          /\ \A q \in Paths : q # p => file'[q] = file[q]
      BY <3>1, <3>2 DEF Script, TypeOK
    <3>4. since' = IF pc \in {"wait", "woken"} THEN since ELSE since \cup {p}
      BY <2>3 DEF SwapFile
    <3> QED
      BY <2>3, <3>3, <3>4, ClientKeeps DEF SwapFile, ByClient, Script, TypeOK
  <2>4. CASE WriteMarker \/ Disconnect
    BY <2>4, ClientKeeps DEF WriteMarker, Disconnect, ByClient, Script, TypeOK
  <2> QED
    BY <1>2, <2>1, <2>2, <2>3, <2>4 DEF Client
<1>3. CASE Signal \/ KillShell \/ (\E p \in Paths : Relink(p)) \/ Rest \/ UNCHANGED vars
  BY <1>3, OutsideKeeps
<1> QED
  BY <1>1, <1>2, <1>3 DEF Next

----------------------------------------------------------------------------
(* The theorems.                                                           *)

LEMMA ScriptHolds == Spec => []Script
  BY ScriptInit, ScriptStep, PTL DEF Spec

\* A script that ends without the marker has dealt with every line that was
\* there when its session ended, whatever signals came in between
\* (guardScript, restore_all).
THEOREM RestoresEverything == Spec => []RestoresAll
<1>1. Script => RestoresAll
  BY DEF Script, Finished, RestoresAll
<1> QED
  BY <1>1, ScriptHolds, PTL

\* When $TX/restored appears, everything is dealt with (guardScript).
THEOREM EvidenceComesLast == Spec => EvidenceIsLast
<1>1. Script /\ [Next]_vars =>
          [~restored /\ restored' => \A i \in 1..promised : Dealt(i)']_vars
  <2> SUFFICES ASSUME Script, Next, ~restored, restored'
               PROVE  \A i \in 1..promised : Dealt(i)'
    OBVIOUS
  <2>1. Shell
    BY DEF Next, Client, SaveBackup, AppendLine, SwapFile, WriteMarker, Disconnect, ByClient,
       Signal, KillShell, Relink, Rest, vars
  <2>2. EndOfManifest
    BY <2>1 DEF Shell, Wake, EnterTrap, Interrupt, ReadLine, Written, Leave
  <2> QED
    BY <2>2, EndDealsWithAll
<1> QED
  BY <1>1, ScriptHolds, PTL DEF EvidenceIsLast, Spec

\* With the marker in place when the session ends, no file is written by the
\* shell, also when signals run restore_all again (guardScript: "the trap sees
\* $TX/commit and restores nothing").
THEOREM MarkerAlwaysDisarms == Spec => MarkerDisarms
<1>1. Script => [Shell /\ marked => UNCHANGED file]_vars
  <2> SUFFICES ASSUME Script, Shell, marked PROVE UNCHANGED file
    OBVIOUS
  <2>1. pc \in {"leaving", "ended", "killed"}
    BY DEF Script, Evidence
  <2> QED
    BY <2>1 DEF Shell, Wake, EnterTrap, Interrupt, ReadLine, Written, EndOfManifest, Leave, ByShell
<1> QED
  BY <1>1, ScriptHolds, PTL DEF MarkerDisarms

----------------------------------------------------------------------------
(* A truncated file.                                                       *)

\* The loop has line i before it, or will have it again.
ToCome(i) ==
    \/ pc = "cat" /\ i >= pos
    \/ pc = "read" /\ (pending \/ i > pos)

\* A file that is truncated has a line that writes it, and its line is to come;
\* but for a script that is killed, or that finds a marker when it starts again.
Ahead(p) ==
    /\ p \notin link
    /\ \E i \in 1..Len(manifest) :
            manifest[i].typ = "F" /\ manifest[i].dst = p /\ ToCome(i)

TornAhead == \A p \in Paths : file[p] = "torn" /\ ~commit /\ pc # "killed" => Ahead(p)

LEMMA TornInit == Init => TornAhead
  BY DEF Init, TornAhead

\* The shell truncates a file with its line at hand, and passes no line of a
\* truncated file.
LEMMA ShellKeepsAhead ==
    ASSUME Script, TornAhead, Shell
    PROVE  TornAhead'
<1> SUFFICES ASSUME NEW p \in Paths, file'[p] = "torn", ~commit', pc' # "killed"
             PROVE  Ahead(p)'
  BY DEF TornAhead
<1>1. /\ UNCHANGED <<link, manifest, commit>>
      /\ pc \notin {"ended", "killed"} /\ ~commit
  BY DEF Shell, Wake, EnterTrap, Interrupt, ReadLine, Written, EndOfManifest, Leave, ByShell
<1>2. Len(manifest) \in Nat /\ pos \in 0..Len(manifest)
  BY DEF Script, TypeOK
<1>3. file[p] = "torn" => p \notin link /\ \E i \in 1..Len(manifest) :
            manifest[i].typ = "F" /\ manifest[i].dst = p /\ ToCome(i)
  BY <1>1 DEF TornAhead, Ahead
<1>4. ASSUME NEW i \in 1..Len(manifest), manifest[i].typ = "F", manifest[i].dst = p, ToCome(i)',
             p \notin link
      PROVE  Ahead(p)'
  BY <1>1, <1>4 DEF Ahead
<1>5. CASE Wake \/ EnterTrap
  BY <1>3, <1>5 DEF Wake, EnterTrap, ByShell, ToCome
<1>6. CASE Interrupt
  <2>1. PICK i \in 1..Len(manifest) : manifest[i].typ = "F" /\ manifest[i].dst = p
    BY <1>3, <1>6 DEF Interrupt, ByShell
  <2>2. pc' = "read" /\ pos' = 0
    BY <1>1, <1>2, <1>6, <2>1 DEF Interrupt, Begin, Script, Progress
  <2> QED
    BY <1>2, <1>3, <1>4, <1>6, <2>1, <2>2 DEF Interrupt, ToCome
<1>7. CASE ReadLine
  <2> DEFINE n == pos + 1
             dst == manifest[n].dst
  <2>1. n \in 1..Len(manifest) /\ manifest[n] \in Line /\ dst \in Paths
    <3>1. n \in 1..Len(manifest)
      BY <1>2, <1>7 DEF ReadLine, MoreLines
    <3> QED
      BY <3>1, LineDst
  <2>2. pc = "read" /\ ~pending /\ pos' = n
    BY <1>7 DEF ReadLine, Advance
  <2>3. manifest[n].typ \in {"F", "A"}
    BY <1>7, <2>1 DEF ReadLine, MoreLines, Line
  <2>4. manifest[n].typ = "F" => dst \in backup
    BY <2>1 DEF Script, LinesSound
  <2>5. \/ dst \in link /\ UNCHANGED <<file, pc>>
        \/ dst \notin link /\ manifest[n].typ = "A" /\ file' = [file EXCEPT ![dst] = "gone"]
           /\ pc' = "read"
        \/ dst \notin link /\ manifest[n].typ = "F" /\ file' = [file EXCEPT ![dst] = "torn"]
           /\ pc' = "cat"
    BY <1>7, <2>3, <2>4 DEF ReadLine
  <2>6. CASE p = dst
    <3>1. manifest[n].typ = "F" /\ p \notin link /\ pc' = "cat"
      BY <1>3, <2>1, <2>5, <2>6 DEF Script, TypeOK
    <3>2. PICK i \in 1..Len(manifest) : i = n
      BY <2>1
    <3>3. ToCome(i)'
      BY <1>2, <2>2, <3>1, <3>2 DEF ToCome
    <3>4. manifest[i].typ = "F" /\ manifest[i].dst = p
      BY <2>6, <3>1, <3>2
    <3> QED
      BY <1>4, <3>1, <3>3, <3>4
  <2>7. CASE p # dst
    <3>1. file[p] = "torn"
      BY <2>1, <2>5, <2>7 DEF Script, TypeOK
    <3>2. PICK i \in 1..Len(manifest) : manifest[i].typ = "F" /\ manifest[i].dst = p /\ ToCome(i)
      BY <1>3, <3>1
    <3>3. i > n
      <4>1. i > pos /\ i # n
        BY <2>2, <2>7, <3>2 DEF ToCome
      <4> QED
        BY <1>2, <4>1
    <3>4. pc' \in {"read", "cat"}
      BY <2>2, <2>5
    <3>5. ToCome(i)'
      BY <1>2, <2>2, <3>3, <3>4 DEF ToCome
    <3> QED
      BY <1>3, <1>4, <3>1, <3>2, <3>5
  <2> QED
    BY <2>6, <2>7
<1>8. CASE Written
  <2>1. pc = "cat" /\ pc' = "read" /\ pos' = pos /\ pos \in 1..Len(manifest)
        /\ file' = [file EXCEPT ![manifest[pos].dst] = "original"]
    BY <1>8 DEF Written, Script, Progress
  <2>2. p # manifest[pos].dst /\ file[p] = "torn"
    BY <2>1 DEF Script, TypeOK
  <2>3. PICK i \in 1..Len(manifest) : manifest[i].typ = "F" /\ manifest[i].dst = p /\ ToCome(i)
    BY <1>3, <2>2
  <2>4. i >= pos /\ i # pos
    BY <2>1, <2>2, <2>3 DEF ToCome
  <2>5. ToCome(i)'
    BY <1>2, <2>1, <2>4 DEF ToCome
  <2> QED
    BY <1>3, <1>4, <2>2, <2>3, <2>5
<1>9. CASE EndOfManifest
  <2>1. file[p] = "torn" /\ pc = "read" /\ ~pending /\ ~MoreLines
    BY <1>9 DEF EndOfManifest, ByShell
  <2>2. PICK i \in 1..Len(manifest) : manifest[i].typ = "F" /\ manifest[i].dst = p /\ i > pos
    BY <1>3, <2>1 DEF ToCome
  <2>3. pos < Len(manifest) /\ pos + 1 \in 1..Len(manifest)
    BY <1>2, <2>2
  <2>4. ~Whole(pos + 1)
    BY <2>1, <2>3 DEF MoreLines, Whole
  <2>5. pos + 1 = Len(manifest)
    BY <2>3, <2>4 DEF Script, PartialIsLast
  <2>6. i = pos + 1
    BY <1>2, <2>2, <2>5
  <2> QED
    BY <2>2, <2>4, <2>6 DEF Whole
<1>10. CASE Leave
  BY <1>1, <1>3, <1>10 DEF Leave, ByShell, ToCome
<1> QED
  BY <1>5, <1>6, <1>7, <1>8, <1>9, <1>10 DEF Shell

\* Nobody else truncates a file, or takes its line away.
LEMMA OthersKeepAhead ==
    ASSUME Script, TornAhead, [Next]_vars, ~Shell
    PROVE  TornAhead'
<1> SUFFICES ASSUME NEW p \in Paths, file'[p] = "torn", ~commit', pc' # "killed"
             PROVE  Ahead(p)'
  BY DEF TornAhead
<1>1. Len(manifest) \in Nat /\ pos \in 0..Len(manifest)
  BY DEF Script, TypeOK
<1>2. ASSUME file[p] = "torn", ~commit, pc # "killed", link' \in {link} \/ pc = "wait",
             \/ manifest' = manifest
             \/ \E e \in Line : manifest' = Append(manifest, e),
             pos' = pos,
             \/ pc' = pc /\ (pending => pending')
             \/ pc \in {"cat", "wait"} /\ pc' \in {"read", "woken"} /\ pending' /\ (pc = "cat" => pc' = "read")
      PROVE  Ahead(p)'
  <2>1. PICK i \in 1..Len(manifest) : manifest[i].typ = "F" /\ manifest[i].dst = p /\ ToCome(i)
    BY <1>2 DEF TornAhead, Ahead
  <2>2. p \notin link' /\ pc \in {"cat", "read"}
    BY <1>2, <2>1 DEF TornAhead, Ahead, ToCome
  <2>3. i \in 1..Len(manifest') /\ manifest'[i] = manifest[i]
    BY <1>1, <1>2 DEF Script, TypeOK
  <2>4. ToCome(i)'
    BY <1>2, <2>1, <2>2 DEF ToCome
  <2> QED
    BY <2>1, <2>2, <2>3, <2>4 DEF Ahead
<1>3. ASSUME NEW q \in Paths, SaveBackup(q) PROVE Ahead(p)'
  BY <1>2, <1>3 DEF SaveBackup, ByClient
<1>4. ASSUME NEW q \in Paths, AppendLine(q) PROVE Ahead(p)'
  <2>1. [typ |-> IF was[q] = "gone" THEN "A" ELSE "F", dst |-> q] \in Line
        /\ [typ |-> "partial", dst |-> q] \in Line
    BY DEF Line
  <2> QED
    BY <1>2, <1>4, <2>1 DEF AppendLine, ByClient
<1>5. ASSUME NEW q \in Paths, SwapFile(q) PROVE Ahead(p)'
  <2>1. PICK c \in {"new", was[q]} : file' = [file EXCEPT ![q] = c]
    BY <1>5 DEF SwapFile
  <2>2. c # "torn"
    BY <2>1 DEF Script, TypeOK
  <2>3. file[p] = "torn"
    BY <2>1, <2>2 DEF Script, TypeOK
  <2> QED
    BY <1>2, <1>5, <2>3 DEF SwapFile, ByClient
<1>6. CASE WriteMarker \/ Disconnect
  BY <1>2, <1>6 DEF WriteMarker, Disconnect, ByClient
<1>7. CASE Signal
  BY <1>2, <1>7 DEF Signal, Script, TypeOK
<1>8. CASE KillShell
  BY <1>8 DEF KillShell
<1>9. ASSUME NEW q \in Paths, Relink(q) PROVE Ahead(p)'
  BY <1>2, <1>9 DEF Relink
<1>10. CASE Rest \/ UNCHANGED vars
  BY <1>2, <1>10 DEF Rest, vars
<1> QED
  BY <1>3, <1>4, <1>5, <1>6, <1>7, <1>8, <1>9, <1>10 DEF Next, Client

\* Whoever looks when the script has ended finds no truncated file.
NothingLeftTorn == pc = "ended" /\ ~commit => \A p \in Paths : file[p] # "torn"

\* A script that has ended leaves no file truncated, however often it was
\* interrupted and whatever the client wrote meanwhile, unless it has found the
\* marker (guardScript: `cat backup > target`).  What TornIsRepaired asks for
\* then is only that the script goes on.
THEOREM NoFileStaysTorn == Spec => []NothingLeftTorn
<1>1. Script /\ TornAhead /\ [Next]_vars => TornAhead'
  BY ShellKeepsAhead, OthersKeepAhead
<1>2. TornAhead => NothingLeftTorn
  BY DEF TornAhead, Ahead, ToCome, NothingLeftTorn
<1> QED
  BY <1>1, <1>2, TornInit, ScriptHolds, PTL DEF Spec

----------------------------------------------------------------------------
(* The watchdog of the connection.                                         *)

\* connLost is closed at the last of the watchdog's places, behind the one at
\* which the reason is noted, and the watchdog is started once.
Places ==
    /\ lost = IF watchdog = "done" THEN 1 ELSE 0
    /\ watchdog \in {"close", "done"} => connErr
    /\ stage = "dial" => watchdog = "none"

LEMMA OthersKeepPlaces ==
    ASSUME Places, UNCHANGED watchVars, stage' = "dial" => stage = "dial"
    PROVE  Places'
  BY DEF Places, watchVars

LEMMA WatchdogKeepsPlaces ==
    ASSUME Places, Dial \/ Watchdog \/ Reply
    PROVE  Places'
<1> USE DEF Places, ByGoroutine, mainVars, Goto
<1>1. CASE Dial
  BY <1>1 DEF Dial
<1>2. CASE Tick
  BY <1>2 DEF Tick
<1>3. CASE Unanswered
  BY <1>3 DEF Unanswered
<1>4. CASE NoteReason
  BY <1>4 DEF NoteReason
<1>5. CASE CloseLost
  BY <1>5 DEF CloseLost
<1>6. CASE Reply
  BY <1>6 DEF Reply
<1> QED
  BY <1>1, <1>2, <1>3, <1>4, <1>5, <1>6 DEF Watchdog

LEMMA PlacesStep == Places /\ [ConnectNext]_connectVars => Places'
<1> SUFFICES ASSUME Places, [ConnectNext]_connectVars PROVE Places'
  OBVIOUS
<1>1. CASE Dial \/ Watchdog \/ Reply
  BY <1>1, WatchdogKeepsPlaces
<1>2. CASE OpenSession \/ Unhealthy \/ CutOff \/ TimeOut \/ StartGuard \/ AwaitToken \/ CloseGuard
           \/ CloseClient \/ Answered \/ Refused \/ Finish
  <2>1. UNCHANGED watchVars /\ (stage' = "dial" => stage = "dial")
    BY <1>2 DEF OpenSession, Unhealthy, CutOff, TimeOut, StartGuard, AwaitToken, CloseGuard,
                CloseClient, Answered, Refused, Finish, Goto, Fail, Cleanup, CommandFailed,
                ToRmOrClose, Following, InCommand, Commands, mainVars
  <2> QED  BY <2>1, OthersKeepPlaces
<1>3. CASE Read \/ WaitReturns \/ RunnerEnds \/ ScriptExits \/ FallSilent \/ Drop \/ GiveUp
           \/ UNCHANGED connectVars
  <2>1. UNCHANGED watchVars /\ (stage' = "dial" => stage = "dial")
    BY <1>3 DEF Read, WaitReturns, RunnerEnds, ScriptExits, FallSilent, Drop, GiveUp,
                connectVars, mainVars, ByGoroutine
  <2> QED  BY <2>1, OthersKeepPlaces
<1> QED
  BY <1>1, <1>2, <1>3 DEF ConnectNext, Main, ConnectRest

\* connLost is closed once, and whoever finds it closed finds the reason in
\* connErr (the watchdog of connect).
THEOREM LossIsReported == ConnectSpec => []LossReported
<1>1. ConnectInit => Places
  BY DEF ConnectInit, Places
<1>2. Places => LossReported
  BY DEF Places, LossReported
<1> QED  BY <1>1, <1>2, PlacesStep, PTL DEF ConnectSpec

----------------------------------------------------------------------------
(* What is left of a connection.                                           *)

\* Before the dial there is nothing, after the run no connection; every connection
\* has a watchdog, and one that waits for a reply has asked for it.
Wired ==
    /\ stage = "dial" => conn = "none"
    /\ conn = "none" => stage \in {"dial", "over"} /\ Quiet /\ script = "off"
    /\ stage = "over" => conn \in {"none", "closed"}
    /\ watchdog = "none" => conn = "none"
    /\ watchdog = "await" => keepalive = "sending"

\* What is still to happen in the goroutines and on the host once the run is over.
Toll(b) == IF b THEN 1 ELSE 0

WatchdogLeft ==
    CASE watchdog = "tick" -> 8
      [] watchdog = "await" -> 6
      [] watchdog = "lost" -> 4
      [] watchdog = "close" -> 2
      [] OTHER -> 0

ReaderLeft ==
    CASE reader = "scan" -> 2
      [] reader = "drain" -> 1
      [] OTHER -> 0

Leftovers ==
    WatchdogLeft + Toll(keepalive = "sending") + ReaderLeft + Toll(waiter = "wait")
    + Cardinality(runners) + Toll(script = "armed")

Wanes == stage = "over" => stage' = "over" /\ Leftovers \in Nat /\ Leftovers' \in Nat
                           /\ Leftovers' < Leftovers

\* ConnectTypeOK in two parts, for the two provers that they need.
Flags ==
    /\ opened \in BOOLEAN /\ failed \in BOOLEAN /\ known \in BOOLEAN
    /\ stdin \in BOOLEAN /\ token \in BOOLEAN /\ exited \in BOOLEAN
    /\ connErr \in BOOLEAN /\ dir \in BOOLEAN

Kinds ==
    /\ stage \in Commands \cup {"dial", "start", "await", "work", "closing", "close", "over"}
    /\ conn \in {"none", "up", "silent", "down", "closed"}
    /\ session \in {"none", "open", "closed"}
    /\ runners \subseteq Commands
    /\ reader \in {"none", "scan", "drain", "done"}
    /\ waiter \in {"none", "wait", "done"}
    /\ watchdog \in {"none", "tick", "await", "lost", "close", "done"}
    /\ keepalive \in {"none", "sending"}
    /\ lost \in 0..2
    /\ script \in {"off", "armed", "exited"}

LEMMA TypesSplit == ConnectTypeOK <=> Flags /\ Kinds
  BY Zenon DEF ConnectTypeOK, Flags, Kinds

LEMMA MainFlags ==
    ASSUME Flags,
           \/ Dial \/ OpenSession \/ Unhealthy \/ CutOff \/ TimeOut \/ StartGuard
           \/ AwaitToken \/ CloseGuard \/ CloseClient \/ Answered \/ Refused \/ Finish
    PROVE  Flags'
<1> USE DEF Flags, Goto, guardVars, watchVars
<1>1. CASE Dial
  BY <1>1, Zenon DEF Dial
<1>2. CASE OpenSession
  BY <1>2, Zenon DEF OpenSession
<1>3. CASE Unhealthy
  BY <1>3, Zenon DEF Unhealthy, Fail
<1>4. ASSUME CommandFailed PROVE failed' \in BOOLEAN /\ opened' \in BOOLEAN
  BY <1>4, Zenon DEF CommandFailed, Fail
<1>5. ASSUME Effect PROVE dir' \in BOOLEAN
  BY <1>5 DEF Effect
<1>6. CASE Refused
  BY <1>4, <1>6, Zenon DEF Refused
<1>7. CASE CutOff
  BY <1>4, <1>5, <1>7, Zenon DEF CutOff
<1>8. CASE TimeOut
  BY <1>4, <1>5, <1>8, Zenon DEF TimeOut
<1>9. CASE StartGuard
  BY <1>9, Zenon DEF StartGuard, Fail
<1>10. CASE AwaitToken
  BY <1>10, Zenon DEF AwaitToken, Fail
<1>11. CASE CloseGuard
  BY <1>11, Zenon DEF CloseGuard
<1>12. CASE CloseClient \/ Finish
  BY <1>12, Zenon DEF CloseClient, Finish
<1>13. CASE Answered
  BY <1>5, <1>13, Zenon DEF Answered
<1> QED
  BY <1>1, <1>2, <1>3, <1>6, <1>7, <1>8, <1>9, <1>10, <1>11, <1>12, <1>13, Zenon

LEMMA MainKinds ==
    ASSUME Kinds,
           \/ Dial \/ OpenSession \/ Unhealthy \/ CutOff \/ TimeOut \/ StartGuard
           \/ AwaitToken \/ CloseGuard \/ CloseClient \/ Answered \/ Refused \/ Finish
    PROVE  Kinds'
<1> USE DEF Kinds, Goto, guardVars, watchVars
<1>1. CASE Dial
  BY <1>1 DEF Dial, Commands
<1>2. CASE OpenSession \/ CloseClient \/ Finish
  BY <1>2 DEF OpenSession, CloseClient, Finish
<1>3. CASE Unhealthy \/ CutOff \/ Refused \/ TimeOut
  <2>1. ASSUME Fail \/ CommandFailed PROVE stage' \in Commands \cup {"close", "closing"}
    BY <2>1 DEF CommandFailed, Fail, Cleanup, Commands
  <2>2. CASE Unhealthy
    BY <2>1, <2>2 DEF Unhealthy
  <2>3. CASE CutOff \/ Refused
    BY <2>1, <2>3 DEF CutOff, Refused
  <2>4. CASE TimeOut
    BY <2>1, <2>4 DEF TimeOut, InCommand
  <2> QED  BY <1>3, <2>2, <2>3, <2>4
<1>4. CASE StartGuard
  BY <1>4 DEF StartGuard, Fail, Cleanup, Commands
<1>5. CASE AwaitToken
  BY <1>5 DEF AwaitToken, Fail, Cleanup, Commands
<1>6. CASE CloseGuard
  BY <1>6 DEF CloseGuard, ToRmOrClose, Commands
<1>7. CASE Answered
  BY <1>7 DEF Answered, Following, InCommand, Commands
<1> QED
  BY <1>1, <1>2, <1>3, <1>4, <1>5, <1>6, <1>7

LEMMA OthersTyped ==
    ASSUME Flags, Kinds, Places,
           \/ Read \/ WaitReturns \/ RunnerEnds \/ Watchdog \/ Reply
           \/ ScriptExits \/ FallSilent \/ Drop \/ GiveUp \/ UNCHANGED connectVars
    PROVE  Flags' /\ Kinds'
<1> USE DEF ByGoroutine, guardVars, watchVars, mainVars
<1>1. Flags'
  <2>1. CASE Watchdog
    BY <2>1, Zenon DEF Flags, Watchdog, Tick, Unanswered, NoteReason, CloseLost
  <2>2. CASE Read \/ WaitReturns \/ RunnerEnds
    BY <2>2, Zenon DEF Flags, Read, WaitReturns, RunnerEnds
  <2>3. CASE Reply \/ ScriptExits \/ FallSilent \/ Drop \/ GiveUp \/ UNCHANGED connectVars
    BY <2>3, Zenon DEF Flags, Reply, ScriptExits, FallSilent, Drop, GiveUp, connectVars
  <2> QED  BY <2>1, <2>2, <2>3
<1>2. Kinds'
  <2> USE DEF Kinds
  <2>1. CASE Read \/ WaitReturns \/ RunnerEnds
    BY <2>1 DEF Read, WaitReturns, RunnerEnds
  <2>2. CASE Tick \/ Reply \/ Unanswered \/ NoteReason
    BY <2>2 DEF Tick, Reply, Unanswered, NoteReason
  <2>3. CASE CloseLost
    <3>1. lost = 0
      BY <2>3 DEF CloseLost, Places
    <3> QED  BY <2>3, <3>1 DEF CloseLost
  <2>4. CASE ScriptExits \/ FallSilent \/ Drop \/ GiveUp
    BY <2>4 DEF ScriptExits, FallSilent, Drop, GiveUp
  <2>5. CASE UNCHANGED connectVars
    BY <2>5 DEF connectVars
  <2> QED  BY <2>1, <2>2, <2>3, <2>4, <2>5 DEF Watchdog
<1> QED  BY <1>1, <1>2

LEMMA TypedStep == Flags /\ Kinds /\ Places /\ [ConnectNext]_connectVars => Flags' /\ Kinds'
  BY MainFlags, MainKinds, OthersTyped DEF ConnectNext, Main, ConnectRest

LEMMA WiredStep == Wired /\ [ConnectNext]_connectVars => Wired'
<1> SUFFICES ASSUME Wired, [ConnectNext]_connectVars PROVE Wired'
  OBVIOUS
<1> USE DEF Wired
<1>1. CASE Dial
  BY <1>1 DEF Dial, Goto, Quiet, guardVars
<1>2. CASE OpenSession \/ Unhealthy \/ CutOff \/ Answered \/ Refused \/ Finish
  <2>1. stage \notin {"dial", "over"} /\ stage' \notin {"dial", "over"} /\ UNCHANGED <<conn, watchVars>>
    BY <1>2 DEF OpenSession, Unhealthy, CutOff, Answered, Refused, Finish, CommandFailed,
                Fail, Cleanup, Goto, Following, InCommand, Commands
  <2> QED  BY <2>1 DEF watchVars
<1>3. CASE TimeOut \/ StartGuard \/ AwaitToken \/ CloseGuard
  <2>1. stage \notin {"dial", "over"} /\ stage' \notin {"dial", "over"} /\ UNCHANGED <<conn, watchVars>>
    BY <1>3 DEF TimeOut, StartGuard, AwaitToken, CloseGuard, CommandFailed, ToRmOrClose,
                Fail, Cleanup, Goto, InCommand, Commands
  <2> QED  BY <2>1 DEF watchVars
<1>4. CASE CloseClient
  BY <1>4 DEF CloseClient, Goto, watchVars
<1>5. CASE Read \/ WaitReturns \/ RunnerEnds
  BY <1>5 DEF Read, WaitReturns, RunnerEnds, ByGoroutine, mainVars, watchVars, Quiet
<1>6. CASE Watchdog \/ Reply
  BY <1>6 DEF Watchdog, Tick, Unanswered, NoteReason, CloseLost, Reply, ByGoroutine, mainVars, Quiet
<1>7. CASE ScriptExits \/ FallSilent \/ Drop \/ GiveUp
  BY <1>7 DEF ScriptExits, FallSilent, Drop, GiveUp, mainVars, watchVars
<1>8. CASE UNCHANGED connectVars
  BY <1>8 DEF connectVars, mainVars, guardVars, watchVars, Quiet
<1> QED
  BY <1>1, <1>2, <1>3, <1>4, <1>5, <1>6, <1>7, <1>8 DEF ConnectNext, Main, ConnectRest

LEMMA FewCommands == IsFiniteSet(Commands)
<1>1. IsFiniteSet({"whoami"})
  BY FS_Singleton
<1>2. IsFiniteSet({"whoami"} \cup {"mktx"})
  BY <1>1, FS_AddElement
<1>3. IsFiniteSet({"whoami"} \cup {"mktx"} \cup {"health"})
  BY <1>2, FS_AddElement
<1>4. IsFiniteSet({"whoami"} \cup {"mktx"} \cup {"health"} \cup {"rm"})
  BY <1>3, FS_AddElement
<1>5. Commands = {"whoami"} \cup {"mktx"} \cup {"health"} \cup {"rm"}
  BY DEF Commands
<1> QED  BY <1>4, <1>5

LEMMA RunnersCounted ==
    ASSUME NEW R \in SUBSET Commands
    PROVE  /\ Cardinality(R) \in Nat
           /\ \A c \in R : Cardinality(R \ {c}) = Cardinality(R) - 1
<1>1. IsFiniteSet(R)
  BY FewCommands, FS_Subset
<1> QED  BY <1>1, FS_CardinalityType, FS_RemoveElement

\* Once the run is over the main goroutine is, and every step of what is left is
\* one of its last.
LEMMA StepWanes ==
    ASSUME Kinds, Kinds', Wired, [ConnectNext]_connectVars
    PROVE  [Wanes]_connectVars
<1> SUFFICES ASSUME stage = "over", ConnectNext, ~UNCHANGED connectVars
             PROVE  stage' = "over" /\ Leftovers \in Nat /\ Leftovers' \in Nat
                    /\ Leftovers' < Leftovers
  BY DEF Wanes
<1>1. conn \in {"none", "closed"}
  BY DEF Wired
<1>2. RunnerEnds \/ Read \/ WaitReturns \/ Watchdog \/ Reply \/ ScriptExits
  BY <1>1 DEF ConnectNext, Main, ConnectRest, Dial, OpenSession, Unhealthy, CutOff, TimeOut,
              StartGuard, AwaitToken, CloseGuard, CloseClient, Answered, Refused, Finish,
              FallSilent, Drop, GiveUp, InCommand, Commands
<1>3. stage' = "over"
  BY <1>2 DEF RunnerEnds, Read, WaitReturns, Watchdog, Reply, ScriptExits, Tick, Unanswered,
              NoteReason, CloseLost, ByGoroutine, mainVars
<1> DEFINE n == Cardinality(runners)
           m == Cardinality(runners')
<1>4. n \in Nat /\ m \in Nat /\ runners \in SUBSET Commands
  BY RunnersCounted DEF Kinds
<1>5. /\ Leftovers = WatchdogLeft + Toll(keepalive = "sending") + ReaderLeft
                     + Toll(waiter = "wait") + n + Toll(script = "armed")
      /\ Leftovers' = WatchdogLeft' + Toll(keepalive' = "sending") + ReaderLeft'
                     + Toll(waiter' = "wait") + m + Toll(script' = "armed")
  BY DEF Leftovers, Toll
<1> HIDE DEF n, m
<1>6. /\ Leftovers \in Nat /\ Leftovers' \in Nat
      /\ WatchdogLeft \in Nat /\ WatchdogLeft' \in Nat
      /\ ReaderLeft \in Nat /\ ReaderLeft' \in Nat
  BY <1>4, <1>5 DEF WatchdogLeft, ReaderLeft, Toll
<1>7. CASE RunnerEnds
  <2>1. PICK c \in runners : runners' = runners \ {c}
    BY <1>7 DEF RunnerEnds
  <2>2. m = n - 1
    BY <1>4, <2>1, RunnersCounted DEF n, m
  <2>3. UNCHANGED <<watchdog, keepalive, reader, waiter, script>>
    BY <1>7 DEF RunnerEnds, ByGoroutine, watchVars
  <2>4. WatchdogLeft' = WatchdogLeft /\ ReaderLeft' = ReaderLeft
    BY <2>3 DEF WatchdogLeft, ReaderLeft
  <2> QED  BY <1>3, <1>4, <1>5, <1>6, <2>2, <2>3, <2>4 DEF Toll
<1>8. CASE ~RunnerEnds
  <2>1. m = n
    BY <1>2, <1>8 DEF n, m, Read, WaitReturns, Watchdog, Reply, ScriptExits, Tick, Unanswered,
                     NoteReason, CloseLost
  <2>2. CASE Read \/ WaitReturns \/ ScriptExits
    <3>1. UNCHANGED <<watchdog, keepalive>> /\ WatchdogLeft' = WatchdogLeft
      BY <2>2 DEF Read, WaitReturns, ScriptExits, watchVars, WatchdogLeft
    <3>2. \/ ReaderLeft' < ReaderLeft /\ UNCHANGED <<waiter, script>>
          \/ ReaderLeft' = ReaderLeft /\ waiter = "wait" /\ waiter' = "done" /\ script' = script
          \/ ReaderLeft' = ReaderLeft /\ waiter' = waiter /\ script = "armed" /\ script' = "exited"
      BY <2>2 DEF Read, WaitReturns, ScriptExits, ByGoroutine, guardVars, ReaderLeft
    <3>3. Toll(waiter' = "wait") + Toll(script' = "armed") + ReaderLeft'
          < Toll(waiter = "wait") + Toll(script = "armed") + ReaderLeft
      <4>1. CASE ReaderLeft' < ReaderLeft /\ UNCHANGED <<waiter, script>>
        <5>1. waiter' = waiter /\ script' = script
          BY <4>1
        <5>2. Toll(waiter' = "wait") = Toll(waiter = "wait")
              /\ Toll(script' = "armed") = Toll(script = "armed")
          BY <5>1, Zenon
        <5>3. Toll(waiter = "wait") \in Nat /\ Toll(script = "armed") \in Nat
          BY DEF Toll
        <5> QED  BY <1>6, <4>1, <5>2, <5>3
      <4>2. CASE ReaderLeft' = ReaderLeft /\ waiter = "wait" /\ waiter' = "done" /\ script' = script
        <5>1. Toll(waiter = "wait") = 1 /\ Toll(waiter' = "wait") = 0
          BY <4>2 DEF Toll
        <5> QED  BY <1>6, <4>2, <5>1 DEF Toll
      <4>3. CASE ReaderLeft' = ReaderLeft /\ waiter' = waiter /\ script = "armed" /\ script' = "exited"
        <5>1. Toll(script = "armed") = 1 /\ Toll(script' = "armed") = 0
          BY <4>3 DEF Toll
        <5> QED  BY <1>6, <4>3, <5>1 DEF Toll
      <4> QED  BY <3>2, <4>1, <4>2, <4>3
    <3>4. Toll(waiter = "wait") \in Nat /\ Toll(waiter' = "wait") \in Nat
          /\ Toll(script = "armed") \in Nat /\ Toll(script' = "armed") \in Nat
          /\ Toll(keepalive = "sending") \in Nat
          /\ Toll(keepalive' = "sending") = Toll(keepalive = "sending")
      BY <3>1 DEF Toll
    <3> QED  BY <1>3, <1>4, <1>5, <1>6, <2>1, <3>1, <3>3, <3>4
  <2>3. CASE Watchdog \/ Reply
    <3>1. UNCHANGED <<reader, waiter, script>> /\ ReaderLeft' = ReaderLeft
      BY <2>3 DEF Watchdog, Reply, Tick, Unanswered, NoteReason, CloseLost, ByGoroutine, ReaderLeft
    <3>2. WatchdogLeft' + Toll(keepalive' = "sending") < WatchdogLeft + Toll(keepalive = "sending")
      BY <1>1, <2>3 DEF Watchdog, Reply, Tick, Unanswered, NoteReason, CloseLost, ByGoroutine,
                        WatchdogLeft, Toll, Ended, Wired, Quiet
    <3>3. Toll(keepalive = "sending") \in Nat /\ Toll(keepalive' = "sending") \in Nat
          /\ Toll(waiter = "wait") \in Nat /\ Toll(script = "armed") \in Nat
          /\ Toll(waiter' = "wait") = Toll(waiter = "wait")
          /\ Toll(script' = "armed") = Toll(script = "armed")
      BY <3>1 DEF Toll
    <3> QED  BY <1>3, <1>4, <1>5, <1>6, <2>1, <3>1, <3>2, <3>3
  <2> QED  BY <1>2, <1>8, <2>2, <2>3
<1> QED  BY <1>7, <1>8

LEMMA WiringHolds == ConnectSpec => [](Flags /\ Kinds /\ Wired)
<1>1. ConnectInit => Flags
  BY Zenon DEF ConnectInit, Flags
<1>2. ConnectInit => Kinds /\ Wired /\ Places
  BY DEF ConnectInit, Kinds, Wired, Quiet, Places
<1> QED  BY <1>1, <1>2, TypedStep, WiredStep, PlacesStep, PTL DEF ConnectSpec

\* The types of a connection.
THEOREM ConnectTypeCorrect == ConnectSpec => []ConnectTypeOK
  BY WiringHolds, TypesSplit, PTL

\* When a run is over its connection is closed, if there ever was one, a watchdog
\* that waits has asked for what it waits for, and each step of the goroutines and
\* of the script that are left brings them nearer to their end: nothing starts,
\* nothing ticks on (connect and its deferred cleanup).
THEOREM LeftoversWane == ConnectSpec => []Wired /\ [][Wanes]_connectVars
<1>1. Kinds /\ Kinds' /\ Wired /\ [ConnectNext]_connectVars => [Wanes]_connectVars
  BY StepWanes
<1> QED  BY <1>1, WiringHolds, PTL DEF ConnectSpec

----------------------------------------------------------------------------
(* The steps of connect.                                                   *)

\* What connect and its cleanup have before them: the steps, the session of a
\* command, the guard's stdin.
StepsLeft ==
    CASE stage = "dial" -> 10
      [] stage = "whoami" -> 9
      [] stage = "mktx" -> 8
      [] stage = "start" -> 7
      [] stage = "await" -> 6
      [] stage = "health" -> 5
      [] stage = "work" -> 4
      [] stage = "closing" -> 3
      [] stage = "rm" -> 2
      [] stage = "close" -> 1
      [] OTHER -> 0

MainLeft == 3 * StepsLeft + Toll(~opened) + Toll(stdin)

ByMain == Main \/ Answered \/ Refused \/ Finish

Countable == StepsLeft \in 0..10 /\ Toll(~opened) \in 0..1 /\ Toll(stdin) \in 0..1

Advances ==
    /\ MainLeft \in Nat /\ MainLeft' \in Nat
    /\ MainLeft' <= MainLeft
    /\ ByMain => MainLeft' < MainLeft

LEMMA CountableAlways == Countable
<1>1. StepsLeft \in 0..10
  BY DEF StepsLeft
<1>2. Toll(~opened) \in 0..1 /\ Toll(stdin) \in 0..1
  BY DEF Toll
<1> QED  BY <1>1, <1>2 DEF Countable

\* A step ahead outweighs the session and the stdin that come with it.
LEMMA StepsOutweigh ==
    ASSUME NEW a \in 0..10, NEW b \in 0..10, NEW o \in 0..1, NEW p \in 0..1,
           NEW i \in 0..1, NEW j \in 0..1, b < a, j <= i
    PROVE  3 * b + p + j < 3 * a + o + i
  OBVIOUS

LEMMA MainAdvances ==
    ASSUME Countable, Countable', ByMain
    PROVE  MainLeft' < MainLeft
<1> DEFINE a == StepsLeft
           b == StepsLeft'
           o == Toll(~opened)
           p == Toll(~opened')
           i == Toll(stdin)
           j == Toll(stdin')
<1>1. a \in 0..10 /\ b \in 0..10 /\ o \in 0..1 /\ p \in 0..1 /\ i \in 0..1 /\ j \in 0..1
  BY DEF Countable, Toll
<1>2. MainLeft = 3 * a + o + i /\ MainLeft' = 3 * b + p + j
  BY DEF MainLeft, Toll
<1>3. CASE OpenSession
  <2>1. stage' = stage /\ stdin' = stdin /\ ~opened /\ opened'
    BY <1>3, Zenon DEF OpenSession, guardVars
  <2>2. b = a /\ j = i /\ o = 1 /\ p = 0
    BY <2>1 DEF StepsLeft, Toll
  <2> HIDE DEF a, b, o, p, i, j
  <2> QED  BY <1>1, <1>2, <2>2
<1>4. CASE CloseGuard /\ stdin
  <2>1. stage' = stage /\ stdin /\ ~stdin' /\ opened' = opened
    BY <1>4, Zenon DEF CloseGuard
  <2>2. b = a /\ j = 0 /\ i = 1 /\ p = o
    BY <2>1 DEF StepsLeft, Toll
  <2> HIDE DEF a, b, o, p, i, j
  <2> QED  BY <1>1, <1>2, <2>2
<1>5. ASSUME b < a, stdin' = stdin PROVE MainLeft' < MainLeft
  <2>1. j = i
    BY <1>5, Zenon
  <2> HIDE DEF a, b, o, p, i, j
  <2> QED  BY <1>1, <1>2, <1>5, <2>1, StepsOutweigh
<1>6. ASSUME stage \in Commands \cup {"start", "await"},
             (Fail /\ stage # "rm") \/ CommandFailed
      PROVE  b < a
  <2>1. ASSUME Fail, stage # "rm" PROVE b < a
    <3>1. a >= 5
      BY <1>6, <2>1 DEF Commands, StepsLeft
    <3>2. stage' \in {"closing", "rm", "close"}
      BY <2>1 DEF Fail, Cleanup, Goto
    <3>3. b <= 3
      BY <3>2 DEF StepsLeft
    <3> QED  BY <1>1, <3>1, <3>3
  <2>2. CASE CommandFailed /\ stage = "rm"
    BY <2>2 DEF CommandFailed, Goto, StepsLeft
  <2> QED  BY <1>6, <2>1, <2>2 DEF CommandFailed
<1>7. CASE Dial
  <2>1. b < a
    BY <1>7 DEF Dial, Goto, StepsLeft
  <2> QED  BY <1>5, <1>7, <2>1, Zenon DEF Dial, guardVars
<1>8. CASE Unhealthy
  <2>1. b < a
    BY <1>6, <1>8 DEF Unhealthy, Commands
  <2> QED  BY <1>5, <1>8, <2>1, Zenon DEF Unhealthy, guardVars
<1>9. CASE CutOff \/ TimeOut \/ Refused
  <2>1. b < a
    BY <1>6, <1>9, Zenon DEF CutOff, TimeOut, Refused, InCommand
  <2> QED  BY <1>5, <1>9, <2>1, Zenon DEF CutOff, TimeOut, Refused, guardVars
<1>10. CASE Answered
  <2>1. b < a
    BY <1>10 DEF Answered, Following, Goto, InCommand, Commands, StepsLeft
  <2> QED  BY <1>5, <1>10, <2>1, Zenon DEF Answered, guardVars
<1>11. CASE StartGuard
  <2>1. CASE Fail
    BY <1>5, <1>6, <1>11, <2>1 DEF StartGuard
  <2>2. CASE Goto("await")
    <3>1. b < a
      BY <1>11, <2>2 DEF StartGuard, Goto, StepsLeft
    <3> QED  BY <1>5, <1>11, <3>1, Zenon DEF StartGuard
  <2> QED  BY <1>11, <2>1, <2>2, Zenon DEF StartGuard
<1>12. CASE AwaitToken
  <2>1. CASE Fail
    BY <1>5, <1>6, <1>12, <2>1 DEF AwaitToken
  <2>2. CASE Goto("health")
    <3>1. b < a
      BY <1>12, <2>2 DEF AwaitToken, Goto, StepsLeft
    <3> QED  BY <1>5, <1>12, <3>1, Zenon DEF AwaitToken
  <2> QED  BY <1>12, <2>1, <2>2, Zenon DEF AwaitToken
<1>13. CASE CloseGuard /\ ~stdin
  <2>1. stage = "closing" /\ Goto(ToRmOrClose) /\ stdin' = stdin
    BY <1>13, Zenon DEF CloseGuard
  <2>2. b < a
    BY <2>1 DEF ToRmOrClose, Goto, StepsLeft
  <2> QED  BY <1>5, <2>1, <2>2
<1>14. CASE CloseClient \/ Finish
  <2>1. b < a
    BY <1>14 DEF CloseClient, Finish, Goto, StepsLeft
  <2> QED  BY <1>5, <1>14, <2>1, Zenon DEF CloseClient, Finish, guardVars
<1> QED
  BY <1>3, <1>4, <1>7, <1>8, <1>9, <1>10, <1>11, <1>12, <1>13, <1>14, Zenon DEF ByMain, Main

LEMMA StepAdvances ==
    ASSUME Countable, Countable', [ConnectNext]_connectVars
    PROVE  [Advances]_connectVars
<1>1. MainLeft \in Nat /\ MainLeft' \in Nat
  <2>1. MainLeft \in Nat
    BY DEF Countable, MainLeft
  <2>2. MainLeft' \in Nat
    BY DEF Countable, MainLeft
  <2> QED  BY <2>1, <2>2
<1>2. CASE ByMain
  BY <1>1, <1>2, MainAdvances DEF Advances
<1>3. CASE ~ByMain /\ ConnectNext /\ ~UNCHANGED connectVars
  <2>1. UNCHANGED <<stage, opened, stdin>>
    BY <1>3, Zenon DEF ConnectNext, ConnectRest, ByMain, Read, WaitReturns, RunnerEnds, Watchdog,
           Tick, Unanswered, NoteReason, CloseLost, Reply, ScriptExits, FallSilent, Drop, GiveUp,
           ByGoroutine, mainVars, guardVars
  <2>2. MainLeft' = MainLeft
    <3>1. StepsLeft' = StepsLeft
      BY <2>1 DEF StepsLeft
    <3>2. Toll(~opened)' = Toll(~opened) /\ Toll(stdin)' = Toll(stdin)
      BY <2>1 DEF Toll
    <3> QED  BY <3>1, <3>2 DEF MainLeft
  <2> QED  BY <1>1, <1>3, <2>2 DEF Advances
<1> QED  BY <1>2, <1>3

\* connect and its cleanup never go back to a step, whatever fails and whoever
\* reports it: each of their steps leaves them fewer, and nobody else adds one
\* (connect: no command is tried again, the deferred function runs once).
THEOREM ConnectGoesOn == ConnectSpec => [][Advances]_connectVars
<1>1. Countable
  BY CountableAlways
<1>2. Countable /\ Countable' /\ [ConnectNext]_connectVars => [Advances]_connectVars
  BY StepAdvances
<1> QED  BY <1>1, <1>2, PTL DEF ConnectSpec
=============================================================================
