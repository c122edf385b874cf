--------------------------- MODULE RecoveryProofs ---------------------------
(***************************************************************************)
(* For every number of files, set of users and of modes, and every state   *)
(* of the files and directories to begin with: what the write policy lets  *)
(* land it can undo, with a root guard it keeps owner and mode, and what   *)
(* is written with root's credentials is in root's own directories.        *)
(*                                                                         *)
(* All three rest on one fact: a directory that is there is never changed, *)
(* so the decision about a file that was there is the same at the check,   *)
(* at the swap and at the revert.                                          *)
(***************************************************************************)
EXTENDS Recovery, TLAPS

\* A file that is there has an owner and is in a directory that is there.
Standing == \A i \in Files : was[i].exists => was[i].owner \in Owners /\ dir[i].exists

\* What loadFiles has checked is still so when the files are written.
Checked ==
    phase \in {"applying", "reverting", "committed"} =>
        \A i \in Files : was[i].exists => CheckWriteTarget(ApplyTarget(i))

\* What has been written can be undone; a dirty file that cannot has been turned
\* down by SwapFile itself and is as it was.
Undoable ==
    phase \in {"applying", "reverting"} => \A i \in dirty :
        IF was[i].exists
        THEN \/ SwapLands(guard, entry[i], dir[i], DecideWriteOpts(ApplyTarget(i)), FALSE)
             \/ ~ValidMode(was[i].mode)
        ELSE MayWriteIn(guard, dir[i])

AsBefore(i) == disk[i].content = "old" /\ disk[i].info.exists = was[i].exists

\* A file that SwapFile turns down is never written.
Spared ==
    phase \in {"loading", "applying", "reverting"} =>
        \A i \in Files : was[i].exists /\ ~ValidMode(was[i].mode) => AsBefore(i)

\* And it is the reason of a revert that failed.
Excused == revertFailed => \E i \in dirty : ~ValidMode(was[i].mode)

\* The files that have not been written, or have been dealt with by the revert,
\* are as they were.
Undone ==
    /\ phase = "loading" => dirty = {} /\ ~revertFailed
    /\ phase \in {"loading", "applying", "reverting"} =>
        \A i \in Files : i \notin dirty \/ (phase = "reverting" /\ i < cur) => AsBefore(i)

\* Where root has written: the directory is still the same.
RootsOwn ==
    \A act \in asRoot :
        \/ RootManaged(dir[act.file])
        \/ entry[act.file] = guard
        \/ act.how = "unlink" /\ ~was[act.file].exists

Policy ==
    /\ TypeOK /\ Standing /\ Checked /\ Undoable /\ Undone /\ Spared /\ Excused
    /\ RevertLands /\ OwnershipKept /\ RootsOwn

----------------------------------------------------------------------------
(* The decisions.                                                          *)

\* A write target as apply and restore make them.
Target == [guard : Owners, entry : Owners, entryUID : Owners \cup {Nobody},
           file : Infos, dir : Infos]

\* A decision names users, and a mode that occurs.
LEMMA DecisionType ==
    ASSUME NEW t \in Target
    PROVE  DecideWriteOpts(t) \in
             [runAs : Owners \cup {Nobody}, uid : Owners \cup {Nobody}, mode : Modes]
  BY ModesAssumption DEF Target, DecideWriteOpts, Infos

\* Whoever writes, and whoever owns the file then, is a user.
LEMMA WriterIsUser ==
    ASSUME NEW g \in Owners,
           NEW opts \in [runAs : Owners \cup {Nobody}, uid : Owners \cup {Nobody}, mode : Modes]
    PROVE  Writer(g, opts) \in Owners /\ SwappedOwner(g, opts) \in Owners
  BY DEF Writer, SwappedOwner

\* Only a root guard writes as somebody else.
LEMMA WriterIsGuard ==
    ASSUME NEW t \in Target
    PROVE  t.guard = Root \/ Writer(t.guard, DecideWriteOpts(t)) = t.guard
  BY DEF Writer, DecideWriteOpts, Target

\* Root writes only where it manages the directory, or for itself.
LEMMA RootWritesOwn ==
    ASSUME NEW t \in Target, Writer(t.guard, DecideWriteOpts(t)) = Root
    PROVE  RootManaged(t.dir) \/ t.entry = t.guard
  BY NobodyAssumption DEF Writer, DecideWriteOpts, Target

\* With a root guard, a target that has passed the check keeps its owner.
LEMMA OwnerIsKept ==
    ASSUME NEW t \in Target, t.guard = Root, t.entryUID = t.entry,
           t.file.exists, t.file.owner \in Owners, CheckWriteTarget(t)
    PROVE  SwappedOwner(t.guard, DecideWriteOpts(t)) = t.file.owner
  BY NobodyAssumption DEF SwappedOwner, Writer, DecideWriteOpts, CheckWriteTarget, Target

\* The owner of a directory that was made for a file may write in it.
LEMMA OwnerMayWrite ==
    ASSUME NEW u
    PROVE  MayWriteIn(u, [exists |-> TRUE, owner |-> u, mode |-> <<7, 0, 0>>])
<1>1. Digit(<<7, 0, 0>>, 2) = 7
  BY DEF Digit
<1>2. Writes(7)
  BY DEF Writes
<1> QED
  BY <1>1, <1>2 DEF MayWriteIn

----------------------------------------------------------------------------
(* The steps.                                                              *)

\* The targets that apply and restore describe are targets.
LEMMA TargetTypes ==
    ASSUME Policy, NEW i \in Files
    PROVE  /\ ApplyTarget(i) \in Target
           /\ was[i].exists => RestoreTarget(i) \in Target
<1>1. ApplyTarget(i) \in Target
  BY DEF Policy, TypeOK, ApplyTarget, Target
<1>2. [exists |-> TRUE, owner |-> Nobody, mode |-> was[i].mode] \in Infos
  BY DEF Policy, TypeOK, Infos
<1>3. disk[i].info \in Infos
  BY DEF Policy, TypeOK
<1>4. RestoreTarget(i) \in Target
  BY <1>2, <1>3 DEF Policy, TypeOK, RestoreTarget, Target
<1> QED
  BY <1>1, <1>4

LEMMA PolicyInit == Init => Policy
<1> SUFFICES ASSUME Init PROVE Policy
  OBVIOUS
<1>1. \A i \in Files : was[i] \in Infos /\ dir[i] \in Infos
  BY InfosAssumption DEF Init
<1>2. \A i \in Files : disk[i] = [info |-> was[i], content |-> "old"]
  BY DEF Init, With
<1>3. Standing
  BY InfosAssumption DEF Init, Standing
<1>4. \A i \in Files : disk[i].info = was[i] /\ disk[i].content = "old"
  <2> TAKE i \in Files
  <2>1. disk[i] = [info |-> was[i], content |-> "old"]
    BY <1>2
  <2> QED
    BY <2>1
<1>5. TypeOK
  <2>1. disk \in [Files -> [info : Infos, content : Content]]
    BY <1>1 DEF Init, With, Content
  <2>2. \A i \in Files : disk[i].info.exists => disk[i].info.owner \in Owners
    BY <1>3, <1>4 DEF Standing
  <2>3. was \in [Files -> Infos] /\ dir \in [Files -> Infos]
    BY InfosAssumption DEF Init
  <2>4. guard \in Owners /\ entry \in [Files -> Owners]
    BY UsersAssumption DEF Init
  <2>5. cur \in 1..(NumFiles + 1)
    BY NumFilesAssumption DEF Init
  <2> QED
    BY <2>1, <2>2, <2>3, <2>4, <2>5 DEF Init, TypeOK
<1>6. \A i \in Files : AsBefore(i)
  BY <1>4 DEF AsBefore
<1> QED
  BY <1>3, <1>4, <1>5, <1>6 DEF Init, Policy, Checked, Undoable, Undone, Spared, Excused, RevertLands,
     OwnershipKept, RootsOwn, AsBefore

\* A write that lands in a directory that is there, or for a file that was not.
LEMMA WriteTypes ==
    ASSUME Policy, NEW i \in Files, NEW c \in Content,
           NEW opts \in [runAs : Owners \cup {Nobody}, uid : Owners \cup {Nobody}, mode : Modes],
           Write(i, opts, c)
    PROVE  /\ disk' \in [Files -> [info : Infos, content : Content]]
           /\ \A j \in Files : disk'[j].info.exists => disk'[j].info.owner \in Owners
           /\ dir' \in [Files -> Infos]
           /\ asRoot' \in SUBSET Acts
           /\ disk'[i] = [info |-> [exists |-> TRUE, owner |-> SwappedOwner(guard, opts),
                                    mode |-> opts.mode],
                          content |-> c]
           /\ \A j \in Files \ {i} : disk'[j] = disk[j] /\ dir'[j] = dir[j]
           /\ dir[i].exists => dir'[i] = dir[i]
           /\ dir'[i].exists
<1> DEFINE new == [info |-> [exists |-> TRUE, owner |-> SwappedOwner(guard, opts),
                             mode |-> opts.mode],
                   content |-> c]
<1>1. Writer(guard, opts) \in Owners /\ SwappedOwner(guard, opts) \in Owners
  BY WriterIsUser DEF Policy, TypeOK
<1>2. new \in [info : Infos, content : Content]
  BY <1>1 DEF Infos
<1>3. disk' = [disk EXCEPT ![i] = new]
  BY DEF Write, With
<1>4. [exists |-> TRUE, owner |-> Writer(guard, opts), mode |-> <<7, 0, 0>>] \in Infos
  BY <1>1, ModesAssumption DEF Infos
<1>5. disk \in [Files -> [info : Infos, content : Content]] /\ dir \in [Files -> Infos]
      /\ asRoot \in SUBSET Acts
      /\ \A j \in Files : disk[j].info.exists => disk[j].info.owner \in Owners
  BY DEF Policy, TypeOK
<1> HIDE DEF new
<1>6. disk' \in [Files -> [info : Infos, content : Content]] /\ disk'[i] = new
      /\ \A j \in Files \ {i} : disk'[j] = disk[j]
  BY <1>2, <1>3, <1>5
<1>7. /\ dir' \in [Files -> Infos]
      /\ \A j \in Files \ {i} : dir'[j] = dir[j]
      /\ dir[i].exists => dir'[i] = dir[i]
      /\ dir'[i].exists
  BY <1>4, <1>5 DEF Write
<1>8. \A j \in Files : disk'[j].info.exists => disk'[j].info.owner \in Owners
  BY <1>1, <1>5, <1>6 DEF new
<1>9. asRoot' \in SUBSET Acts
  BY <1>5 DEF Write, ActAs, Acts
<1> QED
  BY <1>6, <1>7, <1>8, <1>9 DEF new

\* What a step that touches no file preserves.
Untouched == UNCHANGED <<fixed, disk, dir, asRoot>>

LEMMA Decided ==
    ASSUME Untouched
    PROVE  /\ \A i \in Files : ApplyTarget(i)' = ApplyTarget(i)
           /\ \A i : AsBefore(i)' <=> AsBefore(i)
           /\ Standing => Standing'
           /\ RootsOwn => RootsOwn'
<1>1. \A i \in Files : ApplyTarget(i)' = ApplyTarget(i)
  BY DEF Untouched, fixed, ApplyTarget
<1>2. \A i : AsBefore(i)' <=> AsBefore(i)
  BY DEF Untouched, fixed, AsBefore
<1>3. Standing => Standing'
  BY DEF Untouched, fixed, Standing
<1>4. RootsOwn => RootsOwn'
  BY DEF Untouched, fixed, RootsOwn, RootManaged
<1> QED
  BY <1>1, <1>2, <1>3, <1>4

\* A swap that does not land ends the loop of apply.
ApplyFails ==
    /\ phase = "applying" /\ cur \in Files
    /\ phase' = "reverting" /\ cur' = 1
    /\ \/ UNCHANGED dirty
       \/ was[cur].exists /\ ~ValidMode(was[cur].mode) /\ dirty' = dirty \cup {cur}
    /\ UNCHANGED <<fixed, disk, dir, revertFailed, rewritten, asRoot>>

\* The steps that write nothing.
LEMMA OthersKeep ==
    ASSUME Policy,
           \/ Load \/ Verified \/ Reverted \/ Refuse \/ RestoreFails \/ Restored \/ Rest
           \/ ApplyFails \/ UNCHANGED vars
    PROVE  Policy'
<1> USE DEF fixed, txVars
<1>1. Untouched
  BY DEF Load, Verified, Reverted, Refuse, RestoreFails, Restored, Rest, vars, ApplyFails, Untouched
<1>2. TypeOK'
  <2>1. phase' \in {"loading", "applying", "reverting", "committed", "aborted",
                    "unverified", "restoring", "refused", "failed", "restored"}
    BY DEF Policy, TypeOK, Load, Verified, Reverted, Refuse, RestoreFails, Restored, Rest,
           vars, ApplyFails
  <2>2. cur' \in 1..(NumFiles + 1)
    BY NumFilesAssumption
       DEF Policy, TypeOK, Load, Verified, Reverted, Refuse, RestoreFails, Restored, Rest,
           vars, ApplyFails
  <2>3. dirty' \in SUBSET Files /\ UNCHANGED <<revertFailed, rewritten>>
    BY DEF Policy, TypeOK, Load, Verified, Reverted, Refuse, RestoreFails, Restored, Rest, vars, ApplyFails
  <2> QED
    BY <1>1, <2>1, <2>2, <2>3 DEF Policy, TypeOK, Untouched
<1>3. Standing' /\ RootsOwn'
  BY <1>1, Decided DEF Policy
<1>4. Checked'
  <2>1. phase' \in {"applying", "reverting", "committed"} =>
            \A i \in Files : was[i].exists => CheckWriteTarget(ApplyTarget(i))
    BY DEF Policy, Checked, Load, Verified, Reverted, Refuse, RestoreFails, Restored, Rest, vars, ApplyFails
  <2>2. \A i \in Files : CheckWriteTarget(ApplyTarget(i))' <=> CheckWriteTarget(ApplyTarget(i))
    BY <1>1 DEF Untouched, ApplyTarget, CheckWriteTarget, RootManaged
  <2> QED
    BY <1>1, <2>1, <2>2 DEF Checked, Untouched
<1>5. Undoable'
  <2>1. /\ dirty' \subseteq Files
        /\ \A i \in dirty' : i \in dirty \/ (was[i].exists /\ ~ValidMode(was[i].mode))
    BY DEF Policy, TypeOK, Load, Verified, Reverted, Refuse, RestoreFails, Restored, Rest,
           vars, ApplyFails
  <2>2. \A i \in Files : ApplyTarget(i)' = ApplyTarget(i)
    BY <1>1, Decided
  <2>3. phase' \in {"applying", "reverting"} => dirty' = {} \/ phase \in {"applying", "reverting"}
    BY DEF Policy, Undone, Load, Verified, Reverted, Refuse, RestoreFails, Restored, Rest,
       vars, ApplyFails
  <2> QED
    BY <1>1, <2>1, <2>2, <2>3 DEF Policy, Undoable, Untouched, SwapLands, Writer, MayWriteIn, DecideWriteOpts
<1>6. Undone' /\ Spared' /\ Excused'
  <2>1. \A i : AsBefore(i)' <=> AsBefore(i)
    BY <1>1, Decided
  <2>2. dirty \subseteq dirty' /\ revertFailed' = revertFailed
    BY DEF Load, Verified, Reverted, Refuse, RestoreFails, Restored, Rest, vars, ApplyFails
  <2>3. phase' = "loading" => phase = "loading" /\ dirty' = dirty
    BY DEF Load, Verified, Reverted, Refuse, RestoreFails, Restored, Rest, vars, ApplyFails
  <2>4. phase' \in {"loading", "applying", "reverting"} =>
            phase \in {"loading", "applying", "reverting"}
    BY DEF Load, Verified, Reverted, Refuse, RestoreFails, Restored, Rest, vars, ApplyFails
  <2>5. \A i \in Files : phase' = "reverting" /\ i < cur' => phase = "reverting" /\ i < cur
    BY DEF Load, Verified, Reverted, Refuse, RestoreFails, Restored, Rest, vars, ApplyFails, Files
  <2>6. Undone'
    BY <2>1, <2>2, <2>3, <2>4, <2>5 DEF Policy, Undone
  <2>7. Spared'
    BY <1>1, <2>1, <2>4 DEF Policy, Spared, Untouched
  <2>8. Excused'
    BY <1>1, <2>2 DEF Policy, Excused, Untouched
  <2> QED
    BY <2>6, <2>7, <2>8
<1>7. RevertLands'
  <2>1. phase' \in {"aborted", "unverified"} => \A i \in Files : AsBefore(i)
    <3>1. ASSUME Load, phase' = "aborted" PROVE \A i \in Files : AsBefore(i)
      BY <3>1 DEF Policy, Undone, Load
    <3>2. ASSUME Reverted PROVE \A i \in Files : AsBefore(i)
      <4>1. \A i \in Files : i < cur
        BY <3>2, NumFilesAssumption DEF Reverted, Policy, TypeOK, Files
      <4> QED
        BY <3>2, <4>1 DEF Policy, Undone, Reverted
    <3>3. ASSUME phase' \in {"aborted", "unverified"}, ~(Load /\ phase' = "aborted"), ~Reverted
          PROVE  phase \in {"aborted", "unverified"}
      BY <3>3 DEF Load, Verified, Refuse, RestoreFails, Restored, Rest, vars, ApplyFails
    <3>4. phase \in {"aborted", "unverified"} => \A i \in Files : AsBefore(i)
      BY DEF Policy, RevertLands, AsBefore
    <3> QED
      BY <3>1, <3>2, <3>3, <3>4
  <2>2. phase' = "unverified" => \E i \in dirty' : ~ValidMode(was[i].mode)
    <3>1. CASE Reverted
      BY <3>1 DEF Policy, Excused, Reverted
    <3>2. CASE ~Reverted /\ phase' = "unverified"
      <4>1. phase = "unverified" /\ dirty' = dirty
        BY <3>2 DEF Load, Verified, Refuse, RestoreFails, Restored, Rest, vars, ApplyFails
      <4> QED
        BY <4>1 DEF Policy, RevertLands
    <3> QED
      BY <3>1, <3>2
  <2> QED
    BY <1>1, <2>1, <2>2 DEF RevertLands, AsBefore, Untouched
<1>8. OwnershipKept'
  <2>1. phase' \notin {"restoring", "refused", "failed", "restored"} =>
            phase \notin {"restoring", "refused", "failed", "restored"}
    BY DEF Load, Verified, Reverted, Refuse, RestoreFails, Restored, Rest, vars, ApplyFails
  <2> QED
    BY <1>1, <2>1 DEF Policy, OwnershipKept, Untouched
<1> QED
  BY <1>2, <1>3, <1>4, <1>5, <1>6, <1>7, <1>8 DEF Policy

\* A write of a file changes no directory that was there and no other file.
LEMMA WriteKeeps ==
    ASSUME Policy, NEW i \in Files, NEW c \in Content,
           NEW opts \in [runAs : Owners \cup {Nobody}, uid : Owners \cup {Nobody}, mode : Modes],
           Write(i, opts, c), UNCHANGED fixed,
           Writer(guard, opts) = Root => RootManaged(dir[i]) \/ entry[i] = guard
    PROVE  /\ Standing' /\ RootsOwn'
           /\ \A j \in Files : was[j].exists => ApplyTarget(j)' = ApplyTarget(j) /\ dir'[j] = dir[j]
           /\ \A j \in Files \ {i} : ApplyTarget(j)' = ApplyTarget(j) /\ dir'[j] = dir[j]
           /\ \A j \in Files \ {i} : AsBefore(j)' <=> AsBefore(j)
<1>1. /\ disk'[i] = [info |-> [exists |-> TRUE, owner |-> SwappedOwner(guard, opts),
                               mode |-> opts.mode],
                     content |-> c]
      /\ \A j \in Files \ {i} : disk'[j] = disk[j] /\ dir'[j] = dir[j]
      /\ dir[i].exists => dir'[i] = dir[i]
      /\ dir'[i].exists
  BY WriteTypes
<1>2. guard' = guard /\ entry' = entry /\ was' = was
  BY DEF fixed
<1>3. \A j \in Files : was[j].exists => dir[j].exists
  BY DEF Policy, Standing
<1>4. \A j \in Files : was[j].exists => dir'[j] = dir[j]
  BY <1>1, <1>3
<1>5. \A j \in Files : dir'[j] = dir[j] => ApplyTarget(j)' = ApplyTarget(j)
  BY <1>2 DEF ApplyTarget
<1>6. Standing'
  BY <1>1, <1>2, <1>4 DEF Policy, Standing
<1>7. RootsOwn'
  <2> SUFFICES ASSUME NEW act \in asRoot'
               PROVE  \/ RootManaged(dir'[act.file])
                      \/ entry[act.file] = guard
                      \/ act.how = "unlink" /\ ~was[act.file].exists
    BY <1>2 DEF RootsOwn, RootManaged
  <2>1. act.file \in Files
    BY WriteTypes DEF Acts
  <2>2. act \in asRoot \/ (act.file = i /\ Writer(guard, opts) = Root)
    BY DEF Write, ActAs
  <2>3. \/ RootManaged(dir[act.file])
        \/ entry[act.file] = guard
        \/ act.how = "unlink" /\ ~was[act.file].exists
    BY <2>2 DEF Policy, RootsOwn
  <2>4. RootManaged(dir[act.file]) => dir'[act.file] = dir[act.file]
    BY <1>1, <2>1 DEF RootManaged
  <2> QED
    BY <2>3, <2>4
<1>8. \A j \in Files \ {i} : AsBefore(j)' <=> AsBefore(j)
  BY <1>1, <1>2 DEF AsBefore
<1> QED
  BY <1>1, <1>4, <1>5, <1>6, <1>7, <1>8

\* What apply or abort writes with a root guard has the owner and mode it had.
LEMMA InfoIsKept ==
    ASSUME Policy, phase \in {"applying", "reverting"}, NEW i \in Files, NEW c \in Content,
           Write(i, DecideWriteOpts(ApplyTarget(i)), c), guard = Root, was[i].exists
    PROVE  disk'[i].info = was[i]
<1> DEFINE t == ApplyTarget(i)
           opts == DecideWriteOpts(t)
<1>1. t \in Target
  BY TargetTypes
<1>2. opts \in [runAs : Owners \cup {Nobody}, uid : Owners \cup {Nobody}, mode : Modes]
  BY <1>1, DecisionType
<1>3. t.guard = guard /\ t.entryUID = t.entry /\ t.file = was[i]
  BY DEF ApplyTarget
<1>4. SwappedOwner(guard, opts) = was[i].owner
  <2>1. was[i].owner \in Owners /\ CheckWriteTarget(t)
    BY DEF Policy, Standing, Checked
  <2> HIDE DEF t
  <2> QED
    BY <1>1, <1>3, <2>1, OwnerIsKept
<1>5. opts.mode = was[i].mode
  BY <1>3 DEF DecideWriteOpts
<1>6. disk'[i].info = [exists |-> TRUE, owner |-> SwappedOwner(guard, opts), mode |-> opts.mode]
  <2> HIDE DEF opts
  <2>1. disk'[i] = [info |-> [exists |-> TRUE, owner |-> SwappedOwner(guard, opts),
                             mode |-> opts.mode],
                    content |-> c]
    BY <1>2, WriteTypes DEF opts
  <2> QED
    BY <2>1
<1>7. was[i] \in Infos
  BY DEF Policy, TypeOK
<1> HIDE DEF opts
<1> QED
  BY <1>4, <1>5, <1>6, <1>7 DEF Infos

\* A decision of apply or abort, and what writing by it keeps.
LEMMA ApplyWrites ==
    ASSUME Policy, NEW i \in Files, NEW c \in Content,
           Write(i, DecideWriteOpts(ApplyTarget(i)), c), UNCHANGED fixed
    PROVE  /\ Standing' /\ RootsOwn'
           /\ disk' \in [Files -> [info : Infos, content : Content]]
           /\ \A j \in Files : disk'[j].info.exists => disk'[j].info.owner \in Owners
           /\ dir' \in [Files -> Infos]
           /\ asRoot' \in SUBSET Acts
           /\ \A j \in Files : was[j].exists => ApplyTarget(j)' = ApplyTarget(j) /\ dir'[j] = dir[j]
           /\ \A j \in Files \ {i} : ApplyTarget(j)' = ApplyTarget(j) /\ dir'[j] = dir[j]
           /\ \A j \in Files \ {i} : AsBefore(j)' <=> AsBefore(j)
           /\ dir[i].exists => dir'[i] = dir[i]
           /\ disk'[i].content = c /\ disk'[i].info.exists
           /\ \A j \in Files \ {i} : disk'[j] = disk[j]
<1> DEFINE t == ApplyTarget(i)
           opts == DecideWriteOpts(t)
<1>1. t \in Target /\ t.guard = guard /\ t.entry = entry[i] /\ t.dir = dir[i]
  BY TargetTypes DEF ApplyTarget
<1>2. opts \in [runAs : Owners \cup {Nobody}, uid : Owners \cup {Nobody}, mode : Modes]
  BY <1>1, DecisionType
<1>3. Writer(guard, opts) = Root => RootManaged(dir[i]) \/ entry[i] = guard
  <2> HIDE DEF t
  <2> QED
    BY <1>1, RootWritesOwn
<1> HIDE DEF opts
<1>4. Write(i, opts, c)
  BY DEF opts
<1>5. /\ Standing' /\ RootsOwn'
      /\ \A j \in Files : was[j].exists => ApplyTarget(j)' = ApplyTarget(j) /\ dir'[j] = dir[j]
      /\ \A j \in Files \ {i} : ApplyTarget(j)' = ApplyTarget(j) /\ dir'[j] = dir[j]
      /\ \A j \in Files \ {i} : AsBefore(j)' <=> AsBefore(j)
  BY <1>2, <1>3, <1>4, WriteKeeps
<1>6. /\ disk' \in [Files -> [info : Infos, content : Content]]
      /\ \A j \in Files : disk'[j].info.exists => disk'[j].info.owner \in Owners
      /\ dir' \in [Files -> Infos]
      /\ asRoot' \in SUBSET Acts
      /\ disk'[i] = [info |-> [exists |-> TRUE, owner |-> SwappedOwner(guard, opts),
                               mode |-> opts.mode],
                     content |-> c]
      /\ \A j \in Files \ {i} : disk'[j] = disk[j]
      /\ dir[i].exists => dir'[i] = dir[i]
  BY <1>2, <1>4, WriteTypes
<1> QED
  BY <1>5, <1>6

\* The check passed before the first write holds as long as the directories stand.
LEMMA CheckedKeeps ==
    ASSUME Policy, UNCHANGED <<fixed, phase>>,
           \A j \in Files : was[j].exists => ApplyTarget(j)' = ApplyTarget(j)
    PROVE  Checked'
<1>1. was' = was /\ phase' = phase
  BY DEF fixed
<1>2. \A j \in Files : was[j].exists =>
          (CheckWriteTarget(ApplyTarget(j))' <=> CheckWriteTarget(ApplyTarget(j)))
  BY DEF CheckWriteTarget, RootManaged, ApplyTarget
<1> QED
  BY <1>1, <1>2 DEF Policy, Checked

\* A swap that lands: its file can be put back.
LEMMA ApplyLands ==
    ASSUME Policy, Apply,
           SwapLands(guard, entry[cur], dir[cur], DecideWriteOpts(ApplyTarget(cur)), ~was[cur].exists)
    PROVE  Policy'
<1> DEFINE i == cur
           t == ApplyTarget(i)
           opts == DecideWriteOpts(t)
<1>1. /\ phase = "applying" /\ i \in Files /\ Write(i, opts, "new")
      /\ dirty' = dirty \cup {i} /\ cur' = cur + 1
      /\ UNCHANGED <<phase, fixed, revertFailed, rewritten>>
  BY DEF Apply
<1>2. guard' = guard /\ entry' = entry /\ was' = was
  BY <1>1 DEF fixed
<1>3. /\ Standing' /\ RootsOwn'
      /\ disk' \in [Files -> [info : Infos, content : Content]]
      /\ \A j \in Files : disk'[j].info.exists => disk'[j].info.owner \in Owners
      /\ dir' \in [Files -> Infos]
      /\ asRoot' \in SUBSET Acts
      /\ \A j \in Files : was[j].exists => ApplyTarget(j)' = ApplyTarget(j) /\ dir'[j] = dir[j]
      /\ \A j \in Files \ {i} : ApplyTarget(j)' = ApplyTarget(j) /\ dir'[j] = dir[j]
      /\ \A j \in Files \ {i} : AsBefore(j)' <=> AsBefore(j)
      /\ dir[i].exists => dir'[i] = dir[i]
      /\ \A j \in Files \ {i} : disk'[j] = disk[j]
  BY <1>1, ApplyWrites DEF Content
<1>4. t \in Target /\ t.guard = guard /\ opts \in
          [runAs : Owners \cup {Nobody}, uid : Owners \cup {Nobody}, mode : Modes]
  BY <1>1, TargetTypes, DecisionType DEF ApplyTarget
<1>5. TypeOK'
  <2>1. cur' \in 1..(NumFiles + 1)
    BY <1>1, NumFilesAssumption DEF Policy, TypeOK, Files
  <2> QED
    BY <1>1, <1>2, <1>3, <2>1 DEF Policy, TypeOK
<1>6. Checked'
  BY <1>1, <1>3, CheckedKeeps
<1>7. Undoable'
  <2> SUFFICES ASSUME NEW j \in dirty'
               PROVE  IF was[j].exists
                      THEN \/ SwapLands(guard, entry[j], dir'[j], DecideWriteOpts(ApplyTarget(j)'), FALSE)
                           \/ ~ValidMode(was[j].mode)
                      ELSE MayWriteIn(guard, dir'[j])
    BY <1>2 DEF Undoable, SwapLands, Writer, MayWriteIn, DecideWriteOpts, RootManaged, ApplyTarget
  <2>1. j \in Files
    BY <1>1 DEF Policy, TypeOK
  <2>2. CASE j # i
    BY <1>1, <1>3, <2>1, <2>2 DEF Policy, Undoable
  <2>3. CASE j = i /\ was[i].exists
    BY <1>1, <1>3, <2>3
  <2>4. CASE j = i /\ ~was[i].exists
    <3>1. guard = Root \/ Writer(guard, opts) = guard
      <4> HIDE DEF t
      <4> QED
        BY <1>4, WriterIsGuard
    <3>2. CASE dir[i].exists
      <4>1. MayWriteIn(Writer(guard, opts), dir[i])
        BY <3>2, <1>1 DEF SwapLands
      <4> HIDE DEF opts
      <4> QED
        BY <1>3, <2>4, <3>1, <3>2, <4>1 DEF MayWriteIn
    <3>3. CASE ~dir[i].exists
      <4> HIDE DEF opts
      <4>1. dir'[i] = [exists |-> TRUE, owner |-> Writer(guard, opts), mode |-> <<7, 0, 0>>]
        BY <1>1, <3>3 DEF Write, Policy, TypeOK
      <4>2. MayWriteIn(Writer(guard, opts), dir'[i])
        BY <4>1, OwnerMayWrite
      <4> QED
        BY <2>4, <3>1, <4>2 DEF MayWriteIn
    <3> QED
      BY <3>2, <3>3
  <2> QED
    BY <2>2, <2>3, <2>4
<1>8. Undone' /\ RevertLands' /\ Excused'
  BY <1>1, <1>2, <1>3 DEF Policy, Undone, RevertLands, Excused
<1>10. Spared'
  <2>1. was[i].exists => ValidMode(was[i].mode)
    BY DEF SwapLands, DecideWriteOpts, ApplyTarget
  <2> QED
    BY <1>1, <1>2, <1>3, <2>1 DEF Policy, Spared
<1>9. OwnershipKept'
  <2> SUFFICES ASSUME guard = Root, NEW j \in Files, was[j].exists PROVE disk'[j].info = was[j]
    BY <1>2 DEF OwnershipKept
  <2>1. CASE j # i
    BY <1>1, <1>3, <2>1 DEF Policy, OwnershipKept
  <2>2. CASE j = i
    BY <1>1, <2>2, InfoIsKept DEF Content
  <2> QED
    BY <2>1, <2>2
<1> QED
  BY <1>3, <1>5, <1>6, <1>7, <1>8, <1>9, <1>10 DEF Policy

LEMMA ApplyKeeps ==
    ASSUME Policy, Apply
    PROVE  Policy'
<1>1. CASE SwapLands(guard, entry[cur], dir[cur], DecideWriteOpts(ApplyTarget(cur)), ~was[cur].exists)
  BY <1>1, ApplyLands
<1>2. CASE ~SwapLands(guard, entry[cur], dir[cur], DecideWriteOpts(ApplyTarget(cur)), ~was[cur].exists)
  <2>1. ApplyFails
    <3>1. ~was[cur].exists => ValidMode(DecideWriteOpts(ApplyTarget(cur)).mode)
      BY DEF ValidMode, DecideWriteOpts, ApplyTarget
    <3>2. was[cur].exists => DecideWriteOpts(ApplyTarget(cur)).mode = was[cur].mode
      BY DEF DecideWriteOpts, ApplyTarget
    <3> QED
      BY <1>2, <3>1, <3>2 DEF Apply, ApplyFails
  <2> QED
    BY <2>1, OthersKeep
<1> QED
  BY <1>1, <1>2

\* The revert changes no directory, so what could be undone still can.
LEMMA UndoableKeeps ==
    ASSUME Policy, UNCHANGED <<fixed, phase, dirty>>, \A j \in Files : dir'[j] = dir[j]
    PROVE  Undoable'
<1>1. guard' = guard /\ entry' = entry /\ was' = was /\ dirty' = dirty /\ phase' = phase
  BY DEF fixed
<1>2. dirty \subseteq Files
  BY DEF Policy, TypeOK
<1>3. \A j \in Files : SwapLands(guard, entry[j], dir[j], DecideWriteOpts(ApplyTarget(j)), FALSE)' <=>
                       SwapLands(guard, entry[j], dir[j], DecideWriteOpts(ApplyTarget(j)), FALSE)
  BY <1>1 DEF SwapLands, Writer, MayWriteIn, DecideWriteOpts, RootManaged, ApplyTarget
<1>4. \A j \in Files : MayWriteIn(guard, dir[j])' <=> MayWriteIn(guard, dir[j])
  BY <1>1 DEF MayWriteIn
<1> QED
  BY <1>1, <1>2, <1>3, <1>4 DEF Policy, Undoable

\* A file that is not there, or no longer.
LEMMA UnlinkTypes ==
    ASSUME Policy, NEW i \in Files, Unlink(i)
    PROVE  /\ disk' \in [Files -> [info : Infos, content : Content]]
           /\ \A j \in Files : disk'[j].info.exists => disk'[j].info.owner \in Owners
           /\ disk'[i].content = "old" /\ ~disk'[i].info.exists
           /\ \A j \in Files \ {i} : disk'[j] = disk[j]
<1> DEFINE none == [info |-> NoFile, content |-> "old"]
<1>1. none \in [info : Infos, content : Content]
  BY ModesAssumption DEF NoFile, Infos, Content
<1>2. none.content = "old" /\ ~none.info.exists
  BY DEF NoFile
<1>3. disk' = [disk EXCEPT ![i] = none]
  BY DEF Unlink, With
<1> HIDE DEF none
<1> QED
  BY <1>1, <1>2, <1>3 DEF Policy, TypeOK

\* What the guard user unlinks was not there before.
LEMMA RemovalKeeps ==
    ASSUME Policy, NEW i \in Files, ~was[i].exists, RemoveAsGuard(i),
           guard' = guard, entry' = entry, was' = was, dir' = dir
    PROVE  Standing' /\ RootsOwn' /\ asRoot' \in SUBSET Acts
<1>1. asRoot' = asRoot \/ asRoot' = asRoot \cup {[file |-> i, how |-> "unlink"]}
  BY DEF RemoveAsGuard, ActAs
<1>2. asRoot' \in SUBSET Acts
  BY <1>1 DEF Policy, TypeOK, Acts
<1>3. RootsOwn'
  BY <1>1 DEF Policy, RootsOwn, RootManaged
<1>4. Standing'
  BY DEF Policy, Standing
<1> QED
  BY <1>2, <1>3, <1>4

\* The revert brings the file at hand back to what it was.
LEMMA RevertKeeps ==
    ASSUME Policy, Revert
    PROVE  Policy'
<1> DEFINE i == cur
           opts == DecideWriteOpts(ApplyTarget(i))
           lands == SwapLands(guard, entry[i], dir[i], opts, FALSE)
<1>1. /\ phase = "reverting" /\ i \in Files /\ cur' = cur + 1
      /\ UNCHANGED <<fixed, phase, dirty, rewritten>>
  BY DEF Revert
<1>2. guard' = guard /\ entry' = entry /\ was' = was /\ phase' = phase /\ dirty' = dirty
  BY <1>1 DEF fixed
<1>3. /\ i \in dirty /\ was[i].exists => lands \/ ~ValidMode(was[i].mode)
      /\ i \in dirty /\ ~was[i].exists => MayWriteIn(guard, dir[i])
  BY <1>1 DEF Policy, Undoable
<1>4. \/ i \in dirty /\ was[i].exists /\ Write(i, opts, "old") /\ UNCHANGED revertFailed
      \/ i \in dirty /\ ~was[i].exists /\ RemoveAsGuard(i) /\ UNCHANGED <<dir, revertFailed>>
      \/ /\ i \in dirty /\ was[i].exists /\ ~ValidMode(was[i].mode)
         /\ revertFailed' = TRUE /\ UNCHANGED <<disk, dir, asRoot>>
      \/ i \notin dirty /\ UNCHANGED <<disk, dir, revertFailed, asRoot>>
  <2>1. CASE PutBack
    <3> HIDE DEF opts
    <3>1. /\ i \in dirty /\ was[i].exists
          /\ IF lands THEN Write(i, opts, "old") /\ UNCHANGED revertFailed
             ELSE revertFailed' = TRUE /\ UNCHANGED <<disk, dir, asRoot>>
      BY <2>1 DEF PutBack, opts
    <3> HIDE DEF lands
    <3> QED
      BY <1>3, <3>1
  <2>2. CASE RemoveNew
    BY <1>3, <2>2 DEF RemoveNew
  <2>3. CASE i \notin dirty /\ UNCHANGED <<disk, dir, revertFailed, asRoot>>
    BY <2>3
  <2> QED
    BY <2>1, <2>2, <2>3 DEF Revert
<1> HIDE DEF lands
<1>5. /\ Standing' /\ RootsOwn'
      /\ disk' \in [Files -> [info : Infos, content : Content]]
      /\ \A j \in Files : disk'[j].info.exists => disk'[j].info.owner \in Owners
      /\ dir' \in [Files -> Infos]
      /\ asRoot' \in SUBSET Acts
      /\ \A j \in Files : dir'[j] = dir[j]
      /\ \A j \in Files \ {i} : disk'[j] = disk[j]
      /\ disk'[i].content = "old" /\ disk'[i].info.exists = was[i].exists
      /\ guard = Root /\ was[i].exists => disk'[i].info = was[i]
      /\ revertFailed' \in BOOLEAN /\ Excused'
  <2>1. CASE i \in dirty /\ was[i].exists /\ Write(i, opts, "old") /\ UNCHANGED revertFailed
    <3>1. /\ Standing' /\ RootsOwn'
          /\ disk' \in [Files -> [info : Infos, content : Content]]
          /\ \A j \in Files : disk'[j].info.exists => disk'[j].info.owner \in Owners
          /\ dir' \in [Files -> Infos]
          /\ asRoot' \in SUBSET Acts
          /\ \A j \in Files \ {i} : dir'[j] = dir[j]
          /\ dir[i].exists => dir'[i] = dir[i]
          /\ disk'[i].content = "old" /\ disk'[i].info.exists
          /\ \A j \in Files \ {i} : disk'[j] = disk[j]
      BY <1>1, <2>1, ApplyWrites DEF Content
    <3>2. dir[i].exists /\ was[i] \in Infos /\ disk'[i].info \in Infos
      BY <1>1, <2>1, <3>1 DEF Policy, Standing, TypeOK
    <3>3. guard = Root => disk'[i].info = was[i]
      BY <1>1, <2>1, InfoIsKept DEF Content
    <3>4. disk'[i].info.exists = was[i].exists
      BY <2>1, <3>1, <3>2 DEF Infos
    <3>5. revertFailed' \in BOOLEAN /\ Excused'
      BY <1>2, <2>1 DEF Policy, TypeOK, Excused
    <3> QED
      BY <3>1, <3>2, <3>3, <3>4, <3>5
  <2>2. CASE i \in dirty /\ ~was[i].exists /\ RemoveAsGuard(i) /\ UNCHANGED <<dir, revertFailed>>
    <3>1. Standing' /\ RootsOwn' /\ asRoot' \in SUBSET Acts
      BY <1>1, <1>2, <2>2, RemovalKeeps
    <3>2. /\ disk' \in [Files -> [info : Infos, content : Content]]
          /\ \A j \in Files : disk'[j].info.exists => disk'[j].info.owner \in Owners
          /\ disk'[i].content = "old" /\ ~disk'[i].info.exists
          /\ \A j \in Files \ {i} : disk'[j] = disk[j]
      BY <1>1, <2>2, UnlinkTypes DEF RemoveAsGuard
    <3>3. disk'[i].info.exists = was[i].exists
      BY <1>1, <2>2, <3>2 DEF Policy, TypeOK, Infos
    <3> QED
      BY <1>2, <2>2, <3>1, <3>2, <3>3 DEF Policy, TypeOK, Excused
  <2>3. CASE /\ UNCHANGED <<disk, dir, asRoot>>
             /\ \/ i \notin dirty /\ UNCHANGED revertFailed
                \/ i \in dirty /\ was[i].exists /\ ~ValidMode(was[i].mode) /\ revertFailed' = TRUE
    <3>1. Standing' /\ RootsOwn'
      BY <1>2, <2>3 DEF Policy, Standing, RootsOwn, RootManaged
    <3>2. AsBefore(i)
      BY <1>1, <2>3 DEF Policy, Undone, Spared
    <3>3. guard = Root /\ was[i].exists => disk[i].info = was[i]
      BY <1>1 DEF Policy, OwnershipKept
    <3>4. revertFailed' \in BOOLEAN /\ Excused'
      <4>1. CASE revertFailed' = revertFailed
        BY <1>2, <4>1 DEF Policy, TypeOK, Excused
      <4>2. CASE i \in dirty /\ ~ValidMode(was[i].mode) /\ revertFailed' = TRUE
        BY <1>2, <4>2 DEF Excused
      <4> QED
        BY <2>3, <4>1, <4>2
    <3> QED
      BY <1>1, <2>3, <3>1, <3>2, <3>3, <3>4 DEF Policy, TypeOK, AsBefore
  <2> QED
    BY <1>4, <2>1, <2>2, <2>3
<1>6. \A j \in Files : ApplyTarget(j)' = ApplyTarget(j)
  BY <1>2, <1>5 DEF ApplyTarget
<1>7. TypeOK'
  <2>1. cur' \in 1..(NumFiles + 1)
    BY <1>1, NumFilesAssumption DEF Policy, TypeOK, Files
  <2> QED
    BY <1>1, <1>2, <1>5, <2>1 DEF Policy, TypeOK
<1>8. Checked'
  BY <1>1, <1>6, CheckedKeeps
<1>9. Undoable'
  BY <1>1, <1>5, UndoableKeeps
<1>10. Undone'
  <2>1. \A j \in Files : j = i => AsBefore(j)'
    BY <1>2, <1>5 DEF AsBefore
  <2>2. \A j \in Files \ {i} : AsBefore(j)' <=> AsBefore(j)
    BY <1>2, <1>5 DEF AsBefore
  <2>3. \A j \in Files : j < cur' => j < cur \/ j = i
    BY <1>1 DEF Files
  <2> QED
    BY <1>1, <1>2, <2>1, <2>2, <2>3 DEF Policy, Undone
<1>13. Spared'
  BY <1>1, <1>2, <1>5 DEF Policy, Spared, AsBefore
<1>11. RevertLands'
  BY <1>1, <1>2 DEF RevertLands
<1>12. OwnershipKept'
  <2> SUFFICES ASSUME guard = Root, NEW j \in Files, was[j].exists PROVE disk'[j].info = was[j]
    BY <1>2 DEF OwnershipKept
  <2> QED
    BY <1>1, <1>5 DEF Policy, OwnershipKept
<1> QED
  BY <1>5, <1>7, <1>8, <1>9, <1>10, <1>11, <1>12, <1>13 DEF Policy

\* Once a restore has begun, what is left to keep is the form of the state and
\* where root has written.
LEMMA Restoring ==
    ASSUME phase' \in {"restoring", "refused", "failed", "restored"},
           TypeOK', Standing', RootsOwn', Excused'
    PROVE  Policy'
  BY DEF Policy, Checked, Undoable, Undone, Spared, RevertLands, OwnershipKept

\* The restore: the file is written by the same user that the policy names.
LEMMA RestoreFileKeeps ==
    ASSUME Policy, RestoreFile
    PROVE  Policy'
<1> DEFINE i == cur
           t == RestoreTarget(i)
           opts == [DecideWriteOpts(t) EXCEPT !.mode = was[i].mode]
<1>1. /\ phase = "restoring" /\ i \in Files /\ was[i].exists
      /\ UNCHANGED <<fixed, txVars>>
      /\ \/ Write(i, opts, "old") /\ rewritten' = rewritten \cup {i} /\ cur' = cur + 1
            /\ UNCHANGED phase
         \/ phase' = "failed" /\ UNCHANGED <<disk, dir, rewritten, cur, asRoot>>
  BY DEF RestoreFile
<1>2. t \in Target /\ t.guard = guard /\ t.entry = entry[i] /\ t.dir = dir[i]
  BY <1>1, TargetTypes DEF RestoreTarget
<1>3. DecideWriteOpts(t) \in
          [runAs : Owners \cup {Nobody}, uid : Owners \cup {Nobody}, mode : Modes]
  <2> HIDE DEF t
  <2> QED
    BY <1>2, DecisionType
<1>4. was[i].mode \in Modes
  BY <1>1 DEF Policy, TypeOK, Infos
<1>5. opts \in [runAs : Owners \cup {Nobody}, uid : Owners \cup {Nobody}, mode : Modes]
      /\ opts.runAs = DecideWriteOpts(t).runAs
  <2> DEFINE d == DecideWriteOpts(t)
  <2>1. d \in [runAs : Owners \cup {Nobody}, uid : Owners \cup {Nobody}, mode : Modes]
    BY <1>3
  <2> HIDE DEF d, t
  <2>2. [d EXCEPT !.mode = was[i].mode] \in
            [runAs : Owners \cup {Nobody}, uid : Owners \cup {Nobody}, mode : Modes]
        /\ [d EXCEPT !.mode = was[i].mode].runAs = d.runAs
    BY <1>4, <2>1
  <2> QED
    BY <2>2 DEF d
<1>6. Writer(guard, opts) = Root => RootManaged(dir[i]) \/ entry[i] = guard
  <2>1. Writer(guard, opts) = Writer(guard, DecideWriteOpts(t))
    <3> HIDE DEF t, opts
    <3> QED
      BY <1>5 DEF Writer
  <2> HIDE DEF t, opts
  <2> QED
    BY <1>2, <2>1, RootWritesOwn
<1>7. /\ guard' = guard /\ entry' = entry /\ was' = was /\ dirty' = dirty
      /\ revertFailed' = revertFailed /\ Excused'
  BY <1>1 DEF fixed, txVars, Policy, Excused
<1> HIDE DEF opts
<1>8. CASE /\ Write(i, opts, "old") /\ rewritten' = rewritten \cup {i} /\ cur' = cur + 1
           /\ UNCHANGED phase
  <2>1. Standing' /\ RootsOwn'
    BY <1>1, <1>5, <1>6, <1>8, WriteKeeps DEF Content
  <2>2. /\ disk' \in [Files -> [info : Infos, content : Content]]
        /\ \A j \in Files : disk'[j].info.exists => disk'[j].info.owner \in Owners
        /\ dir' \in [Files -> Infos]
        /\ asRoot' \in SUBSET Acts
    BY <1>1, <1>5, <1>8, WriteTypes DEF Content
  <2>3. cur' \in 1..(NumFiles + 1)
    BY <1>1, <1>8, NumFilesAssumption DEF Policy, TypeOK, Files
  <2>4. TypeOK'
    BY <1>1, <1>7, <1>8, <2>2, <2>3 DEF Policy, TypeOK
  <2> QED
    BY <1>1, <1>7, <1>8, <2>1, <2>4, Restoring
<1>9. CASE phase' = "failed" /\ UNCHANGED <<disk, dir, rewritten, cur, asRoot>>
  <2>1. TypeOK'
    BY <1>1, <1>7, <1>9 DEF Policy, TypeOK
  <2>2. Standing' /\ RootsOwn'
    BY <1>7, <1>9 DEF Policy, Standing, RootsOwn, RootManaged
  <2> QED
    BY <1>7, <1>9, <2>1, <2>2, Restoring
<1> QED
  BY <1>1, <1>8, <1>9

\* The restore: files are deleted, and no directory is touched.
LEMMA RemovalsKeep ==
    ASSUME Policy, Restore \/ RemoveFile
    PROVE  Policy'
<1>1. /\ phase' \in {"restoring", "failed"}
      /\ cur' \in 1..(NumFiles + 1)
      /\ UNCHANGED txVars /\ rewritten' \in SUBSET Files
      /\ guard' = guard /\ entry' = entry /\ was' = was /\ dir' = dir
      /\ UNCHANGED disk \/ \E i \in Files : Unlink(i)
      /\ Standing' /\ RootsOwn' /\ asRoot' \in SUBSET Acts
  <2>1. CASE Restore
    <3>1. Standing' /\ RootsOwn' /\ asRoot' \in SUBSET Acts
      BY <2>1 DEF Restore, Policy, TypeOK, fixed, Standing, RootsOwn, RootManaged
    <3> QED
      BY <2>1, <3>1, NumFilesAssumption DEF Restore, Policy, TypeOK, fixed
  <2>2. CASE RemoveFile
    <3>1. /\ cur \in Files /\ phase = "restoring"
          /\ ~was[cur].exists
          /\ UNCHANGED txVars /\ guard' = guard /\ entry' = entry /\ was' = was /\ dir' = dir
          /\ \/ RemoveAsGuard(cur) /\ rewritten' = rewritten \cup {cur} /\ cur' = cur + 1 /\ UNCHANGED phase
             \/ phase' = "failed" /\ UNCHANGED <<disk, rewritten, cur, asRoot>>
      BY <2>2 DEF RemoveFile, fixed
    <3>2. phase' \in {"restoring", "failed"} /\ (UNCHANGED disk \/ \E i \in Files : Unlink(i))
      BY <3>1 DEF RemoveAsGuard
    <3>3. cur' = cur + 1 \/ cur' = cur
      BY <3>1
    <3>4. cur' \in 1..(NumFiles + 1)
      BY <3>1, <3>3, NumFilesAssumption DEF Files
    <3>5. rewritten' \in SUBSET Files
      BY <3>1 DEF Policy, TypeOK
    <3>6. Standing' /\ RootsOwn' /\ asRoot' \in SUBSET Acts
      <4>1. CASE RemoveAsGuard(cur)
        BY <3>1, <4>1, RemovalKeeps
      <4>2. CASE UNCHANGED asRoot
        BY <3>1, <4>2 DEF Policy, TypeOK, Standing, RootsOwn, RootManaged
      <4> QED
        BY <3>1, <4>1, <4>2
    <3> QED
      BY <3>1, <3>2, <3>4, <3>5, <3>6
  <2> QED
    BY <2>1, <2>2
<1>2. /\ disk' \in [Files -> [info : Infos, content : Content]]
      /\ \A j \in Files : disk'[j].info.exists => disk'[j].info.owner \in Owners
  <2>1. CASE UNCHANGED disk
    BY <2>1 DEF Policy, TypeOK
  <2>2. ASSUME NEW i \in Files, Unlink(i)
        PROVE  /\ disk' \in [Files -> [info : Infos, content : Content]]
               /\ \A j \in Files : disk'[j].info.exists => disk'[j].info.owner \in Owners
    BY <2>2, UnlinkTypes
  <2> QED
    BY <1>1, <2>1, <2>2
<1>3. TypeOK'
  BY <1>1, <1>2 DEF Policy, TypeOK, txVars
<1>4. Standing' /\ RootsOwn' /\ Excused'
  BY <1>1 DEF Policy, Excused, txVars
<1> QED
  BY <1>1, <1>3, <1>4, Restoring

LEMMA PolicyStep == Policy /\ [Next]_vars => Policy'
<1> SUFFICES ASSUME Policy, [Next]_vars PROVE Policy'
  OBVIOUS
<1>1. CASE Apply
  BY <1>1, ApplyKeeps
<1>2. CASE Revert
  BY <1>2, RevertKeeps
<1>3. CASE Restore \/ RemoveFile
  BY <1>3, RemovalsKeep
<1>4. CASE RestoreFile
  BY <1>4, RestoreFileKeeps
<1>5. CASE Load \/ Verified \/ Reverted \/ Refuse \/ RestoreFails \/ Restored \/ Rest
           \/ UNCHANGED vars
  BY <1>5, OthersKeep
<1> QED
  BY <1>1, <1>2, <1>3, <1>4, <1>5 DEF Next

----------------------------------------------------------------------------
(* The theorems.                                                           *)

LEMMA PolicyHolds == Spec => []Policy
  BY PolicyInit, PolicyStep, PTL DEF Spec

\* The state of the files and of the driver is always one the code can name,
\* and a file that is there has an owner (remote.FileInfo).
THEOREM RecoveryTypes == Spec => []TypeOK
<1>1. Policy => TypeOK
  BY DEF Policy
<1> QED
  BY <1>1, PolicyHolds, PTL

\* An abort puts back every file that a swap has replaced, whoever owns the
\* files and directories: the decision that could write them can undo it
\* (tx.writeOpts, tx.abort).
THEOREM RevertAlwaysLands == Spec => []RevertLands
<1>1. Policy => RevertLands
  BY DEF Policy
<1> QED
  BY <1>1, PolicyHolds, PTL

\* With a root guard neither the swap nor the revert changes the owner or the
\* mode of a file that is there (tx.swap, remote.CheckWriteTarget).
THEOREM OwnershipAlwaysKept == Spec => []OwnershipKept
<1>1. Policy => OwnershipKept
  BY DEF Policy
<1> QED
  BY <1>1, PolicyHolds, PTL

\* Whatever apply, revert and restore write with root's credentials is in a directory
\* of root's that nobody else can write in, or is the guard's own file
\* (remote.DecideWriteOpts); what they unlink elsewhere as root was not there before the
\* transaction (tx.abort, cli.restoreCmd).
THEOREM RootStaysOut == Spec => []NoRootWriteInUserDir
<1>1. Policy => NoRootWriteInUserDir
  BY DEF Policy, RootsOwn, RootManaged, NoRootWriteInUserDir
<1> QED
  BY <1>1, PolicyHolds, PTL
=============================================================================
