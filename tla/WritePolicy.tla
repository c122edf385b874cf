---------------------------- MODULE WritePolicy ----------------------------
(***************************************************************************)
(* Who performs a write and what it leaves behind (remote.go):             *)
(* CheckWriteTarget, DecideWriteOpts and SwapFile's validation, and the    *)
(* permissions of the host that decide whether such a write lands.         *)
(*                                                                         *)
(* A user stands for its name and its uid, Root for both "root" and "0".   *)
(* A mode is the sequence of its octal digits as stat prints them.         *)
(***************************************************************************)
EXTENDS Integers, Sequences

CONSTANTS
    People,     \* users other than root
    Root,
    Nobody,     \* no user: an empty UID or RunAs
    Modes       \* the modes that occur

Owners == People \cup {Root}

ASSUME NobodyAssumption == Nobody \notin Owners

ASSUME ModesAssumption == {<< >>, <<6, 0, 0>>, <<7, 0, 0>>} \subseteq Modes /\ Modes \subseteq Seq(0..7)

\* FileInfo; restore gives a file that is not there the owner Nobody.
Infos == [exists : BOOLEAN, owner : Owners \cup {Nobody}, mode : Modes]

\* Bit 2 of an octal digit, and the digit at a place counted from the right.
Writes(digit) == (digit \div 2) % 2 = 1

Digit(mode, place) == IF Len(mode) > place THEN mode[Len(mode) - place] ELSE 0

\* dirWritableByOthers: the bits 0o022 of the mode as a number.
WritableByOthers(mode) == Writes(Digit(mode, 0)) \/ Writes(Digit(mode, 1))

\* A directory of root's, whoever else can write in it.
RootOwned(dir) == dir.exists /\ dir.owner = Root

RootManaged(dir) == dir.exists /\ dir.owner = Root /\ ~WritableByOthers(dir.mode)

\* A WriteTarget t has the guard and entry users, the entry user's uid as the
\* caller gives it, the file and its parent directory.
CheckWriteTarget(t) ==
    \/ t.guard # Root
    \/ t.entry = t.guard
    \/ ~t.file.exists
    \/ RootManaged(t.dir)
    \/ t.file.owner = Nobody
    \/ t.file.owner = t.entryUID

\* A decision that chowns nothing.
DecideWithoutOwner(t) ==
    [runAs |-> IF t.guard = Root /\ t.entry # t.guard /\ ~RootManaged(t.dir)
               THEN t.entry ELSE Nobody,
     uid |-> Nobody,
     mode |-> IF t.file.exists THEN t.file.mode ELSE <<6, 0, 0>>]

DecideWriteOpts(t) ==
    LET drop == t.guard = Root /\ t.entry # t.guard /\ ~RootManaged(t.dir)
    IN  [runAs |-> IF drop THEN t.entry ELSE Nobody,
         uid |-> IF t.guard # Root \/ drop THEN Nobody
                 ELSE IF t.file.exists THEN t.file.owner ELSE t.entryUID,
         mode |-> IF t.file.exists THEN t.file.mode ELSE <<6, 0, 0>>]

\* WriteOpts.validate: three or four octal digits.
ValidMode(mode) == Len(mode) \in 3..4

\* The user whose credentials a write has.
Writer(guard, opts) == IF opts.runAs # Nobody THEN opts.runAs ELSE guard

\* Whether user u may create and rename files in dir; of the group no one but
\* the owner is a member.
MayWriteIn(u, dir) ==
    \/ u = Root
    \/ dir.exists /\ u = dir.owner /\ Writes(Digit(dir.mode, 2))
    \/ dir.exists /\ Writes(Digit(dir.mode, 0))

\* SwapFile as guard with opts: whether it lands, and who owns the file then.
\* A missing directory is made if that was asked for, in the home of the
\* entry user; everything under it is then the writer's.
SwapLands(guard, entry, dir, opts, mkdir) ==
    /\ ValidMode(opts.mode)
    /\ IF dir.exists THEN MayWriteIn(Writer(guard, opts), dir)
       ELSE mkdir /\ Writer(guard, opts) \in {Root, entry}

SwappedOwner(guard, opts) == IF opts.uid # Nobody THEN opts.uid ELSE Writer(guard, opts)
=============================================================================
