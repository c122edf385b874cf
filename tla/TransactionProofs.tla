------------------------- MODULE TransactionProofs -------------------------
(***************************************************************************)
(* Theorems of Transaction, for any users, keys, paths, requests and       *)
(* faults: its state is well typed; the manifest names every changed file  *)
(* (WriteAhead); and the trap writes nothing but originals                 *)
(* (TrapRestoresOriginal).  The last two rest on one inductive invariant,  *)
(* Ledger, which relates the files, the backups, the manifest and where    *)
(* the client is.                                                          *)
(*                                                                         *)
(* Then what the order of a transaction is worth:                          *)
(*   no key disappears before every addition is proven (RemovalAfterProof) *)
(*   and no file is ever without a usable key (NoEmptyWindow), unless a    *)
(*   swap is torn by the end of its connection;                            *)
(*   a commit rests, for every file that was written, on a key accepted    *)
(*   after the last write, or its file is as it was before                 *)
(*   (CommitRestsOnAcceptance), whatever fails.                            *)
(* Each rests on an invariant of its own next to Ledger: Order, what each  *)
(* phase has proven, and that until then every content that is, or may     *)
(* come to be, in a file holds all the keys it held before; Window, what   *)
(* the working copies hold in each phase; Acceptance, what proveAccess has *)
(* been through.                                                           *)
(*                                                                         *)
(* Last, that no run goes around in circles (EveryStepCounts): what is     *)
(* left to do, counted in fourteen numbers, gets less with every step of   *)
(* anybody, in the lexicographic order of these numbers.                   *)
(***************************************************************************)
EXTENDS TransactionProperties, TLAPS, WellFoundedInduction, FiniteSetTheorems

----------------------------------------------------------------------------
(* The loop over users.                                                    *)

\* The order of the natural numbers as a relation.
Below == {ss \in Nat \X Nat : ss[1] < ss[2]}

\* A set of natural numbers that is not empty has a least member.
LEMMA LeastNumber ==
    ASSUME NEW S \in SUBSET Nat, S # {}
    PROVE  \E x \in S : \A y \in S : x <= y
<1>1. IsWellFoundedOn(Below, Nat)
  BY NatLessThanWellFounded DEF OpToRel, Below
<1>2. PICK x \in S : \A y \in S : ~ (<<y, x>> \in Below)
  BY <1>1, WFMin, Zenon
<1>3. \A y \in S : ~ (y < x)
  BY <1>2 DEF Below
<1> QED  BY <1>3, SMT

\* The user after u in the loop over S is in S, or the loop is over.
LEMMA AfterType ==
    ASSUME NEW u \in Nat, NEW S \in SUBSET Users
    PROVE  /\ After(u, S) \in S \cup {NumUsers + 1}
           /\ After(u, S) \in 0..(NumUsers + 1)
<1> DEFINE later == {v \in S : v > u}
<1>1. CASE later = {}
  <2>1. After(u, S) = NumUsers + 1
    BY <1>1 DEF After
  <2> QED  BY <2>1, UsersAssumption
<1>2. CASE later # {}
  <2>1. later \in SUBSET Nat
    <3>1. Users \subseteq Nat
      BY UsersAssumption DEF Users
    <3> QED  BY <3>1, Zenon
  <2>2. PICK v \in later : \A w \in later : v <= w
    BY <2>1, <1>2, LeastNumber, Zenon
  <2>3. v \in S /\ v > u /\ \A w \in S : w > u => v <= w
    BY <2>2
  <2>4. After(u, S) \in S
    BY <2>3 DEF After
  <2>5. After(u, S) \in Users
    BY <2>4
  <2> QED  BY <2>4, <2>5, UsersAssumption DEF Users
<1> QED  BY <1>1, <1>2

----------------------------------------------------------------------------
(* Types.                                                                  *)

\* The phases that begin with a health check.
WorkPhases == {"add", "verifyAdd", "remove", "verifyRemove", "cleanup"}

\* The steps of checkHealth and someKeyAccepted.
ActiveSteps == {"health", "control", "prove"}

\* The program counter of the client is well typed.
PcOK ==
    /\ phase \in Phases
    /\ step \in Steps
    /\ step \in ActiveSteps => phase \in WorkPhases
    /\ cur \in 0..(NumUsers + 1)
    /\ todo \in SUBSET (Users \X Keys)
    /\ tries \in Nat

\* The type invariant, made inductive.
TypeInv == TypeOK /\ (step \in ActiveSteps => phase \in WorkPhases)

\* A phase is followed by one that does work.
LEMMA FollowingType == ASSUME NEW p PROVE Following(p) \in WorkPhases
  BY DEF Following, WorkPhases

\* The keys of a content are a set of keys.
LEMMA KeysInType == ASSUME NEW c \in Contents PROVE KeysIn(c) \in SUBSET Keys
  BY DEF Contents, KeysIn

\* What the trap writes for a manifest line is a content.
LEMMA RestoredContentType ==
    ASSUME GuardTypeOK, NEW e \in Entries
    PROVE  RestoredContent(e) \in Contents
  BY PathsAssumption DEF GuardTypeOK, Entries, RestoredContent, Contents

\* The initial states are well typed.
LEMMA InitType == Init => TypeInv
<1> SUFFICES ASSUME Init PROVE TypeInv
  OBVIOUS
<1>1. Absent \in Contents
  BY DEF Contents
<1>2. GuardTypeOK
  <2>1. manifest \in Seq(Entries) /\ queue \in Seq(Entries)
    BY DEF Init, GuardInit
  <2> QED  BY <1>1, <2>1, FilesAssumption DEF Init, GuardInit, GuardTypeOK
<1>3. req \in Request /\ before \in [Paths -> Contents]
  BY RequestsAssumption, FilesAssumption DEF Init
<1>4. phase \in Phases /\ step \in Steps /\ cur \in 0..(NumUsers + 1) /\ tries \in Nat
  BY UsersAssumption DEF Init, Phases, Steps
<1> QED  BY <1>1, <1>2, <1>3, <1>4 DEF Init, TypeInv, TypeOK, ActiveSteps

USE DEF ActiveSteps, hostVars, guardVars, pcVars, txVars, envVars, historyVars

\* A step of the trap, or a fault of it, keeps the host's state well typed.
LEMMA GuardStepType ==
    ASSUME GuardTypeOK, TrapStep \/ GuardFault
    PROVE  GuardTypeOK'
<1>1. ASSUME EnterRestore PROVE GuardTypeOK'
  BY <1>1 DEF GuardTypeOK, EnterRestore
<1>2. ASSUME RestoreEntry PROVE GuardTypeOK'
  <2>1. Head(queue) \in Entries /\ Tail(queue) \in Seq(Entries)
    BY <1>2 DEF GuardTypeOK, RestoreEntry
  <2>2. RestoredContent(Head(queue)) \in Contents
    BY <2>1, RestoredContentType
  <2> QED  BY <1>2, <2>1, <2>2 DEF GuardTypeOK, RestoreEntry
<1>3. ASSUME RestoreDone PROVE GuardTypeOK'
  BY <1>3 DEF GuardTypeOK, RestoreDone
<1>4. ASSUME KillGuard PROVE GuardTypeOK'
  BY <1>4 DEF GuardTypeOK, KillGuard
<1> QED  BY <1>1, <1>2, <1>3, <1>4 DEF TrapStep, GuardFault, TrapOnEOF, TrapOnSignal

\* What a step appends to the manifest is its last line.
LEMMA AppendLine ==
    ASSUME NEW s \in Seq(Entries), NEW e \in Entries
    PROVE  /\ Append(s, e) \in Seq(Entries)
           /\ Len(Append(s, e)) = Len(s) + 1
           /\ Append(s, e)[Len(s) + 1] = e
           /\ \A i \in 1..Len(s) : Append(s, e)[i] = s[i]
           /\ \A i \in 1..Len(Append(s, e)) :
                \/ i \in 1..Len(s) /\ Append(s, e)[i] = s[i]
                \/ Append(s, e)[i] = e
  OBVIOUS

\* Validation, connection and loading keep the state well typed.
LEMMA SetupType ==
    ASSUME TypeInv, Validate \/ Connect \/ ConnectFails \/ Load \/ LoadFails
    PROVE  TypeInv'
<1> USE DEF TypeInv, TypeOK, GuardTypeOK, At, Goto, Finish, Outcomes, Steps, Phases, WorkPhases
<1>1. CASE Validate BY <1>1 DEF Validate
<1>2. CASE Connect BY <1>2 DEF Connect
<1>3. CASE ConnectFails BY <1>3 DEF ConnectFails
<1>4. CASE Load
  <2>1. Following("load") \in WorkPhases BY FollowingType
  <2>2. orig' \in [Users -> Contents]
    BY <1>4, PathsAssumption DEF Load, Contents
  <2>3. work' \in [Users -> SUBSET Keys]
    BY <1>4, <2>2, KeysInType DEF Load
  <2> QED  BY <1>4, <2>1, <2>2, <2>3, UsersAssumption DEF Load, Enter
<1>5. CASE LoadFails BY <1>5 DEF LoadFails
<1> QED  BY <1>1, <1>2, <1>3, <1>4, <1>5

----------------------------------------------------------------------------
(* The moves of the client's program counter.                              *)

\* Entering the following phase keeps the program counter well typed.
LEMMA EnterType ==
    ASSUME NEW p, Enter(Following(p))
    PROVE  PcOK'
  BY FollowingType, UsersAssumption DEF Enter, PcOK, Phases, Steps, WorkPhases

\* So does a move to another step of the same phase.
LEMMA GotoType ==
    ASSUME PcOK, NEW s \in Steps \ ActiveSteps, Goto(s)
    PROVE  PcOK'
  BY DEF Goto, PcOK

\* So does the move to abort.
LEMMA GoAbortType ==
    ASSUME PcOK, NEW d \in SUBSET Users, GoAbort(d)
    PROVE  PcOK'
<1>1. After(0, d) \in 0..(NumUsers + 1)
  BY AfterType
<1> QED  BY <1>1 DEF GoAbort, PcOK, Phases, Steps, WorkPhases

\* So does the move to the next file of a phase that writes.
LEMMA ToCopyType ==
    ASSUME PcOK, NEW u, ToCopy(u)
    PROVE  PcOK'
<1>1. CASE After(u, PhaseUsers) \in Users
  BY <1>1, UsersAssumption DEF ToCopy, PcOK, Steps, Users
<1>2. CASE After(u, PhaseUsers) \notin Users
  BY <1>2, EnterType DEF ToCopy
<1> QED  BY <1>1, <1>2

\* So does the move from the copy of a file to its swap.
LEMMA ToSwapType ==
    ASSUME PcOK, ToSwap
    PROVE  PcOK'
  BY GotoType, ToCopyType DEF ToSwap, Steps

\* So does the start of a phase's probes.
LEMMA StartProbesType ==
    ASSUME PcOK, NEW pairs \in SUBSET (Users \X Keys), StartProbes(pairs)
    PROVE  PcOK'
<1>1. CASE pairs = {}
  BY <1>1, EnterType DEF StartProbes
<1>2. CASE pairs # {}
  BY <1>2 DEF StartProbes, PcOK, Steps
<1> QED  BY <1>1, <1>2

\* So does the move to the next positive control.
LEMMA ToControlType ==
    ASSUME PcOK, phase \in WorkPhases, work \in [Users -> SUBSET Keys], NEW u, ToControl(u)
    PROVE  PcOK'
<1> DEFINE v == After(u, Controlled)
<1>1. CASE v \in Users
  BY <1>1, UsersAssumption DEF ToControl, PcOK, Steps, Users
<1>2. CASE v \notin Users
  BY <1>2, StartProbesType DEF ToControl, RejectPairs
<1> QED  BY <1>1, <1>2

\* So does the move to the next file that access is to be proven for.
LEMMA ToProveType ==
    ASSUME PcOK, phase \in WorkPhases, work \in [Users -> SUBSET Keys],
           dirty \in SUBSET Users, NEW u, ToProve(u)
    PROVE  PcOK'
<1> DEFINE v == After(u, dirty)
<1>1. CASE v \in Users /\ work[v] = {}
  BY <1>1, GoAbortType DEF ToProve
<1>2. CASE v \in Users /\ work[v] # {}
  BY <1>2, UsersAssumption DEF ToProve, PcOK, Steps, Users
<1>3. CASE v \notin Users
  BY <1>3, GotoType DEF ToProve, Steps
<1> QED  BY <1>1, <1>2, <1>3

\* So does the move to the next file to revert.
LEMMA NextRevertType ==
    ASSUME PcOK, dirty \in SUBSET Users, NextRevert
    PROVE  PcOK'
<1>1. After(cur, dirty) \in 0..(NumUsers + 1)
  BY AfterType, UsersAssumption DEF PcOK
<1> QED  BY <1>1 DEF NextRevert, PcOK, Steps

----------------------------------------------------------------------------
(* The steps of the client.                                                *)

USE DEF TypeInv, TypeOK, GuardTypeOK

\* What the script leaves alone: all of the client but its evidence.
asideVars == <<req, pcVars, txVars, exitSeen, outcome, envVars, before, proven>>

Script == Trap \/ (GuardFault /\ UNCHANGED clientVars)

LEMMA ScriptAside == Script => (TrapStep \/ GuardFault) /\ UNCHANGED asideVars
  BY DEF Script, Trap, clientVars, asideVars

\* A well-typed state has a well-typed program counter.
LEMMA PcOfType == TypeInv => PcOK
  BY DEF PcOK

\* An edited working copy is a set of keys.
LEMMA EditedType ==
    ASSUME TypeInv, NEW u \in Users
    PROVE  Edited(u) \in SUBSET Keys
<1>1. req.add[u] \in SUBSET Keys /\ work[u] \in SUBSET Keys
  BY DEF Request
<1> QED  BY <1>1 DEF Edited

\* Swapping a content into the file of a user keeps the files well typed.
LEMMA SwapInType ==
    ASSUME TypeInv, NEW c \in Contents, cur \in Users, SwapIn(c)
    PROVE  file' \in [Paths -> Contents] /\ witnessed' \in SUBSET Users
  BY PathsAssumption DEF SwapIn

\* What arrives of a content is a content, and all of it unless swaps are torn.
LEMMA ArrivalsType == ASSUME NEW c \in Contents PROVE Arrivals(c) \subseteq Contents
  BY KeysInType DEF Arrivals, Contents

LEMMA WholeArrivals ==
    ASSUME "torn" \notin Faults
    PROVE  ~Torn /\ \A c : Arrivals(c) = {c}
  BY DEF Torn, Arrivals

\* The steps of ensureCAS keep the state well typed.
LEMMA CopyType ==
    ASSUME TypeInv, SaveLocal \/ SaveBackup \/ AppendManifest \/ Snapshot
    PROVE  TypeInv'
<1> USE DEF Writing
<1>1. CASE SaveLocal
  <2>1. PcOK'
    BY <1>1, PcOfType, GotoType, GoAbortType DEF SaveLocal, Steps
  <2> QED  BY <1>1, <2>1 DEF SaveLocal, PcOK
<1>2. CASE SaveBackup
  <2>1. PcOK'
    BY <1>2, PcOfType, GotoType, GoAbortType DEF SaveBackup, Steps
  <2> QED  BY <1>2, <2>1 DEF SaveBackup, PcOK
<1>3. CASE AppendManifest
  <2>1. PcOK'
    BY <1>3, PcOfType, ToSwapType, GoAbortType DEF AppendManifest
  <2>2. EntryOf(cur) \in Entries
    BY <1>3 DEF AppendManifest, EntryOf, Entries
  <2>3. manifest' \in Seq(Entries) /\ queue' \in Seq(Entries)
    <3>1. /\ Append(manifest, EntryOf(cur)) \in Seq(Entries)
          /\ Append(queue, EntryOf(cur)) \in Seq(Entries)
      BY <2>2
    <3> QED  BY <1>3, <3>1 DEF AppendManifest, AddEntry
  <2> QED  BY <1>3, <2>1, <2>3 DEF AppendManifest, PcOK
<1>4. CASE Snapshot
  <2>1. PcOK'
    BY <1>4, PcOfType, ToSwapType, GoAbortType DEF Snapshot
  <2> QED  BY <1>4, <2>1 DEF Snapshot, PcOK
<1> QED  BY <1>1, <1>2, <1>3, <1>4

\* Every outcome of a swap keeps the state well typed.
LEMMA SwapType ==
    ASSUME TypeInv, Swap
    PROVE  TypeInv'
<1>1. Swapping
  BY DEF Swap, SwapAnswered, SwapRefused, SwapLost, SwapLanded, SwapTorn, SwapLate
<1>2. cur \in Users /\ Edited(cur) \in SUBSET Keys
  BY <1>1, EditedType DEF Swapping, Writing
<1>3. work' \in [Users -> SUBSET Keys] /\ work'[cur] = Edited(cur)
  BY <1>1, <1>2 DEF Swapping
<1>4. SUBSET work'[cur] \subseteq Contents /\ Arrivals(work'[cur]) \subseteq Contents
  <2>1. SUBSET work'[cur] \subseteq Contents /\ work'[cur] \in Contents
    BY <1>2, <1>3 DEF Contents
  <2> QED  BY <2>1, ArrivalsType
<1>5. dirty' \in SUBSET Users
  BY <1>2 DEF Swap, SwapAnswered, SwapRefused, SwapLost, SwapLanded, SwapTorn, SwapLate,
              MarkDirty, ClearDirty
<1>6. PcOK'
  BY <1>2, <1>5, PcOfType, ToCopyType, GoAbortType
  DEF Swap, SwapAnswered, SwapRefused, SwapLost, SwapLanded, SwapTorn, SwapLate
<1>7. file' \in [Paths -> Contents] /\ witnessed' \in SUBSET Users
  <2>1. CASE \E c \in SUBSET work'[cur] : SwapIn(c)
    BY <2>1, <1>2, <1>4, SwapInType
  <2>2. CASE UNCHANGED <<file, witnessed>>
    BY <2>2
  <2> QED  BY <2>1, <2>2
          DEF Swap, SwapAnswered, SwapRefused, SwapLost, SwapLanded, SwapTorn, SwapLate
<1>8. late' \in SUBSET [path : Paths, content : Contents]
  BY <1>2, <1>4, PathsAssumption
  DEF Swap, SwapAnswered, SwapRefused, SwapLost, SwapLanded, SwapTorn, SwapLate
<1>9. conn' \in {"up", "down"}
  BY DEF Swap, SwapAnswered, SwapRefused, SwapLost, SwapLanded, SwapTorn, SwapLate
<1> QED  BY <1>1, <1>3, <1>5, <1>6, <1>7, <1>8, <1>9 DEF Swapping, PcOK

\* A health check keeps the state well typed, whatever phase it begins.
LEMMA CheckHealthType ==
    ASSUME TypeInv, CheckHealth
    PROVE  TypeInv'
<1>1. AddPairs \in SUBSET (Users \X Keys)
  BY DEF AddPairs
<1>2. ASSUME Begin PROVE PcOK'
  <2>1. phase \in WorkPhases
    BY DEF CheckHealth
  <2> QED  BY <1>1, <1>2, <2>1, PcOfType, ToCopyType, StartProbesType, ToControlType, ToProveType
          DEF Begin, WorkPhases
<1>3. PcOK'
  BY <1>2, PcOfType, GoAbortType DEF CheckHealth
<1> QED  BY <1>3 DEF CheckHealth, PcOK

\* Every answer of a probe keeps the state well typed.
LEMMA ProbeType ==
    ASSUME TypeInv, Probe
    PROVE  TypeInv'
<1>1. todo # {}
  BY DEF Probe, ProbeAgain, ProbeAdded, ProbeRemoved, PositiveControl, ProveAccess, Probing
<1>2. Current \in todo
  BY <1>1 DEF Current
<1>3. Current \in Users \X Keys
  BY <1>2
<1>4. ASSUME Witness PROVE proven' \in SUBSET (Users \X Keys) /\ witnessed' \in SUBSET Users
  BY <1>3, <1>4 DEF Witness
<1>5. ASSUME NextProbe PROVE PcOK'
  BY <1>5, EnterType DEF NextProbe, PcOK
<1>6. PcOK'
  <2>1. CASE ProbeAgain
    BY <2>1 DEF ProbeAgain, PcOK
  <2>2. CASE ProbeAdded
    BY <2>2, <1>5, PcOfType, GoAbortType DEF ProbeAdded
  <2>3. CASE ProbeRemoved
    BY <2>3, <1>5, PcOfType, GoAbortType DEF ProbeRemoved
  <2>4. ASSUME SomeKey, phase \in WorkPhases PROVE PcOK'
    <3>1. CASE ToProve(cur)
      BY <3>1, <2>4, PcOfType, ToProveType
    <3>2. CASE ToControl(cur)
      BY <3>2, <2>4, PcOfType, ToControlType
    <3>3. CASE GoAbort(dirty)
      BY <3>3, PcOfType, GoAbortType
    <3>4. CASE todo' = todo \ {Current} /\ tries' = 0 /\ UNCHANGED <<phase, step, cur>>
      BY <3>4 DEF PcOK
    <3> QED  BY <2>4, <3>1, <3>2, <3>3, <3>4 DEF SomeKey
  <2> QED  BY <2>1, <2>2, <2>3, <2>4 DEF Probe, PositiveControl, ProveAccess, Probing
<1>7. proven' \in SUBSET (Users \X Keys) /\ witnessed' \in SUBSET Users
  BY <1>4 DEF Probe, ProbeAgain, ProbeAdded, ProbeRemoved, PositiveControl, ProveAccess, SomeKey
<1>8. ProbeUnchanged
  BY DEF Probe, ProbeAgain, ProbeAdded, ProbeRemoved, PositiveControl, ProveAccess
<1> QED  BY <1>6, <1>7, <1>8 DEF ProbeUnchanged, PcOK

\* The steps of commit and of the release of the guard keep the state well typed.
LEMMA EndType ==
    ASSUME TypeInv, WriteMarker \/ CloseStdin \/ AwaitGuard \/ RemoveTxDir \/ Report
    PROVE  TypeInv'
<1>1. CASE WriteMarker
  <2>1. PcOK'
    BY <1>1, PcOfType, GotoType, GoAbortType DEF WriteMarker, Steps
  <2> QED  BY <1>1, <2>1 DEF WriteMarker, PcOK
<1>2. CASE CloseStdin
  <2>1. PcOK'
    BY <1>2, PcOfType, GotoType DEF CloseStdin, Steps
  <2> QED  BY <1>2, <2>1 DEF CloseStdin, PcOK
<1>3. Verdict \in Outcomes
  BY DEF Verdict, Outcomes
<1>4. CASE AwaitGuard
  <2>1. PcOK'
    BY <1>4, PcOfType, GotoType DEF AwaitGuard, Steps, PcOK
  <2> QED  BY <1>4, <1>3, <2>1 DEF AwaitGuard, PcOK, Finish, Outcomes
<1>5. CASE RemoveTxDir
  <2>1. Absent \in Contents
    BY DEF Contents
  <2>2. backup' \in [Users -> Contents]
    BY <1>5, <2>1 DEF RemoveTxDir
  <2>3. << >> \in Seq(Entries)
    OBVIOUS
  <2>4. manifest' \in Seq(Entries) /\ commit' \in BOOLEAN
    BY <1>5, <2>3 DEF RemoveTxDir
  <2> QED  BY <1>5, <2>2, <2>4 DEF RemoveTxDir
<1>6. CASE Report
  BY <1>6, <1>3 DEF Report, Finish, Outcomes
<1> QED  BY <1>1, <1>2, <1>4, <1>5, <1>6

\* The steps of abort keep the state well typed.
LEMMA AbortType ==
    ASSUME TypeInv, RevertFile \/ ReadBack \/ Disarm \/ HangUp
    PROVE  TypeInv'
<1>1. CASE RevertFile
  <2>1. cur \in Users /\ orig[cur] \in Contents
    BY <1>1 DEF RevertFile, Reverting
  <2>2. PcOK'
    BY <1>1, PcOfType, GotoType, NextRevertType DEF RevertFile, RevertUnanswered, Steps
  <2>3. file' \in [Paths -> Contents] /\ witnessed' \in SUBSET Users
    <3>1. orig[cur] # Absent => SUBSET orig[cur] \subseteq Contents
      BY <2>1 DEF Contents
    <3>2. CASE UNCHANGED <<file, witnessed>>
      BY <3>2
    <3>3. CASE \E c \in Contents : SwapIn(c)
      BY <2>1, <3>3, SwapInType
    <3> QED  BY <1>1, <2>1, <3>1, <3>2, <3>3 DEF RevertFile, RevertUnanswered
  <2>4. late' \in SUBSET [path : Paths, content : Contents]
    <3>1. Arrivals(orig[cur]) \subseteq Contents
      BY <2>1, ArrivalsType
    <3> QED  BY <1>1, <2>1, <3>1, PathsAssumption DEF RevertFile, RevertUnanswered
  <2>5. conn' \in {"up", "down"} /\ revertFailed' \in BOOLEAN
    BY <1>1 DEF RevertFile, RevertUnanswered
  <2> QED  BY <1>1, <2>2, <2>3, <2>4, <2>5 DEF RevertFile, PcOK
<1>2. CASE ReadBack
  <2>1. PcOK'
    BY <1>2, PcOfType, NextRevertType DEF ReadBack
  <2> QED  BY <1>2, <2>1 DEF ReadBack, PcOK
<1>3. CASE Disarm
  <2>1. PcOK'
    BY <1>3, PcOfType, GotoType DEF Disarm, Steps
  <2> QED  BY <1>3, <2>1 DEF Disarm, PcOK
<1>4. CASE HangUp
  BY <1>4 DEF HangUp, Finish, Outcomes
<1> QED  BY <1>1, <1>2, <1>3, <1>4

\* The steps of the environment keep the state well typed.
LEMMA EnvironmentType ==
    ASSUME TypeInv, GuardExitSeen \/ Drop \/ Crash \/ Deny \/ LandLate
    PROVE  TypeInv'
<1>1. CASE GuardExitSeen BY <1>1 DEF GuardExitSeen
<1>2. CASE Drop BY <1>2 DEF Drop
<1>3. CASE Crash BY <1>3 DEF Crash, Finish
<1>4. CASE Deny BY <1>4 DEF Deny
<1>5. CASE LandLate
  <2>1. PICK w \in late :
          /\ file' = [file EXCEPT ![w.path] = w.content]
          /\ witnessed' = {u \in witnessed : PathOf[u] # w.path}
          /\ late' = late \ {w}
    BY <1>5 DEF LandLate
  <2> QED  BY <1>5, <2>1 DEF LandLate
<1> QED  BY <1>1, <1>2, <1>3, <1>4, <1>5

\* Every step keeps the state well typed.
LEMMA StepType == TypeInv /\ [Next]_vars => TypeInv'
<1> SUFFICES ASSUME TypeInv, [Next]_vars PROVE TypeInv'
  OBVIOUS
<1>1. CASE Client
  BY <1>1, SetupType, CopyType, SwapType, CheckHealthType, ProbeType, EndType, AbortType
  DEF Client
<1>2. CASE Script
  <2>1. GuardTypeOK'
    BY <1>2, GuardStepType, ScriptAside
  <2> QED  BY <1>2, <2>1 DEF Script, Trap, clientVars
<1>3. CASE GuardExitSeen \/ Drop \/ Crash \/ Deny \/ LandLate
  BY <1>3, EnvironmentType
<1>4. CASE UNCHANGED vars
  BY <1>4 DEF vars
<1> QED  BY <1>1, <1>2, <1>3, <1>4 DEF Next, Environment, Rest, Script

\* The type invariant of Transaction holds in every reachable state: no move of the
\* client (tx.go) or of the trap (guard.go) leaves the states the code knows.
THEOREM TypeCorrect == Spec => []TypeOK
<1>1. TypeInv => TypeOK
  OBVIOUS
<1> QED  BY <1>1, InitType, StepType, PTL DEF Spec

----------------------------------------------------------------------------
(* The ledger: what the client and the host know of every changed file.    *)

\* The steps that work on the file of one user.
CopySteps == {"local", "backup", "manifest", "snapshot", "swap"}

\* Nothing is written during the setup, and afterwards the originals are known.
Loaded ==
    IF phase \in {"setup", "release"}
    THEN file = before /\ late = {} /\ manifested = {} /\ dirty = {}
    ELSE \A u \in Named : orig[u] = before[PathOf[u]]

\* A copy under $TX/backup is of the original, and a line that deletes is for a
\* file that was not there.
Copies == \A u \in Users : backup[u] \in {Absent, before[PathOf[u]]}

LineOK(e) == e.typ = "A" => before[PathOf[e.user]] = Absent

Lines ==
    /\ \A i \in 1..Len(manifest) : LineOK(manifest[i])
    /\ \A i \in 1..Len(queue) : LineOK(queue[i])

\* What the client has done for the user it is at.
Position ==
    /\ step \in CopySteps => cur \in Named
    /\ step \in {"backup", "manifest"} => cur \in local
    /\ step = "manifest" => backup[cur] = orig[cur]
    /\ step \in {"snapshot", "swap"} => cur \in manifested
    /\ step \in {"revert", "readback"} /\ cur \in Users => cur \in dirty

\* A manifested user can be restored, until the cleanup.
Listed(u) == \E i \in 1..Len(manifest) : manifest[i] = EntryOf(u)

Armed ==
    /\ manifested \subseteq Named
    /\ dirty \subseteq manifested
    /\ step # "rm" =>
        \A u \in manifested : u \in local /\ backup[u] = orig[u] /\ Listed(u)

\* Only files of manifested users change.
Changed ==
    /\ \A p \in Paths : file[p] # before[p] => \E u \in manifested : PathOf[u] = p
    /\ \A w \in late : \E u \in manifested : PathOf[u] = w.path

\* The inductive invariant.
Ledger == TypeInv /\ Loaded /\ Copies /\ Lines /\ Position /\ Armed /\ Changed

\* The ledger is in order to begin with.
LEMMA LedgerInit == Init => Ledger
<1> SUFFICES ASSUME Init PROVE Ledger
  OBVIOUS
<1>1. TypeInv
  BY InitType
<1>2. manifest = << >> /\ queue = << >> /\ Len(<< >>) = 0
  BY DEF Init, GuardInit
<1>3. Lines
  BY <1>2 DEF Lines
<1> QED  BY <1>1, <1>3
        DEF Init, GuardInit, Ledger, Loaded, Copies, Position, CopySteps, Armed, Changed

\* A step that leaves the files and the record of them alone.
Quiet ==
    /\ UNCHANGED <<file, backup, manifest, queue, req, orig, manifested, local, dirty, late, before>>
    /\ step # "rm" \/ step' = "rm"
    /\ \/ phase' = phase
       \/ phase = "setup" /\ phase' = "release"
       \/ phase \notin {"setup", "release"} /\ phase' \notin {"setup", "release"}

\* A quiet step keeps the ledger if it keeps to the position.
LEMMA QuietStep ==
    ASSUME Ledger, TypeInv', Quiet, Position'
    PROVE  Ledger'
<1>1. Loaded'
  BY DEF Ledger, Loaded, Quiet, Named
<1>2. Copies'
  BY DEF Ledger, Copies, Quiet
<1>3. Lines'
  BY DEF Ledger, Lines, LineOK, Quiet
<1>4. Armed'
  BY DEF Ledger, Armed, Listed, EntryOf, Named, Quiet
<1>5. Changed'
  BY DEF Ledger, Changed, Quiet
<1> QED  BY <1>1, <1>2, <1>3, <1>4, <1>5 DEF Ledger

\* Entering a phase keeps to the position.
LEMMA EnterPosition ==
    ASSUME NEW p, Enter(p)
    PROVE  Position'
  BY DEF Enter, Position, CopySteps

\* So does going to abort: the first file to revert is dirty.
LEMMA GoAbortPosition ==
    ASSUME dirty' \in SUBSET Users, GoAbort(dirty')
    PROVE  Position'
<1>1. After(0, dirty') \in dirty' \cup {NumUsers + 1}
  BY AfterType
<1>2. NumUsers + 1 \notin Users
  BY UsersAssumption DEF Users
<1> QED  BY <1>1, <1>2 DEF GoAbort, Position, CopySteps

\* So does the move to the next file to revert.
LEMMA NextRevertPosition ==
    ASSUME TypeInv, dirty' = dirty, NextRevert
    PROVE  Position'
<1>1. After(cur, dirty) \in dirty \cup {NumUsers + 1}
  BY AfterType, UsersAssumption
<1>2. NumUsers + 1 \notin Users
  BY UsersAssumption DEF Users
<1> QED  BY <1>1, <1>2 DEF NextRevert, Position, CopySteps

\* So does the move to the next file of a phase that writes: it is a named
\* user's, and its first step depends on whether it is manifested.
LEMMA ToCopyPosition ==
    ASSUME TypeInv, phase \in {"add", "remove"}, NEW u \in Nat,
           req' = req, manifested \subseteq manifested', ToCopy(u)
    PROVE  Position'
<1> DEFINE v == After(u, PhaseUsers)
<1>1. CASE v \notin Users
  BY <1>1, EnterPosition DEF ToCopy
<1>2. CASE v \in Users
  <2>1. PhaseUsers \in SUBSET Users
    BY DEF PhaseUsers, Adders
  <2>2. NumUsers + 1 \notin Users
    BY UsersAssumption DEF Users
  <2>3. v \in PhaseUsers
    BY <1>2, <2>1, <2>2, AfterType
  <2>4. v \in Named
    BY <1>2, <2>3 DEF PhaseUsers, Adders, Named, Edited
  <2>5. cur' = v /\ step' = IF v \in manifested THEN "snapshot" ELSE "local"
    BY <1>2 DEF ToCopy
  <2>6. Named' = Named
    BY DEF Named
  <2> QED  BY <2>4, <2>5, <2>6 DEF Position, CopySteps
<1> QED  BY <1>1, <1>2

\* So does a step that leaves the client where it is.
LEMMA StillPosition ==
    ASSUME Position,
           UNCHANGED <<step, cur, req, orig, manifested, local, dirty>>,
           UNCHANGED backup \/ step = "rm"
    PROVE  Position'
  BY DEF Position, CopySteps, Named

\* So does the start of a phase's probes.
LEMMA StartProbesPosition ==
    ASSUME NEW pairs, StartProbes(pairs)
    PROVE  Position'
  BY EnterPosition DEF StartProbes, Position, CopySteps

\* So does the move to the next positive control.
LEMMA ToControlPosition ==
    ASSUME NEW u, ToControl(u)
    PROVE  Position'
<1>1. CASE After(u, Controlled) \in Users
  BY <1>1 DEF ToControl, Position, CopySteps
<1>2. CASE After(u, Controlled) \notin Users
  BY <1>2, StartProbesPosition DEF ToControl
<1> QED  BY <1>1, <1>2

\* So does the move to the next file that access is to be proven for.
LEMMA ToProvePosition ==
    ASSUME TypeInv, dirty' = dirty, NEW u, ToProve(u)
    PROVE  Position'
<1> DEFINE v == After(u, dirty)
<1>1. CASE v \in Users /\ work[v] = {}
  BY <1>1, GoAbortPosition DEF ToProve
<1>2. CASE v \in Users /\ work[v] # {}
  BY <1>2 DEF ToProve, Position, CopySteps
<1>3. CASE v \notin Users
  BY <1>3 DEF ToProve, Goto, Position, CopySteps
<1> QED  BY <1>1, <1>2, <1>3

\* Loading opens the ledger: the originals are those of the files, because
\* nothing was written before (tx.loadFiles).
LEMMA SetupLedger ==
    ASSUME Ledger, TypeInv', Validate \/ Connect \/ ConnectFails \/ Load \/ LoadFails
    PROVE  Ledger'
<1>1. CASE Validate
  BY <1>1, QuietStep DEF Validate, At, Goto, Finish, Quiet, Position, CopySteps, Ledger, Named
<1>2. CASE Connect
  BY <1>2, QuietStep DEF Connect, At, Goto, Quiet, Position, CopySteps
<1>3. CASE ConnectFails
  BY <1>3, QuietStep DEF ConnectFails, At, Finish, Quiet, Position, CopySteps, Ledger, Named
<1>4. CASE Load
  <2>1. file = before /\ late = {} /\ manifested = {} /\ dirty = {}
    BY <1>4 DEF Load, At, Ledger, Loaded
  <2>2. \A u \in Named' : orig'[u] = before'[PathOf[u]]
    BY <1>4, <2>1 DEF Load, Named
  <2>3. phase' \notin {"setup", "release"} /\ step' \in {"close", "health"}
    <3>1. Following("load") \notin {"setup", "release"}
      BY FollowingType DEF WorkPhases
    <3> QED  BY <1>4, <3>1 DEF Load, Enter
  <2>4. Loaded' /\ Position'
    BY <2>2, <2>3 DEF Loaded, Position, CopySteps
  <2>5. Copies' /\ Lines'
    BY <1>4 DEF Load, Ledger, Copies, Lines, LineOK
  <2>6. Armed' /\ Changed'
    BY <1>4, <2>1 DEF Load, Armed, Changed
  <2> QED  BY <2>4, <2>5, <2>6 DEF Ledger
<1>5. CASE LoadFails
  BY <1>5, QuietStep DEF LoadFails, At, Quiet, Position, CopySteps
<1> QED  BY <1>1, <1>2, <1>3, <1>4, <1>5

\* A move out of a phase that writes leads to no setup and to no cleanup.
LEMMA ToCopyMove ==
    ASSUME phase \in {"add", "remove"}, NEW u, ToCopy(u)
    PROVE  phase' \notin {"setup", "release"} /\ step' # "rm"
<1>1. Following(phase) \notin {"setup", "release"}
  BY FollowingType DEF WorkPhases
<1> QED  BY <1>1 DEF ToCopy, Enter

\* Nor does the move from the copy of a file to its swap, and it keeps to the
\* position.
LEMMA ToSwapMove ==
    ASSUME TypeInv, phase \in {"add", "remove"}, cur \in Named,
           req' = req, manifested \subseteq manifested', cur \in manifested', ToSwap
    PROVE  Position' /\ phase' \notin {"setup", "release"} /\ step' # "rm"
<1>1. CASE ToCopy(cur)
  BY <1>1, ToCopyMove, ToCopyPosition, UsersAssumption
<1>2. CASE Goto("swap")
  BY <1>2 DEF Goto, Position, CopySteps, Named
<1> QED  BY <1>1, <1>2 DEF ToSwap

\* ensureCAS enters a user in the ledger: the local copy, the remote copy and
\* the manifest line, in this order.
LEMMA CopyLedger ==
    ASSUME Ledger, TypeInv', SaveLocal \/ SaveBackup \/ AppendManifest \/ Snapshot
    PROVE  Ledger'
<1> USE DEF Ledger
<1>1. /\ cur \in Users /\ cur \in Named /\ phase \in {"add", "remove"}
      /\ step \in {"local", "backup", "manifest", "snapshot"}
  BY DEF SaveLocal, SaveBackup, AppendManifest, Snapshot, Writing, Position, CopySteps
<1>2. orig[cur] = before[PathOf[cur]]
  BY <1>1 DEF Loaded
<1>3. CASE SaveLocal
  <2>1. step' # "rm" /\ phase' \notin {"setup", "release"}
    BY <1>3, <1>1 DEF SaveLocal, Goto, GoAbort
  <2>2. Position'
    <3>1. CASE GoAbort(dirty)
      BY <3>1, <1>3, GoAbortPosition DEF SaveLocal
    <3>2. CASE local' = local \cup {cur} /\ Goto(IF orig[cur] = Absent THEN "manifest" ELSE "backup")
      <4>1. orig[cur] = Absent => backup[cur] = orig[cur]
        BY <1>1, <1>2 DEF Copies
      <4> QED  BY <3>2, <4>1, <1>1, <1>3 DEF SaveLocal, Goto, Position, CopySteps, Named
    <3> QED  BY <3>1, <3>2, <1>3 DEF SaveLocal
  <2>3. Loaded' /\ Copies' /\ Lines' /\ Changed'
    BY <1>3, <1>1, <2>1 DEF SaveLocal, Loaded, Copies, Lines, LineOK, Changed, Named
  <2>4. Armed'
    BY <1>3, <1>1 DEF SaveLocal, Armed, Listed, EntryOf, Named
  <2> QED  BY <2>2, <2>3, <2>4
<1>4. CASE SaveBackup
  <2>1. step' # "rm" /\ phase' \notin {"setup", "release"}
    BY <1>4, <1>1 DEF SaveBackup, Goto, GoAbort
  <2>2. backup' = [backup EXCEPT ![cur] = orig[cur]] \/ backup' = backup
    BY <1>4 DEF SaveBackup
  <2>3. Position'
    <3>1. CASE GoAbort(dirty)
      BY <3>1, <1>4, GoAbortPosition DEF SaveBackup
    <3>2. CASE backup' = [backup EXCEPT ![cur] = orig[cur]] /\ Goto("manifest")
      BY <3>2, <1>1, <1>4 DEF SaveBackup, Goto, Position, CopySteps, Named
    <3> QED  BY <3>1, <3>2, <1>4 DEF SaveBackup
  <2>4. Copies'
    BY <1>4, <1>1, <1>2, <2>2 DEF SaveBackup, Copies
  <2>5. Loaded' /\ Lines' /\ Changed'
    BY <1>4, <1>1, <2>1 DEF SaveBackup, Loaded, Lines, LineOK, Changed, Named
  <2>6. Armed'
    BY <1>4, <1>1, <2>2 DEF SaveBackup, Armed, Listed, EntryOf, Named
  <2> QED  BY <2>3, <2>4, <2>5, <2>6
<1>5. CASE AppendManifest
  <2>1. step = "manifest" /\ cur \in local /\ backup[cur] = orig[cur]
    BY <1>5 DEF AppendManifest, Position
  <2>2. manifest' = manifest \/ (AddEntry(cur) /\ manifested' \in {manifested, manifested \cup {cur}})
    BY <1>5 DEF AppendManifest
  <2>3. Position' /\ step' # "rm" /\ phase' \notin {"setup", "release"}
    <3>1. CASE GoAbort(dirty)
      BY <3>1, <1>5, GoAbortPosition DEF AppendManifest, GoAbort
    <3>2. CASE manifested' = manifested \cup {cur} /\ ToSwap
      BY <3>2, <1>1, <1>5, ToSwapMove DEF AppendManifest
    <3> QED  BY <3>1, <3>2, <1>5 DEF AppendManifest
  <2>4. LineOK(EntryOf(cur))
    BY <1>2 DEF LineOK, EntryOf
  <2>5. ASSUME NEW s \in Seq(Entries), \A i \in 1..Len(s) : LineOK(s[i])
        PROVE  \A i \in 1..Len(Append(s, EntryOf(cur))) : LineOK(Append(s, EntryOf(cur))[i])
    <3>1. EntryOf(cur) \in Entries
      BY <1>1 DEF EntryOf, Entries
    <3>2. \A i \in 1..Len(Append(s, EntryOf(cur))) :
            \/ i \in 1..Len(s) /\ Append(s, EntryOf(cur))[i] = s[i]
            \/ Append(s, EntryOf(cur))[i] = EntryOf(cur)
      BY <3>1, AppendLine
    <3> QED  BY <2>4, <2>5, <3>2
  <2>6. Lines'
    <3>1. \A i \in 1..Len(manifest') : LineOK(manifest'[i])
      BY <2>2, <2>5 DEF AddEntry, Lines
    <3>2. \A i \in 1..Len(queue') : LineOK(queue'[i])
      BY <1>5, <2>5 DEF AppendManifest, AddEntry, Lines
    <3> QED  BY <3>1, <3>2, <1>5 DEF AppendManifest, Lines, LineOK
  <2>7. Loaded' /\ Copies' /\ Changed'
    BY <1>5, <1>1, <2>3 DEF AppendManifest, Loaded, Copies, Changed, Named
  <2>8. Armed'
    <3>1. \A u \in Users : EntryOf(u)' = EntryOf(u)
      BY <1>5 DEF AppendManifest, EntryOf
    <3>2. ASSUME NEW e \in Entries, manifest' = Append(manifest, e)
          PROVE  /\ \A i \in 1..Len(manifest) : i \in 1..Len(manifest') /\ manifest'[i] = manifest[i]
                 /\ \E i \in 1..Len(manifest') : manifest'[i] = e
      <4>1. Len(manifest') = Len(manifest) + 1 /\ manifest'[Len(manifest) + 1] = e
        BY <3>2
      <4>2. Len(manifest) + 1 \in 1..Len(manifest')
        BY <4>1
      <4> QED  BY <3>2, <4>1, <4>2
    <3>3. EntryOf(cur) \in Entries
      BY <1>1 DEF EntryOf, Entries
    <3>4. \A u \in manifested : Listed(u)'
      <4>1. CASE manifest' = manifest
        BY <4>1, <2>1, <3>1 DEF Armed, Listed
      <4>2. CASE AddEntry(cur)
        BY <4>2, <2>1, <3>1, <3>2, <3>3 DEF AddEntry, Armed, Listed
      <4> QED  BY <2>2, <4>1, <4>2
    <3>5. \A u \in manifested' : Listed(u)'
      <4>1. CASE manifested' = manifested
        BY <4>1, <3>4
      <4>2. CASE AddEntry(cur) /\ manifested' = manifested \cup {cur}
        BY <4>2, <3>1, <3>2, <3>3, <3>4, <1>1 DEF AddEntry, Listed
      <4> QED  BY <4>1, <4>2, <1>5 DEF AppendManifest
    <3> QED  BY <1>5, <1>1, <2>1, <3>5 DEF AppendManifest, Armed, Named
  <2> QED  BY <2>3, <2>6, <2>7, <2>8
<1>6. CASE Snapshot
  <2>1. Position' /\ step' # "rm" /\ phase' \notin {"setup", "release"}
    <3>1. CASE GoAbort(dirty)
      BY <3>1, <1>6, GoAbortPosition DEF Snapshot, GoAbort
    <3>2. CASE ToSwap
      <4>1. cur \in manifested
        BY <1>6 DEF Snapshot, Position
      <4> QED  BY <3>2, <4>1, <1>1, <1>6, ToSwapMove DEF Snapshot
    <3> QED  BY <3>1, <3>2, <1>6 DEF Snapshot
  <2>2. phase \notin {"setup", "release"} /\ step # "rm"
    BY <1>1
  <2>3. Quiet
    BY <1>6, <2>1, <2>2 DEF Snapshot, Quiet
  <2> QED  BY <2>1, <2>3, QuietStep
<1> QED  BY <1>3, <1>4, <1>5, <1>6

\* A swap changes, at once or later, only the file of a manifested user.
LEMMA SwapLedger ==
    ASSUME Ledger, TypeInv', Swap
    PROVE  Ledger'
<1> USE DEF Ledger
<1>1. Swapping
  BY DEF Swap, SwapAnswered, SwapRefused, SwapLost, SwapLanded, SwapTorn, SwapLate
<1>2. cur \in manifested /\ cur \in Users /\ phase \in {"add", "remove"}
  BY <1>1 DEF Swapping, Writing, Position
<1>3. phase' \notin {"setup", "release"} /\ step' # "rm" /\ step # "rm"
  BY <1>1, <1>2, ToCopyMove
  DEF Swap, SwapAnswered, SwapRefused, SwapLost, SwapLanded, SwapTorn, SwapLate,
      Swapping, GoAbort
<1>4. Position'
  <2>1. CASE GoAbort(dirty')
    BY <2>1, GoAbortPosition
  <2>2. CASE ToCopy(cur)
    BY <2>2, <1>1, <1>2, ToCopyPosition, UsersAssumption DEF Swapping, Users
  <2> QED  BY <2>1, <2>2
           DEF Swap, SwapAnswered, SwapRefused, SwapLost, SwapLanded, SwapTorn, SwapLate
<1>5. Loaded' /\ Copies' /\ Lines'
  BY <1>1, <1>2, <1>3 DEF Swapping, Loaded, Copies, Lines, LineOK, Named
<1>6. Armed'
  <2>1. dirty' \subseteq manifested
    BY <1>2 DEF Swap, SwapAnswered, SwapRefused, SwapLost, SwapLanded, SwapTorn, SwapLate,
                MarkDirty, ClearDirty, Armed
  <2> QED  BY <1>1, <1>3, <2>1 DEF Swapping, Armed, Listed, EntryOf, Named
<1>7. \A p \in Paths : file'[p] = file[p] \/ p = PathOf[cur]
  BY DEF Swap, SwapAnswered, SwapRefused, SwapLost, SwapLanded, SwapTorn, SwapLate, SwapIn
<1>8. \A w \in late' : w \in late \/ w.path = PathOf[cur]
  BY DEF Swap, SwapAnswered, SwapRefused, SwapLost, SwapLanded, SwapTorn, SwapLate
<1>9. Changed'
  BY <1>1, <1>2, <1>7, <1>8 DEF Swapping, Changed
<1> QED  BY <1>4, <1>5, <1>6, <1>9

\* A health check writes nothing.
LEMMA CheckHealthLedger ==
    ASSUME Ledger, TypeInv', CheckHealth
    PROVE  Ledger'
<1>1. phase \in WorkPhases /\ step = "health"
  BY DEF CheckHealth, Ledger
<1>2. dirty' = dirty /\ req' = req /\ manifested' = manifested /\ TypeInv
  BY DEF CheckHealth, Ledger
<1>3. Position'
  <2>1. ASSUME Begin PROVE Position'
    BY <2>1, <1>1, <1>2, ToCopyPosition, StartProbesPosition, ToControlPosition, ToProvePosition
    DEF Begin, WorkPhases
  <2> QED  BY <2>1, <1>2, GoAbortPosition DEF CheckHealth
<1>4. phase' \notin {"setup", "release"}
  BY <1>1, FollowingType
  DEF CheckHealth, Begin, ToCopy, StartProbes, ToControl, ToProve, Enter, Goto, GoAbort, WorkPhases
<1>5. Quiet
  BY <1>1, <1>4 DEF CheckHealth, Quiet, WorkPhases
<1> QED  BY <1>3, <1>5, QuietStep

\* A probe writes nothing.
LEMMA ProbeLedger ==
    ASSUME Ledger, TypeInv', Probe
    PROVE  Ledger'
<1>1. ProbeUnchanged /\ TypeInv
  BY DEF Probe, ProbeAgain, ProbeAdded, ProbeRemoved, PositiveControl, ProveAccess, Ledger
<1>2. dirty' = dirty
  BY <1>1 DEF ProbeUnchanged
<1>3. CASE ProbeAgain
  <2>1. Position'
    BY <1>1, <1>3, StillPosition DEF ProbeAgain, ProbeUnchanged, Ledger
  <2> QED  BY <1>1, <1>3, <2>1, QuietStep DEF ProbeAgain, ProbeUnchanged, Quiet
<1>4. CASE ProbeAdded \/ ProbeRemoved
  <2>1. step = "probe" /\ phase \in {"verifyAdd", "verifyRemove"} /\ (NextProbe \/ GoAbort(dirty))
    BY <1>4 DEF ProbeAdded, ProbeRemoved, Probing
  <2>2. Position' /\ phase' \notin {"setup", "release"}
    <3>1. CASE GoAbort(dirty)
      BY <3>1, <1>1, <1>2, GoAbortPosition DEF GoAbort
    <3>2. CASE Enter(Following(phase))
      BY <3>2, EnterPosition, FollowingType DEF Enter, WorkPhases
    <3>3. CASE UNCHANGED <<phase, step, cur>>
      BY <3>3, <2>1 DEF Position, CopySteps
    <3> QED  BY <2>1, <3>1, <3>2, <3>3 DEF NextProbe
  <2> QED  BY <1>1, <2>1, <2>2, QuietStep DEF ProbeUnchanged, Quiet
<1>5. CASE PositiveControl \/ ProveAccess
  <2>1. step \in {"control", "prove"} /\ SomeKey
    BY <1>5 DEF PositiveControl, ProveAccess, Probing
  <2>2. phase \in WorkPhases
    BY <1>1, <2>1
  <2>3. Position' /\ phase' \notin {"setup", "release"}
    <3>1. CASE GoAbort(dirty)
      BY <3>1, <1>1, <1>2, GoAbortPosition DEF GoAbort
    <3>2. CASE ToProve(cur)
      BY <3>2, <1>1, <1>2, <2>2, ToProvePosition DEF ToProve, Goto, GoAbort, WorkPhases
    <3>3. CASE ToControl(cur)
      BY <3>3, <2>2, ToControlPosition, FollowingType
      DEF ToControl, StartProbes, Enter, WorkPhases
    <3>4. CASE UNCHANGED <<phase, step, cur>>
      BY <3>4, <2>1, <2>2 DEF Position, CopySteps, WorkPhases
    <3> QED  BY <2>1, <3>1, <3>2, <3>3, <3>4 DEF SomeKey
  <2> QED  BY <1>1, <2>1, <2>2, <2>3, QuietStep DEF ProbeUnchanged, Quiet, WorkPhases
<1> QED  BY <1>3, <1>4, <1>5 DEF Probe

\* The marker changes no file, and the cleanup removes entries only once the
\* step is "rm".
LEMMA EndLedger ==
    ASSUME Ledger, TypeInv', WriteMarker \/ CloseStdin \/ AwaitGuard \/ RemoveTxDir \/ Report
    PROVE  Ledger'
<1>1. CASE WriteMarker
  <2>1. Position'
    BY <1>1, GoAbortPosition DEF WriteMarker, Goto, Position, CopySteps, Ledger
  <2> QED  BY <1>1, <2>1, QuietStep DEF WriteMarker, At, Goto, GoAbort, Quiet
<1>2. CASE CloseStdin
  BY <1>2, QuietStep DEF CloseStdin, Goto, Quiet, Position, CopySteps
<1>3. CASE AwaitGuard
  BY <1>3, QuietStep DEF AwaitGuard, Goto, Finish, Quiet, Position, CopySteps
<1>4. CASE RemoveTxDir
  <2>1. Position'
    BY <1>4 DEF RemoveTxDir, Position, CopySteps
  <2>2. Copies'
    BY <1>4 DEF RemoveTxDir, Ledger, Copies
  <2>3. Lines'
    <3>1. \A i \in 1..Len(manifest') : LineOK(manifest'[i])
      <4>1. CASE manifest' = << >>
        BY <4>1
      <4>2. CASE manifest' = manifest
        BY <4>2 DEF Ledger, Lines
      <4> QED  BY <1>4, <4>1, <4>2 DEF RemoveTxDir
    <3> QED  BY <1>4, <3>1 DEF RemoveTxDir, Ledger, Lines, LineOK
  <2>4. Loaded' /\ Armed' /\ Changed'
    BY <1>4 DEF RemoveTxDir, Ledger, Loaded, Armed, Changed, Named
  <2> QED  BY <2>1, <2>2, <2>3, <2>4 DEF Ledger
<1>5. CASE Report
  BY <1>5, QuietStep DEF Report, Quiet, Position, CopySteps
<1> QED  BY <1>1, <1>2, <1>3, <1>4, <1>5

\* A revert touches only the file of a manifested user.
LEMMA AbortLedger ==
    ASSUME Ledger, TypeInv', RevertFile \/ ReadBack \/ Disarm \/ HangUp
    PROVE  Ledger'
<1>1. CASE RevertFile
  <2>1. cur \in dirty /\ cur \in manifested /\ cur \in Users /\ step # "rm" /\ phase = "abort"
    BY <1>1 DEF RevertFile, Reverting, At, Ledger, Position, Armed
  <2>2. Position'
    BY <1>1, <2>1, NextRevertPosition
    DEF RevertFile, RevertUnanswered, Goto, Position, CopySteps, Ledger
  <2>3. phase' = "abort" /\ step' # "rm"
    BY <1>1, <2>1 DEF RevertFile, RevertUnanswered, Goto, NextRevert
  <2>4. /\ \A p \in Paths : file'[p] = file[p] \/ p = PathOf[cur]
        /\ \A w \in late' : w \in late \/ w.path = PathOf[cur]
    BY <1>1 DEF RevertFile, RevertUnanswered, SwapIn, Ledger
  <2>5. Changed'
    BY <1>1, <2>1, <2>4 DEF RevertFile, Ledger, Changed
  <2>6. Loaded' /\ Copies' /\ Lines' /\ Armed'
    BY <1>1, <2>1, <2>3
    DEF RevertFile, Ledger, Loaded, Copies, Lines, LineOK, Armed, Listed, EntryOf, Named
  <2> QED  BY <2>2, <2>5, <2>6 DEF Ledger
<1>2. CASE ReadBack
  <2>1. Position'
    BY <1>2, NextRevertPosition DEF ReadBack, Ledger
  <2> QED  BY <1>2, <2>1, QuietStep DEF ReadBack, At, NextRevert, Quiet
<1>3. CASE Disarm
  BY <1>3, QuietStep DEF Disarm, Reverted, At, Goto, Quiet, Position, CopySteps
<1>4. CASE HangUp
  BY <1>4, QuietStep, StillPosition DEF HangUp, Quiet, Ledger
<1> QED  BY <1>1, <1>2, <1>3, <1>4

\* The environment changes only files that a late swap may change.
LEMMA EnvironmentLedger ==
    ASSUME Ledger, TypeInv', GuardExitSeen \/ Drop \/ Crash \/ Deny \/ LandLate
    PROVE  Ledger'
<1>1. Position'
  BY StillPosition DEF GuardExitSeen, Drop, Crash, Deny, LandLate, Ledger, Finish
<1>2. CASE GuardExitSeen \/ Drop \/ Crash \/ Deny
  BY <1>1, <1>2, QuietStep DEF GuardExitSeen, Drop, Crash, Deny, Quiet
<1>3. CASE LandLate
  <2>1. PICK w \in late : file' = [file EXCEPT ![w.path] = w.content] /\ late' = late \ {w}
    BY <1>3 DEF LandLate
  <2>2. late # {}
    BY <2>1
  <2>3. phase \notin {"setup", "release"}
    BY <2>2 DEF Ledger, Loaded
  <2>4. Changed'
    BY <1>3, <2>1 DEF LandLate, Ledger, Changed
  <2>5. Loaded' /\ Copies' /\ Lines' /\ Armed'
    BY <1>3, <2>3
    DEF LandLate, Ledger, Loaded, Copies, Lines, LineOK, Armed, Listed, EntryOf, Named
  <2> QED  BY <1>1, <2>4, <2>5 DEF Ledger
<1> QED  BY <1>2, <1>3

\* What one line makes of its file is what was there, or what is.
LEMMA RestoredIsOriginal ==
    ASSUME Copies, NEW e \in Entries, LineOK(e)
    PROVE  RestoredContent(e) \in {file[PathOf[e.user]], before[PathOf[e.user]]}
<1>1. e.user \in Users /\ e.typ \in {"A", "F"}
  BY DEF Entries
<1> QED  BY <1>1 DEF Copies, LineOK, RestoredContent

\* The line that the trap reads next is in order, and so are those after it.
LEMMA HeadLineOK ==
    ASSUME TypeInv, Lines, queue # << >>
    PROVE  /\ Head(queue) \in Entries /\ LineOK(Head(queue))
           /\ \A i \in 1..Len(Tail(queue)) : LineOK(Tail(queue)[i])
<1>1. queue \in Seq(Entries) /\ \A i \in 1..Len(queue) : LineOK(queue[i])
  BY DEF Lines
<1>2. Head(queue) = queue[1] /\ 1 \in 1..Len(queue)
  BY <1>1
<1>3. \A i \in 1..Len(Tail(queue)) : i + 1 \in 1..Len(queue) /\ Tail(queue)[i] = queue[i + 1]
  BY <1>1
<1> QED  BY <1>1, <1>2, <1>3

\* The trap changes only files back to their originals.
LEMMA GuardLedger ==
    ASSUME Ledger, TypeInv', TrapStep \/ GuardFault, UNCHANGED asideVars
    PROVE  Ledger'
<1>1. UNCHANGED <<req, phase, step, cur, orig, manifested, local, dirty, late, before, backup, manifest>>
  BY DEF TrapStep, GuardFault, TrapOnEOF, TrapOnSignal, EnterRestore, RestoreEntry, RestoreDone,
         KillGuard, asideVars
<1>2. Position'
  BY <1>1, StillPosition DEF Ledger
<1>3. Copies' /\ Armed'
  BY <1>1 DEF Ledger, Copies, Armed, Listed, EntryOf, Named
<1>4. CASE EnterRestore
  <2>1. Lines' /\ Loaded' /\ Changed'
    BY <1>1, <1>4 DEF EnterRestore, Ledger, Lines, LineOK, Loaded, Changed, Named
  <2> QED  BY <1>2, <1>3, <2>1 DEF Ledger
<1>5. CASE RestoreEntry
  <2>1. Head(queue) \in Entries /\ LineOK(Head(queue))
    BY <1>5, HeadLineOK DEF RestoreEntry, Ledger
  <2>2. \A p \in Paths : file'[p] \in {file[p], before[p]}
    BY <1>5, <2>1, RestoredIsOriginal DEF RestoreEntry, Ledger
  <2>3. Lines'
    BY <1>1, <1>5, HeadLineOK DEF RestoreEntry, Ledger, Lines, LineOK
  <2>4. Changed'
    BY <1>1, <2>2 DEF Ledger, Changed
  <2>5. Loaded'
    <3>1. file = before => file' = before
      BY <1>1, <1>5, <2>2 DEF RestoreEntry, Ledger
    <3> QED  BY <1>1, <3>1 DEF Ledger, Loaded, Named
  <2> QED  BY <1>2, <1>3, <2>3, <2>4, <2>5 DEF Ledger
<1>6. CASE RestoreDone \/ KillGuard
  BY <1>1, <1>2, <1>6, QuietStep DEF RestoreDone, KillGuard, Quiet
<1> QED  BY <1>4, <1>5, <1>6 DEF TrapStep, GuardFault, TrapOnEOF, TrapOnSignal

\* Every step keeps the ledger.
LEMMA LedgerStep == Ledger /\ [Next]_vars => Ledger'
<1> SUFFICES ASSUME Ledger, [Next]_vars PROVE Ledger'
  OBVIOUS
<1>1. TypeInv'
  BY StepType DEF Ledger
<1>2. CASE Client
  BY <1>1, <1>2, SetupLedger, CopyLedger, SwapLedger, CheckHealthLedger, ProbeLedger,
     EndLedger, AbortLedger DEF Client
<1>3. CASE Script
  BY <1>1, <1>3, GuardLedger, ScriptAside
<1>4. CASE GuardExitSeen \/ Drop \/ Crash \/ Deny \/ LandLate
  BY <1>1, <1>4, EnvironmentLedger
<1>5. CASE UNCHANGED vars
  BY <1>1, <1>5, QuietStep, StillPosition DEF vars, Quiet, Ledger
<1> QED  BY <1>2, <1>3, <1>4, <1>5 DEF Next, Environment, Rest, Script

\* The ledger is in order in every reachable state: whatever the client and the
\* environment do, only files of manifested users change, and each of these has its
\* local copy, its backup and its manifest line (tx.ensureCAS before tx.swap).
THEOREM LedgerInvariant == Spec => []Ledger
  BY LedgerInit, LedgerStep, PTL DEF Spec

\* The ledger names, for every file that has changed, the line that undoes it.
LEMMA LedgerCovers == Ledger => WriteAhead
<1> SUFFICES ASSUME Ledger, step # "rm", NEW p \in Paths, file[p] # before[p]
             PROVE  Covered(p)
  BY DEF WriteAhead
<1>1. PICK u \in manifested : PathOf[u] = p
  BY DEF Ledger, Changed
<1>2. u \in Named /\ u \in local /\ backup[u] = orig[u] /\ Listed(u)
  BY <1>1 DEF Ledger, Armed
<1>3. orig[u] = before[p]
  BY <1>1, <1>2 DEF Ledger, Loaded
<1>4. PICK i \in 1..Len(manifest) : manifest[i] = EntryOf(u)
  BY <1>2 DEF Listed
<1>5. Sound(EntryOf(u))
  BY <1>1, <1>2, <1>3 DEF Sound, EntryOf
<1> QED  BY <1>1, <1>2, <1>4, <1>5 DEF Covered, EntryOf

\* The copy comes before the swap, for any number of users and whatever fails:
\* every changed file is named by a manifest line that restores it, and its original
\* is saved locally (tx.ensureCAS).
THEOREM WriteAheadHolds == Spec => []WriteAhead
  BY LedgerInvariant, LedgerCovers, PTL

\* One line of a restoring trap writes the original of its file or nothing.
LEMMA TrapStepRestores ==
    ASSUME TypeInv, Copies, Lines, RestoreEntry
    PROVE  \A p \in Paths : file'[p] \in {file[p], before[p]}
<1>1. Head(queue) \in Entries /\ LineOK(Head(queue))
  BY HeadLineOK DEF RestoreEntry
<1> QED  BY <1>1, RestoredIsOriginal DEF RestoreEntry

\* The trap writes nothing but pre-transaction content, whenever it fires and
\* whatever the client is doing at the time (guard.go restore_all).
THEOREM TrapRestoresTheOriginal == Spec => TrapRestoresOriginal
<1>1. Ledger => [RestoreEntry => \A p \in Paths : file'[p] \in {file[p], before[p]}]_vars
  BY TrapStepRestores DEF Ledger
<1> QED  BY <1>1, LedgerInvariant, PTL DEF TrapRestoresOriginal
HIDE DEF ActiveSteps, TypeInv, TypeOK, GuardTypeOK

----------------------------------------------------------------------------
(* The order of additions and removals.                                    *)

AllProven == AddPairs \subseteq proven

\* Content c of path p holds every key that p held before.
Keeps(c, p) == KeysIn(before[p]) \subseteq KeysIn(c)

\* No key is gone, and none goes by a late swap or by the working copies.
Intact ==
    /\ \A p \in Paths : Keeps(file[p], p)
    /\ \A w \in late : Keeps(w.content, w.path)
    /\ phase \notin {"setup", "release"} =>
        \A u \in Named : KeysIn(before[PathOf[u]]) \subseteq work[u]

\* What the phases have proven, and what verifyAdd has still to prove.
Probed ==
    /\ phase \in {"remove", "verifyRemove", "cleanup"} => AllProven
    /\ phase = "verifyAdd" => step \in {"health", "probe"}
    /\ phase = "verifyAdd" /\ step = "probe" => AddPairs \subseteq proven \cup todo
    /\ step \in ProbeSteps => phase \in {"verifyAdd", "verifyRemove", "cleanup"}

\* The inductive invariant, next to Ledger.
Order == Probed /\ (AllProven \/ Intact)

\* What has been proven stays proven.
LEMMA StaysProven ==
    ASSUME AllProven, req' = req, proven \subseteq proven'
    PROVE  AllProven'
  BY DEF AllProven, AddPairs

\* A step that changes no content keeps the keys.
LEMMA StaysIntact ==
    ASSUME AllProven \/ Intact, UNCHANGED <<file, late, work, req, before>>,
           proven \subseteq proven',
           phase \in {"setup", "release"} => phase' \in {"setup", "release"}
    PROVE  (AllProven \/ Intact)'
<1>1. CASE AllProven
  BY <1>1, StaysProven
<1>2. CASE Intact
  BY <1>2 DEF Intact, Keeps, Named
<1> QED  BY <1>1, <1>2

----------------------------------------------------------------------------
(* The moves of the client.                                                *)

\* Aborting, there is nothing to prove any more.
LEMMA GoAbortProbed ==
    ASSUME NEW d, GoAbort(d)
    PROVE  Probed'
  BY DEF GoAbort, Probed, ProbeSteps

\* A step that leaves the client where it is.
LEMMA StillProbed ==
    ASSUME Probed, UNCHANGED <<phase, step, todo, req>>, proven \subseteq proven'
    PROVE  Probed'
  BY StaysProven DEF Probed, AllProven, AddPairs

\* The next file of a phase that writes, or the phase that follows it.
LEMMA ToCopyProbed ==
    ASSUME Probed, phase \in {"add", "remove"}, NEW u, ToCopy(u),
           UNCHANGED <<req, proven>>
    PROVE  Probed'
<1>1. phase = "remove" => AllProven'
  BY StaysProven DEF Probed
<1>2. CASE After(u, PhaseUsers) \in Users
  BY <1>1, <1>2 DEF ToCopy, Probed, ProbeSteps
<1>3. CASE Enter(Following(phase))
  <2>1. phase = "add" => Following(phase) = "verifyAdd"
    BY DEF Following
  <2>2. phase = "remove" => Following(phase) = "verifyRemove"
    BY DEF Following
  <2> QED  BY <1>1, <1>3, <2>1, <2>2 DEF Enter, Probed, ProbeSteps
<1> QED  BY <1>2, <1>3 DEF ToCopy

\* Verifying removals comes after the additions are proven, and so does what
\* follows it.
LEMMA ToControlProbed ==
    ASSUME Probed, phase = "verifyRemove", NEW u, ToControl(u),
           req' = req, proven \subseteq proven'
    PROVE  Probed'
<1>1. AllProven'
  BY StaysProven DEF Probed
<1>2. phase' \in {"verifyRemove", "cleanup"}
  <2>1. Following("verifyRemove") = "cleanup"
    BY DEF Following
  <2> QED  BY <2>1 DEF ToControl, StartProbes, Enter
<1> QED  BY <1>1, <1>2 DEF Probed, ProbeSteps

\* So does the cleanup.
LEMMA ToProveProbed ==
    ASSUME Probed, phase = "cleanup", NEW u, ToProve(u),
           req' = req, proven \subseteq proven'
    PROVE  Probed'
<1>1. AllProven'
  BY StaysProven DEF Probed
<1>2. phase' = "cleanup" \/ GoAbort(dirty)
  BY DEF ToProve, Goto
<1> QED  BY <1>1, <1>2, GoAbortProbed DEF Probed, ProbeSteps

\* What follows the verification of the additions.
LEMMA AfterVerifyAdd ==
    ASSUME Enter(Following("verifyAdd")), AllProven'
    PROVE  Probed'
<1>1. Following("verifyAdd") \in {"remove", "cleanup"}
  BY DEF Following
<1> QED  BY <1>1 DEF Enter, Probed, ProbeSteps

----------------------------------------------------------------------------
(* The steps.                                                              *)

\* Until the files are loaded nothing is written; the working copies then hold
\* what the files hold, and without additions there is nothing to prove.
LEMMA SetupOrder ==
    ASSUME Ledger, Order, Validate \/ Connect \/ ConnectFails \/ Load \/ LoadFails
    PROVE  Order'
<1>1. CASE Validate \/ Connect \/ ConnectFails \/ LoadFails
  <2>1. phase' \in {"setup", "release"} /\ step' \in {"validate", "connect", "load", "close"}
    BY <1>1 DEF Validate, Connect, ConnectFails, LoadFails, At, Goto, Finish
  <2>2. Probed'
    BY <2>1 DEF Probed, ProbeSteps
  <2>3. UNCHANGED <<file, late, work, req, before, proven>>
    BY <1>1 DEF Validate, Connect, ConnectFails, LoadFails
  <2> QED  BY <2>1, <2>2, <2>3, StaysIntact DEF Order
<1>2. CASE Load
  <2>1. file = before /\ late = {}
    BY <1>2 DEF Load, At, Ledger, Loaded
  <2>2. UNCHANGED <<file, late, req, before, proven>>
    BY <1>2 DEF Load
  <2>3. \A u \in Named : work'[u] = KeysIn(before[PathOf[u]])
    <3>1. Named \subseteq Users
      BY DEF Named
    <3> QED  BY <1>2, <2>1, <3>1 DEF Load
  <2>4. Intact'
    BY <2>1, <2>2, <2>3 DEF Intact, Keeps, Named
  <2>5. Probed'
    <3>1. CASE req.dryRun
      BY <1>2, <3>1 DEF Load, Probed, ProbeSteps
    <3>2. CASE Enter("add")
      BY <3>2 DEF Enter, Probed, ProbeSteps
    <3>3. CASE Adders = {} /\ Enter("remove")
      <4>1. AddPairs = {}
        BY <3>3 DEF Adders, AddPairs
      <4>2. AllProven'
        BY <2>2, <4>1 DEF AllProven, AddPairs
      <4> QED  BY <3>3, <4>2 DEF Enter, Probed, ProbeSteps
    <3>4. Following("load") = IF Adders # {} THEN "add" ELSE "remove"
      BY DEF Following
    <3> QED  BY <1>2, <3>1, <3>2, <3>3, <3>4 DEF Load
  <2> QED  BY <2>4, <2>5 DEF Order
<1> QED  BY <1>1, <1>2

\* Copies are no content of a file.
LEMMA CopyOrder ==
    ASSUME Order, SaveLocal \/ SaveBackup \/ AppendManifest \/ Snapshot
    PROVE  Order'
<1>1. phase \in {"add", "remove"} /\ UNCHANGED <<file, late, work, req, before, proven>>
  BY DEF SaveLocal, SaveBackup, AppendManifest, Snapshot, Writing
<1>2. \/ GoAbort(dirty)
      \/ \E s \in {"manifest", "backup", "swap"} : Goto(s)
      \/ ToCopy(cur)
  BY DEF SaveLocal, SaveBackup, AppendManifest, Snapshot, ToSwap
<1>3. Probed'
  <2>1. ASSUME NEW s \in {"manifest", "backup", "swap"}, Goto(s) PROVE Probed'
    BY <1>1, <2>1, StaysProven DEF Goto, Order, Probed, ProbeSteps
  <2> QED  BY <1>1, <1>2, <2>1, GoAbortProbed, ToCopyProbed DEF Order
<1> QED  BY <1>1, <1>3, StaysIntact DEF Order

\* Before the additions are proven a swap only adds to what a file held.
LEMMA SwapOrder ==
    ASSUME "torn" \notin Faults, Ledger, Order, Swap
    PROVE  Order'
<1>1. Swapping
  BY DEF Swap, SwapAnswered, SwapRefused, SwapLost, SwapLanded, SwapTorn, SwapLate
<1>2. /\ phase \in {"add", "remove"} /\ cur \in Users /\ cur \in Named
      /\ UNCHANGED <<req, before, proven, orig>>
      /\ work' = [work EXCEPT ![cur] = Edited(cur)]
  BY <1>1 DEF Swapping, Writing, Ledger, Position, CopySteps
<1>3. Probed'
  <2>1. CASE GoAbort(dirty')
    BY <2>1, GoAbortProbed
  <2>2. CASE ToCopy(cur)
    BY <2>2, <1>2, ToCopyProbed DEF Order
  <2> QED  BY <2>1, <2>2
           DEF Swap, SwapAnswered, SwapRefused, SwapLost, SwapLanded, SwapTorn, SwapLate
<1>4. CASE AllProven
  BY <1>2, <1>3, <1>4, StaysProven DEF Order
<1>5. CASE phase = "add" /\ Intact
  <2> USE WholeArrivals
  <2>1. /\ work'[cur] \in SUBSET Keys
        /\ KeysIn(before[PathOf[cur]]) \subseteq work'[cur]
        /\ \A u \in Users : u # cur => work'[u] = work[u]
    <3>1. work[cur] \in SUBSET Keys /\ req.add[cur] \in SUBSET Keys
      BY <1>2 DEF Ledger, TypeInv, TypeOK, Request
    <3>2. KeysIn(before[PathOf[cur]]) \subseteq work[cur]
      BY <1>2, <1>5 DEF Intact
    <3>3. work'[cur] = work[cur] \cup req.add[cur]
      BY <1>2, <1>5 DEF Edited, Ledger, TypeInv, TypeOK
    <3>4. \A u \in Users : u # cur => work'[u] = work[u]
      BY <1>2 DEF Ledger, TypeInv, TypeOK
    <3> QED  BY <3>1, <3>2, <3>3, <3>4
  <2>2. KeysIn(work'[cur]) = work'[cur]
    BY <2>1, AbsentAssumption DEF KeysIn
  <2>3. \A p \in Paths : file'[p] = file[p] \/ (p = PathOf[cur] /\ file'[p] = work'[cur])
    BY DEF Swap, SwapAnswered, SwapRefused, SwapLost, SwapLanded, SwapTorn, SwapLate, SwapIn,
           Ledger, TypeInv, TypeOK, GuardTypeOK
  <2>4. \A w \in late' : w \in late \/ (w.path = PathOf[cur] /\ w.content = work'[cur])
    BY DEF Swap, SwapAnswered, SwapRefused, SwapLost, SwapLanded, SwapTorn, SwapLate
  <2>5. \A p \in Paths : Keeps(file[p], p)' 
    BY <1>2, <1>5, <2>1, <2>2, <2>3 DEF Intact, Keeps
  <2>6. \A w \in late' : KeysIn(before'[w.path]) \subseteq KeysIn(w.content)
    BY <1>2, <1>5, <2>1, <2>2, <2>4 DEF Intact, Keeps
  <2>7. \A u \in Named' : KeysIn(before'[PathOf[u]]) \subseteq work'[u]
    <3>1. Named' = Named /\ Named \subseteq Users
      BY <1>2 DEF Named
    <3> QED  BY <1>2, <1>5, <2>1, <3>1 DEF Intact
  <2>8. Intact'
    BY <2>5, <2>6, <2>7 DEF Intact, Keeps
  <2> QED  BY <1>3, <2>8 DEF Order
<1> QED  BY <1>2, <1>4, <1>5 DEF Order, Probed

\* A health check begins its phase, or aborts.
LEMMA CheckHealthOrder ==
    ASSUME Ledger, Order, CheckHealth
    PROVE  Order'
<1>1. /\ phase \in WorkPhases /\ Probed
      /\ UNCHANGED <<file, late, work, req, before, proven>>
  BY DEF CheckHealth, Ledger, TypeInv, Order, ActiveSteps
<1>2. ASSUME Begin PROVE Probed' /\ phase' \notin {"setup", "release"}
  <2>1. CASE phase \in {"add", "remove"}
    BY <1>1, <1>2, <2>1, ToCopyProbed, ToCopyMove DEF Begin
  <2>2. CASE phase = "verifyAdd"
    <3>1. StartProbes(AddPairs)
      BY <1>2, <2>2 DEF Begin
    <3>2. CASE AddPairs = {}
      <4>1. AllProven' /\ Following("verifyAdd") \in WorkPhases
        BY <1>1, <3>2, FollowingType DEF AllProven, AddPairs
      <4> QED  BY <2>2, <3>1, <3>2, <4>1, AfterVerifyAdd DEF StartProbes, Enter, WorkPhases
    <3>3. CASE AddPairs # {}
      <4>1. step' = "probe" /\ todo' = AddPairs /\ phase' = "verifyAdd"
        BY <2>2, <3>1, <3>3 DEF StartProbes
      <4>2. AddPairs' = AddPairs
        BY <1>1 DEF AddPairs
      <4> QED  BY <4>1, <4>2 DEF Probed, ProbeSteps
    <3> QED  BY <3>2, <3>3
  <2>3. CASE phase = "verifyRemove"
    BY <1>1, <1>2, <2>3, ToControlProbed, FollowingType
    DEF Begin, ToControl, StartProbes, Enter, WorkPhases
  <2>4. CASE phase = "cleanup"
    BY <1>1, <1>2, <2>4, ToProveProbed DEF Begin, ToProve, Goto, GoAbort
  <2> QED  BY <1>1, <2>1, <2>2, <2>3, <2>4 DEF WorkPhases
<1>3. Probed' /\ phase' \notin {"setup", "release"}
  BY <1>2, GoAbortProbed DEF CheckHealth, GoAbort
<1>4. (AllProven \/ Intact)'
  BY <1>1, <1>3, StaysIntact DEF Order, WorkPhases
<1> QED  BY <1>3, <1>4 DEF Order

\* An addition leaves the list of those to prove only once it is proven, and what
\* follows verifyAdd begins only when the list is empty.
LEMMA AddedOrder ==
    ASSUME Order, ProbeAdded
    PROVE  Probed'
<1>1. /\ phase = "verifyAdd" /\ step = "probe" /\ req' = req
      /\ todo # {} /\ AddPairs \subseteq proven \cup todo /\ AddPairs' = AddPairs
  BY DEF ProbeAdded, Probing, ProbeUnchanged, Order, Probed, AddPairs
<1>2. CASE GoAbort(dirty)
  BY <1>2, GoAbortProbed
<1>3. CASE NextProbe /\ Witness
  <2>1. proven' = proven \cup {Current}
    BY <1>3 DEF Witness
  <2>2. CASE todo = {Current}
    <3>1. AllProven'
      BY <1>1, <2>1, <2>2 DEF AllProven
    <3> QED  BY <1>1, <1>3, <2>2, <3>1, AfterVerifyAdd DEF NextProbe
  <2>3. CASE todo # {Current}
    <3>1. todo' = todo \ {Current} /\ UNCHANGED <<phase, step>>
      BY <1>3, <2>3 DEF NextProbe
    <3>2. AddPairs' \subseteq proven' \cup todo'
      BY <1>1, <2>1, <3>1
    <3> QED  BY <1>1, <3>1, <3>2 DEF Probed, ProbeSteps
  <2> QED  BY <2>2, <2>3
<1> QED  BY <1>2, <1>3 DEF ProbeAdded

\* No probe opens a phase that removes keys before the additions are proven.
LEMMA ProbeOrder ==
    ASSUME Ledger, Order, Probe
    PROVE  Order'
<1>1. ProbeUnchanged /\ Probed
  BY DEF Probe, ProbeAgain, ProbeAdded, ProbeRemoved, PositiveControl, ProveAccess, Order
<1>2. proven \subseteq proven'
  BY DEF Probe, ProbeAgain, ProbeAdded, ProbeRemoved, PositiveControl, ProveAccess, SomeKey, Witness
<1>3. UNCHANGED <<file, late, work, req, before>>
  BY <1>1 DEF ProbeUnchanged
<1>4. ASSUME phase \in {"verifyRemove", "cleanup"}, SomeKey PROVE Probed'
  <2>1. CASE GoAbort(dirty)
    BY <2>1, GoAbortProbed
  <2>2. CASE phase = "cleanup" /\ ToProve(cur)
    BY <1>1, <1>2, <1>3, <2>2, ToProveProbed
  <2>3. CASE phase = "verifyRemove" /\ ToControl(cur)
    BY <1>1, <1>2, <1>3, <2>3, ToControlProbed
  <2>4. CASE UNCHANGED <<phase, step, cur>>
    <3>1. AllProven'
      BY <1>1, <1>2, <1>3, <1>4, StaysProven DEF Probed
    <3> QED  BY <1>1, <1>4, <2>4, <3>1 DEF Probed, ProbeSteps
  <2> QED  BY <1>4, <2>1, <2>2, <2>3, <2>4 DEF SomeKey
<1>5. Probed'
  <2>1. CASE ProbeAgain
    BY <1>1, <1>2, <1>3, <2>1, StillProbed DEF ProbeAgain
  <2>2. CASE ProbeAdded
    BY <2>2, AddedOrder
  <2>3. CASE ProbeRemoved
    <3>1. phase = "verifyRemove" /\ step = "probe"
      BY <2>3 DEF ProbeRemoved, Probing
    <3>2. AllProven'
      BY <1>1, <1>2, <1>3, <3>1, StaysProven DEF Probed
    <3>3. Following("verifyRemove") = "cleanup"
      BY DEF Following
    <3> QED  BY <2>3, <3>1, <3>2, <3>3, GoAbortProbed
             DEF ProbeRemoved, NextProbe, Enter, Probed, ProbeSteps
  <2>4. CASE PositiveControl \/ ProveAccess
    <3>1. step \in {"control", "prove"} /\ SomeKey
      BY <2>4 DEF PositiveControl, ProveAccess, Probing
    <3>2. phase \in {"verifyRemove", "cleanup"}
      BY <1>1, <3>1 DEF Probed, ProbeSteps
    <3> QED  BY <1>4, <3>1, <3>2
  <2> QED  BY <2>1, <2>2, <2>3, <2>4 DEF Probe
<1>6. phase \in {"setup", "release"} => phase' \in {"setup", "release"}
  <2>1. step \in ProbeSteps \/ UNCHANGED phase
    BY DEF Probe, ProbeAgain, ProbeAdded, ProbeRemoved, PositiveControl, ProveAccess, Probing,
           ProbeSteps
  <2> QED  BY <1>1, <2>1 DEF Probed
<1>7. (AllProven \/ Intact)'
  BY <1>2, <1>3, <1>6, StaysIntact DEF Order
<1> QED  BY <1>5, <1>7 DEF Order

\* The end of a run touches no file.
LEMMA EndOrder ==
    ASSUME Order, WriteMarker \/ CloseStdin \/ AwaitGuard \/ RemoveTxDir \/ Report
    PROVE  Order'
<1>1. UNCHANGED <<file, late, work, req, before, proven>>
  BY DEF WriteMarker, CloseStdin, AwaitGuard, RemoveTxDir, Report
<1>2. \/ UNCHANGED <<phase, step, todo>>
      \/ phase = "cleanup" /\ GoAbort(dirty)
      \/ /\ step \in {"marker", "close", "wait"}
         /\ phase' = phase /\ step' \in {"close", "wait", "rm"}
  BY DEF WriteMarker, CloseStdin, AwaitGuard, RemoveTxDir, Report, At, Goto
<1>3. Probed'
  <2>1. CASE UNCHANGED <<phase, step, todo>>
    BY <1>1, <2>1, StillProbed DEF Order
  <2>2. CASE GoAbort(dirty)
    BY <2>2, GoAbortProbed
  <2>3. CASE /\ step \in {"marker", "close", "wait"}
             /\ phase' = phase /\ step' \in {"close", "wait", "rm"}
    BY <1>1, <2>3, StaysProven DEF Order, Probed, ProbeSteps
  <2> QED  BY <1>2, <2>1, <2>2, <2>3
<1>4. phase \in {"setup", "release"} => phase' \in {"setup", "release"}
  BY <1>2
<1> QED  BY <1>1, <1>3, <1>4, StaysIntact DEF Order

\* A revert that is not torn writes the original, at once or later.
LEMMA WholeRevert ==
    ASSUME "torn" \notin Faults, Ledger, RevertFile
    PROVE  /\ \A p \in Paths : file'[p] \in {file[p], before[p]}
           /\ \A w \in late' : w \in late \/ w.content = before[w.path]
<1>1. orig[cur] = before[PathOf[cur]]
  BY DEF RevertFile, Reverting, At, Ledger, Position, Armed, Loaded
<1>2. UNCHANGED file \/ SwapIn(orig[cur])
  BY WholeArrivals DEF RevertFile, RevertUnanswered
<1>3. late' = late \/ late' = late \cup {[path |-> PathOf[cur], content |-> orig[cur]]}
  BY WholeArrivals DEF RevertFile, RevertUnanswered
<1> QED  BY <1>1, <1>2, <1>3 DEF SwapIn, Ledger, TypeInv, TypeOK, GuardTypeOK

\* A revert puts back all the keys that were there before.
LEMMA AbortOrder ==
    ASSUME "torn" \notin Faults, Ledger, Order, RevertFile \/ ReadBack \/ Disarm \/ HangUp
    PROVE  Order'
<1>1. /\ phase = "abort" /\ UNCHANGED <<phase, work, req, before, proven>>
      /\ step' \in {step, "revert", "readback", "close"}
  BY DEF RevertFile, RevertUnanswered, ReadBack, Disarm, HangUp, Reverting, Reverted, At, Goto,
         NextRevert
<1>2. Probed'
  BY <1>1 DEF Order, Probed, ProbeSteps
<1>3. CASE UNCHANGED <<file, late>>
  BY <1>1, <1>2, <1>3, StaysIntact DEF Order
<1>4. CASE RevertFile
  <2>1. Intact => Intact'
    BY <1>1, <1>4, WholeRevert DEF Intact, Keeps, Named
  <2> QED  BY <1>1, <1>2, <2>1, StaysProven DEF Order
<1> QED  BY <1>3, <1>4 DEF ReadBack, Disarm, HangUp

\* What lands late holds the keys that were there before.
LEMMA EnvironmentOrder ==
    ASSUME Ledger, Order, GuardExitSeen \/ Drop \/ Crash \/ Deny \/ LandLate
    PROVE  Order'
<1>1. UNCHANGED <<phase, step, todo, work, req, before, proven>>
  BY DEF GuardExitSeen, Drop, Crash, Deny, LandLate, Finish
<1>2. Probed'
  BY <1>1, StillProbed DEF Order
<1>3. CASE UNCHANGED <<file, late>>
  BY <1>1, <1>2, <1>3, StaysIntact DEF Order
<1>4. CASE LandLate
  <2>1. PICK w \in late : file' = [file EXCEPT ![w.path] = w.content] /\ late' = late \ {w}
    BY <1>4 DEF LandLate
  <2>2. ASSUME Intact PROVE Intact'
    <3>1. \A p \in Paths : KeysIn(before[p]) \subseteq KeysIn(file'[p])
      BY <2>1, <2>2 DEF Intact, Keeps, Ledger, TypeInv, TypeOK, GuardTypeOK
    <3> QED  BY <1>1, <2>1, <2>2, <3>1 DEF Intact, Keeps, Named
  <2> QED  BY <1>1, <1>2, <2>2, StaysProven DEF Order
<1> QED  BY <1>3, <1>4 DEF GuardExitSeen, Drop, Crash, Deny, Finish

\* So does what the trap puts back.
LEMMA GuardOrder ==
    ASSUME Ledger, Order, TrapStep \/ GuardFault, UNCHANGED asideVars
    PROVE  Order'
<1>1. UNCHANGED <<phase, step, todo, late, work, req, before, proven>>
  BY DEF asideVars
<1>2. Probed'
  BY <1>1, StillProbed DEF Order
<1>3. CASE RestoreEntry
  <2>1. \A p \in Paths : file'[p] \in {file[p], before[p]}
    BY <1>3, TrapStepRestores DEF Ledger
  <2>2. Intact => Intact'
    BY <1>1, <2>1 DEF Intact, Keeps, Named
  <2> QED  BY <1>1, <1>2, <2>2, StaysProven DEF Order
<1>4. CASE UNCHANGED file
  BY <1>1, <1>2, <1>4, StaysIntact DEF Order
<1> QED  BY <1>3, <1>4
         DEF TrapStep, GuardFault, TrapOnEOF, TrapOnSignal, EnterRestore, RestoreDone, KillGuard

----------------------------------------------------------------------------
(* The theorem.                                                            *)

\* To begin with every file holds what it held before.
LEMMA OrderInit == Init => Order
  BY DEF Init, Order, Probed, ProbeSteps, Intact, Keeps

\* Every step keeps the order.
LEMMA OrderStep ==
    ASSUME "torn" \notin Faults, Ledger, Order, [Next]_vars
    PROVE  Order'
<1>1. CASE Client
  BY <1>1, SetupOrder, CopyOrder, SwapOrder, CheckHealthOrder, ProbeOrder, EndOrder, AbortOrder
  DEF Client
<1>2. CASE Script
  BY <1>2, GuardOrder, ScriptAside
<1>3. CASE GuardExitSeen \/ Drop \/ Crash \/ Deny \/ LandLate
  BY <1>3, EnvironmentOrder
<1>4. CASE UNCHANGED vars
  BY <1>4, StillProbed, StaysIntact DEF vars, Order
<1> QED  BY <1>1, <1>2, <1>3, <1>4 DEF Next, Environment, Rest, Script

\* In order, no key is missing from a file before the additions are proven.
LEMMA OrderedRemoval == Order => RemovalAfterProof
  BY DEF Order, AllProven, Intact, Keeps, RemovalAfterProof

\* Additions land and are proven before anything is removed (tx.Run), for any number
\* of users and any fault, on the host, the connection or the client, but one: the
\* connection that ends inside a swap and leaves a part of the new content.
THEOREM AdditionsComeFirst ==
    ASSUME "torn" \notin Faults
    PROVE  Spec => []RemovalAfterProof
<1>1. Ledger /\ Order /\ [Next]_vars => Order'
  BY OrderStep
<1> QED  BY <1>1, OrderInit, OrderedRemoval, LedgerInvariant, PTL DEF Spec

----------------------------------------------------------------------------
(* What a commit rests on.                                                 *)

\* A file whose state is accounted for: seen to be accepted, or the original.
Accounted(u) == u \in witnessed \/ file[PathOf[u]] = before[PathOf[u]]

\* A swap that may still land belongs to an aborted run; what proveAccess has
\* been through is accounted for; and only after it is there a commit.
Acceptance ==
    /\ late # {} => phase = "abort"
    /\ phase = "cleanup" => step \in {"health", "prove", "marker", "close", "wait", "rm"}
    /\ phase = "cleanup" /\ step = "prove" =>
        /\ \A p \in todo : p[1] = cur /\ p[2] \in work[cur]
        /\ \A u \in dirty : u < cur => Accounted(u)
    /\ phase = "cleanup" /\ step \in {"marker", "close", "wait", "rm"} =>
        \A u \in dirty : Accounted(u)
    /\ outcome = "committed" => phase = "cleanup" /\ step = "rm"

\* No member of S lies between u and the one after it.
LEMMA AfterSkips ==
    ASSUME NEW u \in Nat, NEW S \in SUBSET Users, NEW w \in S, w > u
    PROVE  After(u, S) \in Users /\ After(u, S) <= w
<1> DEFINE later == {v \in S : v > u}
<1>1. later \in SUBSET Nat /\ later # {}
  <2>1. Users \subseteq Nat
    BY UsersAssumption DEF Users
  <2> QED  BY <2>1
<1>2. PICK v \in later : \A x \in later : v <= x
  BY <1>1, LeastNumber, Zenon
<1>3. v \in S /\ v > u /\ \A x \in S : x > u => v <= x
  BY <1>2
<1>4. After(u, S) \in S /\ \A x \in S : x > u => After(u, S) <= x
  BY <1>3 DEF After
<1> QED  BY <1>4

\* proveAccess goes on to the next written file when those before it are accounted for.
LEMMA ToProveAcceptance ==
    ASSUME TypeInv, phase = "cleanup", NEW u \in Nat, ToProve(u),
           UNCHANGED <<late, work, dirty, outcome>>, Running, late = {},
           \A w \in dirty : w <= u => Accounted(w)'
    PROVE  Acceptance'
<1> DEFINE v == After(u, dirty)
<1>1. dirty \in SUBSET Users /\ \A w \in dirty : w \in Nat
  BY UsersAssumption DEF TypeInv, TypeOK, Users
<1>2. \A w \in dirty : w > u => v \in Users /\ v <= w
  BY <1>1, AfterSkips
<1>3. v \in Users => v \in Nat
  BY UsersAssumption DEF Users
<1> HIDE DEF v
<1>4. CASE v \in Users /\ work[v] # {}
  <2>1. /\ cur' = v /\ step' = "prove" /\ todo' = {v} \X work[v] /\ phase' = phase
    BY <1>4 DEF ToProve, v
  <2>2. \A w \in dirty : w < v => Accounted(w)'
    BY <1>1, <1>2, <1>3, <1>4
  <2> QED
    BY <2>1, <2>2 DEF Acceptance, Running
<1>5. CASE v \notin Users
  <2>1. step' = "marker" /\ phase' = phase
    BY <1>5 DEF ToProve, Goto, v
  <2>2. \A w \in dirty : Accounted(w)'
    BY <1>1, <1>2, <1>5
  <2> QED
    BY <2>1, <2>2 DEF Acceptance, Running
<1>6. CASE v \in Users /\ work[v] = {}
  BY <1>6 DEF ToProve, GoAbort, Acceptance, Running, v
<1> QED  BY <1>4, <1>5, <1>6

\* The probes of proveAccess.
LEMMA ProveAcceptance ==
    ASSUME TypeInv, Acceptance, ProveAccess, phase = "cleanup"
    PROVE  Acceptance'
<1>1. /\ Running /\ step = "prove" /\ todo # {} /\ SomeKey
      /\ UNCHANGED <<late, work, dirty, outcome, file, before>>
  BY DEF ProveAccess, Probing, ProbeUnchanged
<1>2. Current \in todo
  BY <1>1 DEF Current
<1>3. Current[1] = cur /\ Current[2] \in work[cur] /\ late = {} /\ cur \in Nat
  BY <1>1, <1>2, UsersAssumption DEF Acceptance, TypeInv, TypeOK
<1>4. CASE Witness /\ ToProve(cur)
  <2>1. witnessed' = witnessed \cup {cur}
    BY <1>3, <1>4 DEF Witness
  <2>2. \A w \in dirty : w <= cur => Accounted(w)'
    <3>1. \A w \in dirty : w \in Nat
      BY UsersAssumption DEF TypeInv, TypeOK, Users
    <3>2. \A w \in dirty : w < cur => Accounted(w)
      BY <1>1 DEF Acceptance
    <3> QED
      BY <1>1, <1>3, <2>1, <3>1, <3>2 DEF Accounted
  <2> QED
    BY <1>1, <1>3, <1>4, <2>2, ToProveAcceptance
<1>5. CASE GoAbort(dirty)
  BY <1>1, <1>5 DEF GoAbort, Acceptance, Running
<1>6. CASE todo' = todo \ {Current} /\ UNCHANGED <<phase, step, cur, witnessed>>
  BY <1>1, <1>6 DEF Acceptance, Accounted
<1> QED
  BY <1>1, <1>4, <1>5, <1>6 DEF SomeKey

\* The setup and the copies.
LEMMA SetupAcceptance ==
    ASSUME TypeInv, Acceptance, phase # "cleanup",
           \/ Validate \/ Connect \/ ConnectFails \/ Load \/ LoadFails
           \/ SaveLocal \/ SaveBackup \/ AppendManifest \/ Snapshot
    PROVE  Acceptance'
<1>1. Running /\ late' = late
  BY DEF Validate, Connect, ConnectFails, Load, LoadFails, SaveLocal, SaveBackup, AppendManifest,
     Snapshot, At, Writing
<1>2. phase' = "cleanup" => step' = "health"
  BY DEF Validate, Connect, ConnectFails, Load, LoadFails, SaveLocal, SaveBackup, AppendManifest,
     Snapshot, Goto, GoAbort, ToSwap, ToCopy, Enter
<1>3. outcome' # "committed"
  BY <1>1 DEF Validate, Connect, ConnectFails, Load, LoadFails, SaveLocal, SaveBackup,
     AppendManifest, Snapshot, Finish, Running
<1>4. phase # "abort"
  BY DEF Validate, Connect, ConnectFails, Load, LoadFails, SaveLocal, SaveBackup, AppendManifest,
     Snapshot, At, Writing
<1> QED
  BY <1>1, <1>2, <1>3, <1>4 DEF Acceptance

\* The swaps, the health checks and the probes of the earlier phases.
LEMMA WorkAcceptance ==
    ASSUME TypeInv, Acceptance, phase # "cleanup", Swap \/ CheckHealth \/ Probe
    PROVE  Acceptance'
<1>1. Running /\ outcome' = outcome
  BY DEF Swap, SwapAnswered, SwapRefused, SwapLost, SwapLanded, SwapTorn, SwapLate, Swapping,
     Writing, CheckHealth, Probe, ProbeAgain, ProbeAdded, ProbeRemoved, PositiveControl,
     ProveAccess, Probing, ProbeUnchanged
<1>2. phase' = "cleanup" => step' = "health"
  <2>1. CASE Swap
    BY <2>1 DEF Swap, SwapAnswered, SwapRefused, SwapLost, SwapLanded, SwapTorn, SwapLate,
       Swapping, Writing, ToCopy, Enter, GoAbort
  <2>2. CASE CheckHealth
    <3>1. phase \in WorkPhases
      BY <2>2 DEF CheckHealth, TypeInv, ActiveSteps
    <3> QED
      BY <2>2, <3>1 DEF CheckHealth, Begin, ToCopy, StartProbes, ToControl, GoAbort, Enter,
         WorkPhases
  <2>3. CASE Probe
    BY <2>3 DEF Probe, ProbeAgain, ProbeAdded, ProbeRemoved, PositiveControl, ProveAccess,
       SomeKey, NextProbe, ToControl, StartProbes, GoAbort, Enter
  <2> QED
    BY <2>1, <2>2, <2>3
<1>3. late' # {} => phase' = "abort"
  <2>1. CASE SwapLate
    BY <2>1 DEF SwapLate, GoAbort
  <2>2. CASE CheckHealth \/ ProbeAdded \/ ProbeRemoved \/ PositiveControl \/ ProveAccess
    <3>1. phase # "abort" /\ late' = late
      BY <2>2 DEF CheckHealth, ProbeAdded, ProbeRemoved, PositiveControl, ProveAccess, Probing,
         ProbeUnchanged, TypeInv, ActiveSteps, WorkPhases
    <3> QED
      BY <3>1 DEF Acceptance
  <2>3. CASE ProbeAgain
    BY <2>3 DEF ProbeAgain, ProbeUnchanged, Acceptance
  <2>4. CASE SwapAnswered \/ SwapRefused \/ SwapLost \/ SwapLanded \/ SwapTorn
    <3>1. phase # "abort" /\ late' = late
      BY <2>4 DEF SwapAnswered, SwapRefused, SwapLost, SwapLanded, SwapTorn, Swapping, Writing
    <3> QED
      BY <3>1 DEF Acceptance
  <2> QED
    BY <2>1, <2>2, <2>3, <2>4 DEF Swap, Probe
<1> QED
  BY <1>1, <1>2, <1>3 DEF Acceptance, Running

\* The end of a run that does not commit.
LEMMA EndAcceptance ==
    ASSUME Acceptance, phase # "cleanup",
           \/ WriteMarker \/ CloseStdin \/ AwaitGuard \/ RemoveTxDir \/ Report
           \/ RevertFile \/ ReadBack \/ Disarm \/ HangUp
    PROVE  Acceptance'
<1>1. Running /\ (late' = late \/ phase = "abort") /\ phase' = phase
  BY DEF WriteMarker, CloseStdin, AwaitGuard, RemoveTxDir, Report, RevertFile, RevertUnanswered,
     ReadBack, Disarm, HangUp, At, Reverting, Reverted, Goto, GoAbort, NextRevert
<1>2. outcome' # "committed"
  BY <1>1 DEF WriteMarker, CloseStdin, AwaitGuard, RemoveTxDir, Report, RevertFile, ReadBack, Disarm,
     HangUp, At, Finish, Verdict, Running
<1> QED
  BY <1>1, <1>2 DEF Acceptance

\* The cleanup.
LEMMA CleanupAcceptance ==
    ASSUME TypeInv, Acceptance, phase = "cleanup", Client
    PROVE  Acceptance'
<1>1. late = {} /\ step \in {"health", "prove", "marker", "close", "wait", "rm"}
  BY DEF Acceptance
<1>2. \/ CheckHealth \/ ProbeAgain \/ ProveAccess
      \/ WriteMarker \/ CloseStdin \/ AwaitGuard \/ RemoveTxDir \/ Report
  BY <1>1 DEF Client, Validate, Connect, ConnectFails, Load, LoadFails, SaveLocal, SaveBackup,
     AppendManifest, Snapshot, Swap, SwapAnswered, SwapRefused, SwapLost, SwapLanded, SwapTorn,
     SwapLate, Swapping, Writing, Probe, ProbeAdded, ProbeRemoved, PositiveControl, Probing,
     RevertFile, ReadBack, Disarm, HangUp, At, Reverting, Reverted
<1>3. CASE CheckHealth
  <2>1. Running /\ UNCHANGED <<late, work, dirty, outcome>> /\ (ToProve(0) \/ GoAbort(dirty))
    BY <1>3 DEF CheckHealth, Begin
  <2>2. \A w \in dirty : ~(w <= 0)
    BY UsersAssumption DEF TypeInv, TypeOK, Users
  <2>3. CASE ToProve(0)
    BY <1>1, <2>1, <2>2, <2>3, ToProveAcceptance
  <2>4. CASE GoAbort(dirty)
    BY <2>1, <2>4 DEF GoAbort, Acceptance, Running
  <2> QED
    BY <2>1, <2>3, <2>4
<1>4. CASE ProbeAgain
  BY <1>4 DEF ProbeAgain, ProbeUnchanged, Acceptance, Accounted
<1>5. CASE ProveAccess
  BY <1>5, ProveAcceptance
<1>6. CASE WriteMarker
  BY <1>6 DEF WriteMarker, At, Goto, GoAbort, Acceptance, Accounted, Running
<1>7. CASE CloseStdin \/ AwaitGuard \/ RemoveTxDir \/ Report
  <2>1. /\ Running /\ UNCHANGED <<phase, late, dirty, witnessed, file, before>>
        /\ step \in {"close", "wait", "rm"} /\ step' \in {"wait", "rm"}
        /\ outcome' = "committed" => step' = "rm"
    BY <1>7 DEF CloseStdin, AwaitGuard, RemoveTxDir, Report, Goto, Finish, Verdict, Running
  <2> QED
    BY <2>1 DEF Acceptance, Accounted
<1> QED
  BY <1>2, <1>3, <1>4, <1>5, <1>6, <1>7

\* The script: what it takes from the evidence it has put back to the original.
LEMMA ScriptAcceptance ==
    ASSUME Ledger, Acceptance, Script
    PROVE  Acceptance'
<1>1. UNCHANGED <<phase, step, cur, todo, dirty, work, late, outcome, before>>
  BY DEF Script, Trap, clientVars
<1>2. \A p \in Paths : file'[p] \in {file[p], before[p]}
  BY ScriptAside, TrapStepRestores
  DEF Ledger, TrapStep, GuardFault, TrapOnEOF, TrapOnSignal, EnterRestore, RestoreDone, KillGuard
<1>3. \A u \in witnessed : u \in witnessed' \/ file'[PathOf[u]] # file[PathOf[u]]
  BY DEF Script, Trap, clientVars
<1>4. \A u \in dirty : Accounted(u) => Accounted(u)'
  <2>1. \A u \in dirty : PathOf[u] \in Paths
    BY PathsAssumption DEF Ledger, TypeInv, TypeOK
  <2> QED  BY <1>1, <1>2, <1>3, <2>1 DEF Accounted
<1> QED  BY <1>1, <1>4 DEF Acceptance

\* What lands late belongs to a run that aborts.
LEMMA OutsideAcceptance ==
    ASSUME Acceptance,
           \/ GuardExitSeen \/ Drop \/ Crash \/ Deny \/ LandLate
           \/ UNCHANGED vars
    PROVE  Acceptance'
<1>1. CASE LandLate
  BY <1>1 DEF LandLate, Acceptance
<1>2. CASE Crash
  BY <1>2 DEF Crash, Finish, Acceptance, Accounted
<1>3. CASE ~LandLate /\ ~Crash
  BY <1>3 DEF GuardExitSeen, Drop, Deny, vars, Acceptance, Accounted
<1> QED
  BY <1>1, <1>2, <1>3

LEMMA AcceptanceStep ==
    ASSUME Ledger, Acceptance, [Next]_vars
    PROVE  Acceptance'
<1> USE DEF Ledger
<1>1. CASE Client /\ phase # "cleanup"
  BY <1>1, SetupAcceptance, WorkAcceptance, EndAcceptance DEF Client
<1>2. CASE Client /\ phase = "cleanup"
  BY <1>2, CleanupAcceptance
<1>3. CASE ~Client
  BY <1>3, OutsideAcceptance, ScriptAcceptance DEF Next, Environment, Rest, Script
<1> QED  BY <1>1, <1>2, <1>3

\* A commit rests on evidence of the final state, whatever fails: for every
\* file that it leaves changed a key of the working copy was accepted on a fresh
\* connection after the last write to it, the client's or the trap's
\* (tx.proveAccess).
THEOREM CommitAlwaysWitnessed == Spec => []CommitRestsOnAcceptance
<1>1. Init => Acceptance
  BY DEF Init, Acceptance
<1>2. Ledger /\ Acceptance /\ [Next]_vars => Acceptance'
  BY AcceptanceStep
<1>3. Acceptance => CommitRestsOnAcceptance
  BY DEF Acceptance, Accounted, CommitRestsOnAcceptance
<1> QED  BY <1>1, <1>2, <1>3, LedgerInvariant, PTL DEF Spec

----------------------------------------------------------------------------
(* A usable key in every file at every moment.                             *)

\* The phases after the additions are made.
LatePhases == {"verifyAdd", "remove", "verifyRemove", "cleanup"}

\* The operations of user u on its working copy.
Added(u) == req.add[u] \subseteq work[u]

Spared(u) == KeysIn(before[PathOf[u]]) \ req.remove[u] \subseteq work[u]

\* Content c is no trap for the operator of path p: it holds all that was there
\* before or, with the additions proven, all that is wanted.
Livable(c, p) == Keeps(c, p) \/ (AllProven /\ Wanted(p) \subseteq KeysIn(c))

\* The inductive invariant, next to Ledger and Order.
Window ==
    /\ step # "validate" => Valid
    /\ phase = "add" => /\ \A u \in Named : KeysIn(before[PathOf[u]]) \subseteq work[u]
                        /\ \A u \in Users : u < cur => Added(u)
    /\ phase \in LatePhases => \A u \in Users : Added(u)
    /\ phase \in LatePhases => \A u \in Named : Spared(u)
    /\ \A p \in Paths : Livable(file[p], p)
    /\ \A w \in late : Livable(w.content, w.path)

\* A step that leaves the working copies alone, and puts back originals at most.
LEMMA WindowMove ==
    ASSUME Window, UNCHANGED <<work, req, before>>, proven \subseteq proven',
           \A w \in late' : w \in late \/ w.content = before[w.path],
           step' = "validate" => step = "validate",
           \A p \in Paths : file'[p] \in {file[p], before[p]},
           step' # "validate" => step # "validate" \/ Valid,
           \/ phase' \notin {"add"} \cup LatePhases
           \/ phase \in LatePhases /\ phase' \in LatePhases
           \/ phase = "add" /\ phase' = "add" /\ cur' = cur
    PROVE  Window'
<1>1. AllProven => AllProven'
  BY StaysProven
<1>2. \A p \in Paths : Wanted(p)' = Wanted(p)
  BY DEF Wanted
<1>3. Valid' = Valid /\ Named' = Named
  BY DEF Valid, Named
<1>4. \A p \in Paths : Livable(file[p], p)'
  BY <1>1, <1>2 DEF Window, Livable, Keeps
<1>5. \A w \in late' : Livable(w.content, w.path)'
  <2>1. \A w \in late' : Livable(w.content, w.path)
    BY DEF Window, Livable, Keeps
  <2> QED
    BY <1>1, <2>1 DEF Livable, Keeps, Wanted
<1> QED
  BY <1>3, <1>4, <1>5 DEF Window, Added, Spared, LatePhases

\* The additions of those up to u are made: the next file, or the end of the additions.
LEMMA WindowCopies ==
    ASSUME NEW u \in Nat, phase = "add", ToCopy(u), UNCHANGED <<req, before>>, req \in Request,
           \A w \in Users : w <= u => Added(w)',
           \A w \in Named : KeysIn(before[PathOf[w]]) \subseteq work'[w],
           Valid, \A p \in Paths : Livable(file[p], p)',
           \A w \in late' : Livable(w.content, w.path)'
    PROVE  Window'
<1> DEFINE v == After(u, Adders)
<1>1. PhaseUsers = Adders /\ Adders \in SUBSET Users
  BY DEF PhaseUsers, Adders
<1>2. \A w \in Users : w \notin Adders => Added(w)'
  BY DEF Adders, Added
<1>3. \A w \in Users : w \in Nat
  BY UsersAssumption DEF Users
<1>4. \A w \in Adders : w > u => v \in Users /\ v <= w
  BY <1>1, AfterSkips
<1>5. v \in Users => v \in Nat
  BY <1>3
<1>6. Valid' /\ Named' = Named
  BY DEF Valid, Named
<1>7. step' # "validate"
  BY DEF ToCopy, Enter
<1> HIDE DEF v
<1>8. CASE v \in Users
  <2>1. cur' = v /\ phase' = "add"
    BY <1>1, <1>8 DEF ToCopy, v
  <2>2. \A w \in Users : w < v => Added(w)'
    BY <1>2, <1>3, <1>4, <1>5, <1>8
  <2> QED
    BY <1>6, <1>7, <2>1, <2>2 DEF Window, LatePhases
<1>9. CASE v \notin Users
  <2>1. phase' = "verifyAdd"
    BY <1>1, <1>9 DEF ToCopy, v, Enter, Following
  <2>2. \A w \in Users : Added(w)'
    BY <1>2, <1>3, <1>4, <1>9
  <2>3. \A w \in Named : Spared(w)'
    BY DEF Spared
  <2> QED
    BY <1>6, <1>7, <2>1, <2>2, <2>3 DEF Window, LatePhases
<1> QED
  BY <1>8, <1>9

\* The setup: the working copies are what the files hold.
LEMMA SetupWindow ==
    ASSUME Ledger, Window, Validate \/ Connect \/ ConnectFails \/ Load \/ LoadFails
    PROVE  Window'
<1>1. CASE Validate \/ Connect \/ ConnectFails \/ LoadFails
  <2>1. /\ UNCHANGED <<late, work, req, before, proven, file>>
        /\ phase' \notin {"add"} \cup LatePhases
        /\ step' = "validate" => step = "validate"
        /\ step' # "validate" => step # "validate" \/ Valid
    BY <1>1 DEF Validate, Connect, ConnectFails, LoadFails, At, Goto, Finish, LatePhases
  <2> QED
    BY <2>1, WindowMove
<1>2. CASE Load
  <2>1. file = before /\ late = {} /\ step = "load" /\ Valid
    BY <1>2 DEF Load, At, Ledger, Loaded, Window
  <2>2. UNCHANGED <<file, late, req, before, proven>>
    BY <1>2 DEF Load
  <2>3. \A u \in Named : work'[u] = KeysIn(before[PathOf[u]])
    <3>1. Named \subseteq Users
      BY DEF Named
    <3> QED
      BY <1>2, <2>1, <3>1 DEF Load
  <2>4. Valid' /\ Named' = Named
    BY <2>1, <2>2 DEF Valid, Named
  <2>5. \A p \in Paths : Livable(file[p], p)'
    BY <2>1, <2>2 DEF Livable, Keeps
  <2>6. CASE phase' = "dryRun"
    BY <1>2, <2>1, <2>2, <2>4, <2>5, <2>6 DEF Load, Window, LatePhases
  <2>7. CASE Enter("add")
    <3>1. \A u \in Users : ~(u < 0)
      BY UsersAssumption DEF Users
    <3> QED
      BY <2>1, <2>2, <2>3, <2>4, <2>5, <2>7, <3>1 DEF Enter, Window, LatePhases
  <2>8. CASE Adders = {} /\ Enter("remove")
    <3>1. \A u \in Users : Added(u)'
      BY <2>2, <2>8 DEF Adders, Added
    <3>2. \A u \in Named : Spared(u)'
      BY <2>2, <2>3 DEF Spared
    <3> QED
      BY <2>1, <2>2, <2>4, <2>5, <2>8, <3>1, <3>2 DEF Enter, Window
  <2>9. Following("load") = IF Adders # {} THEN "add" ELSE "remove"
    BY DEF Following
  <2> QED
    BY <1>2, <2>6, <2>7, <2>8, <2>9 DEF Load
<1> QED
  BY <1>1, <1>2

\* Copies are no content of a file, and a file that needs no swap has its additions.
LEMMA CopyWindow ==
    ASSUME Ledger, Window, SaveLocal \/ SaveBackup \/ AppendManifest \/ Snapshot
    PROVE  Window'
<1>1. /\ phase \in {"add", "remove"} /\ cur \in Users /\ cur \in Nat
      /\ UNCHANGED <<late, work, req, before, proven, file>>
      /\ req \in Request /\ step # "validate"
  BY UsersAssumption
  DEF SaveLocal, SaveBackup, AppendManifest, Snapshot, Writing, Users, Ledger, TypeInv, TypeOK
<1>2. \/ GoAbort(dirty)
      \/ \E s \in {"backup", "manifest", "swap"} : Goto(s)
      \/ Edited(cur) = work[cur] /\ ToCopy(cur)
  BY DEF SaveLocal, SaveBackup, AppendManifest, Snapshot, ToSwap
<1>3. CASE GoAbort(dirty) \/ \E s \in {"backup", "manifest", "swap"} : Goto(s)
  <2>1. step' # "validate" /\ ((phase' = phase /\ cur' = cur) \/ phase' = "abort")
    BY <1>3 DEF GoAbort, Goto
  <2> QED
    BY <1>1, <2>1, WindowMove DEF LatePhases
<1>4. CASE Edited(cur) = work[cur] /\ ToCopy(cur) /\ phase = "add"
  <2>1. Added(cur)
    BY <1>4 DEF Edited, Added
  <2>2. \A w \in Users : w <= cur => Added(w)'
    <3>1. \A w \in Users : w \in Nat
      BY UsersAssumption DEF Users
    <3>2. \A w \in Users : w < cur => Added(w)
      BY <1>4 DEF Window
    <3>3. \A w \in Users : w <= cur => Added(w)
      BY <1>1, <2>1, <3>1, <3>2
    <3> QED
      BY <1>1, <3>3 DEF Added
  <2>3. Valid /\ \A w \in Named : KeysIn(before[PathOf[w]]) \subseteq work'[w]
    BY <1>1, <1>4 DEF Window
  <2>4. /\ \A p \in Paths : Livable(file[p], p)'
        /\ \A w \in late' : Livable(w.content, w.path)'
    BY <1>1 DEF Window, Livable, Keeps, Wanted, AllProven, AddPairs
  <2> QED
    BY <1>1, <1>4, <2>2, <2>3, <2>4, WindowCopies
<1>5. CASE ToCopy(cur) /\ phase = "remove"
  <2>1. phase' \in LatePhases /\ step' # "validate"
    BY <1>5 DEF ToCopy, Enter, Following, LatePhases
  <2> QED
    BY <1>1, <1>5, <2>1, WindowMove DEF LatePhases
<1> QED
  BY <1>1, <1>2, <1>3, <1>4, <1>5

\* Health checks begin a phase, or abort.
LEMMA CheckHealthWindow ==
    ASSUME Ledger, Window, CheckHealth
    PROVE  Window'
<1>1. /\ phase \in WorkPhases /\ UNCHANGED <<late, work, req, before, proven, file>>
      /\ req \in Request /\ step # "validate" /\ step = "health"
  BY DEF CheckHealth, Ledger, TypeInv, TypeOK, ActiveSteps
<1>2. CASE GoAbort(dirty)
  BY <1>1, <1>2, WindowMove DEF GoAbort, LatePhases
<1>3. CASE phase = "add" /\ ToCopy(0)
  <2>1. \A w \in Users : w <= 0 => Added(w)'
    BY UsersAssumption DEF Users
  <2>2. Valid /\ \A w \in Named : KeysIn(before[PathOf[w]]) \subseteq work'[w]
    BY <1>1, <1>3 DEF Window
  <2>3. /\ \A p \in Paths : Livable(file[p], p)'
        /\ \A w \in late' : Livable(w.content, w.path)'
    BY <1>1 DEF Window, Livable, Keeps, Wanted, AllProven, AddPairs
  <2>4. 0 \in Nat
    OBVIOUS
  <2> QED
    BY <1>1, <1>3, <2>1, <2>2, <2>3, <2>4, WindowCopies
<1>4. CASE phase \in LatePhases /\ Begin
  <2>1. (phase' \in LatePhases \/ phase' = "abort") /\ step' # "validate"
    BY <1>1, <1>4
    DEF Begin, ToCopy, StartProbes, ToControl, ToProve, Goto, GoAbort, Enter, Following, LatePhases
  <2> QED
    BY <1>1, <1>4, <2>1, WindowMove DEF LatePhases
<1> QED
  BY <1>1, <1>2, <1>3, <1>4 DEF CheckHealth, Begin, WorkPhases, LatePhases

\* Probes follow the additions.
LEMMA ProbeWindow ==
    ASSUME Probed, Window, Probe
    PROVE  Window'
<1>1. UNCHANGED <<late, work, req, before, file>> /\ proven \subseteq proven'
  BY DEF Probe, ProbeAgain, ProbeAdded, ProbeRemoved, PositiveControl, ProveAccess, SomeKey, Witness,
     ProbeUnchanged
<1>2. CASE ProbeAgain
  BY <1>1, <1>2, WindowMove DEF ProbeAgain
<1>3. CASE ~ProbeAgain
  <2>1. phase \in LatePhases /\ step \in ProbeSteps
    BY <1>3 DEF Probe, ProbeAdded, ProbeRemoved, PositiveControl, ProveAccess, Probing, Probed,
       ProbeSteps, LatePhases
  <2>2. (phase' \in LatePhases \/ phase' = "abort") /\ step' # "validate"
    BY <1>3, <2>1
    DEF Probe, ProbeAdded, ProbeRemoved, PositiveControl, ProveAccess, SomeKey, NextProbe,
        StartProbes, ToControl, ToProve, Goto, GoAbort, Enter, Following, LatePhases, ProbeSteps
  <2> QED
    BY <1>1, <2>1, <2>2, WindowMove DEF LatePhases, ProbeSteps
<1> QED
  BY <1>2, <1>3

\* The end of a run and its abort change no file, or put back its original.
LEMMA EndWindow ==
    ASSUME "torn" \notin Faults, Ledger, Window,
           \/ WriteMarker \/ CloseStdin \/ AwaitGuard \/ RemoveTxDir \/ Report
           \/ RevertFile \/ ReadBack \/ Disarm \/ HangUp
    PROVE  Window'
<1>1. /\ UNCHANGED <<work, req, before, proven>> /\ step # "validate" /\ step' # "validate"
      /\ phase' = phase \/ phase' = "abort"
  BY DEF WriteMarker, CloseStdin, AwaitGuard, RemoveTxDir, Report, RevertFile, RevertUnanswered,
     ReadBack, Disarm, HangUp, At, Reverting, Reverted, Goto, GoAbort, NextRevert
<1>2. phase = "add" => phase' = "abort" \/ cur' = cur
  BY DEF WriteMarker, CloseStdin, AwaitGuard, RemoveTxDir, Report, RevertFile, RevertUnanswered,
     ReadBack, Disarm, HangUp, At, Reverting, Reverted, Goto, GoAbort, NextRevert
<1>3. CASE UNCHANGED <<file, late>>
  BY <1>1, <1>2, <1>3, WindowMove DEF LatePhases
<1>4. CASE RevertFile
  BY <1>1, <1>2, <1>4, WholeRevert, WindowMove DEF LatePhases
<1> QED
  BY <1>3, <1>4
  DEF WriteMarker, CloseStdin, AwaitGuard, RemoveTxDir, Report, ReadBack, Disarm, HangUp

\* The trap puts back originals, and what lands late is usable.
LEMMA OutsideWindow ==
    ASSUME Ledger, Window,
           \/ Script
           \/ GuardExitSeen \/ Drop \/ Crash \/ Deny \/ LandLate
           \/ UNCHANGED vars
    PROVE  Window'
<1>1. UNCHANGED <<phase, step, cur, work, req, before, proven>>
  BY ScriptAside DEF GuardExitSeen, Drop, Crash, Deny, LandLate, Finish, asideVars, vars
<1>2. CASE late' = late /\ \A p \in Paths : file'[p] \in {file[p], before[p]}
  BY <1>1, <1>2, WindowMove DEF LatePhases
<1>3. CASE LandLate
  <2>1. PICK w \in late : file' = [file EXCEPT ![w.path] = w.content] /\ late' = late \ {w}
    BY <1>3 DEF LandLate
  <2>2. \A p \in Paths : Livable(file[p], p)' = Livable(file'[p], p)
    BY <1>1 DEF Livable, Keeps, Wanted, AllProven, AddPairs
  <2>3. \A p \in Paths : Livable(file'[p], p)
    BY <2>1 DEF Window, Ledger, TypeInv, TypeOK, GuardTypeOK
  <2>4. \A x \in late' : Livable(x.content, x.path)'
    BY <1>1, <2>1 DEF Window, Livable, Keeps, Wanted, AllProven, AddPairs
  <2>5. Named' = Named /\ Valid' = Valid
    BY <1>1 DEF Named, Valid
  <2> QED
    BY <1>1, <2>2, <2>3, <2>4, <2>5 DEF Window, Added, Spared
<1>4. CASE GuardExitSeen \/ Drop \/ Crash \/ Deny \/ UNCHANGED vars
  BY <1>2, <1>4 DEF GuardExitSeen, Drop, Crash, Deny, Finish, vars
<1>5. CASE Script
  <2>1. \A p \in Paths : file'[p] \in {file[p], before[p]}
    BY <1>5, ScriptAside, TrapStepRestores
    DEF Ledger, TrapStep, GuardFault, TrapOnEOF, TrapOnSignal, EnterRestore, RestoreDone, KillGuard
  <2> QED
    BY <1>2, <1>5, <2>1, ScriptAside DEF asideVars
<1> QED
  BY <1>3, <1>4, <1>5

\* A swap that adds keeps all that was there; one that removes leaves what is wanted.
LEMMA SwapWindow ==
    ASSUME "torn" \notin Faults, Ledger, Probed, Window, Swap,
           \A u, v \in Users : PathOf[u] = PathOf[v] => u = v
    PROVE  Window'
<1>1. /\ Swapping /\ UNCHANGED <<req, before, proven>> /\ cur \in Users /\ cur \in Named
      /\ phase \in {"add", "remove"} /\ step = "swap"
      /\ work' = [work EXCEPT ![cur] = Edited(cur)]
  BY DEF Swap, SwapAnswered, SwapRefused, SwapLost, SwapLanded, SwapTorn, SwapLate, Swapping,
     Writing, Ledger, Position, CopySteps
<1>2. /\ req \in Request /\ work \in [Users -> SUBSET Keys] /\ cur \in Nat /\ Valid
      /\ \A u \in Users : u \in Nat
  BY <1>1, UsersAssumption DEF Ledger, TypeInv, TypeOK, Users, Window
<1>3. /\ work'[cur] = Edited(cur) /\ Edited(cur) \in SUBSET Keys
      /\ \A u \in Users : u # cur => work'[u] = work[u]
  BY <1>1, <1>2, EditedType DEF Ledger
<1>4. KeysIn(work'[cur]) = work'[cur]
  BY <1>3, AbsentAssumption DEF KeysIn
<1>5. req.add[cur] \cap req.remove[cur] = {}
  BY <1>1, <1>2 DEF Valid
<1>6. Livable(work'[cur], PathOf[cur])
  <2>1. CASE phase = "add"
    BY <1>1, <1>3, <1>4, <2>1 DEF Window, Livable, Keeps, Edited
  <2>2. CASE phase = "remove"
    <3>1. {u \in Users : PathOf[u] = PathOf[cur]} = {cur}
      BY <1>1
    <3>2. Wanted(PathOf[cur])
            = (KeysIn(before[PathOf[cur]]) \cup req.add[cur]) \ req.remove[cur]
      BY <3>1 DEF Wanted
    <3>3. Added(cur) /\ Spared(cur)
      BY <1>1, <2>2 DEF Window, LatePhases
    <3>4. Edited(cur) = work[cur] \ req.remove[cur]
      BY <2>2 DEF Edited
    <3>5. Wanted(PathOf[cur]) \subseteq work'[cur]
      BY <1>3, <3>2, <3>3, <3>4 DEF Added, Spared
    <3> QED
      BY <1>4, <2>2, <3>5 DEF Livable, Probed
  <2> QED
    BY <1>1, <2>1, <2>2
<1>7. /\ \A p \in Paths : Livable(file[p], p)'
      /\ \A w \in late' : Livable(w.content, w.path)'
  <2>1. \A p \in Paths : file'[p] = file[p] \/ (p = PathOf[cur] /\ file'[p] = work'[cur])
    BY WholeArrivals DEF Swap, SwapAnswered, SwapRefused, SwapLost, SwapLanded, SwapTorn, SwapLate, SwapIn,
           Ledger, TypeInv, TypeOK, GuardTypeOK
  <2>2. \A w \in late' : w \in late \/ (w.path = PathOf[cur] /\ w.content = work'[cur])
    BY WholeArrivals DEF Swap, SwapAnswered, SwapRefused, SwapLost, SwapLanded, SwapTorn, SwapLate
  <2>3. \A p \in Paths : Livable(file'[p], p)
    BY <1>6, <2>1 DEF Window
  <2>4. \A w \in late' : Livable(w.content, w.path)
    BY <1>6, <2>2 DEF Window
  <2> QED
    BY <1>1, <2>3, <2>4 DEF Livable, Keeps, Wanted, AllProven, AddPairs
<1>8. Valid' /\ Named' = Named /\ Named \subseteq Users
  BY <1>1, <1>2 DEF Valid, Named
<1>9. CASE GoAbort(dirty')
  BY <1>7, <1>8, <1>9 DEF GoAbort, Window, LatePhases
<1>10. CASE ToCopy(cur) /\ phase = "add"
  <2>1. \A w \in Users : w = cur => Added(w)'
    BY <1>1, <1>3, <1>10 DEF Added, Edited
  <2>2. \A w \in Users : w < cur => Added(w)
    BY <1>10 DEF Window
  <2>3. \A w \in Users : w # cur => Added(w)' = Added(w)
    BY <1>1, <1>3 DEF Added
  <2>4. \A w \in Users : w <= cur => Added(w)'
    BY <1>2, <2>1, <2>2, <2>3
  <2>5. \A w \in Named : KeysIn(before[PathOf[w]]) \subseteq work'[w]
    BY <1>3, <1>8, <1>10 DEF Window, Edited
  <2> QED
    BY <1>1, <1>2, <1>7, <1>10, <2>4, <2>5, WindowCopies
<1>11. CASE ToCopy(cur) /\ phase = "remove"
  <2>1. phase' \in LatePhases /\ step' # "validate"
    BY <1>11 DEF ToCopy, Enter, Following, LatePhases
  <2>2. \A u \in Users : Added(u)'
    BY <1>1, <1>3, <1>5, <1>11 DEF Window, LatePhases, Added, Edited
  <2>3. \A u \in Named : Spared(u)'
    BY <1>1, <1>3, <1>8, <1>11 DEF Window, LatePhases, Spared, Edited
  <2> QED
    BY <1>7, <1>8, <2>1, <2>2, <2>3 DEF Window, LatePhases
<1> QED
  BY <1>1, <1>9, <1>10, <1>11
  DEF Swap, SwapAnswered, SwapRefused, SwapLost, SwapLanded, SwapTorn, SwapLate

\* Every step keeps the window closed.
LEMMA WindowStep ==
    ASSUME "torn" \notin Faults, \A u, v \in Users : PathOf[u] = PathOf[v] => u = v,
           Ledger, Probed, Window, [Next]_vars
    PROVE  Window'
<1>1. CASE Client
  BY <1>1, SetupWindow, CopyWindow, SwapWindow, CheckHealthWindow, ProbeWindow, EndWindow DEF Client
<1>2. CASE ~Client
  BY <1>2, OutsideWindow DEF Next, Environment, Rest, Script
<1> QED
  BY <1>1, <1>2

\* To begin with every file holds what it held before.
LEMMA WindowInit == Init => Window
  BY DEF Init, Window, Livable, Keeps, LatePhases

\* A usable content holds a key from before or one that is proven.
LEMMA WindowCloses ==
    ASSUME \A u, v \in Users : PathOf[u] = PathOf[v] => u = v, Ledger, Window
    PROVE  NoEmptyWindow
<1> SUFFICES ASSUME NEW u \in Users, KeysIn(before[PathOf[u]]) # {}, Wanted(PathOf[u]) # {}
             PROVE  \E k \in KeysIn(file[PathOf[u]]) :
                        k \in KeysIn(before[PathOf[u]]) \/ <<u, k>> \in proven
  BY DEF NoEmptyWindow
<1>1. Livable(file[PathOf[u]], PathOf[u])
  BY PathsAssumption DEF Window
<1>2. CASE Keeps(file[PathOf[u]], PathOf[u])
  BY <1>2 DEF Keeps
<1>3. CASE AllProven /\ Wanted(PathOf[u]) \subseteq KeysIn(file[PathOf[u]])
  <2>1. {v \in Users : PathOf[v] = PathOf[u]} = {u}
    OBVIOUS
  <2>2. Wanted(PathOf[u]) \subseteq KeysIn(before[PathOf[u]]) \cup req.add[u]
    BY <2>1 DEF Wanted
  <2>3. \A k \in req.add[u] : <<u, k>> \in proven
    BY <1>3 DEF AllProven, AddPairs, Ledger, TypeInv, TypeOK, Request
  <2> QED
    BY <1>3, <2>2, <2>3
<1> QED
  BY <1>1, <1>2, <1>3 DEF Livable

\* A file that begins and ends with a key never passes through a state without one that was
\* usable from the start or is proven (tx.Run), for any users with files of their own and any
\* fault but a torn swap: a late one is usable too.  Two users of one file are excluded, for
\* the proof of one user's key says nothing about the other.
THEOREM WindowStaysClosed ==
    ASSUME "torn" \notin Faults, \A u, v \in Users : PathOf[u] = PathOf[v] => u = v
    PROVE  Spec => []NoEmptyWindow
<1>1. Ledger /\ Order /\ [Next]_vars => Order'
  BY OrderStep
<1>2. Ledger /\ Order /\ Window /\ [Next]_vars => Window'
  BY WindowStep DEF Order
<1>3. Ledger /\ Window => NoEmptyWindow
  BY WindowCloses
<1> QED
  BY <1>1, <1>2, <1>3, OrderInit, WindowInit, LedgerInvariant, PTL DEF Spec

----------------------------------------------------------------------------
(* Nothing goes on for ever.                                               *)

\* What is left to do, the most significant first: the client's phases, the
\* steps of a phase, the users of a loop, the commands for a user, the probes and
\* their attempts, the names in $TX; then the trap's, and what can still happen
\* to a user, a given-up swap, the connection and the waiter of the session.
PhasesLeft ==
    CASE phase = "setup" -> 6
      [] phase = "add" -> 5
      [] phase = "verifyAdd" -> 4
      [] phase = "remove" -> 3
      [] phase = "verifyRemove" -> 2
      [] phase = "cleanup" -> 1
      [] OTHER -> 0

StepsLeft ==
    CASE step = "validate" -> 6
      [] step \in {"connect", "health"} -> 5
      [] step \in {"probe", "marker"} -> 3
      [] step = "close" -> 2
      [] step = "wait" -> 1
      [] step = "rm" -> 0
      [] OTHER -> 4

CommandsLeft ==
    CASE step = "local" -> 4
      [] step = "backup" -> 3
      [] step \in {"manifest", "snapshot", "revert"} -> 2
      [] step \in {"swap", "readback"} -> 1
      [] OTHER -> 0

Flag(b) == IF b THEN 1 ELSE 0

SavedUsers == {u \in Users : backup[u] # Absent}

InTxDir == Flag(commit) + Flag(manifest # << >>) + Cardinality(SavedUsers)

TrapLeft ==
    CASE guard = "exited" -> 0
      [] guard = "restoring" -> 1
      [] OTHER -> 2

Remaining ==
    << Flag(Running), PhasesLeft, StepsLeft, NumUsers + 1 - cur, CommandsLeft,
       Cardinality(todo), ProbeAttempts - tries, InTxDir,
       TrapLeft, Len(queue), Cardinality(Users \ denied), Cardinality(late),
       Flag(conn = "up"), Flag(~exitSeen) >>

\* The lexicographic order of what is left.
Fewer == LexProductOrdering(Below, Nat, 14)

Lessens == <<Remaining', Remaining>> \in Fewer

\* What is counted stays within bounds.
Bounded ==
    /\ TypeInv
    /\ tries < ProbeAttempts
    /\ step = "readback" => cur \in Users
    /\ IsFiniteSet(late)

\* The client's place moves on.
Onward ==
    \/ PhasesLeft' < PhasesLeft
    \/ /\ PhasesLeft' = PhasesLeft
       /\ \/ StepsLeft' < StepsLeft
          \/ /\ StepsLeft' = StepsLeft
             /\ \/ cur' > cur
                \/ /\ cur' = cur
                   /\ \/ CommandsLeft' < CommandsLeft
                      \/ /\ CommandsLeft' = CommandsLeft
                         /\ \/ \E p \in todo : todo' = todo \ {p}
                            \/ todo' = todo /\ tries' = tries + 1

\* rm -rf has unlinked a name.
Unlinked ==
    /\ UNCHANGED pcVars
    /\ \/ commit /\ ~commit' /\ UNCHANGED <<manifest, backup>>
       \/ manifest # << >> /\ manifest' = << >> /\ UNCHANGED <<commit, backup>>
       \/ /\ \E u \in SavedUsers : backup' = [backup EXCEPT ![u] = Absent]
          /\ UNCHANGED <<commit, manifest>>

\* The script, or what is nobody's choice, moves on.
HostOnward ==
    \/ TrapLeft' < TrapLeft
    \/ /\ guard' = guard
       /\ \/ queue # << >> /\ queue' = Tail(queue)
          \/ /\ queue' = queue
             /\ \/ \E u \in Users \ denied : denied' = denied \cup {u}
                \/ /\ denied' = denied
                   /\ \/ \E w \in late : late' = late \ {w}
                      \/ /\ late' = late
                         /\ \/ conn = "up" /\ conn' = "down"
                            \/ conn' = conn /\ ~exitSeen /\ exitSeen'

Moves ==
    \/ Running /\ ~Running'
    \/ Running' = Running /\ Onward
    \/ Running' = Running /\ Unlinked
    \/ /\ Running' = Running /\ UNCHANGED <<pcVars, commit, manifest, backup>>
       /\ HostOnward

\* The number that ends a loop is no user.
LEMMA NoSuchUser == NumUsers \in Nat /\ NumUsers + 1 \notin Users /\ Users = 1..NumUsers
  BY UsersAssumption DEF Users

\* The loop over users goes up.
LEMMA AfterIsLater ==
    ASSUME NEW u \in Nat, NEW S \in SUBSET Users
    PROVE  After(u, S) > u \/ After(u, S) = NumUsers + 1
<1>1. CASE \E v \in S : v > u
  <2> DEFINE Least(v) == v > u /\ \A w \in S : w > u => v <= w
  <2>1. {v \in S : v > u} \in SUBSET Nat
    <3>1. Users \subseteq Nat
      BY NoSuchUser
    <3> QED  BY <3>1, Zenon
  <2>2. PICK x \in {v \in S : v > u} : \A w \in {v \in S : v > u} : x <= w
    BY <1>1, <2>1, LeastNumber, Zenon
  <2>3. x \in S /\ Least(x)
    BY <2>2
  <2>4. After(u, S) = CHOOSE v \in S : Least(v)
    BY <1>1 DEF After
  <2>5. Least(CHOOSE v \in S : Least(v))
    <3> HIDE DEF Least
    <3> QED  BY <2>3, Zenon
  <2> QED  BY <2>4, <2>5
<1>2. CASE ~ \E v \in S : v > u
  BY <1>2 DEF After
<1> QED  BY <1>1, <1>2

\* The user after u comes later, or the loop is over.
LEMMA NextIsLater ==
    ASSUME NEW u \in Users, NEW S \in SUBSET Users
    PROVE  After(u, S) > u
<1>1. u \in Nat /\ NumUsers + 1 > u
  BY NoSuchUser
<1> QED  BY <1>1, AfterIsLater

\* Moves of the program counter: entering the following phase;
LEMMA FollowingOnward ==
    ASSUME phase \in WorkPhases \ {"cleanup"}, Enter(Following(phase))
    PROVE  Onward
<1>1. CASE phase = "add"
  BY <1>1 DEF Enter, Following, Onward, PhasesLeft
<1>2. CASE phase = "verifyAdd"
  BY <1>2 DEF Enter, Following, Onward, PhasesLeft
<1>3. CASE phase = "remove"
  BY <1>3 DEF Enter, Following, Onward, PhasesLeft
<1>4. CASE phase = "verifyRemove"
  BY <1>4 DEF Enter, Following, Onward, PhasesLeft
<1> QED  BY <1>1, <1>2, <1>3, <1>4 DEF WorkPhases

\* going to abort;
LEMMA GoAbortOnward ==
    ASSUME phase \in WorkPhases, NEW d, GoAbort(d)
    PROVE  Onward
<1>1. PhasesLeft' = 0
  BY DEF GoAbort, PhasesLeft
<1>2. PhasesLeft \in {5, 4, 3, 2, 1}
  BY DEF PhasesLeft, WorkPhases
<1> QED  BY <1>1, <1>2 DEF Onward

\* going to the next file of a phase that writes;
LEMMA ToCopyOnward ==
    ASSUME phase \in {"add", "remove"}, cur \in Nat,
           NEW u \in Nat, ToCopy(u),
           step = "health" \/ (u = cur /\ step \in CopySteps)
    PROVE  Onward
<1> DEFINE v == After(u, PhaseUsers)
<1>1. CASE v \in Users
  <2>1. PhaseUsers \in SUBSET Users
    BY DEF PhaseUsers, Adders
  <2>2. v > u
    BY <1>1, <2>1, AfterIsLater, NoSuchUser
  <2>3. cur' = v /\ phase' = phase /\ step' \in {"snapshot", "local"}
    BY <1>1 DEF ToCopy
  <2>4. PhasesLeft' = PhasesLeft
    BY <2>3 DEF PhasesLeft
  <2>5. StepsLeft' = 4
    BY <2>3 DEF StepsLeft
  <2>6. CASE step = "health"
    BY <2>4, <2>5, <2>6 DEF Onward, StepsLeft
  <2>7. CASE u = cur /\ step \in CopySteps
    <3>1. StepsLeft = 4
      BY <2>7 DEF StepsLeft, CopySteps
    <3> QED  BY <2>2, <2>3, <2>4, <2>5, <2>7, <3>1 DEF Onward
  <2> QED  BY <2>6, <2>7
<1>2. CASE v \notin Users
  BY <1>2, FollowingOnward DEF ToCopy, WorkPhases
<1> QED  BY <1>1, <1>2

\* from the copy of a file to its swap;
LEMMA ToSwapOnward ==
    ASSUME phase \in {"add", "remove"}, cur \in Nat, ToSwap, step \in {"manifest", "snapshot"}
    PROVE  Onward
<1>1. CASE Goto("swap")
  BY <1>1 DEF Goto, Onward, PhasesLeft, StepsLeft, CommandsLeft
<1>2. CASE ToCopy(cur)
  BY <1>2, ToCopyOnward DEF CopySteps
<1> QED  BY <1>1, <1>2 DEF ToSwap

\* starting a phase's probes;
LEMMA StartProbesOnward ==
    ASSUME phase \in WorkPhases \ {"cleanup"}, NEW pairs, StartProbes(pairs),
           step \in {"health", "control", "prove"}
    PROVE  Onward
<1>1. CASE pairs = {}
  BY <1>1, FollowingOnward DEF StartProbes
<1>2. CASE pairs # {}
  BY <1>2 DEF StartProbes, Onward, PhasesLeft, StepsLeft
<1> QED  BY <1>1, <1>2

\* going to the next positive control;
LEMMA ToControlOnward ==
    ASSUME phase \in WorkPhases \ {"cleanup"}, cur \in Nat, NEW u \in Nat, ToControl(u),
           step = "health" \/ (u = cur /\ step \in {"control", "prove"})
    PROVE  Onward
<1> DEFINE v == After(u, Controlled)
<1>1. CASE v \in Users
  <2>1. v > u
    BY <1>1, AfterIsLater, NoSuchUser DEF Controlled
  <2>2. cur' = v /\ phase' = phase /\ step' = "control"
    BY <1>1 DEF ToControl
  <2>3. PhasesLeft' = PhasesLeft /\ StepsLeft' = 4
    BY <2>2 DEF PhasesLeft, StepsLeft
  <2>4. (step = "health" /\ StepsLeft = 5) \/ (u = cur /\ StepsLeft = 4)
    BY DEF StepsLeft
  <2> QED  BY <2>1, <2>2, <2>3, <2>4 DEF Onward
<1>2. CASE v \notin Users
  BY <1>2, StartProbesOnward DEF ToControl
<1> QED  BY <1>1, <1>2

\* going to the next file that access is to be proven for;
LEMMA ToProveOnward ==
    ASSUME phase = "cleanup", dirty \in SUBSET Users, cur \in Nat, NEW u \in Nat, ToProve(u),
           step = "health" \/ (u = cur /\ step \in {"control", "prove"})
    PROVE  Onward
<1> DEFINE v == After(u, dirty)
<1>1. (step = "health" /\ StepsLeft = 5) \/ (u = cur /\ StepsLeft = 4)
  BY DEF StepsLeft
<1>2. CASE v \in Users /\ work[v] = {}
  BY <1>2, GoAbortOnward DEF ToProve, WorkPhases
<1>3. CASE v \in Users /\ work[v] # {}
  <2>1. v > u
    BY <1>3, AfterIsLater, NoSuchUser
  <2>2. cur' = v /\ phase' = phase /\ step' = "prove"
    BY <1>3 DEF ToProve
  <2>3. PhasesLeft' = PhasesLeft /\ StepsLeft' = 4
    BY <2>2 DEF PhasesLeft, StepsLeft
  <2> QED  BY <1>1, <2>1, <2>2, <2>3 DEF Onward
<1>4. CASE v \notin Users
  <2>1. phase' = phase /\ step' = "marker"
    BY <1>4 DEF ToProve, Goto
  <2>2. PhasesLeft' = PhasesLeft /\ StepsLeft' = 3
    BY <2>1 DEF PhasesLeft, StepsLeft
  <2> QED  BY <1>1, <2>2 DEF Onward
<1> QED  BY <1>2, <1>3, <1>4

\* going to the next file to revert.
LEMMA NextRevertOnward ==
    ASSUME cur \in Users, dirty \in SUBSET Users, NextRevert, step \in {"revert", "readback"}
    PROVE  Onward
<1>1. cur' > cur
  BY NextIsLater DEF NextRevert
<1>2. PhasesLeft' = PhasesLeft /\ StepsLeft' = 4 /\ StepsLeft = 4
  BY DEF NextRevert, PhasesLeft, StepsLeft
<1> QED  BY <1>1, <1>2 DEF Onward

\* Every step moves something: validation, connection and loading;
LEMMA SetupCounts ==
    ASSUME Validate \/ Connect \/ ConnectFails \/ Load \/ LoadFails
    PROVE  Moves
<1> USE DEF Running, At, Goto, Finish, Onward, PhasesLeft, StepsLeft, Moves
<1>1. CASE Validate
  BY <1>1 DEF Validate
<1>2. CASE Connect
  BY <1>2 DEF Connect
<1>3. CASE ConnectFails
  BY <1>3 DEF ConnectFails
<1>4. CASE Load
  <2>1. PhasesLeft = 6 /\ Running' = Running
    BY <1>4 DEF Load
  <2>2. CASE req.dryRun
    <3>1. PhasesLeft' = 0
      BY <1>4, <2>2 DEF Load
    <3> QED  BY <2>1, <3>1
  <2>3. CASE ~req.dryRun
    <3>1. phase' \in {"add", "remove"}
      BY <1>4, <2>3 DEF Load, Enter, Following
    <3>2. PhasesLeft' \in {5, 3}
      BY <3>1
    <3> QED  BY <2>1, <3>2
  <2> QED  BY <2>2, <2>3
<1>5. CASE LoadFails
  BY <1>5 DEF LoadFails
<1> QED  BY <1>1, <1>2, <1>3, <1>4, <1>5

\* the steps of ensureCAS;
LEMMA CopyCounts ==
    ASSUME TypeInv, SaveLocal \/ SaveBackup \/ AppendManifest \/ Snapshot
    PROVE  Moves
<1>1. Running' = Running
  BY DEF SaveLocal, SaveBackup, AppendManifest, Snapshot, Running
<1>2. phase \in {"add", "remove"} /\ cur \in Users
  BY DEF SaveLocal, SaveBackup, AppendManifest, Snapshot, Writing
<1>3. cur \in Nat
  BY <1>2, NoSuchUser
<1>4. CASE GoAbort(dirty)
  BY <1>1, <1>2, <1>4, GoAbortOnward DEF Moves, WorkPhases
<1>5. CASE step = "local" /\ (Goto("manifest") \/ Goto("backup"))
  BY <1>1, <1>5 DEF Moves, Onward, Goto, PhasesLeft, StepsLeft, CommandsLeft
<1>6. CASE step = "backup" /\ Goto("manifest")
  BY <1>1, <1>6 DEF Moves, Onward, Goto, PhasesLeft, StepsLeft, CommandsLeft
<1>7. CASE step \in {"manifest", "snapshot"} /\ ToSwap
  BY <1>1, <1>2, <1>3, <1>7, ToSwapOnward DEF Moves
<1> QED
  BY <1>4, <1>5, <1>6, <1>7 DEF SaveLocal, SaveBackup, AppendManifest, Snapshot

\* every outcome of a swap;
LEMMA SwapCounts ==
    ASSUME Swap
    PROVE  Moves
<1>1. Swapping
  BY DEF Swap, SwapAnswered, SwapRefused, SwapLost, SwapLanded, SwapTorn, SwapLate
<1>2. Running' = Running /\ phase \in {"add", "remove"} /\ cur \in Users /\ step = "swap"
  BY <1>1 DEF Swapping, Writing, Running
<1>3. CASE ToCopy(cur)
  BY <1>2, <1>3, NoSuchUser, ToCopyOnward DEF Moves, CopySteps
<1>4. CASE GoAbort(dirty')
  BY <1>2, <1>4, GoAbortOnward DEF Moves, WorkPhases
<1> QED
  BY <1>3, <1>4 DEF Swap, SwapAnswered, SwapRefused, SwapLost, SwapLanded, SwapTorn, SwapLate

\* a health check, whatever phase it begins;
LEMMA CheckHealthCounts ==
    ASSUME TypeInv, CheckHealth
    PROVE  Moves
<1>1. Running' = Running /\ step = "health" /\ phase \in WorkPhases
  BY DEF CheckHealth, Running, TypeInv, ActiveSteps
<1>2. cur \in Nat /\ dirty \in SUBSET Users
  BY UsersAssumption DEF TypeInv, TypeOK
<1>3. CASE GoAbort(dirty)
  BY <1>1, <1>3, GoAbortOnward DEF Moves
<1>4. CASE Begin
  <2>1. CASE phase \in {"add", "remove"}
    <3>1. ToCopy(0)
      BY <1>4, <2>1 DEF Begin
    <3>2. Onward
      BY <1>1, <1>2, <2>1, <3>1, ToCopyOnward DEF WorkPhases
    <3> QED  BY <1>1, <3>2 DEF Moves
  <2>2. CASE phase = "verifyAdd"
    <3>1. StartProbes(AddPairs)
      BY <1>4, <2>2 DEF Begin
    <3>2. Onward
      BY <1>1, <1>2, <2>2, <3>1, StartProbesOnward DEF WorkPhases
    <3> QED  BY <1>1, <3>2 DEF Moves
  <2>3. CASE phase = "verifyRemove"
    <3>1. ToControl(0)
      BY <1>4, <2>3 DEF Begin
    <3>2. Onward
      BY <1>1, <1>2, <2>3, <3>1, ToControlOnward DEF WorkPhases
    <3> QED  BY <1>1, <3>2 DEF Moves
  <2>4. CASE phase = "cleanup"
    <3>1. ToProve(0)
      BY <1>4, <2>4 DEF Begin
    <3>2. Onward
      BY <1>1, <1>2, <2>4, <3>1, ToProveOnward DEF WorkPhases
    <3> QED  BY <1>1, <3>2 DEF Moves
  <2> QED  BY <1>1, <2>1, <2>2, <2>3, <2>4 DEF WorkPhases
<1> QED  BY <1>3, <1>4 DEF CheckHealth

\* The next probe, or the next attempt at the present one.
LEMMA SameStepOnward ==
    ASSUME UNCHANGED <<phase, step, cur>>,
           (\E p \in todo : todo' = todo \ {p}) \/ (todo' = todo /\ tries' = tries + 1)
    PROVE  Onward
<1>1. PhasesLeft' = PhasesLeft /\ StepsLeft' = StepsLeft /\ CommandsLeft' = CommandsLeft
  BY DEF PhasesLeft, StepsLeft, CommandsLeft
<1> QED  BY <1>1 DEF Onward

\* every answer of a probe;
LEMMA ProbeCounts ==
    ASSUME TypeInv, Probe
    PROVE  Moves
<1>1. Running' = Running /\ todo # {} /\ step \in ProbeSteps
  BY DEF Probe, ProbeAgain, ProbeAdded, ProbeRemoved, PositiveControl, ProveAccess, Probing,
         ProbeUnchanged, Running, ProbeSteps
<1>2. Current \in todo
  BY <1>1 DEF Current
<1>3. cur \in Nat /\ dirty \in SUBSET Users
  BY UsersAssumption DEF TypeInv, TypeOK
<1>4. CASE ProbeAgain
  BY <1>1, <1>4, SameStepOnward DEF ProbeAgain, Moves
<1>5. ASSUME todo' = todo \ {Current}, UNCHANGED <<phase, step, cur>> PROVE Onward
  BY <1>2, <1>5, SameStepOnward
<1>6. ASSUME NextProbe, phase \in {"verifyAdd", "verifyRemove"} PROVE Onward
  BY <1>5, <1>6, FollowingOnward DEF NextProbe, WorkPhases
<1>7. CASE ProbeAdded \/ ProbeRemoved
  BY <1>1, <1>6, <1>7, GoAbortOnward DEF ProbeAdded, ProbeRemoved, Moves, WorkPhases
<1>8. CASE PositiveControl \/ ProveAccess
  <2>1. step \in {"control", "prove"} /\ SomeKey /\ phase \in WorkPhases
    BY <1>8 DEF PositiveControl, ProveAccess, Probing, TypeInv, ActiveSteps
  <2>2. CASE ToProve(cur) /\ phase = "cleanup"
    BY <1>1, <1>3, <2>1, <2>2, ToProveOnward DEF Moves
  <2>3. CASE ToControl(cur) /\ phase # "cleanup"
    BY <1>1, <1>3, <2>1, <2>3, ToControlOnward DEF Moves
  <2>4. CASE GoAbort(dirty)
    BY <1>1, <2>1, <2>4, GoAbortOnward DEF Moves
  <2>5. CASE todo' = todo \ {Current} /\ UNCHANGED <<phase, step, cur>>
    BY <1>1, <1>5, <2>5 DEF Moves
  <2> QED  BY <2>1, <2>2, <2>3, <2>4, <2>5 DEF SomeKey
<1> QED  BY <1>4, <1>7, <1>8 DEF Probe

\* the steps of commit and of the release of the guard;
LEMMA EndCounts ==
    ASSUME TypeInv, WriteMarker \/ CloseStdin \/ AwaitGuard \/ RemoveTxDir \/ Report
    PROVE  Moves
<1> USE DEF Running, Moves
<1>1. CASE WriteMarker
  <2>1. Running' = Running /\ phase = "cleanup" /\ step = "marker"
    BY <1>1 DEF WriteMarker, At
  <2>2. CASE GoAbort(dirty)
    BY <2>1, <2>2, GoAbortOnward DEF WorkPhases
  <2>3. CASE Goto("close")
    BY <2>1, <2>3 DEF Goto, Onward, PhasesLeft, StepsLeft
  <2> QED  BY <1>1, <2>2, <2>3 DEF WriteMarker
<1>2. CASE CloseStdin
  BY <1>2 DEF CloseStdin, Goto, Onward, PhasesLeft, StepsLeft
<1>3. Verdict # "none"
  BY DEF Verdict
<1>4. CASE AwaitGuard
  <2>1. CASE phase = "abort"
    BY <1>3, <1>4, <2>1 DEF AwaitGuard, Finish
  <2>2. CASE phase # "abort"
    BY <1>4, <2>2 DEF AwaitGuard, Goto, Onward, PhasesLeft, StepsLeft
  <2> QED  BY <2>1, <2>2
<1>5. CASE RemoveTxDir
  <2>1. commit \in BOOLEAN
    BY DEF TypeInv, TypeOK, GuardTypeOK
  <2> QED  BY <1>5, <2>1 DEF RemoveTxDir, Unlinked, SavedUsers
<1>6. CASE Report
  BY <1>3, <1>6 DEF Report, Finish
<1> QED  BY <1>1, <1>2, <1>4, <1>5, <1>6

\* the steps of abort;
LEMMA AbortCounts ==
    ASSUME Bounded, RevertFile \/ ReadBack \/ Disarm \/ HangUp
    PROVE  Moves
<1> USE DEF Running, Moves, At
<1>1. dirty \in SUBSET Users
  BY DEF Bounded, TypeInv, TypeOK
<1>2. CASE RevertFile
  <2>1. Running' = Running /\ step = "revert" /\ cur \in Users
    BY <1>2 DEF RevertFile, Reverting
  <2>2. CASE Goto("readback")
    BY <2>1, <2>2 DEF Goto, Onward, PhasesLeft, StepsLeft, CommandsLeft
  <2>3. CASE NextRevert
    BY <1>1, <2>1, <2>3, NextRevertOnward
  <2> QED  BY <1>2, <2>2, <2>3 DEF RevertFile, RevertUnanswered
<1>3. CASE ReadBack
  <2>1. Running' = Running /\ step = "readback" /\ cur \in Users /\ NextRevert
    BY <1>3 DEF ReadBack, Bounded
  <2> QED  BY <1>1, <2>1, NextRevertOnward
<1>4. CASE Disarm
  BY <1>4 DEF Disarm, Reverted, Goto, Onward, PhasesLeft, StepsLeft
<1>5. CASE HangUp
  BY <1>5 DEF HangUp, Reverted, Finish
<1> QED  BY <1>2, <1>3, <1>4, <1>5

\* the script, its faults and the environment.
LEMMA HostCounts ==
    ASSUME TypeInv, Trap \/ Environment
    PROVE  Moves
<1>1. CASE Crash
  BY <1>1 DEF Crash, Finish, Running, Moves
<1>2. CASE Script
  <2>1. Running' = Running /\ UNCHANGED <<pcVars, commit, manifest, backup>>
    BY <1>2, ScriptAside DEF asideVars, Running, TrapStep, GuardFault, TrapOnEOF, TrapOnSignal,
       EnterRestore, RestoreEntry, RestoreDone, KillGuard
  <2>2. HostOnward
    BY <1>2, ScriptAside DEF TrapStep, GuardFault, TrapOnEOF, TrapOnSignal, EnterRestore,
       RestoreEntry, RestoreDone, KillGuard, HostOnward, TrapLeft
  <2> QED  BY <2>1, <2>2 DEF Moves
<1>3. CASE GuardExitSeen
  BY <1>3 DEF GuardExitSeen, Running, Moves, HostOnward
<1>4. CASE Drop
  BY <1>4 DEF Drop, Running, Moves, HostOnward
<1>5. CASE Deny
  BY <1>5 DEF Deny, Running, Moves, HostOnward
<1>6. CASE LandLate
  BY <1>6 DEF LandLate, Running, Moves, HostOnward
<1> QED  BY <1>1, <1>2, <1>3, <1>4, <1>5, <1>6 DEF Environment, Script

\* So every step does.
LEMMA EveryStepMoves ==
    ASSUME Bounded, Client \/ Trap \/ Environment
    PROVE  Moves
<1>1. TypeInv
  BY DEF Bounded
<1> QED
  BY <1>1, SetupCounts, CopyCounts, SwapCounts, CheckHealthCounts, ProbeCounts, EndCounts, AbortCounts,
     HostCounts DEF Client

\* To begin with everything is bounded.
LEMMA BoundedInit == Init => Bounded
<1> SUFFICES ASSUME Init PROVE Bounded
  OBVIOUS
<1>1. TypeInv
  BY InitType
<1>2. tries < ProbeAttempts
  BY AttemptsAssumption DEF Init
<1>3. IsFiniteSet(late)
  BY FS_EmptySet DEF Init
<1> QED  BY <1>1, <1>2, <1>3 DEF Init, Bounded

\* A probe is attempted ProbeAttempts times at most (probeVerdict).
LEMMA AttemptsBounded ==
    ASSUME Bounded, [Next]_vars
    PROVE  tries' < ProbeAttempts
<1>1. tries \in Nat /\ tries < ProbeAttempts /\ 0 < ProbeAttempts /\ ProbeAttempts \in Nat
  BY AttemptsAssumption DEF Bounded, TypeInv, TypeOK
<1> SUFFICES tries' \in {0, tries} \/ (tries' = tries + 1 /\ tries + 1 < ProbeAttempts)
  BY <1>1
<1>2. CASE Client
  <2> USE DEF At, Goto, Enter, GoAbort, ToCopy, ToSwap, StartProbes, ToControl, ToProve, NextRevert
  <2>1. CASE Validate \/ Connect \/ ConnectFails \/ Load \/ LoadFails
    BY <2>1 DEF Validate, Connect, ConnectFails, Load, LoadFails
  <2>2. CASE SaveLocal \/ SaveBackup \/ AppendManifest \/ Snapshot
    BY <2>2 DEF SaveLocal, SaveBackup, AppendManifest, Snapshot
  <2>3. CASE Swap
    BY <2>3 DEF Swap, SwapAnswered, SwapRefused, SwapLost, SwapLanded, SwapTorn, SwapLate
  <2>4. CASE CheckHealth
    <3>1. CASE GoAbort(dirty)
      BY <3>1
    <3>2. CASE Begin
      <4>1. phase \in WorkPhases
        BY <2>4 DEF CheckHealth, Bounded, TypeInv, ActiveSteps
      <4> QED  BY <3>2, <4>1 DEF Begin, WorkPhases
    <3> QED  BY <2>4, <3>1, <3>2 DEF CheckHealth
  <2>5. CASE Probe
    BY <2>5 DEF Probe, ProbeAgain, ProbeAdded, ProbeRemoved, PositiveControl, ProveAccess,
                NextProbe, SomeKey
  <2>6. CASE WriteMarker \/ CloseStdin \/ AwaitGuard \/ RemoveTxDir \/ Report
    BY <2>6 DEF WriteMarker, CloseStdin, AwaitGuard, RemoveTxDir, Report
  <2>7. CASE RevertFile \/ ReadBack \/ Disarm \/ HangUp
    BY <2>7 DEF RevertFile, RevertUnanswered, ReadBack, Disarm, HangUp
  <2> QED
    BY <1>2, <2>1, <2>2, <2>3, <2>4, <2>5, <2>6, <2>7 DEF Client
<1>3. CASE ~Client
  BY <1>3 DEF Next, Trap, Environment, clientVars, GuardExitSeen, Drop, Crash, Deny, LandLate,
              Rest, vars
<1> QED  BY <1>2, <1>3

\* A read-back is of the file of a user.
LEMMA ReadBackBounded ==
    ASSUME Bounded, [Next]_vars, step' = "readback"
    PROVE  cur' \in Users
<1>1. ASSUME UNCHANGED <<step, cur>> PROVE cur' \in Users
  BY <1>1 DEF Bounded
<1>2. CASE Client
  <2> USE DEF At, Goto, Enter, GoAbort, ToCopy, ToSwap, StartProbes, ToControl, ToProve, NextRevert
  <2>1. CASE Validate \/ Connect \/ ConnectFails \/ Load \/ LoadFails
    BY <1>1, <2>1 DEF Validate, Connect, ConnectFails, Load, LoadFails
  <2>2. CASE SaveLocal \/ SaveBackup \/ AppendManifest \/ Snapshot
    BY <2>2 DEF SaveLocal, SaveBackup, AppendManifest, Snapshot
  <2>3. CASE Swap
    BY <2>3 DEF Swap, SwapAnswered, SwapRefused, SwapLost, SwapLanded, SwapTorn, SwapLate
  <2>4. CASE CheckHealth
    <3>1. CASE GoAbort(dirty)
      BY <3>1
    <3>2. CASE Begin
      <4>1. phase \in WorkPhases
        BY <2>4 DEF CheckHealth, Bounded, TypeInv, ActiveSteps
      <4> QED  BY <3>2, <4>1 DEF Begin, WorkPhases
    <3> QED  BY <2>4, <3>1, <3>2 DEF CheckHealth
  <2>5. CASE Probe
    BY <1>1, <2>5 DEF Probe, ProbeAgain, ProbeAdded, ProbeRemoved, PositiveControl, ProveAccess,
                NextProbe, SomeKey
  <2>6. CASE WriteMarker \/ CloseStdin \/ AwaitGuard \/ RemoveTxDir \/ Report
    BY <1>1, <2>6 DEF WriteMarker, CloseStdin, AwaitGuard, RemoveTxDir, Report
  <2>7. CASE RevertFile
    BY <2>7 DEF RevertFile, RevertUnanswered, Reverting
  <2>8. CASE ReadBack \/ Disarm \/ HangUp
    BY <1>1, <2>8 DEF ReadBack, Disarm, HangUp
  <2> QED
    BY <1>2, <2>1, <2>2, <2>3, <2>4, <2>5, <2>6, <2>7, <2>8 DEF Client
<1>3. CASE ~Client
  BY <1>1, <1>3 DEF Next, Trap, Environment, clientVars, GuardExitSeen, Drop, Crash, Deny,
                    LandLate, Rest, vars
<1> QED  BY <1>2, <1>3

\* Swaps that are given up are added one by one.
LEMMA LateBounded ==
    ASSUME Bounded, [Next]_vars
    PROVE  IsFiniteSet(late')
<1>1. IsFiniteSet(late)
  BY DEF Bounded
<1>2. CASE SwapLate \/ (RevertFile /\ late' # late)
  <2>1. PICK w : late' = late \cup {w}
    BY <1>2 DEF SwapLate, RevertFile, RevertUnanswered
  <2> QED  BY <1>1, <2>1, FS_AddElement
<1>3. CASE LandLate
  <2>1. PICK w : late' = late \ {w}
    BY <1>3 DEF LandLate
  <2> QED  BY <1>1, <2>1, FS_RemoveElement
<1>4. CASE ~SwapLate /\ ~LandLate /\ ~(RevertFile /\ late' # late)
  <2>1. late' = late
    <3>1. CASE Swap
      BY <1>4, <3>1 DEF Swap, SwapAnswered, SwapRefused, SwapLost, SwapLanded, SwapTorn
    <3>2. CASE Client /\ ~Swap
      BY <1>4, <3>2 DEF Client, Validate, Connect, ConnectFails, Load, LoadFails, SaveLocal, SaveBackup,
         AppendManifest, Snapshot, CheckHealth, Probe, ProbeAgain, ProbeAdded, ProbeRemoved,
         PositiveControl, ProveAccess, ProbeUnchanged, WriteMarker, CloseStdin, AwaitGuard,
         RemoveTxDir, Report, ReadBack, Disarm, HangUp
    <3>3. CASE ~Client
      BY <1>4, <3>3 DEF Next, Trap, Environment, clientVars, GuardExitSeen, Drop, Crash, Deny,
         Rest, vars
    <3> QED  BY <3>1, <3>2, <3>3
  <2> QED  BY <1>1, <2>1
<1> QED  BY <1>2, <1>3, <1>4

\* Every step keeps the bounds.
LEMMA BoundedStep == Bounded /\ [Next]_vars => Bounded'
<1> SUFFICES ASSUME Bounded, [Next]_vars PROVE Bounded'
  OBVIOUS
<1>1. TypeInv'
  BY StepType DEF Bounded
<1> QED
  BY <1>1, AttemptsBounded, ReadBackBounded, LateBounded DEF Bounded

\* What is counted is finite.
LEMMA CountsAreFinite ==
    ASSUME IsFiniteSet(Keys), Bounded
    PROVE  /\ IsFiniteSet(todo) /\ IsFiniteSet(late)
           /\ IsFiniteSet(SavedUsers) /\ IsFiniteSet(Users \ denied)
<1>1. IsFiniteSet(Users)
  BY FS_Interval, UsersAssumption DEF Users
<1>2. IsFiniteSet(Users \X Keys)
  BY <1>1, FS_Product
<1>3. IsFiniteSet(todo)
  BY <1>2, FS_Subset DEF Bounded, TypeInv, TypeOK
<1>4. SavedUsers \in SUBSET Users /\ Users \ denied \in SUBSET Users
  BY DEF SavedUsers
<1> QED  BY <1>1, <1>3, <1>4, FS_Subset DEF Bounded

\* The names in $TX are a number.
LEMMA InTxDirType ==
    ASSUME IsFiniteSet(Keys), Bounded
    PROVE  InTxDir \in Nat
<1>1. Cardinality(SavedUsers) \in Nat
  BY CountsAreFinite, FS_CardinalityType
<1> QED  BY <1>1 DEF InTxDir, Flag

\* The parts of what is left, and those of what will be left.
Parts ==
    /\ Remaining[1] = Flag(Running)
    /\ Remaining[2] = PhasesLeft
    /\ Remaining[3] = StepsLeft
    /\ Remaining[4] = NumUsers + 1 - cur
    /\ Remaining[5] = CommandsLeft
    /\ Remaining[6] = Cardinality(todo)
    /\ Remaining[7] = ProbeAttempts - tries
    /\ Remaining[8] = InTxDir
    /\ Remaining[9] = TrapLeft
    /\ Remaining[10] = Len(queue)
    /\ Remaining[11] = Cardinality(Users \ denied)
    /\ Remaining[12] = Cardinality(late)
    /\ Remaining[13] = Flag(conn = "up")
    /\ Remaining[14] = Flag(~exitSeen)

LEMMA RemainingAt == Parts /\ Parts'
  BY DEF Parts, Remaining

\* What is left are numbers.
Counted == Remaining \in [1..14 -> Nat]

\* So is everything that is left.
LEMMA RemainingType ==
    ASSUME IsFiniteSet(Keys), Bounded
    PROVE  Counted
<1>1. PhasesLeft \in Nat
  BY DEF PhasesLeft
<1>2. StepsLeft \in Nat
  BY DEF StepsLeft
<1>3. CommandsLeft \in Nat /\ TrapLeft \in Nat
  BY DEF CommandsLeft, TrapLeft
<1>4. Flag(Running) \in Nat /\ Flag(conn = "up") \in Nat /\ Flag(~exitSeen) \in Nat
  BY DEF Flag
<1>5. NumUsers + 1 - cur \in Nat
  BY UsersAssumption DEF Bounded, TypeInv, TypeOK
<1>6. ProbeAttempts - tries \in Nat
  BY AttemptsAssumption DEF Bounded, TypeInv, TypeOK
<1>7. Len(queue) \in Nat
  BY DEF Bounded, TypeInv, TypeOK, GuardTypeOK
<1>8. Cardinality(todo) \in Nat /\ Cardinality(late) \in Nat /\ Cardinality(Users \ denied) \in Nat
  BY CountsAreFinite, FS_CardinalityType
<1>9. \A i \in 1..14 : Remaining[i] \in Nat
  <2>1. /\ Remaining[1] \in Nat /\ Remaining[2] \in Nat /\ Remaining[3] \in Nat
        /\ Remaining[4] \in Nat /\ Remaining[5] \in Nat /\ Remaining[6] \in Nat
        /\ Remaining[7] \in Nat /\ Remaining[8] \in Nat /\ Remaining[9] \in Nat
        /\ Remaining[10] \in Nat /\ Remaining[11] \in Nat /\ Remaining[12] \in Nat
        /\ Remaining[13] \in Nat /\ Remaining[14] \in Nat
    BY <1>1, <1>2, <1>3, <1>4, <1>5, <1>6, <1>7, <1>8, InTxDirType, RemainingAt, Zenon DEF Parts
  <2>2. \A i \in 1..14 : \/ i = 1 \/ i = 2 \/ i = 3 \/ i = 4 \/ i = 5 \/ i = 6 \/ i = 7
                          \/ i = 8 \/ i = 9 \/ i = 10 \/ i = 11 \/ i = 12 \/ i = 13 \/ i = 14
    OBVIOUS
  <2> QED  BY <2>1, <2>2, Zenon
<1>10. Remaining = [i \in 1..14 |-> Remaining[i]]
  BY DEF Remaining
<1> QED  BY <1>9, <1>10 DEF Counted

\* What is less at the first place that differs is less.
LEMMA Lower ==
    ASSUME NEW r \in [1..14 -> Nat], NEW s \in [1..14 -> Nat], NEW j \in 1..14,
           s[j] < r[j], \A i \in 1..(j - 1) : s[i] = r[i]
    PROVE  <<s, r>> \in Fewer
<1>1. <<s[j], r[j]>> \in Below
  BY DEF Below
<1> QED  BY <1>1 DEF Fewer, LexProductOrdering

\* A set without one of its members is smaller.
LEMMA OneLess ==
    ASSUME NEW S, IsFiniteSet(S), NEW x \in S
    PROVE  Cardinality(S \ {x}) < Cardinality(S)
<1>1. Cardinality(S) \in Nat /\ Cardinality(S \ {x}) = Cardinality(S) - 1
  BY FS_CardinalityType, FS_RemoveElement
<1> QED  BY <1>1

\* When the client's place moves on, less is left;
LEMMA OnwardIsFewer ==
    ASSUME IsFiniteSet(Keys), Bounded, Bounded', Counted, Counted', Running' = Running, Onward
    PROVE  Lessens
<1>1. Remaining \in [1..14 -> Nat] /\ Remaining' \in [1..14 -> Nat]
  BY DEF Counted
<1> DEFINE Down(j) == Remaining'[j] < Remaining[j] /\ \A i \in 1..(j - 1) : Remaining'[i] = Remaining[i]
<1>2. ASSUME NEW j \in 1..14, Down(j) PROVE Lessens
  BY <1>1, <1>2, Lower DEF Lessens
<1>3. Remaining'[1] = Remaining[1]
  BY RemainingAt DEF Parts, Flag
<1>4. cur \in Nat /\ cur' \in Nat /\ tries \in Nat /\ tries' \in Nat
      /\ NumUsers \in Nat /\ ProbeAttempts \in Nat
  BY UsersAssumption, AttemptsAssumption DEF Bounded, TypeInv, TypeOK
<1>5. CASE PhasesLeft' < PhasesLeft
  <2>1. Down(2)
    BY <1>3, <1>5, RemainingAt DEF Parts
  <2> QED  BY <1>2, <2>1
<1>6. CASE PhasesLeft' = PhasesLeft /\ StepsLeft' < StepsLeft
  <2>1. Down(3)
    BY <1>3, <1>6, RemainingAt DEF Parts
  <2> QED  BY <1>2, <2>1
<1>7. CASE PhasesLeft' = PhasesLeft /\ StepsLeft' = StepsLeft /\ cur' > cur
  <2>1. NumUsers + 1 - cur' < NumUsers + 1 - cur
    <3>1. \A n, i, j \in Nat : j > i => n + 1 - j < n + 1 - i
      OBVIOUS
    <3> QED  BY <3>1, <1>4, <1>7, Zenon
  <2>2. Remaining'[4] < Remaining[4]
    BY <2>1, RemainingAt DEF Parts
  <2>3. \A i \in 1..3 : Remaining'[i] = Remaining[i]
    BY <1>3, <1>7, RemainingAt DEF Parts
  <2> QED  BY <1>2, <2>2, <2>3
<1>8. CASE PhasesLeft' = PhasesLeft /\ StepsLeft' = StepsLeft /\ cur' = cur /\ CommandsLeft' < CommandsLeft
  <2>1. Down(5)
    BY <1>3, <1>4, <1>8, RemainingAt DEF Parts
  <2> QED  BY <1>2, <2>1
<1>9. ASSUME PhasesLeft' = PhasesLeft, StepsLeft' = StepsLeft, cur' = cur, CommandsLeft' = CommandsLeft,
             NEW p \in todo, todo' = todo \ {p}
      PROVE  Lessens
  <2>1. Cardinality(todo') < Cardinality(todo)
    BY <1>9, OneLess, CountsAreFinite
  <2>2. Down(6)
    BY <1>3, <1>4, <1>9, <2>1, RemainingAt DEF Parts
  <2> QED  BY <1>2, <2>2
<1>10. CASE PhasesLeft' = PhasesLeft /\ StepsLeft' = StepsLeft /\ cur' = cur /\ CommandsLeft' = CommandsLeft
            /\ todo' = todo /\ tries' = tries + 1
  <2>1. Down(7)
    BY <1>3, <1>4, <1>10, RemainingAt DEF Parts
  <2> QED  BY <1>2, <2>1
<1> QED  BY <1>5, <1>6, <1>7, <1>8, <1>9, <1>10 DEF Onward

\* so it is when rm has unlinked a name,
LEMMA UnlinkedIsFewer ==
    ASSUME IsFiniteSet(Keys), Bounded, Counted, Counted', Running' = Running, Unlinked
    PROVE  Lessens
<1>1. Remaining \in [1..14 -> Nat] /\ Remaining' \in [1..14 -> Nat]
  BY DEF Counted
<1>2. /\ Flag(Running)' = Flag(Running)
      /\ UNCHANGED <<PhasesLeft, StepsLeft, CommandsLeft, cur, todo, tries>>
  BY DEF Unlinked, Flag, PhasesLeft, StepsLeft, CommandsLeft
<1>3. InTxDir' < InTxDir
  <2>1. Cardinality(SavedUsers) \in Nat
    BY CountsAreFinite, FS_CardinalityType
  <2>2. CASE commit /\ ~commit' /\ UNCHANGED <<manifest, backup>>
    <3>1. SavedUsers' = SavedUsers
      BY <2>2 DEF SavedUsers
    <3> QED  BY <2>1, <2>2, <3>1 DEF InTxDir, Flag
  <2>3. CASE manifest # << >> /\ manifest' = << >> /\ UNCHANGED <<commit, backup>>
    <3>1. SavedUsers' = SavedUsers
      BY <2>3 DEF SavedUsers
    <3> QED  BY <2>1, <2>3, <3>1 DEF InTxDir, Flag
  <2>4. ASSUME NEW u \in SavedUsers, backup' = [backup EXCEPT ![u] = Absent],
               UNCHANGED <<commit, manifest>>
        PROVE  InTxDir' < InTxDir
    <3>1. SavedUsers' = SavedUsers \ {u}
      BY <2>4 DEF SavedUsers, Bounded, TypeInv, TypeOK, GuardTypeOK
    <3>2. Cardinality(SavedUsers') = Cardinality(SavedUsers) - 1
      BY <3>1, CountsAreFinite, FS_RemoveElement
    <3> QED  BY <2>1, <2>4, <3>2 DEF InTxDir, Flag
  <2> QED  BY <2>2, <2>3, <2>4 DEF Unlinked
<1>4. Remaining'[8] < Remaining[8] /\ \A i \in 1..7 : Remaining'[i] = Remaining[i]
  BY <1>2, <1>3, RemainingAt DEF Parts
<1> QED  BY <1>1, <1>4, Lower DEF Lessens

\* and when something else than the client has moved.
LEMMA HostOnwardIsFewer ==
    ASSUME IsFiniteSet(Keys), Bounded, Bounded', Counted, Counted', Running' = Running,
           UNCHANGED <<pcVars, commit, manifest, backup>>, HostOnward
    PROVE  Lessens
<1>1. Remaining \in [1..14 -> Nat] /\ Remaining' \in [1..14 -> Nat]
  BY DEF Counted
<1> DEFINE Down(j) == Remaining'[j] < Remaining[j] /\ \A i \in 1..(j - 1) : Remaining'[i] = Remaining[i]
<1>2. ASSUME NEW j \in 1..14, Down(j) PROVE Lessens
  BY <1>1, <1>2, Lower DEF Lessens
<1>3. /\ Flag(Running)' = Flag(Running)
      /\ UNCHANGED <<PhasesLeft, StepsLeft, CommandsLeft, cur, todo, tries, InTxDir>>
  BY DEF Flag, PhasesLeft, StepsLeft, CommandsLeft, InTxDir, SavedUsers
<1>4. \A i \in 1..8 : Remaining'[i] = Remaining[i]
  BY <1>3, RemainingAt DEF Parts
<1>5. CASE TrapLeft' < TrapLeft
  <2>1. Down(9)
    BY <1>4, <1>5, RemainingAt DEF Parts
  <2> QED  BY <1>2, <2>1
<1>6. ASSUME guard' = guard PROVE Remaining'[9] = Remaining[9]
  BY <1>6, RemainingAt DEF Parts, TrapLeft
<1>7. CASE guard' = guard /\ queue # << >> /\ queue' = Tail(queue)
  <2>1. queue \in Seq(Entries)
    BY DEF Bounded, TypeInv, TypeOK, GuardTypeOK
  <2>2. Len(queue') < Len(queue)
    BY <1>7, <2>1
  <2>3. Down(10)
    BY <1>4, <1>6, <1>7, <2>2, RemainingAt DEF Parts
  <2> QED  BY <1>2, <2>3
<1>8. ASSUME guard' = guard, queue' = queue PROVE \A i \in 1..10 : Remaining'[i] = Remaining[i]
  BY <1>4, <1>6, <1>8, RemainingAt DEF Parts
<1>9. ASSUME guard' = guard, queue' = queue, NEW u \in Users \ denied, denied' = denied \cup {u}
      PROVE  Lessens
  <2>1. Users \ denied' = (Users \ denied) \ {u}
    BY <1>9
  <2>2. Cardinality(Users \ denied') < Cardinality(Users \ denied)
    BY <2>1, OneLess, CountsAreFinite
  <2>3. Down(11)
    BY <1>8, <1>9, <2>2, RemainingAt DEF Parts
  <2> QED  BY <1>2, <2>3
<1>10. ASSUME guard' = guard, queue' = queue, denied' = denied, NEW w \in late, late' = late \ {w}
       PROVE  Lessens
  <2>1. Cardinality(late') < Cardinality(late)
    BY <1>10, OneLess, CountsAreFinite
  <2>2. Down(12)
    BY <1>8, <1>10, <2>1, RemainingAt DEF Parts
  <2> QED  BY <1>2, <2>2
<1>11. CASE guard' = guard /\ queue' = queue /\ denied' = denied /\ late' = late
            /\ conn = "up" /\ conn' = "down"
  <2>1. Down(13)
    BY <1>8, <1>11, RemainingAt DEF Parts, Flag
  <2> QED  BY <1>2, <2>1
<1>12. CASE guard' = guard /\ queue' = queue /\ denied' = denied /\ late' = late
            /\ conn' = conn /\ ~exitSeen /\ exitSeen'
  <2>1. Down(14)
    BY <1>8, <1>12, RemainingAt DEF Parts, Flag
  <2> QED  BY <1>2, <2>1
<1> QED  BY <1>5, <1>7, <1>9, <1>10, <1>11, <1>12 DEF HostOnward

\* Every step that changes anything leaves less.
LEMMA EveryStepIsFewer ==
    ASSUME IsFiniteSet(Keys), Bounded, Bounded', Counted, Counted', [Next]_vars, vars' # vars
    PROVE  Lessens
<1>1. Moves
  BY EveryStepMoves DEF Next, Rest
<1>2. CASE Running /\ ~Running'
  <2>1. Remaining'[1] < Remaining[1]
    BY <1>2, RemainingAt DEF Parts, Flag
  <2> QED  BY <2>1, Lower DEF Counted, Lessens
<1> QED
  BY <1>1, <1>2, OnwardIsFewer, UnlinkedIsFewer, HostOnwardIsFewer DEF Moves

\* Every step, of the client (tx.go), of the trap (guard.go) or of what is nobody's choice,
\* leaves less to be done, in an order in which nothing descends for ever: no run, with
\* whatever faults, goes around in circles, if there are finitely many keys.
THEOREM EveryStepCounts ==
    ASSUME IsFiniteSet(Keys)
    PROVE  /\ IsWellFoundedOn(Fewer, [1..14 -> Nat])
           /\ Spec => []Counted /\ [][Lessens]_vars
<1>1. IsWellFoundedOn(Fewer, [1..14 -> Nat])
  <2>1. IsWellFoundedOn(Below, Nat)
    BY NatLessThanWellFounded DEF OpToRel, Below
  <2> QED  BY <2>1, WFLexProductOrdering DEF Fewer
<1>2. Bounded => Counted
  BY RemainingType
<1>3. /\ Bounded /\ Bounded' /\ Counted /\ Counted' /\ [Next]_vars
      => [Lessens]_vars
  BY EveryStepIsFewer
<1>4. Spec => []Counted /\ [][Lessens]_vars
  BY <1>2, <1>3, BoundedInit, BoundedStep, PTL DEF Spec
<1> QED  BY <1>1, <1>4
=============================================================================
