----------------------------- MODULE AuditProofs -----------------------------
(***************************************************************************)
(* For any claims, users, paths and writers: the verdicts of one run of    *)
(* `check` about one user are those of a single content of the file.       *)
(* Every file is one that the guard user can see.                          *)
(***************************************************************************)
EXTENDS Audit, TLAPS

\* A file has held what it holds, and what was read of it was held.
Remembered ==
    /\ \A p \in Paths : file[p] \in held[p]
    /\ DOMAIN held = Paths
    /\ \A u \in Users : u \in DOMAIN files => files[u] \in held[PathOf[u]]

\* The claims before the one at hand are judged, each by what was read.
Judged ==
    /\ failed \subseteq 1..(at - 1)
    /\ \A i \in 1..(at - 1) :
        /\ claims[i].user \in DOMAIN files
        /\ i \in failed <=> ~Holds(claims[i], files[claims[i].user])

\* The exit code sums up all the verdicts.
Reported ==
    exit \in {"ok", "violations"} => at > Len(claims) /\ (exit = "ok" <=> failed = {})

Reading == claims \in Seq(Argument) /\ at \in Nat \ {0} /\ Remembered /\ Judged /\ Reported

LEMMA ReadingInit == Init => Reading
<1> SUFFICES ASSUME Init PROVE Reading
  OBVIOUS
<1>1. claims \in Seq(Argument)
  <2>1. PICK line \in CommandLine : claims = line.present \o line.absent
    BY CommandLinesAssumption DEF Init, Ordered
  <2>2. line.present \in Seq(Argument) /\ line.absent \in Seq(Argument)
    <3>1. {a \in Argument : a.flag = "present"} \subseteq Argument
          /\ {a \in Argument : a.flag = "absent"} \subseteq Argument
      OBVIOUS
    <3> QED
      BY <3>1 DEF CommandLine
  <2> QED
    BY <2>1, <2>2
<1>2. Remembered
  BY DEF Init, Remembered
<1>3. Judged /\ Reported /\ at \in Nat \ {0}
  BY DEF Init, Judged, Reported
<1> QED
  BY <1>1, <1>2, <1>3 DEF Reading

\* The file of a user is read once, and its keys are what it held at that time.
LEMMA LoadKeeps ==
    ASSUME Hidden = {}, Reading, Load
    PROVE  Reading'
<1>1. /\ UNCHANGED <<file, held, claims, at, failed, exit>> /\ User \notin DOMAIN files
      /\ DOMAIN files' = DOMAIN files \cup {User}
      /\ files'[User] = Content(PathOf[User])
      /\ \A u \in DOMAIN files : files'[u] = files[u]
  BY DEF Load, hostVars
<1>2. Content(PathOf[User]) = file[PathOf[User]]
  BY DEF Content
<1>3. Remembered'
  BY <1>1, <1>2, PathsAssumption DEF Reading, Remembered
<1>4. Judged'
  BY <1>1 DEF Reading, Judged, Holds
<1> QED
  BY <1>1, <1>3, <1>4 DEF Reading, Reported

LEMMA JudgeKeeps ==
    ASSUME Reading, Judge
    PROVE  Reading'
<1>1. /\ UNCHANGED <<file, held, claims, files, exit>> /\ exit = "none" /\ at' = at + 1
      /\ claims[at].user \in DOMAIN files
      /\ failed' = IF Holds(claims[at], files[claims[at].user]) THEN failed ELSE failed \cup {at}
  BY DEF Judge, Judging, Running, User, hostVars
<1>2. at \in Nat \ {0} /\ at \notin failed
  BY DEF Reading, Judged
<1>3. \A i \in 1..(at' - 1) : i = at \/ i \in 1..(at - 1)
  BY <1>1, <1>2
<1>4. failed' \subseteq 1..(at' - 1)
  <2>1. failed \subseteq 1..(at - 1)
    BY DEF Reading, Judged
  <2>2. at' - 1 = at /\ \A i \in 1..(at - 1) : i \in 1..at
    BY <1>1, <1>2
  <2>3. at \in 1..at
    BY <1>2
  <2> QED
    BY <1>1, <2>1, <2>2, <2>3
<1>5. Judged'
  <2> SUFFICES ASSUME NEW i \in 1..(at' - 1)
               PROVE  /\ claims[i].user \in DOMAIN files
                      /\ i \in failed' <=> ~Holds(claims[i], files[claims[i].user])
    BY <1>1, <1>4 DEF Judged, Holds
  <2>1. CASE i = at
    BY <1>1, <1>2, <2>1
  <2>2. CASE i # at
    BY <1>1, <1>3, <2>2 DEF Reading, Judged
  <2> QED
    BY <2>1, <2>2
<1> QED
  BY <1>1, <1>2, <1>5 DEF Reading, Remembered, Reported

\* The steps that read and judge nothing.
LEMMA OthersKeep ==
    ASSUME Reading, Refuse \/ Dial \/ DialFails \/ LoadFails \/ Report \/ Over \/ UNCHANGED vars
    PROVE  Reading'
<1>1. UNCHANGED <<file, held, claims, at, files, failed>>
  BY DEF Refuse, Dial, DialFails, LoadFails, Report, Over, vars, Exits, hostVars
<1>2. Remembered' /\ Judged'
  BY <1>1 DEF Reading, Remembered, Judged, Holds
<1>3. Reported'
  BY <1>1 DEF Reading, Reported, Refuse, Dial, DialFails, LoadFails, Report, Over, vars, Exits
<1> QED
  BY <1>1, <1>2, <1>3 DEF Reading

\* What a file has held it will have held.
LEMMA RewriteKeeps ==
    ASSUME Reading, Rewrite
    PROVE  Reading'
<1>1. UNCHANGED <<claims, at, files, failed, exit>>
  BY DEF Rewrite
<1>2. PICK p \in Paths, c \in SUBSET Keys :
          /\ file' = [file EXCEPT ![p] = c]
          /\ held' = [held EXCEPT ![p] = @ \cup {c}]
  BY DEF Rewrite
<1>3. DOMAIN held' = Paths /\ \A q \in Paths : held[q] \subseteq held'[q]
  BY <1>2 DEF Reading, Remembered
<1>4. \A q \in Paths : file'[q] \in held'[q]
  BY <1>2, <1>3 DEF Reading, Remembered
<1>5. Remembered'
  BY <1>1, <1>3, <1>4, PathsAssumption DEF Reading, Remembered
<1> QED
  BY <1>1, <1>5 DEF Reading, Judged, Reported, Holds

LEMMA ReadingStep == ASSUME Hidden = {} PROVE Reading /\ [Next]_vars => Reading'
  BY LoadKeeps, JudgeKeeps, OthersKeep, RewriteKeeps DEF Next, Check

----------------------------------------------------------------------------
LEMMA ReadingShows == Reading => OneReading
<1> SUFFICES ASSUME Reading, exit \in {"ok", "violations"}, NEW u \in Users
             PROVE  \E c \in held[PathOf[u]] :
                        \A i \in ClaimsOf(u) : i \in failed <=> ~Holds(claims[i], c)
  BY DEF Reading, Reported, OneReading
<1>1. Len(claims) \in Nat /\ at \in Nat /\ at > Len(claims)
  BY DEF Reading, Reported
<1>2. \A i \in ClaimsOf(u) : i \in 1..(at - 1) /\ claims[i].user = u
  BY <1>1 DEF ClaimsOf
<1>3. CASE u \in DOMAIN files
  <2>1. files[u] \in held[PathOf[u]]
    BY <1>3 DEF Reading, Remembered
  <2>2. \A i \in ClaimsOf(u) : i \in failed <=> ~Holds(claims[i], files[u])
    BY <1>2 DEF Reading, Judged
  <2> QED
    BY <2>1, <2>2
<1>4. CASE u \notin DOMAIN files
  <2>1. ClaimsOf(u) = {}
    BY <1>2, <1>4 DEF Reading, Judged
  <2>2. file[PathOf[u]] \in held[PathOf[u]]
    BY PathsAssumption DEF Reading, Remembered
  <2> QED
    BY <2>1, <2>2
<1> QED
  BY <1>3, <1>4

\* The verdicts about a user are those of one content that the file had while
\* the command ran, however many claims there are and whoever writes meanwhile
\* (checkCmd: the cache of load), if the guard user sees every file.
THEOREM OneReadingAlways ==
    ASSUME Hidden = {}
    PROVE  Spec => []OneReading
<1>1. Reading /\ [Next]_vars => Reading'
  BY ReadingStep
<1> QED
  BY <1>1, ReadingInit, ReadingShows, PTL DEF Spec
=============================================================================
