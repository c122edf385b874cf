------------------------------- MODULE Audit -------------------------------
(***************************************************************************)
(* `sshkeytx check` (checkCmd in cli.go): claims that keys are in, or not  *)
(* in, the files of users, judged one after the other over one connection, *)
(* while others rewrite the files: runs of `apply`, their traps (which     *)
(* empty a file before they fill it), configuration management.            *)
(*                                                                         *)
(* A claim by fingerprint and one by key are the same.  A content is the   *)
(* set of the keys Parse finds in it; a missing file holds none.           *)
(***************************************************************************)
EXTENDS Naturals, Sequences

CONSTANTS
    Users, Keys, Paths,
    PathOf,         \* the path of each user: two may share one
    CommandLines,   \* what an operator may type
    Unknown,        \* users the host does not know
    Hidden,         \* paths in a directory the guard user cannot search
    InitialFiles,   \* what the files may hold beforehand
    MaxWrites       \* bound: how often somebody rewrites a file meanwhile

\* --present user=KEY or --absent user=KEY; one in a form that parseUserSpec
\* does not take is bad.
Argument == [flag : {"present", "absent"}, user : Users, key : Keys, bad : BOOLEAN]

\* cobra collects the arguments of each flag in the order they were given.
CommandLine == [present : Seq({a \in Argument : a.flag = "present"}),
                absent : Seq({a \in Argument : a.flag = "absent"})]

ASSUME PathsAssumption == PathOf \in [Users -> Paths] /\ Hidden \subseteq Paths

ASSUME CommandLinesAssumption == CommandLines \subseteq CommandLine

ASSUME UnknownAssumption == Unknown \subseteq Users

ASSUME FilesAssumption == InitialFiles \subseteq [Paths -> SUBSET Keys]

ASSUME MaxWritesAssumption == MaxWrites \in Nat

VARIABLES
    file,       \* the keys of each file
    writes,     \* how often one has been rewritten
    claims,     \* the arguments, presences first
    dialed,     \* the client is connected
    at,         \* the claim its loop is at
    files,      \* the map files: what was read, by user
    failed,     \* the claims for which it printed FAIL
    exit,       \* the exit code; "none" while running
    held        \* history: what each file has held since the command started

hostVars == <<file, writes, held>>

vars == <<hostVars, claims, dialed, at, files, failed, exit>>

TypeOK ==
    /\ file \in [Paths -> SUBSET Keys]
    /\ writes \in 0..MaxWrites
    /\ claims \in Seq(Argument)
    /\ dialed \in BOOLEAN
    /\ at \in 1..(Len(claims) + 1)
    /\ DOMAIN files \subseteq Users
    /\ \A u \in DOMAIN files : files[u] \in held[PathOf[u]] \cup {{}}
    /\ failed \subseteq 1..(at - 1)
    /\ exit \in {"none", "ok", "violations", "usage", "preflight"}

\* The loop over --present comes before the loop over --absent.
Ordered(line) == line.present \o line.absent

Init ==
    /\ file \in InitialFiles
    /\ writes = 0
    /\ \E line \in CommandLines : claims = Ordered(line)
    /\ dialed = FALSE /\ at = 1 /\ files = << >> /\ failed = {} /\ exit = "none"
    /\ held = [p \in Paths |-> {file[p]}]

----------------------------------------------------------------------------
Running == exit = "none"

WellFormed == claims # << >> /\ \A i \in 1..Len(claims) : ~claims[i].bad

\* Main: what the command returned decides the exit code.
Exits(code) == exit' = code /\ UNCHANGED <<hostVars, claims, dialed, at, files, failed>>

\* parseUserSpecs and the check for an empty line come before anything else.
Refuse == Running /\ ~dialed /\ ~WellFormed /\ Exits("usage")

Dial ==
    /\ Running /\ ~dialed /\ WellFormed
    /\ dialed' = TRUE
    /\ UNCHANGED <<hostVars, claims, at, files, failed, exit>>

\* Without known_hosts or an identity, a usage error like any other that is not
\* an exitError; without a connection, preflight.
DialFails ==
    /\ Running /\ ~dialed /\ WellFormed
    /\ Exits("usage") \/ Exits("preflight")

Judging == Running /\ dialed /\ at <= Len(claims)

User == claims[at].user

\* ReadFile takes a path that it cannot see for an absent file.
Content(p) == IF p \in Hidden THEN {} ELSE file[p]

\* load, for a user whose file has not been read.
Load ==
    /\ Judging /\ User \notin Unknown \cup DOMAIN files
    /\ files' = [u \in DOMAIN files \cup {User} |->
                    IF u = User THEN Content(PathOf[u]) ELSE files[u]]
    /\ UNCHANGED <<hostVars, claims, dialed, at, failed, exit>>

\* LookupUser or ReadFile fails; what was found so far does not count.
LoadFails == Judging /\ User \notin DOMAIN files /\ Exits("preflight")

\* Whether a claim is true of a content.
Holds(a, c) == a.flag = "present" <=> a.key \in c

\* A judgement of the file as it is by now.
JudgeLive ==
    /\ Judging /\ User \in DOMAIN files
    /\ at' = at + 1
    /\ failed' = IF Holds(claims[at], Content(PathOf[User])) THEN failed ELSE failed \cup {at}
    /\ UNCHANGED <<hostVars, claims, dialed, files, exit>>

\* Find in what was read of the user's file.
Judge ==
    /\ Judging /\ User \in DOMAIN files
    /\ at' = at + 1
    /\ failed' = IF Holds(claims[at], files[User]) THEN failed ELSE failed \cup {at}
    /\ UNCHANGED <<hostVars, claims, dialed, files, exit>>

Report ==
    /\ Running /\ dialed /\ at > Len(claims)
    /\ Exits(IF failed = {} THEN "ok" ELSE "violations")

\* Somebody else writes a file.
Rewrite ==
    /\ Running /\ writes < MaxWrites
    /\ writes' = writes + 1
    /\ \E p \in Paths, c \in SUBSET Keys :
        /\ file' = [file EXCEPT ![p] = c]
        /\ held' = [held EXCEPT ![p] = @ \cup {c}]
    /\ UNCHANGED <<claims, dialed, at, files, failed, exit>>

Over == ~Running /\ UNCHANGED vars

Check == Refuse \/ Dial \/ DialFails \/ Load \/ LoadFails \/ Judge \/ Report

Next == Check \/ Rewrite \/ Over

Spec == Init /\ [][Next]_vars

----------------------------------------------------------------------------
ClaimsOf(u) == {i \in 1..Len(claims) : claims[i].user = u}

\* The verdicts on all the claims about one user are those of a single content
\* that the user's file had while the command ran, whoever was rewriting it,
\* and the exit code says whether all of them hold (checkCmd: the cache in load).
OneReading ==
    exit \in {"ok", "violations"} =>
        /\ \A u \in Users : \E c \in held[PathOf[u]] :
            \A i \in ClaimsOf(u) : i \in failed <=> ~Holds(claims[i], c)
        /\ exit = "ok" <=> failed = {}

\* What a check passes was so at some moment while it ran (README.md, exit code
\* 0: "check/probe passed"; "assert keys present/absent in authorized_keys files").
PassedWasSo ==
    exit = "ok" =>
        \A i \in 1..Len(claims) : \E c \in held[PathOf[claims[i].user]] : Holds(claims[i], c)
=============================================================================
