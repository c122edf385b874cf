------------------------------- MODULE Probes -------------------------------
(***************************************************************************)
(* The fresh connections that decide about a transaction: ProbeKey and     *)
(* VerifyAuth (sshx.go), probeVerdict with its retries, someKeyAccepted    *)
(* and the order in which the phases and the probe command ask (tx.go,     *)
(* cli.go), against an sshd that counts every one of them as a failed      *)
(* authentication and shuts out a source that has collected enough         *)
(* (PerSourcePenalties, as the comment at tx.go:864 gives it).             *)
(*                                                                         *)
(* A penalty is the number of seconds until it expires; it is refused to   *)
(* connect while it is in force and not expired.  sshd books a failure     *)
(* when the child of that connection has gone, at most Lag of them late.   *)
(***************************************************************************)
EXTENDS Integers, Sequences

CONSTANTS
    Keys,           \* public keys
    NumUsers,       \* accounts 1..NumUsers, in sorted order
    Requests,       \* what the operator may ask for
    Policies,       \* what sshd_config may say of a user
    Unusable,       \* keys of an algorithm that sshd no longer takes
    ProbeAttempts,  \* probeAttempts
    Backoff,        \* penaltyBackoff, in seconds
    DialTimeout,    \* Config.DialTimeout, in seconds
    AuthFail, Min,  \* sshd: seconds for a failed authentication; threshold
    Lag,            \* sshd: failures it may not have booked at a new connection
    Noise           \* bound on what disturbs a run: lost connections, and
                    \* failures of others behind the same address

Users == 1..NumUsers

\* ops is Config.Ops or the arguments of the probe command; final holds the keys
\* of each file, in the order of its lines, as the removals leave it; held are
\* the keys whose private halves are there.
Request == [command : {"apply", "probe"},
            ops : Seq([action : {"add", "remove"}, user : Users, key : Keys]),
            final : [Users -> Seq(Keys)], held : SUBSET Keys]

ASSUME RequestsAssumption ==
    Requests \subseteq Request /\ \A r \in Requests : Len(r.ops) > 0

\* file: the user's keys count.  nobody: the user is refused whatever they are.
\* elsewhere: another file counts, that still holds the removed keys and none of
\* the added ones.  second: a key alone is not enough to log in.  open: sshd asks
\* for nothing.
ASSUME PoliciesAssumption ==
    /\ Unusable \subseteq Keys
    /\ Policies \subseteq {"file", "nobody", "elsewhere", "second", "open"}

ASSUME NumbersAssumption ==
    /\ NumUsers \in Nat /\ ProbeAttempts \in Nat \ {0} /\ Backoff \in Nat /\ DialTimeout \in Nat
    /\ AuthFail \in Nat \ {0} /\ Min \in Nat /\ Lag \in Nat /\ Noise \in Nat

\* The sleeps of one probe outlast the penalty, and what sshd books late does not
\* start another.
ASSUME PenaltyAssumption ==
    /\ Min + AuthFail * (Lag + 1) < (ProbeAttempts - 1) * Backoff
    /\ AuthFail * (Lag + 1) <= Min

VARIABLES
    agenda,     \* the goals, in the order in which they are probed
    tried,      \* ProbeAttempts for apply, 1 for the probe command
    policy,     \* user -> policy
    goal, key,  \* where the client is in the agenda
    attempt,    \* probes of this key without a verdict
    asleep,     \* in the sleep of probeVerdict
    lastErr,    \* someKeyAccepted's lastErr is set
    rejected,   \* the probe command has seen a rejection
    result,     \* running, passed, refused or unanswered
    left,       \* sshd: seconds until the penalty expires; -1: there is none
    active,     \* sshd: it is in force
    pending,    \* sshd: failures to be booked
    noise,      \* what has disturbed the run
    gone,       \* the host has stopped to answer
    spent       \* seconds that the client has waited for it since

clientVars == <<goal, key, attempt, asleep, lastErr, rejected, result>>

sshdVars == <<left, active, pending>>

fixedVars == <<agenda, tried, policy>>

vars == <<fixedVars, clientVars, sshdVars, noise, gone, spent>>

----------------------------------------------------------------------------
(* What is asked, and in which order.                                      *)

Probe == [user : Users, key : Keys, how : {"query", "full"}]

\* How sshd has to answer: accept it, reject it, or accept one of several; or no
\* matter how (the probe command).  Loops pass over what is not theirs.
Goal == [aim : {"accepted", "rejected", "some", "report", "skip"}, probes : Seq(Probe)]

PassOver == [aim |-> "skip", probes |-> <<>>]

One(aim, op, how) ==
    [aim |-> aim, probes |-> <<[user |-> op.user, key |-> op.key, how |-> how]>>]

\* someKeyAccepted of the keys in u's file.
Some(r, u) ==
    [aim |-> "some", probes |-> [i \in 1..Len(r.final[u]) |->
        [user |-> u, key |-> r.final[u][i], how |-> "query"]]]

\* phaseVerifyAdded: by a full authentication when the private key is there.
Additions(r) == [i \in 1..Len(r.ops) |->
    IF r.ops[i].action = "add"
    THEN One("accepted", r.ops[i], IF r.ops[i].key \in r.held THEN "full" ELSE "query")
    ELSE PassOver]

\* phaseVerifyRemoved: the positive controls, one for each user that keeps a key,
\* then the removed keys.
Uncontrolled(r, i) ==
    /\ r.ops[i].action = "remove"
    /\ ~\E j \in 1..(i - 1) : r.ops[j].action = "remove" /\ r.ops[j].user = r.ops[i].user

Controls(r) == [i \in 1..Len(r.ops) |->
    IF Uncontrolled(r, i) /\ r.final[r.ops[i].user] # <<>>
    THEN Some(r, r.ops[i].user) ELSE PassOver]

Removals(r) == [i \in 1..Len(r.ops) |->
    IF r.ops[i].action = "remove" THEN One("rejected", r.ops[i], "query") ELSE PassOver]

\* proveAccess, for every file that was changed.
Proofs(r) == [u \in Users |->
    IF \E i \in 1..Len(r.ops) : r.ops[i].user = u THEN Some(r, u) ELSE PassOver]

AgendaOf(r) ==
    IF r.command = "probe"
    THEN [i \in 1..Len(r.ops) |-> One("report", r.ops[i], "query")]
    ELSE Additions(r) \o Controls(r) \o Removals(r) \o Proofs(r)

\* The probe command does not go through probeVerdict.
TriesOf(r) == IF r.command = "probe" THEN 1 ELSE ProbeAttempts

\* A key counts as removed when the agenda wants it rejected.
Removed(p) == \E g \in 1..Len(agenda) :
    agenda[g].aim = "rejected"
    /\ agenda[g].probes[1].user = p.user /\ agenda[g].probes[1].key = p.key

Added(p) == \E g \in 1..Len(agenda) :
    agenda[g].aim = "accepted"
    /\ agenda[g].probes[1].user = p.user /\ agenda[g].probes[1].key = p.key

----------------------------------------------------------------------------
(* One fresh connection.                                                   *)

\* The user's key is authorized, and answered with PK_OK.
Authorized(p) ==
    /\ p.key \notin Unusable
    /\ CASE policy[p.user] \in {"file", "second"} -> ~Removed(p)
         [] policy[p.user] = "elsewhere" -> ~Added(p)
         [] OTHER -> FALSE

\* How the dial of a connection that sshd takes ends: asked (for a signature),
\* refused (unable to authenticate), or success.
Handshake(p) ==
    CASE policy[p.user] = "open" -> "success"
      [] policy[p.user] # "open" /\ ~Authorized(p) -> "refused"
      [] Authorized(p) /\ p.how = "query" -> "asked"
      [] OTHER -> IF policy[p.user] = "second" THEN "refused" ELSE "success"

\* ProbeKey and VerifyAuth: the end of the dial, as a verdict or an error.
ReadAnyError(p, end) ==
    CASE end \in {"asked", "success"} -> "accepted"
      [] OTHER -> "rejected"

Read(p, end) ==
    CASE p.how = "query" /\ end = "asked" -> "accepted"
      [] p.how = "full" /\ end = "success" -> "accepted"
      [] end = "refused" -> "rejected"
      [] OTHER -> "error"

Running == result = "running"

Aim == agenda[goal].aim

Current == agenda[goal].probes[key]

End(r) == result' = r /\ asleep' = FALSE /\ UNCHANGED <<goal, key, attempt, lastErr, rejected>>

ToGoal(rej) ==
    IF goal < Len(agenda)
    THEN /\ goal' = goal + 1 /\ key' = 1 /\ attempt' = 0 /\ asleep' = FALSE
         /\ lastErr' = FALSE /\ rejected' = rej
         /\ UNCHANGED result
    ELSE End(IF rej THEN "refused" ELSE "passed")

\* A later verdict makes the error of an earlier key forgotten.
ToKeyForgetting(e) ==
    IF key < Len(agenda[goal].probes)
    THEN /\ key' = key + 1 /\ attempt' = 0 /\ asleep' = FALSE /\ lastErr' = e
         /\ UNCHANGED <<goal, rejected, result>>
    ELSE End(IF e THEN "unanswered" ELSE "refused")

\* someKeyAccepted: the next key; e: this one, too, got no verdict.
ToKey(e) ==
    IF key < Len(agenda[goal].probes)
    THEN /\ key' = key + 1 /\ attempt' = 0 /\ asleep' = FALSE /\ lastErr' = (lastErr \/ e)
         /\ UNCHANGED <<goal, rejected, result>>
    ELSE End(IF lastErr \/ e THEN "unanswered" ELSE "refused")

\* A verdict, accepted or rejected, is never asked for again.
Verdict(accepted) ==
    CASE Aim = "report" -> ToGoal(rejected \/ ~accepted)
      [] Aim = "some" -> IF accepted THEN ToGoal(FALSE) ELSE ToKey(FALSE)
      [] OTHER -> IF accepted = (Aim = "accepted") THEN ToGoal(FALSE) ELSE End("refused")

\* Attempts without an end, and one attempt too few.
NoVerdictEndless ==
    asleep' = TRUE /\ UNCHANGED <<goal, key, attempt, lastErr, rejected, result>>

NoVerdictHasty ==
    IF attempt + 2 < tried
    THEN asleep' = TRUE /\ UNCHANGED <<goal, key, attempt, lastErr, rejected, result>>
    ELSE IF Aim = "some" THEN ToKey(TRUE) ELSE End("unanswered")

\* An error waits out the penalty, or is returned at the last attempt.
NoVerdict ==
    IF attempt + 1 < tried
    THEN asleep' = TRUE /\ UNCHANGED <<goal, key, attempt, lastErr, rejected, result>>
    ELSE IF Aim = "some" THEN ToKey(TRUE) ELSE End("unanswered")

Settle(answer) == IF answer = "error" THEN NoVerdict ELSE Verdict(answer = "accepted")

Dialing == Running /\ ~asleep /\ agenda[goal].probes # <<>>

Shut == active /\ left >= 0

\* sshd takes the connection and hears of the key; a handshake that is not
\* completed is a failed authentication, ProbeKey's own end included.
Answer ==
    /\ Dialing /\ ~gone
    /\ ~Shut
    /\ pending <= Lag
    /\ Settle(Read(Current, Handshake(Current)))
    /\ pending' = IF Handshake(Current) = "success" THEN pending ELSE pending + 1
    /\ UNCHANGED <<fixedVars, left, active, noise, gone, spent>>

\* sshd takes the TCP connection and closes it, which is no failed authentication.
Penalised ==
    /\ Dialing /\ ~gone
    /\ Shut
    /\ Settle(Read(Current, "closed"))
    /\ UNCHANGED <<fixedVars, sshdVars, noise, gone, spent>>

\* The connection is lost or shows another host key: a connection-level error.
Disturbed ==
    /\ Dialing /\ ~gone
    /\ noise < Noise
    /\ noise' = noise + 1
    /\ Settle(Read(Current, "closed"))
    /\ UNCHANGED <<fixedVars, sshdVars, gone, spent>>

\* The host is no longer there.
TimedOut ==
    /\ Dialing /\ gone
    /\ spent' = spent + DialTimeout
    /\ Settle(Read(Current, "closed"))
    /\ UNCHANGED <<fixedVars, sshdVars, noise, gone>>

\* An operation of the other kind, a file that was not changed.
Skip ==
    /\ Running /\ Aim = "skip"
    /\ ToGoal(rejected)
    /\ UNCHANGED <<fixedVars, sshdVars, noise, gone, spent>>

\* The client gives up the goal of a file without keys, before any probe.
NoKeysLeft ==
    /\ Running /\ Aim = "some" /\ agenda[goal].probes = <<>>
    /\ End("refused")
    /\ UNCHANGED <<fixedVars, sshdVars, noise, gone, spent>>

Passing(n) == IF left < n THEN -1 ELSE left - n

\* A sleep that does not count.
SleepAgain ==
    /\ Running /\ asleep
    /\ asleep' = FALSE
    /\ left' = Passing(Backoff)
    /\ UNCHANGED <<fixedVars, goal, key, attempt, lastErr, rejected, result, active,
                   pending, noise, gone, spent>>

\* probeVerdict's sleep.
Sleep ==
    /\ Running /\ asleep
    /\ asleep' = FALSE
    /\ attempt' = attempt + 1
    /\ left' = Passing(Backoff)
    /\ spent' = IF gone THEN spent + Backoff ELSE spent
    /\ UNCHANGED <<fixedVars, goal, key, lastErr, rejected, result, active, pending, noise, gone>>

----------------------------------------------------------------------------
(* sshd and the world.                                                     *)

\* A failed authentication is added to the penalty of its source.
Penalise ==
    /\ left' = IF left < 0 THEN AuthFail ELSE left + AuthFail
    /\ active' = (left' > Min \/ Shut)

Book ==
    /\ pending > 0
    /\ Penalise
    /\ pending' = pending - 1
    /\ UNCHANGED <<fixedVars, clientVars, noise, gone, spent>>

\* Somebody else behind the same address fails to log in.
OthersFail ==
    /\ Running /\ ~gone
    /\ noise < Noise
    /\ noise' = noise + 1
    /\ Penalise
    /\ UNCHANGED <<fixedVars, clientVars, pending, gone, spent>>

Elapse ==
    /\ left >= 0
    /\ left' = Passing(1)
    /\ UNCHANGED <<fixedVars, clientVars, active, pending, noise, gone, spent>>

HostGone ==
    /\ Running /\ ~gone
    /\ noise < Noise
    /\ noise' = noise + 1
    /\ gone' = TRUE
    /\ UNCHANGED <<fixedVars, clientVars, sshdVars, spent>>

Client == Answer \/ Penalised \/ TimedOut \/ Skip \/ NoKeysLeft \/ Sleep

Over == ~Running /\ UNCHANGED vars

Init ==
    /\ \E r \in Requests : agenda = AgendaOf(r) /\ tried = TriesOf(r)
    /\ policy \in [Users -> Policies]
    /\ goal = 1 /\ key = 1 /\ attempt = 0 /\ asleep = FALSE
    /\ lastErr = FALSE /\ rejected = FALSE
    /\ result = "running"
    /\ left = -1 /\ active = FALSE /\ pending = 0
    /\ noise = 0 /\ gone = FALSE /\ spent = 0

Next ==
    \/ Client \/ Disturbed
    \/ Book \/ OthersFail \/ Elapse \/ HostGone
    \/ Over

Spec == Init /\ [][Next]_vars

\* The client goes on, and sshd books what it has seen.
FairSpec == Spec /\ WF_vars(Client) /\ WF_vars(Book)

----------------------------------------------------------------------------

TypeOK ==
    /\ agenda \in Seq(Goal) /\ tried \in Nat \ {0} /\ policy \in [Users -> Policies]
    /\ goal \in 1..Len(agenda) /\ key \in Nat \ {0}
    /\ (agenda[goal].probes # <<>> => key <= Len(agenda[goal].probes))
    /\ attempt \in 0..(tried - 1)
    /\ asleep \in BOOLEAN /\ lastErr \in BOOLEAN /\ rejected \in BOOLEAN
    /\ result \in {"running", "passed", "refused", "unanswered"}
    /\ left \in Nat \cup {-1} /\ active \in BOOLEAN /\ pending \in 0..(Lag + 1)
    /\ noise \in 0..Noise /\ gone \in BOOLEAN /\ spent \in Nat

\* sshd would answer this probe with an acceptance.
Accepted(p) == Handshake(p) \in {"asked", "success"}

Met(g) ==
    CASE g.aim = "skip" -> TRUE
      [] g.aim = "some" -> \E i \in 1..Len(g.probes) : Accepted(g.probes[i])
      [] g.aim = "rejected" -> ~Accepted(g.probes[1])
      [] OTHER -> Accepted(g.probes[1])

\* The probes pass only on a host where every goal holds: every added key gets in,
\* every removed one does not, and for every changed file some key does; closed
\* and lost connections prove neither (isAuthFailure, someKeyAccepted).
PassedIsProven == result = "passed" => \A g \in 1..Len(agenda) : Met(agenda[g])

\* A goal is reported as refused only when sshd has judged all it depends on and
\* refused: an error is not a verdict, and none is forgotten (someKeyAccepted).
RefusedIsJudged == result = "refused" => \E g \in 1..goal : ~Met(agenda[g])

Asking == agenda[1].aim = "report"

\* Something else than the client's own probes, or sshd asks for no key at all.
Excused == noise > 0 \/ \E u \in Users : policy[u] = "open"

\* The penalties for the client's own probes never keep a transaction from a
\* verdict: three attempts outlast every penalty that they can collect (the retries
\* of probeVerdict).
OwnPenaltiesPass == result = "unanswered" /\ ~Asking => Excused

\* The same of the probe command (tx.go: "every probe verdict gets probeAttempts
\* tries").
EveryProbeTried == result = "unanswered" /\ Asking => Excused

\* The probes come to an end, also of a host that is gone.
ProbesEnd == <>~Running

\* A host that does not answer is given up within an hour (tx.go: "A host that is
\* genuinely gone still fails, minutes not hours later").
GoneInMinutes == spent <= 3600
=============================================================================
