---------------------------- MODULE ProbeProofs ----------------------------
(***************************************************************************)
(* The safety of Probes, for every agenda, every number of attempts and    *)
(* every penalty that PenaltyAssumption admits: TypeOK, OwnPenaltiesPass,  *)
(* PassedIsProven and RefusedIsJudged.                                     *)
(*                                                                         *)
(* The inductive invariant IndInv says how much of the penalty can be left *)
(* after the attempts made so far: what sshd still has to book counts as   *)
(* left, and a penalty that has expired during the attempts does not come  *)
(* into force again.  Judged, next to it, says what the goals behind the   *)
(* client and the keys it has tried for the present one have come to.      *)
(* Remaining counts what is left to do, and every step lessens it.         *)
(***************************************************************************)
EXTENDS Probes, TLAPS, WellFoundedInduction

Top == AuthFail * (Lag + 1)

\* The penalty once everything is booked.
Due == (IF left < 0 THEN 0 ELSE left) + AuthFail * pending

Attempting == attempt > 0 \/ asleep

\* Nothing has disturbed a transaction.
Clean == noise = 0 /\ ~Asking /\ \A u \in Users : policy[u] # "open"

Counted ==
    /\ asleep => Running /\ attempt + 1 < tried
    /\ ~Asking => tried = ProbeAttempts
    /\ gone => noise > 0

Outlasted ==
    /\ ~Shut => left <= Min
    /\ Due <= Min + Top
    /\ Running /\ Shut => Due <= Min + Top - attempt * Backoff
    /\ Running /\ ~Shut /\ Attempting => Due <= Top

Penalty == Clean => Outlasted /\ ~lastErr /\ result # "unanswered"

IndInv == TypeOK /\ Counted /\ Penalty

----------------------------------------------------------------------------
(* Arithmetic, and the agenda.                                             *)

\* Multiplication is all the arithmetic that is not linear.
LEMMA MultiplyNext == \A a, b \in Nat : a * (b + 1) = a * b + a /\ a * b \in Nat
OBVIOUS

LEMMA MultiplyMonotone ==
    ASSUME NEW a \in Nat, NEW b \in Nat, NEW c \in Nat, b <= c
    PROVE  a * b <= a * c
<1>1. c - b \in Nat /\ c = b + (c - b)
  OBVIOUS
<1>2. a * (b + (c - b)) = a * b + a * (c - b) /\ a * (c - b) \in Nat /\ a * b \in Nat
  BY <1>1
<1> QED BY <1>1, <1>2

\* The bounds that the arithmetic of the penalty comes down to.
LEMMA Bounds ==
    /\ Top \in Nat /\ Top <= Min /\ 0 * Backoff = 0
    /\ \A p \in 0..(Lag + 1) : AuthFail * p \in Nat /\ AuthFail * p <= Top
    /\ \A n \in Nat : n * Backoff \in Nat
                      /\ (n + 1) * Backoff = n * Backoff + Backoff
                      /\ (n + 1 >= ProbeAttempts => Min + Top < n * Backoff)
<1>1. Top \in Nat /\ Top <= Min /\ 0 * Backoff = 0
  BY NumbersAssumption, PenaltyAssumption, MultiplyNext DEF Top
<1>2. ASSUME NEW p \in 0..(Lag + 1) PROVE AuthFail * p \in Nat /\ AuthFail * p <= Top
  BY NumbersAssumption, MultiplyNext, MultiplyMonotone DEF Top
<1>3. ASSUME NEW n \in Nat
      PROVE  /\ n * Backoff \in Nat
             /\ (n + 1) * Backoff = n * Backoff + Backoff
             /\ (n + 1 >= ProbeAttempts => Min + Top < n * Backoff)
  <2>1. n * Backoff = Backoff * n /\ n * Backoff \in Nat
        /\ (n + 1) * Backoff = n * Backoff + Backoff
    BY NumbersAssumption
  <2>2. ASSUME n + 1 >= ProbeAttempts PROVE Min + Top < n * Backoff
    <3>1. ProbeAttempts - 1 \in Nat /\ ProbeAttempts - 1 <= n
      BY <2>2, NumbersAssumption
    <3>2. Backoff * (ProbeAttempts - 1) <= Backoff * n
      BY <3>1, NumbersAssumption, MultiplyMonotone
    <3>3. Backoff * (ProbeAttempts - 1) = (ProbeAttempts - 1) * Backoff
          /\ (ProbeAttempts - 1) * Backoff \in Int
      BY <3>1, NumbersAssumption
    <3>4. Min + Top < (ProbeAttempts - 1) * Backoff
      BY PenaltyAssumption DEF Top
    <3> QED BY <3>2, <3>3, <3>4, <2>1, <1>1, NumbersAssumption
  <2> QED BY <2>1, <2>2
<1> QED BY <1>1, <1>2, <1>3

Op == [action : {"add", "remove"}, user : Users, key : Keys]

LEMMA GoalTyped ==
    ASSUME NEW r \in Request
    PROVE  /\ PassOver \in Goal
           /\ \A op \in Op, how \in {"query", "full"} :
                 \A aim \in {"accepted", "rejected", "report"} : One(aim, op, how) \in Goal
           /\ \A u \in Users : Some(r, u) \in Goal
<1>1. PassOver \in Goal
  BY DEF PassOver, Goal
<1>2. ASSUME NEW op \in Op, NEW how \in {"query", "full"},
             NEW aim \in {"accepted", "rejected", "report"}
      PROVE  One(aim, op, how) \in Goal
  BY DEF One, Goal, Op, Probe
<1>3. ASSUME NEW u \in Users PROVE Some(r, u) \in Goal
  <2>1. r.final[u] \in Seq(Keys)
    BY DEF Request
  <2>2. [i \in 1..Len(r.final[u]) |-> [user |-> u, key |-> r.final[u][i], how |-> "query"]]
            \in Seq(Probe)
    BY <2>1 DEF Probe
  <2> QED BY <2>2 DEF Some, Goal
<1> QED BY <1>1, <1>2, <1>3

LEMMA AgendaTyped ==
    ASSUME NEW r \in Requests
    PROVE  /\ AgendaOf(r) \in Seq(Goal) /\ Len(AgendaOf(r)) >= 1
           /\ r.command = "probe" => AgendaOf(r)[1].aim = "report"
<1>1. r \in Request /\ r.ops \in Seq(Op) /\ Len(r.ops) > 0 /\ NumUsers \in Nat
  BY RequestsAssumption, NumbersAssumption DEF Request, Op
<1>2. Len(r.ops) \in Nat /\ Len(r.ops) >= 1
      /\ \A i \in 1..Len(r.ops) : r.ops[i] \in Op /\ r.ops[i].user \in Users
  <2>1. Len(r.ops) \in Nat
    BY <1>1
  <2>2. Len(r.ops) >= 1
    BY <2>1, <1>1
  <2>3. \A i \in 1..Len(r.ops) : r.ops[i] \in Op
    BY <1>1
  <2>4. \A op \in Op : op.user \in Users
    BY DEF Op
  <2> QED BY <2>1, <2>2, <2>3, <2>4
<1>3. Additions(r) \in Seq(Goal) /\ Len(Additions(r)) = Len(r.ops)
  BY <1>1, <1>2, GoalTyped DEF Additions
<1>4. Controls(r) \in Seq(Goal) /\ Len(Controls(r)) = Len(r.ops)
  BY <1>1, <1>2, GoalTyped DEF Controls
<1>5. Removals(r) \in Seq(Goal) /\ Len(Removals(r)) = Len(r.ops)
  BY <1>1, <1>2, GoalTyped DEF Removals
<1>6. Proofs(r) \in Seq(Goal) /\ Len(Proofs(r)) = NumUsers
  BY <1>1, GoalTyped DEF Proofs, Users
<1>7. CASE r.command = "probe"
  <2>1. AgendaOf(r) = [i \in 1..Len(r.ops) |-> One("report", r.ops[i], "query")]
    BY <1>7 DEF AgendaOf
  <2>2. AgendaOf(r) \in Seq(Goal) /\ Len(AgendaOf(r)) = Len(r.ops)
    BY <2>1, <1>1, <1>2, GoalTyped
  <2>3. AgendaOf(r)[1] = One("report", r.ops[1], "query")
    BY <2>1, <1>2
  <2> QED BY <2>2, <2>3, <1>2 DEF One
<1>8. CASE r.command # "probe"
  <2>1. AgendaOf(r) = Additions(r) \o Controls(r) \o Removals(r) \o Proofs(r)
    BY <1>8 DEF AgendaOf
  <2> QED BY <2>1, <1>2, <1>3, <1>4, <1>5, <1>6, <1>8
<1> QED BY <1>7, <1>8

----------------------------------------------------------------------------
(* The initial states.                                                     *)

LEMMA InitIndInv == Init => IndInv
<1> SUFFICES ASSUME Init PROVE IndInv
  OBVIOUS
<1>1. PICK r \in Requests : agenda = AgendaOf(r) /\ tried = TriesOf(r)
  BY DEF Init
<1>2. agenda \in Seq(Goal) /\ Len(agenda) \in Nat /\ Len(agenda) >= 1
      /\ (~Asking => tried = ProbeAttempts) /\ tried \in Nat \ {0}
  BY <1>1, AgendaTyped, NumbersAssumption DEF TriesOf, Asking
<1>3. agenda[1].probes # <<>> => 1 <= Len(agenda[1].probes)
  <2>1. agenda[1] \in Goal
    BY <1>2
  <2>2. agenda[1].probes \in Seq(Probe)
    BY <2>1 DEF Goal
  <2> QED BY <2>2
<1>4. TypeOK
  <2>1. goal \in 1..Len(agenda) /\ key \in Nat \ {0}
        /\ (agenda[goal].probes # <<>> => key <= Len(agenda[goal].probes))
    BY <1>2, <1>3 DEF Init
  <2>2. attempt \in 0..(tried - 1)
    BY <1>2 DEF Init
  <2>3. left \in Nat \cup {-1} /\ active \in BOOLEAN /\ gone \in BOOLEAN /\ spent \in Nat
    BY DEF Init
  <2>5. pending \in 0..(Lag + 1) /\ noise \in 0..Noise
    BY NumbersAssumption DEF Init
  <2>4. /\ asleep \in BOOLEAN /\ lastErr \in BOOLEAN /\ rejected \in BOOLEAN
        /\ result \in {"running", "passed", "refused", "unanswered"}
        /\ policy \in [Users -> Policies]
    BY DEF Init
  <2> QED BY <1>2, <2>1, <2>2, <2>3, <2>4, <2>5 DEF TypeOK
<1>5. Counted
  BY <1>2 DEF Counted, Init, Running
<1>6. Penalty
  <2>1. left = -1 /\ pending = 0 /\ attempt = 0 /\ ~asleep /\ ~active /\ ~lastErr
        /\ result = "running"
    BY DEF Init
  <2>2. Due = 0
    BY <2>1, NumbersAssumption DEF Due
  <2>3. ~Shut /\ ~Attempting
    BY <2>1 DEF Shut, Attempting
  <2> QED BY <2>1, <2>2, <2>3, Bounds, NumbersAssumption DEF Penalty, Outlasted
<1> QED BY <1>4, <1>5, <1>6 DEF IndInv

----------------------------------------------------------------------------
(* Where a verdict, or its absence, takes the client.                      *)

\* The client's variables keep their types and its attempts their count.
ClientOK ==
    /\ goal \in 1..Len(agenda) /\ key \in Nat \ {0}
    /\ (agenda[goal].probes # <<>> => key <= Len(agenda[goal].probes))
    /\ attempt \in 0..(tried - 1)
    /\ asleep \in BOOLEAN /\ lastErr \in BOOLEAN /\ rejected \in BOOLEAN
    /\ result \in {"running", "passed", "refused", "unanswered"}
    /\ asleep => Running /\ attempt + 1 < tried

LEMMA FirstKey ==
    ASSUME TypeOK, NEW g \in 1..Len(agenda), agenda[g].probes # <<>>
    PROVE  1 <= Len(agenda[g].probes)
<1>1. agenda[g] \in Goal
  BY DEF TypeOK
<1>2. agenda[g].probes \in Seq(Probe)
  BY <1>1 DEF Goal
<1> QED BY <1>2

LEMMA GoalLength ==
    ASSUME TypeOK
    PROVE  Len(agenda) \in Nat /\ \A g \in 1..Len(agenda) : Len(agenda[g].probes) \in Nat
<1>1. \A g \in 1..Len(agenda) : agenda[g] \in Goal
  BY DEF TypeOK
<1>2. \A x \in Goal : Len(x.probes) \in Nat
  BY DEF Goal
<1> QED BY <1>1, <1>2 DEF TypeOK

\* The run ends.
LEMMA EndStep ==
    ASSUME TypeOK, UNCHANGED <<agenda, tried>>,
           NEW r \in {"passed", "refused", "unanswered"}, End(r)
    PROVE  ClientOK' /\ lastErr' = lastErr /\ ~Running' /\ result' = r
BY DEF TypeOK, End, ClientOK, Running

\* The next goal, or the end.
LEMMA ToGoalStep ==
    ASSUME TypeOK, Running, UNCHANGED <<agenda, tried>>, NEW rej \in BOOLEAN, ToGoal(rej)
    PROVE  /\ ClientOK'
           /\ (lastErr' => lastErr)
           /\ result' # "unanswered"
           /\ (Running' => ~Attempting')
<1>1. CASE goal < Len(agenda)
  <2>1. goal + 1 \in 1..Len(agenda)
    BY <1>1, GoalLength DEF TypeOK
  <2>2. agenda[goal + 1].probes # <<>> => 1 <= Len(agenda[goal + 1].probes)
    BY <2>1, FirstKey
  <2>3. /\ goal' = goal + 1 /\ key' = 1 /\ attempt' = 0 /\ asleep' = FALSE
        /\ lastErr' = FALSE /\ rejected' = rej /\ result' = result
        /\ agenda' = agenda /\ tried' = tried
    BY <1>1 DEF ToGoal
  <2>4. tried \in Nat \ {0} /\ result = "running"
    BY DEF TypeOK, Running
  <2>5. /\ goal' \in 1..Len(agenda') /\ key' \in Nat \ {0} /\ attempt' \in 0..(tried' - 1)
        /\ (agenda[goal + 1].probes # <<>> => key' <= Len(agenda[goal + 1].probes))
    BY <2>1, <2>2, <2>3, <2>4
  <2>6. (agenda'[goal'].probes # <<>> => key' <= Len(agenda'[goal'].probes))
    BY <2>3, <2>5
  <2>7. ~asleep' /\ ~lastErr' /\ ~Attempting' /\ result' = "running"
    BY <2>3, <2>4 DEF Attempting
  <2>8. asleep' \in BOOLEAN /\ lastErr' \in BOOLEAN /\ rejected' \in BOOLEAN
    BY <2>3
  <2> QED BY <2>5, <2>6, <2>7, <2>8 DEF ClientOK
<1>2. CASE ~(goal < Len(agenda))
  <2>1. End(IF rej THEN "refused" ELSE "passed")
    BY <1>2 DEF ToGoal
  <2>2. CASE rej
    BY <2>1, <2>2, EndStep
  <2>3. CASE ~rej
    BY <2>1, <2>3, EndStep
  <2> QED BY <2>2, <2>3
<1> QED BY <1>1, <1>2

\* The next key of someKeyAccepted, or the end; without an error it is not left
\* unanswered.
LEMMA ToKeyStep ==
    ASSUME TypeOK, Running, UNCHANGED <<agenda, tried>>, NEW e \in BOOLEAN, ToKey(e)
    PROVE  /\ ClientOK'
           /\ (lastErr' => lastErr \/ e)
           /\ (result' = "unanswered" => lastErr \/ e)
           /\ (Running' => ~Attempting')
<1>1. CASE key < Len(agenda[goal].probes)
  <2>1. key \in Nat \ {0} /\ Len(agenda[goal].probes) \in Nat /\ goal \in 1..Len(agenda)
    BY GoalLength DEF TypeOK
  <2>2. /\ key' = key + 1 /\ attempt' = 0 /\ asleep' = FALSE /\ lastErr' = (lastErr \/ e)
        /\ goal' = goal /\ rejected' = rejected /\ result' = result /\ agenda' = agenda
        /\ tried' = tried
    BY <1>1 DEF ToKey
  <2>3. key' \in Nat \ {0} /\ key' <= Len(agenda[goal].probes)
    BY <2>1, <2>2, <1>1
  <2>4. /\ tried \in Nat \ {0} /\ result = "running" /\ lastErr \in BOOLEAN
        /\ rejected \in BOOLEAN
    BY DEF TypeOK, Running
  <2>5. attempt' \in 0..(tried' - 1) /\ goal' \in 1..Len(agenda')
    BY <2>1, <2>2, <2>4
  <2>6. (agenda'[goal'].probes # <<>> => key' <= Len(agenda'[goal'].probes))
    BY <2>2, <2>3
  <2>7. ~asleep' /\ ~Attempting' /\ result' = "running"
    BY <2>2, <2>4 DEF Attempting
  <2>8. asleep' \in BOOLEAN /\ lastErr' \in BOOLEAN /\ rejected' \in BOOLEAN
    BY <2>2, <2>4
  <2>9. lastErr' => lastErr \/ e
    BY <2>2
  <2> QED BY <2>3, <2>5, <2>6, <2>7, <2>8, <2>9 DEF ClientOK
<1>2. CASE ~(key < Len(agenda[goal].probes))
  <2>1. End(IF lastErr \/ e THEN "unanswered" ELSE "refused")
    BY <1>2 DEF ToKey
  <2>2. CASE lastErr \/ e
    BY <2>1, <2>2, EndStep
  <2>3. CASE ~(lastErr \/ e)
    BY <2>1, <2>3, EndStep
  <2> QED BY <2>2, <2>3
<1> QED BY <1>1, <1>2

LEMMA VerdictStep ==
    ASSUME TypeOK, Running, UNCHANGED <<agenda, tried>>, NEW a \in BOOLEAN, Verdict(a)
    PROVE  /\ ClientOK'
           /\ (lastErr' => lastErr)
           /\ (result' = "unanswered" => lastErr)
           /\ (Running' => ~Attempting')
<1>1. CASE Aim = "report"
  <2>1. (rejected \/ ~a) \in BOOLEAN
    BY DEF TypeOK
  <2> QED BY <1>1, <2>1, ToGoalStep DEF Verdict
<1>2. CASE Aim = "some"
  BY <1>2, ToGoalStep, ToKeyStep DEF Verdict
<1>3. CASE Aim # "report" /\ Aim # "some"
  BY <1>3, ToGoalStep, EndStep DEF Verdict
<1> QED BY <1>1, <1>2, <1>3

\* Without a verdict it sleeps while attempts are left.
LEMMA NoVerdictStep ==
    ASSUME TypeOK, Running, UNCHANGED <<agenda, tried>>, NoVerdict
    PROVE  /\ ClientOK'
           /\ attempt + 1 < tried =>
                asleep' /\ UNCHANGED <<attempt, lastErr, result>>
           /\ (Running' /\ attempt + 1 >= tried => ~Attempting')
<1>1. CASE attempt + 1 < tried
  BY <1>1 DEF TypeOK, NoVerdict, ClientOK, Running
<1>2. CASE ~(attempt + 1 < tried)
  <2>1. IF Aim = "some" THEN ToKey(TRUE) ELSE End("unanswered")
    BY <1>2 DEF NoVerdict
  <2>2. CASE Aim = "some"
    BY <1>2, <2>1, <2>2, ToKeyStep
  <2>3. CASE Aim # "some"
    BY <1>2, <2>1, <2>3, EndStep
  <2> QED BY <2>2, <2>3
<1> QED BY <1>1, <1>2 DEF TypeOK

LEMMA SettleStep ==
    ASSUME TypeOK, Running, UNCHANGED <<agenda, tried>>, NEW x, Settle(x)
    PROVE  ClientOK'
<1>1. CASE x = "error"
  BY <1>1, NoVerdictStep DEF Settle
<1>2. CASE x # "error"
  <2>1. (x = "accepted") \in BOOLEAN /\ Verdict(x = "accepted")
    BY <1>2 DEF Settle
  <2> QED BY <2>1, VerdictStep
<1> QED BY <1>1, <1>2

LEMMA CurrentTyped ==
    ASSUME TypeOK, agenda[goal].probes # <<>>
    PROVE  Current \in Probe
<1>1. agenda[goal] \in Goal
  BY DEF TypeOK
<1>2. agenda[goal].probes \in Seq(Probe)
  BY <1>1 DEF Goal
<1>3. key \in 1..Len(agenda[goal].probes)
  BY <1>2 DEF TypeOK
<1> QED BY <1>2, <1>3 DEF Current

\* Every dial that sshd takes is a verdict, unless it asks for no key; a closed
\* connection never is one.
LEMMA ReadVerdict ==
    ASSUME NEW p \in Probe
    PROVE  /\ policy[p.user] # "open" => Read(p, Handshake(p)) \in {"accepted", "rejected"}
           /\ Read(p, "closed") = "error"
<1>1. p.how \in {"query", "full"}
  BY DEF Probe
<1>2. Read(p, "closed") = "error"
  BY <1>1 DEF Read
<1>3. ASSUME policy[p.user] # "open" PROVE Read(p, Handshake(p)) \in {"accepted", "rejected"}
  <2>1. CASE ~Authorized(p)
    <3>1. Handshake(p) = "refused"
      BY <1>3, <2>1 DEF Handshake
    <3> QED BY <3>1, <1>1 DEF Read
  <2>2. CASE Authorized(p) /\ p.how = "query"
    <3>1. Handshake(p) = "asked"
      BY <1>3, <2>2 DEF Handshake
    <3> QED BY <3>1, <2>2 DEF Read
  <2>3. CASE Authorized(p) /\ p.how = "full"
    <3>1. Handshake(p) \in {"refused", "success"}
      BY <1>3, <2>3 DEF Handshake
    <3> QED BY <3>1, <2>3 DEF Read
  <2> QED BY <1>1, <2>1, <2>2, <2>3
<1> QED BY <1>2, <1>3

----------------------------------------------------------------------------
(* The steps of the client.                                                *)

\* What the client does not touch keeps its type.
LEMMA ClientTyped ==
    ASSUME IndInv, ClientOK', UNCHANGED fixedVars, UNCHANGED <<left, active, gone>>,
           pending' \in 0..(Lag + 1), noise' \in 0..Noise, noise' >= noise, spent' \in Nat
    PROVE  TypeOK' /\ Counted'
<1>1. TypeOK'
  BY DEF IndInv, TypeOK, ClientOK, fixedVars
<1>2. (asleep' => Running' /\ attempt' + 1 < tried')
  BY DEF ClientOK
<1>3. ~Asking' => tried' = ProbeAttempts
  BY DEF IndInv, Counted, Asking, fixedVars
<1>4. noise \in Int /\ noise' \in Int
  BY NumbersAssumption DEF IndInv, TypeOK
<1>5. gone' => noise' > 0
  BY <1>4 DEF IndInv, Counted
<1> QED BY <1>1, <1>2, <1>3, <1>5 DEF Counted

LEMMA AnswerStep == IndInv /\ Answer => IndInv'
<1> SUFFICES ASSUME IndInv, Answer PROVE IndInv'
  OBVIOUS
<1>0. /\ TypeOK /\ Running /\ ~asleep /\ ~gone /\ ~Shut /\ pending <= Lag
      /\ agenda[goal].probes # <<>> /\ UNCHANGED <<agenda, tried>>
      /\ UNCHANGED fixedVars /\ UNCHANGED <<left, active, noise, gone, spent>>
      /\ pending \in 0..(Lag + 1) /\ noise \in 0..Noise /\ spent \in Nat
      /\ Settle(Read(Current, Handshake(Current)))
  BY DEF IndInv, TypeOK, Answer, Dialing, fixedVars
<1>1. pending' = pending \/ pending' = pending + 1
  BY DEF Answer
<1>2. pending' \in 0..(Lag + 1)
  BY <1>0, <1>1, NumbersAssumption
<1>3. ClientOK'
  BY <1>0, SettleStep
<1>4. TypeOK' /\ Counted'
  BY <1>0, <1>2, <1>3, NumbersAssumption, ClientTyped
<1>5. ASSUME Clean' PROVE Outlasted' /\ ~lastErr' /\ result' # "unanswered"
  <2>1. Clean /\ Outlasted /\ ~lastErr
    BY <1>0, <1>5 DEF Clean, Asking, IndInv, Penalty, fixedVars
  <2>2. Current \in Probe /\ policy[Current.user] # "open"
    BY <1>0, <2>1, CurrentTyped DEF Clean, Probe
  <2>3. Read(Current, Handshake(Current)) \in {"accepted", "rejected"}
    BY <2>2, ReadVerdict
  <2>4. PICK a \in BOOLEAN : Verdict(a)
    BY <1>0, <2>3 DEF Settle
  <2>5. ~lastErr' /\ result' # "unanswered" /\ (Running' => ~Attempting')
    BY <1>0, <2>1, <2>4, VerdictStep
  <2>6. Due' <= Min + Top
    <3>1. left <= Min /\ left \in Nat \cup {-1}
      BY <1>0, <2>1 DEF Outlasted, TypeOK
    <3>2. AuthFail * pending' \in Nat /\ AuthFail * pending' <= Top
      BY <1>2, Bounds
    <3> QED BY <3>1, <3>2, <1>0, Bounds, NumbersAssumption DEF Due
  <2>7. ~Shut' /\ left' <= Min
    BY <1>0, <2>1 DEF Shut, Outlasted
  <2> QED BY <2>5, <2>6, <2>7 DEF Outlasted
<1> QED BY <1>4, <1>5 DEF IndInv, Penalty

\* A refused connection is a failed attempt of few: the penalty is older by then.
LEMMA PenalisedStep == IndInv /\ Penalised => IndInv'
<1> SUFFICES ASSUME IndInv, Penalised PROVE IndInv'
  OBVIOUS
<1>0. /\ TypeOK /\ Running /\ ~asleep /\ Shut /\ agenda[goal].probes # <<>>
      /\ UNCHANGED <<agenda, tried>> /\ UNCHANGED fixedVars
      /\ UNCHANGED <<left, active, pending, noise, gone, spent>>
      /\ Settle(Read(Current, "closed"))
  BY DEF IndInv, TypeOK, Penalised, Dialing, fixedVars, sshdVars
<1>1. NoVerdict
  BY <1>0, CurrentTyped, ReadVerdict DEF Settle
<1>2. ClientOK'
  BY <1>0, <1>1, NoVerdictStep
<1>3. /\ pending' \in 0..(Lag + 1) /\ noise' \in 0..Noise /\ noise' >= noise
      /\ spent' \in Nat
  BY <1>0, NumbersAssumption DEF TypeOK
<1>4. TypeOK' /\ Counted'
  BY <1>0, <1>2, <1>3, ClientTyped
<1>5. ASSUME Clean' PROVE Outlasted' /\ ~lastErr' /\ result' # "unanswered"
  <2>1. Clean /\ Outlasted /\ ~lastErr /\ tried = ProbeAttempts
    BY <1>0, <1>5 DEF Clean, Asking, IndInv, Penalty, Counted, fixedVars
  <2>2. Due \in Nat
    <3>1. AuthFail * pending \in Nat /\ left \in Nat \cup {-1}
      BY <1>0, Bounds DEF TypeOK
    <3> QED BY <3>1 DEF Due
  <2>3. attempt \in Nat /\ tried \in Nat /\ Due <= Min + Top - attempt * Backoff
    BY <1>0, <2>1 DEF TypeOK, Outlasted
  <2>4. attempt + 1 < tried
    BY <2>1, <2>2, <2>3, Bounds, NumbersAssumption
  <2>5. asleep' /\ UNCHANGED <<attempt, lastErr, result>>
    BY <1>0, <1>1, <2>4, NoVerdictStep
  <2>6. Shut' /\ Due' = Due /\ Running' /\ attempt' = attempt
    BY <1>0, <2>5 DEF Shut, Due, Running
  <2> QED BY <1>0, <2>1, <2>3, <2>5, <2>6 DEF Outlasted, Running
<1> QED BY <1>4, <1>5 DEF IndInv, Penalty

\* A goal that is passed over, or has no key to try, leaves no attempt behind.
LEMMA SkipStep == IndInv /\ (Skip \/ NoKeysLeft) => IndInv'
<1> SUFFICES ASSUME IndInv, Skip \/ NoKeysLeft PROVE IndInv'
  OBVIOUS
<1>0. /\ TypeOK /\ Running /\ UNCHANGED <<agenda, tried>> /\ UNCHANGED fixedVars
      /\ UNCHANGED <<left, active, pending, noise, gone, spent>>
      /\ (ToGoal(rejected) \/ End("refused")) /\ rejected \in BOOLEAN
  BY DEF IndInv, TypeOK, Skip, NoKeysLeft, fixedVars, sshdVars
<1>1. ClientOK' /\ (lastErr' => lastErr) /\ result' # "unanswered"
      /\ (Running' => ~Attempting')
  <2>1. CASE ToGoal(rejected)
    BY <1>0, <2>1, ToGoalStep
  <2>2. CASE End("refused")
    BY <1>0, <2>2, EndStep
  <2> QED BY <1>0, <2>1, <2>2
<1>2. TypeOK' /\ Counted'
  <2>1. /\ pending' \in 0..(Lag + 1) /\ noise' \in 0..Noise /\ noise' >= noise
        /\ spent' \in Nat
    BY <1>0, NumbersAssumption DEF TypeOK
  <2> QED BY <1>0, <1>1, <2>1, ClientTyped
<1>3. ASSUME Clean' PROVE Outlasted' /\ ~lastErr' /\ result' # "unanswered"
  <2>1. Clean /\ Outlasted /\ ~lastErr
    BY <1>0, <1>3 DEF Clean, Asking, IndInv, Penalty, fixedVars
  <2>2. Due' = Due /\ Shut' = Shut /\ left' = left
    BY <1>0 DEF Due, Shut
  <2>3. Running' => ~Attempting' /\ attempt' = 0
    BY <1>1 DEF Attempting, ClientOK
  <2>4. Min + Top - 0 * Backoff = Min + Top
    BY Bounds, NumbersAssumption
  <2> QED BY <1>1, <2>1, <2>2, <2>3, <2>4 DEF Outlasted
<1> QED BY <1>2, <1>3 DEF IndInv, Penalty

\* A lost connection is a disturbance, and so is a host that is gone.
LEMMA DisturbedStep == IndInv /\ (Disturbed \/ TimedOut) => IndInv'
<1> SUFFICES ASSUME IndInv, Disturbed \/ TimedOut PROVE IndInv'
  OBVIOUS
<1>0. /\ TypeOK /\ Counted /\ Running /\ UNCHANGED <<agenda, tried>> /\ UNCHANGED fixedVars
      /\ UNCHANGED <<left, active, pending, gone>>
      /\ Settle(Read(Current, "closed"))
  BY DEF IndInv, Disturbed, TimedOut, Dialing, fixedVars, sshdVars
<1>1. ClientOK'
  BY <1>0, SettleStep
<1>2. /\ noise' \in 0..Noise /\ noise' >= noise /\ noise' > 0 /\ spent' \in Nat
      /\ pending' \in 0..(Lag + 1)
  <2>1. CASE Disturbed
    BY <1>0, <2>1, NumbersAssumption DEF Disturbed, TypeOK
  <2>2. CASE TimedOut
    BY <1>0, <2>2, NumbersAssumption DEF TimedOut, TypeOK, Counted
  <2> QED BY <2>1, <2>2
<1>3. TypeOK' /\ Counted'
  BY <1>0, <1>1, <1>2, ClientTyped
<1>4. ~Clean'
  BY <1>2 DEF Clean
<1> QED BY <1>3, <1>4 DEF IndInv, Penalty

\* A sleep makes the penalty older by as much as the next attempt counts.
LEMMA SleepStep == IndInv /\ Sleep => IndInv'
<1> SUFFICES ASSUME IndInv, Sleep PROVE IndInv'
  OBVIOUS
<1>0. /\ TypeOK /\ Counted /\ Running /\ asleep /\ attempt + 1 < tried
      /\ asleep' = FALSE /\ attempt' = attempt + 1 /\ left' = Passing(Backoff)
      /\ UNCHANGED <<agenda, tried, policy, goal, key, lastErr, rejected, result,
                     active, pending, noise, gone>>
  BY DEF IndInv, Counted, Sleep, fixedVars
<1>1. left \in Nat \cup {-1} /\ Backoff \in Nat /\ attempt \in Nat /\ tried \in Nat
      /\ spent \in Nat /\ AuthFail * pending \in Nat /\ AuthFail * pending <= Top
      /\ pending' = pending
  BY <1>0, NumbersAssumption, Bounds DEF TypeOK
<1>2. left' \in Nat \cup {-1} /\ (left' = -1 \/ (left' = left - Backoff /\ left' >= 0))
  <2>1. CASE left < Backoff
    <3>1. left' = -1
      BY <1>0, <2>1 DEF Passing
    <3> QED BY <3>1
  <2>2. CASE ~(left < Backoff)
    <3>1. left' = left - Backoff /\ left \in Int
      BY <1>0, <1>1, <2>2 DEF Passing
    <3>2. left' >= 0 /\ left' \in Nat
      BY <1>1, <2>2, <3>1
    <3> QED BY <3>1, <3>2
  <2> QED BY <2>1, <2>2
<1>3. spent' \in Nat
  BY <1>0, <1>1 DEF Sleep
<1>4. TypeOK' /\ Counted'
  <2>1. attempt' \in 0..(tried' - 1)
    BY <1>0, <1>1
  <2>2. TypeOK'
    BY <1>0, <1>2, <1>3, <2>1 DEF TypeOK
  <2> QED BY <1>0, <2>2 DEF Counted, Asking
<1>5. ASSUME Clean' PROVE Outlasted' /\ ~lastErr' /\ result' # "unanswered"
  <2>1. Clean /\ Outlasted /\ ~lastErr /\ result # "unanswered" /\ Attempting
    BY <1>0, <1>5 DEF Clean, Asking, IndInv, Penalty, Attempting
  <2>2. Top \in Nat /\ Top <= Min /\ Min \in Nat /\ attempt * Backoff \in Nat
        /\ (attempt + 1) * Backoff = attempt * Backoff + Backoff
    BY <1>1, Bounds, NumbersAssumption
  <2>3. CASE left' = -1
    <3>1. ~Shut' /\ Due' = AuthFail * pending
      BY <1>0, <1>1, <2>3 DEF Shut, Due
    <3> QED BY <1>0, <1>1, <2>1, <2>2, <2>3, <3>1 DEF Outlasted
  <2>4. CASE left' = left - Backoff /\ left' >= 0
    <3>1. Shut' = Shut /\ Due' = Due - Backoff /\ Due \in Nat /\ Due' \in Int /\ left' <= left
      BY <1>0, <1>1, <2>4 DEF Shut, Due
    <3>2. CASE Shut
      <4>1. Due <= Min + Top - attempt * Backoff
        BY <1>0, <2>1, <3>2 DEF Outlasted
      <4>2. Due' <= Min + Top - attempt' * Backoff /\ Due' <= Min + Top
        BY <1>0, <1>1, <2>2, <3>1, <4>1
      <4> QED BY <1>0, <2>1, <3>1, <3>2, <4>2 DEF Outlasted
    <3>3. CASE ~Shut
      <4>1. Due <= Top /\ left <= Min
        BY <1>0, <2>1, <3>3 DEF Outlasted
      <4>2. Due' <= Top /\ Due' <= Min + Top /\ left' <= Min
        BY <1>1, <1>2, <2>2, <3>1, <4>1
      <4> QED BY <1>0, <2>1, <3>1, <3>3, <4>2 DEF Outlasted
    <3> QED BY <3>2, <3>3
  <2> QED BY <1>2, <2>3, <2>4
<1> QED BY <1>4, <1>5 DEF IndInv, Penalty

----------------------------------------------------------------------------
(* The steps of sshd and of the world.                                     *)

\* Booking changes neither the client nor what is due.
LEMMA BookStep == IndInv /\ Book => IndInv'
<1> SUFFICES ASSUME IndInv, Book PROVE IndInv'
  OBVIOUS
<1>0. /\ TypeOK /\ Counted /\ pending > 0 /\ pending' = pending - 1
      /\ left' = (IF left < 0 THEN AuthFail ELSE left + AuthFail)
      /\ active' = (left' > Min \/ Shut)
      /\ UNCHANGED <<agenda, tried, policy, goal, key, attempt, asleep, lastErr,
                     rejected, result, noise, gone, spent>>
  BY DEF IndInv, Book, Penalise, fixedVars, clientVars
<1>1. left \in Nat \cup {-1} /\ AuthFail \in Nat \ {0} /\ pending \in 0..(Lag + 1)
      /\ Lag \in Nat /\ Min \in Nat /\ attempt \in Nat
  BY <1>0, NumbersAssumption DEF TypeOK
<1>2. left' \in Nat /\ left' > 0 /\ pending' \in 0..(Lag + 1) /\ pending - 1 \in Nat
  BY <1>0, <1>1
<1>3. TypeOK' /\ Counted'
  <2>1. left' \in Nat \cup {-1} /\ active' \in BOOLEAN
    BY <1>0, <1>2
  <2>2. TypeOK'
    BY <1>0, <1>2, <2>1 DEF TypeOK
  <2> QED BY <1>0, <2>2 DEF Counted, Asking, Running
<1>4. Due' = Due /\ Due \in Nat /\ left' <= Due
  <2>1. AuthFail * ((pending - 1) + 1) = AuthFail * (pending - 1) + AuthFail
        /\ AuthFail * (pending - 1) \in Nat
    BY <1>1, <1>2, MultiplyNext
  <2>2. (pending - 1) + 1 = pending
    BY <1>1
  <2>3. AuthFail * pending = AuthFail * (pending - 1) + AuthFail
    BY <2>1, <2>2
  <2> QED BY <1>0, <1>1, <1>2, <2>1, <2>3 DEF Due
<1>5. ASSUME Clean' PROVE Outlasted' /\ ~lastErr' /\ result' # "unanswered"
  <2>1. Clean /\ Outlasted /\ ~lastErr /\ result # "unanswered"
    BY <1>0, <1>5 DEF Clean, Asking, IndInv, Penalty
  <2>2. Due <= Min + Top
    BY <2>1 DEF Outlasted
  <2>3. Shut' <=> left' > Min \/ Shut
    <3>1. left' >= 0
      BY <1>2
    <3>2. active' <=> left' > Min \/ Shut
      BY <1>0
    <3>3. Shut' <=> active' /\ left' >= 0
      BY DEF Shut
    <3> QED BY <3>1, <3>2, <3>3
  <2>4. ~Shut' => left' <= Min
    BY <1>1, <1>2, <2>3
  <2>5. Running /\ Shut' => Due <= Min + Top - attempt * Backoff
    <3>1. CASE Shut
      BY <2>1, <3>1 DEF Outlasted
    <3>2. CASE ~Shut /\ Attempting
      <4>1. Running => Due <= Top
        BY <2>1, <3>2 DEF Outlasted
      <4>2. Shut' => Due > Min
        BY <1>1, <1>2, <1>4, <2>3, <3>2
      <4> QED BY <4>1, <4>2, <1>1, <1>4, Bounds
    <3>3. CASE ~Attempting
      <4>1. attempt = 0
        BY <1>1, <3>3 DEF Attempting
      <4> QED BY <4>1, <2>2, Bounds, <1>1
    <3> QED BY <3>1, <3>2, <3>3
  <2>6. Running /\ ~Shut' /\ Attempting => Due <= Top
    BY <2>1, <2>3 DEF Outlasted
  <2>7. (Running' <=> Running) /\ (Attempting' <=> Attempting) /\ attempt' = attempt
    BY <1>0 DEF Running, Attempting
  <2> QED BY <1>0, <1>4, <2>1, <2>2, <2>4, <2>5, <2>6, <2>7 DEF Outlasted
<1> QED BY <1>3, <1>5 DEF IndInv, Penalty

\* What others do to the penalty, or to the host, counts as noise.
LEMMA NoiseStep == IndInv /\ (OthersFail \/ HostGone) => IndInv'
<1> SUFFICES ASSUME IndInv, OthersFail \/ HostGone PROVE IndInv'
  OBVIOUS
<1>0. /\ TypeOK /\ Counted /\ noise' = noise + 1 /\ noise < Noise
      /\ UNCHANGED <<agenda, tried, policy, goal, key, attempt, asleep, lastErr,
                     rejected, result, pending, spent>>
  BY DEF IndInv, OthersFail, HostGone, fixedVars, clientVars, sshdVars
<1>1. left \in Nat \cup {-1} /\ AuthFail \in Nat \ {0} /\ noise \in Nat /\ Noise \in Nat
  BY <1>0, NumbersAssumption DEF TypeOK
<1>2. left' \in Nat \cup {-1} /\ active' \in BOOLEAN /\ gone' \in BOOLEAN
  <2>1. CASE OthersFail
    <3>1. /\ left' = (IF left < 0 THEN AuthFail ELSE left + AuthFail)
          /\ active' = (left' > Min \/ Shut) /\ gone' = gone
      BY <2>1 DEF OthersFail, Penalise
    <3>2. left' \in Nat \cup {-1}
      BY <3>1, <1>1
    <3>3. active' \in BOOLEAN
      BY <3>1
    <3> QED BY <1>0, <3>1, <3>2, <3>3 DEF TypeOK
  <2>2. CASE HostGone
    BY <1>0, <2>2 DEF HostGone, sshdVars, TypeOK
  <2> QED BY <2>1, <2>2
<1>3. noise' \in 0..Noise /\ noise' > 0
  BY <1>0, <1>1
<1>4. TypeOK' /\ Counted'
  BY <1>0, <1>2, <1>3 DEF TypeOK, Counted, Asking, Running
<1>5. ~Clean'
  BY <1>3 DEF Clean
<1> QED BY <1>4, <1>5 DEF IndInv, Penalty

\* Time only takes from the penalty.
LEMMA ElapseStep == IndInv /\ Elapse => IndInv'
<1> SUFFICES ASSUME IndInv, Elapse PROVE IndInv'
  OBVIOUS
<1>0. /\ TypeOK /\ Counted /\ left >= 0 /\ left' = Passing(1)
      /\ UNCHANGED <<agenda, tried, policy, goal, key, attempt, asleep, lastErr,
                     rejected, result, active, pending, noise, gone, spent>>
  BY DEF IndInv, Elapse, fixedVars, clientVars
<1>1. left \in Nat /\ left' = left - 1 /\ left' \in Nat \cup {-1}
      /\ AuthFail * pending \in Nat /\ AuthFail * pending <= Top
      /\ attempt \in Nat /\ Min \in Nat /\ Top \in Nat /\ attempt * Backoff \in Nat
  <2>1. left \in Nat
    BY <1>0 DEF TypeOK
  <2>2. left' = left - 1 /\ left' \in Nat \cup {-1}
    BY <1>0, <2>1 DEF Passing
  <2>3. attempt \in Nat /\ pending \in 0..(Lag + 1)
    BY <1>0 DEF TypeOK
  <2> QED BY <2>1, <2>2, <2>3, NumbersAssumption, Bounds
<1>2. TypeOK' /\ Counted'
  BY <1>0, <1>1 DEF TypeOK, Counted, Asking, Running
<1>3. ASSUME Clean' PROVE Outlasted' /\ ~lastErr' /\ result' # "unanswered"
  <2>1. Clean /\ Outlasted /\ ~lastErr /\ result # "unanswered"
    BY <1>0, <1>3 DEF Clean, Asking, IndInv, Penalty
  <2>2. (Running' <=> Running) /\ (Attempting' <=> Attempting) /\ attempt' = attempt
    BY <1>0 DEF Running, Attempting
  <2>3. Due' <= Due /\ Due \in Nat /\ Due' \in Nat /\ (Shut' => Shut)
    BY <1>0, <1>1 DEF Due, Shut
  <2>4. CASE Shut' \/ ~Shut
    <3>1. Shut' <=> Shut
      BY <2>3, <2>4
    <3> QED BY <1>0, <1>1, <2>1, <2>2, <2>3, <3>1 DEF Outlasted
  <2>5. CASE Shut /\ ~Shut'
    <3>1. left' = -1 /\ Due' = AuthFail * pending
      BY <1>0, <1>1, <2>5 DEF Shut, Due
    <3> QED BY <1>0, <1>1, <2>1, <2>5, <3>1 DEF Outlasted
  <2> QED BY <2>4, <2>5
<1> QED BY <1>2, <1>3 DEF IndInv, Penalty

LEMMA NextIndInv == IndInv /\ [Next]_vars => IndInv'
<1> SUFFICES ASSUME IndInv, [Next]_vars PROVE IndInv'
  OBVIOUS
<1>1. CASE Client
  BY <1>1, AnswerStep, PenalisedStep, DisturbedStep, SkipStep, SleepStep DEF Client
<1>2. CASE Disturbed \/ Book \/ OthersFail \/ Elapse \/ HostGone
  BY <1>2, DisturbedStep, BookStep, NoiseStep, ElapseStep
<1>3. CASE UNCHANGED vars
  BY <1>3 DEF IndInv, TypeOK, Counted, Penalty, Clean, Asking, Outlasted, Shut, Due, Running,
              Attempting, vars, fixedVars, clientVars, sshdVars
<1> QED BY <1>1, <1>2, <1>3 DEF Next, Over

----------------------------------------------------------------------------

\* Every step keeps the invariant.
THEOREM ProbesInvariant == Spec => []IndInv
<1> QED BY InitIndInv, NextIndInv, PTL DEF Spec

\* Every variable keeps its type, the client's place in its agenda included.
THEOREM ProbesTypeCorrect == Spec => []TypeOK
<1>1. IndInv => TypeOK
  BY DEF IndInv
<1> QED BY <1>1, ProbesInvariant, PTL

\* The client's own probes never leave a transaction without a verdict, whatever
\* the numbers are that satisfy PenaltyAssumption.
THEOREM OwnPenaltiesNeverWin == Spec => []OwnPenaltiesPass
<1>1. IndInv => OwnPenaltiesPass
  <2> SUFFICES ASSUME IndInv, result = "unanswered", ~Asking, ~Excused PROVE FALSE
    BY DEF OwnPenaltiesPass
  <2>1. noise = 0
    BY NumbersAssumption DEF IndInv, TypeOK, Excused
  <2> QED BY <2>1 DEF IndInv, Penalty, Clean, Excused
<1> QED BY <1>1, ProbesInvariant, PTL

----------------------------------------------------------------------------
(* What a result says of the host.                                         *)

\* The goals of an agenda: one probe for each, but for those of one of several keys,
\* and none for those that are passed over.
WellMade(x) ==
    /\ x.aim \notin {"some", "skip"} => Len(x.probes) = 1
    /\ x.aim = "skip" => x.probes = <<>>

Uniform == \A g, h \in 1..Len(agenda) : agenda[g].aim = "report" => agenda[h].aim = "report"

Shape == Uniform /\ \A g \in 1..Len(agenda) : WellMade(agenda[g])

\* The inductive invariant, next to IndInv: the goals passed are met, unless the probe
\* command has seen a rejection; of several keys those passed are judged, or an error is
\* remembered.
Judged ==
    /\ Shape
    /\ rejected => Aim = "report" /\ \E g \in 1..goal : ~Met(agenda[g])
    /\ \A g \in 1..goal : g < goal => Met(agenda[g]) \/ rejected
    /\ Aim = "some" => \A i \in 1..key :
            i < key => ~Accepted(agenda[goal].probes[i]) \/ lastErr
    /\ PassedIsProven /\ RefusedIsJudged

\* The goals of a transaction, and those of the probe command.
TxGoals == {x \in Goal : WellMade(x) /\ x.aim # "report"}

AskGoals == {x \in Goal : WellMade(x) /\ x.aim = "report"}

LEMMA GoalsMade ==
    ASSUME NEW r \in Request
    PROVE  /\ PassOver \in TxGoals
           /\ \A op \in Op, how \in {"query", "full"} :
                /\ One("accepted", op, how) \in TxGoals
                /\ One("rejected", op, how) \in TxGoals
                /\ One("report", op, how) \in AskGoals
           /\ \A u \in Users : Some(r, u) \in TxGoals
<1>1. PassOver \in TxGoals
  BY GoalTyped DEF PassOver, TxGoals, WellMade
<1>2. ASSUME NEW op \in Op, NEW how \in {"query", "full"},
             NEW aim \in {"accepted", "rejected", "report"}
      PROVE  One(aim, op, how) \in Goal /\ WellMade(One(aim, op, how))
                /\ One(aim, op, how).aim = aim
  <2>1. One(aim, op, how) \in Goal
    BY GoalTyped
  <2>2. Len(One(aim, op, how).probes) = 1 /\ One(aim, op, how).aim = aim
    BY DEF One
  <2> QED BY <2>1, <2>2 DEF WellMade
<1>3. ASSUME NEW u \in Users PROVE Some(r, u) \in TxGoals
  <2>1. Some(r, u).aim = "some"
    BY DEF Some
  <2> QED BY <2>1, GoalTyped DEF TxGoals, WellMade
<1> QED BY <1>1, <1>2, <1>3 DEF TxGoals, AskGoals

\* The agenda of a request is of the one kind or the other.
LEMMA AgendaMade ==
    ASSUME NEW r \in Requests
    PROVE  AgendaOf(r) \in Seq(TxGoals) \/ AgendaOf(r) \in Seq(AskGoals)
<1>1. r \in Request /\ r.ops \in Seq(Op) /\ NumUsers \in Nat
  BY RequestsAssumption, NumbersAssumption DEF Request, Op
<1>2. Len(r.ops) \in Nat /\ \A i \in 1..Len(r.ops) : r.ops[i] \in Op /\ r.ops[i].user \in Users
  <2>1. \A op \in Op : op.user \in Users
    BY DEF Op
  <2> QED BY <1>1, <2>1
<1>3. Additions(r) \in Seq(TxGoals)
  BY <1>1, <1>2, GoalsMade DEF Additions
<1>4. Controls(r) \in Seq(TxGoals)
  BY <1>1, <1>2, GoalsMade DEF Controls
<1>5. Removals(r) \in Seq(TxGoals)
  BY <1>1, <1>2, GoalsMade DEF Removals
<1>6. Proofs(r) \in Seq(TxGoals)
  BY <1>1, GoalsMade DEF Proofs, Users
<1>7. CASE r.command = "probe"
  <2>1. AgendaOf(r) = [i \in 1..Len(r.ops) |-> One("report", r.ops[i], "query")]
    BY <1>7 DEF AgendaOf
  <2> QED BY <2>1, <1>1, <1>2, GoalsMade
<1>8. CASE r.command # "probe"
  <2>1. AgendaOf(r) = Additions(r) \o Controls(r) \o Removals(r) \o Proofs(r)
    BY <1>8 DEF AgendaOf
  <2> QED BY <2>1, <1>3, <1>4, <1>5, <1>6
<1> QED BY <1>7, <1>8

LEMMA InitJudged == Init => Judged
<1> SUFFICES ASSUME Init PROVE Judged
  OBVIOUS
<1>1. PICK r \in Requests : agenda = AgendaOf(r)
  BY DEF Init
<1>2. Shape
  <2>1. CASE agenda \in Seq(TxGoals)
    <3>1. \A g \in 1..Len(agenda) : agenda[g] \in TxGoals
      BY <2>1
    <3> QED BY <3>1 DEF Shape, Uniform, TxGoals
  <2>2. CASE agenda \in Seq(AskGoals)
    <3>1. \A g \in 1..Len(agenda) : agenda[g] \in AskGoals
      BY <2>2
    <3> QED BY <3>1 DEF Shape, Uniform, AskGoals
  <2> QED BY <1>1, <2>1, <2>2, AgendaMade
<1> QED BY <1>2 DEF Init, Judged, PassedIsProven, RefusedIsJudged

\* What is met does not depend on the client.
LEMMA Lasting ==
    ASSUME UNCHANGED fixedVars
    PROVE  /\ \A g : Met(agenda[g])' = Met(agenda[g])
           /\ \A g, i : Accepted(agenda[g].probes[i])' = Accepted(agenda[g].probes[i])
           /\ Shape' = Shape
<1>1. \A p : Accepted(p)' = Accepted(p)
  BY DEF fixedVars, Accepted, Handshake, Authorized, Removed, Added
<1>2. agenda' = agenda
  BY DEF fixedVars
<1> QED BY <1>1, <1>2 DEF Met, Shape, Uniform

\* The goal is met, or the probe command has seen a rejection; and the next one.
LEMMA GoalJudged ==
    ASSUME TypeOK, Judged, Running, UNCHANGED fixedVars, NEW rej \in BOOLEAN, ToGoal(rej),
           rejected => rej, Met(agenda[goal]) \/ rej,
           rej => Aim = "report" /\ \E g \in 1..goal : ~Met(agenda[g])
    PROVE  Judged'
<1>1. goal \in 1..Len(agenda) /\ Len(agenda) \in Nat /\ Shape'
  BY GoalLength, Lasting DEF TypeOK, Judged
<1>2. \A g \in 1..goal : Met(agenda[g]) \/ rej
  BY <1>1 DEF Judged
<1>3. \A g : Met(agenda[g])' = Met(agenda[g])
  BY Lasting
<1>4. CASE goal < Len(agenda)
  <2>1. /\ goal' = goal + 1 /\ key' = 1 /\ rejected' = rej /\ result' = "running"
        /\ agenda' = agenda
    BY <1>4 DEF ToGoal, Running, fixedVars
  <2>2. rejected' => Aim' = "report" /\ \E g \in 1..goal' : ~Met(agenda[g])'
    <3>1. ASSUME rej PROVE agenda[goal + 1].aim = "report"
      BY <1>1, <1>4, <3>1 DEF Judged, Shape, Uniform, Aim
    <3>2. rej => \E g \in 1..(goal + 1) : ~Met(agenda[g])
      BY <1>1
    <3> QED BY <1>3, <2>1, <3>1, <3>2 DEF Aim
  <2>3. \A g \in 1..goal' : g < goal' => Met(agenda[g])' \/ rejected'
    BY <1>1, <1>2, <1>3, <2>1
  <2>4. \A i \in 1..key' : ~(i < key')
    BY <2>1
  <2> QED BY <1>1, <2>1, <2>2, <2>3, <2>4 DEF Judged, PassedIsProven, RefusedIsJudged
<1>5. CASE ~(goal < Len(agenda))
  <2>1. /\ goal = Len(agenda) /\ UNCHANGED <<goal, key, lastErr, rejected>>
        /\ result' = IF rej THEN "refused" ELSE "passed"
    BY <1>1, <1>5 DEF ToGoal, End
  <2>2. PassedIsProven' /\ RefusedIsJudged'
    <3>1. agenda' = agenda
      BY DEF fixedVars
    <3> QED BY <1>2, <1>3, <2>1, <3>1 DEF PassedIsProven, RefusedIsJudged
  <2>3. /\ Aim' = Aim
        /\ \A i : Accepted(agenda[goal].probes[i])' = Accepted(agenda[goal].probes[i])
    BY <2>1, Lasting DEF Aim, fixedVars
  <2> QED BY <1>1, <1>3, <2>1, <2>2, <2>3 DEF Judged
<1> QED BY <1>4, <1>5

\* The run ends at this goal, unanswered or refused.
LEMMA EndJudged ==
    ASSUME TypeOK, Judged, UNCHANGED fixedVars, NEW r \in {"refused", "unanswered"}, End(r),
           r = "refused" => \E g \in 1..goal : ~Met(agenda[g])
    PROVE  Judged'
<1>1. UNCHANGED <<goal, key, lastErr, rejected>> /\ result' = r /\ agenda' = agenda
  BY DEF End, fixedVars
<1>2. \A g : Met(agenda[g])' = Met(agenda[g])
  BY Lasting
<1>3. /\ Aim' = Aim /\ Shape'
      /\ \A i : Accepted(agenda[goal].probes[i])' = Accepted(agenda[goal].probes[i])
  BY <1>1, Lasting DEF Aim, Judged
<1>4. PassedIsProven' /\ RefusedIsJudged'
  BY <1>1, <1>2 DEF PassedIsProven, RefusedIsJudged
<1> QED BY <1>1, <1>2, <1>3, <1>4 DEF Judged

\* One of several keys is not accepted, or not judged; and the next one.
LEMMA KeyJudged ==
    ASSUME TypeOK, Judged, Running, UNCHANGED fixedVars, NEW e \in BOOLEAN, ToKey(e),
           Aim = "some", agenda[goal].probes # <<>>, ~Accepted(Current) \/ e
    PROVE  Judged'
<1>1. /\ goal \in 1..Len(agenda) /\ Len(agenda) \in Nat
      /\ key \in Nat \ {0} /\ Len(agenda[goal].probes) \in Nat
      /\ key <= Len(agenda[goal].probes)
  BY GoalLength DEF TypeOK
<1>2. ~rejected
  BY DEF Judged
<1>3. \A i \in 1..key : ~Accepted(agenda[goal].probes[i]) \/ (lastErr \/ e)
  BY <1>1 DEF Judged, Current
<1>4. CASE key < Len(agenda[goal].probes)
  <2>1. /\ key' = key + 1 /\ lastErr' = (lastErr \/ e) /\ UNCHANGED <<goal, rejected, result>>
        /\ agenda' = agenda
    BY <1>4 DEF ToKey, fixedVars
  <2>2. /\ Aim' = Aim /\ Shape'
        /\ \A g : Met(agenda[g])' = Met(agenda[g])
        /\ \A i : Accepted(agenda[goal].probes[i])' = Accepted(agenda[goal].probes[i])
    BY <2>1, Lasting DEF Aim, Judged
  <2>3. \A i \in 1..key' : i < key' => ~Accepted(agenda[goal].probes[i])' \/ lastErr'
    <3>1. \A i \in 1..key' : i < key' => i \in 1..key
      BY <1>1, <2>1
    <3> QED BY <1>3, <2>1, <2>2, <3>1
  <2>4. PassedIsProven' /\ RefusedIsJudged'
    BY <2>1 DEF PassedIsProven, RefusedIsJudged, Running
  <2> QED BY <1>2, <2>1, <2>2, <2>3, <2>4 DEF Judged
<1>5. CASE ~(key < Len(agenda[goal].probes))
  <2>1. End(IF lastErr \/ e THEN "unanswered" ELSE "refused")
    BY <1>5 DEF ToKey
  <2>2. CASE lastErr \/ e
    BY <2>1, <2>2, EndJudged
  <2>3. CASE ~(lastErr \/ e)
    <3>1. ~Met(agenda[goal])
      BY <1>1, <1>3, <1>5, <2>3 DEF Met, Aim
    <3> QED BY <1>1, <2>1, <2>3, <3>1, EndJudged
  <2> QED BY <2>2, <2>3
<1> QED BY <1>4, <1>5

\* Without a verdict nothing is judged.
LEMMA NoVerdictJudged ==
    ASSUME TypeOK, Judged, Running, UNCHANGED fixedVars, NoVerdict, agenda[goal].probes # <<>>
    PROVE  Judged'
<1>1. CASE UNCHANGED <<goal, key, lastErr, rejected, result>>
  <2>1. agenda' = agenda
    BY DEF fixedVars
  <2>2. /\ Aim' = Aim /\ Shape'
        /\ \A g : Met(agenda[g])' = Met(agenda[g])
        /\ \A i : Accepted(agenda[goal].probes[i])' = Accepted(agenda[goal].probes[i])
    BY <1>1, <2>1, Lasting DEF Aim, Judged
  <2>3. PassedIsProven' /\ RefusedIsJudged'
    BY <1>1 DEF PassedIsProven, RefusedIsJudged, Running
  <2> QED BY <1>1, <2>2, <2>3 DEF Judged
<1>2. CASE Aim = "some" /\ ToKey(TRUE)
  BY <1>2, KeyJudged
<1>3. CASE End("unanswered")
  BY <1>3, EndJudged
<1> QED BY <1>1, <1>2, <1>3 DEF NoVerdict

\* A verdict is what sshd has answered, and decides its goal.
LEMMA VerdictJudged ==
    ASSUME TypeOK, Judged, Running, UNCHANGED fixedVars, NEW a \in BOOLEAN, Verdict(a),
           a = Accepted(Current), agenda[goal].probes # <<>>
    PROVE  Judged'
<1>1. goal \in 1..Len(agenda) /\ Len(agenda) \in Nat /\ WellMade(agenda[goal]) /\ Aim # "skip"
  BY GoalLength DEF TypeOK, Judged, Shape, WellMade, Aim
<1>2. Aim # "some" => Current = agenda[goal].probes[1]
  BY <1>1 DEF WellMade, Aim, Current, TypeOK
<1>3. CASE Aim = "report"
  <2>1. Met(agenda[goal]) = a
    BY <1>2, <1>3 DEF Met, Aim
  <2>2. (rejected \/ ~a) \in BOOLEAN /\ ToGoal(rejected \/ ~a)
    BY <1>3 DEF TypeOK, Verdict
  <2>3. rejected \/ ~a => Aim = "report" /\ \E g \in 1..goal : ~Met(agenda[g])
    BY <1>1, <1>3, <2>1 DEF Judged
  <2> QED BY <2>1, <2>2, <2>3, GoalJudged
<1>4. CASE Aim = "some"
  <2>1. ~rejected
    BY <1>4 DEF Judged
  <2>2. CASE a
    <3>1. key \in 1..Len(agenda[goal].probes)
      BY GoalLength DEF TypeOK
    <3>2. Met(agenda[goal])
      BY <1>4, <2>2, <3>1 DEF Met, Aim, Current
    <3> QED BY <1>4, <2>1, <2>2, <3>2, GoalJudged DEF Verdict
  <2>3. CASE ~a
    BY <1>4, <2>3, KeyJudged DEF Verdict
  <2> QED BY <2>2, <2>3
<1>5. CASE Aim \notin {"report", "some"}
  <2>1. ~rejected
    BY <1>5 DEF Judged
  <2>2. agenda[goal].aim \in {"accepted", "rejected"}
    <3>1. agenda[goal] \in Goal
      BY <1>1 DEF TypeOK
    <3> QED BY <1>1, <1>5, <3>1 DEF Goal, Aim
  <2>3. Met(agenda[goal]) = (a = (Aim = "accepted"))
    BY <1>2, <1>5, <2>2 DEF Met, Aim
  <2>4. CASE Met(agenda[goal])
    BY <1>5, <2>1, <2>3, <2>4, GoalJudged DEF Verdict
  <2>5. CASE ~Met(agenda[goal])
    <3>1. \E g \in 1..goal : ~Met(agenda[g])
      BY <1>1, <2>5
    <3>2. End("refused")
      BY <1>5, <2>3, <2>5 DEF Verdict
    <3> QED BY <3>1, <3>2, EndJudged
  <2> QED BY <2>4, <2>5
<1> QED BY <1>3, <1>4, <1>5

\* What the client reads as a verdict is sshd's.
LEMMA ReadTrue ==
    ASSUME NEW p \in Probe, Read(p, Handshake(p)) # "error"
    PROVE  (Read(p, Handshake(p)) = "accepted") = Accepted(p)
<1>1. p.how \in {"query", "full"}
  BY DEF Probe
<1>2. Handshake(p) \in {"asked", "refused", "success"}
  BY DEF Handshake
<1> QED BY <1>1, <1>2 DEF Read, Accepted

LEMMA NextJudged == IndInv /\ Judged /\ [Next]_vars => Judged'
<1> SUFFICES ASSUME IndInv, Judged, [Next]_vars PROVE Judged'
  OBVIOUS
<1>1. TypeOK
  BY DEF IndInv
<1>2. CASE Answer
  <2> DEFINE x == Read(Current, Handshake(Current))
  <2>1. Running /\ UNCHANGED fixedVars /\ agenda[goal].probes # <<>> /\ Settle(x)
    BY <1>2 DEF Answer, Dialing
  <2>2. Current \in Probe
    BY <1>1, <2>1, CurrentTyped
  <2>3. CASE x = "error"
    BY <1>1, <2>1, <2>3, NoVerdictJudged DEF Settle
  <2>4. CASE x # "error"
    <3>1. (x = "accepted") \in BOOLEAN /\ Verdict(x = "accepted")
      BY <2>1, <2>4 DEF Settle
    <3>2. (x = "accepted") = Accepted(Current)
      BY <2>2, <2>4, ReadTrue
    <3> QED BY <1>1, <2>1, <3>1, <3>2, VerdictJudged
  <2> QED BY <2>3, <2>4
<1>3. CASE Penalised \/ Disturbed \/ TimedOut
  <2>1. Running /\ UNCHANGED fixedVars /\ agenda[goal].probes # <<>>
        /\ Settle(Read(Current, "closed"))
    BY <1>3 DEF Penalised, Disturbed, TimedOut, Dialing
  <2>2. Read(Current, "closed") = "error"
    BY <1>1, <2>1, CurrentTyped, ReadVerdict
  <2> QED BY <1>1, <2>1, <2>2, NoVerdictJudged DEF Settle
<1>4. CASE Skip
  <2>1. Running /\ UNCHANGED fixedVars /\ Aim = "skip" /\ ToGoal(rejected) /\ ~rejected
    BY <1>4 DEF Skip, Judged
  <2>2. Met(agenda[goal])
    BY <2>1 DEF Met, Aim
  <2> QED BY <1>1, <2>1, <2>2, GoalJudged DEF TypeOK
<1>5. CASE NoKeysLeft
  <2>1. UNCHANGED fixedVars /\ Aim = "some" /\ agenda[goal].probes = <<>> /\ End("refused")
    BY <1>5 DEF NoKeysLeft
  <2>2. ~Met(agenda[goal]) /\ goal \in 1..goal
    BY <1>1, <2>1 DEF Met, Aim, TypeOK
  <2> QED BY <1>1, <2>1, <2>2, EndJudged
<1>6. CASE Sleep \/ Book \/ OthersFail \/ Elapse \/ HostGone \/ UNCHANGED vars
  <2>1. UNCHANGED <<fixedVars, goal, key, lastErr, rejected, result>>
    BY <1>6 DEF Sleep, Book, OthersFail, Elapse, HostGone, vars, clientVars
  <2>2. /\ Aim' = Aim /\ Shape' = Shape /\ agenda' = agenda
        /\ \A g : Met(agenda[g])' = Met(agenda[g])
        /\ \A i : Accepted(agenda[goal].probes[i])' = Accepted(agenda[goal].probes[i])
    BY <2>1, Lasting DEF Aim, fixedVars
  <2>3. PassedIsProven' = PassedIsProven /\ RefusedIsJudged' = RefusedIsJudged
    BY <2>1, <2>2 DEF PassedIsProven, RefusedIsJudged
  <2> QED BY <2>1, <2>2, <2>3 DEF Judged
<1> QED BY <1>2, <1>3, <1>4, <1>5, <1>6 DEF Next, Client, Over

\* The probes pass only when every goal is met: every added key gets in, every removed one does
\* not, and some key of every changed file does, for any agenda, any policies and any
\* disturbance (ProbeKey, VerifyAuth, someKeyAccepted).
THEOREM PassesAreProven == Spec => []PassedIsProven
<1>1. Judged => PassedIsProven
  BY DEF Judged
<1> QED BY <1>1, InitJudged, NextJudged, ProbesInvariant, PTL DEF Spec

\* A refusal rests on sshd's own answers to all that the goal depends on (someKeyAccepted).
THEOREM RefusalsAreJudged == Spec => []RefusedIsJudged
<1>1. Judged => RefusedIsJudged
  BY DEF Judged
<1> QED BY <1>1, InitJudged, NextJudged, ProbesInvariant, PTL DEF Spec

----------------------------------------------------------------------------
(* Nothing goes on for ever.                                               *)

Flag(b) == IF b THEN 1 ELSE 0

\* Keys of the present goal behind the one that is asked for.
KeysLeft ==
    IF key < Len(agenda[goal].probes) THEN Len(agenda[goal].probes) - key ELSE 0

\* What is left to do, the most significant first: the client's, then what can
\* still disturb it, what sshd has to book, and the time until it forgets.
Remaining ==
    << Flag(Running), Len(agenda) - goal, KeysLeft, tried - attempt, Flag(~asleep),
       Noise - noise, pending, left + 1 >>

Below == {ss \in Nat \X Nat : ss[1] < ss[2]}

\* The lexicographic order of what is left.
Fewer == LexProductOrdering(Below, Nat, 8)

Lessens == <<Remaining', Remaining>> \in Fewer

\* The client's place moves on.
Onward ==
    \/ Running /\ ~Running'
    \/ /\ Running' = Running
       /\ \/ goal' > goal
          \/ /\ goal' = goal
             /\ \/ key < Len(agenda[goal].probes) /\ key' = key + 1
                \/ /\ key' = key
                   /\ \/ attempt' = attempt + 1
                      \/ attempt' = attempt /\ ~asleep /\ asleep'

\* sshd or the world moves on.
WorldOnward ==
    \/ noise' > noise
    \/ /\ noise' = noise
       /\ \/ pending' < pending
          \/ pending' = pending /\ left > left'

\* None of the counts goes below zero.
Natural == Remaining \in [1..8 -> Nat]

LEMMA KeysLeftType == ASSUME TypeOK PROVE KeysLeft \in Nat
<1>1. Len(agenda[goal].probes) \in Nat /\ key \in Nat
  BY GoalLength DEF TypeOK
<1> QED BY <1>1 DEF KeysLeft

LEMMA RemainingType ==
    ASSUME TypeOK
    PROVE  Natural
<1>1. Len(agenda) - goal \in Nat
  BY GoalLength DEF TypeOK
<1>2. tried - attempt \in Nat
  BY DEF TypeOK
<1>3. Noise - noise \in Nat /\ pending \in Nat /\ left + 1 \in Nat
  BY NumbersAssumption DEF TypeOK
<1>4. Flag(Running) \in Nat /\ Flag(~asleep) \in Nat
  BY DEF Flag
<1> QED BY <1>1, <1>2, <1>3, <1>4, KeysLeftType DEF Remaining, Natural

\* What is less at the first place that differs is less.
LEMMA Lower ==
    ASSUME NEW r \in [1..8 -> Nat], NEW s \in [1..8 -> Nat], NEW j \in 1..8,
           s[j] < r[j], \A i \in 1..(j - 1) : s[i] = r[i]
    PROVE  <<s, r>> \in Fewer
<1>1. <<s[j], r[j]>> \in Below
  BY DEF Below
<1> QED  BY <1>1 DEF Fewer, LexProductOrdering

LEMMA OnwardIsFewer ==
    ASSUME TypeOK, TypeOK', Natural, Natural', UNCHANGED <<agenda, tried>>, Onward
    PROVE  Lessens
<1>1. Remaining \in [1..8 -> Nat] /\ Remaining' \in [1..8 -> Nat]
  BY DEF Natural
<1> DEFINE Down(j) == Remaining'[j] < Remaining[j] /\ \A i \in 1..(j - 1) : Remaining'[i] = Remaining[i]
<1>2. ASSUME NEW j \in 1..8, Down(j) PROVE Lessens
  BY <1>1, <1>2, Lower DEF Lessens
<1>3. /\ Remaining[1] = Flag(Running) /\ Remaining[2] = Len(agenda) - goal
      /\ Remaining[3] = KeysLeft /\ Remaining[4] = tried - attempt /\ Remaining[5] = Flag(~asleep)
      /\ Remaining'[1] = Flag(Running') /\ Remaining'[2] = Len(agenda) - goal'
      /\ Remaining'[3] = KeysLeft' /\ Remaining'[4] = tried - attempt'
      /\ Remaining'[5] = Flag(~asleep')
  BY DEF Remaining, Flag
<1>4. goal \in Nat /\ goal' \in Nat /\ Len(agenda) \in Nat /\ attempt \in Nat /\ tried \in Nat
  BY GoalLength DEF TypeOK
<1>5. CASE Running /\ ~Running'
  <2>1. Down(1)
    BY <1>3, <1>5 DEF Flag
  <2> QED BY <1>2, <2>1
<1>6. CASE Running' = Running /\ goal' > goal
  <2>1. Down(2)
    BY <1>3, <1>4, <1>6 DEF Flag
  <2> QED BY <1>2, <2>1
<1>7. CASE /\ Running' = Running /\ goal' = goal
           /\ key < Len(agenda[goal].probes) /\ key' = key + 1
  <2>1. Len(agenda[goal].probes) \in Nat /\ key \in Nat
    BY GoalLength DEF TypeOK
  <2>2. KeysLeft' < KeysLeft
    BY <1>7, <2>1 DEF KeysLeft
  <2>3. Down(3)
    BY <1>3, <1>7, <2>2 DEF Flag
  <2> QED BY <1>2, <2>3
<1>8. CASE Running' = Running /\ goal' = goal /\ key' = key
  <2>1. KeysLeft' = KeysLeft
    BY <1>8 DEF KeysLeft
  <2>2. CASE attempt' = attempt + 1
    <3>1. Down(4)
      BY <1>3, <1>4, <1>8, <2>1, <2>2 DEF Flag
    <3> QED BY <1>2, <3>1
  <2>3. CASE attempt' = attempt /\ ~asleep /\ asleep'
    <3>1. Down(5)
      BY <1>3, <1>8, <2>1, <2>3 DEF Flag
    <3> QED BY <1>2, <3>1
  <2>4. CASE goal' > goal
    BY <1>4, <1>8, <2>4
  <2>5. CASE ~(attempt' = attempt + 1) /\ ~(attempt' = attempt /\ ~asleep /\ asleep')
    <3>1. key < Len(agenda[goal].probes) /\ key' = key + 1
      BY <1>4, <1>8, <2>5 DEF Onward
    <3> QED BY <1>7, <1>8, <3>1
  <2> QED BY <2>2, <2>3, <2>5
<1> QED BY <1>5, <1>6, <1>7, <1>8 DEF Onward

LEMMA MoreIsLess ==
    \A n, i, j \in Int : i > j => n - i < n - j /\ j + 1 < i + 1
OBVIOUS

LEMMA WorldIsFewer ==
    ASSUME TypeOK, TypeOK', Natural, Natural', UNCHANGED <<fixedVars, clientVars>>, WorldOnward
    PROVE  Lessens
<1>1. Remaining \in [1..8 -> Nat] /\ Remaining' \in [1..8 -> Nat]
  BY DEF Natural
<1> DEFINE Down(j) == Remaining'[j] < Remaining[j] /\ \A i \in 1..(j - 1) : Remaining'[i] = Remaining[i]
<1>2. ASSUME NEW j \in 1..8, Down(j) PROVE Lessens
  BY <1>1, <1>2, Lower DEF Lessens
<1>3. \A i \in 1..5 : Remaining'[i] = Remaining[i]
  BY DEF Remaining, fixedVars, clientVars, Running, KeysLeft
<1>4. /\ Remaining[6] = Noise - noise /\ Remaining[7] = pending /\ Remaining[8] = left + 1
      /\ Remaining'[6] = Noise - noise' /\ Remaining'[7] = pending' /\ Remaining'[8] = left' + 1
  BY DEF Remaining
<1>5. /\ noise \in Int /\ noise' \in Int /\ Noise \in Int
      /\ pending \in Int /\ pending' \in Int /\ left \in Int /\ left' \in Int
  BY NumbersAssumption DEF TypeOK
<1>6. CASE noise' > noise
  <2>1. Noise - noise' < Noise - noise
    BY <1>5, <1>6, MoreIsLess, Zenon
  <2>2. Remaining'[6] < Remaining[6] /\ \A i \in 1..(6 - 1) : Remaining'[i] = Remaining[i]
    BY <1>3, <1>4, <2>1
  <2> QED BY <1>2, <2>2
<1>7. CASE noise' = noise /\ pending' < pending
  <2>1. Down(7)
    BY <1>3, <1>4, <1>5, <1>7
  <2> QED BY <1>2, <2>1
<1>8. CASE noise' = noise /\ pending' = pending /\ left > left'
  <2>1. left' + 1 < left + 1
    BY <1>5, <1>8, MoreIsLess, Zenon
  <2>2. Remaining'[8] < Remaining[8]
    BY <1>4, <2>1
  <2>3. Remaining'[6] = Remaining[6] /\ Remaining'[7] = Remaining[7]
    BY <1>4, <1>8
  <2>4. \A i \in 1..(8 - 1) : Remaining'[i] = Remaining[i]
    BY <1>3, <2>3
  <2> QED BY <1>2, <2>2, <2>4
<1> QED BY <1>6, <1>7, <1>8 DEF WorldOnward

\* Whatever a probe has come to, the client goes on.
LEMMA SettleOnward ==
    ASSUME TypeOK, Running, ~asleep, NEW x, Settle(x)
    PROVE  Onward
<1>1. ASSUME NEW r \in {"passed", "refused", "unanswered"}, End(r) PROVE Onward
  BY <1>1 DEF End, Onward, Running
<1>2. ASSUME NEW rej, ToGoal(rej) PROVE Onward
  <2>1. CASE goal < Len(agenda)
    <3>1. goal' = goal + 1 /\ Running' = Running
      BY <1>2, <2>1 DEF ToGoal, Running
    <3>2. goal' > goal
      BY <3>1 DEF TypeOK
    <3> QED BY <3>1, <3>2 DEF Onward
  <2>2. CASE ~(goal < Len(agenda))
    BY <1>1, <1>2, <2>2 DEF ToGoal
  <2> QED BY <2>1, <2>2
<1>3. ASSUME NEW e, ToKey(e) PROVE Onward
  <2>1. CASE key < Len(agenda[goal].probes)
    BY <1>3, <2>1 DEF ToKey, Onward, Running
  <2>2. CASE ~(key < Len(agenda[goal].probes))
    BY <1>1, <1>3, <2>2 DEF ToKey
  <2> QED BY <2>1, <2>2
<1>4. CASE x = "error"
  <2>1. CASE attempt + 1 < tried
    BY <1>4, <2>1 DEF Settle, NoVerdict, Onward, Running
  <2>2. CASE ~(attempt + 1 < tried)
    BY <1>1, <1>3, <1>4, <2>2 DEF Settle, NoVerdict
  <2> QED BY <2>1, <2>2
<1>5. CASE x # "error"
  <2>1. Verdict(x = "accepted")
    BY <1>5 DEF Settle
  <2> QED BY <1>1, <1>2, <1>3, <2>1 DEF Verdict
<1> QED BY <1>4, <1>5

LEMMA ClientOnward ==
    ASSUME TypeOK, Client \/ Disturbed
    PROVE  Onward
<1>1. CASE Answer \/ Penalised \/ Disturbed \/ TimedOut
  <2>1. PICK x : Settle(x)
    BY <1>1 DEF Answer, Penalised, Disturbed, TimedOut
  <2> QED BY <1>1, <2>1, SettleOnward DEF Answer, Penalised, Disturbed, TimedOut, Dialing
<1>2. CASE Skip
  <2>1. Running /\ (rejected \in BOOLEAN) /\ ToGoal(rejected)
    BY <1>2 DEF Skip, TypeOK
  <2>2. goal + 1 > goal
    BY DEF TypeOK
  <2> QED BY <2>1, <2>2 DEF ToGoal, End, Onward, Running
<1>3. CASE NoKeysLeft
  BY <1>3 DEF NoKeysLeft, End, Onward, Running
<1>4. CASE Sleep
  BY <1>4 DEF Sleep, Onward, Running
<1> QED BY <1>1, <1>2, <1>3, <1>4 DEF Client

LEMMA EveryStepLessens ==
    ASSUME TypeOK, TypeOK', Natural, Natural', [Next]_vars
    PROVE  [Lessens]_vars
<1>1. CASE Client \/ Disturbed
  <2>1. UNCHANGED <<agenda, tried>>
    BY <1>1 DEF Client, Answer, Penalised, Disturbed, TimedOut, Skip, NoKeysLeft, Sleep, fixedVars
  <2> QED BY <1>1, <2>1, ClientOnward, OnwardIsFewer
<1>2. CASE Book \/ OthersFail \/ HostGone \/ Elapse
  <2>1. noise \in Int /\ pending \in Int /\ left \in Int
    BY NumbersAssumption DEF TypeOK
  <2>2. WorldOnward
    BY <1>2, <2>1 DEF Book, OthersFail, HostGone, Elapse, Passing, WorldOnward
  <2>3. UNCHANGED <<fixedVars, clientVars>>
    BY <1>2 DEF Book, OthersFail, HostGone, Elapse
  <2> QED BY <2>2, <2>3, WorldIsFewer
<1>3. CASE UNCHANGED vars
  BY <1>3
<1> QED BY <1>1, <1>2, <1>3 DEF Next, Over

\* Every step, of the client (probeVerdict, someKeyAccepted, the loops of tx.go), of sshd or of
\* the world, leaves less to be done, in an order in which nothing descends for ever: no
\* agenda, no error and no penalty keeps the probes going around in circles.
THEOREM EveryProbeCounts ==
    /\ IsWellFoundedOn(Fewer, [1..8 -> Nat])
    /\ Spec => []Natural /\ [][Lessens]_vars
<1>1. IsWellFoundedOn(Fewer, [1..8 -> Nat])
  <2>1. IsWellFoundedOn(Below, Nat)
    BY NatLessThanWellFounded DEF OpToRel, Below
  <2> QED  BY <2>1, WFLexProductOrdering DEF Fewer
<1>2. TypeOK => Natural
  BY RemainingType
<1>3. TypeOK /\ TypeOK' /\ Natural /\ Natural' /\ [Next]_vars => [Lessens]_vars
  BY EveryStepLessens
<1>4. Spec => []Natural /\ [][Lessens]_vars
  BY <1>2, <1>3, ProbesTypeCorrect, PTL DEF Spec
<1> QED BY <1>1, <1>4
=============================================================================
