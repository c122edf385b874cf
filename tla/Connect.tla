------------------------------ MODULE Connect ------------------------------
(***************************************************************************)
(* The guard connection of one run, from the dial to its end: connect and  *)
(* its deferred cleanup, the keepalive watchdog (tx.go), startGuard and    *)
(* closeGraceful (guard.go), and the bound on a remote command             *)
(* (remote.Run), with the goroutines each of them starts.  Transaction     *)
(* takes all of this for one step that succeeds or fails.                  *)
(*                                                                         *)
(* A connection may fall silent: nothing comes through and nobody is told, *)
(* until the kernel gives it up.  The time of a timeout is not modelled,   *)
(* only that it passes.                                                    *)
(***************************************************************************)
EXTENDS Integers, FiniteSets

CONSTANTS
    Refusable,  \* commands that may exit with a non-zero status
    Faults      \* silence, drop, slow (a command outlasts CommandTimeout)

Commands == {"whoami", "mktx", "health", "rm"}

ASSUME CommandsAssumption == Refusable \subseteq Commands

VARIABLES
    stage,      \* dial, start, await (the token), work, closing (the guard),
                \* close, over, or the command under way
    opened,     \* its session is open: the timeout of the command runs
    failed,     \* connect has failed
    conn,       \* none, up, silent, down, or closed by the client
    known,      \* t.txdir is set
    session,    \* the guard session: none, open or closed
    stdin,      \* its stdin is open
    token,      \* the readiness token has been read
    exited,     \* guard.exited
    runners,    \* commands given up, whose goroutine is still in sess.Run
    reader,     \* startGuard's goroutine on stdout: none, scan, drain or done
    waiter,     \* and the one in sess.Wait: none, wait or done
    watchdog,   \* none, tick, await, lost, close or done
    keepalive,  \* its goroutine in SendRequest: none or sending
    connErr,    \* t.connErr is set
    lost,       \* how often connLost has been closed
    dir,        \* on the host: the transaction directory exists
    script      \* on the host: the guard script: off, armed or exited

mainVars == <<stage, opened, failed, known>>

guardVars == <<session, stdin, token, exited, reader, waiter>>

watchVars == <<watchdog, keepalive, connErr, lost>>

connectVars == <<mainVars, guardVars, watchVars, conn, runners, dir, script>>

ConnectTypeOK ==
    /\ stage \in Commands \cup {"dial", "start", "await", "work", "closing", "close", "over"}
    /\ opened \in BOOLEAN /\ failed \in BOOLEAN /\ known \in BOOLEAN
    /\ conn \in {"none", "up", "silent", "down", "closed"}
    /\ session \in {"none", "open", "closed"}
    /\ stdin \in BOOLEAN /\ token \in BOOLEAN /\ exited \in BOOLEAN
    /\ runners \subseteq Commands
    /\ reader \in {"none", "scan", "drain", "done"}
    /\ waiter \in {"none", "wait", "done"}
    /\ watchdog \in {"none", "tick", "await", "lost", "close", "done"}
    /\ keepalive \in {"none", "sending"}
    /\ connErr \in BOOLEAN /\ lost \in 0..2
    /\ dir \in BOOLEAN
    /\ script \in {"off", "armed", "exited"}

ConnectInit ==
    /\ stage = "dial" /\ opened = FALSE /\ failed = FALSE /\ known = FALSE
    /\ conn = "none" /\ session = "none" /\ runners = {}
    /\ stdin = TRUE /\ token = FALSE /\ exited = FALSE
    /\ reader = "none" /\ waiter = "none"
    /\ watchdog = "none" /\ keepalive = "none" /\ connErr = FALSE /\ lost = 0
    /\ dir = FALSE /\ script = "off"

\* The connection is known to be over, to the client's ssh library.
Ended == conn \in {"down", "closed"}

\* A channel without a buffer, on which a send waits for its receiver.
Unbuffered(waiting) == waiting

\* ready, reply and done have room for the one value they are sent.
MaySend(waiting) == TRUE

----------------------------------------------------------------------------
(* connect.                                                                *)

Goto(p) == stage' = p /\ opened' = FALSE

\* The deferred function: the guard, the directory, the connection.
Cleanup == IF token THEN "closing" ELSE IF known THEN "rm" ELSE "close"

Fail == failed' = TRUE /\ Goto(Cleanup)

ToRmOrClose == IF known THEN "rm" ELSE "close"

Dial ==
    /\ stage = "dial"
    /\ \/ conn' = "up" /\ watchdog' = "tick" /\ Goto("whoami") /\ UNCHANGED failed
       \/ failed' = TRUE /\ Goto("over") /\ UNCHANGED <<conn, watchdog>>
    /\ UNCHANGED <<known, guardVars, keepalive, connErr, lost, runners, dir, script>>

InCommand == stage \in Commands

\* c.NewSession comes before the timeout and waits for the server's answer.
OpenSession ==
    /\ InCommand /\ ~opened /\ conn = "up"
    /\ opened' = TRUE
    /\ UNCHANGED <<stage, failed, known, guardVars, watchVars, conn, runners, dir, script>>

Following ==
    CASE stage = "whoami" -> "mktx"
      [] stage = "mktx" -> "start"
      [] stage = "health" -> "work"
      [] stage = "rm" -> "close"

\* What the command has done on the host when it ends.
Effect ==
    CASE stage = "mktx" -> dir' = TRUE
      [] stage = "rm" -> dir' = FALSE
      [] OTHER -> UNCHANGED dir

\* The error of rm is ignored.
CommandFailed == IF stage = "rm" THEN Goto("close") /\ UNCHANGED failed ELSE Fail

Answered ==
    /\ InCommand /\ opened /\ conn = "up"
    /\ stage = "health" => ~exited /\ lost = 0
    /\ Effect
    /\ known' = (known \/ stage = "mktx")
    /\ Goto(Following)
    /\ UNCHANGED <<failed, guardVars, watchVars, conn, runners, script>>

\* mktemp may have succeeded before mkdir failed.
Refused ==
    /\ InCommand /\ opened /\ conn = "up" /\ stage \in Refusable
    /\ CommandFailed
    /\ dir' = IF stage = "mktx" THEN TRUE ELSE dir
    /\ UNCHANGED <<known, guardVars, watchVars, conn, runners, script>>

\* checkHealth looks at connLost and at the guard session first.
Unhealthy ==
    /\ stage = "health" /\ ~opened
    /\ exited \/ lost > 0
    /\ Fail
    /\ UNCHANGED <<known, guardVars, watchVars, conn, runners, dir, script>>

\* A client that tries the command again.
CutOffRetries ==
    /\ InCommand /\ Ended
    /\ Goto(stage)
    /\ UNCHANGED <<failed, known, guardVars, watchVars, conn, runners, dir, script>>

\* The library reports the end of the connection to whoever waits on it; a
\* command whose session was open may have run.
CutOff ==
    /\ InCommand /\ Ended
    /\ CommandFailed
    /\ (opened /\ Effect) \/ UNCHANGED dir
    /\ UNCHANGED <<known, guardVars, watchVars, conn, runners, script>>

\* CommandTimeout: the goroutine is left to itself, and so is the command.
TimeOut ==
    /\ InCommand /\ opened
    /\ conn = "silent" \/ "slow" \in Faults
    /\ CommandFailed
    /\ runners' = runners \cup {stage}
    /\ Effect \/ UNCHANGED dir
    /\ UNCHANGED <<known, guardVars, watchVars, conn, script>>

\* startGuard: NewSession and Start wait for the server, without a timeout.
StartGuard ==
    /\ stage = "start"
    /\ \/ /\ conn = "up"
          /\ session' = "open" /\ reader' = "scan" /\ waiter' = "wait" /\ script' = "armed"
          /\ Goto("await")
          /\ UNCHANGED failed
       \/ /\ Ended
          /\ Fail
          /\ UNCHANGED <<session, reader, waiter, script>>
    /\ UNCHANGED <<known, stdin, token, exited, watchVars, conn, runners, dir>>

\* The token, the end of stdout without it, or the end of the time for it.
AwaitToken ==
    /\ stage = "await"
    /\ \/ reader = "drain" /\ token' = TRUE /\ Goto("health") /\ UNCHANGED <<failed, session>>
       \/ /\ reader = "done" \/ conn # "up" \/ "slow" \in Faults
          /\ session' = "closed"
          /\ Fail
          /\ UNCHANGED token
    /\ UNCHANGED <<known, stdin, exited, reader, waiter, watchVars, conn, runners, dir, script>>

\* closeGraceful: stdin, then the end of the session or of the time for it.
CloseGuard ==
    /\ stage = "closing"
    /\ \/ stdin /\ stdin' = FALSE /\ UNCHANGED <<session, stage, opened>>
       \/ /\ ~stdin
          /\ Goto(ToRmOrClose)
          /\ session' = IF exited THEN session ELSE "closed"
          /\ UNCHANGED stdin
    /\ UNCHANGED <<failed, known, token, exited, reader, waiter, watchVars, conn, runners,
                   dir, script>>

\* The transaction has run its course, which may take any time.
Finish ==
    /\ stage = "work"
    /\ Goto("close")
    /\ UNCHANGED <<failed, known, guardVars, watchVars, conn, runners, dir, script>>

CloseClient ==
    /\ stage = "close"
    /\ conn' = "closed"
    /\ Goto("over")
    /\ UNCHANGED <<failed, known, guardVars, watchVars, runners, dir, script>>

Main ==
    \/ Dial \/ OpenSession \/ Unhealthy \/ CutOff \/ TimeOut
    \/ StartGuard \/ AwaitToken \/ CloseGuard \/ CloseClient

----------------------------------------------------------------------------
(* The goroutines.                                                         *)

ByGoroutine == UNCHANGED <<mainVars, session, stdin, token, conn, dir, script>>

\* The stdout of the guard session has come to its end.
StdoutEnds == Ended \/ (conn = "up" /\ script = "exited")

Read ==
    /\ \/ /\ reader = "scan" /\ conn = "up" /\ script = "armed"
          /\ MaySend(stage = "await")
          /\ reader' = "drain"
       \/ /\ reader = "scan" /\ StdoutEnds
          /\ MaySend(stage = "await")
          /\ reader' = "done"
       \/ reader = "drain" /\ StdoutEnds /\ reader' = "done"
    /\ ByGoroutine /\ UNCHANGED <<exited, waiter, watchVars, runners>>

WaitReturns ==
    /\ waiter = "wait" /\ StdoutEnds
    /\ waiter' = "done" /\ exited' = TRUE
    /\ ByGoroutine /\ UNCHANGED <<reader, watchVars, runners>>

RunnerEnds ==
    /\ \E c \in runners :
        /\ conn # "silent"
        /\ MaySend(FALSE)
        /\ runners' = runners \ {c}
    /\ ByGoroutine /\ UNCHANGED <<exited, reader, waiter, watchVars>>

Tick ==
    /\ watchdog = "tick"
    /\ watchdog' = "await" /\ keepalive' = "sending"
    /\ ByGoroutine /\ UNCHANGED <<exited, reader, waiter, runners, connErr, lost>>

\* SendRequest returns, to a watchdog that waits or has ceased to.
Reply ==
    /\ keepalive = "sending" /\ conn # "silent"
    /\ MaySend(watchdog = "await")
    /\ keepalive' = "none"
    /\ watchdog' = IF watchdog # "await" THEN watchdog
                   ELSE IF Ended THEN "lost" ELSE "tick"
    /\ ByGoroutine /\ UNCHANGED <<exited, reader, waiter, runners, connErr, lost>>

\* A watchdog that has no bound of its own: it waits for the reply.
UnansweredAtEnd ==
    /\ watchdog = "await" /\ conn = "silent" /\ stage = "over"
    /\ watchdog' = "lost"
    /\ ByGoroutine /\ UNCHANGED <<exited, reader, waiter, runners, keepalive, connErr, lost>>

\* Fifteen seconds without a reply.
Unanswered ==
    /\ watchdog = "await" /\ conn = "silent"
    /\ watchdog' = "lost"
    /\ ByGoroutine /\ UNCHANGED <<exited, reader, waiter, runners, keepalive, connErr, lost>>

\* A watchdog that tells of the loss before its reason.
NoteReasonLast ==
    /\ watchdog = "lost"
    /\ lost' = lost + 1 /\ watchdog' = "close"
    /\ ByGoroutine /\ UNCHANGED <<exited, reader, waiter, runners, keepalive, connErr>>

NoteReason ==
    /\ watchdog = "lost"
    /\ connErr' = TRUE /\ watchdog' = "close"
    /\ ByGoroutine /\ UNCHANGED <<exited, reader, waiter, runners, keepalive, lost>>

CloseLost ==
    /\ watchdog = "close"
    /\ lost' = lost + 1 /\ watchdog' = "done"
    /\ ByGoroutine /\ UNCHANGED <<exited, reader, waiter, runners, keepalive, connErr>>

Watchdog == Tick \/ Unanswered \/ NoteReason \/ CloseLost

----------------------------------------------------------------------------
(* The host and the network.                                               *)

\* The script's stdin ends; there is no manifest yet.
ScriptExits ==
    /\ script = "armed"
    /\ ~stdin \/ session = "closed" \/ conn # "up"
    /\ script' = "exited"
    /\ UNCHANGED <<mainVars, guardVars, watchVars, conn, runners, dir>>

FallSilent ==
    /\ conn = "up" /\ "silence" \in Faults
    /\ conn' = "silent"
    /\ UNCHANGED <<mainVars, guardVars, watchVars, runners, dir, script>>

Drop ==
    /\ conn = "up" /\ "drop" \in Faults
    /\ conn' = "down"
    /\ UNCHANGED <<mainVars, guardVars, watchVars, runners, dir, script>>

\* The kernel gives up on a connection that does not answer.
GiveUp ==
    /\ conn = "silent"
    /\ conn' = "down"
    /\ UNCHANGED <<mainVars, guardVars, watchVars, runners, dir, script>>

Quiet == reader \in {"none", "done"} /\ waiter \in {"none", "done"} /\ runners = {}
         /\ watchdog \in {"none", "done"} /\ keepalive = "none"

ConnectRest == stage = "over" /\ Quiet /\ script # "armed" /\ UNCHANGED connectVars

ConnectNext ==
    \/ Main \/ Answered \/ Refused \/ Finish
    \/ Read \/ WaitReturns \/ RunnerEnds \/ Watchdog \/ Reply
    \/ ScriptExits \/ FallSilent \/ Drop \/ GiveUp
    \/ ConnectRest

ConnectSpec == ConnectInit /\ [][ConnectNext]_connectVars

\* The program's own steps, each goroutine's, and a host that answers.
ConnectFairSpec ==
    /\ ConnectSpec
    /\ WF_connectVars(Main) /\ WF_connectVars(Answered)
    /\ WF_connectVars(Read) /\ WF_connectVars(WaitReturns) /\ WF_connectVars(RunnerEnds)
    /\ WF_connectVars(Watchdog) /\ WF_connectVars(Reply)
    /\ WF_connectVars(ScriptExits)

\* A kernel that gives up a silent connection in the end.
Patience == WF_connectVars(GiveUp)

----------------------------------------------------------------------------
\* Whoever finds connLost closed finds the reason in connErr, and it is closed
\* once: a second close would end the process (the watchdog of connect).
LossReported == lost <= 1 /\ (lost = 1 => connErr)

\* A connection that falls silent, or goes down, is noticed within the
\* watchdog's bounds or has been closed, whatever else waits on it (connect:
\* "detects a dead transport fast on our side").
DeathNoticed == conn \in {"silent", "down"} ~> (lost = 1 \/ conn = "closed")

\* When connect has failed or the run is over nothing is left behind: every
\* goroutine ends and the guard's session with it (connect: "without this the
\* socket, the watchdog goroutine and a remote directory all leak").
NothingLeft ==
    Patience => (stage = "over" ~> [](Quiet /\ script # "armed" /\ conn \in {"none", "closed"}))

\* Every step of connect and of its cleanup comes to an end, on a silent
\* connection when the kernel gives it up.
ConnectEnds == Patience => <>(stage \in {"work", "over"})

\* A command ends although nobody ever gives up the silent connection
\* (remote.Run: "It never blocks longer than CommandTimeout").
CommandsBounded == InCommand ~> ~InCommand

\* A failed connect leaves no directory on a host that has answered throughout
\* (connect: "Every failure after the dial closes the connection and removes the
\* tx dir").
NoDirectoryLeft == stage = "over" /\ failed => ~dir
=============================================================================
