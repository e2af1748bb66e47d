----------------------------- MODULE DebugUplink -----------------------------
(***************************************************************************)
(* The debug uplink: the WebSocket client of uplink.go, with the session   *)
(* of FuncspanSession and the rule set of funcspan_rules.go that its       *)
(* directives drive.  One goroutine dials, reads and reconnects with a     *)
(* back-off; every connection brings a TTL pump and a goroutine that turns *)
(* quit into a cancelled context; stopUplink ends the session, closes quit *)
(* and waits for at most two seconds.                                      *)
(***************************************************************************)
EXTENDS FuncspanSession

CONSTANT NoRules        \* activeRuleSet = nil

VARIABLES
    upc,        \* where run(), connectAndRun or handleRules is
    conn,       \* uplink.conn # nil
    ctx,        \* the context of the connection is live
    rules,      \* the session id whose rules are armed, or NoRules
    compiled,   \* the rules of the directive being handled, compiled
    quit,       \* the quit channel is closed
    stpc,       \* where each stopUplink call is
    mark        \* history: the session that was active when it began

uvars == <<upc, conn, ctx, rules, compiled, quit, stpc, mark>>
vars == <<active, gens, heap, op, now, charged, granted, report,
          upc, conn, ctx, rules, compiled, quit, stpc, mark>>

UplinkPC == {"off", "top", "dial", "read", "activate", "ack", "cleared",
             "cancel", "closing", "after", "backoff", "stopped"}
StopPC == {"idle", "deactivate", "closeQuit", "wait", "returned"}
RuleSets == SessionIDs \cup {NoRules}

UTypeOK ==
    /\ STypeOK
    /\ upc \in UplinkPC
    /\ conn \in BOOLEAN
    /\ ctx \in BOOLEAN
    /\ rules \in RuleSets
    /\ compiled \in RuleSets
    /\ quit \in BOOLEAN
    /\ stpc \in [Stoppers -> StopPC]
    /\ mark \in [Stoppers -> Nat]

Init ==
    /\ SInit
    /\ upc = "off"
    /\ conn = FALSE
    /\ ctx = FALSE
    /\ rules = NoRules
    /\ compiled = NoRules
    /\ quit = FALSE
    /\ stpc = [s \in Stoppers |-> "idle"]
    /\ mark = [s \in Stoppers |-> 0]

-----------------------------------------------------------------------------
(* The uplink goroutine: run and connectAndRun.                            *)

Goto(from, to) == upc = from /\ upc' = to

StartUplink ==
    /\ Goto("off", "top")
    /\ UNCHANGED <<svars, conn, ctx, rules, compiled, quit, stpc, mark>>

\* The test of quit at the top of the loop.
LoopTop ==
    /\ Goto("top", IF quit THEN "stopped" ELSE "dial")
    /\ UNCHANGED <<svars, conn, ctx, rules, compiled, quit, stpc, mark>>

DialFails ==
    /\ Goto("dial", "after")
    /\ UNCHANGED <<svars, conn, ctx, rules, compiled, quit, stpc, mark>>

\* The connection is published, the pump and the quit watcher start and the
\* clientHello is sent.
DialSucceeds ==
    /\ Goto("dial", "read")
    /\ conn' = TRUE
    /\ ctx' = TRUE
    /\ UNCHANGED <<svars, rules, compiled, quit, stpc, mark>>

\* Mutant: nobody cancels the context of a connection that is being read.
QuitWatcherWhenClosing ==
    /\ quit
    /\ ctx
    /\ upc = "closing"
    /\ ctx' = FALSE
    /\ UNCHANGED <<svars, upc, conn, rules, compiled, quit, stpc, mark>>

\* The goroutine that waits for quit cancels the context; Dial, which runs
\* before it starts, is not cancelled.
QuitWatcher ==
    /\ quit
    /\ ctx
    /\ ctx' = FALSE
    /\ UNCHANGED <<svars, upc, conn, rules, compiled, quit, stpc, mark>>

\* Mutant: the closed connection stays published.
ReadFailsKeepsConn ==
    /\ Goto("read", "closing")
    /\ UNCHANGED <<svars, conn, ctx, rules, compiled, quit, stpc, mark>>

\* conn.Read fails, of itself or because the context was cancelled; the
\* deferred function takes the connection away.
ReadFails ==
    /\ Goto("read", "closing")
    /\ conn' = FALSE
    /\ UNCHANGED <<svars, ctx, rules, compiled, quit, stpc, mark>>

ReadCancelled == ~ctx /\ ReadFails

\* The socket is closed and the context cancelled: the pump stops.
Closed ==
    /\ Goto("closing", "after")
    /\ ctx' = FALSE
    /\ UNCHANGED <<svars, conn, rules, compiled, quit, stpc, mark>>

\* The test of quit after connectAndRun.
AfterRun ==
    /\ Goto("after", IF quit THEN "stopped" ELSE "backoff")
    /\ UNCHANGED <<svars, conn, ctx, rules, compiled, quit, stpc, mark>>

BackoffOver ==
    /\ Goto("backoff", "top")
    /\ UNCHANGED <<svars, conn, ctx, rules, compiled, quit, stpc, mark>>

BackoffQuit ==
    /\ quit
    /\ Goto("backoff", "stopped")
    /\ UNCHANGED <<svars, conn, ctx, rules, compiled, quit, stpc, mark>>

-----------------------------------------------------------------------------
(* handleRules, in the read loop.                                          *)

\* Mutant: the rules are armed before the session has accepted the directive.
ReceiveRulesArmsFirst(d, rs) ==
    /\ upc = "read"
    /\ ctx
    /\ rules' = rs
    /\ IF d.expires > now
       THEN /\ CallActivate(Reader, d)
            /\ upc' = "activate"
            /\ compiled' = rs
       ELSE UNCHANGED <<svars, upc, compiled>>
    /\ UNCHANGED <<conn, ctx, quit, stpc, mark>>

\* A directive with rules.  Expired, it is rejected before anything changes;
\* its rules may all turn out malformed, and then compile to no rule set.
ReceiveRules(d, rs) ==
    /\ upc = "read"
    /\ ctx
    /\ IF d.expires > now
       THEN /\ CallActivate(Reader, d)
            /\ upc' = "activate"
            /\ compiled' = rs
       ELSE UNCHANGED <<svars, upc, compiled>>
    /\ UNCHANGED <<conn, ctx, rules, quit, stpc, mark>>

\* funcspanSessionActivate has returned: setFuncspanRules.
SetRules ==
    /\ Goto("activate", "ack")
    /\ op[Reader] = Idle
    /\ rules' = compiled
    /\ compiled' = NoRules
    /\ UNCHANGED <<svars, conn, ctx, quit, stpc, mark>>

\* rulesAck is sent, or fails to be.
SendAck ==
    /\ Goto("ack", "read")
    /\ UNCHANGED <<svars, conn, ctx, rules, compiled, quit, stpc, mark>>

\* A directive without rules cancels: the rules go first.
ReceiveCancel ==
    /\ Goto("read", "cleared")
    /\ ctx
    /\ rules' = NoRules
    /\ UNCHANGED <<svars, conn, ctx, compiled, quit, stpc, mark>>

CancelSession ==
    /\ upc = "cleared"
    /\ IF active # 0
       THEN CallDeactivate(Reader, "cancelled") /\ upc' = "cancel"
       ELSE UNCHANGED svars /\ upc' = "read"
    /\ UNCHANGED <<conn, ctx, rules, compiled, quit, stpc, mark>>

CancelDone ==
    /\ Goto("cancel", "read")
    /\ op[Reader] = Idle
    /\ UNCHANGED <<svars, conn, ctx, rules, compiled, quit, stpc, mark>>

-----------------------------------------------------------------------------
(* The pump, the application and stopUplink.                               *)

\* Mutant: the pump runs only while rules are armed.
PumpTickIfRules(p) ==
    /\ conn \/ upc = "closing"
    /\ rules # NoRules
    /\ CallCheckTTL(p)
    /\ UNCHANGED uvars

\* The pump lives as long as the context of its connection. When that is done,
\* its select may still choose a tick that is ready too; a reader that has
\* closed the socket by then is taken to do so after the tick.
PumpTick(p) ==
    /\ conn \/ upc = "closing"
    /\ CallCheckTTL(p)
    /\ UNCHANGED uvars

SpanEnds(w, b) == CallRecord(w, b) /\ UNCHANGED uvars

\* The calls into the session go on whatever happens to the connection; the
\* callback finds no connection, or sends sessionExpired on it.
SessionStep(g) == Finish(g) /\ UNCHANGED uvars

ClockTick == Tick /\ UNCHANGED uvars

StopGoto(s, from, to) == stpc[s] = from /\ stpc' = [stpc EXCEPT ![s] = to]

\* Without an uplink there is nothing to stop; else the session, if one is
\* active now, is ended first.
StopBegins(s) ==
    /\ stpc[s] = "idle"
    /\ IF upc # "off" /\ active # 0
       THEN CallDeactivate(s, "shutdown") ELSE UNCHANGED svars
    /\ stpc' = [stpc EXCEPT ![s] =
                   IF upc = "off" THEN "returned"
                   ELSE IF active # 0 THEN "deactivate" ELSE "closeQuit"]
    /\ mark' = [mark EXCEPT ![s] = active]
    /\ UNCHANGED <<upc, conn, ctx, rules, compiled, quit>>

\* Mutant: the session is ended in the background.
StopDeactivatedAsync(s) ==
    /\ StopGoto(s, "deactivate", "closeQuit")
    /\ UNCHANGED <<svars, upc, conn, ctx, rules, compiled, quit, mark>>

StopDeactivated(s) ==
    /\ StopGoto(s, "deactivate", "closeQuit")
    /\ op[s] = Idle
    /\ UNCHANGED <<svars, upc, conn, ctx, rules, compiled, quit, mark>>

StopClosesQuit(s) ==
    /\ StopGoto(s, "closeQuit", "wait")
    /\ quit' = TRUE
    /\ UNCHANGED <<svars, upc, conn, ctx, rules, compiled, mark>>

StopWaited(s) ==
    /\ StopGoto(s, "wait", "returned")
    /\ upc = "stopped"
    /\ UNCHANGED <<svars, upc, conn, ctx, rules, compiled, quit, mark>>

\* Mutant: stopUplink waits for the goroutine without a timeout.
StopTimeoutNever(s) == StopWaited(s)

\* The two seconds are over.
StopTimeout(s) ==
    /\ StopGoto(s, "wait", "returned")
    /\ UNCHANGED <<svars, upc, conn, ctx, rules, compiled, quit, mark>>

-----------------------------------------------------------------------------

Uplink ==
    \/ LoopTop \/ DialFails \/ DialSucceeds \/ ReadFails \/ Closed
    \/ AfterRun \/ BackoffOver \/ BackoffQuit
    \/ SetRules \/ SendAck \/ CancelSession \/ CancelDone

Stop(s) ==
    \/ StopBegins(s) \/ StopDeactivated(s) \/ StopClosesQuit(s)
    \/ StopWaited(s) \/ StopTimeout(s)

Next ==
    \/ StartUplink
    \/ Uplink
    \/ QuitWatcher
    \/ \E d \in Directives : \E rs \in {d.id, NoRules} : ReceiveRules(d, rs)
    \/ ReceiveCancel
    \/ \E p \in Pumps : PumpTick(p)
    \/ \E w \in Workers, b \in Sizes : SpanEnds(w, b)
    \/ \E g \in Goroutines : SessionStep(g)
    \/ \E s \in Stoppers : Stop(s)
    \/ ClockTick

Spec == Init /\ [][Next]_vars

(***************************************************************************)
(* Fairness.  Goroutines and timers run: the calls in flight, the loop,    *)
(* the quit watcher, the pump, the clock, a stopUplink call that has begun *)
(* and its timeout.  Nothing makes a connection fail, a directive or a     *)
(* span come, or Shutdown be called.  Dial need not succeed and, because   *)
(* its context is not cancelled and carries no deadline, need not return.  *)
(***************************************************************************)
Fairness ==
    /\ \A g \in Goroutines : WF_vars(SessionStep(g))
    /\ WF_vars(LoopTop) /\ WF_vars(ReadCancelled) /\ WF_vars(Closed)
    /\ WF_vars(AfterRun) /\ WF_vars(BackoffOver \/ BackoffQuit)
    /\ WF_vars(SetRules) /\ WF_vars(SendAck)
    /\ WF_vars(CancelSession) /\ WF_vars(CancelDone)
    /\ WF_vars(QuitWatcher)
    /\ \A p \in Pumps : WF_vars(ctx /\ PumpTick(p))
    /\ WF_vars(ClockTick)
    /\ \A s \in Stoppers :
          /\ WF_vars(StopDeactivated(s))
          /\ WF_vars(StopClosesQuit(s))
          /\ WF_vars(StopTimeout(s))

FairSpec == Spec /\ Fairness

-----------------------------------------------------------------------------
(* Properties.                                                             *)

\* The connection that sendSessionExpired finds is the one being read, and a
\* context is live only until the reader has let go of its connection.
ConnectionIsCurrent ==
    /\ conn <=> upc \in {"read", "activate", "ack", "cleared", "cancel"}
    /\ ctx => conn \/ upc = "closing"

\* Only the read loop activates sessions, while it handles a directive.
OnlyReaderActivates ==
    /\ \A g \in Goroutines : op[g].pc = "activate" => g = Reader /\ upc = "activate"
    /\ upc = "off" => active = 0

\* The rules to be armed belong to the directive that is being activated, and
\* then to the session it left active, unless that has ended meanwhile.
CompiledForDirective ==
    upc = "activate" =>
        IF op[Reader].pc = "activate" THEN compiled \in {NoRules, op[Reader].dir.id}
        ELSE active # 0 => compiled \in {NoRules, heap[active].dir.id}

\* The session that stopUplink found is one there has been, and until it is over
\* the call has the deactivation before it.
MarkedIsBeingEnded ==
    \A s \in Stoppers :
        /\ mark[s] <= gens
        /\ stpc[s] = "deactivate" =>
              mark[s] # 0 /\ (op[s].pc = "deactivate" \/ active # mark[s])

UplinkInv ==
    /\ UTypeOK
    /\ ConnectionIsCurrent
    /\ OnlyReaderActivates
    /\ CompiledForDirective
    /\ MarkedIsBeingEnded

\* The rules that elevate capture are those of the active session: between
\* directives no session runs under the rules of another one, and a rejected
\* directive arms nothing (handleRules arms after funcspanSessionActivate).
RulesMatchSession ==
    active # 0 /\ upc # "activate" => rules \in {NoRules, heap[active].dir.id}

\* Once stopUplink gets to closing quit, the session that was active when it
\* began is over, whoever else was ending or replacing it at that time. Only a
\* session that a directive has started since may be left, and nobody ends it.
ShutdownEndsSession ==
    \A s \in Stoppers :
        stpc[s] \in {"closeQuit", "wait", "returned"} /\ mark[s] # 0 => active # mark[s]

\* As long as the uplink is connected the session outlives its time limit only
\* briefly, whatever directives and spans go on (the 1Hz pump).
ExpiresWhileConnected ==
    \A k \in Gens :
        (active = k /\ now >= heap[k].dir.expires)
            ~> (active # k \/ now < heap[k].dir.expires \/ ~ctx)

\* stopUplink returns, be the uplink dialling, reading or waiting to reconnect.
StopReturns ==
    \A s \in Stoppers : stpc[s] \in {"deactivate", "closeQuit", "wait"} ~> stpc[s] = "returned"

\* Once quit is closed the uplink goroutine ends, from a read, a back-off or the
\* handling of a directive, unless a dial it is in never returns.
UplinkStops == quit ~> (upc = "stopped" \/ [](upc = "dial"))

\* How many steps the uplink goroutine takes at most before it stops, or tests
\* quit and stops, once nobody sends on its connection any more.
StepsToStop(pc) ==
    CASE pc = "stopped" -> 0
      [] pc \in {"top", "after"} -> 1
      [] pc \in {"off", "backoff", "closing"} -> 2
      [] pc = "read" -> 3
      [] pc \in {"ack", "cancel"} -> 4
      [] pc \in {"activate", "cleared"} -> 5
      [] pc = "dial" -> 6

\* Once quit is closed and its watcher has cancelled the context, the goroutine
\* is on its way out wherever it is, but for a dial: it does not dial again, and
\* each of its steps brings it closer to the end, whatever else goes on.
UplinkWindsDown ==
    [][quit /\ ~ctx /\ upc # "dial" =>
          /\ quit' /\ ~ctx' /\ upc' # "dial"
          /\ upc' = upc \/ StepsToStop(upc') < StepsToStop(upc)]_vars

-----------------------------------------------------------------------------
(* What the documentation says and the code does not do.                   *)

\* README.md: "Capture stops automatically on TTL/budget expiry or cancel":
\* when no session is left and no directive is being handled, no rules are
\* armed.
CaptureStops == active = 0 /\ upc = "read" => rules = NoRules

=============================================================================
