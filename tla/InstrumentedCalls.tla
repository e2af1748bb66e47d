--------------------------- MODULE InstrumentedCalls ---------------------------
(***************************************************************************)
(* A program built with the instrumenter, running.  Some of its functions  *)
(* have a span put into them, others in the same stack do not; TraceFunc   *)
(* (function_span.go) puts a span around what it is given, and Middleware  *)
(* (network_middleware.go) is at the bottom of the goroutines that serve   *)
(* requests.  Panics unwind through all of them and are reported on the    *)
(* way (exception_handler.go), errors are reported by TraceFunc.           *)
(*                                                                         *)
(* The deferred function that is put in is the first to be registered, so  *)
(* it is the last to run: it recovers, reports, ends the span and panics   *)
(* again, and other goroutines run between these steps.                    *)
(*                                                                         *)
(* Of the ring of messages only its effect is kept: a message is recent    *)
(* from when it is recorded until time or other messages have pushed it    *)
(* out (RequestScope has the ring itself).                                 *)
(***************************************************************************)
EXTENDS Instrumenter, Sequences

CONSTANTS
    Goroutines,
    Deferred,       \* the program's deferred functions of each function, in order
    Values,         \* results of functions that are no errors
    Messages,       \* panics and errors, which are told apart by their message
    Goexit,
    None,           \* no result, nothing that unwinds
    Roots,          \* the functions each goroutine may start with
    Callees         \* the functions each function may call

Sdk == {"TraceFunc", "Middleware"}
AllFuncs == Funcs \cup Sdk
DeferKinds == {"recover", "alter", "panic"}

ASSUME DeferredAssumption ==
    /\ Deferred \in [AllFuncs -> Seq(DeferKinds)]
    /\ \A fn \in Sdk : fn \notin Funcs /\ Deferred[fn] = <<>>
ASSUME OutcomesAssumption ==
    /\ Values \cap Messages = {}
    /\ None \notin Values \cup Messages \cup {Goexit}
    /\ Goexit \notin Messages
ASSUME CallGraphAssumption ==
    /\ Roots \in [Goroutines -> SUBSET AllFuncs]
    /\ Callees \in [AllFuncs -> SUBSET (AllFuncs \ {"Middleware"})]

VARIABLES
    stack,      \* the calls of each goroutine, innermost last
    unwinding,  \* the panic, or Goexit, that unwinds it
    exited,     \* the goroutines that Goexit ends
    recent,     \* the messages that isDuplicateException finds
    trail,      \* history: what became of the reports of the panic that unwinds
    last        \* history: how the last step ended a call

calls == <<stack, unwinding, exited, recent, trail, last>>
vars == <<env, compiled, rejected, rewritten,
          stack, unwinding, exited, recent, trail, last>>

Outcomes == Values \cup Messages
Top(g) == stack[g][Len(stack[g])]
Running(g) ==
    /\ unwinding[g] = None
    /\ stack[g] # <<>> => Top(g).phase = "body"
Exiting(g) == stack[g] # <<>> /\ Top(g).phase = "exiting"
\* The program's own deferred functions have run.
Unwound(g) == Exiting(g) /\ Top(g).defers = <<>>
\* The panic that is unwinding, also while it is being reported.
InFlight(g) ==
    IF stack[g] # <<>> /\ Top(g).phase = "reported" THEN Top(g).held ELSE unwinding[g]
HasSpan(fn) == fn \in Instrumented \/ fn = "TraceFunc"
\* A panic that is recovered leaves Goexit to go on, if it came on top of it.
Recovered(g) == IF g \in exited THEN Goexit ELSE None
SetTop(g, frame) == [stack EXCEPT ![g] = [@ EXCEPT ![Len(@)] = frame]]

NoCall == [fn |-> None]

Init ==
    /\ BuildInit
    /\ stack = [g \in Goroutines |-> <<>>]
    /\ unwinding = [g \in Goroutines |-> None]
    /\ exited = {}
    /\ recent = {}
    /\ trail = [g \in Goroutines |-> <<>>]
    /\ last = NoCall

BuildStep == Build /\ UNCHANGED calls

-----------------------------------------------------------------------------
\* The program's own steps.

\* The span is started before anything of the body runs. A function has
\* registered some of its deferred functions when it exits.
Call(g, fn, k) ==
    /\ Built
    /\ Running(g)
    /\ fn \in IF stack[g] = <<>> THEN Roots[g] ELSE Callees[Top(g).fn]
    /\ stack' = [stack EXCEPT ![g] = Append(@,
           [fn |-> fn, phase |-> "body", value |-> None, held |-> None,
            defers |-> SubSeq(Deferred[fn], 1, k), ends |-> 0, told |-> None])]
    /\ last' = NoCall
    /\ UNCHANGED <<build, unwinding, exited, recent, trail>>

Exit(g, v, u) ==
    /\ Running(g) /\ stack[g] # <<>>
    /\ stack' = SetTop(g, [Top(g) EXCEPT !.phase = "exiting", !.value = v])
    /\ unwinding' = [unwinding EXCEPT ![g] = u]
    /\ exited' = IF u = Goexit THEN exited \cup {g} ELSE exited
    /\ trail' = [trail EXCEPT ![g] = IF u \in Messages THEN <<>> ELSE @]
    /\ last' = NoCall
    /\ UNCHANGED <<build, recent>>

Return(g, v) == Exit(g, v, None)
Panic(g, m) == Exit(g, None, m)
CallGoexit(g) == Exit(g, None, Goexit)

\* A deferred function of the program may recover, and then decides the result;
\* it may change the result anyway; or it may panic itself, also while Goexit
\* unwinds.
RunDeferred(g, v, m) ==
    /\ Exiting(g) /\ Top(g).defers # <<>>
    /\ LET d == Top(g).defers[Len(Top(g).defers)]
           recovers == d = "recover" /\ unwinding[g] \in Messages
           panics == d = "panic"
       IN  /\ stack' = SetTop(g, [Top(g) EXCEPT
                  !.value = IF recovers \/ d = "alter" THEN v ELSE @,
                  !.defers = SubSeq(@, 1, Len(@) - 1)])
           /\ unwinding' = [unwinding EXCEPT
                  ![g] = IF recovers THEN Recovered(g) ELSE IF panics THEN m ELSE @]
           /\ trail' = [trail EXCEPT ![g] = IF recovers \/ panics THEN <<>> ELSE @]
    /\ last' = NoCall
    /\ UNCHANGED <<build, exited, recent>>

-----------------------------------------------------------------------------
\* Leaving a call.

\* The call is over; what unwinds, u, goes on in the caller.
Leave(g, u, frame) ==
    LET rest == SubSeq(stack[g], 1, Len(stack[g]) - 1)
    IN  /\ stack' = [stack EXCEPT ![g] =
               IF u = None \/ rest = <<>> THEN rest
               ELSE [rest EXCEPT ![Len(rest)].phase = "exiting", ![Len(rest)].value = None]]
        /\ unwinding' = [unwinding EXCEPT ![g] = u]
        /\ last' = [fn |-> frame.fn, spanned |-> HasSpan(frame.fn), unwinds |-> u,
                    value |-> frame.value, ends |-> frame.ends, told |-> frame.told]

EndSpan(frame, value) == [frame EXCEPT !.ends = @ + 1, !.told = value]

\* transmitException, up to nonBlockingPost, which may drop what it is given.
\* What is recent then stays recent.
Sent(m) == IF m \in recent THEN "suppressed" ELSE "sent"

LeavePlain(g) ==
    /\ Unwound(g) /\ ~HasSpan(Top(g).fn) /\ Top(g).fn # "Middleware"
    /\ Leave(g, unwinding[g], Top(g))
    /\ UNCHANGED <<build, exited, recent, trail>>

\* Mutant: the results are evaluated when the function is deferred.
LeaveInstrumentedEager(g) ==
    /\ Unwound(g) /\ Top(g).fn \in Instrumented
    /\ unwinding[g] \notin Messages
    /\ Leave(g, unwinding[g], EndSpan(Top(g), None))
    /\ UNCHANGED <<build, exited, recent, trail>>

\* The deferred function that was put in finds nothing to recover, when the
\* function returns and on Goexit: the span is ended with the results.
LeaveInstrumented(g) ==
    /\ Unwound(g) /\ Top(g).fn \in Instrumented
    /\ unwinding[g] \notin Messages
    /\ Leave(g, unwinding[g], EndSpan(Top(g), Top(g).value))
    /\ UNCHANGED <<build, exited, recent, trail>>

\* Mutant: the report is not recorded in the ring.
ReportPanicUnrecorded(g) ==
    /\ Unwound(g) /\ Top(g).fn \in Instrumented
    /\ unwinding[g] \in Messages
    /\ stack' = SetTop(g, [Top(g) EXCEPT !.phase = "reported", !.held = unwinding[g]])
    /\ unwinding' = [unwinding EXCEPT ![g] = None]
    /\ trail' = [trail EXCEPT ![g] = Append(@, Sent(unwinding[g]))]
    /\ last' = NoCall
    /\ UNCHANGED <<build, exited, recent>>

\* Mutant: the span is ended before the panic is reported.
EndThenReportPanic(g) ==
    /\ Unwound(g) /\ Top(g).fn \in Instrumented
    /\ unwinding[g] \in Messages
    /\ stack' = SetTop(g, [EndSpan(Top(g), None) EXCEPT
           !.phase = "reported", !.held = unwinding[g]])
    /\ unwinding' = [unwinding EXCEPT ![g] = None]
    /\ recent' = recent \cup {unwinding[g]}
    /\ trail' = [trail EXCEPT ![g] = Append(@, Sent(unwinding[g]))]
    /\ last' = NoCall
    /\ UNCHANGED <<build, exited>>

\* It recovers a panic: TransmitPanicWithLocals reports it through the ring.
ReportPanic(g) ==
    /\ Unwound(g) /\ Top(g).fn \in Instrumented
    /\ unwinding[g] \in Messages
    /\ stack' = SetTop(g, [Top(g) EXCEPT !.phase = "reported", !.held = unwinding[g]])
    /\ unwinding' = [unwinding EXCEPT ![g] = None]
    /\ recent' = recent \cup {unwinding[g]}
    /\ trail' = [trail EXCEPT ![g] = Append(@, Sent(unwinding[g]))]
    /\ last' = NoCall
    /\ UNCHANGED <<build, exited>>

\* Mutant: the panic ends here.
EndAndReturn(g) ==
    /\ stack[g] # <<>> /\ Top(g).phase = "reported"
    /\ Leave(g, None, EndSpan(Top(g), None))
    /\ UNCHANGED <<build, exited, recent, trail>>

\* Then the span is ended, with nothing, and the panic goes on.
EndAndPanicAgain(g) ==
    /\ stack[g] # <<>> /\ Top(g).phase = "reported"
    /\ Leave(g, Top(g).held, EndSpan(Top(g), None))
    /\ UNCHANGED <<build, exited, recent, trail>>

\* TraceFunc ends its span when the function it was given has returned; an
\* error is reported through the ring. A panic leaves the span as it is.
LeaveTraceFunc(g) ==
    /\ Unwound(g) /\ Top(g).fn = "TraceFunc"
    /\ IF unwinding[g] # None
       THEN /\ Leave(g, unwinding[g], Top(g))
            /\ UNCHANGED recent
       ELSE /\ Leave(g, None, EndSpan(Top(g),
                   IF Top(g).value \in Messages THEN None ELSE Top(g).value))
            /\ recent' = recent \cup ({Top(g).value} \cap Messages)
    /\ UNCHANGED <<build, exited, trail>>

\* Middleware recovers and answers with a 500. Its own report of the panic goes
\* past the ring and comes on top of those in trail, which ends with the panic.
LeaveMiddleware(g) ==
    /\ Unwound(g) /\ Top(g).fn = "Middleware"
    /\ Leave(g, Recovered(g), Top(g))
    /\ trail' = [trail EXCEPT ![g] = <<>>]
    /\ UNCHANGED <<build, exited, recent>>

\* net/http recovers, or the goroutine is gone.
Bottom(g) ==
    /\ stack[g] = <<>> /\ unwinding[g] # None
    /\ unwinding' = [unwinding EXCEPT ![g] = None]
    /\ exited' = exited \ {g}
    /\ trail' = [trail EXCEPT ![g] = <<>>]
    /\ last' = NoCall
    /\ UNCHANGED <<build, stack, recent>>

-----------------------------------------------------------------------------

\* exceptionDedupTTL has passed, or as many other messages were recorded as the
\* ring holds.
Forget(m) ==
    /\ m \in recent
    /\ recent' = recent \ {m}
    /\ trail' = [g \in Goroutines |->
           IF InFlight(g) = m /\ trail[g] # <<>> /\ trail[g][Len(trail[g])] # "forgotten"
           THEN Append(trail[g], "forgotten") ELSE trail[g]]
    /\ last' = NoCall
    /\ UNCHANGED <<build, stack, unwinding, exited>>

Step(g) ==
    \/ \E fn \in AllFuncs : \E k \in 0..Len(Deferred[fn]) : Call(g, fn, k)
    \/ \E v \in Outcomes : Return(g, v)
    \/ \E m \in Messages : Panic(g, m)
    \/ CallGoexit(g)
    \/ \E v \in Outcomes, m \in Messages : RunDeferred(g, v, m)
    \/ LeavePlain(g)
    \/ LeaveInstrumented(g)
    \/ ReportPanic(g)
    \/ EndAndPanicAgain(g)
    \/ LeaveTraceFunc(g)
    \/ LeaveMiddleware(g)
    \/ Bottom(g)

Next ==
    \/ BuildStep
    \/ \E g \in Goroutines : Step(g)
    \/ \E m \in Messages : Forget(m)

Spec == Init /\ [][Next]_vars

-----------------------------------------------------------------------------
\* Properties.

Frames == [fn : AllFuncs, phase : {"body", "exiting", "reported"},
           value : Outcomes \cup {None}, held : Messages \cup {None},
           defers : Seq(DeferKinds), ends : Nat, told : Outcomes \cup {None}]
Reports == {"sent", "suppressed", "forgotten"}

TypeOK ==
    /\ env \in Envs
    /\ compiled \subseteq Packages /\ rejected \subseteq compiled
    /\ rewritten \subseteq UNION {p.files : p \in compiled}
    /\ stack \in [Goroutines -> Seq(Frames)]
    /\ unwinding \in [Goroutines -> Messages \cup {None, Goexit}]
    /\ exited \subseteq Goroutines
    /\ recent \subseteq Messages
    /\ trail \in [Goroutines -> Seq(Reports)]
    /\ last # NoCall => last.fn \in AllFuncs

\* Only the innermost call is on its way out, and nothing unwinds a goroutine
\* that runs. A span is open as long as its call is on the stack, also while
\* the call's panic is reported, which only a function with a span of the
\* instrumenter's does.
OpenSpans ==
    \A g \in Goroutines :
        /\ stack[g] # <<>> /\ unwinding[g] # None => Top(g).phase = "exiting"
        /\ \A k \in DOMAIN stack[g] :
              LET frame == stack[g][k] IN
              /\ frame.ends = 0 /\ frame.told = None
              /\ k < Len(stack[g]) => frame.phase = "body"
              /\ frame.phase = "reported" =>
                    /\ frame.fn \in Instrumented
                    /\ frame.defers = <<>>
                    /\ frame.held \in Messages
                    /\ unwinding[g] = None

\* The trail is of the panic that unwinds, whose message the ring holds unless
\* it has forgotten it since.
TrailIsRemembered ==
    \A g \in Goroutines : trail[g] # <<>> =>
        /\ InFlight(g) \in Messages
        /\ trail[g][Len(trail[g])] = "forgotten" \/ InFlight(g) \in recent

CallsInv == TypeOK /\ OpenSpans /\ TrailIsRemembered

\* The span of an instrumented function is ended exactly once however the call
\* ends, and tells what the caller gets: the result as the last deferred
\* function left it, or nothing when a panic goes on. TraceFunc's span is ended
\* exactly once if the function it was given returned, and otherwise never.
SpansEndWithTheirCalls ==
    last # NoCall /\ last.spanned =>
        LET passed == last.unwinds = None IN
        IF last.fn = "TraceFunc"
        THEN /\ last.ends = IF passed THEN 1 ELSE 0
             /\ passed /\ last.value \in Values => last.told = last.value
             /\ ~passed \/ last.value \notin Values => last.told = None
        ELSE /\ last.ends = 1
             /\ last.told = IF last.unwinds \in Messages THEN None ELSE last.value

\* However many instrumented functions a panic unwinds, and however long their
\* deferred functions take, only the innermost sends a report, or none if it
\* has been sent lately, for as long as the ring remembers it. (Middleware's
\* report of what is left of the panic is none of theirs, and is sent besides.)
OneReportPerPanic ==
    \A g \in Goroutines : \A i, j \in DOMAIN trail[g] :
        i < j /\ trail[g][j] = "sent" => \E k \in i..j : trail[g][k] = "forgotten"

\* A program does the same with the instrumentation as without: the same calls
\* return the same results, the same deferred functions run with the same
\* panics in hand, and what is recovered to be reported unwinds no less.
PlainFrame(frame) ==
    [fn |-> frame.fn, exiting |-> frame.phase # "body", value |-> frame.value,
     defers |-> frame.defers]
PC == INSTANCE PlainCalls WITH
    Funcs <- AllFuncs,
    stack <- [g \in Goroutines |->
                 [k \in 1..Len(stack[g]) |-> PlainFrame(stack[g][k])]],
    unwinding <- [g \in Goroutines |-> InFlight(g)]

ImplementsPlainCalls == PC!Spec

=============================================================================
