---------------------------- MODULE RequestScope ----------------------------
(***************************************************************************)
(* What telemetry knows of the request it belongs to.  Middleware          *)
(* (network_middleware.go) registers the trace of a request against the    *)
(* goroutine that serves it (goroutine_local.go) and puts it in the        *)
(* request's context (context.go); logs, spans and exceptions look it up   *)
(* in the context, then by goroutine.  A line printed to standard output   *)
(* is looked up on the goroutine that captures it (print_capture.go).  A   *)
(* panic unwinds the frames of its goroutine and is reported on the way    *)
(* (exception_handler.go, gin/veritasgin.go), through a ring that          *)
(* suppresses repeated messages.                                           *)
(*                                                                         *)
(* A goroutine's calls are a stack of frames.  Only frames with a deferred *)
(* function of the SDK, or with somebody else's recover, matter here.      *)
(***************************************************************************)
EXTENDS Integers, Sequences, SequencesExt

CONSTANTS
    Goroutines,
    Scanner,        \* the goroutine of print capture, which serves no request
    Traces,         \* trace ids, from a header or generated
    Messages,       \* the texts of errors and panics
    None,           \* no trace, no panic; as a session, the non-session id
    DedupSize,      \* exceptionDedupSize (64 in the code)
    TTL,            \* exceptionDedupTTL (5s in the code)
    MaxFrames,      \* bound on the depth of a stack
    MaxPasses,      \* bound on the exceptions that are sent
    MaxTime         \* bound on the clock

ASSUME DedupSizeAssumption == DedupSize \in Nat \ {0}
ASSUME BoundsAssumption ==
    TTL \in Nat /\ MaxFrames \in Nat /\ MaxPasses \in Nat /\ MaxTime \in Nat
ASSUME ScannerAssumption == Scanner \in Goroutines
ASSUME NoneAssumption == None \notin Traces \cup Messages

VARIABLES
    frames,             \* the frames of each goroutine, innermost last
    panicking,          \* the panic that unwinds each goroutine
    goroutineTraces,    \* the trace registered for each goroutine
    exceptionDedup,     \* the ring of messages lately sent
    exceptionDedupIndex,
    now,
    inner,              \* history: a registered frame of g has returned under
                        \*   one that is still there
    last,               \* history: the telemetry the last step emitted
    passes              \* history: the exceptions the ring let pass, in order

ring == <<exceptionDedup, exceptionDedupIndex, passes>>
vars == <<frames, panicking, goroutineTraces, ring, now, inner, last>>

\* "middleware" is Middleware; "reporter" reports a panic and lets it go on
\* (veritasgin.Middleware, RecoverAndTransmit(ctx, true), the deferred function
\* the instrumenter injects); "recoverer" is RecoverAndTransmit(ctx, false);
\* "recovery" is a recover that is not the SDK's, as gin.Recovery.
Kinds == {"middleware", "reporter", "recoverer", "recovery"}

Top(g) == frames[g][Len(frames[g])]
Pop(g) == [frames EXCEPT ![g] = Front(@)]
Registered(g) == {k \in DOMAIN frames[g] : frames[g][k].kind = "middleware"}

\* The trace in the context that code in the innermost frame has at hand.
CtxTrace(g) == IF frames[g] = <<>> THEN None ELSE Top(g).trace

\* sessionIDFromContext: the context, then the goroutine, then the process.
SessionID(g, ctxTrace) ==
    IF ctxTrace # None THEN ctxTrace ELSE goroutineTraces[g]

Nothing == [kind |-> "nothing"]
Emission(g, kind, session) ==
    [kind |-> kind, session |-> session, request |-> CtxTrace(g), nested |-> inner[g]]

Init ==
    /\ frames = [g \in Goroutines |-> <<>>]
    /\ panicking = [g \in Goroutines |-> None]
    /\ goroutineTraces = [g \in Goroutines |-> None]
    /\ exceptionDedup = [i \in 0..(DedupSize - 1) |-> [message |-> None, at |-> 0]]
    /\ exceptionDedupIndex = 0
    /\ now = 0
    /\ inner = [g \in Goroutines |-> FALSE]
    /\ last = Nothing
    /\ passes = <<>>

-----------------------------------------------------------------------------
\* The ring.

Recent(message) ==
    \E i \in DOMAIN exceptionDedup :
        /\ exceptionDedup[i].message = message
        /\ now - exceptionDedup[i].at < TTL

\* Mutant: the index wraps one too early.
RecordShort(message) ==
    /\ exceptionDedup' = [exceptionDedup EXCEPT
           ![exceptionDedupIndex] = [message |-> message, at |-> now]]
    /\ exceptionDedupIndex' = IF DedupSize = 1 THEN 0
                              ELSE (exceptionDedupIndex + 1) % (DedupSize - 1)
    /\ passes' = Append(passes, [message |-> message, at |-> now])

Record(message) ==
    /\ exceptionDedup' = [exceptionDedup EXCEPT
           ![exceptionDedupIndex] = [message |-> message, at |-> now]]
    /\ exceptionDedupIndex' = (exceptionDedupIndex + 1) % DedupSize
    /\ passes' = Append(passes, [message |-> message, at |-> now])

\* transmitException, transmitExceptionWithCauses: isDuplicateException tests
\* and records in one critical section; what passes goes to the transmitter.
Transmit(g, ctxTrace, message) ==
    IF Recent(message)
    THEN /\ last' = [kind |-> "suppressed", message |-> message, at |-> now]
         /\ UNCHANGED ring
    ELSE /\ Len(passes) < MaxPasses
         /\ Record(message)
         /\ last' = Emission(g, "exception", SessionID(g, ctxTrace))

-----------------------------------------------------------------------------
\* Calls and returns.

Push(g, kind, trace) ==
    frames' = [frames EXCEPT ![g] = Append(@, [kind |-> kind, trace |-> trace])]

MayCall(g) == panicking[g] = None /\ Len(frames[g]) < MaxFrames
MayRun(g) == panicking[g] = None

\* Middleware, up to next.ServeHTTP. The trace comes from the request's header,
\* from its context when another Middleware has been there, or is new. For a
\* route that is disabled and before SetupInterceptors the handler is called
\* without a frame.
EnterMiddleware(g, t) ==
    /\ MayCall(g)
    /\ Push(g, "middleware", t)
    /\ goroutineTraces' = [goroutineTraces EXCEPT ![g] = t]
    /\ inner' = [inner EXCEPT ![g] = FALSE]
    /\ last' = Nothing
    /\ UNCHANGED <<panicking, ring, now>>

\* A frame below it gets the context it was handed.
EnterDeferred(g, kind) ==
    /\ MayCall(g)
    /\ Push(g, kind, CtxTrace(g))
    /\ last' = Nothing
    /\ UNCHANGED <<panicking, goroutineTraces, ring, now, inner>>

\* Mutant: an inner Middleware leaves its trace to the frames around it.
ReturnMiddlewareUncleared(g) ==
    /\ MayRun(g) /\ frames[g] # <<>> /\ Top(g).kind = "middleware"
    /\ last' = Emission(g, "hop", Top(g).trace)
    /\ frames' = Pop(g)
    /\ inner' = [inner EXCEPT ![g] = Cardinality(Registered(g)) > 1]
    /\ UNCHANGED <<panicking, goroutineTraces, ring, now>>

\* The handler has returned: a hop is recorded, then the deferred function
\* clears the registration, also that of a Middleware further out.
ReturnMiddleware(g) ==
    /\ MayRun(g) /\ frames[g] # <<>> /\ Top(g).kind = "middleware"
    /\ last' = Emission(g, "hop", Top(g).trace)
    /\ goroutineTraces' = [goroutineTraces EXCEPT ![g] = None]
    /\ frames' = Pop(g)
    /\ inner' = [inner EXCEPT ![g] = Cardinality(Registered(g)) > 1]
    /\ UNCHANGED <<panicking, ring, now>>

\* veritasgin.Middleware, when its handler has returned: each of the errors it
\* has collected is reported, or a status of 500 and above.
ReportHandled(g, m) ==
    /\ MayRun(g) /\ frames[g] # <<>> /\ Top(g).kind = "reporter"
    /\ Transmit(g, CtxTrace(g), m)
    /\ UNCHANGED <<frames, panicking, goroutineTraces, now, inner>>

ReturnDeferred(g) ==
    /\ MayRun(g) /\ frames[g] # <<>> /\ Top(g).kind # "middleware"
    /\ frames' = Pop(g)
    /\ last' = Nothing
    /\ UNCHANGED <<panicking, goroutineTraces, ring, now, inner>>

\* A log record, a span or a line given to TransmitPrint, with the context of
\* the request or without any.
Log(g, ctxTrace) ==
    /\ MayRun(g)
    /\ last' = Emission(g, "log", SessionID(g, ctxTrace))
    /\ UNCHANGED <<frames, panicking, goroutineTraces, ring, now, inner>>

TransmitError(g, ctxTrace, m) ==
    /\ MayRun(g)
    /\ Transmit(g, ctxTrace, m)
    /\ UNCHANGED <<frames, panicking, goroutineTraces, now, inner>>

\* The scanner takes a line from the pipe and looks its session up without a
\* context, on its own goroutine. Whose code has printed the line, and how long
\* ago, makes no difference and is left open; OutputCapture has the pipe.
CapturePrint ==
    /\ last' = [kind |-> "print", session |-> SessionID(Scanner, None)]
    /\ UNCHANGED <<frames, panicking, goroutineTraces, ring, now, inner>>

-----------------------------------------------------------------------------
\* Panics.

Panic(g, m) ==
    /\ MayRun(g)
    /\ panicking' = [panicking EXCEPT ![g] = m]
    /\ last' = Nothing
    /\ UNCHANGED <<frames, goroutineTraces, ring, now, inner>>

\* Mutant: the panic is reported without the request's context.
UnwindMiddlewareNoCtx(g) ==
    /\ panicking[g] # None /\ frames[g] # <<>> /\ Top(g).kind = "middleware"
    /\ goroutineTraces' = [goroutineTraces EXCEPT ![g] = None]
    /\ last' = Emission(g, "panic", None)
    /\ panicking' = [panicking EXCEPT ![g] = None]
    /\ frames' = Pop(g)
    /\ inner' = [inner EXCEPT ![g] = Cardinality(Registered(g)) > 1]
    /\ UNCHANGED <<ring, now>>

\* The deferred functions run last first: the registration is cleared before
\* the panic is recovered, so only the context still knows the trace. The
\* report bypasses the ring; no hop is recorded.
UnwindMiddleware(g) ==
    /\ panicking[g] # None /\ frames[g] # <<>> /\ Top(g).kind = "middleware"
    /\ goroutineTraces' = [goroutineTraces EXCEPT ![g] = None]
    /\ last' = Emission(g, "panic", Top(g).trace)
    /\ panicking' = [panicking EXCEPT ![g] = None]
    /\ frames' = Pop(g)
    /\ inner' = [inner EXCEPT ![g] = Cardinality(Registered(g)) > 1]
    /\ UNCHANGED <<ring, now>>

\* RecoverAndTransmit, or the function the instrumenter defers: reported through
\* the ring, with the context of the request or without any, then re-panicked or
\* not.
UnwindReporting(g, ctxTrace) ==
    /\ panicking[g] # None /\ frames[g] # <<>>
    /\ Top(g).kind \in {"reporter", "recoverer"}
    /\ Transmit(g, ctxTrace, panicking[g])
    /\ panicking' = [panicking EXCEPT ![g] = IF Top(g).kind = "reporter" THEN @ ELSE None]
    /\ frames' = Pop(g)
    /\ UNCHANGED <<goroutineTraces, now, inner>>

\* Somebody else recovers: gin.Recovery, or net/http at the end of the stack.
UnwindElsewhere(g) ==
    /\ panicking[g] # None
    /\ frames[g] # <<>> => Top(g).kind = "recovery"
    /\ frames' = IF frames[g] = <<>> THEN frames ELSE Pop(g)
    /\ panicking' = [panicking EXCEPT ![g] = None]
    /\ last' = Nothing
    /\ UNCHANGED <<goroutineTraces, ring, now, inner>>

Tick ==
    /\ now < MaxTime
    /\ now' = now + 1
    /\ last' = Nothing
    /\ UNCHANGED <<frames, panicking, goroutineTraces, ring, inner>>

Next ==
    \/ \E g \in Goroutines \ {Scanner} :
        \/ \E t \in Traces : EnterMiddleware(g, t)
        \/ \E kind \in Kinds \ {"middleware"} : EnterDeferred(g, kind)
        \/ ReturnMiddleware(g)
        \/ ReturnDeferred(g)
        \/ \E m \in Messages : ReportHandled(g, m)
        \/ \E ctxTrace \in {CtxTrace(g), None} :
              \/ Log(g, ctxTrace)
              \/ \E m \in Messages : TransmitError(g, ctxTrace, m)
              \/ UnwindReporting(g, ctxTrace)
        \/ \E m \in Messages : Panic(g, m)
        \/ UnwindMiddleware(g)
        \/ UnwindElsewhere(g)
    \/ CapturePrint
    \/ Tick

Spec == Init /\ [][Next]_vars

-----------------------------------------------------------------------------
\* Properties.

Sent == {"log", "print", "exception", "hop", "panic"}

Frames == [kind : Kinds, trace : Traces \cup {None}]

\* The variables have their types; the ring is written at a slot it has.
TypeOK ==
    /\ frames \in [Goroutines -> Seq(Frames)]
    /\ \A g \in Goroutines : Len(frames[g]) <= MaxFrames
    /\ panicking \in [Goroutines -> Messages \cup {None}]
    /\ goroutineTraces \in [Goroutines -> Traces \cup {None}]
    /\ exceptionDedup \in [0..(DedupSize - 1) -> [message : Messages \cup {None}, at : Nat]]
    /\ exceptionDedupIndex \in 0..(DedupSize - 1)
    /\ passes \in Seq([message : Messages, at : Nat])
    /\ inner \in [Goroutines -> BOOLEAN]
    /\ last.kind \in Sent \cup {"nothing", "suppressed"}
    /\ now \in 0..MaxTime

\* The context at hand in a frame is that of the innermost request around it.
ContextOfInnermost ==
    \A g \in Goroutines : \A k \in DOMAIN frames[g] :
        \/ /\ frames[g][k].trace = None
           /\ \A j \in 1..k : frames[g][j].kind # "middleware"
        \/ \E j \in 1..k :
              /\ frames[g][j].kind = "middleware"
              /\ frames[g][j].trace = frames[g][k].trace
              /\ \A i \in (j + 1)..k : frames[g][i].kind # "middleware"

\* The trace registered for a goroutine is that of the innermost request it
\* serves, never one that has ended or that surrounds it; when no request is
\* served, nothing is registered. Only a nested Middleware, whose deferred
\* clear removes the outer registration too, may leave a request without.
InnermostOrLost ==
    \A g \in Goroutines :
        IF Registered(g) = {} THEN goroutineTraces[g] = None
        ELSE \/ goroutineTraces[g] = frames[g][Max(Registered(g))].trace
             \/ goroutineTraces[g] = None /\ inner[g]

\* The scanner only reads, shows and captures: no Middleware runs on it.
ScannerServesNothing == frames[Scanner] = <<>>

\* The slot of the exception that passed as many others ago as `age` says.
Slot(age) ==
    LET i == exceptionDedupIndex - 1 - age
    IN  IF i >= 0 THEN i ELSE i + DedupSize

\* The ring holds the exceptions that passed last, as many as it has slots.
RingHoldsLatest ==
    \A age \in 0..(DedupSize - 1) :
        IF age < Len(passes)
        THEN exceptionDedup[Slot(age)] = passes[Len(passes) - age]
        ELSE exceptionDedup[Slot(age)].message = None

\* The invariant of the contexts, the registrations and the ring.
ScopeInv ==
    /\ TypeOK
    /\ ContextOfInnermost
    /\ InnermostOrLost
    /\ ScannerServesNothing
    /\ RingHoldsLatest

\* Nothing is sent with the trace of another request than the one whose code
\* sends it. Hops, and panics that Middleware recovers after the clear, always
\* carry their request's; logs, spans and exceptions do, unless no context is
\* given and a nested Middleware has returned. A captured print carries none:
\* the trace registered for the goroutine that printed it does not reach the
\* scanner, though network_middleware.go:103-106 says that it does. (A goroutine
\* that a handler starts serves nobody here, as goroutine_local.go:22-26 warns.)
NeverMisattributed ==
    last.kind \in Sent =>
        IF last.kind = "print" THEN last.session = None
        ELSE \/ last.session = last.request
             \/ /\ last.session = None /\ last.nested
                /\ last.kind \in {"log", "exception"}

\* A message passes the ring again within the TTL only if as many others have
\* passed since as the ring holds, whichever goroutines report them.
PassesAreSpaced ==
    \A i, j \in DOMAIN passes :
        /\ i < j
        /\ passes[i].message = passes[j].message
        /\ passes[j].at - passes[i].at < TTL
        => j - i > DedupSize

\* An exception is held back only if one with the same message has passed
\* within the TTL.
HeldBackForARecentOne ==
    last.kind = "suppressed" =>
        \E i \in DOMAIN passes : /\ passes[i].message = last.message
                                 /\ last.at - passes[i].at < TTL

\* What the ring lets pass and what it holds back, although its slots are
\* overwritten in turn and their age is looked at only when a message comes.
DedupWindow == PassesAreSpaced /\ HeldBackForARecentOne

=============================================================================
