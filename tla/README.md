# A TLA+ model of sf-veritas-go

`sf-veritas-go` is a telemetry SDK that lives inside somebody else's Go
service. It is called from request handlers, log handlers and instrumented
functions, on any goroutine and at any time, and hands what it collects to
background goroutines that post it to a collector. It may be shut down, twice
and concurrently, while all of that goes on; and a WebSocket control channel can
arm and disarm debug capture under it. The modules here model those parts,
`tlc` checks them on small instances and `tlapm` checks the proofs of what
matters most for every instance.

    tlc -workers 2 -config MCTransmitter.cfg MCTransmitter.tla
    tlapm TransmitterProofs.tla

## Inventory

Line numbers are those of `src/`. "State" is what survives a call.

| Component | State | Operations | Interacts with |
|---|---|---|---|
| transmitter (`transmitter.go`) | a channel of 4096 items, `quit`, the batch of `run()` | `initTransmitter`, `nonBlockingPost`, `run`, `flush`, `postOne`, `Shutdown` | every other part posts into it; `Shutdown` stops the uplink first |
| debug session (`funcspan_session.go`) | `activeSession`, an atomic pointer written under `sessionMu`; counters | activate / update / supersede, deactivate, charge a span, check the TTL; a callback fired after the unlock | the uplink activates and cancels, `Span.End` charges, the TTL pump expires, `stopUplink` ends |
| uplink (`uplink.go`) | `conn`, `quit`, the loop, per connection a pump and a quit watcher | dial, read, reconnect with back-off, `handleRules`, `sendSessionExpired`, `stopUplink` | session and rules; `Shutdown` |
| debug rules (`funcspan_rules.go`) | `activeRuleSet`, an atomic pointer to an immutable set | set, clear, evaluate before and after a call | `handleRules` writes, spans read |
| function spans (`function_span.go`) | none but the `Span`; settings in the context | `StartSpan`, `End` | config, `.sailfish`, rules, propagation, session, transmitter |
| context values (`context.go`) | immutable context; one process-wide trace id | trace, span id, suppression, propagation | everything |
| goroutine-local trace (`goroutine_local.go`) | a map from goroutine id to trace | set, clear, current | middleware writes; logs, spans, exceptions, identification and attribution read. Prints are looked up on the scanner's goroutine, for which nothing is registered |
| inbound middleware (`network_middleware.go`, `gin/`) | none | trace, capture, panic path | goroutine-local trace, exceptions |
| outbound transport (`network_transport.go`) | none of its own: it writes into the caller's request and the answer | `RoundTrip`: headers, one retry without them, body capture, recording | transmitter; another transport around or below it |
| log handler (`log_handler.go`) | the process-wide flag `inLogCapture` | `Handle` | transmitter |
| print capture (`print_capture.go`) | a pipe in place of `os.Stdout`, a scanner goroutine, a flag that only it takes | start, stop | the signal goroutine stops it; transmitter |
| exception capture (`exception_handler.go`) | a ring of the 64 messages sent last, shared by the process | `TransmitError`, `RecoverAndTransmit`, the report of `Middleware` | middleware, goroutine-local trace, transmitter |
| user attribution (`user_attribution.go`) | active users per trace, a buffer of events, a debounce timer | add, remove, set, clear, flush | transmitter; `Shutdown` does not flush it |
| `.sailfish` config (`funcspan_config.go`) | one parsed file | lookup by function, file, default | spans |
| UUID pool (`uuid_pool.go`) | a channel of ready ids | `fastUUID` | everything |
| set-up (`sfveritas.go`, `config.go`) | the configuration | `SetupInterceptors`, the signal goroutine | starts everything |
| service identification (`service_identifier.go`, `metadata.go`, `mutations.go`) | none | one message | transmitter |
| instrumenter (`cmd/sfveritas-instrument`) | none (a compiler wrapper) | skips or rewrites a package, file by file | the code it puts in calls `StartSpan...`, `End`, `TransmitPanicWithLocals` |

What makes each part correct, and what is hard about it:

* **transmitter**: an accepted item is posted once, in order, or is lost in its
  one attempt; a full channel drops and recovers; `Shutdown` returns, flushes
  what was queued, and nothing is posted afterwards. Hard: the three-way
  `select`, a drain with *blocking* receives while producers go on, two
  `Shutdown` calls at once.
* **debug session**: exactly one callback per session, with a final count and a
  true reason; budgets hold. Hard: five parties race for one pointer; each looks
  at it without the lock first; the callback runs after the unlock.
* **uplink**: the rules armed are those of the session that is active; a session
  ends when its time is over; `stopUplink` returns and leaves nothing behind.
  Hard: reconnects, a dial that cannot be cancelled, directives that race with
  the stop.
* **user attribution**: the posted events account for the active sets and replay
  as intervals; nothing stays in the buffer. Hard: two mutexes, one for the sets
  and one for the buffer; a timer that expires while somebody flushes.
* **rules and spans**: a pure decision with five layers of precedence, and a
  depth-bounded inheritance through the context.
* **outbound transport**: the application gets the answer it would have got
  without tracing, and every id a server was told is recorded. Hard: an attempt
  uses the body up, the request object is the caller's and may be used again,
  and a layer repeats attempts of the layer above it.
* **instrumenter**: a program does the same with instrumentation as without; a
  span ends with its call; the instrumented functions that a panic unwinds make
  one report of it. Hard: the deferred function that is put in recovers, reports
  and panics again between the program's own deferred functions, while other
  goroutines use the same ring of messages.
* **logs, prints, exceptions, goroutine-local trace**: no loop (capturing must
  not capture itself), no double report, no leak of one request's trace into
  another.

`PROJECT.json` lists the hazards one by one, at their lines, with the
properties that cover them.

## Modules

| Module | Models | Extends |
|---|---|---|
| `Transmitter` | the transmitter, without history: finite, for liveness against producers that never stop | |
| `TelemetryQueue` | the abstract specification: a lossy FIFO log with `Close` and `Return` | |
| `TransmitterHistory` | history variables, delivery properties, the inductive invariant `HInv`, the refinement of `TelemetryQueue` | `Transmitter` |
| `TransmitterProofs` | the theorems about it | `TransmitterHistory` |
| `FuncspanSession` | the debug session with every party that races for it, its properties and the inductive invariant `SessionInv` | |
| `DebugUplink` | the uplink composed with the session and the armed rules | `FuncspanSession` |
| `DebugUplinkProofs` | the theorems about the session and about the composition, which implements it | `DebugUplink` |
| `UserAttribution` | the attribution API, buffer and timer | |
| `UserAttributionProofs` | the theorems about it | `UserAttribution` |
| `FunctionSpans` | trees of spans under five layers of configuration, the rules swapped meanwhile; the inductive invariant `SpanInv` | |
| `FunctionSpansProofs` | the theorems about it | `FunctionSpans` |
| `RequestScope` | the trace of a request through middlewares, goroutine map, panics; the exceptions' ring | |
| `RequestScopeProofs` | the theorems about it | `RequestScope` |
| `OutputCapture` | log handler, print capture, stop and exit; the inductive invariant `OutputInv` | |
| `OutputCaptureProofs` | the theorems about it | `OutputCapture` |
| `OutboundTransport` | `RoundTrip` in nested transports, the attempts, the answer's body | |
| `OutboundTransportProofs` | the theorems about it | `OutboundTransport` |
| `Instrumenter` | which files are rewritten, what is put in and whether it compiles | |
| `PlainCalls` | the abstract specification: calls, results, panics and deferred functions of a program that is not instrumented | |
| `InstrumentedCalls` | the instrumented program running, with `TraceFunc` and `Middleware` in its stacks; the refinement of `PlainCalls` | `Instrumenter` |
| `InstrumentedCallsProofs` | the theorems about it | `InstrumentedCalls` |
| `MC*` | instances for TLC | |

Operators that begin with the comment `Mutant:` are plausible bugs in the
definition that follows them; no specification uses them. Replacing the original
by its mutant must break the property named for it in `PROJECT.json`.

### Transmitter

`ch` is the channel, `batch` and `i` the local slice of `run()` and how far
`flush` has got in it, `rpc` the place of `run()` (`select`, `flush`, `drain`,
`lastflush`, `done`), `n` the drain's counter, `quit` the closed channel and
`spc` the place of each `Shutdown` call. Each case of the `select` is an action
(`RecvItem`, `TickFlush`, `QuitCase`), enabled when the case is ready. `postOne`
is one action per item: it always ends, since the HTTP client has a timeout, and
in the history module it delivers or loses the item. `NonBlockingPost` is the
`select` with `default`. `stopUplink`, which `Shutdown` calls first, is
`DebugUplink`'s; here it is a step of its own, so that anything may happen
between the entry and the closing of `quit`.

### FuncspanSession

An *incarnation* is one life of a session, from the `Store` that makes it active
to the one that removes it; `active` is the pointer (0 is nil), `heap` the
struct of each incarnation, `op[g]` what goroutine `g` is in the middle of.
Every operation is split where the code can be interrupted: the unlocked
pre-check (`CallRecord`, `CallDeactivate`, `CallCheckTTL`, `CallActivate`, which
tests the expiry), the critical section under `sessionMu` (`UpdateInPlace`,
`StartNew`, `Deactivate`, `RecordSpan`, `RecordNothing`, `CheckTTL`) and the
callback (`Fire`). `charged`, `granted` and `report` are history. The expiry is
rechecked nowhere after the pre-check, as in the code. Only the goroutine of the
read loop activates, because `handleRules` runs in it.

### DebugUplink

`upc` is the place of the uplink goroutine through `run`, `connectAndRun` and
`handleRules`; `conn` and `ctx` are the published connection and its context;
`rules` is the id of the session whose directive armed the rule set. Directives
that turn out to hold only malformed rules compile to no rules (`NoRules`).
Budgets below zero behave as 0 (unlimited) and are not enumerated, an empty
session id is rejected as an expired directive is. `mark[s]` is history: the
session that was active when `stopUplink` call `s` looked; `ShutdownEndsSession`
says that it is over when the call gets to closing `quit`, although a directive
may supersede it, or the TTL or a budget end it, at the same time. The messages
on the socket (`clientHello`, `pong`, `rulesAck`, `sessionExpired`) and the
keepalive change no state here; sending one is a step that may succeed or fail.
A pump may take one more tick after its context is cancelled, since its `select`
finds both ready, but need not.

`RulesMatchSession` is about the time from a directive's rules being armed until
the next directive is handled. Between activating a session and arming its rules
(`upc = "activate"`) the new session runs under what was armed before it, as the
code's order has it (`uplink.go:261-267`); the property excepts that window.

### UserAttribution

`Call` starts an operation, `ChangeSet` is its section under `uaActiveMu`, each
`Emit` is one `uaEmit` under `uaBufMu`, `Drain` is `uaDrain` with the test that
follows it and `Post` the `nonBlockingPost`. The four ways of changing a set are
one action with two parameters, the users to keep and the users to add. An
expired timer is a goroutine of its own (`TimerExpires`) that may reach the lock
late; `timer` stays non-nil until a drain, so one that has expired always has a
goroutine that will drain. Calls outside a trace or for a blank user are no-ops
in the code and absent. `early` counts what was buffered before the SDK was
configured, for which no timer is owed (`user_attribution.go:51-53`).

`EventsAccountForSets` counts each event wherever it is: posted, dropped, in the
buffer, or in the hand of a goroutine that has yet to emit it (`HasToEmit`) or
to post it with its batch (`Hand`, `InHand`). There is one `add` more than
`end`s for a user who is active, and as many of both for one who is not.

### FunctionSpans

`spans` is every span that was started, each with the context its callees get
(`current`, `suppress`, `override`, `prop`). A start is one action, since
`startSpanInternal` loads the rule set once and touches no other shared state:
`StartNoop` for a suppressed, killed or sampled-out call, `StartInheriting`
below a propagating rule, `StartMatching` when a rule matches, `StartUnmatched`
otherwise. `Decide` lays the five layers over each other in the order of the
code. `EndPosted` and `EndDropped` are `End`, which asks the rule set *of that
moment* for the gate; `SetRules` swaps the set. Three things are as in the code
and easily missed: a no-op span does not use up propagation depth, a chain that
inherits goes on elevating after the rules were cleared, and `End` has no guard
against a second call.

`SpanInv` has two halves: `TreeInv`, how contexts relate to the spans that built
them, and what the spans capture (`PropagationIsAsMatched`,
`CaptureIsAsOrdered`).

A condition is a fact of the call that holds or not, a file pattern the set of
files it matches, a sampling rate `all`, `none` or `some`; the operators of
conditions, the parsers and the truncation of values are data.

### RequestScope

`frames[g]` is the stack of calls in goroutine `g` that matter: `Middleware`,
those that report a panic and let it go on, those that recover it, and other
people's `recover`. `EnterMiddleware` and `ReturnMiddleware` register and clear
`goroutineTraces[g]`; `Panic` starts unwinding and each `Unwind...` runs the
deferred functions of one frame, last first. `last` is what the last step
emitted, with the session it is filed under and the request its code serves.
`Transmit` is `isDuplicateException` (test and record in one critical section)
and the post. Logs, spans, errors and the report of a panic come with the
request's context or with none, in which case the goroutine's registration
decides; the process-wide trace id, the last resort of `sessionIDFromContext`,
is `None`. `ReportHandled` is one of the errors that `veritasgin.Middleware`
finds when its handler has returned, of which there may be any number.

`CapturePrint` is the look-up for a line that was printed. It is made without a
context on the goroutine of the print scanner (`print_capture.go:65`), which is
a member of `Goroutines` that serves nothing (`Scanner`), at whatever time the
line gets there: whose line it is makes no difference to the result and is left
open. So a captured print carries no trace, which `NeverMisattributed` states;
the comments of the code promise more (see *Observations*).

`ScopeInv` joins five things: types; `ContextOfInnermost`, that the context at
hand in a frame is that of the innermost Middleware around it;
`InnermostOrLost`, that a registration is that Middleware's or lost to a nested
one's clear; `ScannerServesNothing`, that nothing is ever registered for the
scanner's goroutine; and `RingHoldsLatest`, that the ring holds the exceptions
that passed last, each at the slot of its age.

### OutputCapture

`calls[g]` is the stack of log and print calls of a goroutine: formatting a
record may log and print (`slog.LogValuer`). A log call is three steps, the
compare-and-swap of `inLogCapture` (`LogGuard`), formatting, and `LogPost`,
which posts and releases. A print loads `os.Stdout` when it begins (`PrintCall`)
and writes later, to whatever file it has loaded, which may be closed by then
(`WriteFails`). The scanner goroutine takes a line, shows it, captures it; a
line longer than its buffer ends it, and what is written then fails once the
read end has been finalized. `StopPrintCapture`, `StopClose`, `StopSwap`,
`StopWait` are the stop at a signal, `Exit` the return of `main`.

`Init` is the state `SetupInterceptors` leaves, with print capture on, disabled
or failed; it is assumed to be called once (a second call would make the pipe
the "original" of the next one). A call of the inner handler's values counts as
made before the record; post and deferred release are one step, nobody else
reading the flag in between to another effect than a moment earlier. Lines come
whole: a print without a newline stays in the scanner until the newline comes.

`StopIsOrderly` is about `stopPrintCapture`: what was written into the pipe has
been shown when it returns (unless a line was longer than the scanner's buffer),
only a print of the time while it waits may overtake lines of the same
goroutine, and a print that begins after it is not lost. `OutputCallsReturn` is
about who calls: a print returns, also when the pipe is full and the scanner
dead, and so does the stop. `NobodyIsStuck` is the part of it that needs no
fairness: whoever waits, somebody can go on. `MayWrite` is what a write waits
for once it has its file, and the guard of the three actions that write.

`OutputInv` is types, the guard (`GuardHeldByOne`), what the stacks are
(`CallsInOrder`), what a line's destination tells of the time when it was
printed (`LinesAreDated`), how far the stop has come (`StopInOrder`), and that
lines go into the pipe in the order of their goroutine, each once
(`PipeInOrder`).

### OutboundTransport

`Layers` transports stand between the caller and the base transport. Transports
nest in practice: `SetupInterceptors` wraps whatever `http.DefaultTransport` is
(`sfveritas.go:98-99`), so a second call, or a client of `NewTransport(nil)`
after the first, puts one around another. A call goes `down` through `PassOn` or
`Trace` per layer, is answered by `Attempt` (the base transport and the server,
external) and comes `up` through `PassBack`, `Retry` (down again) or `Record`.
`frames[l]` is the locals of `RoundTrip` in layer `l`; `request` is the caller's
object, into which the headers are written and which the next `Call` may use
again; `wire`, `posts` and `open` are history.

A body is what the server sees of it: reading a `broken` one fails, and the SDK
sends an empty one in its place; a `spent` one has been sent. A status is `ok`,
`rejected` (400 or 403) or `failed`. An answer has a size and ends, breaks or
never ends; `AfterCapture` is what the caller finds after the capture has read
at most `RespLimit + 1` bytes of it. Where the response is text, capture is one
step of `Record`, which is taken only when the read comes to an end
(`Stalls`). Header names, timings, and what the records say of a body are data.

### Instrumenter, PlainCalls and InstrumentedCalls

`Instrumenter` is the build: a package is a path, files and functions with the
traits that decide what the wrapper does with them (`ShouldSkipPackage`,
`Candidates`, `Instrumentable`) and whether the result compiles
(`StartCompiles`, `EndCompiles`, `NameIsBound`). Any subset of the candidate
files may fail to be parsed or written and is left as it was, so a program may
be instrumented in part. When a package is rejected there is no program, and
`Built` stays false.

`InstrumentedCalls` runs the program that was built. `stack[g]` is the calls of
goroutine `g`; each has a phase (`body`, `exiting`, and `reported` between the
report of a panic and the new panic) and the program's deferred functions still
to run: `recover`, `alter` (changes the named results) and `panic`. The deferred
function that is put in was registered first and runs last: `LeaveInstrumented`
when there is nothing to recover, and otherwise `ReportPanic` and
`EndAndPanicAgain`, with other goroutines in between. `LeaveTraceFunc` and
`LeaveMiddleware` are those functions' ends; the span that `TraceFunc` starts is
not deferred. Of the ring only its effect is kept: a message is `recent` from
its record until `Forget`, which may come at any time; the ring itself is
`RequestScope`'s. `trail[g]` is what became of the reports of the panic that
unwinds, those of the instrumented functions: `Middleware` reports what reaches
it past the ring (`exception_handler.go:329-374`), so a panic that unwinds an
instrumented handler is sent twice, once by the functions and once by
`Middleware`.

`PlainCalls` is the same program without any of this: what Go does with calls,
panics, `Goexit` and deferred functions. A deferred function may panic while
`Goexit` unwinds; whoever recovers that panic leaves `Goexit` to go on
(`exited`), as Go does since 1.14. The refinement maps a call to its function,
whether it is exiting, its results and deferred functions, and the panic in hand
of a reporting function to the panic that unwinds: to the program a report is a
stutter. `ImplementsPlainCalls` says that the instrumentation changes no result,
swallows no panic, and runs no deferred function twice or not at all. It is
about the calls a program makes, not about the moment when they run. Of the
calls that the SDK itself makes into the program, on the arguments, results and
panics it formats (`String`, `Error`, `MarshalJSON`...), both specifications say
nothing: they are taken to return and to change nothing.

## Runs

Passing runs:

| Run | Instance | Shows |
|---|---|---|
| `MCTransmitter` | one kind of item, channel of 3, batch of 2, two `Shutdown` calls | `Shutdown` returns, a full channel drains and a partial batch is flushed, against producers that never stop |
| `MCTransmitterHistory` | two items, channel of 2, batch of 2, at most 4 accepted | `HInv`, which has the order of posts and the drain that never blocks; what was queued is flushed; implements `TelemetryQueue`, which posts nothing after `Return` |
| `MCFuncspanSession` | two workers, pump, reader, stopper; two ids with three kinds of budget each; two incarnations | exactly one callback, final snapshot, true reasons, no resurrection; budgets, as a part of `SessionInv` |
| `MCDebugUplink` | one worker, pump, stopper; two sessions and an update | the published connection is current; no session under another's rules once its own are armed; the session that `stopUplink` found is ended; expiry while connected; `stopUplink` returns even if a dial hangs; the goroutine ends unless it does |
| `MCUserAttribution` | two goroutines, two users, one trace, one timer goroutine, 3 calls | events account for sets; no buffered event without a timer; all are flushed |
| `MCFunctionSpans` | 2 sites, 3 spans, 4 rule sets, 2 `.sailfish` files, a header or none | the layers decide as documented; propagation is bounded; suppression reaches all descendants; only gated spans are dropped, as a part of `SpanInv` |
| `MCRequestScope` | two goroutines and the scanner's, two traces, three messages, a ring of 2, 4 passes | nothing is filed under another request, and a captured print under none; the ring lets pass and holds back what it should |
| `MCOutputCapture` | two goroutines, one of them `main`; a pipe of one line, 3 calls, stacks of 2 | one record holds the guard and always releases it; the pipe conveys in order; a stop is orderly; output calls return |
| `MCOutboundTransport` | two layers, two calls, a limit of 1 byte, answers of 0 to 3 bytes | one answer is open; a rejection handed to the caller is never due to the headers; every attempt has the same body; every id a server was told is recorded once; a call returns unless it captures a stream |
| `MCInstrumentedCalls` | two packages of four functions, any of three files left as it was; a request's goroutine and another one; two messages | spans end once, with the caller's result; one report per panic by all the functions it unwinds; the program does what it did without instrumentation |

Runs that refute a statement of the documentation (see *Findings*):
`MCCaptureStops` and `MCResponseBodyRestored`.

**Bounds.** *Transmitter*: nothing in the code looks at an item, so two
distinguishable items show every reordering. With a channel of 2, a batch of 2
and 4 accepted items the channel fills while a batch is being posted, items are
dropped, `quit` is closed with items in the channel, in the batch and between,
and a late item stays behind in the abandoned channel. `MaxAccepted` bounds the
history only; `MCTransmitter` has no bound. *Session*: `MaxGen = 2` gives a
superseded session and its successor in flight at once; `MaxCharged = 2` with
budgets of one and two spans and two sizes gives spans on both sides of each
budget; the clock (`MaxTime = 1`) separates before and after the limit. Two
workers are enough for one to be stale while the other ends the session.
`CHECK_DEADLOCK FALSE` where the bounds or `Shutdown` end the behaviour.
*Attribution*: three calls are an add, a change that races with it and a flush
that meets the timer; traces share only buffer and timer, so one is enough.
*Spans*: three spans are a matching one, a child that inherits or is suppressed,
and a grandchild or a sibling; the rule sets hold a rule with depth 2, the same
id with depth 1 and a gate, a sampled one before another, and none; the entries
of `.sailfish` overlap. *Requests*: two frames are a Middleware in a Middleware
or under a reporter; with three messages and `MaxPasses = 4` the ring of 2 wraps
and lets a message pass again that it has forgotten; at `MaxTime = TTL = 1` an
entry of time 0 no longer counts. *Output*: three calls are a line at the
scanner, one in the pipe and one that waits, or a record logged while another
one is formatted. *Transport*: a layer looks only at the layer next to it, so
two of them show all that more would; the second call is the one that finds the
request object used; sizes 0 to 3 are nothing, within the limit of 1, the byte
above it, and more than is read. *Calls*: the request's goroutine has
`Middleware`, `work` (which alters its result and recovers) and below it
`TraceFunc`, `lib` (which panics again in a deferred function) and `step`, so
that stacks of four mix functions with and without spans; the other goroutine
runs `step`, and shares the ring. Nothing bounds what they do. `CHECK_DEADLOCK
FALSE` there because a rejected build is the end, and in the transport's runs
because calls are bounded.

**Symmetry.** `MCFuncspanSession` permutes workers and session ids,
`MCRequestScope` goroutines (but the scanner's), traces and messages; only
safety is checked there, and neither specification tells the permuted values
apart. `SInit` fills unused
structs with a `CHOOSE`n directive, which no step reads before `StartNew`
overwrites it.

**Fairness.** `Transmitter.FairSpec`: `run()` and a `Shutdown` call that has
begun are goroutines whose enabled steps are taken (weak fairness). Go's
`select` chooses uniformly among its ready cases, so the quit case, once ready,
is not passed over for ever although receives keep coming: strong fairness of
`QuitCase`. Producers owe nothing. `DebugUplink.FairSpec`: calls in flight, the
loop, the quit watcher, the pump, timers and the clock run; connections need not
fail, directives need not come. A dial owes nothing (`uplink.go:146` passes a
context without deadline that nobody cancels before the dial has returned),
which is why `UplinkStops` excepts it. `UserAttribution.FairSpec`: calls in
progress go on and an armed timer expires. `OutputCapture.FairSpec`: goroutines
run; writers that wait for one file get its lock in turn (`poll.FD` queues
them), so one that can write again and again does, strong fairness of
`WritePipe`; the runtime collects garbage at least every two minutes, so a dead
scanner's read end is closed. Nobody owes a call, a signal or the return of
`main`. `OutboundTransport.FairSpec`: the calling goroutine runs, and the base
transport answers or fails, as the deadline of the caller's request makes it;
nobody has to call. A body that is captured owes no end, which is why
`AnsweredCallReturns` excepts one that neither ends nor reaches the limit.

## Proofs

The eight `...Proofs` modules hold for every number of producers, goroutines,
items, workers, callers, layers and functions, every capacity, pipe, ring and
batch size, every set of directives, rules, configurations, call sites, programs
and call graphs. What they assume is what the `ASSUME`s of the modules say: the
capacity, the batch size, the pipe's and the ring's size and the number of
layers are positive, `Main` and `Scanner` are goroutines, budgets, sizes and
bounds are naturals, `None` is none of the values, rules have a depth and speak
of rule settings only, the global configuration gives every setting, `TraceFunc`
and `Middleware` have no deferred functions of the program's, and nobody calls
`Middleware` but a goroutine that serves. The bounds `MaxAccepted`, `MaxGen`,
`MaxCharged`, `MaxTime`, `MaxSpans`, `MaxCalls`, `MaxFrames`, `MaxPasses` are
arbitrary naturals in the proofs; of `MaxDepth` and of `MaxCalls` in
`OutputCapture` nothing is assumed.

*Transmitter.* `PostedInOrder` is not inductive: it says nothing of the batch
and the channel. `Accounting` strengthens it: posted items, batch and channel
hold consecutive stretches of what was accepted (`Base` is what has left
`run()`). `ShutdownFlushes` needs `ShutdownProgress`, which follows the mark
(what was accepted when `quit` was closed) through the drain: it is posted, in
the batch, or among the `n` items still to be read. With types they are `HInv`,
proved inductive action by action (`InvariantHolds`); `PostsInOrder`,
`ShutdownFlushesAll` and `DrainIsFree` follow from it, `NothingAfterShutdown` is
an action property under it, and `Refinement` shows that every step maps to a
step of `TelemetryQueue` or stutters. `ShutdownEnds` is what can be proved here
of the return of `Shutdown`: from the quit case on, `run()` has `Left` steps to
take, which each of its own steps lowers and no step of another goroutine
changes.

*Session.* `SessionInv` joins the properties with what the steps keep besides:
unused incarnations are blank (`Fresh`), a callback on its way is of a known
incarnation and its reason holds (`InFlight`), and the counters of the active
struct equal the history and leave room in the widest budget it had
(`Counters`). `ReasonsHold` rests on an ended incarnation's directive never
changing again; `EndedForGood` is an action property under the invariant.

*Spans.* `PropagationBounded` and `SuppressedSubtreeIsSilent` speak of paths in
a tree; neither is inductive. `DepthIsAccounted` says what is true of one span
and its parent: inherited levels used and the depth still in the context add up
to the depth of the rule at its origin, which is further up the same path,
whoever has swapped the rules since. `SuppressionIsHandedDown` says that the
context of a span carries the suppression of its parent's. `OnlyMatchesAreGated`
ties the gate decided at the start to a match. Together with types they are
`TreeInv`; `PropagationIsBounded`, `SuppressionReachesAll` and
`DropsAreGated` follow.

`CaptureIsAsOrdered` compares a span with the one at its origin, several calls
further up, although each call lays five layers anew. It is inductive together
with `PropagationIsAsMatched`, which says that what the context hands down is
still what the origin captured. `OverAt` and `GivenAt` take one layer laid over
another apart setting by setting; `DecideByRule` and `DecideByHeader` derive
from them that a rule's or a header's setting survives the layers below it, and
each kind of start has a lemma (`NoopOrder`, `InheritingOrder`, `MatchingOrder`,
`UnmatchedOrder`). The sum is `SpanInv` (`SpanInvariant`, `CapturesAreOrdered`).

*Uplink.* `Inductive` is `UplinkInv`, `RulesMatchSession` and
`ShutdownEndsSession`. `UplinkInv` says what the steps keep besides types: a
connection is published exactly while it is read, only the read loop activates
and only at its place in `handleRules`, a compiled set is of the directive in
hand, and a session that `stopUplink` has marked is over, superseded, or being
deactivated. `UplinkImplementsSession` shows that each step of the composition
is a step of `FuncspanSession` or leaves it alone; hence `SessionsUnderUplink`:
what is proved of the session alone holds under the uplink. `WindsDown` says of
the end of the goroutine what needs no fairness: once `quit` is closed and the
context cancelled, it is at most `StepsToStop` of its own steps from the end,
and no step of anybody sends it back or lets it dial.

*Attribution.* `BufferInv` is inductive: an event comes into the buffer together
with a timer, a drain takes both, and an expired timer is one whose goroutine
has still to drain. What goes through the operations is typed, since sets become
events and events a batch. `AttributionInv` adds the account. No step changes
what more than one goroutine has in hand (`InHandChanges`), so the sum over all
of them, which is the size of one set, changes by the size of that goroutine's
hand. What moves (into the buffer, from the buffer into a hand, from a hand into
what was posted or dropped) is counted on both sides by a bijection (`Shifted`,
`Tagged`, `OccursAppend`, `OccursConcat`), and only `ChangeSet` changes the
number: by one, for the users that it takes in or out (`AccountOfChange`).
`EventsAccount` is the property, and `PostedEventsTell` what it is for: when
nothing is under way and nothing was dropped, the posted events alone tell who
is active.

*Requests.* `Inductive` is `ScopeInv`, `NeverMisattributed` and `DedupWindow`.
The proof takes it apart again into the scopes, the ring and what was emitted
last (`Parts`). Of a stack, `PushScope` and `PopScope` say that a frame put on
or taken off keeps `ContextOfInnermost` and `InnermostOrLost`;
`AtHandIsInnermost` that a context and a registration then name the same
request, which is why what is sent is not misattributed (`LookedUp`), and
`CapturedPrint` that the scanner's goroutine finds nothing. Of the
ring, `SlotsMove` says that a record makes every slot one record older;
`RecordStep`, that a message which is not recent and passes is further from its
last passing than the ring is long.

*Output.* `Inductive` is `OutputInv`, `ConveyedInOrder` and the two parts of
`StopIsOrderly` that are not a consequence of them. A step touches one stack and
one end of the pipe, so the lemmas go by what it does: `StacksStep`,
`HolderKept` and `FrameKept` by what happens to a stack (`Pushed`, `Moved`,
`Popped`), `QuietStep` for steps that leave the pipe alone. `ConveyedInOrder`
hides an embedding of the lines accepted first into those on the terminal,
`OnTerminal(n)`; the proof gives it: a line that is shown extends it by the new
last position (`ShowConveyed`), any other keeps it. That nothing is overtaken
follows from the embedding, since a goroutine's lines enter the pipe in order
(`AppendedInOrder`) and only those printed while the stop waits go around it
(`LinesAreDated`). `PrintsAndStopsGoOn` shows `NobodyIsStuck`: a full pipe
leaves the scanner something to read, and a dead scanner its file to be closed.

*Transport.* `TransportInv` is what the four properties need: the one open
answer; which layers trace (once one does all below it do, since the decision
depends on the configuration, which never goes away, and on the request);
`Settled`, that past the lowest tracing layer a rejection is one of an attempt
without headers; the body at hand on the way down; the freshness of ids; and
that an attempt with an id is recorded or about to be by the lowest layer.
`RepetitionEnds` gives the variant of a call: `Left(l)`, from 3 to 0, is what
layer `l` has still to do, and each step lowers it for one layer and keeps it
for those above, so that repeated attempts, which start the layers below anew,
come to an end.

*Calls.* `Inductive` is `CallsInv`, `SpansEndWithTheirCalls` and
`OneReportPerPanic`. `OpenSpans` says that a span is open as long as its call
is on the stack, the report included; `TrailIsRemembered`, that a message that
was reported or suppressed is in the ring for the functions further out unless
it was forgotten in between. `InstrumentationChangesNothing` is the
refinement: every action maps to the action of `PlainCalls` of the same name,
the leaving actions to `Leave`, and the build, the report and `Forget` to a
stutter.

*Left to TLC.* Liveness under fairness, since no prover here handles
`ENABLED`: `ShutdownReturns`, `FullQueueDrains`, `PartialBatchIsFlushed`,
`ExpiresWhileConnected`, `StopReturns`, `UplinkStops`, `EventsAreFlushed`,
`OutputCallsReturn` and `AnsweredCallReturns`. Every other property of a passing
run is stated by a theorem. `ShutdownIsBounded`, `UplinkWindsDown`,
`NobodyIsStuck`, `AttemptsEnd` and `PostedEventsTellSets`, which no run names,
are what can be proved towards four of those and of what the account is for; TLC
finds no violation of them on the instances of the runs.
Theorems about `DrainNeverBlocks`, `PostedInOrder`,
`NoPostAfterShutdown`, `BudgetNotOverrun` and `OnlyGatedMatchesAreDropped` are
kept although no run names them: each is a conjunct or a consequence of an
invariant or refinement that a run checks.

## Findings

1. `MCCaptureStops`. README.md:95: "Capture stops automatically on TTL/budget
   expiry or cancel." Only a cancel clears the rules (`uplink.go:249`); after a
   budget or the TTL has ended the session, `startSpanInternal` goes on
   elevating capture by the rules that are still armed.
2. `MCResponseBodyRestored`. network_transport.go:173: "Restore the body so the
   caller can still read it". What is restored is what was read, at most
   `responseBodyLimitBytes + 1` bytes (166): a longer text answer reaches the
   caller cut off without an error, and one whose body breaks is left closed.

## Observations

What the models showed besides, in the order of the modules. No run is kept for
these:

* While the uplink is disconnected a session whose time is over stays active:
  the pump that expires it lives with the connection (`uplink.go:190-201`).
* A directive handled between `stopUplink`'s test for a session (308) and the
  closing of `quit` (311) activates a session that nobody ends.
* `Shutdown` does not flush the debounced attribution events, and
  `FlushUserAttribution` before configuration takes and discards them.
* The clear of a nested `Middleware` removes the outer one's registration: what
  the outer handler logs afterwards without its context has no trace.
* A panic that an instrumented function or `veritasgin.Middleware` has reported
  and `Middleware` recovers is reported twice: the second report bypasses the
  ring (`exception_handler.go:329-374`). No hop is recorded for it.
* A captured print never has the trace of its request: its session is looked up
  with `context.Background()` on the scanner's goroutine
  (`print_capture.go:65`). The comments say that a handler's `fmt.Println`
  "correlates to this request" (`network_middleware.go:103-106`) and name prints
  among what the goroutine's registration is for (`goroutine_local.go:9-20`,
  `context.go:105-109`). That goroutines a handler starts have no registration
  is said (`goroutine_local.go:22-26`); that the scanner is one is not.
* The ring records a message before a post that may drop it, and is shared by
  all requests: the same error of two requests within five seconds is sent once.
* A chain of inheriting spans goes on elevating after the rules were cleared.
* A line of more than 1 MB ends the scanner; later prints fail with `EPIPE`.
* When `os.Pipe` has failed, `stopPrintCapture` closes the real standard output.
* After a signal the SDK is flushed but the process goes on, and what is posted
  then goes into the abandoned channel.
* `stopUplink` is "bounded to ~2s" (`uplink.go:302`), but that is the wait for
  the goroutine: before it, `funcspanSessionDeactivate` runs the callback that
  writes to the socket, with a timeout of 5 s (296).
* Attribution events are enqueued after the unlock (`user_attribution.go:122`,
  `150`): an interval's end can be posted before its start, so the intervals of
  line 13 do not always replay in order.
* `inLogCapture` is one flag for the process (`log_handler.go:44`): a record
  that another goroutine logs while one is captured goes to the original handler
  only, though 26-27 say that all records are forwarded to both.
* Nothing waits for the scanner when `main` returns; only the signal goroutine
  stops print capture (`sfveritas.go:106`). Lines still in the pipe are lost to
  the terminal too (`print_capture.go:19`, `23`).
* Two layers of transport record a call twice and may repeat it three times, and
  n layers 2^n - 1 times, whatever its method; a second `SetupInterceptors` puts
  one transport, and one log handler, around another.
* `Trace` writes into the caller's request: a request object that is used again
  for an excluded domain still carries the last call's headers, and a retry
  deletes an override header that the caller had set.
* A body that cannot be read is replaced by an empty one: the server gets a
  request that the application never made, where the transport would have
  failed.
* The instrumenter writes code that does not compile for a result or a
  `context.Context` parameter called `_`, for a type of the user's called
  `Context`, and in a file that imports `sfveritas` under another name or for
  its side effects; `main.go:17` says that it never emits uncompilable code. A
  package that the compiler is told is `main` is skipped, and so are modules
  whose path begins like a package of the standard library's (`os`, `io`,
  `time`, `sync`...).
* `TraceFunc` does not end its span on a panic or `Goexit`; an error that goes
  up through several `TraceFunc`s is reported once if each returns it as it is,
  and at each level if each wraps it; a panic that is re-panicked with another
  message is a new one to the ring.
* `Middleware` recovers `http.ErrAbortHandler` like any panic: it is reported
  and answered with a 500.

## Plan

Done, in this order: transmitter, session, uplink, attribution, function spans
with rules and `.sailfish`, request scope with exceptions, output capture,
outbound transport, instrumenter and instrumented calls; and the proofs of all
of them.

1. Modules: the messages of the uplink (`rulesAck` against `sessionExpired`,
   expiries that are not sent); set-up and the signal goroutine composed with
   the transmitter and output capture.
2. Proofs: an abstract specification of the print capture, a FIFO with a stop,
   and its refinement by `OutputCapture`; the same for the ring of
   `RequestScope`.

## Not modelled

Service identification and metadata: one message at start-up, straight-line
look-ups, no state. The UUID pool: a channel that a goroutine refills and that
every caller can do without, so any interleaving yields a fresh id; the models
take ids as fresh. GraphQL texts, JSON encoding and truncation of values, URL
and query-string building, the parsers of `.sailfish` and of conditions, and the
syntax trees of the instrumenter beyond the traits that decide what it does:
data. The benchmarks. `PROJECT.json` lists every part with its status.
