--------------------------- MODULE FuncspanSession ---------------------------
(***************************************************************************)
(* The process-wide debug session of funcspan_session.go.  The uplink's    *)
(* reader activates, updates, supersedes or cancels it; Span.End charges   *)
(* spans to it from any goroutine and ends it when a budget is used up;    *)
(* the TTL pump ends it when its time is over; Shutdown ends it too.       *)
(*                                                                         *)
(* An operation is two or three steps of its goroutine: the test it makes  *)
(* before it takes sessionMu (stale by the time it holds the lock), the    *)
(* critical section, and the deactivate callback, which runs after the     *)
(* unlock.  An incarnation is one life of a session, from the Store that   *)
(* makes it active to the one that removes it; `active` is the pointer.    *)
(***************************************************************************)
EXTENDS Naturals

CONSTANTS
    Reader,         \* the uplink goroutine (read loop of connectAndRun)
    Workers,        \* application goroutines that end spans
    Pumps,          \* TTL pumps (one per connection; an old one may linger)
    Stoppers,       \* goroutines inside Shutdown
    SessionIDs,     \* the session ids the backend uses
    Directives,     \* what the backend asks for: id, expiry and budgets
    Sizes,          \* payload sizes of spans
    MaxTime,        \* bound on the clock
    MaxGen,         \* bound on the number of incarnations
    MaxCharged      \* bound on the spans charged to one incarnation

Goroutines == {Reader} \cup Workers \cup Pumps \cup Stoppers
Gens == 1..MaxGen

\* A budget of 0 is unlimited.
ASSUME DirectivesAssumption ==
    /\ Directives # {}
    /\ Directives \subseteq
          [id: SessionIDs, expires: Nat, maxSpans: Nat, maxBytes: Nat]

ASSUME BoundsAssumption ==
    /\ Sizes \subseteq Nat
    /\ MaxTime \in Nat
    /\ MaxGen \in Nat
    /\ MaxCharged \in Nat

VARIABLES
    active,     \* the active incarnation, 0 for none (activeSession)
    gens,       \* how many incarnations there have been
    heap,       \* the session structs: directive and counters
    op,         \* the operation each goroutine is in
    now,        \* the clock, in ms
    charged,    \* history: the spans and bytes charged to each incarnation
    granted,    \* history: the largest budgets each incarnation was given
    report      \* history: the callbacks fired for each incarnation

svars == <<active, gens, heap, op, now, charged, granted, report>>

Budgets == {"span_budget", "payload_budget"}
Reasons == Budgets \cup {"ttl_expired", "superseded", "cancelled", "shutdown"}

Idle == [pc |-> "idle"]
ActivateOp(d) == [pc |-> "activate", dir |-> d]
DeactivateOp(r) == [pc |-> "deactivate", reason |-> r]
RecordOp(b) == [pc |-> "record", size |-> b]
TTLOp == [pc |-> "ttl"]

\* A callback to be fired, with the snapshot taken under the lock.
FireOp(r, s, b) ==
    [pc |-> "fire", gen |-> active, reason |-> r, spans |-> s, bytes |-> b]

FireOps == [pc: {"fire"}, gen: Gens, reason: Reasons, spans: Nat, bytes: Nat]
Ops == {Idle, TTLOp}
       \cup [pc: {"activate"}, dir: Directives]
       \cup [pc: {"deactivate"}, reason: {"cancelled", "shutdown"}]
       \cup [pc: {"record"}, size: Sizes]
       \cup FireOps

Counts == [spans: Nat, bytes: Nat]
NoCounts == [spans |-> 0, bytes |-> 0]
NoReport == [fired |-> 0, reason |-> "none", spans |-> 0, bytes |-> 0]

STypeOK ==
    /\ gens \in 0..MaxGen
    /\ active \in 0..gens
    /\ heap \in [Gens -> [dir: Directives, spans: Nat, bytes: Nat]]
    /\ op \in [Goroutines -> Ops]
    /\ now \in Nat
    /\ charged \in [Gens -> Counts]
    /\ granted \in [Gens -> Counts]
    /\ report \in [Gens -> [fired: Nat, reason: Reasons \cup {"none"},
                            spans: Nat, bytes: Nat]]

SInit ==
    /\ active = 0
    /\ gens = 0
    /\ heap = [k \in Gens |-> [dir |-> CHOOSE d \in Directives : TRUE,
                               spans |-> 0, bytes |-> 0]]
    /\ op = [g \in Goroutines |-> Idle]
    /\ now = 0
    /\ charged = [k \in Gens |-> NoCounts]
    /\ granted = [k \in Gens |-> NoCounts]
    /\ report = [k \in Gens |-> NoReport]

-----------------------------------------------------------------------------

Tick ==
    /\ now < MaxTime
    /\ now' = now + 1
    /\ UNCHANGED <<active, gens, heap, op, charged, granted, report>>

Begin(g, o) ==
    /\ op[g] = Idle
    /\ op' = [op EXCEPT ![g] = o]
    /\ UNCHANGED <<active, gens, heap, now, charged, granted, report>>

\* funcspanSessionActivate rejects a directive that has expired; the test is
\* made before the lock is taken and not again.
CallActivate(g, d) ==
    /\ gens < MaxGen
    /\ d.expires > now
    /\ Begin(g, ActivateOp(d))

\* The callers of funcspanSessionDeactivate, of recordSpanEmitted and
\* funcspanSessionCheckTTL first look for an active session without the lock.
CallDeactivate(g, r) == active # 0 /\ Begin(g, DeactivateOp(r))

CallRecord(g, b) ==
    /\ active # 0
    /\ charged[active].spans < MaxCharged
    /\ Begin(g, RecordOp(b))

CallCheckTTL(g) == active # 0 /\ Begin(g, TTLOp)

-----------------------------------------------------------------------------
(* The critical sections, under sessionMu.                                 *)

\* The larger of two budgets, where 0 is unlimited.
Wider(a, b) == IF a = 0 \/ b = 0 THEN 0 ELSE IF a >= b THEN a ELSE b

\* Mutant: the update builds the new struct without the counters.
UpdateInPlaceResets(g) ==
    LET d == op[g].dir IN
    /\ op[g].pc = "activate"
    /\ active # 0
    /\ heap[active].dir.id = d.id
    /\ heap' = [heap EXCEPT ![active] = [dir |-> d, spans |-> 0, bytes |-> 0]]
    /\ granted' = [granted EXCEPT ![active] =
                      [spans |-> Wider(@.spans, d.maxSpans),
                       bytes |-> Wider(@.bytes, d.maxBytes)]]
    /\ op' = [op EXCEPT ![g] = Idle]
    /\ UNCHANGED <<active, gens, now, charged, report>>

\* Mutant: the update finds the last session although it has ended.
UpdateInPlaceRevives(g) ==
    LET d == op[g].dir IN
    /\ op[g].pc = "activate"
    /\ gens # 0
    /\ heap[gens].dir.id = d.id
    /\ active' = gens
    /\ heap' = [heap EXCEPT ![gens] = [@ EXCEPT !.dir = d]]
    /\ granted' = [granted EXCEPT ![gens] =
                      [spans |-> Wider(@.spans, d.maxSpans),
                       bytes |-> Wider(@.bytes, d.maxBytes)]]
    /\ op' = [op EXCEPT ![g] = Idle]
    /\ UNCHANGED <<gens, now, charged, report>>

\* The same id: expiry and budgets are refreshed and the counters kept.
UpdateInPlace(g) ==
    LET d == op[g].dir IN
    /\ op[g].pc = "activate"
    /\ active # 0
    /\ heap[active].dir.id = d.id
    /\ heap' = [heap EXCEPT ![active] = [@ EXCEPT !.dir = d]]
    /\ granted' = [granted EXCEPT ![active] =
                      [spans |-> Wider(@.spans, d.maxSpans),
                       bytes |-> Wider(@.bytes, d.maxBytes)]]
    /\ op' = [op EXCEPT ![g] = Idle]
    /\ UNCHANGED <<active, gens, now, charged, report>>

\* Mutant: the superseded session is not reported.
StartNewSilently(g) ==
    LET d == op[g].dir IN
    /\ op[g].pc = "activate"
    /\ ~(active # 0 /\ heap[active].dir.id = d.id)
    /\ gens < MaxGen
    /\ gens' = gens + 1
    /\ active' = gens + 1
    /\ heap' = [heap EXCEPT ![gens + 1] = [dir |-> d, spans |-> 0, bytes |-> 0]]
    /\ granted' = [granted EXCEPT ![gens + 1] =
                      [spans |-> d.maxSpans, bytes |-> d.maxBytes]]
    /\ op' = [op EXCEPT ![g] = Idle]
    /\ UNCHANGED <<now, charged, report>>

\* Another id, or none: a new incarnation replaces the active one, whose
\* snapshot is reported after the unlock.
StartNew(g) ==
    LET d == op[g].dir IN
    /\ op[g].pc = "activate"
    /\ ~(active # 0 /\ heap[active].dir.id = d.id)
    /\ gens < MaxGen
    /\ gens' = gens + 1
    /\ active' = gens + 1
    /\ heap' = [heap EXCEPT ![gens + 1] = [dir |-> d, spans |-> 0, bytes |-> 0]]
    /\ granted' = [granted EXCEPT ![gens + 1] =
                      [spans |-> d.maxSpans, bytes |-> d.maxBytes]]
    /\ op' = [op EXCEPT ![g] =
                 IF active = 0 THEN Idle
                 ELSE FireOp("superseded", heap[active].spans, heap[active].bytes)]
    /\ UNCHANGED <<now, charged, report>>

\* Mutant: the callback is fired without looking at the pointer again.
DeactivateAlways(g) ==
    /\ op[g].pc = "deactivate"
    /\ active' = 0
    /\ op' = [op EXCEPT ![g] =
                 IF active = 0 THEN FireOp(op[g].reason, 0, 0)
                 ELSE FireOp(op[g].reason, heap[active].spans, heap[active].bytes)]
    /\ UNCHANGED <<gens, heap, now, charged, granted, report>>

\* funcspanSessionDeactivate: another goroutine may have been first.
Deactivate(g) ==
    /\ op[g].pc = "deactivate"
    /\ active' = 0
    /\ op' = [op EXCEPT ![g] =
                 IF active = 0 THEN Idle
                 ELSE FireOp(op[g].reason, heap[active].spans, heap[active].bytes)]
    /\ UNCHANGED <<gens, heap, now, charged, granted, report>>

\* Why a session with these counters must end, if it must.
BudgetReason(d, s, b) ==
    IF d.maxSpans > 0 /\ s >= d.maxSpans THEN "span_budget"
    ELSE IF d.maxBytes > 0 /\ b >= d.maxBytes THEN "payload_budget"
    ELSE "none"

\* recordSpanEmitted charges whichever session is active now.
RecordSpan(g) ==
    LET s == heap[active].spans + 1
        b == heap[active].bytes + op[g].size
        why == BudgetReason(heap[active].dir, s, b)
    IN
    /\ op[g].pc = "record"
    /\ active # 0
    /\ heap' = [heap EXCEPT ![active] = [@ EXCEPT !.spans = s, !.bytes = b]]
    /\ charged' = [charged EXCEPT ![active] =
                      [spans |-> @.spans + 1, bytes |-> @.bytes + op[g].size]]
    /\ active' = IF why = "none" THEN active ELSE 0
    /\ op' = [op EXCEPT ![g] = IF why = "none" THEN Idle ELSE FireOp(why, s, b)]
    /\ UNCHANGED <<gens, now, granted, report>>

\* The session was gone when the lock was taken.
RecordNothing(g) ==
    /\ op[g].pc = "record"
    /\ active = 0
    /\ op' = [op EXCEPT ![g] = Idle]
    /\ UNCHANGED <<active, gens, heap, now, charged, granted, report>>

\* Mutant: the pump compares with the time limit before it takes the lock only.
CheckTTLUnchecked(g) ==
    /\ op[g].pc = "ttl"
    /\ active' = 0
    /\ op' = [op EXCEPT ![g] =
                 IF active # 0
                 THEN FireOp("ttl_expired", heap[active].spans, heap[active].bytes)
                 ELSE Idle]
    /\ UNCHANGED <<gens, heap, now, charged, granted, report>>

\* funcspanSessionCheckTTL looks at the session that is active now.
CheckTTL(g) ==
    LET over == active # 0 /\ now >= heap[active].dir.expires IN
    /\ op[g].pc = "ttl"
    /\ active' = IF over THEN 0 ELSE active
    /\ op' = [op EXCEPT ![g] =
                 IF over
                 THEN FireOp("ttl_expired", heap[active].spans, heap[active].bytes)
                 ELSE Idle]
    /\ UNCHANGED <<gens, heap, now, charged, granted, report>>

\* fireDeactivate calls the callback, outside the lock.
Fire(g) ==
    /\ op[g].pc = "fire"
    /\ report' = [report EXCEPT ![op[g].gen] =
                     [fired |-> @.fired + 1, reason |-> op[g].reason,
                      spans |-> op[g].spans, bytes |-> op[g].bytes]]
    /\ op' = [op EXCEPT ![g] = Idle]
    /\ UNCHANGED <<active, gens, heap, now, charged, granted>>

\* The rest of a call, once it has begun.
Finish(g) ==
    \/ UpdateInPlace(g) \/ StartNew(g) \/ Deactivate(g)
    \/ RecordSpan(g) \/ RecordNothing(g) \/ CheckTTL(g) \/ Fire(g)

SNext ==
    \/ Tick
    \/ \E d \in Directives : CallActivate(Reader, d)
    \/ CallDeactivate(Reader, "cancelled")
    \/ \E g \in Workers, b \in Sizes : CallRecord(g, b)
    \/ \E g \in Pumps : CallCheckTTL(g)
    \/ \E g \in Stoppers : CallDeactivate(g, "shutdown")
    \/ \E g \in Goroutines : Finish(g)

SSpec == SInit /\ [][SNext]_svars

-----------------------------------------------------------------------------
(* Properties.                                                             *)

\* Goroutine g is about to fire the callback of incarnation k.
Pending(g, k) == op[g].pc = "fire" /\ op[g].gen = k

\* "fires the deactivate callback exactly once": an incarnation is active, or
\* its callback is on its way in exactly one goroutine, or it has been fired
\* once; budget, TTL, cancel, supersede and shutdown may race for it.
EndedExactlyOnce ==
    \A k \in 1..gens :
        /\ report[k].fired <= 1
        /\ k = active => report[k].fired = 0
        /\ k = active \/ report[k].fired = 1 => \A g \in Goroutines : ~Pending(g, k)
        /\ k # active /\ report[k].fired = 0 => \E g \in Goroutines : Pending(g, k)
        /\ \A g, h \in Goroutines : Pending(g, k) /\ Pending(h, k) => g = h

\* "with a final snapshot": what the callback says, and will say, of an
\* incarnation is everything ever charged to it, whatever was in flight.
SnapshotIsFinal ==
    /\ \A k \in 1..gens : report[k].fired # 0 =>
          report[k].spans = charged[k].spans /\ report[k].bytes = charged[k].bytes
    /\ \A g \in Goroutines : op[g].pc = "fire" =>
          /\ op[g].spans = charged[op[g].gen].spans
          /\ op[g].bytes = charged[op[g].gen].bytes

\* No incarnation is charged more spans than the largest span budget it was
\* ever given, even when an update shrinks the budget below what is used up;
\* the byte budget is overrun by less than one span.
BudgetNotOverrun ==
    \A k \in 1..gens :
        /\ granted[k].spans # 0 => charged[k].spans <= granted[k].spans
        /\ granted[k].bytes # 0 /\ charged[k].spans # 0 =>
              \E b \in Sizes : charged[k].bytes < granted[k].bytes + b

\* Reason r is true of what incarnation k was last asked for and charged.
ReasonHolds(k, r) ==
    LET d == heap[k].dir IN
    /\ r = "ttl_expired" => now >= d.expires
    /\ r = "span_budget" => d.maxSpans # 0 /\ charged[k].spans >= d.maxSpans
    /\ r = "payload_budget" => d.maxBytes # 0 /\ charged[k].bytes >= d.maxBytes

\* The reason reported is true of the incarnation's last directive: no session
\* that was extended in time is expired, none with budget left is stopped.
ReasonIsTrue ==
    \A k \in 1..gens : report[k].fired # 0 => ReasonHolds(k, report[k].reason)

\* A span is charged only to the incarnation that is active, and an ended one
\* never becomes active again (a superseded id that returns starts afresh).
NoResurrection ==
    [][\A k \in 1..gens : k # active =>
          /\ active' # k
          /\ charged'[k] = charged[k]]_svars

-----------------------------------------------------------------------------
(* What the steps maintain, besides the properties themselves.             *)

\* Nothing is known of incarnations that have not begun.
Fresh == \A k \in Gens : k > gens => charged[k] = NoCounts /\ report[k].fired = 0

\* A callback on its way is of a known incarnation and has a true reason.
InFlight ==
    \A g \in Goroutines : op[g].pc = "fire" =>
        op[g].gen \in 1..gens /\ ReasonHolds(op[g].gen, op[g].reason)

\* The counters of the active struct account for every span charged to it,
\* and have room left in the widest budget it was given.
Counters ==
    active # 0 =>
        LET s == heap[active]  c == charged[active]  top == granted[active] IN
        /\ s.spans = c.spans
        /\ s.bytes = c.bytes
        /\ top.spans # 0 => /\ s.dir.maxSpans \in 1..top.spans
                            /\ c.spans < top.spans
        /\ top.bytes # 0 => /\ s.dir.maxBytes \in 1..top.bytes
                            /\ c.bytes < top.bytes

SessionInv ==
    /\ STypeOK
    /\ Fresh
    /\ InFlight
    /\ Counters
    /\ EndedExactlyOnce
    /\ SnapshotIsFinal
    /\ BudgetNotOverrun
    /\ ReasonIsTrue

=============================================================================
