--------------------------- MODULE UserAttribution ---------------------------
(***************************************************************************)
(* The user-attribution API of user_attribution.go.  A call changes the    *)
(* set of active users of a trace under uaActiveMu and, after the unlock,  *)
(* enqueues one event per user it added or removed, each under uaBufMu.    *)
(* The first event arms a debounce timer; the timer, or an explicit        *)
(* FlushUserAttribution, drains the buffer and posts it as one mutation.   *)
(***************************************************************************)
EXTENDS Naturals, Sequences, FiniteSets

CONSTANTS
    Goroutines,     \* application goroutines
    Timers,         \* goroutines that run an expired debounce timer
    Traces,         \* trace (session) ids
    Users,          \* normalised, non-empty user ids
    MaxCalls        \* bound on the calls of the application

ASSUME MaxCallsAssumption == MaxCalls \in Nat

VARIABLES
    uaActive,       \* the active users of each trace
    uaBuffer,       \* the buffered events
    timer,          \* uaFlushTimer: nil, armed, or expired and not yet drained
    configured,     \* getConfig() # nil
    op,             \* what each goroutine is doing
    calls,          \* how many calls the application has made
    early,          \* history: events in the buffer from before configuration
    posted,         \* history: the events handed to nonBlockingPost, in order
    dropped         \* history: the events a flush without configuration lost

vars == <<uaActive, uaBuffer, timer, configured, op, calls, early, posted,
          dropped>>

Threads == Goroutines \cup Timers
Events == [trace: Traces, user: Users, action: {"add", "end"}]
Event(t, u, a) == [trace |-> t, user |-> u, action |-> a]

Idle == [pc |-> "idle"]
SetOp(t, keep, join) == [pc |-> "set", trace |-> t, keep |-> keep, join |-> join]
EmitOp(t, adds, ends) == [pc |-> "emit", trace |-> t, adds |-> adds, ends |-> ends]
DrainOp == [pc |-> "drain"]
PostOp(es) == [pc |-> "post", events |-> es]

\* What a goroutine has in hand: nothing, a set to change, events to enqueue, a
\* buffer to take, or a batch to post.
Ops ==
    {Idle, DrainOp}
    \cup [pc : {"set"}, trace : Traces, keep : SUBSET Users, join : SUBSET Users]
    \cup [pc : {"emit"}, trace : Traces, adds : SUBSET Users, ends : SUBSET Users]
    \cup [pc : {"post"}, events : Seq(Events)]

TypeOK ==
    /\ uaActive \in [Traces -> SUBSET Users]
    /\ uaBuffer \in Seq(Events)
    /\ timer \in {"nil", "armed", "expired"}
    /\ configured \in BOOLEAN
    /\ op \in [Threads -> Ops]
    /\ calls \in 0..MaxCalls
    /\ early \in 0..Len(uaBuffer)
    /\ posted \in Seq(Events)
    /\ dropped \in Seq(Events)

Init ==
    /\ uaActive = [t \in Traces |-> {}]
    /\ uaBuffer = <<>>
    /\ timer = "nil"
    /\ configured = FALSE
    /\ op = [g \in Threads |-> Idle]
    /\ calls = 0
    /\ early = 0
    /\ posted = <<>>
    /\ dropped = <<>>

-----------------------------------------------------------------------------

Configure ==
    /\ ~configured
    /\ configured' = TRUE
    /\ UNCHANGED <<uaActive, uaBuffer, timer, op, calls, early, posted, dropped>>

\* A call outside a trace, or for an empty user id, is a no-op and not shown.
Call(g, o) ==
    /\ calls < MaxCalls
    /\ op[g] = Idle
    /\ op' = [op EXCEPT ![g] = o]
    /\ calls' = calls + 1
    /\ UNCHANGED <<uaActive, uaBuffer, timer, configured, early, posted, dropped>>

\* The new active set keeps the users in `keep` and gains those in `join`.
AddActiveUser(g, t, u) == Call(g, SetOp(t, Users, {u}))
RemoveActiveUser(g, t, u) == Call(g, SetOp(t, Users \ {u}, {}))
SetActiveUsers(g, t, us) == Call(g, SetOp(t, us, us))
ClearActiveUsers(g, t) == Call(g, SetOp(t, {}, {}))
FlushUserAttribution(g) == Call(g, DrainOp)

\* Mutant: adding a user who is active is reported again.
ChangeSetNoDiff(g) ==
    LET t == op[g].trace
        new == (uaActive[t] \cap op[g].keep) \cup op[g].join
        adds == op[g].join
        ends == uaActive[t] \ new
    IN
    /\ op[g].pc = "set"
    /\ uaActive' = [uaActive EXCEPT ![t] = new]
    /\ op' = [op EXCEPT ![g] = IF adds \cup ends = {} THEN Idle
                               ELSE EmitOp(t, adds, ends)]
    /\ UNCHANGED <<uaBuffer, timer, configured, calls, early, posted, dropped>>

\* The section under uaActiveMu: what changed is remembered for the events.
ChangeSet(g) ==
    LET t == op[g].trace
        new == (uaActive[t] \cap op[g].keep) \cup op[g].join
        adds == new \ uaActive[t]
        ends == uaActive[t] \ new
    IN
    /\ op[g].pc = "set"
    /\ uaActive' = [uaActive EXCEPT ![t] = new]
    /\ op' = [op EXCEPT ![g] = IF adds \cup ends = {} THEN Idle
                               ELSE EmitOp(t, adds, ends)]
    /\ UNCHANGED <<uaBuffer, timer, configured, calls, early, posted, dropped>>

\* Mutant: only the first event of a buffer arms the timer.
EnqueueArmsOnFirst(e) ==
    /\ uaBuffer' = Append(uaBuffer, e)
    /\ timer' = IF uaBuffer = <<>> /\ configured THEN "armed" ELSE timer
    /\ early' = IF configured THEN early ELSE early + 1

\* uaEmit: append the event and arm the timer if there is none, once the SDK
\* is configured.
Enqueue(e) ==
    /\ uaBuffer' = Append(uaBuffer, e)
    /\ timer' = IF timer = "nil" /\ configured THEN "armed" ELSE timer
    /\ early' = IF configured THEN early ELSE early + 1

\* The adds of a call are emitted before its ends, in any order each (Go maps).
Emit(g) ==
    /\ op[g].pc = "emit"
    /\ \E u \in IF op[g].adds # {} THEN op[g].adds ELSE op[g].ends :
          LET adds == op[g].adds \ {u}
              ends == IF op[g].adds = {} THEN op[g].ends \ {u} ELSE op[g].ends
          IN
          /\ Enqueue(Event(op[g].trace, u, IF op[g].adds # {} THEN "add" ELSE "end"))
          /\ op' = [op EXCEPT ![g] = IF adds \cup ends = {} THEN Idle
                                     ELSE EmitOp(op[g].trace, adds, ends)]
    /\ UNCHANGED <<uaActive, configured, calls, posted, dropped>>

\* time.AfterFunc starts a goroutine; the timer stays non-nil until a drain.
TimerExpires(f) ==
    /\ timer = "armed"
    /\ op[f] = Idle
    /\ timer' = "expired"
    /\ op' = [op EXCEPT ![f] = DrainOp]
    /\ UNCHANGED <<uaActive, uaBuffer, configured, calls, early, posted, dropped>>

\* Mutant: the expired timer is not forgotten.
DrainKeepsTimer(g) ==
    /\ op[g].pc = "drain"
    /\ uaBuffer' = <<>>
    /\ early' = 0
    /\ op' = [op EXCEPT ![g] = IF uaBuffer # <<>> /\ configured
                               THEN PostOp(uaBuffer) ELSE Idle]
    /\ dropped' = IF configured THEN dropped ELSE dropped \o uaBuffer
    /\ UNCHANGED <<uaActive, timer, configured, calls, posted>>

\* uaDrain stops the timer, whoever armed it, and takes the whole buffer; a
\* flush without configuration then gives up what it has taken.
Drain(g) ==
    /\ op[g].pc = "drain"
    /\ timer' = "nil"
    /\ uaBuffer' = <<>>
    /\ early' = 0
    /\ op' = [op EXCEPT ![g] = IF uaBuffer # <<>> /\ configured
                               THEN PostOp(uaBuffer) ELSE Idle]
    /\ dropped' = IF configured THEN dropped ELSE dropped \o uaBuffer
    /\ UNCHANGED <<uaActive, configured, calls, posted>>

\* nonBlockingPost of the batch.
Post(g) ==
    /\ op[g].pc = "post"
    /\ posted' = posted \o op[g].events
    /\ op' = [op EXCEPT ![g] = Idle]
    /\ UNCHANGED <<uaActive, uaBuffer, timer, configured, calls, early, dropped>>

Continue(g) == ChangeSet(g) \/ Emit(g) \/ Drain(g) \/ Post(g)

Next ==
    \/ Configure
    \/ \E g \in Goroutines, t \in Traces :
          \/ \E u \in Users : AddActiveUser(g, t, u) \/ RemoveActiveUser(g, t, u)
          \/ \E us \in SUBSET Users : SetActiveUsers(g, t, us)
          \/ ClearActiveUsers(g, t)
    \/ \E g \in Goroutines : FlushUserAttribution(g)
    \/ \E f \in Timers : TimerExpires(f)
    \/ \E g \in Threads : Continue(g)

Spec == Init /\ [][Next]_vars

\* Calls in progress go on and an armed timer expires; nothing else is owed.
FairSpec ==
    /\ Spec
    /\ \A g \in Threads : WF_vars(Continue(g))
    /\ WF_vars(\E f \in Timers : TimerExpires(f))

-----------------------------------------------------------------------------
(* Properties.                                                             *)

\* Where, and so how often, event e occurs in the sequence s.
Places(s, e) == {k \in 1..Len(s) : s[k] = e}
Occurs(s, e) == Cardinality(Places(s, e))

\* Goroutine g has still to emit event e.
HasToEmit(g, e) ==
    /\ op[g].pc = "emit"
    /\ op[g].trace = e.trace
    /\ e.user \in IF e.action = "add" THEN op[g].adds ELSE op[g].ends

\* Each time that goroutine g has event e in hand, to emit it or to post it.
Hand(g, e) ==
    IF HasToEmit(g, e) THEN {0}
    ELSE IF op[g].pc = "post" THEN Places(op[g].events, e) ELSE {}
InHand(e) == UNION {{g} \X Hand(g, e) : g \in Threads}

Emitted(e) ==
    Occurs(posted, e) + Occurs(uaBuffer, e) + Occurs(dropped, e)
        + Cardinality(InHand(e))

\* The events account for the active sets: in the buffer, on their way and
\* posted together there is one add more than ends for each active user, and
\* as many of both for the others, however calls, timers and flushes overlap.
EventsAccountForSets ==
    \A t \in Traces, u \in Users :
        Emitted(Event(t, u, "add")) =
            Emitted(Event(t, u, "end")) + (IF u \in uaActive[t] THEN 1 ELSE 0)

\* So once nothing is under way any more, and unless events were dropped, the
\* events posted alone tell which users are active: the flushes have left
\* nothing behind, and posted nothing twice.
AtRest ==
    /\ uaBuffer = <<>> /\ dropped = <<>>
    /\ \A g \in Threads : op[g].pc \notin {"emit", "post"}
PostedEventsTellSets ==
    AtRest =>
        \A t \in Traces, u \in Users :
            Occurs(posted, Event(t, u, "add")) =
                Occurs(posted, Event(t, u, "end")) + (IF u \in uaActive[t] THEN 1 ELSE 0)

\* No event that was enqueued by a configured SDK waits without a timer,
\* although a late timer goroutine may stop the timer of a later event.
BufferedEventsHaveTimer ==
    /\ Len(uaBuffer) > early => timer # "nil"
    /\ timer = "expired" => \E f \in Threads : op[f].pc = "drain"

\* The buffer: types, and no event without a timer.
BufferInv == TypeOK /\ BufferedEventsHaveTimer

\* The inductive invariant; only finitely many events are in hand.
AttributionInv ==
    /\ BufferInv
    /\ EventsAccountForSets
    /\ \A e \in Events : IsFiniteSet(InHand(e))

\* They are flushed without any further call.
EventsAreFlushed == Len(uaBuffer) > early ~> uaBuffer = <<>>

=============================================================================
