------------------------------ MODULE PlainCalls ------------------------------
(***************************************************************************)
(* What the calls of a program do when nothing is instrumented: functions  *)
(* call, return, panic and run their deferred functions, last first.  This *)
(* is what instrumentation promises not to change.                         *)
(*                                                                         *)
(* TraceFunc is a function that calls another.  Middleware is in the       *)
(* program either way, and recovers.  Methods of the program that the      *)
(* instrumentation calls by itself, such as String and Error on the values *)
(* it reports, are taken to return and to change nothing.                  *)
(***************************************************************************)
EXTENDS Naturals, Sequences

CONSTANTS
    Goroutines,
    Funcs,
    Deferred,       \* the deferred functions of each function, in order
    Values, Messages,
    Goexit,         \* runtime.Goexit unwinds too, and cannot be recovered
    None,           \* no result, nothing that unwinds
    Roots,          \* the functions each goroutine may start with
    Callees         \* the functions each function may call

VARIABLES
    stack,          \* the calls of each goroutine, innermost last
    unwinding,      \* the panic, or Goexit, that unwinds it
    exited          \* the goroutines that Goexit ends

vars == <<stack, unwinding, exited>>

Outcomes == Values \cup Messages
Top(g) == stack[g][Len(stack[g])]
Running(g) ==
    /\ unwinding[g] = None
    /\ stack[g] # <<>> => ~Top(g).exiting
\* A panic that is recovered leaves Goexit to go on, if it came on top of it.
Recovered(g) == IF g \in exited THEN Goexit ELSE None
SetTop(g, frame) == [stack EXCEPT ![g] = [@ EXCEPT ![Len(@)] = frame]]

Init ==
    /\ stack = [g \in Goroutines |-> <<>>]
    /\ unwinding = [g \in Goroutines |-> None]
    /\ exited = {}

\* A function has registered some of its deferred functions when it exits.
Call(g, fn, k) ==
    /\ Running(g)
    /\ fn \in IF stack[g] = <<>> THEN Roots[g] ELSE Callees[Top(g).fn]
    /\ stack' = [stack EXCEPT ![g] = Append(@,
           [fn |-> fn, exiting |-> FALSE, value |-> None,
            defers |-> SubSeq(Deferred[fn], 1, k)])]
    /\ UNCHANGED <<unwinding, exited>>

Exit(g, v, u) ==
    /\ Running(g) /\ stack[g] # <<>>
    /\ stack' = SetTop(g, [Top(g) EXCEPT !.exiting = TRUE, !.value = v])
    /\ unwinding' = [unwinding EXCEPT ![g] = u]
    /\ exited' = IF u = Goexit THEN exited \cup {g} ELSE exited

Return(g, v) == Exit(g, v, None)
Panic(g, m) == Exit(g, None, m)
CallGoexit(g) == Exit(g, None, Goexit)

\* A deferred function may recover, and then decides the result; it may change
\* the result anyway; or it may panic itself, also while Goexit unwinds.
RunDeferred(g, v, m) ==
    /\ stack[g] # <<>> /\ Top(g).exiting /\ Top(g).defers # <<>>
    /\ LET d == Top(g).defers[Len(Top(g).defers)]
           recovers == d = "recover" /\ unwinding[g] \in Messages
           panics == d = "panic"
       IN  /\ stack' = SetTop(g, [Top(g) EXCEPT
                  !.value = IF recovers \/ d = "alter" THEN v ELSE @,
                  !.defers = SubSeq(@, 1, Len(@) - 1)])
           /\ unwinding' = [unwinding EXCEPT
                  ![g] = IF recovers THEN Recovered(g) ELSE IF panics THEN m ELSE @]
    /\ UNCHANGED exited

\* The call is over. What unwinds goes on in the caller.
Leave(g) ==
    /\ stack[g] # <<>> /\ Top(g).exiting /\ Top(g).defers = <<>>
    /\ LET u == IF Top(g).fn = "Middleware" THEN Recovered(g) ELSE unwinding[g]
           rest == SubSeq(stack[g], 1, Len(stack[g]) - 1)
       IN  /\ stack' = [stack EXCEPT ![g] =
                  IF u = None \/ rest = <<>> THEN rest
                  ELSE [rest EXCEPT ![Len(rest)].exiting = TRUE, ![Len(rest)].value = None]]
           /\ unwinding' = [unwinding EXCEPT ![g] = u]
    /\ UNCHANGED exited

\* net/http recovers, or the goroutine is gone.
Bottom(g) ==
    /\ stack[g] = <<>> /\ unwinding[g] # None
    /\ unwinding' = [unwinding EXCEPT ![g] = None]
    /\ exited' = exited \ {g}
    /\ UNCHANGED stack

Next ==
    \E g \in Goroutines :
        \/ \E fn \in Funcs : \E k \in 0..Len(Deferred[fn]) : Call(g, fn, k)
        \/ \E v \in Outcomes : Return(g, v)
        \/ \E m \in Messages : Panic(g, m)
        \/ CallGoexit(g)
        \/ \E v \in Outcomes, m \in Messages : RunDeferred(g, v, m)
        \/ Leave(g)
        \/ Bottom(g)

Spec == Init /\ [][Next]_vars

=============================================================================
