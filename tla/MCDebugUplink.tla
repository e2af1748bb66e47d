---- MODULE MCDebugUplink ----
(***************************************************************************)
(* One worker, one pump and one Shutdown; two sessions that the first tick *)
(* ends, one with a budget of one span, the other unlimited.               *)
(***************************************************************************)
EXTENDS DebugUplink

CONSTANTS s1, s2

Budgeted == [id |-> s1, expires |-> 1, maxSpans |-> 1, maxBytes |-> 0]
Unlimited == [id |-> s2, expires |-> 1, maxSpans |-> 0, maxBytes |-> 0]

\* Two ids, either of which may supersede the other or be sent again.
TwoSessions == {Budgeted, Unlimited}
==============================
