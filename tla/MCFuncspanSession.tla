---- MODULE MCFuncspanSession ----
(***************************************************************************)
(* Two workers race for the budgets, a pump and a stopper for the session. *)
(* Each id comes with a span budget, with an unlimited span budget and a   *)
(* byte budget, and with a smaller span budget and a later expiry, so that *)
(* updates extend, shrink and lift what was granted before.                *)
(***************************************************************************)
EXTENDS FuncspanSession, TLC

Offers == {[expires |-> 1, maxSpans |-> 2, maxBytes |-> 0],
           [expires |-> 1, maxSpans |-> 0, maxBytes |-> 2],
           [expires |-> 2, maxSpans |-> 1, maxBytes |-> 0]}

MCDirectives ==
    {[id |-> s, expires |-> o.expires, maxSpans |-> o.maxSpans, maxBytes |-> o.maxBytes] :
        s \in SessionIDs, o \in Offers}

Symmetry == Permutations(Workers) \cup Permutations(SessionIDs)
==================================
