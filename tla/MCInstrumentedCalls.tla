------------------------- MODULE MCInstrumentedCalls -------------------------
(***************************************************************************)
(* A program of two packages.  The module's own has three files, any of    *)
(* which may fail to be rewritten; if the one with "odd" does not fail,    *)
(* there is no program.  The dependency's never is.  "work" and "step" can *)
(* have spans; "work" recovers, then changes its result, and "lib" has a   *)
(* deferred function that panics.                                          *)
(***************************************************************************)
EXTENDS InstrumentedCalls, TLC

PlainShape == [name |-> "other", statements |-> 2, context |-> "named", results |-> "named"]

Program ==
    [work |-> PlainShape,
     step |-> [PlainShape EXCEPT !.context = "unnamed", !.results = "none"],
     odd |-> [PlainShape EXCEPT !.context = "blank"],
     lib |-> PlainShape]

Own == [path |-> "module", resolves |-> TRUE,
        files |-> {[imports |-> "plain", cgo |-> FALSE, funcs |-> {"work"}],
                   [imports |-> "no", cgo |-> FALSE, funcs |-> {"step"}],
                   [imports |-> "no", cgo |-> FALSE, funcs |-> {"odd"}]}]
Dependency == [path |-> "dependency", resolves |-> TRUE,
               files |-> {[imports |-> "plain", cgo |-> FALSE, funcs |-> {"lib"}]}]
TwoPackages == {Own, Dependency}

Builds == {[include |-> {}, gomod |-> TRUE]}

DeferredFuncs ==
    [fn \in AllFuncs |->
        CASE fn = "work" -> <<"alter", "recover">>
          [] fn = "lib" -> <<"panic">>
          [] OTHER -> <<>>]

CONSTANTS g1, g2

\* g1 serves a request; g2 is a goroutine that panics with the same message.
RootFuncs == [g \in {g1, g2} |-> IF g = g1 THEN {"Middleware"} ELSE {"step"}]
CallGraph ==
    [fn \in AllFuncs |->
        CASE fn = "Middleware" -> {"work"}
          [] fn = "work" -> {"TraceFunc", "lib", "step"}
          [] fn \in {"TraceFunc", "lib"} -> {"step"}
          [] OTHER -> {}]
=============================================================================
