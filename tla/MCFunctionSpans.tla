--------------------------- MODULE MCFunctionSpans ---------------------------
EXTENDS FunctionSpans, TLC

Entry(layer) == [layer |-> layer, kill |-> FALSE, rate |-> "all"]
Layer(flag, limit) ==
    [args |-> flag, ret |-> flag, argLimit |-> limit, retLimit |-> limit]
Full(flag, limit) ==
    Layer(flag, limit) @@ [parse |-> FALSE, children |-> TRUE]

HandlerSite == [func |-> "handler", file |-> "h.go"]
QuerySite == [func |-> "query", file |-> "q.go"]
MCSites == {HandlerSite, QuerySite}

\* The default configuration.
MCGlobals == {[layer |-> Full(FALSE, 1), rate |-> "all"]}

MCSailfishes ==
    {[functions |-> <<>>, files |-> {}, default |-> Entry(<<>>)],
     [functions |-> [f \in {"query"} |-> Entry(Layer(FALSE, 3) @@ [children |-> FALSE])],
      files |-> {[matches |-> {"h.go"}, entry |-> Entry([argLimit |-> 0])],
                 [matches |-> {"h.go", "q.go"},
                  entry |-> [layer |-> <<>>, kill |-> FALSE, rate |-> "some"]]},
      default |-> Entry(<<>>)]}

\* A header that contradicts the rules and the .sailfish entries, and leaves one
\* of the limits to them.
MCOverrides ==
    {[layer |-> [Full(FALSE, 4) EXCEPT !.retLimit = 0, !.parse = TRUE],
      kill |-> FALSE, rate |-> "all"]}

Rule(id, func, depth, pre, post, rate) ==
    [id |-> id, func |-> func, files |-> {"h.go", "q.go"}, anyOf |-> FALSE,
     layer |-> Layer(TRUE, 2), depth |-> depth, pre |-> pre, post |-> post,
     rate |-> rate]

\* No rules; a rule that propagates; the same id, with less depth and gated; and
\* a sampled rule before one that does not propagate.
MCRuleSets ==
    {<<>>,
     <<Rule("r1", "handler", 2, {}, {}, "all")>>,
     <<Rule("r1", "handler", 1, {}, {"slow"}, "all")>>,
     <<Rule("r1", "handler", 0, {}, {"slow"}, "some"), Rule("r2", "query", 1, {"slow"}, {}, "all")>>}
=============================================================================
