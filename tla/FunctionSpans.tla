---------------------------- MODULE FunctionSpans ----------------------------
(***************************************************************************)
(* Function spans (function_span.go) under the five layers that decide     *)
(* what is captured of a call: the global configuration, .sailfish         *)
(* (funcspan_config.go), the armed debug rules (funcspan_rules.go), what   *)
(* a parent's rule propagates (context.go), and the override header of     *)
(* the request.  Spans form trees through the contexts they hand to the    *)
(* calls they make, and the rules may be swapped while a tree grows.       *)
(*                                                                         *)
(* A layer is a function on the settings it speaks of.  A file pattern is  *)
(* the set of files it matches, a condition on the arguments or on the     *)
(* result a fact the call satisfies or not, and a sampling rate is "all",  *)
(* "none" or, when a random number decides, "some".                        *)
(***************************************************************************)
EXTENDS Naturals, Sequences, FiniteSets

CONSTANTS
    Sites,          \* where a span can start: records [func, file]
    Facts,          \* the conditions rules test
    RuleSets,       \* what the uplink may arm; <<>> when it clears the rules
    Overrides,      \* the override headers of requests
    Globals,        \* the global configurations
    Sailfishes,     \* the .sailfish files
    NoRule,         \* the rule id of a span that no rule matched
    NoOverride,     \* a context without a header
    MaxSpans        \* bound on the spans that are started

Limits == {"argLimit", "retLimit"}
RuleSettings == {"args", "ret"} \cup Limits
Settings == RuleSettings \cup {"parse", "children"}

\* The .sailfish entries of a file.
Entries(sf) ==
    {sf.functions[f] : f \in DOMAIN sf.functions}
        \cup {f.entry : f \in sf.files} \cup {sf.default}

ASSUME MaxSpansAssumption == MaxSpans \in Nat
ASSUME RulesAssumption ==
    \A rs \in RuleSets : \A k \in DOMAIN rs :
        rs[k].depth \in Nat /\ DOMAIN rs[k].layer \subseteq RuleSettings
ASSUME LayersAssumption ==
    /\ \A g \in Globals : DOMAIN g.layer = Settings
    /\ \A o \in Overrides : DOMAIN o.layer \subseteq Settings
    /\ \A sf \in Sailfishes : \A e \in Entries(sf) : DOMAIN e.layer \subseteq Settings

VARIABLES
    globalConfig,   \* [layer, rate]; does not change
    sailfish,       \* [functions, files, default]; does not change
    rules,          \* activeRuleSet: a sequence of compiled rules
    spans           \* every span that was started, in order

vars == <<globalConfig, sailfish, rules, spans>>

\* What the upper layer says, and for the rest what the lower one says.
Over(upper, lower) ==
    [x \in DOMAIN upper \cup DOMAIN lower |->
        IF x \in DOMAIN upper THEN upper[x] ELSE lower[x]]

\* A limit that is not positive says nothing.
Given(l) ==
    [x \in {y \in DOMAIN l : y \in Limits => l[y] > 0} |-> l[x]]

NoPropagation == [rule |-> NoRule, layer |-> <<>>, depth |-> 0, origin |-> 0]
Background(o) ==
    [current |-> 0, suppress |-> FALSE, override |-> o, prop |-> NoPropagation]

Init ==
    /\ globalConfig \in Globals
    /\ sailfish \in Sailfishes
    /\ rules = <<>>
    /\ spans = <<>>

-----------------------------------------------------------------------------
\* The layers.

\* getFuncspanConfig: one entry, never merged with a wider one.  Go visits the
\* file patterns in any order; a file without a matching entry says nothing.
SailfishEntries(site) ==
    LET files == {f \in sailfish.files : site.file \in f.matches}
    IN  IF site.func \in DOMAIN sailfish.functions
        THEN {sailfish.functions[site.func]}
        ELSE IF files # {} THEN {f.entry : f \in files}
             ELSE {sailfish.default}

Holds(conditions, anyOf, facts) ==
    \/ conditions = {}
    \/ IF anyOf THEN conditions \cap facts # {} ELSE conditions \subseteq facts

\* evaluateRulePreCall: the rules that match the call, in order.
Candidates(site, facts) ==
    {k \in DOMAIN rules : /\ rules[k].func = site.func
                          /\ site.file \in rules[k].files
                          /\ Holds(rules[k].pre, rules[k].anyOf, facts)}

\* The first candidate wins, except that sampling may pass over some.
MayMatch(k, site, facts) ==
    /\ k \in Candidates(site, facts)
    /\ \A j \in Candidates(site, facts) : j < k => rules[j].rate = "some"
MayMatchNone(site, facts) ==
    \A j \in Candidates(site, facts) : rules[j].rate = "some"

OverrideLayer(ctx) ==
    IF ctx.override = NoOverride THEN <<>> ELSE Given(ctx.override.layer)

\* As long as there is depth left to propagate, children are captured.
DepthLayer(push) == IF push.depth > 0 THEN [children |-> TRUE] ELSE <<>>

\* Mutant: the rule is applied last.
DecideRuleLast(ctx, sf, rule, push) ==
    Over(rule, Over(DepthLayer(push), Over(OverrideLayer(ctx),
         Over(sf.layer, globalConfig.layer))))

\* The header has the last word, also on children that should inherit a rule.
Decide(ctx, sf, rule, push) ==
    Over(OverrideLayer(ctx), Over(DepthLayer(push), Over(rule,
         Over(sf.layer, globalConfig.layer))))

-----------------------------------------------------------------------------
\* Starting a span.

Rates(ctx, sf) ==
    {globalConfig.rate, sf.rate}
        \cup (IF ctx.override = NoOverride THEN {} ELSE {ctx.override.rate})
Killed(ctx, sf) ==
    \/ ctx.suppress
    \/ ctx.override # NoOverride /\ ctx.override.kill
    \/ sf.kill

MayBeNoop(ctx, sf) == Killed(ctx, sf) \/ Rates(ctx, sf) # {"all"}

MayBeLive(ctx, sf) == ~Killed(ctx, sf) /\ "none" \notin Rates(ctx, sf)

\* The contexts a call can get: that of a request, with its header, or none
\* at all (StartSpanNoCtx), or that of a span; with the spans it was built on.
Callers ==
    {[ctx |-> Background(o), above |-> {}] : o \in Overrides \cup {NoOverride}}
        \cup {[ctx |-> spans[s].ctx, above |-> spans[s].above \cup {s}] :
                 s \in DOMAIN spans}

Ids == 1..Len(spans)
NextId == Len(spans) + 1

\* Mutant: the suppression that was decided on is not handed down.
HandDownUnsuppressed(ctx, push, capture) ==
    [ctx EXCEPT !.current = NextId,
                !.prop = IF push = NoPropagation THEN @ ELSE push]

\* The context a captured span hands to what it calls.
HandDown(ctx, push, capture) ==
    [ctx EXCEPT !.current = NextId,
                !.suppress = ~capture["children"],
                !.prop = IF push = NoPropagation THEN @ ELSE push]

\* Mutant: a span that is not captured leaves the context as it was.
StartNoopTransparent(c, site, sf) ==
    /\ Len(spans) < MaxSpans
    /\ MayBeNoop(c.ctx, sf)
    /\ spans' = Append(spans,
           [state |-> "noop", above |-> c.above, parent |-> 0, ctx |-> c.ctx,
            rule |-> NoRule, gated |-> FALSE, capture |-> <<>>, origin |-> 0,
            grant |-> 0])
    /\ UNCHANGED <<globalConfig, sailfish, rules>>

\* A span that is killed or sampled out still takes the place of the current
\* span in its context, and passes on everything else it found there.
StartNoop(c, site, sf) ==
    /\ Len(spans) < MaxSpans
    /\ MayBeNoop(c.ctx, sf)
    /\ spans' = Append(spans,
           [state |-> "noop", above |-> c.above, parent |-> 0,
            ctx |-> [c.ctx EXCEPT !.current = NextId], rule |-> NoRule,
            gated |-> FALSE, capture |-> <<>>, origin |-> 0, grant |-> 0])
    /\ UNCHANGED <<globalConfig, sailfish, rules>>

\* What the spans that are captured have in common.  origin and grant are
\* history: the span that matched the rule this one carries, and the depth to
\* which that rule propagates.
StartLive(c, sf, layer, push, rule, gated, origin, grant) ==
    LET capture == Decide(c.ctx, sf, layer, push)
    IN
    /\ Len(spans) < MaxSpans
    /\ MayBeLive(c.ctx, sf)
    /\ spans' = Append(spans,
           [state |-> "open", above |-> c.above, parent |-> c.ctx.current,
            ctx |-> HandDown(c.ctx, push, capture), rule |-> rule,
            gated |-> gated, capture |-> capture, origin |-> origin,
            grant |-> grant])
    /\ UNCHANGED <<globalConfig, sailfish, rules>>

\* Mutant: an exhausted propagation is not handed down.
StartInheritingWhileDeep(c, site, sf) ==
    LET prop == c.ctx.prop
        child == [prop EXCEPT !.depth = @ - 1]
    IN
    /\ prop.depth > 0
    /\ StartLive(c, sf, Given(prop.layer),
                 IF child.depth = 0 THEN NoPropagation ELSE child,
                 prop.rule, FALSE, prop.origin, 0)

\* A parent's rule is inherited without looking at the rules; a depth of 0 is
\* handed down too, to cover the one that is in the context.
StartInheriting(c, site, sf) ==
    LET prop == c.ctx.prop
    IN
    /\ prop.depth > 0
    /\ StartLive(c, sf, Given(prop.layer), [prop EXCEPT !.depth = @ - 1],
                 prop.rule, FALSE, prop.origin, 0)

\* What a rule that matched hands down: its flags, and the limits in force.
Propagation(r, sf) ==
    LET inForce == Over(Given(r.layer), Over(sf.layer, globalConfig.layer))
    IN  IF r.depth = 0 THEN NoPropagation
        ELSE [rule |-> r.id, depth |-> r.depth, origin |-> NextId,
              layer |-> [x \in RuleSettings |-> inForce[x]]]

StartMatching(c, site, sf, facts, k) ==
    /\ c.ctx.prop.depth = 0
    /\ MayMatch(k, site, facts)
    /\ StartLive(c, sf, Given(rules[k].layer), Propagation(rules[k], sf),
                 rules[k].id, rules[k].post # {}, NextId, rules[k].depth)

StartUnmatched(c, site, sf, facts) ==
    /\ c.ctx.prop.depth = 0
    /\ MayMatchNone(site, facts)
    /\ StartLive(c, sf, <<>>, NoPropagation, NoRule, FALSE, 0, 0)

-----------------------------------------------------------------------------
\* Ending a span.

\* evaluateRulePostCall: the rules are those of now.  The map of functions is
\* visited in any order; within a function the first rule with the id counts.
Gates(s) ==
    {k \in DOMAIN rules :
        /\ rules[k].id = spans[s].rule
        /\ \A j \in 1..(k - 1) : rules[j].func = rules[k].func
                                    => rules[j].id # spans[s].rule}
MayPass(s, facts) ==
    \/ ~spans[s].gated
    \/ Gates(s) = {}
    \/ \E k \in Gates(s) : Holds(rules[k].post, rules[k].anyOf, facts)

MayFail(s, facts) ==
    /\ spans[s].gated
    /\ \E k \in Gates(s) : ~Holds(rules[k].post, rules[k].anyOf, facts)

\* Nothing keeps a caller from ending a span twice.
EndPosted(s, facts) ==
    /\ spans[s].state # "noop"
    /\ MayPass(s, facts)
    /\ spans' = [spans EXCEPT ![s].state = "posted"]
    /\ UNCHANGED <<globalConfig, sailfish, rules>>

EndDropped(s, facts) ==
    /\ spans[s].state # "noop"
    /\ MayFail(s, facts)
    /\ spans' = [spans EXCEPT ![s].state = "dropped"]
    /\ UNCHANGED <<globalConfig, sailfish, rules>>

SetRules(rs) ==
    /\ rules' = rs
    /\ UNCHANGED <<globalConfig, sailfish, spans>>

Start(c, site, sf) ==
    \/ StartNoop(c, site, sf)
    \/ StartInheriting(c, site, sf)
    \/ \E facts \in SUBSET Facts :
          \/ \E k \in DOMAIN rules : StartMatching(c, site, sf, facts, k)
          \/ StartUnmatched(c, site, sf, facts)

Next ==
    \/ \E c \in Callers, site \in Sites : \E sf \in SailfishEntries(site) :
          Start(c, site, sf)
    \/ \E s \in Ids, facts \in SUBSET Facts :
          EndPosted(s, facts) \/ EndDropped(s, facts)
    \/ \E rs \in RuleSets : SetRules(rs)

Spec == Init /\ [][Next]_vars

-----------------------------------------------------------------------------
\* Properties.

Captured(s) == spans[s].state # "noop"
Inherits(s) == Captured(s) /\ spans[s].origin \notin {0, s}
Inheritors(origin, S) == {t \in S : Inherits(t) /\ spans[t].origin = origin}
\* The spans on which the context that s hands down is built.
Line(s) == spans[s].above \cup {s}

SpanFields ==
    {"state", "above", "parent", "ctx", "rule", "gated", "capture", "origin", "grant"}

\* The variables have their types, every span, captured or not, is the current
\* one of the context it hands on, and only earlier spans enclose it.
TypeOK ==
    /\ globalConfig \in Globals
    /\ sailfish \in Sailfishes
    /\ rules \in RuleSets \cup {<<>>}
    /\ spans \in Seq({spans[s] : s \in DOMAIN spans})
    /\ \A s \in Ids :
          /\ DOMAIN spans[s] = SpanFields
          /\ DOMAIN spans[s].ctx = DOMAIN Background(NoOverride)
          /\ DOMAIN spans[s].ctx.prop = DOMAIN NoPropagation
          /\ DOMAIN spans[s].ctx.prop.layer \subseteq Settings
          /\ spans[s].state \in {"noop", "open", "posted", "dropped"}
          /\ spans[s].above \subseteq 1..(s - 1)
          /\ spans[s].parent \in 0..(s - 1)
          /\ spans[s].ctx.current = s
          /\ spans[s].ctx.prop.depth \in Nat
          /\ spans[s].ctx.override \in Overrides \cup {NoOverride}
          /\ spans[s].origin \in 0..s
          /\ Captured(s) => DOMAIN spans[s].capture = Settings

\* A rule reaches no further below the span it matched than its depth allows,
\* however the calls branch, whatever spans without capture lie between, and
\* although the rules may be swapped or cleared meanwhile (remainingDepth, an
\* exhausted chain must overwrite the inherited value).
PropagationBounded ==
    \A s \in Ids : Inherits(s) =>
        LET origin == spans[s].origin
        IN  /\ origin \in spans[s].above
            /\ Cardinality(Inheritors(origin, spans[s].above)) < spans[origin].grant

\* Below a span that decided against capturing children nothing is captured,
\* at any distance, whichever rules are armed by then (captureChildren).
SuppressedSubtreeIsSilent ==
    \A s \in Ids : Captured(s) =>
        \A t \in spans[s].above : Captured(t) => spans[t].capture["children"]

\* A request's header decides for every captured span of that request; without
\* one, a span that inherits a rule captures what the span that matched the
\* rule captures, whatever .sailfish says about it. A limit of 0 is not handed
\* down.
CaptureIsAsOrdered ==
    \A s \in Ids : Captured(s) =>
        LET o == spans[s].ctx.override
        IN  IF o # NoOverride
            THEN \A x \in DOMAIN Given(o.layer) : spans[s].capture[x] = o.layer[x]
            ELSE Inherits(s) =>
                     LET ordered == Given(spans[spans[s].origin].capture)
                     IN  \A x \in RuleSettings \cap DOMAIN ordered :
                             spans[s].capture[x] = ordered[x]

\* A captured span is dropped at its end only if it matched, by itself, a rule
\* that had conditions on the result when it started: neither a span that
\* inherited the rule, nor one whose rule was replaced by a rule of the same id
\* with such conditions, is lost (hasPostCall).
OnlyGatedMatchesAreDropped ==
    \A s \in Ids : spans[s].state = "dropped" => spans[s].gated /\ spans[s].origin = s

-----------------------------------------------------------------------------
\* The inductive invariant.

\* A context without suppression was handed down by spans that capture children.
SuppressionIsHandedDown ==
    \A s \in Ids : ~spans[s].ctx.suppress =>
        \A t \in Line(s) : Captured(t) => spans[t].capture["children"]

\* Depth that is left and spans that inherited add up to what the rule allowed.
DepthIsAccounted ==
    \A s \in Ids : spans[s].ctx.prop.depth > 0 =>
        LET prop == spans[s].ctx.prop
        IN  /\ prop.origin \in Line(s)
            /\ spans[prop.origin].origin = prop.origin
            /\ spans[prop.origin].grant
                  = prop.depth + Cardinality(Inheritors(prop.origin, Line(s)))

\* Only a span that matched its rule itself is gated.
OnlyMatchesAreGated == \A s \in Ids : spans[s].gated => spans[s].origin = s

\* Without a header, what a rule propagates is what the span captured that
\* matched it.
PropagationIsAsMatched ==
    \A s \in Ids :
        LET prop == spans[s].ctx.prop
        IN  prop.depth > 0 /\ spans[s].ctx.override = NoOverride =>
                \A x \in RuleSettings :
                    /\ x \in DOMAIN prop.layer
                    /\ prop.layer[x] = spans[prop.origin].capture[x]

\* Types, and how contexts relate to the spans that built them.
TreeInv ==
    /\ TypeOK
    /\ SuppressionIsHandedDown
    /\ SuppressedSubtreeIsSilent
    /\ DepthIsAccounted
    /\ PropagationBounded
    /\ OnlyMatchesAreGated
    /\ OnlyGatedMatchesAreDropped

\* What makes the properties inductive: the tree, and what its spans capture.
SpanInv == TreeInv /\ PropagationIsAsMatched /\ CaptureIsAsOrdered

=============================================================================
