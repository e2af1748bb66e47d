------------------------- MODULE FunctionSpansProofs -------------------------
(***************************************************************************)
(* Propagation, suppression and the gate at the end of a span, proved for  *)
(* every configuration, every set of rules and every tree of calls.        *)
(* SpanInv of FunctionSpans is the inductive invariant: TreeInv says how    *)
(* the spans relate, OrderInv what they capture.                           *)
(***************************************************************************)
EXTENDS FunctionSpans, FiniteSetTheorems, SequenceTheorems, TLAPS

\* The limits that are given are among the settings.
LEMMA GivenDomain ==
    ASSUME NEW l PROVE DOMAIN Given(l) \subseteq DOMAIN l
BY DEF Given

\* A function on an initial segment of the positive numbers is a sequence.
LEMMA IsASequence ==
    ASSUME NEW T, NEW m \in Nat, NEW f \in [1..m -> T]
    PROVE  f \in Seq(T)
BY SeqDef

\* A new span leaves those before it alone.
LEMMA AppendSpan ==
    ASSUME spans \in Seq({spans[s] : s \in DOMAIN spans}),
           NEW r, spans' = Append(spans, r)
    PROVE  /\ Len(spans) \in Nat
           /\ Ids' = Ids \cup {NextId} /\ NextId \notin Ids
           /\ \A s \in Ids : spans'[s] = spans[s]
           /\ spans'[NextId] = r
           /\ DOMAIN spans = Ids
           /\ spans' \in Seq({spans'[s] : s \in DOMAIN spans'})
<1> DEFINE S == {spans[s] : s \in DOMAIN spans}
           T == S \cup {r}
<1>1. spans \in Seq(T)
  BY SeqDef
<1>2. /\ Len(spans) \in Nat
      /\ spans' \in Seq(T)
      /\ Len(spans') = Len(spans) + 1
      /\ \A s \in 1..Len(spans) : spans'[s] = spans[s]
      /\ spans'[Len(spans) + 1] = r
  BY <1>1, AppendProperties, LenProperties
<1>3. DOMAIN spans = Ids /\ DOMAIN spans' = 1..(Len(spans) + 1)
  BY <1>1, <1>2, LenProperties DEF Ids
<1>4. spans' \in Seq({spans'[s] : s \in DOMAIN spans'})
  BY <1>2, <1>3, SeqDef, LenProperties
<1> QED BY <1>2, <1>3, <1>4 DEF Ids, NextId

\* Depth plus no inheritors is the depth.
LEMMA AddZero == \A d \in Nat : d = d + 0
OBVIOUS

\* Only earlier spans enclose a span.
LEMMA Enclosed ==
    ASSUME TypeOK
    PROVE  \A s \in Ids : /\ spans[s].above \subseteq Ids
                          /\ Line(s) \subseteq Ids
<1>1. Len(spans) \in Nat
  BY LenProperties DEF TypeOK
<1>2. ASSUME NEW s \in Ids PROVE spans[s].above \subseteq Ids
  <2>1. spans[s].above \subseteq 1..(s - 1)
    BY DEF TypeOK
  <2>2. 1..(s - 1) \subseteq Ids
    BY <1>1 DEF Ids
  <2> QED BY <2>1, <2>2
<1> QED BY <1>2 DEF Line

\* A set of spans is finite.
LEMMA SpansFinite ==
    ASSUME Len(spans) \in Nat, NEW S \in SUBSET Ids
    PROVE  IsFiniteSet(S)
<1>1. IsFiniteSet(Ids)
  BY FS_Interval DEF Ids
<1> QED BY <1>1, FS_Subset

\* What a caller's context says of the spans it was built on.
LEMMA CallerFacts ==
    ASSUME TreeInv, NEW c \in Callers
    PROVE  /\ c.above \subseteq Ids
           /\ DOMAIN c.ctx = DOMAIN Background(NoOverride)
           /\ DOMAIN c.ctx.prop = DOMAIN NoPropagation
           /\ DOMAIN c.ctx.prop.layer \subseteq Settings
           /\ c.ctx.prop.depth \in Nat
           /\ c.ctx.current \in 0..Len(spans)
           /\ c.ctx.override \in Overrides \cup {NoOverride}
           /\ ~c.ctx.suppress =>
                 \A t \in c.above : Captured(t) => spans[t].capture["children"]
           /\ c.ctx.prop.depth > 0 =>
                 LET prop == c.ctx.prop
                 IN  /\ prop.origin \in c.above
                     /\ spans[prop.origin].origin = prop.origin
                     /\ spans[prop.origin].grant
                           = prop.depth + Cardinality(Inheritors(prop.origin, c.above))
<1>0. TypeOK /\ SuppressionIsHandedDown /\ DepthIsAccounted
  BY DEF TreeInv
<1>1. Len(spans) \in Nat /\ DOMAIN spans = Ids
  BY <1>0, LenProperties DEF TypeOK, Ids
<1>a. CASE \E o \in Overrides \cup {NoOverride} : c = [ctx |-> Background(o), above |-> {}]
  BY <1>a, <1>1 DEF Background, NoPropagation, Captured
<1>b. CASE \E s \in DOMAIN spans : c = [ctx |-> spans[s].ctx, above |-> spans[s].above \cup {s}]
  <2>1. PICK s \in Ids : c = [ctx |-> spans[s].ctx, above |-> spans[s].above \cup {s}]
    BY <1>b, <1>1
  <2>2. c.ctx = spans[s].ctx /\ c.above = Line(s)
    BY <2>1 DEF Line
  <2>3. /\ Line(s) \subseteq Ids
        /\ spans[s].ctx.current = s
    <3>1. Line(s) \subseteq Ids
      BY <1>0, Enclosed
    <3> QED BY <1>0, <3>1 DEF TypeOK
  <2>4. /\ DOMAIN c.ctx = DOMAIN Background(NoOverride)
        /\ DOMAIN c.ctx.prop = DOMAIN NoPropagation
        /\ DOMAIN c.ctx.prop.layer \subseteq Settings
        /\ c.ctx.prop.depth \in Nat
        /\ c.ctx.override \in Overrides \cup {NoOverride}
    BY <1>0, <2>2 DEF TypeOK
  <2>5. c.ctx.current \in 0..Len(spans)
    BY <2>2, <2>3, <1>1 DEF Ids
  <2> QED BY <1>0, <2>2, <2>3, <2>4, <2>5 DEF SuppressionIsHandedDown, DepthIsAccounted
<1> QED BY <1>a, <1>b DEF Callers

\* The invariant survives a span that is built on its caller's context.
LEMMA NewSpanInv ==
    ASSUME TreeInv, NEW c \in Callers, NEW r, NEW n, n = NextId,
           spans' = Append(spans, r),
           UNCHANGED <<globalConfig, sailfish, rules>>,
           DOMAIN r = SpanFields,
           r.above = c.above,
           r.state \in {"noop", "open"},
           r.parent \in 0..Len(spans),
           DOMAIN r.ctx = DOMAIN Background(NoOverride),
           r.ctx.current = n,
           r.ctx.override = c.ctx.override,
           DOMAIN r.ctx.prop = DOMAIN NoPropagation,
           DOMAIN r.ctx.prop.layer \subseteq Settings,
           r.ctx.prop.depth \in Nat,
           r.origin \in 0..n,
           r.gated => r.origin = n,
           r.state # "noop" => DOMAIN r.capture = Settings /\ ~c.ctx.suppress,
           ~r.ctx.suppress =>
               ~c.ctx.suppress /\ (r.state # "noop" => r.capture["children"]),
           r.origin \notin {0, n} =>
               /\ r.state # "noop"
               /\ c.ctx.prop.depth > 0
               /\ r.origin = c.ctx.prop.origin
               /\ r.ctx.prop.origin = r.origin
               /\ r.ctx.prop.depth = c.ctx.prop.depth - 1,
           r.origin = n /\ r.ctx.prop.depth > 0 =>
               r.ctx.prop.origin = n /\ r.grant = r.ctx.prop.depth,
           r.origin = 0 /\ r.ctx.prop.depth > 0 => r.ctx.prop = c.ctx.prop
    PROVE  TreeInv'
<1>0. TypeOK /\ SuppressionIsHandedDown /\ SuppressedSubtreeIsSilent
      /\ DepthIsAccounted /\ PropagationBounded /\ OnlyMatchesAreGated
      /\ OnlyGatedMatchesAreDropped
  BY DEF TreeInv
<1>1. /\ Len(spans) \in Nat
      /\ Ids' = Ids \cup {n} /\ n \notin Ids
      /\ \A s \in Ids : spans'[s] = spans[s]
      /\ spans'[n] = r
      /\ spans' \in Seq({spans'[s] : s \in DOMAIN spans'})
  BY <1>0, AppendSpan DEF TypeOK
<1>2. /\ c.above \subseteq Ids
      /\ ~c.ctx.suppress =>
            \A t \in c.above : Captured(t) => spans[t].capture["children"]
      /\ c.ctx.prop.depth \in Nat
      /\ c.ctx.override \in Overrides \cup {NoOverride}
      /\ c.ctx.prop.depth > 0 =>
            LET prop == c.ctx.prop
            IN  /\ prop.origin \in c.above
                /\ spans[prop.origin].origin = prop.origin
                /\ spans[prop.origin].grant
                      = prop.depth + Cardinality(Inheritors(prop.origin, c.above))
  BY CallerFacts
<1>3. \A s \in Ids : spans[s].above \subseteq Ids /\ Line(s) \subseteq Ids
                     /\ Line(s)' = Line(s)
  <2>1. \A s \in Ids : Line(s)' = Line(s)
    BY <1>1 DEF Line
  <2> QED BY <1>0, <2>1, Enclosed
<1>4. Line(n)' = c.above \cup {n}
  BY <1>1 DEF Line
<1>5. \A s \in Ids : /\ Captured(s)' <=> Captured(s)
                     /\ Inherits(s)' <=> Inherits(s)
  BY <1>1 DEF Captured, Inherits
<1>6. \A S \in SUBSET Ids : \A o : Inheritors(o, S)' = Inheritors(o, S)
  BY <1>1, <1>5 DEF Inheritors
<1>7. /\ Captured(n)' <=> r.state # "noop"
      /\ Inherits(n)' <=> r.state # "noop" /\ r.origin \notin {0, n}
  BY <1>1 DEF Captured, Inherits
<1>8. TypeOK'
  <2>1. \A s \in Ids' :
          /\ DOMAIN spans'[s] = SpanFields
          /\ DOMAIN spans'[s].ctx = DOMAIN Background(NoOverride)
          /\ DOMAIN spans'[s].ctx.prop = DOMAIN NoPropagation
          /\ DOMAIN spans'[s].ctx.prop.layer \subseteq Settings
          /\ spans'[s].state \in {"noop", "open", "posted", "dropped"}
          /\ spans'[s].ctx.current = s
          /\ spans'[s].ctx.prop.depth \in Nat
          /\ spans'[s].ctx.override \in Overrides \cup {NoOverride}
    <3>1. ASSUME NEW s \in Ids
          PROVE  /\ DOMAIN spans[s] = SpanFields
                 /\ DOMAIN spans[s].ctx = DOMAIN Background(NoOverride)
                 /\ DOMAIN spans[s].ctx.prop = DOMAIN NoPropagation
                 /\ DOMAIN spans[s].ctx.prop.layer \subseteq Settings
                 /\ spans[s].state \in {"noop", "open", "posted", "dropped"}
                 /\ spans[s].ctx.current = s
                 /\ spans[s].ctx.prop.depth \in Nat
                 /\ spans[s].ctx.override \in Overrides \cup {NoOverride}
      BY <1>0 DEF TypeOK
    <3>2. /\ spans'[n].ctx.override \in Overrides \cup {NoOverride}
          /\ spans'[n].state \in {"noop", "open", "posted", "dropped"}
          /\ DOMAIN spans'[n] = SpanFields
          /\ DOMAIN spans'[n].ctx = DOMAIN Background(NoOverride)
          /\ spans'[n].ctx.current = n
      BY <1>1, <1>2
    <3>3. /\ DOMAIN spans'[n].ctx.prop = DOMAIN NoPropagation
          /\ DOMAIN spans'[n].ctx.prop.layer \subseteq Settings
          /\ spans'[n].ctx.prop.depth \in Nat
      BY <1>1
    <3> SUFFICES ASSUME NEW s \in Ids'
                 PROVE  /\ DOMAIN spans'[s] = SpanFields
                        /\ DOMAIN spans'[s].ctx = DOMAIN Background(NoOverride)
                        /\ DOMAIN spans'[s].ctx.prop = DOMAIN NoPropagation
                        /\ DOMAIN spans'[s].ctx.prop.layer \subseteq Settings
                        /\ spans'[s].state \in {"noop", "open", "posted", "dropped"}
                        /\ spans'[s].ctx.current = s
                        /\ spans'[s].ctx.prop.depth \in Nat
                        /\ spans'[s].ctx.override \in Overrides \cup {NoOverride}
      OBVIOUS
    <3>4. CASE s = n
      BY <3>2, <3>3, <3>4
    <3>5. CASE s \in Ids
      <4>1. spans'[s] = spans[s]
        BY <1>1, <3>5
      <4> QED BY <3>1, <3>5, <4>1
    <3> QED BY <1>1, <3>4, <3>5
  <2>2. \A s \in Ids' :
          /\ spans'[s].above \subseteq 1..(s - 1)
          /\ spans'[s].parent \in 0..(s - 1)
          /\ spans'[s].origin \in 0..s
    <3>1. \A s \in Ids : /\ spans'[s].above \subseteq 1..(s - 1)
                         /\ spans'[s].parent \in 0..(s - 1)
                         /\ spans'[s].origin \in 0..s
      BY <1>0, <1>1 DEF TypeOK
    <3>2. r.above \subseteq 1..(n - 1) /\ r.parent \in 0..(n - 1)
      BY <1>1, <1>2 DEF NextId, Ids
    <3> QED BY <1>1, <3>1, <3>2
  <2>3. \A s \in Ids' : Captured(s)' => DOMAIN spans'[s].capture = Settings
    <3>1. \A s \in Ids : Captured(s) => DOMAIN spans[s].capture = Settings
      BY <1>0 DEF TypeOK
    <3> QED BY <1>1, <1>5, <1>7, <3>1
  <2> QED BY <1>0, <1>1, <2>1, <2>2, <2>3 DEF TypeOK
<1>9. SuppressionIsHandedDown'
  <2>1. ASSUME NEW s \in Ids, ~spans'[s].ctx.suppress, NEW t \in Line(s)', Captured(t)'
        PROVE  spans'[t].capture["children"]
    BY <1>0, <1>1, <1>3, <1>5, <2>1 DEF SuppressionIsHandedDown
  <2>2. ASSUME ~r.ctx.suppress, NEW t \in Line(n)', Captured(t)'
        PROVE  spans'[t].capture["children"]
    <3>1. CASE t = n
      BY <1>1, <1>7, <2>2, <3>1
    <3>2. CASE t \in c.above
      BY <1>1, <1>2, <1>5, <2>2, <3>2
    <3> QED BY <1>4, <2>2, <3>1, <3>2
  <2> QED BY <1>1, <2>1, <2>2 DEF SuppressionIsHandedDown
<1>10. SuppressedSubtreeIsSilent'
  <2>1. ASSUME NEW s \in Ids, Captured(s)', NEW t \in spans'[s].above, Captured(t)'
        PROVE  spans'[t].capture["children"]
    BY <1>0, <1>1, <1>3, <1>5, <2>1 DEF SuppressedSubtreeIsSilent
  <2>2. ASSUME Captured(n)', NEW t \in spans'[n].above, Captured(t)'
        PROVE  spans'[t].capture["children"]
    BY <1>1, <1>2, <1>5, <1>7, <2>2
  <2> QED BY <1>1, <2>1, <2>2 DEF SuppressedSubtreeIsSilent
<1>11. DepthIsAccounted'
  <2> DEFINE Accounted(s) ==
        LET prop == spans[s].ctx.prop
        IN  /\ prop.origin \in Line(s)
            /\ spans[prop.origin].origin = prop.origin
            /\ spans[prop.origin].grant
                  = prop.depth + Cardinality(Inheritors(prop.origin, Line(s)))
  <2>1. ASSUME NEW s \in Ids, spans'[s].ctx.prop.depth > 0
        PROVE  Accounted(s)'
    <3>1. Accounted(s)
      BY <1>0, <1>1, <2>1 DEF DepthIsAccounted
    <3>2. Inheritors(spans[s].ctx.prop.origin, Line(s))'
             = Inheritors(spans[s].ctx.prop.origin, Line(s))
      BY <1>1, <1>3, <1>6
    <3>3. spans[s].ctx.prop.origin \in Ids
      BY <1>3, <3>1
    <3>4. spans'[s] = spans[s]
          /\ spans'[spans[s].ctx.prop.origin] = spans[spans[s].ctx.prop.origin]
      BY <1>1, <3>3
    <3> QED BY <1>3, <3>1, <3>2, <3>4
  <2>2. ASSUME r.ctx.prop.depth > 0
        PROVE  Accounted(n)'
    <3>0. spans'[n].ctx.prop = r.ctx.prop
      BY <1>1
    <3>1. IsFiniteSet(c.above)
      BY <1>1, <1>2, SpansFinite
    <3>2. \A o : /\ IsFiniteSet(Inheritors(o, c.above))
                 /\ Cardinality(Inheritors(o, c.above)) \in Nat
                 /\ n \notin Inheritors(o, c.above)
      <4>1. \A o : Inheritors(o, c.above) \subseteq c.above
        BY DEF Inheritors
      <4> QED BY <3>1, <4>1, <1>1, <1>2, FS_Subset, FS_CardinalityType
    <3>3. \A o : Inheritors(o, Line(n))'
             = Inheritors(o, c.above) \cup (IF Inherits(n)' /\ r.origin = o THEN {n} ELSE {})
      <4>1. ASSUME NEW o, NEW t
            PROVE  t \in Inheritors(o, Line(n))'
                      <=> \/ t \in Inheritors(o, c.above)
                          \/ t = n /\ Inherits(n)' /\ r.origin = o
        <5>1. CASE t \in c.above
          BY <1>1, <1>2, <1>4, <1>5, <5>1 DEF Inheritors
        <5>2. CASE t = n
          BY <1>1, <1>2, <1>4, <5>2 DEF Inheritors
        <5>3. CASE t \notin c.above \cup {n}
          BY <1>4, <5>3 DEF Inheritors
        <5> QED BY <5>1, <5>2, <5>3
      <4> QED BY <4>1
    <3>a. CASE r.origin = n
      <4>1. r.ctx.prop.origin = n /\ r.grant = r.ctx.prop.depth
        BY <2>2, <3>a
      <4>2. ~Inherits(n)'
        BY <1>7, <3>a
      <4>3. Inheritors(n, c.above) = {}
        <5>1. ASSUME NEW t \in c.above PROVE spans[t].origin # n
          <6>1. t \in Ids /\ spans[t].origin \in 0..t
            BY <1>0, <1>2 DEF TypeOK
          <6>2. t \in Nat /\ t < n
            BY <6>1, <1>1 DEF Ids, NextId
          <6> QED BY <6>1, <6>2
        <5> QED BY <5>1 DEF Inheritors
      <4>4. Inheritors(n, Line(n))' = {}
        BY <3>3, <4>2, <4>3
      <4>5. n \in Line(n)'
        BY <1>4
      <4>6. spans'[n].ctx.prop.origin = n /\ spans'[n].origin = n
            /\ spans'[n].grant = spans'[n].ctx.prop.depth
            /\ spans'[n].ctx.prop.depth \in Nat
        BY <3>0, <3>a, <1>1, <4>1
      <4>7. Inheritors(spans[n].ctx.prop.origin, Line(n))' = {}
        BY <4>4, <4>6 DEF Inheritors
      <4> DEFINE count == Cardinality(Inheritors(spans[n].ctx.prop.origin, Line(n)))
      <4>8. count' = 0
        BY <4>7, FS_EmptySet, Zenon
      <4>9. /\ (spans[n].ctx.prop.origin)' = n
            /\ (spans[spans[n].ctx.prop.origin].origin)' = n
            /\ (spans[spans[n].ctx.prop.origin].grant)' = (spans[n].ctx.prop.depth)'
        BY <4>6
      <4>10. (spans[n].ctx.prop.origin \in Line(n))'
        BY <4>5, <4>9
      <4>11. (spans[n].ctx.prop.depth = spans[n].ctx.prop.depth + count)'
        <5> HIDE DEF count
        <5> QED BY <4>6, <4>8, AddZero, Zenon
      <4> QED BY <4>9, <4>10, <4>11
    <3>b. CASE r.origin = 0
      <4>1. r.ctx.prop = c.ctx.prop
        BY <2>2, <3>b
      <4>2. ~Inherits(n)'
        BY <1>7, <3>b
      <4>3. \A o : Inheritors(o, Line(n))' = Inheritors(o, c.above)
        BY <3>3, <4>2
      <4>4. c.ctx.prop.origin \in Ids /\ c.ctx.prop.origin \in Line(n)'
        BY <1>2, <1>4, <2>2, <4>1
      <4>5. spans'[n].ctx.prop = c.ctx.prop
            /\ spans'[c.ctx.prop.origin] = spans[c.ctx.prop.origin]
        BY <3>0, <1>1, <4>1, <4>4
      <4> QED BY <1>2, <2>2, <4>1, <4>3, <4>4, <4>5
    <3>c. CASE r.origin \notin {0, n}
      <4> DEFINE o == c.ctx.prop.origin
      <4>1. /\ c.ctx.prop.depth > 0
            /\ r.origin = o /\ r.ctx.prop.origin = o
            /\ r.ctx.prop.depth = c.ctx.prop.depth - 1
        BY <3>c
      <4>2. Inherits(n)'
        BY <1>7, <3>c
      <4>3. Inheritors(o, Line(n))' = Inheritors(o, c.above) \cup {n}
        BY <3>3, <4>1, <4>2
      <4>4. Cardinality(Inheritors(o, Line(n))') = Cardinality(Inheritors(o, c.above)) + 1
        BY <3>2, <4>3, FS_AddElement
      <4>5. o \in Ids /\ o \in Line(n)'
        BY <1>2, <1>4, <4>1
      <4>6. /\ spans'[o].origin = o
            /\ spans'[o].grant = c.ctx.prop.depth + Cardinality(Inheritors(o, c.above))
        BY <1>1, <1>2, <4>1, <4>5
      <4>7. spans'[o].grant = r.ctx.prop.depth + Cardinality(Inheritors(o, Line(n))')
        <5> DEFINE depth == c.ctx.prop.depth
                   before == Cardinality(Inheritors(o, c.above))
                   after == Cardinality(Inheritors(o, Line(n))')
                   grant == spans'[o].grant
                   left == r.ctx.prop.depth
        <5>1. depth \in Nat /\ before \in Nat
          BY <1>2, <3>2
        <5>2. grant = depth + before /\ after = before + 1 /\ left = depth - 1
          BY <4>1, <4>4, <4>6
        <5> HIDE DEF depth, before, after, grant, left
        <5>3. grant = left + after
          BY <5>1, <5>2
        <5> QED BY <5>3 DEF grant, left, after
      <4>8. spans'[n].ctx.prop.origin = o /\ spans'[n].ctx.prop.depth = r.ctx.prop.depth
        BY <3>0, <4>1
      <4> HIDE DEF o
      <4> QED BY <4>5, <4>6, <4>7, <4>8
    <3> QED BY <3>a, <3>b, <3>c
  <2>3. \A s \in Ids' : spans'[s].ctx.prop.depth > 0 => Accounted(s)'
    BY <1>1, <2>1, <2>2
  <2> QED BY <2>3 DEF DepthIsAccounted
<1>12. PropagationBounded'
  <2> DEFINE Bounded(s) ==
        LET origin == spans[s].origin
        IN  /\ origin \in spans[s].above
            /\ Cardinality(Inheritors(origin, spans[s].above)) < spans[origin].grant
  <2>1. ASSUME NEW s \in Ids, Inherits(s)'
        PROVE  Bounded(s)'
    <3>1. Bounded(s)
      BY <1>0, <1>5, <2>1 DEF PropagationBounded
    <3>2. spans[s].origin \in Ids
      BY <1>3, <3>1
    <3>3. Inheritors(spans[s].origin, spans[s].above)'
             = Inheritors(spans[s].origin, spans[s].above)
      BY <1>1, <1>3, <1>6
    <3> QED BY <1>1, <3>1, <3>2, <3>3
  <2>2. ASSUME Inherits(n)'
        PROVE  Bounded(n)'
    <3> DEFINE o == c.ctx.prop.origin
    <3>1. c.ctx.prop.depth > 0 /\ r.origin = o
      BY <1>7, <2>2
    <3>2. o \in c.above /\ o \in Ids
          /\ spans[o].grant = c.ctx.prop.depth + Cardinality(Inheritors(o, c.above))
      BY <1>2, <3>1
    <3>3. Inheritors(o, c.above)' = Inheritors(o, c.above)
      BY <1>1, <1>2, <1>5 DEF Inheritors
    <3>4. Cardinality(Inheritors(o, c.above)) \in Nat
      <4>1. IsFiniteSet(c.above)
        BY <1>1, <1>2, SpansFinite
      <4>2. Inheritors(o, c.above) \subseteq c.above
        BY DEF Inheritors
      <4> QED BY <4>1, <4>2, FS_Subset, FS_CardinalityType
    <3>5. Cardinality(Inheritors(o, c.above)) < spans[o].grant
      BY <1>2, <3>1, <3>2, <3>4
    <3>6. spans'[n].origin = o /\ spans'[n].above = c.above /\ spans'[o] = spans[o]
      BY <1>1, <3>1, <3>2
    <3>7. Inheritors(spans[n].origin, spans[n].above)' = Inheritors(o, c.above)
      BY <1>1, <1>2, <1>5, <3>6 DEF Inheritors
    <3> HIDE DEF o
    <3> QED BY <3>2, <3>5, <3>6, <3>7
  <2> QED BY <1>1, <2>1, <2>2 DEF PropagationBounded
<1>13. OnlyMatchesAreGated'
  BY <1>0, <1>1 DEF OnlyMatchesAreGated
<1>14. OnlyGatedMatchesAreDropped'
  BY <1>0, <1>1 DEF OnlyGatedMatchesAreDropped
<1> QED BY <1>8, <1>9, <1>10, <1>11, <1>12, <1>13, <1>14 DEF TreeInv

-----------------------------------------------------------------------------
\* The steps.

\* A layer over another speaks of what either speaks of.
LEMMA DomainOver ==
    ASSUME NEW f, NEW g
    PROVE  DOMAIN Over(f, g) = (DOMAIN f) \cup (DOMAIN g)
BY DEF Over

\* Whatever the layers say, every setting is decided.
LEMMA DecideDomain ==
    ASSUME TypeOK, NEW site, NEW sf \in SailfishEntries(site),
           NEW ctx, ctx.override \in Overrides \cup {NoOverride},
           NEW rule, DOMAIN rule \subseteq Settings, NEW push
    PROVE  DOMAIN Decide(ctx, sf, rule, push) = Settings
<1>1. DOMAIN globalConfig.layer = Settings
  BY LayersAssumption DEF TypeOK
<1>2. DOMAIN sf.layer \subseteq Settings
  <2>1. sf \in Entries(sailfish)
    BY DEF SailfishEntries, Entries
  <2> QED BY <2>1, LayersAssumption DEF TypeOK
<1>3. DOMAIN OverrideLayer(ctx) \subseteq Settings
  <2>1. CASE ctx.override = NoOverride
    BY <2>1 DEF OverrideLayer
  <2>2. CASE ctx.override # NoOverride
    <3>1. DOMAIN ctx.override.layer \subseteq Settings
      BY <2>2, LayersAssumption
    <3> QED BY <2>2, <3>1, GivenDomain DEF OverrideLayer
  <2> QED BY <2>1, <2>2
<1>4. DOMAIN DepthLayer(push) \subseteq Settings
  BY DEF Settings, DepthLayer
<1> DEFINE config == Over(sf.layer, globalConfig.layer)
           ruled == Over(rule, config)
           deep == Over(DepthLayer(push), ruled)
<1>5. DOMAIN config = Settings
  BY <1>1, <1>2, DomainOver
<1>6. DOMAIN ruled = Settings
  <2> HIDE DEF config
  <2> QED BY <1>5, DomainOver
<1>7. DOMAIN deep = Settings
  <2> HIDE DEF ruled
  <2> QED BY <1>4, <1>6, DomainOver
<1>8. DOMAIN Over(OverrideLayer(ctx), deep) = Settings
  <2> HIDE DEF deep
  <2> QED BY <1>3, <1>7, DomainOver
<1> QED BY <1>8 DEF Decide

\* A span that is not captured hands down what it found.
LEMMA NoopInv ==
    ASSUME TreeInv, NEW c \in Callers, NEW site, NEW sf, StartNoop(c, site, sf)
    PROVE  TreeInv'
<1> DEFINE r == [state |-> "noop", above |-> c.above, parent |-> 0,
                 ctx |-> [c.ctx EXCEPT !.current = NextId], rule |-> NoRule,
                 gated |-> FALSE, capture |-> <<>>, origin |-> 0, grant |-> 0]
<1>1. spans' = Append(spans, r) /\ UNCHANGED <<globalConfig, sailfish, rules>>
  BY DEF StartNoop
<1>2. /\ DOMAIN c.ctx = DOMAIN Background(NoOverride)
      /\ DOMAIN c.ctx.prop = DOMAIN NoPropagation
      /\ DOMAIN c.ctx.prop.layer \subseteq Settings
      /\ c.ctx.prop.depth \in Nat
  BY CallerFacts
<1>3. /\ r.state = "noop" /\ r.above = c.above /\ r.parent = 0 /\ r.origin = 0
      /\ r.gated = FALSE
      /\ DOMAIN r = SpanFields
  BY DEF SpanFields
<1>4. /\ DOMAIN r.ctx = DOMAIN Background(NoOverride)
      /\ r.ctx.current = NextId
      /\ r.ctx.override = c.ctx.override
      /\ r.ctx.suppress = c.ctx.suppress
      /\ r.ctx.prop = c.ctx.prop
  BY <1>2 DEF Background
<1>5. Len(spans) \in Nat
  BY LenProperties DEF TreeInv, TypeOK
<1>6. 0 \in 0..Len(spans) /\ 0 \in 0..NextId /\ NextId # 0
  BY <1>5 DEF NextId
<1> HIDE DEF r
<1> QED BY <1>1, <1>2, <1>3, <1>4, <1>6, NewSpanInv

\* A captured span, given what its action passes on.
LEMMA LiveInv ==
    ASSUME TreeInv, NEW c \in Callers, NEW site, NEW sf \in SailfishEntries(site),
           NEW layer, DOMAIN layer \subseteq Settings,
           NEW push, DOMAIN push = DOMAIN NoPropagation,
           DOMAIN push.layer \subseteq Settings, push.depth \in Nat,
           NEW rule, NEW gated, NEW grant, NEW origin \in 0..NextId,
           gated => origin = NextId,
           StartLive(c, sf, layer, push, rule, gated, origin, grant),
           \/ /\ origin = 0 /\ push = NoPropagation /\ c.ctx.prop.depth = 0
           \/ /\ origin = NextId /\ c.ctx.prop.depth = 0
              /\ \/ push = NoPropagation
                 \/ push # NoPropagation /\ push.origin = NextId /\ grant = push.depth
           \/ /\ c.ctx.prop.depth > 0 /\ origin = c.ctx.prop.origin
              /\ push # NoPropagation
              /\ push.origin = origin /\ push.depth = c.ctx.prop.depth - 1
    PROVE  TreeInv'
<1> DEFINE capture == Decide(c.ctx, sf, layer, push)
           r == [state |-> "open", above |-> c.above, parent |-> c.ctx.current,
                 ctx |-> HandDown(c.ctx, push, capture), rule |-> rule,
                 gated |-> gated, capture |-> capture, origin |-> origin,
                 grant |-> grant]
<1>1. /\ spans' = Append(spans, r) /\ UNCHANGED <<globalConfig, sailfish, rules>>
      /\ ~c.ctx.suppress
  BY DEF StartLive, MayBeLive, Killed
<1>2. /\ DOMAIN c.ctx = DOMAIN Background(NoOverride)
      /\ DOMAIN c.ctx.prop = DOMAIN NoPropagation
      /\ DOMAIN c.ctx.prop.layer \subseteq Settings
      /\ c.ctx.prop.depth \in Nat
      /\ c.ctx.current \in 0..Len(spans)
      /\ c.ctx.override \in Overrides \cup {NoOverride}
      /\ c.ctx.prop.depth > 0 => c.ctx.prop.origin \in c.above
      /\ c.above \subseteq Ids
  BY CallerFacts
<1>3. DOMAIN capture = Settings
  BY <1>2, DecideDomain DEF TreeInv
<1>4. /\ DOMAIN r.ctx = DOMAIN Background(NoOverride)
      /\ r.ctx.current = NextId
      /\ r.ctx.override = c.ctx.override
      /\ r.ctx.suppress = ~capture["children"]
      /\ r.ctx.prop = IF push = NoPropagation THEN c.ctx.prop ELSE push
  <2> HIDE DEF capture
  <2> QED BY <1>2 DEF Background, HandDown
<1>5. /\ DOMAIN r.ctx.prop = DOMAIN NoPropagation
      /\ DOMAIN r.ctx.prop.layer \subseteq Settings
      /\ r.ctx.prop.depth \in Nat
  <2> HIDE DEF r
  <2> QED BY <1>2, <1>4
<1>6. /\ r.state = "open" /\ r.above = c.above /\ r.parent = c.ctx.current
      /\ r.origin = origin /\ r.grant = grant /\ r.capture = capture
      /\ r.gated = gated
      /\ DOMAIN r = SpanFields
  BY DEF SpanFields
<1>7. Len(spans) \in Nat
  BY LenProperties DEF TreeInv, TypeOK
<1> HIDE DEF r, capture
<1>8. origin \notin {0, NextId} =>
        /\ c.ctx.prop.depth > 0
        /\ r.origin = c.ctx.prop.origin
        /\ r.ctx.prop.origin = r.origin
        /\ r.ctx.prop.depth = c.ctx.prop.depth - 1
  BY <1>4, <1>6
<1>9. c.ctx.prop.depth > 0 => c.ctx.prop.origin \notin {0, NextId}
  BY <1>2, <1>7 DEF Ids, NextId
<1>10. origin = NextId /\ r.ctx.prop.depth > 0 =>
          r.ctx.prop.origin = NextId /\ r.grant = r.ctx.prop.depth
  BY <1>2, <1>4, <1>6, <1>7, <1>9 DEF NextId
<1>11. origin = 0 /\ r.ctx.prop.depth > 0 => r.ctx.prop = c.ctx.prop
  BY <1>2, <1>4, <1>7, <1>9 DEF NextId
<1> QED BY <1>1, <1>2, <1>3, <1>4, <1>5, <1>6, <1>8, <1>10, <1>11, NewSpanInv

\* A span that inherits uses up one of the depth it found.
LEMMA InheritingInv ==
    ASSUME TreeInv, NEW c \in Callers, NEW site, NEW sf \in SailfishEntries(site),
           StartInheriting(c, site, sf)
    PROVE  TreeInv'
<1> DEFINE prop == c.ctx.prop
           push == [prop EXCEPT !.depth = @ - 1]
<1>1. /\ prop.depth > 0
      /\ StartLive(c, sf, Given(prop.layer), push, prop.rule, FALSE, prop.origin, 0)
  BY DEF StartInheriting
<1>2. /\ DOMAIN prop = DOMAIN NoPropagation
      /\ DOMAIN prop.layer \subseteq Settings
      /\ prop.depth \in Nat
      /\ prop.origin \in Ids
  BY <1>1, CallerFacts
<1>3. /\ DOMAIN push = DOMAIN NoPropagation
      /\ push.layer = prop.layer
      /\ push.depth = prop.depth - 1
      /\ push.origin = prop.origin
  BY <1>2 DEF NoPropagation
<1>4. Len(spans) \in Nat
  BY LenProperties DEF TreeInv, TypeOK
<1>5. push # NoPropagation
  BY <1>2, <1>3, <1>4 DEF NoPropagation, Ids
<1>6. DOMAIN Given(prop.layer) \subseteq Settings
  BY <1>2, GivenDomain
<1>7. push.depth \in Nat /\ prop.origin \in 0..NextId
  BY <1>1, <1>2, <1>3, <1>4 DEF Ids, NextId
<1> HIDE DEF push
<1> QED BY <1>1, <1>2, <1>3, <1>5, <1>6, <1>7, LiveInv

\* A span that matches a rule hands down the depth that the rule allows.
LEMMA MatchingInv ==
    ASSUME TreeInv, NEW c \in Callers, NEW site, NEW sf \in SailfishEntries(site),
           NEW facts, NEW k \in DOMAIN rules, StartMatching(c, site, sf, facts, k)
    PROVE  TreeInv'
<1> DEFINE push == Propagation(rules[k], sf)
           layer == Given(rules[k].layer)
<1>1. /\ c.ctx.prop.depth = 0
      /\ StartLive(c, sf, layer, push, rules[k].id, rules[k].post # {}, NextId,
                   rules[k].depth)
  BY DEF StartMatching
<1>2. /\ rules[k].depth \in Nat
      /\ DOMAIN rules[k].layer \subseteq RuleSettings
  <2>1. rules \in RuleSets
    <3>1. DOMAIN <<>> = {} /\ rules \in RuleSets \cup {<<>>}
      BY DEF TreeInv, TypeOK
    <3> QED BY <3>1
  <2> QED BY <2>1, RulesAssumption
<1>3. RuleSettings \subseteq Settings
  BY DEF Settings
<1>4. DOMAIN layer \subseteq Settings
  BY <1>2, <1>3, GivenDomain
<1>5. Len(spans) \in Nat /\ NextId \in 0..NextId
  BY LenProperties DEF TreeInv, TypeOK, NextId
<1>6. /\ DOMAIN push = DOMAIN NoPropagation
      /\ DOMAIN push.layer \subseteq Settings
      /\ push.depth \in Nat
      /\ \/ push = NoPropagation
         \/ push # NoPropagation /\ push.origin = NextId /\ rules[k].depth = push.depth
  <2>1. CASE rules[k].depth = 0
    <3>1. push = NoPropagation
      BY <2>1 DEF Propagation
    <3>2. DOMAIN NoPropagation.layer \subseteq Settings /\ NoPropagation.depth \in Nat
      BY DEF NoPropagation
    <3>3. DOMAIN push.layer \subseteq Settings /\ push.depth \in Nat
      BY <3>1, <3>2, Zenon
    <3> QED BY <3>1, <3>3, Zenon
  <2>2. CASE rules[k].depth # 0
    <3>1. push.depth = rules[k].depth /\ push.origin = NextId
          /\ DOMAIN push.layer = RuleSettings /\ DOMAIN push = DOMAIN NoPropagation
      BY <2>2 DEF Propagation, NoPropagation
    <3>2. push # NoPropagation
      BY <2>2, <3>1 DEF NoPropagation
    <3> QED BY <1>2, <1>3, <3>1, <3>2
  <2> QED BY <2>1, <2>2
<1> HIDE DEF push, layer
<1> QED BY <1>1, <1>4, <1>5, <1>6, LiveInv

\* A span without a rule hands down what it found, which is exhausted.
LEMMA UnmatchedInv ==
    ASSUME TreeInv, NEW c \in Callers, NEW site, NEW sf \in SailfishEntries(site),
           NEW facts, StartUnmatched(c, site, sf, facts)
    PROVE  TreeInv'
<1>1. /\ c.ctx.prop.depth = 0
      /\ StartLive(c, sf, <<>>, NoPropagation, NoRule, FALSE, 0, 0)
  BY DEF StartUnmatched
<1>2. /\ DOMAIN <<>> \subseteq Settings
      /\ DOMAIN NoPropagation.layer \subseteq Settings
      /\ NoPropagation.depth \in Nat
  BY DEF NoPropagation
<1>3. 0 \in 0..NextId
  BY LenProperties DEF TreeInv, TypeOK, NextId
<1> QED BY <1>1, <1>2, <1>3, LiveInv

\* Ending a span changes its state and nothing else.
LEMMA EndFields ==
    ASSUME TypeOK, NEW s \in Ids, NEW state \in {"posted", "dropped"},
           spans' = [spans EXCEPT ![s].state = state]
    PROVE  /\ spans' \in Seq({spans'[t] : t \in DOMAIN spans'})
           /\ Ids' = Ids
           /\ \A t \in Ids :
                 /\ DOMAIN spans'[t] = DOMAIN spans[t]
                 /\ spans'[t].above = spans[t].above
                 /\ spans'[t].parent = spans[t].parent
                 /\ spans'[t].ctx = spans[t].ctx
                 /\ spans'[t].gated = spans[t].gated
                 /\ spans'[t].capture = spans[t].capture
                 /\ spans'[t].origin = spans[t].origin
                 /\ spans'[t].grant = spans[t].grant
                 /\ spans'[t].state = IF t = s THEN state ELSE spans[t].state
<1>1. /\ DOMAIN spans = Ids /\ Len(spans) \in Nat
      /\ spans \in [1..Len(spans) -> {spans[t] : t \in DOMAIN spans}]
  BY LenProperties DEF TypeOK, Ids
<1>2. /\ DOMAIN spans' = Ids
      /\ \A t \in Ids : spans'[t] = IF t = s THEN [spans[s] EXCEPT !.state = state]
                                             ELSE spans[t]
  BY <1>1
<1>3. /\ spans' \in Seq({spans'[t] : t \in DOMAIN spans'})
      /\ Len(spans') = Len(spans) /\ Ids' = Ids
  <2>1. spans' \in [1..Len(spans) -> {spans'[t] : t \in DOMAIN spans'}]
    BY <1>1, <1>2 DEF Ids
  <2>2. spans' \in Seq({spans'[t] : t \in DOMAIN spans'})
    <3> DEFINE T == {spans'[t] : t \in DOMAIN spans'}
               after == spans'
    <3>1. after \in [1..Len(spans) -> T]
      BY <2>1
    <3> HIDE DEF T, after
    <3>2. after \in Seq(T)
      BY <1>1, <3>1, IsASequence
    <3> QED BY <3>2 DEF T, after
  <2>3. Len(spans') \in Nat /\ DOMAIN spans' = 1..Len(spans')
    BY <2>2, LenProperties
  <2>4. Len(spans') = Len(spans)
    BY <1>1, <1>2, <2>3 DEF Ids
  <2> QED BY <2>2, <2>4 DEF Ids
<1>4. DOMAIN spans[s] = SpanFields
  BY DEF TypeOK
<1>5. \A t \in Ids :
        /\ DOMAIN spans'[t] = DOMAIN spans[t]
        /\ spans'[t].above = spans[t].above
        /\ spans'[t].parent = spans[t].parent
        /\ spans'[t].ctx = spans[t].ctx
        /\ spans'[t].gated = spans[t].gated
        /\ spans'[t].capture = spans[t].capture
        /\ spans'[t].origin = spans[t].origin
        /\ spans'[t].grant = spans[t].grant
  <2> SUFFICES ASSUME NEW t \in Ids
               PROVE  /\ DOMAIN spans'[t] = DOMAIN spans[t]
                      /\ spans'[t].above = spans[t].above
                      /\ spans'[t].parent = spans[t].parent
                      /\ spans'[t].ctx = spans[t].ctx
                      /\ spans'[t].gated = spans[t].gated
                      /\ spans'[t].capture = spans[t].capture
                      /\ spans'[t].origin = spans[t].origin
                      /\ spans'[t].grant = spans[t].grant
    OBVIOUS
  <2>1. CASE t # s
    BY <1>2, <2>1
  <2>2. CASE t = s
    BY <1>2, <1>4, <2>2 DEF SpanFields
  <2> QED BY <2>1, <2>2
<1>6. \A t \in Ids : spans'[t].state = IF t = s THEN state ELSE spans[t].state
  BY <1>2, <1>4 DEF SpanFields
<1> QED BY <1>3, <1>5, <1>6

\* The invariant survives the end of a span.
LEMMA EndInv ==
    ASSUME TreeInv, NEW s \in Ids, spans[s].state # "noop",
           NEW state \in {"posted", "dropped"},
           state = "dropped" => spans[s].gated,
           spans' = [spans EXCEPT ![s].state = state],
           UNCHANGED <<globalConfig, sailfish, rules>>
    PROVE  TreeInv'
<1>0. TypeOK /\ SuppressionIsHandedDown /\ SuppressedSubtreeIsSilent
      /\ DepthIsAccounted /\ PropagationBounded /\ OnlyMatchesAreGated
      /\ OnlyGatedMatchesAreDropped
  BY DEF TreeInv
<1>1. spans' \in Seq({spans'[t] : t \in DOMAIN spans'}) /\ Ids' = Ids
  BY <1>0, EndFields
<1>2. \A t \in Ids :
        /\ DOMAIN spans'[t] = DOMAIN spans[t]
        /\ spans'[t].above = spans[t].above
        /\ spans'[t].parent = spans[t].parent
        /\ spans'[t].ctx = spans[t].ctx
        /\ spans'[t].gated = spans[t].gated
        /\ spans'[t].capture = spans[t].capture
        /\ spans'[t].origin = spans[t].origin
        /\ spans'[t].grant = spans[t].grant
  BY <1>0, EndFields
<1>3. \A t \in Ids : spans'[t].state = IF t = s THEN state ELSE spans[t].state
  BY <1>0, EndFields
<1>4. \A t \in Ids : /\ Captured(t)' <=> Captured(t)
                     /\ Inherits(t)' <=> Inherits(t)
                     /\ Line(t)' = Line(t)
  BY <1>2, <1>3 DEF Captured, Inherits, Line
<1>5. \A S \in SUBSET Ids : \A o : Inheritors(o, S)' = Inheritors(o, S)
  BY <1>2, <1>4 DEF Inheritors
<1>6. \A t \in Ids : spans[t].above \subseteq Ids /\ Line(t) \subseteq Ids
  BY <1>0, Enclosed
<1>7. TypeOK'
  <2> SUFFICES ASSUME NEW t \in Ids
               PROVE  /\ DOMAIN spans'[t] = SpanFields
                      /\ DOMAIN spans'[t].ctx = DOMAIN Background(NoOverride)
                      /\ DOMAIN spans'[t].ctx.prop = DOMAIN NoPropagation
                      /\ DOMAIN spans'[t].ctx.prop.layer \subseteq Settings
                      /\ spans'[t].state \in {"noop", "open", "posted", "dropped"}
                      /\ spans'[t].above \subseteq 1..(t - 1)
                      /\ spans'[t].parent \in 0..(t - 1)
                      /\ spans'[t].ctx.current = t
                      /\ spans'[t].ctx.prop.depth \in Nat
                      /\ spans'[t].ctx.override \in Overrides \cup {NoOverride}
                      /\ spans'[t].origin \in 0..t
                      /\ Captured(t)' => DOMAIN spans'[t].capture = Settings
    BY <1>0, <1>1 DEF TypeOK
  <2>1. /\ DOMAIN spans[t] = SpanFields
        /\ DOMAIN spans[t].ctx = DOMAIN Background(NoOverride)
        /\ DOMAIN spans[t].ctx.prop = DOMAIN NoPropagation
        /\ DOMAIN spans[t].ctx.prop.layer \subseteq Settings
        /\ spans[t].state \in {"noop", "open", "posted", "dropped"}
        /\ spans[t].above \subseteq 1..(t - 1)
        /\ spans[t].parent \in 0..(t - 1)
        /\ spans[t].ctx.current = t
        /\ spans[t].ctx.prop.depth \in Nat
        /\ spans[t].ctx.override \in Overrides \cup {NoOverride}
        /\ spans[t].origin \in 0..t
        /\ Captured(t) => DOMAIN spans[t].capture = Settings
    BY <1>0 DEF TypeOK
  <2> QED BY <1>2, <1>3, <1>4, <2>1
<1>8. SuppressionIsHandedDown'
  BY <1>0, <1>1, <1>2, <1>4, <1>6 DEF SuppressionIsHandedDown
<1>9. SuppressedSubtreeIsSilent'
  BY <1>0, <1>1, <1>2, <1>4, <1>6 DEF SuppressedSubtreeIsSilent
<1>10. DepthIsAccounted'
  <2> SUFFICES ASSUME NEW t \in Ids, spans[t].ctx.prop.depth > 0
               PROVE  (LET prop == spans[t].ctx.prop
                       IN  /\ prop.origin \in Line(t)
                           /\ spans[prop.origin].origin = prop.origin
                           /\ spans[prop.origin].grant
                                 = prop.depth + Cardinality(Inheritors(prop.origin, Line(t))))'
    BY <1>1, <1>2 DEF DepthIsAccounted
  <2> DEFINE o == spans[t].ctx.prop.origin
  <2>1. /\ o \in Line(t)
        /\ spans[o].origin = o
        /\ spans[o].grant = spans[t].ctx.prop.depth + Cardinality(Inheritors(o, Line(t)))
    BY <1>0 DEF DepthIsAccounted
  <2>2. o \in Ids /\ o' = o
    BY <1>2, <1>6, <2>1
  <2>3. Inheritors(o, Line(t))' = Inheritors(o, Line(t))
    BY <1>4, <1>5, <1>6, <2>2 DEF Inheritors
  <2> QED BY <1>2, <1>4, <2>1, <2>2, <2>3
<1>11. PropagationBounded'
  <2> SUFFICES ASSUME NEW t \in Ids, Inherits(t)
               PROVE  (LET origin == spans[t].origin
                       IN  /\ origin \in spans[t].above
                           /\ Cardinality(Inheritors(origin, spans[t].above))
                                 < spans[origin].grant)'
    BY <1>1, <1>4 DEF PropagationBounded
  <2> DEFINE o == spans[t].origin
  <2>1. /\ o \in spans[t].above
        /\ Cardinality(Inheritors(o, spans[t].above)) < spans[o].grant
    BY <1>0 DEF PropagationBounded
  <2>2. o \in Ids /\ o' = o
    BY <1>2, <1>6, <2>1
  <2>3. Inheritors(o, spans[t].above)' = Inheritors(o, spans[t].above)
    BY <1>2, <1>4, <1>5, <1>6, <2>2 DEF Inheritors
  <2> QED BY <1>2, <2>1, <2>2, <2>3
<1>12. OnlyMatchesAreGated' /\ OnlyGatedMatchesAreDropped'
  BY <1>0, <1>1, <1>2, <1>3 DEF OnlyMatchesAreGated, OnlyGatedMatchesAreDropped
<1> QED BY <1>7, <1>8, <1>9, <1>10, <1>11, <1>12 DEF TreeInv

-----------------------------------------------------------------------------
\* The theorems.

\* Before the first span nothing can be wrong.
LEMMA InitInv == Init => TreeInv
<1> SUFFICES ASSUME Init PROVE TreeInv
  OBVIOUS
<1>1. /\ DOMAIN spans = {} /\ Len(spans) = 0 /\ Ids = {}
      /\ spans \in Seq({spans[s] : s \in DOMAIN spans})
  BY EmptySeq DEF Init, Ids
<1>2. TypeOK
  BY <1>1, MaxSpansAssumption DEF Init, TypeOK
<1> QED BY <1>1, <1>2 DEF TreeInv, SuppressionIsHandedDown, SuppressedSubtreeIsSilent,
        DepthIsAccounted, PropagationBounded, OnlyMatchesAreGated,
        OnlyGatedMatchesAreDropped

\* Swapping the rules disturbs no span that has started.
LEMMA SetRulesInv ==
    ASSUME TreeInv, NEW rs \in RuleSets, SetRules(rs)
    PROVE  TreeInv'
<1>1. /\ rules' = rs /\ UNCHANGED <<globalConfig, sailfish, spans>>
  BY DEF SetRules
<1>2. TypeOK'
  BY <1>1 DEF TreeInv, TypeOK, Ids, Captured
<1>3. UNCHANGED <<SuppressionIsHandedDown, SuppressedSubtreeIsSilent,
                  DepthIsAccounted, PropagationBounded, OnlyMatchesAreGated,
                  OnlyGatedMatchesAreDropped>>
  BY <1>1 DEF SuppressionIsHandedDown, SuppressedSubtreeIsSilent,
     DepthIsAccounted, PropagationBounded, OnlyMatchesAreGated,
     OnlyGatedMatchesAreDropped, Ids, Captured, Inherits, Inheritors, Line
<1> QED BY <1>2, <1>3 DEF TreeInv

\* A start, an end or a swap of the rules keeps the tree as it should be.
LEMMA TreeStep ==
    ASSUME TreeInv, [Next]_vars
    PROVE  TreeInv'
<1>1. ASSUME NEW c \in Callers, NEW site \in Sites, NEW sf \in SailfishEntries(site),
             Start(c, site, sf)
      PROVE  TreeInv'
  BY <1>1, NoopInv, InheritingInv, MatchingInv, UnmatchedInv DEF Start
<1>2. ASSUME NEW s \in Ids, NEW facts \in SUBSET Facts, EndPosted(s, facts)
      PROVE  TreeInv'
  BY <1>2, EndInv DEF EndPosted
<1>3. ASSUME NEW s \in Ids, NEW facts \in SUBSET Facts, EndDropped(s, facts)
      PROVE  TreeInv'
  BY <1>3, EndInv DEF EndDropped, MayFail
<1>4. ASSUME NEW rs \in RuleSets, SetRules(rs)
      PROVE  TreeInv'
  BY <1>4, SetRulesInv
<1>5. CASE UNCHANGED vars
  BY <1>5 DEF vars, TreeInv, TypeOK, SuppressionIsHandedDown,
     SuppressedSubtreeIsSilent, DepthIsAccounted, PropagationBounded,
     OnlyMatchesAreGated, OnlyGatedMatchesAreDropped, Ids, Captured, Inherits,
     Inheritors, Line
<1> QED BY <1>1, <1>2, <1>3, <1>4, <1>5 DEF Next

-----------------------------------------------------------------------------
\* What is captured.

\* The upper layer speaks first.
LEMMA OverAt ==
    ASSUME NEW upper, NEW lower, NEW x \in DOMAIN upper \cup DOMAIN lower
    PROVE  Over(upper, lower)[x] = IF x \in DOMAIN upper THEN upper[x] ELSE lower[x]
BY DEF Over

\* What is given is given unchanged.
LEMMA GivenAt ==
    ASSUME NEW l, NEW x \in DOMAIN Given(l)
    PROVE  x \in DOMAIN l /\ Given(l)[x] = l[x]
BY DEF Given

\* Below the layers of a call lies the configuration, which says everything.
LEMMA ConfigDomain ==
    ASSUME TypeOK, NEW site, NEW sf \in SailfishEntries(site)
    PROVE  /\ DOMAIN sf.layer \subseteq Settings
           /\ DOMAIN Over(sf.layer, globalConfig.layer) = Settings
<1>1. DOMAIN globalConfig.layer = Settings
  BY LayersAssumption DEF TypeOK
<1>2. sf \in Entries(sailfish)
  BY DEF SailfishEntries, Entries
<1>3. DOMAIN sf.layer \subseteq Settings
  BY <1>2, LayersAssumption DEF TypeOK
<1> QED BY <1>1, <1>3, DomainOver

\* Without a header, the rule decides what it speaks of, and the configuration
\* the rest of a rule's settings.
LEMMA DecideByRule ==
    ASSUME TypeOK, NEW site, NEW sf \in SailfishEntries(site),
           NEW ctx, ctx.override = NoOverride,
           NEW rule, DOMAIN rule \subseteq Settings, NEW push,
           NEW x \in RuleSettings
    PROVE  Decide(ctx, sf, rule, push)[x]
              = Over(rule, Over(sf.layer, globalConfig.layer))[x]
<1> DEFINE config == Over(sf.layer, globalConfig.layer)
           ruled == Over(rule, config)
           deep == Over(DepthLayer(push), ruled)
<1>1. DOMAIN config = Settings
  BY ConfigDomain
<1>2. DOMAIN ruled = Settings
  <2> HIDE DEF config
  <2> QED BY <1>1, DomainOver
<1>3. x \in Settings /\ x \notin DOMAIN DepthLayer(push)
      /\ DOMAIN DepthLayer(push) \subseteq Settings
  BY DEF RuleSettings, Settings, Limits, DepthLayer
<1>4. DOMAIN deep = Settings /\ deep[x] = ruled[x]
  <2> HIDE DEF ruled
  <2> QED BY <1>2, <1>3, DomainOver, OverAt
<1>5. DOMAIN OverrideLayer(ctx) = {}
  BY DEF OverrideLayer
<1>6. Over(OverrideLayer(ctx), deep)[x] = deep[x]
  <2> HIDE DEF deep
  <2> QED BY <1>3, <1>4, <1>5, OverAt
<1> QED BY <1>4, <1>6 DEF Decide

\* The header decides whatever it gives.
LEMMA DecideByHeader ==
    ASSUME NEW ctx, ctx.override # NoOverride, NEW sf, NEW rule, NEW push,
           NEW x \in DOMAIN Given(ctx.override.layer)
    PROVE  Decide(ctx, sf, rule, push)[x] = ctx.override.layer[x]
<1> DEFINE deep == Over(DepthLayer(push), Over(rule, Over(sf.layer, globalConfig.layer)))
<1>1. OverrideLayer(ctx) = Given(ctx.override.layer)
  BY DEF OverrideLayer
<1>2. Over(OverrideLayer(ctx), deep)[x] = ctx.override.layer[x]
  <2> HIDE DEF deep
  <2> QED BY <1>1, OverAt, GivenAt
<1> QED BY <1>2 DEF Decide

\* A propagation in a caller's context is as the span captures that matched it.
LEMMA CallerOrder ==
    ASSUME TreeInv, PropagationIsAsMatched, NEW c \in Callers,
           c.ctx.prop.depth > 0, c.ctx.override = NoOverride,
           NEW x \in RuleSettings
    PROVE  /\ x \in DOMAIN c.ctx.prop.layer
           /\ c.ctx.prop.layer[x] = spans[c.ctx.prop.origin].capture[x]
<1>1. DOMAIN spans = Ids
  BY LenProperties DEF TreeInv, TypeOK, Ids
<1>2. CASE \E o \in Overrides \cup {NoOverride} : c = [ctx |-> Background(o), above |-> {}]
  BY <1>2 DEF Background, NoPropagation
<1>3. CASE \E s \in DOMAIN spans : c = [ctx |-> spans[s].ctx, above |-> spans[s].above \cup {s}]
  <2>1. PICK s \in Ids : c.ctx = spans[s].ctx
    BY <1>1, <1>3
  <2> QED BY <2>1 DEF PropagationIsAsMatched
<1> QED BY <1>2, <1>3 DEF Callers

\* A new span that captures as ordered leaves everything as ordered.
LEMMA NewSpanOrder ==
    ASSUME TreeInv, PropagationIsAsMatched, CaptureIsAsOrdered,
           NEW c \in Callers, NEW r, NEW n, n = NextId,
           spans' = Append(spans, r),
           r.ctx.override = c.ctx.override,
           r.state # "noop" /\ c.ctx.override # NoOverride =>
               \A x \in DOMAIN Given(c.ctx.override.layer) :
                   r.capture[x] = c.ctx.override.layer[x],
           r.state # "noop" /\ r.origin \notin {0, n} =>
               /\ c.ctx.prop.depth > 0
               /\ r.origin = c.ctx.prop.origin
               /\ c.ctx.override = NoOverride =>
                     \A x \in RuleSettings \cap DOMAIN Given(c.ctx.prop.layer) :
                         r.capture[x] = c.ctx.prop.layer[x],
           r.ctx.prop.depth > 0 /\ c.ctx.override = NoOverride =>
               \/ /\ c.ctx.prop.depth > 0
                  /\ r.ctx.prop.origin = c.ctx.prop.origin
                  /\ r.ctx.prop.layer = c.ctx.prop.layer
               \/ /\ r.ctx.prop.origin = n
                  /\ \A x \in RuleSettings : /\ x \in DOMAIN r.ctx.prop.layer
                                             /\ r.ctx.prop.layer[x] = r.capture[x]
    PROVE  PropagationIsAsMatched' /\ CaptureIsAsOrdered'
<1>0. TypeOK /\ DepthIsAccounted /\ PropagationBounded
  BY DEF TreeInv
<1>1. /\ Ids' = Ids \cup {n} /\ n \notin Ids
      /\ \A s \in Ids : spans'[s] = spans[s]
      /\ spans'[n] = r
  BY <1>0, AppendSpan DEF TypeOK
<1>2. \A s \in Ids : spans[s].above \subseteq Ids /\ Line(s) \subseteq Ids
  BY <1>0, Enclosed
<1>3. c.ctx.prop.depth > 0 => c.ctx.prop.origin \in Ids
  BY CallerFacts
<1>4. c.ctx.prop.depth > 0 /\ c.ctx.override = NoOverride =>
        \A x \in RuleSettings :
            /\ x \in DOMAIN c.ctx.prop.layer
            /\ c.ctx.prop.layer[x] = spans[c.ctx.prop.origin].capture[x]
  BY CallerOrder
<1>5. PropagationIsAsMatched'
  <2>1. ASSUME NEW s \in Ids, spans[s].ctx.prop.depth > 0,
               spans[s].ctx.override = NoOverride, NEW x \in RuleSettings
        PROVE  /\ x \in DOMAIN spans[s].ctx.prop.layer
               /\ spans[s].ctx.prop.layer[x] = spans'[spans[s].ctx.prop.origin].capture[x]
    <3>1. spans[s].ctx.prop.origin \in Ids
      BY <1>0, <1>2, <2>1 DEF DepthIsAccounted
    <3>2. /\ x \in DOMAIN spans[s].ctx.prop.layer
          /\ spans[s].ctx.prop.layer[x] = spans[spans[s].ctx.prop.origin].capture[x]
      BY <2>1 DEF PropagationIsAsMatched
    <3> QED BY <1>1, <3>1, <3>2
  <2>2. ASSUME r.ctx.prop.depth > 0, r.ctx.override = NoOverride, NEW x \in RuleSettings
        PROVE  /\ x \in DOMAIN r.ctx.prop.layer
               /\ r.ctx.prop.layer[x] = spans'[r.ctx.prop.origin].capture[x]
    BY <1>1, <1>3, <1>4, <2>2
  <2> SUFFICES ASSUME NEW s \in Ids', spans'[s].ctx.prop.depth > 0,
                      spans'[s].ctx.override = NoOverride, NEW x \in RuleSettings
               PROVE  /\ x \in DOMAIN spans'[s].ctx.prop.layer
                      /\ spans'[s].ctx.prop.layer[x]
                            = spans'[spans'[s].ctx.prop.origin].capture[x]
    BY DEF PropagationIsAsMatched
  <2>3. CASE s = n
    BY <1>1, <2>2, <2>3
  <2>4. CASE s \in Ids
    <3>1. spans'[s] = spans[s]
      BY <1>1, <2>4
    <3> QED BY <2>1, <2>4, <3>1
  <2> QED BY <1>1, <2>3, <2>4
<1>6. CaptureIsAsOrdered'
  <2>1. \A s \in Ids' : s \in Ids \/ s = n
    BY <1>1
  <2>2. ASSUME NEW s \in Ids', Captured(s)', spans'[s].ctx.override # NoOverride,
               NEW x \in DOMAIN Given(spans'[s].ctx.override.layer)
        PROVE  spans'[s].capture[x] = spans'[s].ctx.override.layer[x]
    <3>1. CASE s = n
      BY <1>1, <2>2, <3>1 DEF Captured
    <3>2. CASE s \in Ids
      BY <1>1, <2>2, <3>2 DEF Captured, CaptureIsAsOrdered
    <3> QED BY <2>1, <3>1, <3>2
  <2>3. ASSUME NEW s \in Ids', Inherits(s)', spans'[s].ctx.override = NoOverride,
               NEW x \in RuleSettings \cap DOMAIN Given(spans'[spans'[s].origin].capture)
        PROVE  spans'[s].capture[x] = Given(spans'[spans'[s].origin].capture)[x]
    <3>1. CASE s = n
      <4>1. /\ c.ctx.prop.depth > 0 /\ r.origin = c.ctx.prop.origin
            /\ r.origin \in Ids /\ spans'[r.origin] = spans[r.origin]
            /\ c.ctx.override = NoOverride
        BY <1>1, <1>3, <2>3, <3>1 DEF Inherits, Captured
      <4> DEFINE capture == spans[r.origin].capture
      <4>2. /\ x \in DOMAIN Given(capture) /\ x \in RuleSettings
            /\ spans'[spans'[s].origin].capture = capture
        BY <1>1, <2>3, <3>1, <4>1
      <4>3. x \in DOMAIN c.ctx.prop.layer /\ c.ctx.prop.layer[x] = capture[x]
        BY <1>4, <4>1, <4>2
      <4>4. x \in DOMAIN Given(c.ctx.prop.layer)
        BY <4>2, <4>3 DEF Given
      <4>5. r.capture[x] = c.ctx.prop.layer[x]
        BY <1>1, <2>3, <3>1, <4>1, <4>2, <4>4 DEF Inherits, Captured
      <4>6. Given(capture)[x] = capture[x]
        BY <4>2, GivenAt
      <4> QED BY <1>1, <3>1, <4>2, <4>3, <4>5, <4>6
    <3>2. CASE s \in Ids
      <4>1. /\ spans'[s] = spans[s] /\ Inherits(s) /\ Captured(s)
            /\ spans[s].origin \in Ids
        BY <1>0, <1>1, <1>2, <2>3, <3>2 DEF Inherits, Captured, PropagationBounded
      <4>2. spans'[spans'[s].origin] = spans[spans[s].origin]
        BY <1>1, <4>1
      <4> QED BY <2>3, <3>2, <4>1, <4>2 DEF CaptureIsAsOrdered
    <3> QED BY <2>1, <3>1, <3>2
  <2> QED BY <2>2, <2>3 DEF CaptureIsAsOrdered, Inherits
<1> QED BY <1>5, <1>6

\* A span that is not captured hands down what it found.
LEMMA NoopOrder ==
    ASSUME SpanInv, NEW c \in Callers, NEW site, NEW sf, StartNoop(c, site, sf)
    PROVE  PropagationIsAsMatched' /\ CaptureIsAsOrdered'
<1> DEFINE r == [state |-> "noop", above |-> c.above, parent |-> 0,
                 ctx |-> [c.ctx EXCEPT !.current = NextId], rule |-> NoRule,
                 gated |-> FALSE, capture |-> <<>>, origin |-> 0, grant |-> 0]
<1>1. spans' = Append(spans, r)
  BY DEF StartNoop
<1>2. DOMAIN c.ctx = DOMAIN Background(NoOverride)
  BY CallerFacts DEF SpanInv
<1>3. /\ r.state = "noop"
      /\ r.ctx.override = c.ctx.override
      /\ r.ctx.prop = c.ctx.prop
  BY <1>2 DEF Background
<1> HIDE DEF r
<1> QED BY <1>1, <1>3, NewSpanOrder DEF SpanInv

\* A captured span, given what its action passes on.
LEMMA LiveOrder ==
    ASSUME SpanInv, NEW c \in Callers, NEW site, NEW sf \in SailfishEntries(site),
           NEW layer, DOMAIN layer \subseteq Settings,
           NEW push, NEW rule, NEW gated, NEW grant, NEW origin,
           StartLive(c, sf, layer, push, rule, gated, origin, grant),
           \/ /\ c.ctx.prop.depth > 0 /\ origin = c.ctx.prop.origin
              /\ layer = Given(c.ctx.prop.layer)
              /\ push.origin = c.ctx.prop.origin
              /\ push.layer = c.ctx.prop.layer
           \/ /\ c.ctx.prop.depth = 0 /\ origin \in {0, NextId}
              /\ push # NoPropagation =>
                    /\ push.origin = NextId
                    /\ DOMAIN push.layer = RuleSettings
                    /\ \A x \in RuleSettings :
                          push.layer[x] = Over(layer, Over(sf.layer, globalConfig.layer))[x]
    PROVE  PropagationIsAsMatched' /\ CaptureIsAsOrdered'
<1> DEFINE capture == Decide(c.ctx, sf, layer, push)
           config == Over(sf.layer, globalConfig.layer)
           r == [state |-> "open", above |-> c.above, parent |-> c.ctx.current,
                 ctx |-> HandDown(c.ctx, push, capture), rule |-> rule,
                 gated |-> gated, capture |-> capture, origin |-> origin,
                 grant |-> grant]
<1>0. TypeOK /\ TreeInv /\ PropagationIsAsMatched /\ CaptureIsAsOrdered
  BY DEF SpanInv, TreeInv
<1>1. spans' = Append(spans, r)
  BY DEF StartLive
<1>2. DOMAIN c.ctx = DOMAIN Background(NoOverride)
  BY <1>0, CallerFacts
<1>3. /\ r.ctx.override = c.ctx.override
      /\ r.ctx.prop = IF push = NoPropagation THEN c.ctx.prop ELSE push
  <2> HIDE DEF capture
  <2> QED BY <1>2 DEF Background, HandDown
<1>4. r.origin = origin /\ r.capture = capture
  OBVIOUS
<1>5. c.ctx.override = NoOverride =>
        \A x \in RuleSettings : capture[x] = Over(layer, config)[x]
  <2> SUFFICES ASSUME c.ctx.override = NoOverride, NEW x \in RuleSettings
               PROVE  capture[x] = Over(layer, config)[x]
    OBVIOUS
  <2>1. Decide(c.ctx, sf, layer, push)[x] = Over(layer, Over(sf.layer, globalConfig.layer))[x]
    BY <1>0, DecideByRule
  <2> QED BY <2>1
<1>6. c.ctx.override # NoOverride =>
        \A x \in DOMAIN Given(c.ctx.override.layer) :
            capture[x] = c.ctx.override.layer[x]
  <2> SUFFICES ASSUME c.ctx.override # NoOverride,
                      NEW x \in DOMAIN Given(c.ctx.override.layer)
               PROVE  capture[x] = c.ctx.override.layer[x]
    OBVIOUS
  <2>1. Decide(c.ctx, sf, layer, push)[x] = c.ctx.override.layer[x]
    BY DecideByHeader
  <2> QED BY <2>1
<1> HIDE DEF r, capture, config
<1>7. c.ctx.prop.depth > 0 /\ c.ctx.override = NoOverride =>
        \A x \in RuleSettings \cap DOMAIN Given(c.ctx.prop.layer) :
            r.capture[x] = c.ctx.prop.layer[x]
  <2> SUFFICES ASSUME c.ctx.prop.depth > 0, c.ctx.override = NoOverride,
                      NEW x \in RuleSettings \cap DOMAIN Given(c.ctx.prop.layer)
               PROVE  r.capture[x] = c.ctx.prop.layer[x]
    OBVIOUS
  <2>1. layer = Given(c.ctx.prop.layer)
    OBVIOUS
  <2>2. Over(layer, config)[x] = layer[x]
    BY <2>1, OverAt
  <2> QED BY <1>4, <1>5, <2>1, <2>2, GivenAt
<1>8. r.ctx.prop.depth > 0 /\ c.ctx.override = NoOverride =>
        \/ /\ c.ctx.prop.depth > 0
           /\ r.ctx.prop.origin = c.ctx.prop.origin
           /\ r.ctx.prop.layer = c.ctx.prop.layer
        \/ /\ r.ctx.prop.origin = NextId
           /\ \A x \in RuleSettings : /\ x \in DOMAIN r.ctx.prop.layer
                                      /\ r.ctx.prop.layer[x] = r.capture[x]
  <2>1. CASE push = NoPropagation
    BY <1>3, <2>1
  <2>2. CASE push # NoPropagation /\ c.ctx.prop.depth > 0
    BY <1>3, <2>2
  <2>3. CASE push # NoPropagation /\ c.ctx.prop.depth = 0
    BY <1>3, <1>4, <1>5, <2>3 DEF config
  <2>4. c.ctx.prop.depth > 0 \/ c.ctx.prop.depth = 0
    OBVIOUS
  <2> QED BY <2>1, <2>2, <2>3, <2>4
<1>9. r.origin \notin {0, NextId} =>
        c.ctx.prop.depth > 0 /\ r.origin = c.ctx.prop.origin
  BY <1>4
<1> QED BY <1>0, <1>1, <1>3, <1>4, <1>6, <1>7, <1>8, <1>9, NewSpanOrder

\* A span that inherits a rule applies what its context propagates.
LEMMA InheritingOrder ==
    ASSUME SpanInv, NEW c \in Callers, NEW site, NEW sf \in SailfishEntries(site),
           StartInheriting(c, site, sf)
    PROVE  PropagationIsAsMatched' /\ CaptureIsAsOrdered'
<1> DEFINE prop == c.ctx.prop
           push == [prop EXCEPT !.depth = @ - 1]
<1>1. /\ prop.depth > 0
      /\ StartLive(c, sf, Given(prop.layer), push, prop.rule, FALSE, prop.origin, 0)
  BY DEF StartInheriting
<1>2. /\ DOMAIN prop = DOMAIN NoPropagation
      /\ DOMAIN prop.layer \subseteq Settings
  BY CallerFacts DEF SpanInv
<1>3. push.layer = prop.layer /\ push.origin = prop.origin
  BY <1>2 DEF NoPropagation
<1>4. DOMAIN Given(prop.layer) \subseteq Settings
  BY <1>2, GivenDomain
<1> HIDE DEF push
<1> QED BY <1>1, <1>3, <1>4, LiveOrder

\* A span that matches a rule propagates what it captures.
LEMMA MatchingOrder ==
    ASSUME SpanInv, NEW c \in Callers, NEW site, NEW sf \in SailfishEntries(site),
           NEW facts, NEW k \in DOMAIN rules, StartMatching(c, site, sf, facts, k)
    PROVE  PropagationIsAsMatched' /\ CaptureIsAsOrdered'
<1> DEFINE push == Propagation(rules[k], sf)
           layer == Given(rules[k].layer)
           inForce == Over(layer, Over(sf.layer, globalConfig.layer))
<1>1. /\ c.ctx.prop.depth = 0
      /\ StartLive(c, sf, layer, push, rules[k].id, rules[k].post # {}, NextId,
                   rules[k].depth)
  BY DEF StartMatching
<1>2. DOMAIN layer \subseteq Settings
  <2>1. rules \in RuleSets
    <3>1. DOMAIN <<>> = {} /\ rules \in RuleSets \cup {<<>>}
      BY DEF SpanInv, TreeInv, TypeOK
    <3> QED BY <3>1
  <2>2. DOMAIN rules[k].layer \subseteq RuleSettings
    BY <2>1, RulesAssumption
  <2> QED BY <2>2, GivenDomain DEF Settings
<1>3. push # NoPropagation =>
        /\ push.origin = NextId
        /\ DOMAIN push.layer = RuleSettings
        /\ \A x \in RuleSettings : push.layer[x] = inForce[x]
  <2> HIDE DEF inForce
  <2>1. push = IF rules[k].depth = 0 THEN NoPropagation
               ELSE [rule |-> rules[k].id, depth |-> rules[k].depth, origin |-> NextId,
                     layer |-> [x \in RuleSettings |-> inForce[x]]]
    BY DEF Propagation, inForce
  <2> HIDE DEF push
  <2> QED BY <2>1
<1> HIDE DEF push, layer
<1> QED BY <1>1, <1>2, <1>3, LiveOrder DEF inForce

\* A span without a rule has nothing to propagate.
LEMMA UnmatchedOrder ==
    ASSUME SpanInv, NEW c \in Callers, NEW site, NEW sf \in SailfishEntries(site),
           NEW facts, StartUnmatched(c, site, sf, facts)
    PROVE  PropagationIsAsMatched' /\ CaptureIsAsOrdered'
<1>1. /\ c.ctx.prop.depth = 0
      /\ StartLive(c, sf, <<>>, NoPropagation, NoRule, FALSE, 0, 0)
  BY DEF StartUnmatched
<1>2. DOMAIN <<>> \subseteq Settings
  OBVIOUS
<1> QED BY <1>1, <1>2, LiveOrder

\* What a span captured, and what it hands down, does not change.
LEMMA EndOrder ==
    ASSUME SpanInv, NEW s \in Ids, spans[s].state # "noop",
           NEW state \in {"posted", "dropped"},
           spans' = [spans EXCEPT ![s].state = state]
    PROVE  PropagationIsAsMatched' /\ CaptureIsAsOrdered'
<1>0. TypeOK /\ DepthIsAccounted /\ PropagationBounded
      /\ PropagationIsAsMatched /\ CaptureIsAsOrdered
  BY DEF SpanInv, TreeInv
<1>1. \A t \in Ids : /\ spans'[t].ctx = spans[t].ctx
                     /\ spans'[t].capture = spans[t].capture
                     /\ spans'[t].origin = spans[t].origin
                     /\ Captured(t)' <=> Captured(t)
  BY <1>0, EndFields DEF Captured
<1>2. Ids' = Ids
  BY <1>0, EndFields
<1>3. \A t \in Ids : spans[t].above \subseteq Ids /\ Line(t) \subseteq Ids
  BY <1>0, Enclosed
<1>4. PropagationIsAsMatched'
  <2> SUFFICES ASSUME NEW t \in Ids, spans[t].ctx.prop.depth > 0,
                      spans[t].ctx.override = NoOverride, NEW x \in RuleSettings
               PROVE  /\ x \in DOMAIN spans[t].ctx.prop.layer
                      /\ spans[t].ctx.prop.layer[x]
                            = spans'[spans[t].ctx.prop.origin].capture[x]
    BY <1>1, <1>2 DEF PropagationIsAsMatched
  <2>1. spans[t].ctx.prop.origin \in Ids
    BY <1>0, <1>3 DEF DepthIsAccounted
  <2> QED BY <1>0, <1>1, <2>1 DEF PropagationIsAsMatched
<1>5. CaptureIsAsOrdered'
  <2>1. ASSUME NEW t \in Ids, Captured(t), spans[t].ctx.override # NoOverride,
               NEW x \in DOMAIN Given(spans[t].ctx.override.layer)
        PROVE  spans'[t].capture[x] = spans[t].ctx.override.layer[x]
    BY <1>0, <1>1, <2>1 DEF CaptureIsAsOrdered
  <2>2. ASSUME NEW t \in Ids, Inherits(t), spans[t].ctx.override = NoOverride
        PROVE  /\ spans'[spans[t].origin].capture = spans[spans[t].origin].capture
               /\ \A x \in RuleSettings \cap DOMAIN Given(spans[spans[t].origin].capture) :
                     spans[t].capture[x] = Given(spans[spans[t].origin].capture)[x]
    <3>1. spans[t].origin \in Ids /\ Captured(t)
      BY <1>0, <1>3, <2>2 DEF PropagationBounded, Inherits
    <3> QED BY <1>0, <1>1, <2>2, <3>1 DEF CaptureIsAsOrdered
  <2> QED BY <1>1, <1>2, <2>1, <2>2 DEF CaptureIsAsOrdered, Inherits
<1> QED BY <1>4, <1>5

\* Propagation, suppression, capture and the gate hold of every tree of spans,
\* for every configuration and however the rules are swapped while it grows.
THEOREM SpanInvariant == Spec => []SpanInv
<1>1. Init => SpanInv
  <2>1. Init => Ids = {}
    BY EmptySeq DEF Init, Ids
  <2> QED BY <2>1, InitInv DEF SpanInv, PropagationIsAsMatched, CaptureIsAsOrdered
<1>2. SpanInv /\ [Next]_vars => SpanInv'
  <2> SUFFICES ASSUME SpanInv, [Next]_vars
               PROVE  TreeInv' /\ PropagationIsAsMatched' /\ CaptureIsAsOrdered'
    BY DEF SpanInv
  <2>0. TreeInv'
    BY TreeStep DEF SpanInv
  <2>1. ASSUME NEW c \in Callers, NEW site \in Sites, NEW sf \in SailfishEntries(site),
               Start(c, site, sf)
        PROVE  PropagationIsAsMatched' /\ CaptureIsAsOrdered'
    BY <2>1, NoopOrder, InheritingOrder, MatchingOrder, UnmatchedOrder DEF Start
  <2>2. ASSUME NEW s \in Ids, NEW facts \in SUBSET Facts,
               EndPosted(s, facts) \/ EndDropped(s, facts)
        PROVE  PropagationIsAsMatched' /\ CaptureIsAsOrdered'
    BY <2>2, EndOrder DEF EndPosted, EndDropped
  <2>3. ASSUME UNCHANGED spans
        PROVE  PropagationIsAsMatched' /\ CaptureIsAsOrdered'
    BY <2>3 DEF SpanInv, PropagationIsAsMatched, CaptureIsAsOrdered, Ids, Captured, Inherits
  <2> QED BY <2>0, <2>1, <2>2, <2>3 DEF Next, SetRules, vars
<1> QED BY <1>1, <1>2, PTL DEF Spec

\* No rule reaches further than its depth, whatever the tree and the rules.
THEOREM PropagationIsBounded == Spec => []PropagationBounded
<1>1. SpanInv => PropagationBounded
  BY DEF SpanInv, TreeInv
<1> QED BY SpanInvariant, <1>1, PTL

\* Nothing is captured below a span that suppresses its children.
THEOREM SuppressionReachesAll == Spec => []SuppressedSubtreeIsSilent
<1>1. SpanInv => SuppressedSubtreeIsSilent
  BY DEF SpanInv, TreeInv
<1> QED BY SpanInvariant, <1>1, PTL

\* Only a span that matched a gated rule by itself is ever dropped at its end.
THEOREM DropsAreGated == Spec => []OnlyGatedMatchesAreDropped
<1>1. SpanInv => OnlyGatedMatchesAreDropped
  BY DEF SpanInv, TreeInv
<1> QED BY SpanInvariant, <1>1, PTL

\* A header decides for its request, and without one a span that inherits a
\* rule captures what the span that matched it captures, through every tree.
THEOREM CapturesAreOrdered == Spec => []CaptureIsAsOrdered
<1>1. SpanInv => CaptureIsAsOrdered
  BY DEF SpanInv
<1> QED BY SpanInvariant, <1>1, PTL

=============================================================================
