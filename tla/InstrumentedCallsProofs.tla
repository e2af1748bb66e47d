------------------------ MODULE InstrumentedCallsProofs ------------------------
(***************************************************************************)
(* Instrumented programs, proved for every program: any packages, call     *)
(* graph, deferred functions, results and panics, and any number of        *)
(* goroutines.  CallsInv and the two properties of spans and reports are   *)
(* inductive together; with them every step is one of PlainCalls, or one   *)
(* that PlainCalls does not see.                                           *)
(***************************************************************************)
EXTENDS InstrumentedCalls, SequenceTheorems, TLAPS

USE DeferredAssumption, OutcomesAssumption

Inductive == CallsInv /\ SpansEndWithTheirCalls /\ OneReportPerPanic

-----------------------------------------------------------------------------
(* The stack of one goroutine.                                             *)

\* Some of a function's deferred functions, and all but the last of them.
LEMMA DefersTypes ==
    /\ \A fn \in AllFuncs : \A k \in 0..Len(Deferred[fn]) :
          SubSeq(Deferred[fn], 1, k) \in Seq(DeferKinds)
    /\ \A d \in Seq(DeferKinds) : d # <<>> => SubSeq(d, 1, Len(d) - 1) \in Seq(DeferKinds)
<1>1. ASSUME NEW fn \in AllFuncs, NEW k \in 0..Len(Deferred[fn])
      PROVE  SubSeq(Deferred[fn], 1, k) \in Seq(DeferKinds)
  <2>1. Deferred[fn] \in Seq(DeferKinds)
    OBVIOUS
  <2>2. Len(Deferred[fn]) \in Nat
    BY <2>1, LenProperties
  <2> QED BY <2>1, <2>2, SubSeqProperties
<1>2. ASSUME NEW d \in Seq(DeferKinds), d # <<>>
      PROVE  SubSeq(d, 1, Len(d) - 1) \in Seq(DeferKinds)
  <2>1. Len(d) \in Nat \ {0}
    BY <1>2, EmptySeq
  <2> QED BY <2>1, SubSeqProperties
<1> QED BY <1>1, <1>2

\* The innermost frame of a stack.
LEMMA TopFrame ==
    ASSUME NEW s \in Seq(Frames), s # <<>>
    PROVE  Len(s) \in Nat \ {0} /\ Len(s) \in 1..Len(s) /\ s[Len(s)] \in Frames
           /\ DOMAIN s = 1..Len(s) /\ \A k \in 1..Len(s) : s[k] \in Frames
<1>1. Len(s) \in Nat \ {0}
  BY EmptySeq
<1>2. \A k \in 1..Len(s) : s[k] \in Frames
  BY ElementOfSeq
<1> QED BY <1>1, <1>2, LenProperties

\* What OpenSpans says of one frame, when u unwinds.
Open(frame, u) ==
    /\ frame.ends = 0 /\ frame.told = None
    /\ frame.phase = "reported" =>
          /\ frame.fn \in Instrumented
          /\ frame.defers = <<>>
          /\ frame.held \in Messages
          /\ u = None

StackOpen(s, u) ==
    /\ s # <<>> /\ u # None => s[Len(s)].phase = "exiting"
    /\ \A k \in 1..Len(s) : Open(s[k], u) /\ (k < Len(s) => s[k].phase = "body")

\* OpenSpans, one goroutine at a time.
LEMMA OpenSpansByGoroutine ==
    ASSUME TypeOK
    PROVE  OpenSpans <=> \A g \in Goroutines : StackOpen(stack[g], unwinding[g])
<1>1. \A g \in Goroutines : stack[g] \in Seq(Frames)
  BY DEF TypeOK
<1>2. \A g \in Goroutines : DOMAIN stack[g] = 1..Len(stack[g])
  BY <1>1, LenProperties
<1> QED BY <1>2 DEF OpenSpans, StackOpen, Open, Top

\* The innermost frame is replaced.
LEMMA SetTopOpen ==
    ASSUME NEW s \in Seq(Frames), s # <<>>, NEW u, NEW v, StackOpen(s, u),
           NEW f \in Frames, Open(f, v), v # None => f.phase = "exiting"
    PROVE  LET t == [s EXCEPT ![Len(s)] = f] IN
           /\ t \in Seq(Frames) /\ t # <<>> /\ Len(t) = Len(s) /\ t[Len(t)] = f
           /\ StackOpen(t, v)
<1> DEFINE t == [s EXCEPT ![Len(s)] = f]
<1>1. Len(s) \in Nat \ {0} /\ Len(s) \in 1..Len(s) /\ DOMAIN s = 1..Len(s)
  BY TopFrame
<1>2. t \in Seq(Frames) /\ Len(t) = Len(s)
      /\ \A k \in 1..Len(s) : t[k] = IF k = Len(s) THEN f ELSE s[k]
  BY <1>1, ExceptSeq
<1> HIDE DEF t
<1>3. t # <<>> /\ DOMAIN t = 1..Len(s) /\ t[Len(t)] = f
  BY <1>1, <1>2, EmptySeq, LenProperties
<1>4. \A k \in 1..Len(s) : k # Len(s) => s[k].phase = "body" /\ Open(s[k], u)
  BY <1>1 DEF StackOpen
<1>5. \A k \in 1..Len(s) : k # Len(s) => s[k].phase = "body" /\ Open(s[k], v)
  BY <1>4 DEF Open
<1>6. \A k \in 1..Len(t) : Open(t[k], v) /\ (k < Len(t) => t[k].phase = "body")
  <2> TAKE k \in 1..Len(t)
  <2>1. CASE k = Len(s)
    <3>1. Len(t) = Len(s) /\ Len(s) \in Nat
      BY <1>1, <1>2
    <3>2. ~(k < Len(t))
      BY <2>1, <3>1
    <3>3. t[k] = f
      BY <1>1, <1>2, <2>1
    <3> QED BY <3>2, <3>3
  <2>2. CASE k # Len(s)
    <3>1. t[k] = s[k] /\ k \in 1..Len(s)
      BY <1>2, <2>2
    <3> QED BY <1>5, <2>2, <3>1
  <2> QED BY <2>1, <2>2
<1>7. StackOpen(t, v)
  BY <1>3, <1>6 DEF StackOpen
<1> QED BY <1>2, <1>3, <1>7 DEF t

\* A frame is put on top.
LEMMA PushOpen ==
    ASSUME NEW s \in Seq(Frames), StackOpen(s, None), s # <<>> => s[Len(s)].phase = "body",
           NEW f \in Frames, Open(f, None)
    PROVE  LET t == Append(s, f) IN
           /\ t \in Seq(Frames) /\ t # <<>> /\ t[Len(t)] = f
           /\ StackOpen(t, None)
<1> DEFINE t == Append(s, f)
<1>1. t \in Seq(Frames) /\ t # <<>> /\ Len(t) = Len(s) + 1 /\ t[Len(s) + 1] = f
      /\ \A k \in 1..Len(s) : t[k] = s[k]
  BY AppendProperties
<1>2. Len(s) \in Nat /\ DOMAIN s = 1..Len(s) /\ DOMAIN t = 1..(Len(s) + 1)
  BY <1>1, LenProperties
<1> HIDE DEF t
<1>3. \A k \in 1..Len(s) : Open(s[k], None) /\ s[k].phase = "body"
  BY <1>2, EmptySeq DEF StackOpen
<1>4. StackOpen(t, None)
  BY <1>1, <1>2, <1>3 DEF StackOpen
<1> QED BY <1>1, <1>4 DEF t

\* The innermost frame is taken away, and what unwinds, v, goes on in the caller.
LEMMA PopOpen ==
    ASSUME NEW s \in Seq(Frames), s # <<>>, NEW u, NEW v, StackOpen(s, u)
    PROVE  LET rest == SubSeq(s, 1, Len(s) - 1)
               t == IF v = None \/ rest = <<>> THEN rest
                    ELSE [rest EXCEPT ![Len(rest)].phase = "exiting",
                                      ![Len(rest)].value = None]
           IN  /\ t \in Seq(Frames) /\ Len(t) = Len(s) - 1
               /\ t # <<>> => t[Len(t)].phase = IF v = None THEN "body" ELSE "exiting"
               /\ StackOpen(t, v)
<1> DEFINE rest == SubSeq(s, 1, Len(s) - 1)
           f == [rest[Len(rest)] EXCEPT !.phase = "exiting", !.value = None]
           t == IF v = None \/ rest = <<>> THEN rest
                ELSE [rest EXCEPT ![Len(rest)].phase = "exiting",
                                  ![Len(rest)].value = None]
<1>1. Len(s) \in Nat \ {0} /\ DOMAIN s = 1..Len(s) /\ \A k \in 1..Len(s) : s[k] \in Frames
  BY TopFrame
<1>2. rest \in Seq(Frames) /\ Len(rest) = Len(s) - 1
      /\ \A k \in 1..Len(s) - 1 : rest[k] = s[k]
  BY <1>1, SubSeqProperties
<1>3. DOMAIN rest = 1..Len(rest)
  BY <1>2, LenProperties
<1>4. \A k \in 1..Len(rest) : Open(rest[k], u) /\ rest[k].phase = "body"
  BY <1>1, <1>2 DEF StackOpen
<1>5. \A k \in 1..Len(rest) : rest[k].phase = "body" /\ \A w : Open(rest[k], w)
  BY <1>4 DEF Open
<1>6. CASE v = None \/ rest = <<>>
  <2>1. t = rest
    BY <1>6
  <2> HIDE DEF rest, t
  <2>2. rest # <<>> => v = None /\ Len(rest) \in 1..Len(rest)
    BY <1>1, <1>2, <1>6, EmptySeq
  <2>3. StackOpen(rest, v)
    BY <1>3, <1>5, <2>2 DEF StackOpen
  <2>4. rest # <<>> => rest[Len(rest)].phase = "body"
    BY <1>5, <2>2
  <2> QED BY <1>2, <1>6, <2>1, <2>2, <2>3, <2>4 DEF t, rest
<1>7. CASE v # None /\ rest # <<>>
  <2>1. Len(rest) \in 1..Len(rest)
    BY <1>2, <1>7, TopFrame
  <2>2. t = [rest EXCEPT ![Len(rest)] = f]
    BY <1>7
  <2>3. rest[Len(rest)] \in Frames
    BY <1>2, <2>1, ElementOfSeq
  <2>4. f \in Frames
    BY <2>3 DEF Frames
  <2>5. Open(f, v) /\ f.phase = "exiting"
    <3>1. Open(rest[Len(rest)], v)
      BY <1>5, <2>1
    <3> QED BY <2>3, <3>1 DEF Open, Frames
  <2>6. StackOpen(rest, None)
    BY <1>3, <1>5 DEF StackOpen
  <2> HIDE DEF rest, f
  <2>7. LET x == [rest EXCEPT ![Len(rest)] = f] IN
        /\ x \in Seq(Frames) /\ x # <<>> /\ Len(x) = Len(rest) /\ x[Len(x)] = f
        /\ StackOpen(x, v)
    BY <1>2, <1>7, <2>4, <2>5, <2>6, SetTopOpen
  <2> HIDE DEF t
  <2>8. /\ t \in Seq(Frames) /\ Len(t) = Len(rest) /\ t[Len(t)] = f /\ StackOpen(t, v)
    BY <2>2, <2>7
  <2> QED BY <1>2, <1>7, <2>5, <2>8 DEF t, rest
<1> QED BY <1>6, <1>7

-----------------------------------------------------------------------------
(* Trails.                                                                 *)

\* A goroutine whose innermost call is not being reported unwinds what it says.
LEMMA FlightIsUnwinding ==
    \A g \in Goroutines :
        (stack[g] # <<>> => Top(g).phase # "reported") => InFlight(g) = unwinding[g]
BY DEF InFlight

\* TrailIsRemembered and OneReportPerPanic of one goroutine.
Remembered(t, u, r) ==
    t # <<>> => u \in Messages /\ (t[Len(t)] = "forgotten" \/ u \in r)
SentOnce(t) ==
    \A i, j \in DOMAIN t :
        i < j /\ t[j] = "sent" => \E k \in i..j : t[k] = "forgotten"

\* Nothing is wrong with a trail before the first report.
LEMMA NoTrail == SentOnce(<<>>) /\ \A u, r : Remembered(<<>>, u, r)
BY DEF SentOnce, Remembered

\* A report, or that the ring forgets, is put to the trail.
LEMMA TrailGrows ==
    ASSUME NEW t \in Seq(Reports), NEW x \in Reports, SentOnce(t),
           x = "sent" /\ t # <<>> => t[Len(t)] = "forgotten"
    PROVE  LET a == Append(t, x) IN
           a \in Seq(Reports) /\ a # <<>> /\ a[Len(a)] = x /\ SentOnce(a)
<1> DEFINE a == Append(t, x)
<1>1. a \in Seq(Reports) /\ a # <<>> /\ Len(a) = Len(t) + 1 /\ a[Len(t) + 1] = x
      /\ \A k \in 1..Len(t) : a[k] = t[k]
  BY AppendProperties
<1>2. Len(t) \in Nat /\ DOMAIN t = 1..Len(t) /\ DOMAIN a = 1..(Len(t) + 1)
  BY <1>1, LenProperties
<1> HIDE DEF a
<1>3. SentOnce(a)
  <2> SUFFICES ASSUME NEW i \in DOMAIN a, NEW j \in DOMAIN a, i < j, a[j] = "sent"
               PROVE  \E k \in i..j : a[k] = "forgotten"
    BY DEF SentOnce
  <2>1. i \in 1..Len(t) /\ j \in 1..(Len(t) + 1)
    BY <1>2
  <2>2. CASE j = Len(t) + 1
    <3>1. x = "sent" /\ t # <<>>
      BY <1>1, <2>1, <2>2, EmptySeq
    <3>2. a[Len(t)] = "forgotten" /\ Len(t) \in i..j
      BY <1>1, <1>2, <2>1, <2>2, <3>1
    <3> QED BY <3>2
  <2>3. CASE j # Len(t) + 1
    <3>1. j \in 1..Len(t) /\ t[j] = "sent"
      BY <1>1, <1>2, <2>1, <2>3
    <3>2. PICK k \in i..j : t[k] = "forgotten"
      BY <1>2, <2>1, <3>1 DEF SentOnce
    <3> QED BY <1>1, <2>1, <3>1, <3>2
  <2> QED BY <2>2, <2>3
<1> QED BY <1>1, <1>2, <1>3 DEF a

-----------------------------------------------------------------------------
(* A step of one goroutine.                                                *)

Unwindings == Messages \cup {None, Goexit}

\* What the invariant says of one goroutine.
LEMMA OfOne ==
    ASSUME Inductive, NEW g \in Goroutines
    PROVE  /\ stack \in [Goroutines -> Seq(Frames)] /\ stack[g] \in Seq(Frames)
           /\ unwinding \in [Goroutines -> Unwindings] /\ unwinding[g] \in Unwindings
           /\ trail \in [Goroutines -> Seq(Reports)] /\ trail[g] \in Seq(Reports)
           /\ recent \subseteq Messages /\ exited \subseteq Goroutines
           /\ StackOpen(stack[g], unwinding[g])
           /\ Remembered(trail[g], InFlight(g), recent)
           /\ SentOnce(trail[g])
           /\ stack[g] # <<>> => Top(g) \in Frames /\ Open(Top(g), unwinding[g])
           /\ InFlight(g) \notin Messages => trail[g] = <<>>
<1>1. TypeOK /\ OpenSpans /\ TrailIsRemembered /\ OneReportPerPanic
  BY DEF Inductive, CallsInv
<1>2. /\ stack \in [Goroutines -> Seq(Frames)] /\ stack[g] \in Seq(Frames)
      /\ unwinding \in [Goroutines -> Unwindings] /\ unwinding[g] \in Unwindings
      /\ trail \in [Goroutines -> Seq(Reports)] /\ trail[g] \in Seq(Reports)
      /\ recent \subseteq Messages /\ exited \subseteq Goroutines
  BY <1>1 DEF TypeOK, Unwindings
<1>3. StackOpen(stack[g], unwinding[g])
  BY <1>1, OpenSpansByGoroutine
<1>4. Remembered(trail[g], InFlight(g), recent) /\ SentOnce(trail[g])
  BY <1>1 DEF TrailIsRemembered, Remembered, OneReportPerPanic, SentOnce
<1>5. stack[g] # <<>> => Top(g) \in Frames /\ Open(Top(g), unwinding[g])
  BY <1>2, <1>3, TopFrame DEF Top, StackOpen
<1>6. InFlight(g) \notin Messages => trail[g] = <<>>
  BY <1>4 DEF Remembered
<1> QED BY <1>2, <1>3, <1>4, <1>5, <1>6

\* When a panic is recovered, only Goexit can go on.
LEMMA RecoveredIsNoPanic == \A g : Recovered(g) \in Unwindings \ Messages
BY DEF Recovered, Unwindings

\* Which functions have spans does not change with it.
LEMMA OpenNext ==
    ASSUME NEW h, Instrumented' = Instrumented, StackOpen(stack'[h], unwinding'[h])
    PROVE  StackOpen(stack[h], unwinding[h])'
BY DEF StackOpen, Open

\* A goroutine that leaves its own stack and trail in order, and the ring with no
\* less in it, keeps the invariant.
LEMMA StepOfOne ==
    ASSUME Inductive, NEW g \in Goroutines, UNCHANGED build,
           stack' \in [Goroutines -> Seq(Frames)],
           unwinding' \in [Goroutines -> Unwindings],
           trail' \in [Goroutines -> Seq(Reports)], exited' \subseteq Goroutines,
           recent \subseteq recent', recent' \subseteq Messages,
           \A h \in Goroutines : h # g =>
              stack'[h] = stack[h] /\ unwinding'[h] = unwinding[h] /\ trail'[h] = trail[h],
           StackOpen(stack'[g], unwinding'[g]),
           Remembered(trail'[g], InFlight(g)', recent'),
           SentOnce(trail'[g]),
           last' # NoCall => last'.fn \in AllFuncs
    PROVE  CallsInv' /\ OneReportPerPanic'
<1>1. TypeOK'
  BY DEF Inductive, CallsInv, TypeOK, build, Unwindings
<1>2. Instrumented' = Instrumented
  BY DEF build, Instrumented
<1>3. ASSUME NEW h \in Goroutines PROVE StackOpen(stack'[h], unwinding'[h])
  <2>1. StackOpen(stack[h], unwinding[h])
    BY OfOne
  <2> QED BY <2>1
<1>4. ASSUME NEW h \in Goroutines PROVE StackOpen(stack[h], unwinding[h])'
  BY <1>2, <1>3, OpenNext
<1>5. OpenSpans'
  <2>1. \A h \in Goroutines : DOMAIN stack'[h] = 1..Len(stack'[h])
    BY LenProperties
  <2> QED BY <1>4, <2>1 DEF OpenSpans, StackOpen, Open, Top
<1>6. ASSUME NEW h \in Goroutines PROVE Remembered(trail'[h], InFlight(h)', recent')
  <2>1. CASE h = g
    BY <2>1
  <2>2. CASE h # g
    <3>1. InFlight(h)' = InFlight(h)
      BY <2>2 DEF InFlight, Top
    <3>2. Remembered(trail[h], InFlight(h), recent)
      BY OfOne
    <3> QED BY <2>2, <3>1, <3>2 DEF Remembered
  <2> QED BY <2>1, <2>2
<1>7. TrailIsRemembered'
  BY <1>6 DEF TrailIsRemembered, Remembered
<1>8. ASSUME NEW h \in Goroutines PROVE SentOnce(trail'[h])
  <2>1. SentOnce(trail[h])
    BY OfOne
  <2> QED BY <2>1
<1>9. OneReportPerPanic'
  BY <1>8 DEF OneReportPerPanic, SentOnce
<1> QED BY <1>1, <1>5, <1>7, <1>9 DEF CallsInv

\* A step that ends no call says nothing of spans.
LEMMA NothingEnded == last' = NoCall => SpansEndWithTheirCalls'
BY DEF SpansEndWithTheirCalls, NoCall

\* A function is called.
LEMMA CallStep ==
    ASSUME Inductive, NEW g \in Goroutines, NEW fn \in AllFuncs,
           NEW k \in 0..Len(Deferred[fn]), Call(g, fn, k)
    PROVE  Inductive'
<1> DEFINE f == [fn |-> fn, phase |-> "body", value |-> None, held |-> None,
                 defers |-> SubSeq(Deferred[fn], 1, k), ends |-> 0, told |-> None]
<1>1. f \in Frames /\ Open(f, None) /\ f.phase = "body"
  BY DefersTypes DEF Frames, Open
<1>2. /\ UNCHANGED <<build, unwinding, exited, recent, trail>> /\ last' = NoCall
      /\ stack' = [stack EXCEPT ![g] = Append(@, f)]
      /\ unwinding[g] = None /\ (stack[g] # <<>> => Top(g).phase = "body")
  BY DEF Call, Running
<1> HIDE DEF f
<1>3. stack' = [stack EXCEPT ![g] = Append(stack[g], f)] /\ stack'[g] = Append(stack[g], f)
  BY <1>2, OfOne
<1>4. /\ Append(stack[g], f) \in Seq(Frames) /\ stack'[g] # <<>>
      /\ stack'[g][Len(stack'[g])] = f /\ StackOpen(stack'[g], None)
  <2>1. /\ stack[g] \in Seq(Frames) /\ StackOpen(stack[g], None)
        /\ stack[g] # <<>> => stack[g][Len(stack[g])].phase = "body"
    BY <1>2, OfOne DEF Top
  <2>2. LET t == Append(stack[g], f) IN
        t \in Seq(Frames) /\ t # <<>> /\ t[Len(t)] = f /\ StackOpen(t, None)
    BY <1>1, <2>1, PushOpen
  <2> QED BY <1>3, <2>2
<1>5. InFlight(g) = None /\ InFlight(g)' = None
  BY <1>1, <1>2, <1>4 DEF InFlight, Top
<1>6. CallsInv' /\ OneReportPerPanic'
  <2>1. Remembered(trail'[g], InFlight(g)', recent')
    BY <1>2, <1>5, OfOne
  <2>2. SentOnce(trail'[g]) /\ exited' \subseteq Goroutines
    BY <1>2, OfOne
  <2>3. /\ stack' \in [Goroutines -> Seq(Frames)]
        /\ unwinding' \in [Goroutines -> Unwindings]
        /\ trail' \in [Goroutines -> Seq(Reports)]
        /\ recent \subseteq recent' /\ recent' \subseteq Messages
    BY <1>2, <1>3, <1>4, OfOne
  <2>4. \A h \in Goroutines : h # g =>
           stack'[h] = stack[h] /\ unwinding'[h] = unwinding[h] /\ trail'[h] = trail[h]
    BY <1>2, <1>3
  <2>5. StackOpen(stack'[g], unwinding'[g])
    BY <1>2, <1>4
  <2> QED BY <1>2, <2>1, <2>2, <2>3, <2>4, <2>5, StepOfOne
<1> QED BY <1>2, <1>6, NothingEnded DEF Inductive

\* A function returns, panics or calls Goexit.
LEMMA ExitStep ==
    ASSUME Inductive, NEW g \in Goroutines, NEW v \in Outcomes \cup {None},
           NEW u \in Unwindings, Exit(g, v, u)
    PROVE  Inductive'
<1> DEFINE f == [Top(g) EXCEPT !.phase = "exiting", !.value = v]
           t == IF u \in Messages THEN <<>> ELSE trail[g]
<1>1. /\ UNCHANGED <<build, recent>> /\ last' = NoCall
      /\ stack[g] # <<>> /\ unwinding[g] = None /\ Top(g).phase = "body"
      /\ stack' = SetTop(g, f)
      /\ unwinding' = [unwinding EXCEPT ![g] = u]
      /\ trail' = [trail EXCEPT ![g] = IF u \in Messages THEN <<>> ELSE @]
  BY DEF Exit, Running
<1>2. Top(g) \in Frames /\ Open(Top(g), None)
  BY <1>1, OfOne
<1>3. f \in Frames /\ Open(f, u) /\ f.phase = "exiting"
  BY <1>2 DEF Frames, Open
<1>4. trail[g] = <<>>
  <2>1. InFlight(g) = None
    BY <1>1 DEF InFlight
  <2> QED BY <2>1, OfOne
<1>5. t = <<>> /\ trail'[g] = <<>> /\ trail' \in [Goroutines -> Seq(Reports)]
  BY <1>1, <1>4, OfOne, EmptySeq
<1> HIDE DEF f, t
<1>6. stack' = [stack EXCEPT ![g] = [stack[g] EXCEPT ![Len(stack[g])] = f]]
      /\ stack'[g] = [stack[g] EXCEPT ![Len(stack[g])] = f]
  BY <1>1, OfOne DEF SetTop
<1>7. stack'[g] \in Seq(Frames) /\ StackOpen(stack'[g], u)
  BY <1>1, <1>3, <1>6, OfOne, SetTopOpen
<1>8. SentOnce(trail'[g]) /\ Remembered(trail'[g], InFlight(g)', recent')
  BY <1>5, NoTrail
<1>9. CallsInv' /\ OneReportPerPanic'
  <2>1. /\ stack' \in [Goroutines -> Seq(Frames)] /\ unwinding' \in [Goroutines -> Unwindings]
        /\ unwinding'[g] = u /\ recent' \subseteq Messages
    BY <1>1, <1>6, <1>7, OfOne
  <2>3. exited' \subseteq Goroutines
    BY OfOne DEF Exit
  <2>2. \A h \in Goroutines : h # g =>
           stack'[h] = stack[h] /\ unwinding'[h] = unwinding[h] /\ trail'[h] = trail[h]
    BY <1>1, <1>6, OfOne
  <2> QED BY <1>1, <1>5, <1>7, <1>8, <2>1, <2>2, <2>3, StepOfOne
<1> QED BY <1>1, <1>9, NothingEnded DEF Inductive

\* A step that only replaces the innermost frame, and what unwinds.
LEMMA TopStep ==
    ASSUME Inductive, NEW g \in Goroutines, UNCHANGED <<build, exited>>, last' = NoCall,
           stack[g] # <<>>, NEW f \in Frames, stack' = SetTop(g, f),
           NEW u \in Unwindings, unwinding' = [unwinding EXCEPT ![g] = u],
           NEW t \in Seq(Reports), trail' = [trail EXCEPT ![g] = t],
           recent \subseteq recent', recent' \subseteq Messages,
           Open(f, u), u # None => f.phase = "exiting",
           Remembered(t, IF f.phase = "reported" THEN f.held ELSE u, recent'),
           SentOnce(t)
    PROVE  Inductive'
<1>1. stack' = [stack EXCEPT ![g] = [stack[g] EXCEPT ![Len(stack[g])] = f]]
      /\ stack'[g] = [stack[g] EXCEPT ![Len(stack[g])] = f]
  BY OfOne DEF SetTop
<1>2. /\ stack'[g] \in Seq(Frames) /\ stack'[g] # <<>>
      /\ stack'[g][Len(stack'[g])] = f /\ StackOpen(stack'[g], u)
  BY <1>1, OfOne, SetTopOpen
<1>3. /\ stack' \in [Goroutines -> Seq(Frames)]
      /\ unwinding' \in [Goroutines -> Unwindings] /\ unwinding'[g] = u
      /\ trail' \in [Goroutines -> Seq(Reports)] /\ trail'[g] = t
      /\ \A h \in Goroutines : h # g =>
            stack'[h] = stack[h] /\ unwinding'[h] = unwinding[h] /\ trail'[h] = trail[h]
  BY <1>1, <1>2, OfOne
<1>4. InFlight(g)' = IF f.phase = "reported" THEN f.held ELSE u
  BY <1>2, <1>3 DEF InFlight, Top
<1>5. CallsInv' /\ OneReportPerPanic'
  <2>1. StackOpen(stack'[g], unwinding'[g]) /\ SentOnce(trail'[g])
    BY <1>2, <1>3
  <2>2. Remembered(trail'[g], InFlight(g)', recent')
    BY <1>3, <1>4
  <2>3. UNCHANGED build /\ recent \subseteq recent' /\ recent' \subseteq Messages
        /\ last' = NoCall /\ exited' \subseteq Goroutines
    BY OfOne
  <2>4. /\ stack' \in [Goroutines -> Seq(Frames)]
        /\ unwinding' \in [Goroutines -> Unwindings]
        /\ trail' \in [Goroutines -> Seq(Reports)]
        /\ \A h \in Goroutines : h # g =>
              stack'[h] = stack[h] /\ unwinding'[h] = unwinding[h] /\ trail'[h] = trail[h]
    BY <1>3
  <2> QED BY <2>1, <2>2, <2>3, <2>4, StepOfOne
<1> QED BY <1>5, NothingEnded DEF Inductive

\* One of the program's deferred functions runs.
LEMMA RunDeferredStep ==
    ASSUME Inductive, NEW g \in Goroutines, NEW v \in Outcomes, NEW m \in Messages,
           RunDeferred(g, v, m)
    PROVE  Inductive'
<1> DEFINE d == Top(g).defers[Len(Top(g).defers)]
           recovers == d = "recover" /\ unwinding[g] \in Messages
           panics == d = "panic"
           f == [Top(g) EXCEPT !.value = IF recovers \/ d = "alter" THEN v ELSE @,
                               !.defers = SubSeq(@, 1, Len(@) - 1)]
           u == IF recovers THEN Recovered(g) ELSE IF panics THEN m ELSE unwinding[g]
           t == IF recovers \/ panics THEN <<>> ELSE trail[g]
<1>1. /\ UNCHANGED <<build, exited, recent>> /\ last' = NoCall
      /\ stack[g] # <<>> /\ Top(g).phase = "exiting" /\ Top(g).defers # <<>>
      /\ stack' = SetTop(g, f)
      /\ unwinding' = [unwinding EXCEPT ![g] = u]
      /\ trail' = [trail EXCEPT ![g] = t]
  BY OfOne DEF RunDeferred, Exiting
<1>2. Top(g) \in Frames /\ Open(Top(g), unwinding[g])
  BY <1>1, OfOne
<1>3. SubSeq(Top(g).defers, 1, Len(Top(g).defers) - 1) \in Seq(DeferKinds)
  BY <1>1, <1>2, DefersTypes DEF Frames
<1> HIDE DEF d, recovers, panics
<1>4. f \in Frames /\ Open(f, u) /\ f.phase = "exiting"
  BY <1>1, <1>2, <1>3 DEF Frames, Open
<1>5. u \in Unwindings
  BY OfOne, RecoveredIsNoPanic DEF Unwindings
<1>6. t \in Seq(Reports) /\ SentOnce(t)
  BY OfOne, EmptySeq, NoTrail
<1>7. InFlight(g) = unwinding[g]
  BY <1>1, FlightIsUnwinding
<1>8. Remembered(t, u, recent')
  <2>1. CASE recovers \/ panics
    BY <2>1, NoTrail
  <2>2. CASE ~(recovers \/ panics)
    BY <1>1, <1>7, <2>2, OfOne
  <2> QED BY <2>1, <2>2
<1> HIDE DEF f, u, t
<1> QED BY <1>1, <1>4, <1>5, <1>6, <1>8, OfOne, TopStep

\* The deferred function that was put in reports a panic.
LEMMA ReportPanicStep ==
    ASSUME Inductive, NEW g \in Goroutines, ReportPanic(g)
    PROVE  Inductive'
<1> DEFINE f == [Top(g) EXCEPT !.phase = "reported", !.held = unwinding[g]]
           t == Append(trail[g], Sent(unwinding[g]))
<1>1. /\ UNCHANGED <<build, exited>> /\ last' = NoCall
      /\ stack[g] # <<>> /\ Top(g).phase = "exiting" /\ Top(g).defers = <<>>
      /\ Top(g).fn \in Instrumented /\ unwinding[g] \in Messages
      /\ stack' = SetTop(g, f)
      /\ unwinding' = [unwinding EXCEPT ![g] = None]
      /\ trail' = [trail EXCEPT ![g] = t]
      /\ recent' = recent \cup {unwinding[g]}
  BY OfOne DEF ReportPanic, Unwound, Exiting
<1>2. Top(g) \in Frames /\ Open(Top(g), unwinding[g])
  BY <1>1, OfOne
<1>3. f \in Frames /\ Open(f, None) /\ f.phase = "reported" /\ f.held = unwinding[g]
  BY <1>1, <1>2 DEF Frames, Open
<1>4. InFlight(g) = unwinding[g]
  BY <1>1, FlightIsUnwinding
<1>5. Sent(unwinding[g]) = "sent" /\ trail[g] # <<>> => trail[g][Len(trail[g])] = "forgotten"
  BY <1>4, OfOne DEF Sent, Remembered
<1>6. Sent(unwinding[g]) \in Reports
  BY DEF Sent, Reports
<1>7. t \in Seq(Reports) /\ SentOnce(t)
  BY <1>5, <1>6, OfOne, TrailGrows
<1>8. Remembered(t, f.held, recent')
  BY <1>1, <1>3 DEF Remembered
<1>9. None \in Unwindings
  BY DEF Unwindings
<1> HIDE DEF f, t
<1> QED BY <1>1, <1>3, <1>7, <1>8, <1>9, OfOne, TopStep

\* What unwinds an empty stack ends with the goroutine's call.
LEMMA BottomStep ==
    ASSUME Inductive, NEW g \in Goroutines, Bottom(g)
    PROVE  Inductive'
<1>1. /\ UNCHANGED <<build, stack, recent>> /\ last' = NoCall /\ stack[g] = <<>>
      /\ unwinding' = [unwinding EXCEPT ![g] = None]
      /\ trail' = [trail EXCEPT ![g] = <<>>] /\ exited' = exited \ {g}
  BY DEF Bottom
<1>2. unwinding' \in [Goroutines -> Unwindings] /\ trail' \in [Goroutines -> Seq(Reports)]
      /\ unwinding'[g] = None /\ trail'[g] = <<>>
  BY <1>1, OfOne, EmptySeq DEF Unwindings
<1>3. Len(<<>>) = 0
  BY EmptySeq
<1>4. StackOpen(stack'[g], None)
  BY <1>1, <1>3 DEF StackOpen
<1>5. CallsInv' /\ OneReportPerPanic'
  BY <1>1, <1>2, <1>4, OfOne, NoTrail, StepOfOne
<1> QED BY <1>1, <1>5, NothingEnded DEF Inductive

-----------------------------------------------------------------------------
(* A call is left.                                                         *)

\* What unwinds goes on in the caller, with its trail or with none.
LEMMA LeaveStep ==
    ASSUME Inductive, NEW g \in Goroutines, UNCHANGED <<build, exited>>, stack[g] # <<>>,
           NEW u \in Unwindings, NEW frame, frame.fn \in AllFuncs, Leave(g, u, frame),
           recent \subseteq recent', recent' \subseteq Messages,
           NEW t \in Seq(Reports), trail' = [trail EXCEPT ![g] = t],
           t = <<>> \/ (t = trail[g] /\ u = InFlight(g))
    PROVE  CallsInv' /\ OneReportPerPanic'
<1> DEFINE rest == SubSeq(stack[g], 1, Len(stack[g]) - 1)
           s == IF u = None \/ rest = <<>> THEN rest
                ELSE [rest EXCEPT ![Len(rest)].phase = "exiting",
                                  ![Len(rest)].value = None]
<1>1. /\ stack' = [stack EXCEPT ![g] = s]
      /\ unwinding' = [unwinding EXCEPT ![g] = u]
      /\ last'.fn = frame.fn
  BY DEF Leave
<1>2. s \in Seq(Frames)
      /\ (s # <<>> => s[Len(s)].phase = IF u = None THEN "body" ELSE "exiting")
      /\ StackOpen(s, u)
  <2>1. stack[g] \in Seq(Frames) /\ StackOpen(stack[g], unwinding[g])
    BY OfOne
  <2> HIDE DEF rest, s
  <2>2. /\ s \in Seq(Frames) /\ Len(s) = Len(stack[g]) - 1
        /\ s # <<>> => s[Len(s)].phase = IF u = None THEN "body" ELSE "exiting"
        /\ StackOpen(s, u)
    BY <2>1, PopOpen DEF rest, s
  <2> QED BY <2>2
<1> HIDE DEF rest, s
<1>3. /\ stack' \in [Goroutines -> Seq(Frames)] /\ stack'[g] = s
      /\ unwinding' \in [Goroutines -> Unwindings] /\ unwinding'[g] = u
      /\ trail' \in [Goroutines -> Seq(Reports)] /\ trail'[g] = t
      /\ \A h \in Goroutines : h # g =>
            stack'[h] = stack[h] /\ unwinding'[h] = unwinding[h] /\ trail'[h] = trail[h]
  BY <1>1, <1>2, OfOne
<1>4. InFlight(g)' = u
  BY <1>2, <1>3 DEF InFlight, Top
<1>5. Remembered(t, u, recent') /\ SentOnce(t)
  <2>1. CASE t = <<>>
    BY <2>1, NoTrail
  <2>2. CASE t = trail[g] /\ u = InFlight(g)
    <3>1. Remembered(t, u, recent) /\ SentOnce(t)
      BY <2>2, OfOne
    <3> QED BY <3>1 DEF Remembered
  <2> QED BY <2>1, <2>2
<1>6. exited' \subseteq Goroutines
  BY OfOne
<1> QED BY <1>1, <1>2, <1>3, <1>4, <1>5, <1>6, StepOfOne

\* Functions are told apart: the SDK's have no span of the instrumenter's.
LEMMA SdkIsNotInstrumented ==
    ASSUME NEW fn \in Instrumented
    PROVE  fn # "TraceFunc" /\ fn # "Middleware" /\ fn \in AllFuncs /\ HasSpan(fn)
BY DEF Instrumented, Sdk, AllFuncs, HasSpan

\* A call without a span.
LEMMA LeavePlainStep ==
    ASSUME Inductive, NEW g \in Goroutines, LeavePlain(g)
    PROVE  Inductive'
<1>1. /\ UNCHANGED <<build, exited, recent, trail>> /\ stack[g] # <<>>
      /\ Top(g).phase = "exiting" /\ ~HasSpan(Top(g).fn)
      /\ Leave(g, unwinding[g], Top(g))
  BY DEF LeavePlain, Unwound, Exiting
<1>2. Top(g).fn \in AllFuncs
  BY <1>1, OfOne DEF Frames
<1>3. InFlight(g) = unwinding[g] /\ trail' = [trail EXCEPT ![g] = trail[g]]
  BY <1>1, FlightIsUnwinding, OfOne
<1>4. CallsInv' /\ OneReportPerPanic'
  BY <1>1, <1>2, <1>3, OfOne, LeaveStep
<1>5. last'.spanned = FALSE
  BY <1>1 DEF Leave
<1> QED BY <1>4, <1>5 DEF Inductive, SpansEndWithTheirCalls

\* The function that was put in finds nothing to recover.
LEMMA LeaveInstrumentedStep ==
    ASSUME Inductive, NEW g \in Goroutines, LeaveInstrumented(g)
    PROVE  Inductive'
<1> DEFINE f == EndSpan(Top(g), Top(g).value)
<1>1. /\ UNCHANGED <<build, exited, recent, trail>> /\ stack[g] # <<>>
      /\ Top(g).phase = "exiting" /\ Top(g).fn \in Instrumented
      /\ unwinding[g] \notin Messages /\ Leave(g, unwinding[g], f)
  BY DEF LeaveInstrumented, Unwound, Exiting
<1>2. Top(g) \in Frames /\ Open(Top(g), unwinding[g])
  BY <1>1, OfOne
<1>3. f.fn = Top(g).fn /\ f.ends = 1 /\ f.told = Top(g).value /\ f.value = Top(g).value
  BY <1>2 DEF EndSpan, Frames, Open
<1> HIDE DEF f
<1>4. InFlight(g) = unwinding[g] /\ trail' = [trail EXCEPT ![g] = trail[g]]
  BY <1>1, FlightIsUnwinding, OfOne
<1>5. CallsInv' /\ OneReportPerPanic'
  BY <1>1, <1>3, <1>4, OfOne, LeaveStep, SdkIsNotInstrumented
<1>6. /\ last'.fn = Top(g).fn /\ last'.unwinds = unwinding[g] /\ last'.ends = 1
      /\ last'.value = Top(g).value /\ last'.told = Top(g).value
  BY <1>1, <1>3 DEF Leave
<1>7. SpansEndWithTheirCalls'
  BY <1>1, <1>6, SdkIsNotInstrumented DEF SpansEndWithTheirCalls
<1> QED BY <1>5, <1>7 DEF Inductive

\* It has reported a panic, which goes on.
LEMMA EndAndPanicAgainStep ==
    ASSUME Inductive, NEW g \in Goroutines, EndAndPanicAgain(g)
    PROVE  Inductive'
<1> DEFINE f == EndSpan(Top(g), None)
<1>1. /\ UNCHANGED <<build, exited, recent, trail>> /\ stack[g] # <<>>
      /\ Top(g).phase = "reported" /\ Leave(g, Top(g).held, f)
  BY DEF EndAndPanicAgain
<1>2. Top(g) \in Frames /\ Open(Top(g), unwinding[g])
  BY <1>1, OfOne
<1>3. Top(g).fn \in Instrumented /\ Top(g).held \in Messages
  BY <1>1, <1>2 DEF Open
<1>4. f.fn = Top(g).fn /\ f.ends = 1 /\ f.told = None
  BY <1>2 DEF EndSpan, Frames, Open
<1> HIDE DEF f
<1>5. InFlight(g) = Top(g).held /\ trail' = [trail EXCEPT ![g] = trail[g]]
      /\ Top(g).held \in Unwindings
  BY <1>1, <1>3, OfOne DEF InFlight, Unwindings
<1>6. CallsInv' /\ OneReportPerPanic'
  <2>1. f.fn \in AllFuncs
    BY <1>3, <1>4, SdkIsNotInstrumented
  <2>2. trail[g] \in Seq(Reports) /\ recent \subseteq recent' /\ recent' \subseteq Messages
    BY <1>1, OfOne
  <2> QED BY <1>1, <1>5, <2>1, <2>2, LeaveStep
<1>7. /\ last'.fn = Top(g).fn /\ last'.unwinds = Top(g).held /\ last'.ends = 1
      /\ last'.told = None
  BY <1>1, <1>4 DEF Leave
<1>8. SpansEndWithTheirCalls'
  BY <1>3, <1>7, SdkIsNotInstrumented DEF SpansEndWithTheirCalls
<1> QED BY <1>6, <1>8 DEF Inductive

\* TraceFunc returns, with an error or without, or unwinds.
LEMMA LeaveTraceFuncStep ==
    ASSUME Inductive, NEW g \in Goroutines, LeaveTraceFunc(g)
    PROVE  Inductive'
<1> DEFINE told == IF Top(g).value \in Messages THEN None ELSE Top(g).value
           f == EndSpan(Top(g), told)
<1>1. /\ UNCHANGED <<build, exited, trail>> /\ stack[g] # <<>>
      /\ Top(g).phase = "exiting" /\ Top(g).fn = "TraceFunc"
      /\ unwinding[g] # None => Leave(g, unwinding[g], Top(g)) /\ UNCHANGED recent
      /\ unwinding[g] = None =>
            Leave(g, None, f) /\ recent' = recent \cup ({Top(g).value} \cap Messages)
  BY DEF LeaveTraceFunc, Unwound, Exiting
<1>2. Top(g) \in Frames /\ Open(Top(g), unwinding[g])
  BY <1>1, OfOne
<1>3. /\ f.fn = "TraceFunc" /\ f.ends = 1 /\ f.told = told /\ f.value = Top(g).value
      /\ Top(g).ends = 0 /\ Top(g).told = None
      /\ Top(g).value \in Outcomes \cup {None}
  BY <1>1, <1>2 DEF EndSpan, Frames, Open
<1>4. Top(g).value \notin Values => told = None
  BY <1>3 DEF Outcomes
<1>5. Top(g).value \in Values => told = Top(g).value
  BY <1>3
<1> HIDE DEF f, told
<1>6. InFlight(g) = unwinding[g] /\ trail' = [trail EXCEPT ![g] = trail[g]]
      /\ "TraceFunc" \in AllFuncs
  BY <1>1, FlightIsUnwinding, OfOne DEF AllFuncs, Sdk
<1>7. CASE unwinding[g] # None
  <2>1. CallsInv' /\ OneReportPerPanic'
    BY <1>1, <1>6, <1>7, OfOne, LeaveStep
  <2>2. /\ last'.fn = "TraceFunc" /\ last'.unwinds = unwinding[g] /\ last'.ends = 0
        /\ last'.told = None
    BY <1>1, <1>3, <1>7 DEF Leave
  <2>3. SpansEndWithTheirCalls'
    BY <1>7, <2>2 DEF SpansEndWithTheirCalls
  <2> QED BY <2>1, <2>3 DEF Inductive
<1>8. CASE unwinding[g] = None
  <2>1. recent \subseteq recent' /\ recent' \subseteq Messages /\ trail[g] \in Seq(Reports)
    BY <1>1, <1>8, OfOne
  <2>2. CallsInv' /\ OneReportPerPanic'
    <3>1. None \in Unwindings /\ f.fn \in AllFuncs /\ UNCHANGED <<build, exited>> /\ Leave(g, None, f)
      BY <1>1, <1>3, <1>6, <1>8 DEF Unwindings
    <3> QED BY <1>1, <1>6, <1>8, <2>1, <3>1, LeaveStep
  <2>3. /\ last'.fn = "TraceFunc" /\ last'.unwinds = None /\ last'.ends = 1
        /\ last'.value = Top(g).value /\ last'.told = told
    BY <1>1, <1>3, <1>8 DEF Leave
  <2>4. SpansEndWithTheirCalls'
    BY <1>4, <1>5, <2>3 DEF SpansEndWithTheirCalls
  <2> QED BY <2>2, <2>4 DEF Inductive
<1> QED BY <1>7, <1>8

\* Middleware stops what unwinds, Goexit excepted.
LEMMA LeaveMiddlewareStep ==
    ASSUME Inductive, NEW g \in Goroutines, LeaveMiddleware(g)
    PROVE  Inductive'
<1> DEFINE u == Recovered(g)
<1>1. /\ UNCHANGED <<build, exited, recent>> /\ stack[g] # <<>> /\ Top(g).fn = "Middleware"
      /\ Leave(g, u, Top(g)) /\ trail' = [trail EXCEPT ![g] = <<>>]
  BY DEF LeaveMiddleware, Unwound, Exiting
<1>2. u \in Unwindings /\ "Middleware" \in AllFuncs /\ <<>> \in Seq(Reports)
  BY RecoveredIsNoPanic, EmptySeq DEF AllFuncs, Sdk
<1> HIDE DEF u
<1>3. CallsInv' /\ OneReportPerPanic'
  BY <1>1, <1>2, OfOne, LeaveStep
<1>4. ~HasSpan("Middleware")
  BY SdkIsNotInstrumented DEF HasSpan
<1>5. last'.spanned = FALSE
  BY <1>1, <1>4 DEF Leave
<1> QED BY <1>3, <1>5 DEF Inductive, SpansEndWithTheirCalls

-----------------------------------------------------------------------------
(* The steps that are nobody's, and the theorems.                          *)

\* The build only adds to what is instrumented.
LEMMA BuildStepStep ==
    ASSUME Inductive, BuildStep
    PROVE  Inductive'
<1>1. PICK p \in Packages : \E files \in SUBSET Candidates(p) : CompilePackage(p, files)
  BY DEF BuildStep, Build
<1>2. UNCHANGED <<stack, unwinding, exited, recent, trail, last>>
  BY DEF BuildStep, calls
<1>3. TypeOK /\ OpenSpans /\ TrailIsRemembered
  BY DEF Inductive, CallsInv
<1>4. Candidates(p) \subseteq p.files
  BY DEF Candidates
<1>5. TypeOK'
  BY <1>1, <1>2, <1>3, <1>4 DEF CompilePackage, TypeOK
<1>6. Instrumented \subseteq Instrumented'
  BY <1>1 DEF CompilePackage, Instrumented
<1>7. OpenSpans'
  BY <1>2, <1>3, <1>6 DEF OpenSpans, Top
<1>8. TrailIsRemembered'
  BY <1>2, <1>3 DEF TrailIsRemembered, InFlight, Top
<1>9. SpansEndWithTheirCalls' /\ OneReportPerPanic'
  BY <1>2 DEF Inductive, SpansEndWithTheirCalls, OneReportPerPanic
<1> QED BY <1>5, <1>7, <1>8, <1>9 DEF Inductive, CallsInv

\* The ring forgets a message, and the trails of its panics say so.
LEMMA ForgetStep ==
    ASSUME Inductive, NEW m \in Messages, Forget(m)
    PROVE  Inductive'
<1>1. /\ UNCHANGED <<build, stack, unwinding, exited>> /\ last' = NoCall
      /\ recent' = recent \ {m}
      /\ trail' = [g \in Goroutines |->
             IF InFlight(g) = m /\ trail[g] # <<>> /\ trail[g][Len(trail[g])] # "forgotten"
             THEN Append(trail[g], "forgotten") ELSE trail[g]]
  BY DEF Forget
<1>2. TypeOK /\ OpenSpans /\ Instrumented' = Instrumented
  BY <1>1 DEF Inductive, CallsInv, build, Instrumented
<1>3. OpenSpans'
  BY <1>1, <1>2 DEF OpenSpans, Top
<1>4. \A g \in Goroutines : InFlight(g)' = InFlight(g)
  BY <1>1 DEF InFlight, Top
<1>5. ASSUME NEW g \in Goroutines
      PROVE  /\ trail'[g] \in Seq(Reports)
             /\ Remembered(trail'[g], InFlight(g)', recent')
             /\ SentOnce(trail'[g])
  <2>1. /\ trail[g] \in Seq(Reports) /\ SentOnce(trail[g])
        /\ Remembered(trail[g], InFlight(g), recent)
    BY <1>5, OfOne
  <2>2. CASE InFlight(g) = m /\ trail[g] # <<>> /\ trail[g][Len(trail[g])] # "forgotten"
    <3>1. trail'[g] = Append(trail[g], "forgotten")
      BY <1>1, <2>2
    <3>2. "forgotten" \in Reports
      BY DEF Reports
    <3>3. LET a == Append(trail[g], "forgotten") IN
          a \in Seq(Reports) /\ a # <<>> /\ a[Len(a)] = "forgotten" /\ SentOnce(a)
      BY <2>1, <3>2, TrailGrows
    <3> QED BY <1>4, <2>2, <3>1, <3>3 DEF Remembered
  <2>3. CASE ~(InFlight(g) = m /\ trail[g] # <<>> /\ trail[g][Len(trail[g])] # "forgotten")
    <3>1. trail'[g] = trail[g]
      BY <1>1, <2>3
    <3> QED BY <1>1, <1>4, <2>1, <2>3, <3>1 DEF Remembered
  <2> QED BY <2>2, <2>3
<1>6. TypeOK'
  <2>1. trail' \in [Goroutines -> Seq(Reports)]
    BY <1>1, <1>5
  <2> QED BY <1>1, <1>2, <2>1 DEF TypeOK, build
<1>7. TrailIsRemembered' /\ OneReportPerPanic'
  BY <1>5 DEF TrailIsRemembered, Remembered, OneReportPerPanic, SentOnce
<1> QED BY <1>1, <1>3, <1>6, <1>7, NothingEnded DEF Inductive, CallsInv

\* The initial state satisfies the invariant.
LEMMA InitInv == Init => Inductive
<1> SUFFICES ASSUME Init PROVE Inductive
  OBVIOUS
<1> USE DEF Init, BuildInit
<1>1. \A S : <<>> \in Seq(S)
  BY EmptySeq
<1>2. DOMAIN <<>> = {} /\ Len(<<>>) = 0
  BY EmptySeq
<1>3. TypeOK
  BY <1>1 DEF TypeOK
<1>4. OpenSpans
  BY <1>2 DEF OpenSpans
<1>5. TrailIsRemembered /\ OneReportPerPanic
  BY <1>2 DEF TrailIsRemembered, OneReportPerPanic
<1>6. SpansEndWithTheirCalls
  BY DEF SpansEndWithTheirCalls
<1> QED BY <1>3, <1>4, <1>5, <1>6 DEF Inductive, CallsInv

\* Every step of build, goroutines and ring preserves the invariant.
LEMMA StepInv == Inductive /\ [Next]_vars => Inductive'
<1> SUFFICES ASSUME Inductive, [Next]_vars PROVE Inductive'
  OBVIOUS
<1>1. CASE UNCHANGED vars
  <2>1. UNCHANGED <<env, compiled, rejected, rewritten,
                    stack, unwinding, exited, recent, trail, last>>
    BY <1>1 DEF vars
  <2>2. Instrumented' = Instrumented
    BY <2>1 DEF Instrumented
  <2>3. \A g \in Goroutines : InFlight(g)' = InFlight(g)
    BY <2>1 DEF InFlight, Top
  <2> QED
    BY <2>1, <2>2, <2>3 DEF Inductive, CallsInv, TypeOK, OpenSpans, Top, TrailIsRemembered,
                            SpansEndWithTheirCalls, OneReportPerPanic
<1>2. CASE BuildStep
  BY <1>2, BuildStepStep
<1>3. ASSUME NEW g \in Goroutines, Step(g) PROVE Inductive'
  <2>1. ASSUME NEW fn \in AllFuncs, NEW k \in 0..Len(Deferred[fn]), Call(g, fn, k)
        PROVE  Inductive'
    BY <2>1, CallStep
  <2>2. ASSUME NEW v \in Outcomes, Return(g, v) PROVE Inductive'
    <3>1. None \in Unwindings
      BY DEF Unwindings
    <3> QED BY <2>2, <3>1, ExitStep DEF Return
  <2>3. ASSUME NEW m \in Messages, Panic(g, m) PROVE Inductive'
    <3>1. m \in Unwindings
      BY DEF Unwindings
    <3> QED BY <2>3, <3>1, ExitStep DEF Panic
  <2>4. CASE CallGoexit(g)
    <3>1. Goexit \in Unwindings
      BY DEF Unwindings
    <3> QED BY <2>4, <3>1, ExitStep DEF CallGoexit
  <2>5. ASSUME NEW v \in Outcomes, NEW m \in Messages, RunDeferred(g, v, m)
        PROVE  Inductive'
    BY <2>5, RunDeferredStep
  <2>6. CASE LeavePlain(g)
    BY <2>6, LeavePlainStep
  <2>7. CASE LeaveInstrumented(g)
    BY <2>7, LeaveInstrumentedStep
  <2>8. CASE ReportPanic(g)
    BY <2>8, ReportPanicStep
  <2>9. CASE EndAndPanicAgain(g)
    BY <2>9, EndAndPanicAgainStep
  <2>10. CASE LeaveTraceFunc(g)
    BY <2>10, LeaveTraceFuncStep
  <2>11. CASE LeaveMiddleware(g)
    BY <2>11, LeaveMiddlewareStep
  <2>12. CASE Bottom(g)
    BY <2>12, BottomStep
  <2> QED BY <1>3, <2>1, <2>2, <2>3, <2>4, <2>5, <2>6, <2>7, <2>8, <2>9, <2>10, <2>11, <2>12
          DEF Step
<1>4. ASSUME NEW m \in Messages, Forget(m) PROVE Inductive'
  BY <1>4, ForgetStep
<1> QED BY <1>1, <1>2, <1>3, <1>4 DEF Next

LEMMA InductiveHolds == Spec => []Inductive
BY InitInv, StepInv, PTL DEF Spec

\* The calls of an instrumented program and their open spans fit together, and the
\* ring holds the message of a panic for the functions further out.
THEOREM CallsAreInOrder == Spec => []CallsInv
BY InductiveHolds, PTL DEF Inductive

\* Every span the instrumenter has put in ends exactly once, with the result the
\* caller gets, whatever deferred functions, panics and Goexit do; TraceFunc's
\* ends exactly when the function it was given returns.
THEOREM SpansEnd == Spec => []SpansEndWithTheirCalls
BY InductiveHolds, PTL DEF Inductive

\* Any number of instrumented functions that a panic unwinds make one report of it,
\* for as long as the ring remembers it; Middleware's own is not counted.
THEOREM PanicsAreReportedOnce == Spec => []OneReportPerPanic
BY InductiveHolds, PTL DEF Inductive

-----------------------------------------------------------------------------
(* The refinement of PlainCalls.                                           *)

\* What a program without instrumentation sees of a stack.
Plain(s) == [k \in 1..Len(s) |-> PlainFrame(s[k])]
PlainFrames == {PlainFrame(f) : f \in Frames}

LEMMA PlainTypes ==
    ASSUME NEW s \in Seq(Frames)
    PROVE  /\ Plain(s) \in Seq(PlainFrames) /\ Len(Plain(s)) = Len(s)
           /\ \A k \in 1..Len(s) : Plain(s)[k] = PlainFrame(s[k])
           /\ Plain(s) = <<>> <=> s = <<>>
<1>1. Len(s) \in Nat /\ \A k \in 1..Len(s) : s[k] \in Frames
  BY ElementOfSeq, LenProperties
<1>2. Plain(s) \in [1..Len(s) -> PlainFrames]
  BY <1>1 DEF Plain, PlainFrames
<1>3. Plain(s) \in Seq(PlainFrames)
  BY <1>1, <1>2, SeqDef
<1>4. DOMAIN Plain(s) = 1..Len(s) /\ DOMAIN Plain(s) = 1..Len(Plain(s)) /\ Len(Plain(s)) \in Nat
  BY <1>2, <1>3, LenProperties
<1>5. Len(Plain(s)) = Len(s)
  BY <1>1, <1>4
<1>6. Plain(s) = <<>> <=> s = <<>>
  <2>1. s # <<>> <=> Len(s) # 0
    BY EmptySeq
  <2>2. Plain(s) # <<>> <=> Len(Plain(s)) # 0
    BY <1>3, EmptySeq
  <2> QED BY <1>5, <2>1, <2>2
<1> QED BY <1>3, <1>5, <1>6 DEF Plain

\* A call is put on top of both.
LEMMA PlainPush ==
    ASSUME NEW s \in Seq(Frames), NEW f \in Frames
    PROVE  Plain(Append(s, f)) = Append(Plain(s), PlainFrame(f))
<1>1. Append(s, f) \in Seq(Frames) /\ Len(Append(s, f)) = Len(s) + 1 /\ Len(s) \in Nat
      /\ \A k \in 1..Len(s) + 1 : Append(s, f)[k] = IF k <= Len(s) THEN s[k] ELSE f
  BY AppendProperties, LenProperties
<1>2. /\ Plain(s) \in Seq(PlainFrames) /\ Len(Plain(s)) = Len(s)
      /\ \A k \in 1..Len(s) : Plain(s)[k] = PlainFrame(s[k])
  BY PlainTypes
<1>3. /\ Plain(Append(s, f)) \in Seq(PlainFrames) /\ Len(Plain(Append(s, f))) = Len(s) + 1
      /\ \A k \in 1..Len(s) + 1 : Plain(Append(s, f))[k] = PlainFrame(Append(s, f)[k])
  BY <1>1, PlainTypes
<1>4. PlainFrame(f) \in PlainFrames
  BY DEF PlainFrames
<1> DEFINE p == Append(Plain(s), PlainFrame(f))
           q == Plain(Append(s, f))
<1>5. p \in Seq(PlainFrames) /\ Len(p) = Len(s) + 1
      /\ \A k \in 1..Len(s) + 1 : p[k] = IF k <= Len(s) THEN Plain(s)[k] ELSE PlainFrame(f)
  BY <1>1, <1>2, <1>4, AppendProperties
<1>6. \A k \in 1..Len(s) + 1 : q[k] = p[k]
  <2> TAKE k \in 1..Len(s) + 1
  <2>1. q[k] = PlainFrame(Append(s, f)[k])
    BY <1>3
  <2>2. CASE k <= Len(s)
    <3>1. k \in 1..Len(s)
      BY <1>1, <2>2
    <3> QED BY <1>1, <1>2, <1>5, <2>1, <2>2, <3>1
  <2>3. CASE ~(k <= Len(s))
    BY <1>1, <1>5, <2>1, <2>3
  <2> QED BY <2>2, <2>3
<1> HIDE DEF p, q
<1>7. q = p
  BY <1>3, <1>5, <1>6, SeqEqual DEF q
<1> QED BY <1>7 DEF p, q

\* The innermost call of both is replaced.
LEMMA PlainTop ==
    ASSUME NEW s \in Seq(Frames), s # <<>>, NEW f \in Frames
    PROVE  Plain([s EXCEPT ![Len(s)] = f])
             = [Plain(s) EXCEPT ![Len(Plain(s))] = PlainFrame(f)]
<1> DEFINE t == [s EXCEPT ![Len(s)] = f]
           p == [Plain(s) EXCEPT ![Len(Plain(s))] = PlainFrame(f)]
           q == Plain(t)
<1>1. Len(s) \in Nat /\ Len(s) \in 1..Len(s)
  BY TopFrame
<1>2. t \in Seq(Frames) /\ Len(t) = Len(s)
      /\ \A k \in 1..Len(s) : t[k] = IF k = Len(s) THEN f ELSE s[k]
  BY <1>1, ExceptSeq
<1>3. /\ Plain(s) \in Seq(PlainFrames) /\ Len(Plain(s)) = Len(s)
      /\ \A k \in 1..Len(s) : Plain(s)[k] = PlainFrame(s[k])
  BY PlainTypes
<1> HIDE DEF t
<1>4. /\ q \in Seq(PlainFrames) /\ Len(q) = Len(s)
      /\ \A k \in 1..Len(s) : q[k] = PlainFrame(t[k])
  BY <1>2, PlainTypes
<1>5. PlainFrame(f) \in PlainFrames
  BY DEF PlainFrames
<1>6. p \in Seq(PlainFrames) /\ Len(p) = Len(s)
      /\ \A k \in 1..Len(s) : p[k] = IF k = Len(s) THEN PlainFrame(f) ELSE Plain(s)[k]
  BY <1>1, <1>3, <1>5, ExceptSeq
<1> HIDE DEF p, q
<1>7. \A k \in 1..Len(s) : q[k] = p[k]
  BY <1>2, <1>3, <1>4, <1>6
<1>8. q = p
  BY <1>4, <1>6, <1>7, SeqEqual
<1> QED BY <1>8 DEF p, q, t

\* The innermost call of both is taken away.
LEMMA PlainPop ==
    ASSUME NEW s \in Seq(Frames), s # <<>>
    PROVE  /\ SubSeq(s, 1, Len(s) - 1) \in Seq(Frames)
           /\ Plain(SubSeq(s, 1, Len(s) - 1)) = SubSeq(Plain(s), 1, Len(Plain(s)) - 1)
<1> DEFINE t == SubSeq(s, 1, Len(s) - 1)
           p == SubSeq(Plain(s), 1, Len(Plain(s)) - 1)
           q == Plain(t)
<1>1. Len(s) \in Nat \ {0}
  BY TopFrame
<1>2. t \in Seq(Frames) /\ Len(t) = Len(s) - 1 /\ \A k \in 1..Len(s) - 1 : t[k] = s[k]
  BY <1>1, SubSeqProperties
<1>3. /\ Plain(s) \in Seq(PlainFrames) /\ Len(Plain(s)) = Len(s)
      /\ \A k \in 1..Len(s) : Plain(s)[k] = PlainFrame(s[k])
  BY PlainTypes
<1> HIDE DEF t
<1>4. /\ q \in Seq(PlainFrames) /\ Len(q) = Len(s) - 1
      /\ \A k \in 1..Len(s) - 1 : q[k] = PlainFrame(t[k])
  BY <1>2, PlainTypes
<1>5. p \in Seq(PlainFrames) /\ Len(p) = Len(s) - 1
      /\ \A k \in 1..Len(s) - 1 : p[k] = Plain(s)[k]
  BY <1>1, <1>3, SubSeqProperties
<1> HIDE DEF p, q
<1>6. \A k \in 1..Len(s) - 1 : q[k] = p[k]
  BY <1>1, <1>2, <1>3, <1>4, <1>5
<1>7. q = p
  BY <1>4, <1>5, <1>6, SeqEqual
<1> QED BY <1>2, <1>7 DEF p, q, t

\* A frame of PlainCalls, field by field.
LEMMA PlainRecord ==
    ASSUME NEW a, NEW b, NEW c, NEW d,
           NEW r \in [fn : {a}, exiting : {b}, value : {c}, defers : {d}]
    PROVE  r = [fn |-> a, exiting |-> b, value |-> c, defers |-> d]
OBVIOUS

\* A frame that is on its way out, with the value v.
LEMMA PlainExiting ==
    ASSUME NEW x \in Frames, NEW v \in Outcomes \cup {None}
    PROVE  /\ [x EXCEPT !.phase = "exiting", !.value = v] \in Frames
           /\ PlainFrame([x EXCEPT !.phase = "exiting", !.value = v])
                = [PlainFrame(x) EXCEPT !.exiting = TRUE, !.value = v]
<1> DEFINE f == [x EXCEPT !.phase = "exiting", !.value = v]
           yes == TRUE
           e == (x.phase # "body")
<1>1. f \in Frames /\ f.fn = x.fn /\ f.phase = "exiting" /\ f.value = v /\ f.defers = x.defers
  BY DEF Frames
<1> HIDE DEF f
<1>2. (f.phase # "body") = TRUE
  BY <1>1
<1>3. PlainFrame(f) = [fn |-> x.fn, exiting |-> TRUE, value |-> v, defers |-> x.defers]
  BY <1>1, <1>2, Zenon DEF PlainFrame
<1> DEFINE q == PlainFrame(x)
<1>4. q = [fn |-> x.fn, exiting |-> e, value |-> x.value, defers |-> x.defers]
  BY DEF PlainFrame
<1> DEFINE r == [q EXCEPT !.exiting = yes, !.value = v]
           a == x.fn
           c == x.value
           d == x.defers
<1> HIDE DEF e, yes, q, r, a, c, d
<1>5. r = [fn |-> x.fn, exiting |-> yes, value |-> v, defers |-> x.defers]
  <2>1. q = [fn |-> a, exiting |-> e, value |-> c, defers |-> d]
    BY <1>4 DEF a, c, d
  <2>2. q \in [fn : {a}, exiting : {e}, value : {c}, defers : {d}]
    BY <2>1
  <2>3. r \in [fn : {a}, exiting : {yes}, value : {v}, defers : {d}]
    BY <2>2 DEF r
  <2>4. r = [fn |-> a, exiting |-> yes, value |-> v, defers |-> d]
    BY <2>3, PlainRecord
  <2> QED BY <2>4 DEF a, d
<1>6. PlainFrame(f) = [PlainFrame(x) EXCEPT !.exiting = yes, !.value = v]
  BY <1>3, <1>5 DEF yes, q, r
<1> QED BY <1>1, <1>6 DEF f, yes

\* A frame whose last deferred function has run.
LEMMA PlainDeferred ==
    ASSUME NEW x \in Frames, NEW v \in Outcomes \cup {None}, NEW w \in Seq(DeferKinds)
    PROVE  /\ [x EXCEPT !.value = v, !.defers = w] \in Frames
           /\ PlainFrame([x EXCEPT !.value = v, !.defers = w])
                = [PlainFrame(x) EXCEPT !.value = v, !.defers = w]
<1> DEFINE f == [x EXCEPT !.value = v, !.defers = w]
           e == (x.phase # "body")
<1>1. f \in Frames /\ f.fn = x.fn /\ f.phase = x.phase /\ f.value = v /\ f.defers = w
  BY DEF Frames
<1> HIDE DEF f
<1>2. PlainFrame(f) = [fn |-> x.fn, exiting |-> e, value |-> v, defers |-> w]
  BY <1>1 DEF PlainFrame
<1> DEFINE q == PlainFrame(x)
<1>3. q = [fn |-> x.fn, exiting |-> e, value |-> x.value, defers |-> x.defers]
  BY DEF PlainFrame
<1> DEFINE r == [q EXCEPT !.value = v, !.defers = w]
           a == x.fn
           c == x.value
           d == x.defers
<1> HIDE DEF e, q, r, a, c, d
<1>4. r = [fn |-> x.fn, exiting |-> e, value |-> v, defers |-> w]
  <2>1. q = [fn |-> a, exiting |-> e, value |-> c, defers |-> d]
    BY <1>3 DEF a, c, d
  <2>2. q \in [fn : {a}, exiting : {e}, value : {c}, defers : {d}]
    BY <2>1
  <2>3. r \in [fn : {a}, exiting : {e}, value : {v}, defers : {w}]
    BY <2>2 DEF r
  <2>4. r = [fn |-> a, exiting |-> e, value |-> v, defers |-> w]
    BY <2>3, PlainRecord
  <2> QED BY <2>4 DEF a
<1> QED BY <1>1, <1>2, <1>4 DEF f, q, r

\* Left, a call passes what unwinds, u, to the caller, in both.
Passed(s, u) ==
    LET rest == SubSeq(s, 1, Len(s) - 1) IN
    IF u = None \/ rest = <<>> THEN rest
    ELSE [rest EXCEPT ![Len(rest)].phase = "exiting", ![Len(rest)].value = None]

PlainPassed(p, u) ==
    LET rest == SubSeq(p, 1, Len(p) - 1) IN
    IF u = None \/ rest = <<>> THEN rest
    ELSE [rest EXCEPT ![Len(rest)].exiting = TRUE, ![Len(rest)].value = None]

LEMMA PlainLeave ==
    ASSUME NEW s \in Seq(Frames), s # <<>>, NEW u
    PROVE  Plain(Passed(s, u)) = PlainPassed(Plain(s), u)
<1> DEFINE rest == SubSeq(s, 1, Len(s) - 1)
           t == Passed(s, u)
           plain == SubSeq(Plain(s), 1, Len(Plain(s)) - 1)
           f == [rest[Len(rest)] EXCEPT !.phase = "exiting", !.value = None]
           r == PlainPassed(Plain(s), u)
<1>1. rest \in Seq(Frames) /\ Plain(rest) = plain
  BY PlainPop
<1>2. plain = <<>> <=> rest = <<>>
  BY <1>1, PlainTypes
<1>3. CASE u = None \/ rest = <<>>
  BY <1>1, <1>2, <1>3 DEF Passed, PlainPassed
<1>4. CASE u # None /\ rest # <<>>
  <2>1. rest[Len(rest)] \in Frames /\ Len(rest) \in 1..Len(rest)
    BY <1>1, <1>4, TopFrame
  <2>2. f \in Frames /\ PlainFrame(f) = [PlainFrame(rest[Len(rest)]) EXCEPT
                                            !.exiting = TRUE, !.value = None]
    BY <2>1, PlainExiting
  <2>3. t = [rest EXCEPT ![Len(rest)] = f]
    BY <1>4 DEF Passed
  <2>4. r = [plain EXCEPT ![Len(plain)] = [plain[Len(plain)] EXCEPT
                                             !.exiting = TRUE, !.value = None]]
    BY <1>2, <1>4 DEF PlainPassed
  <2> HIDE DEF rest, plain, f, t, r
  <2>5. Len(plain) = Len(rest) /\ plain[Len(plain)] = PlainFrame(rest[Len(rest)])
    BY <1>1, <2>1, PlainTypes
  <2>6. Plain([rest EXCEPT ![Len(rest)] = f])
          = [Plain(rest) EXCEPT ![Len(Plain(rest))] = PlainFrame(f)]
    BY <1>1, <1>4, <2>2, PlainTop
  <2>7. Plain(t) = r
    BY <1>1, <2>2, <2>3, <2>4, <2>5, <2>6
  <2> QED BY <2>7 DEF rest, plain, t, r
<1> QED BY <1>3, <1>4

\* The variables of PlainCalls.
PlainStack == [g \in Goroutines |-> Plain(stack[g])]
Flights == [g \in Goroutines |-> InFlight(g)]

LEMMA PlainUnchanged ==
    ASSUME PlainStack' = PlainStack, Flights' = Flights, exited' = exited
    PROVE  UNCHANGED PC!vars
BY DEF PC!vars, PlainStack, Flights, Plain

\* What one goroutine shows, and how a step of it shows.
LEMMA PlainOfOne ==
    ASSUME Inductive, NEW g \in Goroutines
    PROVE  /\ PlainStack[g] = Plain(stack[g]) /\ Flights[g] = InFlight(g)
           /\ PlainStack[g] = <<>> <=> stack[g] = <<>>
           /\ stack[g] # <<>> =>
                 PlainStack[g][Len(PlainStack[g])] = PlainFrame(Top(g))
           /\ (\A h \in Goroutines : h # g =>
                  stack'[h] = stack[h] /\ unwinding'[h] = unwinding[h]) =>
                 /\ PlainStack' = [PlainStack EXCEPT ![g] = Plain(stack'[g])]
                 /\ Flights' = [Flights EXCEPT ![g] = InFlight(g)']
<1>1. stack[g] \in Seq(Frames)
  BY OfOne
<1>2. PlainStack[g] = Plain(stack[g]) /\ Flights[g] = InFlight(g)
  BY DEF PlainStack, Flights
<1>3. PlainStack[g] = <<>> <=> stack[g] = <<>>
  BY <1>1, <1>2, PlainTypes
<1>4. stack[g] # <<>> => PlainStack[g][Len(PlainStack[g])] = PlainFrame(Top(g))
  BY <1>1, <1>2, PlainTypes, TopFrame DEF Top
<1>5. ASSUME \A h \in Goroutines : h # g =>
                stack'[h] = stack[h] /\ unwinding'[h] = unwinding[h]
      PROVE  /\ PlainStack' = [PlainStack EXCEPT ![g] = Plain(stack'[g])]
             /\ Flights' = [Flights EXCEPT ![g] = InFlight(g)']
  <2>1. \A h \in Goroutines : h # g => InFlight(h)' = InFlight(h)
    BY <1>5 DEF InFlight, Top
  <2>2. PlainStack' = [h \in Goroutines |-> Plain(stack'[h])]
        /\ Flights' = [h \in Goroutines |-> InFlight(h)']
    BY DEF PlainStack, Flights, Plain
  <2>3. PlainStack' = [PlainStack EXCEPT ![g] = Plain(stack'[g])]
    BY <1>5, <2>2 DEF PlainStack
  <2>4. Flights' = [Flights EXCEPT ![g] = InFlight(g)']
    BY <2>1, <2>2 DEF Flights
  <2> QED BY <2>3, <2>4
<1> QED BY <1>2, <1>3, <1>4, <1>5

-----------------------------------------------------------------------------
(* The actions of PlainCalls, in the words of the refinement.              *)

PlainTopOf(g) == PlainStack[g][Len(PlainStack[g])]

LEMMA PlainCall ==
    ASSUME NEW g, NEW fn, NEW k,
           Flights[g] = None, PlainStack[g] # <<>> => ~PlainTopOf(g).exiting,
           fn \in IF PlainStack[g] = <<>> THEN Roots[g] ELSE Callees[PlainTopOf(g).fn],
           PlainStack' = [PlainStack EXCEPT ![g] = Append(PlainStack[g],
               [fn |-> fn, exiting |-> FALSE, value |-> None,
                defers |-> SubSeq(Deferred[fn], 1, k)])],
           Flights' = Flights, exited' = exited
    PROVE  PC!Call(g, fn, k)
BY DEF PC!Call, PC!Running, PC!Top, PlainStack, Flights, Plain, PlainTopOf

LEMMA PlainExit ==
    ASSUME NEW g, NEW v, NEW u,
           Flights[g] = None, PlainStack[g] # <<>>, ~PlainTopOf(g).exiting,
           PlainStack' = [PlainStack EXCEPT ![g] = [PlainStack[g] EXCEPT
               ![Len(PlainStack[g])] = [PlainTopOf(g) EXCEPT !.exiting = TRUE, !.value = v]]],
           Flights' = [Flights EXCEPT ![g] = u],
           exited' = IF u = Goexit THEN exited \cup {g} ELSE exited
    PROVE  PC!Exit(g, v, u)
BY DEF PC!Exit, PC!SetTop, PC!Running, PC!Top, PlainStack, Flights, Plain, PlainTopOf

LEMMA PlainRunDeferred ==
    ASSUME NEW g, NEW v, NEW m, PlainStack[g] # <<>>,
           PlainTopOf(g).exiting, PlainTopOf(g).defers # <<>>,
           LET x == PlainTopOf(g)
               d == x.defers[Len(x.defers)]
               recovers == d = "recover" /\ Flights[g] \in Messages
               panics == d = "panic"
           IN  /\ PlainStack' = [PlainStack EXCEPT ![g] = [PlainStack[g] EXCEPT
                      ![Len(PlainStack[g])] = [x EXCEPT
                         !.value = IF recovers \/ d = "alter" THEN v ELSE x.value,
                         !.defers = SubSeq(x.defers, 1, Len(x.defers) - 1)]]]
               /\ Flights' = [Flights EXCEPT
                      ![g] = IF recovers THEN Recovered(g) ELSE IF panics THEN m ELSE Flights[g]],
           exited' = exited
    PROVE  PC!RunDeferred(g, v, m)
BY DEF PC!RunDeferred, PC!Recovered, Recovered, PC!SetTop, PC!Top, PlainStack, Flights, Plain, PlainTopOf

LEMMA PlainLeaves ==
    ASSUME NEW g, PlainStack[g] # <<>>, PlainTopOf(g).exiting, PlainTopOf(g).defers = <<>>,
           LET u == IF PlainTopOf(g).fn = "Middleware" THEN Recovered(g) ELSE Flights[g]
           IN  /\ PlainStack' = [PlainStack EXCEPT ![g] = PlainPassed(PlainStack[g], u)]
               /\ Flights' = [Flights EXCEPT ![g] = u],
           exited' = exited
    PROVE  PC!Leave(g)
BY DEF PC!Leave, PC!Recovered, Recovered, PC!Top, PlainStack, Flights, Plain, PlainTopOf, PlainPassed

LEMMA PlainBottom ==
    ASSUME NEW g, PlainStack[g] = <<>>, Flights[g] # None,
           Flights' = [Flights EXCEPT ![g] = None], PlainStack' = PlainStack,
           exited' = exited \ {g}
    PROVE  PC!Bottom(g)
BY DEF PC!Bottom, PlainStack, Flights, Plain

-----------------------------------------------------------------------------
(* The steps of one goroutine, as PlainCalls sees them.                    *)

\* The innermost call, in both.
LEMMA TopIsPlain ==
    ASSUME Inductive, NEW g \in Goroutines, stack[g] # <<>>
    PROVE  /\ PlainStack[g] # <<>> /\ PlainTopOf(g) = PlainFrame(Top(g))
           /\ PlainTopOf(g).fn = Top(g).fn /\ PlainTopOf(g).value = Top(g).value
           /\ PlainTopOf(g).defers = Top(g).defers
           /\ PlainTopOf(g).exiting <=> Top(g).phase # "body"
<1>1. PlainStack[g] # <<>> /\ PlainTopOf(g) = PlainFrame(Top(g))
  BY PlainOfOne DEF PlainTopOf
<1>2. /\ PlainFrame(Top(g)).fn = Top(g).fn /\ PlainFrame(Top(g)).value = Top(g).value
      /\ PlainFrame(Top(g)).defers = Top(g).defers
  BY DEF PlainFrame
<1>3. PlainFrame(Top(g)).exiting <=> Top(g).phase # "body"
  BY DEF PlainFrame
<1> QED BY <1>1, <1>2, <1>3

\* A frame f in place of the innermost one, and u unwinds.
LEMMA TopRefines ==
    ASSUME Inductive, NEW g \in Goroutines, stack[g] # <<>>,
           NEW f \in Frames, stack' = SetTop(g, f), f.phase # "reported",
           NEW u, unwinding' = [unwinding EXCEPT ![g] = u]
    PROVE  /\ PlainStack' = [PlainStack EXCEPT ![g] = [PlainStack[g] EXCEPT
                  ![Len(PlainStack[g])] = PlainFrame(f)]]
           /\ Flights' = [Flights EXCEPT ![g] = u]
<1>1. stack' = [stack EXCEPT ![g] = [stack[g] EXCEPT ![Len(stack[g])] = f]]
      /\ stack'[g] = [stack[g] EXCEPT ![Len(stack[g])] = f]
  BY OfOne DEF SetTop
<1>2. Plain(stack'[g]) = [PlainStack[g] EXCEPT ![Len(PlainStack[g])] = PlainFrame(f)]
  <2>1. stack[g] \in Seq(Frames)
    BY OfOne
  <2>2. PlainStack[g] = Plain(stack[g])
    BY PlainOfOne
  <2> QED BY <1>1, <2>1, <2>2, PlainTop
<1>3. /\ unwinding'[g] = u
      /\ \A h \in Goroutines : h # g =>
            stack'[h] = stack[h] /\ unwinding'[h] = unwinding[h]
  BY <1>1, OfOne
<1>4. stack'[g][Len(stack'[g])] = f
  <2>1. Len(stack[g]) \in 1..Len(stack[g]) /\ stack[g] \in Seq(Frames)
    BY OfOne, TopFrame
  <2>2. stack'[g][Len(stack[g])] = f /\ Len(stack'[g]) = Len(stack[g])
    BY <1>1, <2>1, ExceptSeq
  <2> QED BY <2>2
<1>5. InFlight(g)' = u
  BY <1>3, <1>4 DEF InFlight, Top
<1>6. /\ PlainStack' = [PlainStack EXCEPT ![g] = Plain(stack'[g])]
      /\ Flights' = [Flights EXCEPT ![g] = InFlight(g)']
  BY <1>3, PlainOfOne
<1> QED BY <1>2, <1>5, <1>6

LEMMA CallRefines ==
    ASSUME Inductive, NEW g \in Goroutines, NEW fn \in AllFuncs,
           NEW k \in 0..Len(Deferred[fn]), Call(g, fn, k)
    PROVE  PC!Call(g, fn, k)
<1> DEFINE f == [fn |-> fn, phase |-> "body", value |-> None, held |-> None,
                 defers |-> SubSeq(Deferred[fn], 1, k), ends |-> 0, told |-> None]
<1>1. f \in Frames /\ f.phase = "body"
  BY DefersTypes DEF Frames
<1>2. PlainFrame(f) = [fn |-> fn, exiting |-> FALSE, value |-> None,
                       defers |-> SubSeq(Deferred[fn], 1, k)]
  BY DEF PlainFrame
<1>3. /\ unwinding' = unwinding /\ exited' = exited
      /\ stack' = [stack EXCEPT ![g] = Append(stack[g], f)]
      /\ unwinding[g] = None /\ (stack[g] # <<>> => Top(g).phase = "body")
      /\ fn \in IF stack[g] = <<>> THEN Roots[g] ELSE Callees[Top(g).fn]
  BY OfOne DEF Call, Running
<1> HIDE DEF f
<1>4. stack'[g] = Append(stack[g], f) /\ stack[g] \in Seq(Frames)
  BY <1>3, OfOne
<1>5. Plain(stack'[g]) = Append(PlainStack[g], PlainFrame(f))
  BY <1>1, <1>4, PlainOfOne, PlainPush
<1>6. stack'[g][Len(stack'[g])] = f /\ Flights[g] = None
  BY <1>1, <1>3, <1>4, AppendProperties, PlainOfOne DEF InFlight
<1>7. InFlight(g)' = None
  BY <1>1, <1>3, <1>6 DEF InFlight, Top
<1>8. /\ PlainStack' = [PlainStack EXCEPT ![g] = Plain(stack'[g])]
      /\ Flights' = [Flights EXCEPT ![g] = InFlight(g)']
  BY <1>3, PlainOfOne
<1>9. Flights' = Flights
  BY <1>6, <1>7, <1>8 DEF Flights
<1>10. PlainStack[g] = <<>> <=> stack[g] = <<>>
  BY PlainOfOne
<1>11. fn \in IF PlainStack[g] = <<>> THEN Roots[g] ELSE Callees[PlainTopOf(g).fn]
  BY <1>3, <1>10, TopIsPlain
<1>12. PlainStack[g] # <<>> => ~PlainTopOf(g).exiting
  BY <1>3, <1>10, TopIsPlain
<1> QED BY <1>2, <1>3, <1>5, <1>6, <1>8, <1>9, <1>11, <1>12, PlainCall

LEMMA ExitRefines ==
    ASSUME Inductive, NEW g \in Goroutines, NEW v \in Outcomes \cup {None},
           NEW u \in Unwindings, Exit(g, v, u)
    PROVE  PC!Exit(g, v, u)
<1> DEFINE f == [Top(g) EXCEPT !.phase = "exiting", !.value = v]
<1>1. /\ stack[g] # <<>> /\ unwinding[g] = None /\ Top(g).phase = "body"
      /\ stack' = SetTop(g, f) /\ unwinding' = [unwinding EXCEPT ![g] = u]
  BY DEF Exit, Running
<1>2. Top(g) \in Frames
  BY <1>1, OfOne
<1>3. f.phase = "exiting"
  BY <1>2 DEF Frames
<1>4. f \in Frames /\ PlainFrame(f) = [PlainTopOf(g) EXCEPT !.exiting = TRUE, !.value = v]
  BY <1>1, <1>2, PlainExiting, TopIsPlain
<1> HIDE DEF f
<1>5. /\ PlainStack' = [PlainStack EXCEPT ![g] = [PlainStack[g] EXCEPT
             ![Len(PlainStack[g])] = PlainFrame(f)]]
      /\ Flights' = [Flights EXCEPT ![g] = u]
  BY <1>1, <1>3, <1>4, TopRefines
<1>6. Flights[g] = None
  BY <1>1, FlightIsUnwinding, PlainOfOne
<1>7. PlainStack[g] # <<>> /\ ~PlainTopOf(g).exiting
  BY <1>1, TopIsPlain
<1>8. exited' = IF u = Goexit THEN exited \cup {g} ELSE exited
  BY DEF Exit
<1> QED BY <1>4, <1>5, <1>6, <1>7, <1>8, PlainExit

LEMMA RunDeferredRefines ==
    ASSUME Inductive, NEW g \in Goroutines, NEW v \in Outcomes, NEW m \in Messages,
           RunDeferred(g, v, m)
    PROVE  PC!RunDeferred(g, v, m)
<1> DEFINE d == Top(g).defers[Len(Top(g).defers)]
           recovers == d = "recover" /\ unwinding[g] \in Messages
           panics == d = "panic"
           w == IF recovers \/ d = "alter" THEN v ELSE Top(g).value
           less == SubSeq(Top(g).defers, 1, Len(Top(g).defers) - 1)
           f == [Top(g) EXCEPT !.value = w, !.defers = less]
           u == IF recovers THEN Recovered(g) ELSE IF panics THEN m ELSE unwinding[g]
<1>1. /\ stack[g] # <<>> /\ Top(g).phase = "exiting" /\ Top(g).defers # <<>>
      /\ stack' = SetTop(g, f) /\ unwinding' = [unwinding EXCEPT ![g] = u]
  BY OfOne DEF RunDeferred, Exiting
<1>2. Top(g) \in Frames
  BY <1>1, OfOne
<1>3. less \in Seq(DeferKinds) /\ w \in Outcomes \cup {None}
  BY <1>1, <1>2, DefersTypes DEF Frames
<1>4. Flights[g] = unwinding[g]
  BY <1>1, FlightIsUnwinding, PlainOfOne
<1>5. /\ PlainStack[g] # <<>> /\ PlainTopOf(g).exiting /\ PlainTopOf(g).defers # <<>>
      /\ PlainTopOf(g).defers = Top(g).defers /\ PlainTopOf(g).value = Top(g).value
      /\ PlainTopOf(g) = PlainFrame(Top(g))
  BY <1>1, TopIsPlain
<1> HIDE DEF w, less, u
<1>6. f.phase = "exiting"
  BY <1>1, <1>2 DEF Frames
<1>7. f \in Frames /\ PlainFrame(f) = [PlainTopOf(g) EXCEPT !.value = w, !.defers = less]
  <2> DEFINE x == Top(g)
  <2>1. x \in Frames
    BY <1>2
  <2>2. \A y \in Frames, v1 \in Outcomes \cup {None}, w1 \in Seq(DeferKinds) :
           /\ [y EXCEPT !.value = v1, !.defers = w1] \in Frames
           /\ PlainFrame([y EXCEPT !.value = v1, !.defers = w1])
                = [PlainFrame(y) EXCEPT !.value = v1, !.defers = w1]
    BY PlainDeferred
  <2> HIDE DEF x, f, d, recovers, panics
  <2>3. less \in Seq(DeferKinds)
    BY <1>3
  <2>4. w \in Outcomes \cup {None}
    BY <1>3
  <2>5. \A v1 \in Outcomes \cup {None}, w1 \in Seq(DeferKinds) :
           /\ [x EXCEPT !.value = v1, !.defers = w1] \in Frames
           /\ PlainFrame([x EXCEPT !.value = v1, !.defers = w1])
                = [PlainFrame(x) EXCEPT !.value = v1, !.defers = w1]
    BY <2>1, <2>2, Zenon
  <2>6. \A w1 \in Seq(DeferKinds) :
           /\ [x EXCEPT !.value = w, !.defers = w1] \in Frames
           /\ PlainFrame([x EXCEPT !.value = w, !.defers = w1])
                = [PlainFrame(x) EXCEPT !.value = w, !.defers = w1]
    BY <2>4, <2>5, Zenon
  <2>7. /\ [x EXCEPT !.value = w, !.defers = less] \in Frames
        /\ PlainFrame([x EXCEPT !.value = w, !.defers = less])
              = [PlainFrame(x) EXCEPT !.value = w, !.defers = less]
    BY <2>3, <2>6, Zenon
  <2> QED BY <1>5, <2>7 DEF x, f
<1> HIDE DEF f
<1>8. /\ PlainStack' = [PlainStack EXCEPT ![g] = [PlainStack[g] EXCEPT
             ![Len(PlainStack[g])] = PlainFrame(f)]]
      /\ Flights' = [Flights EXCEPT ![g] = u]
  BY <1>1, <1>6, <1>7, TopRefines
<1>9. exited' = exited
  BY DEF RunDeferred
<1> QED BY <1>4, <1>5, <1>7, <1>8, <1>9, PlainRunDeferred DEF w, less, u

\* A call is left, and u unwinds the caller, in both.
LEMMA LeavesPlain ==
    ASSUME Inductive, NEW g \in Goroutines, stack[g] # <<>>,
           NEW u, NEW frame, Leave(g, u, frame)
    PROVE  /\ PlainStack' = [PlainStack EXCEPT ![g] = PlainPassed(PlainStack[g], u)]
           /\ Flights' = [Flights EXCEPT ![g] = u]
<1> DEFINE s == Passed(stack[g], u)
<1>1. stack' = [stack EXCEPT ![g] = s] /\ unwinding' = [unwinding EXCEPT ![g] = u]
  BY DEF Leave, Passed
<1>2. stack[g] \in Seq(Frames) /\ StackOpen(stack[g], unwinding[g])
  BY OfOne
<1> HIDE DEF s
<1>3. /\ stack'[g] = s /\ unwinding'[g] = u
      /\ \A h \in Goroutines : h # g =>
            stack'[h] = stack[h] /\ unwinding'[h] = unwinding[h]
  BY <1>1, OfOne
<1>4. /\ s \in Seq(Frames) /\ Len(s) = Len(stack[g]) - 1
      /\ s # <<>> => s[Len(s)].phase = IF u = None THEN "body" ELSE "exiting"
      /\ StackOpen(s, u)
  BY <1>2, PopOpen DEF s, Passed
<1>5. InFlight(g)' = u
  BY <1>3, <1>4 DEF InFlight, Top
<1>6. Plain(s) = PlainPassed(PlainStack[g], u)
  BY <1>2, PlainLeave, PlainOfOne DEF s
<1> QED BY <1>3, <1>5, <1>6, PlainOfOne

LEMMA LeaveRefines ==
    ASSUME Inductive, NEW g \in Goroutines, stack[g] # <<>>,
           NEW u, NEW frame, Leave(g, u, frame),
           Top(g).phase # "body", Top(g).defers = <<>>,
           u = IF Top(g).fn = "Middleware" THEN Recovered(g) ELSE InFlight(g),
           exited' = exited
    PROVE  PC!Leave(g)
<1>1. Flights[g] = InFlight(g)
  BY PlainOfOne
<1>2. /\ PlainStack[g] # <<>> /\ PlainTopOf(g).exiting /\ PlainTopOf(g).defers = <<>>
      /\ PlainTopOf(g).fn = Top(g).fn
  BY TopIsPlain
<1> DEFINE w == IF PlainTopOf(g).fn = "Middleware" THEN Recovered(g) ELSE Flights[g]
<1>3. Leave(g, w, frame)
  BY <1>1, <1>2
<1> HIDE DEF w
<1>4. /\ PlainStack' = [PlainStack EXCEPT ![g] = PlainPassed(PlainStack[g], w)]
      /\ Flights' = [Flights EXCEPT ![g] = w]
  BY <1>3, LeavesPlain
<1> QED BY <1>2, <1>4, PlainLeaves DEF w

\* A report changes nothing that PlainCalls sees.
LEMMA ReportPanicStutters ==
    ASSUME Inductive, NEW g \in Goroutines, ReportPanic(g)
    PROVE  PlainStack' = PlainStack /\ Flights' = Flights /\ exited' = exited
<1> DEFINE f == [Top(g) EXCEPT !.phase = "reported", !.held = unwinding[g]]
<1>1. /\ stack[g] # <<>> /\ Top(g).phase = "exiting" /\ unwinding[g] \in Messages
      /\ stack' = [stack EXCEPT ![g] = [stack[g] EXCEPT ![Len(stack[g])] = f]]
      /\ unwinding' = [unwinding EXCEPT ![g] = None]
  BY OfOne DEF ReportPanic, Unwound, Exiting, SetTop
<1>2. Top(g) \in Frames /\ Top(g) = stack[g][Len(stack[g])]
  BY <1>1, OfOne DEF Top
<1>3. /\ f \in Frames /\ f.phase = "reported" /\ f.held = unwinding[g] /\ f.fn = Top(g).fn
      /\ f.value = Top(g).value /\ f.defers = Top(g).defers
  BY <1>1, <1>2 DEF Frames
<1> HIDE DEF f
<1>4. PlainFrame(f) = PlainFrame(Top(g))
  <2>1. (f.phase # "body") = (Top(g).phase # "body")
    BY <1>1, <1>3
  <2> QED BY <1>3, <2>1, Zenon DEF PlainFrame
<1>5. /\ stack'[g] = [stack[g] EXCEPT ![Len(stack[g])] = f] /\ stack[g] \in Seq(Frames)
      /\ \A h \in Goroutines : h # g =>
            stack'[h] = stack[h] /\ unwinding'[h] = unwinding[h]
  BY <1>1, OfOne
<1>6. /\ Len(stack[g]) \in 1..Len(stack[g]) /\ Len(stack'[g]) = Len(stack[g])
      /\ stack'[g] \in Seq(Frames)
      /\ \A k \in 1..Len(stack[g]) :
            stack'[g][k] = IF k = Len(stack[g]) THEN f ELSE stack[g][k]
  BY <1>3, <1>5, <1>1, TopFrame, ExceptSeq
<1>7. Plain(stack'[g]) = Plain(stack[g])
  <2>1. \A k \in 1..Len(stack[g]) : PlainFrame(stack'[g][k]) = PlainFrame(stack[g][k])
    BY <1>2, <1>4, <1>6
  <2> QED BY <1>6, <2>1 DEF Plain
<1>8. InFlight(g)' = InFlight(g)
  <2>1. InFlight(g) = unwinding[g]
    BY <1>1, FlightIsUnwinding
  <2>2. stack'[g] # <<>> /\ stack'[g][Len(stack'[g])] = f
    BY <1>6, EmptySeq
  <2> QED BY <1>3, <2>1, <2>2 DEF InFlight, Top
<1>9. /\ PlainStack' = [PlainStack EXCEPT ![g] = Plain(stack'[g])]
      /\ Flights' = [Flights EXCEPT ![g] = InFlight(g)']
  BY <1>5, PlainOfOne
<1>10. PlainStack[g] = Plain(stack[g]) /\ Flights[g] = InFlight(g)
  BY PlainOfOne
<1>11. exited' = exited
  BY DEF ReportPanic
<1> QED BY <1>7, <1>8, <1>9, <1>10, <1>11 DEF PlainStack, Flights

-----------------------------------------------------------------------------
(* The theorem.                                                            *)

LEMMA InitRefines == Init => PC!Init
<1> SUFFICES ASSUME Init PROVE PC!Init
  OBVIOUS
<1>1. \A g \in Goroutines : stack[g] = <<>> /\ unwinding[g] = None
  BY DEF Init
<1>2. \A g \in Goroutines : Plain(stack[g]) = <<>> /\ InFlight(g) = None
  BY <1>1, EmptySeq, PlainTypes DEF InFlight
<1>3. exited = {}
  BY DEF Init
<1> QED BY <1>2, <1>3 DEF PC!Init, Plain

LEMMA StepRefines ==
    ASSUME Inductive, NEW g \in Goroutines, Step(g)
    PROVE  PC!Next \/ UNCHANGED PC!vars
<1>1. CASE ReportPanic(g)
  BY <1>1, ReportPanicStutters, PlainUnchanged
<1>2. ASSUME NEW fn \in AllFuncs, NEW k \in 0..Len(Deferred[fn]), Call(g, fn, k)
      PROVE  PC!Next
  BY <1>2, CallRefines DEF PC!Next
<1>3. ASSUME NEW v \in Outcomes, Return(g, v) PROVE PC!Next
  <2>1. None \in Unwindings
    BY DEF Unwindings
  <2>2. PC!Exit(g, v, None)
    BY <1>3, <2>1, ExitRefines DEF Return
  <2> QED BY <2>2 DEF PC!Next, PC!Return, Outcomes, PC!Outcomes
<1>4. ASSUME NEW m \in Messages, Panic(g, m) PROVE PC!Next
  <2>1. m \in Unwindings
    BY DEF Unwindings
  <2>2. PC!Exit(g, None, m)
    BY <1>4, <2>1, ExitRefines DEF Panic
  <2> QED BY <2>2 DEF PC!Next, PC!Panic
<1>5. CASE CallGoexit(g)
  <2>1. Goexit \in Unwindings
    BY DEF Unwindings
  <2>2. PC!Exit(g, None, Goexit)
    BY <1>5, <2>1, ExitRefines DEF CallGoexit
  <2> QED BY <2>2 DEF PC!Next, PC!CallGoexit
<1>6. ASSUME NEW v \in Outcomes, NEW m \in Messages, RunDeferred(g, v, m)
      PROVE  PC!Next
  BY <1>6, RunDeferredRefines DEF PC!Next, Outcomes, PC!Outcomes
<1>7. CASE LeavePlain(g)
  <2>1. /\ stack[g] # <<>> /\ Top(g).phase = "exiting" /\ Top(g).defers = <<>>
        /\ Top(g).fn # "Middleware" /\ Leave(g, unwinding[g], Top(g))
        /\ exited' = exited
    BY <1>7 DEF LeavePlain, Unwound, Exiting
  <2>2. PC!Leave(g)
    BY <2>1, FlightIsUnwinding, LeaveRefines
  <2> QED BY <2>2 DEF PC!Next
<1>8. CASE LeaveInstrumented(g)
  <2>1. /\ stack[g] # <<>> /\ Top(g).phase = "exiting" /\ Top(g).defers = <<>>
        /\ Top(g).fn # "Middleware"
        /\ Leave(g, unwinding[g], EndSpan(Top(g), Top(g).value))
        /\ exited' = exited
    BY <1>8, SdkIsNotInstrumented DEF LeaveInstrumented, Unwound, Exiting
  <2>2. PC!Leave(g)
    BY <2>1, FlightIsUnwinding, LeaveRefines
  <2> QED BY <2>2 DEF PC!Next
<1>9. CASE EndAndPanicAgain(g)
  <2>1. /\ stack[g] # <<>> /\ Top(g).phase = "reported"
        /\ Leave(g, Top(g).held, EndSpan(Top(g), None))
        /\ exited' = exited
    BY <1>9 DEF EndAndPanicAgain
  <2>2. Top(g).fn \in Instrumented /\ Top(g).defers = <<>>
    BY <2>1, OfOne DEF Open
  <2>3. InFlight(g) = Top(g).held /\ Top(g).fn # "Middleware"
    BY <2>1, <2>2, SdkIsNotInstrumented DEF InFlight
  <2>4. PC!Leave(g)
    BY <2>1, <2>2, <2>3, LeaveRefines
  <2> QED BY <2>4 DEF PC!Next
<1>10. CASE LeaveTraceFunc(g)
  <2>1. /\ stack[g] # <<>> /\ Top(g).phase = "exiting" /\ Top(g).defers = <<>>
        /\ Top(g).fn = "TraceFunc"
        /\ \E frame : Leave(g, unwinding[g], frame)
        /\ exited' = exited
    BY <1>10 DEF LeaveTraceFunc, Unwound, Exiting
  <2>2. PC!Leave(g)
    BY <2>1, FlightIsUnwinding, LeaveRefines
  <2> QED BY <2>2 DEF PC!Next
<1>11. CASE LeaveMiddleware(g)
  <2>1. /\ stack[g] # <<>> /\ Top(g).phase = "exiting" /\ Top(g).defers = <<>>
        /\ Top(g).fn = "Middleware"
        /\ Leave(g, Recovered(g), Top(g)) /\ exited' = exited
    BY <1>11 DEF LeaveMiddleware, Unwound, Exiting
  <2>2. PC!Leave(g)
    BY <2>1, FlightIsUnwinding, LeaveRefines
  <2> QED BY <2>2 DEF PC!Next
<1>12. CASE Bottom(g)
  <2>1. /\ stack' = stack /\ stack[g] = <<>> /\ unwinding[g] # None
        /\ unwinding' = [unwinding EXCEPT ![g] = None] /\ exited' = exited \ {g}
    BY <1>12 DEF Bottom
  <2>2. /\ unwinding'[g] = None
        /\ \A h \in Goroutines : h # g =>
              stack'[h] = stack[h] /\ unwinding'[h] = unwinding[h]
    BY <2>1, OfOne
  <2>3. InFlight(g)' = None /\ InFlight(g) = unwinding[g]
    BY <2>1, <2>2 DEF InFlight
  <2>4. Flights' = [Flights EXCEPT ![g] = None] /\ PlainStack' = PlainStack
    BY <2>1, <2>2, <2>3, PlainOfOne DEF PlainStack
  <2>5. PlainStack[g] = <<>> /\ Flights[g] # None
    BY <2>1, <2>3, PlainOfOne
  <2>6. PC!Bottom(g)
    BY <2>1, <2>4, <2>5, PlainBottom
  <2> QED BY <2>6 DEF PC!Next
<1> QED BY <1>1, <1>2, <1>3, <1>4, <1>5, <1>6, <1>7, <1>8, <1>9, <1>10, <1>11, <1>12 DEF Step

LEMMA NextRefines == Inductive /\ [Next]_vars => [PC!Next]_(PC!vars)
<1> SUFFICES ASSUME Inductive, [Next]_vars PROVE PC!Next \/ UNCHANGED PC!vars
  OBVIOUS
<1>1. ASSUME stack' = stack, unwinding' = unwinding, exited' = exited
      PROVE  UNCHANGED PC!vars
  <2>1. \A g \in Goroutines : InFlight(g)' = InFlight(g)
    BY <1>1 DEF InFlight, Top
  <2>2. PlainStack' = PlainStack /\ Flights' = Flights
    BY <1>1, <2>1 DEF PlainStack, Flights, Plain
  <2> QED BY <1>1, <2>2, PlainUnchanged
<1>2. CASE UNCHANGED vars
  BY <1>1, <1>2 DEF vars
<1>3. CASE BuildStep
  BY <1>1, <1>3 DEF BuildStep, calls
<1>4. ASSUME NEW m \in Messages, Forget(m) PROVE UNCHANGED PC!vars
  BY <1>1, <1>4 DEF Forget
<1>5. ASSUME NEW g \in Goroutines, Step(g) PROVE PC!Next \/ UNCHANGED PC!vars
  BY <1>5, StepRefines
<1> QED BY <1>2, <1>3, <1>4, <1>5 DEF Next

\* An instrumented program does what it does without the instrumentation: it makes
\* the same calls, which return the same results, panic with the same values and
\* run the same deferred functions in the same order.
THEOREM InstrumentationChangesNothing == Spec => ImplementsPlainCalls
<1>1. Init => PC!Init
  BY InitRefines
<1>2. Inductive /\ [Next]_vars => [PC!Next]_(PC!vars)
  BY NextRefines
<1> QED BY <1>1, <1>2, InductiveHolds, PTL DEF Spec, PC!Spec, ImplementsPlainCalls

=============================================================================
