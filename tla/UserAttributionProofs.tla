------------------------ MODULE UserAttributionProofs ------------------------
(***************************************************************************)
(* The buffer of attribution events, proved for any number of goroutines,  *)
(* timers, traces and users.                                               *)
(***************************************************************************)
EXTENDS UserAttribution, SequenceTheorems, FiniteSetTheorems, FunctionTheorems, TLAPS

USE MaxCallsAssumption

\* The kinds of operation are told apart by their pc.
LEMMA OpsAre ==
    ASSUME NEW o \in Ops
    PROVE  /\ o.pc = "set" =>
                 o \in [pc : {"set"}, trace : Traces, keep : SUBSET Users,
                        join : SUBSET Users]
           /\ o.pc = "emit" =>
                 o \in [pc : {"emit"}, trace : Traces, adds : SUBSET Users,
                        ends : SUBSET Users]
           /\ o.pc = "post" => o \in [pc : {"post"}, events : Seq(Events)]
BY DEF Ops, Idle, DrainOp

LEMMA OpsHave ==
    /\ Idle \in Ops /\ DrainOp \in Ops
    /\ \A t \in Traces : \A a, b \in SUBSET Users :
          SetOp(t, a, b) \in Ops /\ EmitOp(t, a, b) \in Ops
    /\ \A es \in Seq(Events) : PostOp(es) \in Ops
BY DEF Ops, SetOp, EmitOp, PostOp

LEMMA Initially == Init => BufferInv
<1> SUFFICES ASSUME Init PROVE BufferInv
  OBVIOUS
<1>1. \A S : <<>> \in Seq(S)
  BY EmptySeq
<1>2. Len(<<>>) = 0
  BY EmptySeq
<1>3. TypeOK
  <2>1. op \in [Threads -> Ops]
    BY OpsHave DEF Init
  <2>2. uaActive \in [Traces -> SUBSET Users]
    BY DEF Init
  <2>3. uaBuffer \in Seq(Events) /\ posted \in Seq(Events) /\ dropped \in Seq(Events)
    BY <1>1 DEF Init
  <2>4. calls \in 0..MaxCalls /\ early \in 0..Len(uaBuffer)
    BY <1>2 DEF Init
  <2>5. configured \in BOOLEAN /\ timer \in {"nil", "armed", "expired"}
    BY DEF Init
  <2> QED BY <2>1, <2>2, <2>3, <2>4, <2>5, Zenon DEF TypeOK
<1>4. BufferedEventsHaveTimer
  BY <1>2 DEF BufferedEventsHaveTimer, Init
<1> QED BY <1>3, <1>4 DEF BufferInv

\* One goroutine goes on to operation o, the buffer and the timer stay.
LEMMA Moves ==
    ASSUME BufferInv, NEW g \in Threads, NEW o \in Ops,
           op' = [op EXCEPT ![g] = o],
           op[g].pc # "drain",
           UNCHANGED <<uaBuffer, timer, early, dropped>>,
           uaActive' \in [Traces -> SUBSET Users], configured' \in BOOLEAN,
           calls' \in 0..MaxCalls, posted' \in Seq(Events)
    PROVE  BufferInv'
<1>1. TypeOK /\ BufferedEventsHaveTimer
  BY DEF BufferInv
<1>2. /\ op' \in [Threads -> Ops] /\ op'[g] = o
      /\ \A h \in Threads : h # g => op'[h] = op[h]
  BY <1>1 DEF TypeOK
<1>3. TypeOK'
  BY <1>1, <1>2 DEF TypeOK
<1>4. BufferedEventsHaveTimer'
  BY <1>1, <1>2 DEF BufferedEventsHaveTimer
<1> QED BY <1>3, <1>4 DEF BufferInv

\* The application calls.
LEMMA CallStep ==
    ASSUME BufferInv, NEW g \in Threads, NEW o \in Ops, Call(g, o)
    PROVE  BufferInv'
<1>1. TypeOK
  BY DEF BufferInv
<1>2. /\ op' = [op EXCEPT ![g] = o] /\ calls' = calls + 1 /\ calls < MaxCalls
      /\ UNCHANGED <<uaActive, uaBuffer, timer, configured, early, posted, dropped>>
  BY DEF Call
<1>3. op[g].pc # "drain"
  BY DEF Call, Idle
<1>4. /\ uaActive' \in [Traces -> SUBSET Users] /\ configured' \in BOOLEAN
      /\ calls' \in 0..MaxCalls /\ posted' \in Seq(Events)
  BY <1>1, <1>2 DEF TypeOK
<1> QED BY <1>2, <1>3, <1>4, Moves

LEMMA ChangeSetStep ==
    ASSUME BufferInv, NEW g \in Threads, ChangeSet(g)
    PROVE  BufferInv'
<1> DEFINE t == op[g].trace
           new == (uaActive[t] \cap op[g].keep) \cup op[g].join
           adds == new \ uaActive[t]
           ends == uaActive[t] \ new
           o == IF adds \cup ends = {} THEN Idle ELSE EmitOp(t, adds, ends)
<1>1. TypeOK
  BY DEF BufferInv
<1>2. op[g].pc = "set" /\ op[g] \in Ops
  BY <1>1 DEF ChangeSet, TypeOK
<1>3. t \in Traces /\ op[g].keep \in SUBSET Users /\ op[g].join \in SUBSET Users
  BY <1>2, OpsAre
<1>4. uaActive[t] \in SUBSET Users /\ new \in SUBSET Users
  BY <1>1, <1>3 DEF TypeOK
<1>5. o \in Ops
  BY <1>3, <1>4, OpsHave
<1>6. /\ uaActive' = [uaActive EXCEPT ![t] = new] /\ op' = [op EXCEPT ![g] = o]
      /\ UNCHANGED <<uaBuffer, timer, configured, calls, early, posted, dropped>>
  BY DEF ChangeSet
<1> HIDE DEF o, new, t
<1>7. /\ uaActive' \in [Traces -> SUBSET Users] /\ configured' \in BOOLEAN
      /\ calls' \in 0..MaxCalls /\ posted' \in Seq(Events)
  BY <1>1, <1>3, <1>4, <1>6 DEF TypeOK
<1> QED BY <1>2, <1>5, <1>6, <1>7, Moves

\* An event comes into the buffer, and the timer with it.
LEMMA EnqueueStep ==
    ASSUME BufferInv, NEW e \in Events, Enqueue(e)
    PROVE  /\ uaBuffer' \in Seq(Events) /\ early' \in 0..Len(uaBuffer')
           /\ timer' \in {"nil", "armed", "expired"}
           /\ Len(uaBuffer') > early' => timer' # "nil"
           /\ timer' = "expired" => timer = "expired"
<1>1. TypeOK /\ BufferedEventsHaveTimer
  BY DEF BufferInv
<1>2. uaBuffer \in Seq(Events) /\ Len(uaBuffer) \in Nat /\ early \in 0..Len(uaBuffer)
  BY <1>1, LenProperties DEF TypeOK
<1>3. uaBuffer' \in Seq(Events) /\ Len(uaBuffer') = Len(uaBuffer) + 1
  BY <1>2, AppendProperties DEF Enqueue
<1>4. timer \in {"nil", "armed", "expired"} /\ (Len(uaBuffer) > early => timer # "nil")
  BY <1>1 DEF TypeOK, BufferedEventsHaveTimer
<1>5. CASE configured
  <2>1. early' = early /\ timer' = IF timer = "nil" THEN "armed" ELSE timer
    BY <1>5 DEF Enqueue
  <2> QED BY <1>2, <1>3, <1>4, <2>1
<1>6. CASE ~configured
  <2>1. early' = early + 1 /\ timer' = timer
    BY <1>6 DEF Enqueue
  <2> QED BY <1>2, <1>3, <1>4, <2>1
<1> QED BY <1>5, <1>6

LEMMA EmitStep ==
    ASSUME BufferInv, NEW g \in Threads, Emit(g)
    PROVE  BufferInv'
<1>1. TypeOK /\ BufferedEventsHaveTimer
  BY DEF BufferInv
<1>2. op[g].pc = "emit" /\ op[g] \in Ops
  BY <1>1 DEF Emit, TypeOK
<1>3. op[g].trace \in Traces /\ op[g].adds \in SUBSET Users /\ op[g].ends \in SUBSET Users
  BY <1>2, OpsAre
<1>4. PICK u \in IF op[g].adds # {} THEN op[g].adds ELSE op[g].ends :
         LET adds == op[g].adds \ {u}
             ends == IF op[g].adds = {} THEN op[g].ends \ {u} ELSE op[g].ends
         IN
         /\ Enqueue(Event(op[g].trace, u, IF op[g].adds # {} THEN "add" ELSE "end"))
         /\ op' = [op EXCEPT ![g] = IF adds \cup ends = {} THEN Idle
                                    ELSE EmitOp(op[g].trace, adds, ends)]
  BY DEF Emit
<1> DEFINE adds == op[g].adds \ {u}
           ends == IF op[g].adds = {} THEN op[g].ends \ {u} ELSE op[g].ends
           o == IF adds \cup ends = {} THEN Idle ELSE EmitOp(op[g].trace, adds, ends)
           e == Event(op[g].trace, u, IF op[g].adds # {} THEN "add" ELSE "end")
<1>5. e \in Events /\ Enqueue(e)
  BY <1>3, <1>4 DEF Event, Events
<1>6. o \in Ops
  BY <1>3, OpsHave
<1>7. o.pc # "drain" /\ op' = [op EXCEPT ![g] = o]
  BY <1>4 DEF EmitOp, Idle
<1> HIDE DEF o, e
<1>8. /\ op' \in [Threads -> Ops] /\ op'[g] = o
      /\ \A h \in Threads : h # g => op'[h] = op[h]
  BY <1>1, <1>6, <1>7 DEF TypeOK
<1>9. /\ uaBuffer' \in Seq(Events) /\ early' \in 0..Len(uaBuffer')
      /\ timer' \in {"nil", "armed", "expired"}
      /\ Len(uaBuffer') > early' => timer' # "nil"
      /\ timer' = "expired" => timer = "expired"
  BY <1>5, EnqueueStep
<1>10. TypeOK'
  <2>1. UNCHANGED <<uaActive, configured, calls, posted, dropped>>
    BY DEF Emit
  <2> HIDE DEF adds, ends
  <2> QED BY <1>1, <1>8, <1>9, <2>1 DEF TypeOK
<1>11. BufferedEventsHaveTimer'
  <2>1. timer' = "expired" => \E f \in Threads : op'[f].pc = "drain"
    <3> SUFFICES ASSUME timer' = "expired" PROVE \E f \in Threads : op'[f].pc = "drain"
      OBVIOUS
    <3>1. PICK f \in Threads : op[f].pc = "drain"
      BY <1>1, <1>9 DEF BufferedEventsHaveTimer
    <3>2. f # g
      BY <1>2, <3>1
    <3>3. op'[f] = op[f]
      BY <1>8, <3>2
    <3> QED BY <3>1, <3>3
  <2>2. Len(uaBuffer') > early' => timer' # "nil"
    BY <1>9
  <2> QED BY <2>1, <2>2 DEF BufferedEventsHaveTimer
<1> QED BY <1>10, <1>11 DEF BufferInv

LEMMA TimerExpiresStep ==
    ASSUME BufferInv, NEW f \in Timers, TimerExpires(f)
    PROVE  BufferInv'
<1>1. TypeOK /\ BufferedEventsHaveTimer
  BY DEF BufferInv
<1>2. f \in Threads /\ DrainOp \in Ops /\ DrainOp.pc = "drain"
  BY OpsHave DEF Threads, DrainOp
<1>3. /\ op' \in [Threads -> Ops] /\ op'[f] = DrainOp
      /\ \A h \in Threads : h # f => op'[h] = op[h]
  BY <1>1, <1>2 DEF TypeOK, TimerExpires
<1>4. TypeOK'
  BY <1>1, <1>3 DEF TypeOK, TimerExpires
<1>5. BufferedEventsHaveTimer'
  BY <1>2, <1>3 DEF BufferedEventsHaveTimer, TimerExpires
<1> QED BY <1>4, <1>5 DEF BufferInv

LEMMA DrainStep ==
    ASSUME BufferInv, NEW g \in Threads, Drain(g)
    PROVE  BufferInv'
<1> DEFINE o == IF uaBuffer # <<>> /\ configured THEN PostOp(uaBuffer) ELSE Idle
<1>1. TypeOK
  BY DEF BufferInv
<1>2. o \in Ops
  BY <1>1, OpsHave DEF TypeOK, PostOp, Idle
<1>3. op' = [op EXCEPT ![g] = o]
  BY DEF Drain
<1> HIDE DEF o
<1>4. /\ op' \in [Threads -> Ops] /\ op'[g] = o
      /\ \A h \in Threads : h # g => op'[h] = op[h]
  BY <1>1, <1>2, <1>3 DEF TypeOK
<1>5. uaBuffer' = <<>> /\ uaBuffer' \in Seq(Events) /\ Len(uaBuffer') = 0
  BY EmptySeq DEF Drain
<1>6. dropped' \in Seq(Events)
  BY <1>1, ConcatProperties DEF Drain, TypeOK
<1>7. TypeOK'
  BY <1>1, <1>4, <1>5, <1>6 DEF TypeOK, Drain
<1>8. BufferedEventsHaveTimer'
  BY <1>5 DEF BufferedEventsHaveTimer, Drain
<1> QED BY <1>7, <1>8 DEF BufferInv

LEMMA PostStep ==
    ASSUME BufferInv, NEW g \in Threads, Post(g)
    PROVE  BufferInv'
<1>1. TypeOK
  BY DEF BufferInv
<1>2. op[g].pc = "post" /\ op[g].events \in Seq(Events)
  BY <1>1, OpsAre DEF Post, TypeOK
<1>3. posted' \in Seq(Events)
  BY <1>1, <1>2, ConcatProperties DEF Post, TypeOK
<1>4. /\ op' = [op EXCEPT ![g] = Idle] /\ Idle \in Ops
      /\ UNCHANGED <<uaActive, uaBuffer, timer, configured, calls, early, dropped>>
  BY OpsHave DEF Post, Idle
<1>5. /\ uaActive' \in [Traces -> SUBSET Users] /\ configured' \in BOOLEAN
      /\ calls' \in 0..MaxCalls
  BY <1>1, <1>4 DEF TypeOK
<1> QED BY <1>2, <1>3, <1>4, <1>5, Moves

LEMMA Steps == BufferInv /\ [Next]_vars => BufferInv'
<1> SUFFICES ASSUME BufferInv, [Next]_vars PROVE BufferInv'
  OBVIOUS
<1>1. CASE UNCHANGED vars
  BY <1>1 DEF BufferInv, TypeOK, BufferedEventsHaveTimer, vars
<1>2. CASE Configure
  BY <1>2 DEF Configure, BufferInv, TypeOK, BufferedEventsHaveTimer
<1>3. ASSUME NEW g \in Goroutines, NEW o \in Ops, Call(g, o)
      PROVE  BufferInv'
  BY <1>3, CallStep DEF Threads
<1>4. ASSUME NEW g \in Goroutines, NEW t \in Traces, NEW keep \in SUBSET Users,
             NEW join \in SUBSET Users, Call(g, SetOp(t, keep, join))
      PROVE  BufferInv'
  BY <1>3, <1>4, OpsHave
<1>5. ASSUME NEW g \in Goroutines, NEW t \in Traces, NEW u \in Users,
             AddActiveUser(g, t, u) \/ RemoveActiveUser(g, t, u)
      PROVE  BufferInv'
  BY <1>4, <1>5 DEF AddActiveUser, RemoveActiveUser
<1>6. ASSUME NEW g \in Goroutines, NEW t \in Traces,
             \/ \E us \in SUBSET Users : SetActiveUsers(g, t, us)
             \/ ClearActiveUsers(g, t)
      PROVE  BufferInv'
  BY <1>4, <1>6 DEF SetActiveUsers, ClearActiveUsers
<1>7. ASSUME NEW g \in Goroutines, FlushUserAttribution(g) PROVE BufferInv'
  BY <1>3, <1>7, OpsHave DEF FlushUserAttribution
<1>8. ASSUME NEW f \in Timers, TimerExpires(f) PROVE BufferInv'
  BY <1>8, TimerExpiresStep
<1>9. ASSUME NEW g \in Threads, Continue(g) PROVE BufferInv'
  BY <1>9, ChangeSetStep, EmitStep, DrainStep, PostStep DEF Continue
<1> QED BY <1>1, <1>2, <1>5, <1>6, <1>7, <1>8, <1>9 DEF Next

-----------------------------------------------------------------------------
\* Counting events.

\* A sequence has finitely many places, and every natural number is a count.
LEMMA PlacesFinite ==
    ASSUME NEW S, NEW s \in Seq(S), NEW e
    PROVE  IsFiniteSet(Places(s, e)) /\ Occurs(s, e) \in Nat
<1>1. Len(s) \in Nat
  BY LenProperties
<1>2. IsFiniteSet(1..Len(s))
  BY <1>1, FS_Interval
<1>3. Places(s, e) \subseteq 1..Len(s)
  BY DEF Places
<1>4. IsFiniteSet(Places(s, e))
  BY <1>2, <1>3, FS_Subset
<1> QED BY <1>4, FS_CardinalityType DEF Occurs

\* The empty sequence has no events.
LEMMA NoPlaces == \A e : Places(<<>>, e) = {} /\ Occurs(<<>>, e) = 0
<1>1. Len(<<>>) = 0
  BY EmptySeq
<1>2. \A e : Places(<<>>, e) = {}
  BY <1>1 DEF Places
<1> QED BY <1>2, FS_EmptySet DEF Occurs

\* One more event is one more occurrence of it.
LEMMA OccursAppend ==
    ASSUME NEW S, NEW s \in Seq(S), NEW x \in S, NEW e
    PROVE  Occurs(Append(s, x), e) = IF x = e THEN Occurs(s, e) + 1 ELSE Occurs(s, e)
<1>1. /\ Len(s) \in Nat
      /\ Len(Append(s, x)) = Len(s) + 1
      /\ \A k \in 1..Len(s) : Append(s, x)[k] = s[k]
      /\ Append(s, x)[Len(s) + 1] = x
  BY LenProperties, AppendProperties
<1>2. Len(s) + 1 \notin Places(s, e)
  BY <1>1 DEF Places
<1>3. Places(Append(s, x), e)
         = IF x = e THEN Places(s, e) \cup {Len(s) + 1} ELSE Places(s, e)
  BY <1>1 DEF Places
<1>4. IsFiniteSet(Places(s, e))
  BY PlacesFinite
<1> QED BY <1>2, <1>3, <1>4, FS_AddElement DEF Occurs

\* Shifting a set of places, or tagging it, does not change its size.
LEMMA Shifted ==
    ASSUME NEW S \in SUBSET Nat, IsFiniteSet(S), NEW n \in Nat,
           NEW T, T = {n + k : k \in S}
    PROVE  IsFiniteSet(T) /\ Cardinality(T) = Cardinality(S)
<1> DEFINE f == [k \in S |-> n + k]
<1>1. f \in [S -> T]
  OBVIOUS
<1>2. \A a, b \in S : f[a] = f[b] => a = b
  OBVIOUS
<1>3. \A t \in T : \E a \in S : f[a] = t
  OBVIOUS
<1>4. f \in Bijection(S, T)
  BY <1>1, <1>2, <1>3, Fun_IsBij
<1>5. ExistsBijection(S, T)
  BY <1>4 DEF ExistsBijection
<1> QED BY <1>5, FS_Bijection

LEMMA Tagged ==
    ASSUME NEW S, IsFiniteSet(S), NEW g
    PROVE  IsFiniteSet({g} \X S) /\ Cardinality({g} \X S) = Cardinality(S)
<1> DEFINE T == {g} \X S
           f == [k \in S |-> <<g, k>>]
<1>1. f \in [S -> T]
  OBVIOUS
<1>2. \A a, b \in S : f[a] = f[b] => a = b
  OBVIOUS
<1>3. \A t \in T : \E a \in S : f[a] = t
  OBVIOUS
<1>4. f \in Bijection(S, T)
  BY <1>1, <1>2, <1>3, Fun_IsBij
<1>5. ExistsBijection(S, T)
  BY <1>4 DEF ExistsBijection
<1> QED BY <1>5, FS_Bijection

\* The sizes of sets without a common element add up.
LEMMA Disjoint ==
    ASSUME NEW S, IsFiniteSet(S), NEW T, IsFiniteSet(T), S \cap T = {}
    PROVE  /\ IsFiniteSet(S \cup T)
           /\ Cardinality(S \cup T) = Cardinality(S) + Cardinality(T)
<1>1. Cardinality(S) \in Nat /\ Cardinality(T) \in Nat
  BY FS_CardinalityType
<1>2. /\ IsFiniteSet(S \cup T)
      /\ Cardinality(S \cup T)
            = Cardinality(S) + Cardinality(T) - Cardinality(S \cap T)
  BY FS_Union
<1>3. Cardinality(S \cap T) = 0
  BY FS_EmptySet
<1> QED BY <1>1, <1>2, <1>3

\* Occurrences add up when sequences are joined.
LEMMA OccursConcat ==
    ASSUME NEW S, NEW a \in Seq(S), NEW b \in Seq(S), NEW e
    PROVE  Occurs(a \o b, e) = Occurs(a, e) + Occurs(b, e)
<1> DEFINE n == Len(a)
           later == {n + k : k \in Places(b, e)}
<1>1. /\ n \in Nat /\ Len(b) \in Nat
      /\ Len(a \o b) = n + Len(b)
      /\ \A k \in 1..n : (a \o b)[k] = a[k]
      /\ \A k \in 1..Len(b) : (a \o b)[n + k] = b[k]
  BY LenProperties, ConcatProperties
<1>2. Places(a \o b, e) = Places(a, e) \cup later
  <2>1. ASSUME NEW k \in Places(a \o b, e)
        PROVE  k \in Places(a, e) \cup later
    <3>1. k \in 1..(n + Len(b)) /\ (a \o b)[k] = e
      BY <1>1 DEF Places
    <3>2. CASE k <= n
      <4>1. k \in 1..n
        BY <1>1, <3>1, <3>2
      <4> QED BY <1>1, <3>1, <4>1 DEF Places
    <3>3. CASE k > n
      <4>1. k - n \in 1..Len(b) /\ k = n + (k - n)
        BY <1>1, <3>1, <3>3
      <4>2. b[k - n] = e
        BY <1>1, <3>1, <4>1
      <4>3. k - n \in Places(b, e)
        BY <4>1, <4>2 DEF Places
      <4> QED BY <4>1, <4>3
    <3> QED BY <1>1, <3>1, <3>2, <3>3
  <2>2. ASSUME NEW k \in Places(a, e) PROVE k \in Places(a \o b, e)
    BY <1>1 DEF Places
  <2>3. ASSUME NEW k \in Places(b, e) PROVE n + k \in Places(a \o b, e)
    <3>1. k \in 1..Len(b) /\ b[k] = e
      BY DEF Places
    <3>2. n + k \in 1..(n + Len(b)) /\ (a \o b)[n + k] = e
      BY <1>1, <3>1
    <3> QED BY <1>1, <3>2 DEF Places
  <2> QED BY <2>1, <2>2, <2>3
<1>3. /\ IsFiniteSet(Places(a, e)) /\ Occurs(a, e) \in Nat
      /\ IsFiniteSet(Places(b, e)) /\ Occurs(b, e) \in Nat
  BY PlacesFinite
<1>4. Places(b, e) \in SUBSET Nat
  BY <1>1 DEF Places
<1>5. IsFiniteSet(later) /\ Cardinality(later) = Occurs(b, e)
  <2> DEFINE placesOfB == Places(b, e)
  <2>1. placesOfB \in SUBSET Nat /\ IsFiniteSet(placesOfB) /\ n \in Nat
    BY <1>1, <1>3, <1>4
  <2>2. later = {n + k : k \in placesOfB}
    OBVIOUS
  <2>3. Occurs(b, e) = Cardinality(placesOfB)
    BY DEF Occurs
  <2> HIDE DEF placesOfB, later, n
  <2>4. IsFiniteSet(later) /\ Cardinality(later) = Cardinality(placesOfB)
    BY <2>1, <2>2, Shifted
  <2> QED BY <2>3, <2>4
<1>6. Places(a, e) \cap later = {}
  <2>1. ASSUME NEW k \in Places(a, e) PROVE k \in Nat /\ k <= n
    BY <1>1 DEF Places
  <2>2. ASSUME NEW k \in Places(b, e) PROVE k \in Nat /\ k > 0
    BY <1>1 DEF Places
  <2>3. ASSUME NEW k \in later PROVE k > n
    <3>1. PICK j \in Places(b, e) : k = n + j
      OBVIOUS
    <3>2. j \in Nat /\ j > 0
      BY <2>2
    <3> QED BY <1>1, <3>1, <3>2
  <2>4. ASSUME NEW k, k \in Places(a, e), k \in later PROVE FALSE
    <3> HIDE DEF later
    <3>1. k \in Nat /\ k <= n
      BY <2>1, <2>4
    <3>2. k > n
      BY <2>3, <2>4
    <3> QED BY <1>1, <3>1, <3>2
  <2> HIDE DEF later
  <2> QED BY <2>4
<1> HIDE DEF later
<1>7. Cardinality(Places(a, e) \cup later)
         = Cardinality(Places(a, e)) + Cardinality(later)
  BY <1>3, <1>5, <1>6, Disjoint
<1> QED BY <1>2, <1>3, <1>5, <1>7 DEF Occurs

\* What a goroutine has in hand is finite, and nothing unless it emits or posts.
LEMMA HandFinite ==
    ASSUME TypeOK, NEW g \in Threads, NEW e
    PROVE  IsFiniteSet(Hand(g, e)) /\ Cardinality(Hand(g, e)) \in Nat
<1> SUFFICES IsFiniteSet(Hand(g, e))
  BY FS_CardinalityType
<1>1. CASE HasToEmit(g, e)
  BY <1>1, FS_Singleton DEF Hand
<1>2. CASE ~HasToEmit(g, e) /\ op[g].pc = "post"
  <2>1. op[g].events \in Seq(Events)
    BY <1>2, OpsAre DEF TypeOK
  <2> QED BY <1>2, <2>1, PlacesFinite DEF Hand
<1>3. CASE ~HasToEmit(g, e) /\ op[g].pc # "post"
  BY <1>3, FS_EmptySet DEF Hand
<1> QED BY <1>1, <1>2, <1>3

LEMMA HandFiniteNext ==
    ASSUME TypeOK', NEW g \in Threads, NEW e
    PROVE  IsFiniteSet(Hand(g, e)') /\ Cardinality(Hand(g, e)') \in Nat
<1> SUFFICES IsFiniteSet(Hand(g, e)')
  BY FS_CardinalityType
<1>1. CASE HasToEmit(g, e)'
  BY <1>1, FS_Singleton DEF Hand
<1>2. CASE ~HasToEmit(g, e)' /\ op'[g].pc = "post"
  <2>1. op'[g].events \in Seq(Events)
    BY <1>2, OpsAre DEF TypeOK
  <2> QED BY <1>2, <2>1, PlacesFinite DEF Hand
<1>3. CASE ~HasToEmit(g, e)' /\ op'[g].pc # "post"
  BY <1>3, FS_EmptySet DEF Hand
<1> QED BY <1>1, <1>2, <1>3

\* What is in hand changes as the hand of the one goroutine that moves.
LEMMA InHandChanges ==
    ASSUME TypeOK, TypeOK', NEW g \in Threads, NEW o, op' = [op EXCEPT ![g] = o],
           NEW e, IsFiniteSet(InHand(e))
    PROVE  /\ IsFiniteSet(InHand(e)')
           /\ \E n \in Nat :
                 /\ Cardinality(InHand(e)) = n + Cardinality(Hand(g, e))
                 /\ Cardinality(InHand(e)') = n + Cardinality(Hand(g, e)')
<1> DEFINE others == UNION {{h} \X Hand(h, e) : h \in Threads \ {g}}
           own == {g} \X Hand(g, e)
           next == {g} \X Hand(g, e)'
<1>1. \A h \in Threads \ {g} : Hand(h, e)' = Hand(h, e)
  <2>1. \A h \in Threads \ {g} : op'[h] = op[h]
    BY DEF TypeOK
  <2> QED BY <2>1 DEF Hand, HasToEmit
<1>2. InHand(e) = others \cup own
  BY DEF InHand
<1>3. InHand(e)' = others \cup next
  <2>1. InHand(e)' = UNION {{h} \X Hand(h, e)' : h \in Threads}
    BY DEF InHand
  <2> QED BY <1>1, <2>1
<1>4. others \cap own = {} /\ others \cap next = {}
  OBVIOUS
<1>5. IsFiniteSet(Hand(g, e)) /\ Cardinality(Hand(g, e)) \in Nat
  BY HandFinite
<1>6. IsFiniteSet(Hand(g, e)') /\ Cardinality(Hand(g, e)') \in Nat
  BY HandFiniteNext
<1>7. IsFiniteSet(others) /\ Cardinality(others) \in Nat
  BY <1>2, FS_Subset, FS_CardinalityType
<1>8. /\ IsFiniteSet(own) /\ Cardinality(own) = Cardinality(Hand(g, e))
      /\ IsFiniteSet(next) /\ Cardinality(next) = Cardinality(Hand(g, e)')
  BY <1>5, <1>6, Tagged
<1> HIDE DEF others, own, next
<1>9. /\ Cardinality(others \cup own) = Cardinality(others) + Cardinality(own)
      /\ IsFiniteSet(others \cup next)
      /\ Cardinality(others \cup next) = Cardinality(others) + Cardinality(next)
  BY <1>4, <1>7, <1>8, Disjoint
<1> QED BY <1>2, <1>3, <1>7, <1>8, <1>9

-----------------------------------------------------------------------------
\* The account.

\* Nothing is emitted before the first call.
LEMMA AccountInit == Init => EventsAccountForSets /\ \A e : IsFiniteSet(InHand(e))
<1> SUFFICES ASSUME Init
             PROVE  EventsAccountForSets /\ \A e : IsFiniteSet(InHand(e))
  OBVIOUS
<1>1. \A e : InHand(e) = {}
  BY DEF InHand, Hand, HasToEmit, Init, Idle
<1>2. \A e : Emitted(e) = 0 + 0 + 0 + 0
  <2>1. \A e : Cardinality(InHand(e)) = 0
    BY <1>1, FS_EmptySet
  <2> QED BY <2>1, NoPlaces DEF Emitted, Init
<1>3. EventsAccountForSets
  BY <1>2 DEF EventsAccountForSets, Init
<1> QED BY <1>1, <1>3, FS_EmptySet

\* The counts are numbers.
LEMMA CountsAre ==
    ASSUME TypeOK, NEW e, IsFiniteSet(InHand(e))
    PROVE  /\ Occurs(posted, e) \in Nat /\ Occurs(uaBuffer, e) \in Nat
           /\ Occurs(dropped, e) \in Nat /\ Cardinality(InHand(e)) \in Nat
           /\ Emitted(e) \in Nat
<1>1. /\ Occurs(posted, e) \in Nat /\ Occurs(uaBuffer, e) \in Nat
      /\ Occurs(dropped, e) \in Nat
  BY PlacesFinite DEF TypeOK
<1>2. Cardinality(InHand(e)) \in Nat
  BY FS_CardinalityType
<1> QED BY <1>1, <1>2 DEF Emitted

\* An event that moves on is neither lost nor counted twice.
LEMMA AccountKept ==
    ASSUME AttributionInv, UNCHANGED uaActive,
           \A e \in Events : Emitted(e)' = Emitted(e) /\ IsFiniteSet(InHand(e)')
    PROVE  EventsAccountForSets' /\ \A e \in Events : IsFiniteSet(InHand(e)')
<1>1. \A t \in Traces, u \in Users :
        Event(t, u, "add") \in Events /\ Event(t, u, "end") \in Events
  BY DEF Event, Events
<1>2. \A t \in Traces, u \in Users :
        /\ Emitted(Event(t, u, "add"))' = Emitted(Event(t, u, "add"))
        /\ Emitted(Event(t, u, "end"))' = Emitted(Event(t, u, "end"))
  BY <1>1 DEF Event
<1>3. EventsAccountForSets'
  BY <1>2 DEF AttributionInv, EventsAccountForSets
<1> QED BY <1>3

\* The hand of a goroutine that starts a call, or stops, is empty.
LEMMA EmptyHands ==
    /\ \A g, e : op[g].pc \notin {"emit", "post"} => Hand(g, e) = {}
    /\ \A g, e : op'[g].pc \notin {"emit", "post"} => Hand(g, e)' = {}
    /\ Cardinality({}) = 0
BY FS_EmptySet DEF Hand, HasToEmit

\* Calls and timers change nobody's hand.
LEMMA AccountOfIdle ==
    ASSUME AttributionInv, TypeOK', NEW g \in Threads, NEW o, op' = [op EXCEPT ![g] = o],
           op[g].pc \notin {"emit", "post"}, o.pc \notin {"emit", "post"},
           UNCHANGED <<uaActive, uaBuffer, posted, dropped>>
    PROVE  EventsAccountForSets' /\ \A e \in Events : IsFiniteSet(InHand(e)')
<1>1. TypeOK
  BY DEF AttributionInv, BufferInv
<1>2. op'[g] = o
  BY <1>1 DEF TypeOK
<1>3. ASSUME NEW e \in Events
      PROVE  Emitted(e)' = Emitted(e) /\ IsFiniteSet(InHand(e)')
  <2>1. IsFiniteSet(InHand(e))
    BY DEF AttributionInv
  <2>2. /\ IsFiniteSet(InHand(e)')
        /\ \E n \in Nat : /\ Cardinality(InHand(e)) = n + Cardinality(Hand(g, e))
                          /\ Cardinality(InHand(e)') = n + Cardinality(Hand(g, e)')
    BY <1>1, <2>1, InHandChanges
  <2>3. Hand(g, e) = {} /\ Hand(g, e)' = {}
    BY <1>2, EmptyHands
  <2>4. Cardinality(InHand(e)') = Cardinality(InHand(e))
    BY <2>2, <2>3
  <2> QED BY <2>2, <2>4 DEF Emitted
<1> QED BY <1>3, AccountKept

\* The set changes by the events that the goroutine takes in hand.
LEMMA AccountOfChange ==
    ASSUME AttributionInv, TypeOK', NEW g \in Threads, ChangeSet(g)
    PROVE  EventsAccountForSets' /\ \A e \in Events : IsFiniteSet(InHand(e)')
<1> DEFINE t == op[g].trace
           new == (uaActive[t] \cap op[g].keep) \cup op[g].join
           adds == new \ uaActive[t]
           ends == uaActive[t] \ new
           o == IF adds \cup ends = {} THEN Idle ELSE EmitOp(t, adds, ends)
<1>1. TypeOK
  BY DEF AttributionInv, BufferInv
<1>2. op[g].pc = "set" /\ op[g] \in Ops
  BY <1>1 DEF ChangeSet, TypeOK
<1>3. t \in Traces
  BY <1>2, OpsAre
<1>4. /\ uaActive' = [uaActive EXCEPT ![t] = new] /\ op' = [op EXCEPT ![g] = o]
      /\ UNCHANGED <<uaBuffer, posted, dropped>>
  BY DEF ChangeSet
<1>5. op'[g] = o
  BY <1>1, <1>4 DEF TypeOK
<1>6. \A v : v \in uaActive'[t] <=> v \in new
  BY <1>1, <1>3, <1>4 DEF TypeOK
<1>7. \A e : Hand(g, e) = {}
  BY <1>2, EmptyHands
<1>8. \A e : Hand(g, e)' = IF e.trace = t /\ e.user \in (IF e.action = "add" THEN adds ELSE ends)
                           THEN {0} ELSE {}
  <2>1. CASE adds \cup ends = {}
    <3>1. op'[g] = Idle
      BY <1>5, <2>1
    <3>2. \A e : Hand(g, e)' = {}
      BY <3>1, EmptyHands DEF Idle
    <3> QED BY <2>1, <3>2
  <2>2. CASE adds \cup ends # {}
    <3>1. op'[g] = EmitOp(t, adds, ends)
      BY <1>5, <2>2
    <3> HIDE DEF adds, ends, t
    <3>2. op'[g].pc = "emit" /\ op'[g].trace = t /\ op'[g].adds = adds /\ op'[g].ends = ends
      BY <3>1 DEF EmitOp
    <3> QED BY <3>2 DEF Hand, HasToEmit
  <2> QED BY <2>1, <2>2
<1> HIDE DEF o
<1>9. ASSUME NEW e \in Events
      PROVE  /\ IsFiniteSet(InHand(e)')
             /\ Emitted(e) \in Nat
             /\ Emitted(e)' = IF Hand(g, e)' = {0} THEN Emitted(e) + 1 ELSE Emitted(e)
  <2>1. IsFiniteSet(InHand(e))
    BY DEF AttributionInv
  <2>2. /\ IsFiniteSet(InHand(e)')
        /\ \E n \in Nat : /\ Cardinality(InHand(e)) = n + Cardinality(Hand(g, e))
                          /\ Cardinality(InHand(e)') = n + Cardinality(Hand(g, e)')
    BY <1>1, <1>4, <2>1, InHandChanges
  <2>3. Cardinality({0}) = 1 /\ Cardinality({}) = 0 /\ {0} # {}
    BY FS_Singleton, FS_EmptySet
  <2>4. Hand(g, e) = {} /\ (Hand(g, e)' = {0} \/ Hand(g, e)' = {})
    BY <1>7, <1>8
  <2>5. Cardinality(InHand(e)')
           = IF Hand(g, e)' = {0} THEN Cardinality(InHand(e)) + 1 ELSE Cardinality(InHand(e))
    BY <2>2, <2>3, <2>4
  <2>6. /\ Occurs(posted, e) \in Nat /\ Occurs(uaBuffer, e) \in Nat
        /\ Occurs(dropped, e) \in Nat /\ Cardinality(InHand(e)) \in Nat
        /\ Emitted(e) \in Nat
    BY <1>1, <2>1, CountsAre
  <2>7. Emitted(e)' = Occurs(posted, e) + Occurs(uaBuffer, e) + Occurs(dropped, e)
                         + Cardinality(InHand(e)')
    BY <1>4 DEF Emitted
  <2>8. Emitted(e) = Occurs(posted, e) + Occurs(uaBuffer, e) + Occurs(dropped, e)
                         + Cardinality(InHand(e))
    BY DEF Emitted
  <2> QED BY <2>2, <2>5, <2>6, <2>7, <2>8
<1>10. ASSUME NEW s \in Traces, NEW u \in Users
       PROVE  LET add == Event(s, u, "add")
                  end == Event(s, u, "end")
              IN  Emitted(add)' = Emitted(end)' + (IF u \in uaActive'[s] THEN 1 ELSE 0)
  <2> DEFINE add == Event(s, u, "add")
             end == Event(s, u, "end")
  <2>1. /\ add \in Events /\ end \in Events
        /\ add.trace = s /\ add.user = u /\ add.action = "add"
        /\ end.trace = s /\ end.user = u /\ end.action = "end"
    BY DEF Event, Events
  <2>2. Emitted(add) = Emitted(end) + (IF u \in uaActive[s] THEN 1 ELSE 0)
    BY DEF AttributionInv, EventsAccountForSets
  <2>3. /\ Hand(g, add)' = IF s = t /\ u \in adds THEN {0} ELSE {}
        /\ Hand(g, end)' = IF s = t /\ u \in ends THEN {0} ELSE {}
    BY <1>8, <2>1
  <2>4. s # t => uaActive'[s] = uaActive[s]
    BY <1>1, <1>4 DEF TypeOK
  <2> HIDE DEF add, end
  <2>5. /\ Emitted(add) \in Nat /\ Emitted(end) \in Nat
        /\ Emitted(add)' = IF s = t /\ u \in adds THEN Emitted(add) + 1 ELSE Emitted(add)
        /\ Emitted(end)' = IF s = t /\ u \in ends THEN Emitted(end) + 1 ELSE Emitted(end)
    <3>1. {0} # {}
      OBVIOUS
    <3> QED BY <1>9, <2>1, <2>3, <3>1
  <2>6. CASE s # t
    BY <2>2, <2>4, <2>5, <2>6 DEF add, end
  <2>7. CASE s = t
    <3>1. /\ u \in adds <=> u \in uaActive'[s] /\ u \notin uaActive[s]
          /\ u \in ends <=> u \in uaActive[s] /\ u \notin uaActive'[s]
      BY <1>6, <2>7
    <3> QED BY <2>2, <2>5, <2>7, <3>1 DEF add, end
  <2> QED BY <2>6, <2>7
<1> QED BY <1>9, <1>10 DEF EventsAccountForSets

\* Only the event that is emitted leaves the hand, for the buffer.
LEMMA AccountOfEmit ==
    ASSUME AttributionInv, TypeOK', NEW g \in Threads, Emit(g)
    PROVE  EventsAccountForSets' /\ \A e \in Events : IsFiniteSet(InHand(e)')
<1>1. TypeOK
  BY DEF AttributionInv, BufferInv
<1>2. op[g].pc = "emit" /\ op[g] \in Ops
  BY <1>1 DEF Emit, TypeOK
<1>3. op[g].trace \in Traces /\ op[g].adds \in SUBSET Users /\ op[g].ends \in SUBSET Users
  BY <1>2, OpsAre
<1>4. PICK u \in IF op[g].adds # {} THEN op[g].adds ELSE op[g].ends :
         LET adds == op[g].adds \ {u}
             ends == IF op[g].adds = {} THEN op[g].ends \ {u} ELSE op[g].ends
         IN
         /\ Enqueue(Event(op[g].trace, u, IF op[g].adds # {} THEN "add" ELSE "end"))
         /\ op' = [op EXCEPT ![g] = IF adds \cup ends = {} THEN Idle
                                    ELSE EmitOp(op[g].trace, adds, ends)]
  BY DEF Emit
<1> DEFINE t == op[g].trace
           adds == op[g].adds \ {u}
           ends == IF op[g].adds = {} THEN op[g].ends \ {u} ELSE op[g].ends
           o == IF adds \cup ends = {} THEN Idle ELSE EmitOp(t, adds, ends)
           x == Event(t, u, IF op[g].adds # {} THEN "add" ELSE "end")
<1>5. /\ op' = [op EXCEPT ![g] = o] /\ op'[g] = o
      /\ uaBuffer' = Append(uaBuffer, x)
      /\ UNCHANGED <<uaActive, posted, dropped>>
  BY <1>1, <1>4 DEF TypeOK, Emit, Enqueue
<1>6. /\ x \in Events
      /\ x.trace = t /\ x.user = u
      /\ x.action = IF op[g].adds # {} THEN "add" ELSE "end"
  BY <1>3, <1>4 DEF Event, Events
<1>7. \A e \in Events : e = x <=> e.trace = t /\ e.user = u /\ e.action = x.action
  BY <1>6 DEF Events
<1>8. ASSUME NEW e \in Events
      PROVE  Hand(g, e)' = IF e = x THEN {} ELSE Hand(g, e)
  <2>1. Hand(g, e) = IF e.trace = t /\ e.user \in (IF e.action = "add" THEN op[g].adds ELSE op[g].ends)
                     THEN {0} ELSE {}
    BY <1>2 DEF Hand, HasToEmit
  <2>2. Hand(g, e)' = IF e.trace = t /\ e.user \in (IF e.action = "add" THEN adds ELSE ends)
                      THEN {0} ELSE {}
    <3>1. CASE adds \cup ends = {}
      <4>1. op'[g] = Idle
        BY <1>5, <3>1
      <4>2. Hand(g, e)' = {}
        BY <4>1, EmptyHands DEF Idle
      <4> QED BY <3>1, <4>2
    <3>2. CASE adds \cup ends # {}
      <4>1. op'[g] = EmitOp(t, adds, ends)
        BY <1>5, <3>2
      <4> HIDE DEF adds, ends, t
      <4>2. op'[g].pc = "emit" /\ op'[g].trace = t /\ op'[g].adds = adds /\ op'[g].ends = ends
        BY <4>1 DEF EmitOp
      <4> QED BY <4>2 DEF Hand, HasToEmit
    <3> QED BY <3>1, <3>2
  <2> DEFINE was == e.user \in (IF e.action = "add" THEN op[g].adds ELSE op[g].ends)
             is == e.user \in (IF e.action = "add" THEN adds ELSE ends)
  <2>3. e.trace = t => (is <=> was /\ e # x)
    <3>1. e.action \in {"add", "end"}
      BY DEF Events
    <3>2. CASE op[g].adds # {}
      <4>1. x.action = "add" /\ ends = op[g].ends /\ "add" # "end"
        BY <1>6, <3>2
      <4> QED BY <1>7, <3>1, <4>1
    <3>3. CASE op[g].adds = {}
      <4>1. x.action = "end" /\ adds = {} /\ ends = op[g].ends \ {u} /\ "add" # "end"
        BY <1>6, <3>3
      <4> QED BY <1>7, <3>1, <3>3, <4>1
    <3> QED BY <3>2, <3>3
  <2>4. e = x => e.trace = t
    BY <1>6
  <2> HIDE DEF x, adds, ends
  <2> QED BY <2>1, <2>2, <2>3, <2>4
<1>9. Hand(g, x) = {0}
  <2>1. HasToEmit(g, x)
    BY <1>2, <1>4, <1>6 DEF HasToEmit
  <2> QED BY <2>1 DEF Hand
<1> HIDE DEF o, x
<1>10. ASSUME NEW e \in Events
       PROVE  Emitted(e)' = Emitted(e) /\ IsFiniteSet(InHand(e)')
  <2>1. IsFiniteSet(InHand(e))
    BY DEF AttributionInv
  <2>2. /\ IsFiniteSet(InHand(e)')
        /\ \E n \in Nat : /\ Cardinality(InHand(e)) = n + Cardinality(Hand(g, e))
                          /\ Cardinality(InHand(e)') = n + Cardinality(Hand(g, e)')
    BY <1>1, <1>5, <2>1, InHandChanges
  <2>3. Cardinality({0}) = 1 /\ Cardinality({}) = 0
    BY FS_Singleton, FS_EmptySet
  <2>4. /\ Occurs(posted, e) \in Nat /\ Occurs(uaBuffer, e) \in Nat
        /\ Occurs(dropped, e) \in Nat /\ Cardinality(InHand(e)) \in Nat
    BY <1>1, <2>1, CountsAre
  <2>5. Occurs(uaBuffer', e) = IF x = e THEN Occurs(uaBuffer, e) + 1 ELSE Occurs(uaBuffer, e)
    BY <1>1, <1>5, <1>6, OccursAppend DEF TypeOK
  <2>6. Cardinality(InHand(e)')
           = IF x = e THEN Cardinality(InHand(e)) - 1 ELSE Cardinality(InHand(e))
    <3>1. CASE x = e
      <4>1. Hand(g, e) = {0} /\ Hand(g, e)' = {}
        BY <1>8, <1>9, <3>1
      <4> QED BY <2>2, <2>3, <3>1, <4>1
    <3>2. CASE x # e
      <4>1. Hand(g, e)' = Hand(g, e)
        BY <1>8, <3>2
      <4> QED BY <2>2, <3>2, <4>1
    <3> QED BY <3>1, <3>2
  <2>7. Emitted(e)' = Occurs(posted, e) + Occurs(uaBuffer', e) + Occurs(dropped, e)
                         + Cardinality(InHand(e)')
    BY <1>5 DEF Emitted
  <2>8. Emitted(e) = Occurs(posted, e) + Occurs(uaBuffer, e) + Occurs(dropped, e)
                         + Cardinality(InHand(e))
    BY DEF Emitted
  <2> QED BY <2>2, <2>4, <2>5, <2>6, <2>7, <2>8
<1> QED BY <1>5, <1>10, AccountKept

\* A drain takes the buffer in hand, or gives it up.
LEMMA AccountOfDrain ==
    ASSUME AttributionInv, TypeOK', NEW g \in Threads, Drain(g)
    PROVE  EventsAccountForSets' /\ \A e \in Events : IsFiniteSet(InHand(e)')
<1> DEFINE o == IF uaBuffer # <<>> /\ configured THEN PostOp(uaBuffer) ELSE Idle
<1>1. TypeOK
  BY DEF AttributionInv, BufferInv
<1>2. op[g].pc = "drain"
  BY DEF Drain
<1>3. /\ op' = [op EXCEPT ![g] = o] /\ op'[g] = o
      /\ uaBuffer' = <<>>
      /\ dropped' = IF configured THEN dropped ELSE dropped \o uaBuffer
      /\ UNCHANGED <<uaActive, posted>>
  BY <1>1 DEF Drain, TypeOK
<1>4. \A e : /\ Hand(g, e) = {}
             /\ Hand(g, e)' = IF configured THEN Places(uaBuffer, e) ELSE {}
  <2>1. \A e : Hand(g, e) = {}
    BY <1>2, EmptyHands
  <2>2. CASE uaBuffer # <<>> /\ configured
    <3>1. op'[g].pc = "post" /\ op'[g].events = uaBuffer
      BY <1>3, <2>2 DEF PostOp
    <3> QED BY <2>1, <2>2, <3>1 DEF Hand, HasToEmit
  <2>3. CASE ~(uaBuffer # <<>> /\ configured)
    <3>1. op'[g] = Idle
      BY <1>3, <2>3
    <3>2. \A e : Hand(g, e)' = {}
      BY <3>1, EmptyHands DEF Idle
    <3>3. uaBuffer = <<>> => \A e : Places(uaBuffer, e) = {}
      BY NoPlaces
    <3> QED BY <2>1, <2>3, <3>2, <3>3
  <2> QED BY <2>2, <2>3
<1> HIDE DEF o
<1>5. ASSUME NEW e \in Events
      PROVE  Emitted(e)' = Emitted(e) /\ IsFiniteSet(InHand(e)')
  <2>1. IsFiniteSet(InHand(e))
    BY DEF AttributionInv
  <2>2. /\ IsFiniteSet(InHand(e)')
        /\ \E n \in Nat : /\ Cardinality(InHand(e)) = n + Cardinality(Hand(g, e))
                          /\ Cardinality(InHand(e)') = n + Cardinality(Hand(g, e)')
    BY <1>1, <1>3, <2>1, InHandChanges
  <2>3. Cardinality({}) = 0
    BY FS_EmptySet
  <2>4. /\ Occurs(posted, e) \in Nat /\ Occurs(uaBuffer, e) \in Nat
        /\ Occurs(dropped, e) \in Nat /\ Cardinality(InHand(e)) \in Nat
    BY <1>1, <2>1, CountsAre
  <2>5. Occurs(uaBuffer', e) = 0
    BY <1>3, NoPlaces
  <2>6. Cardinality(InHand(e)')
           = Cardinality(InHand(e)) + (IF configured THEN Occurs(uaBuffer, e) ELSE 0)
    BY <1>4, <2>2, <2>3, <2>4 DEF Occurs
  <2>7. Occurs(dropped', e)
           = Occurs(dropped, e) + (IF configured THEN 0 ELSE Occurs(uaBuffer, e))
    <3>1. Occurs(dropped \o uaBuffer, e) = Occurs(dropped, e) + Occurs(uaBuffer, e)
      BY <1>1, OccursConcat DEF TypeOK
    <3> QED BY <1>3, <2>4, <3>1
  <2>8. Emitted(e)' = Occurs(posted, e) + Occurs(uaBuffer', e) + Occurs(dropped', e)
                         + Cardinality(InHand(e)')
    BY <1>3 DEF Emitted
  <2>9. Emitted(e) = Occurs(posted, e) + Occurs(uaBuffer, e) + Occurs(dropped, e)
                         + Cardinality(InHand(e))
    BY DEF Emitted
  <2> QED BY <2>2, <2>4, <2>5, <2>6, <2>7, <2>8, <2>9
<1> QED BY <1>3, <1>5, AccountKept

\* A batch leaves the hand when it is posted.
LEMMA AccountOfPost ==
    ASSUME AttributionInv, TypeOK', NEW g \in Threads, Post(g)
    PROVE  EventsAccountForSets' /\ \A e \in Events : IsFiniteSet(InHand(e)')
<1>1. TypeOK
  BY DEF AttributionInv, BufferInv
<1>2. op[g].pc = "post" /\ op[g].events \in Seq(Events)
  BY <1>1, OpsAre DEF Post, TypeOK
<1>3. /\ op' = [op EXCEPT ![g] = Idle] /\ op'[g] = Idle
      /\ posted' = posted \o op[g].events
      /\ UNCHANGED <<uaActive, uaBuffer, dropped>>
  BY <1>1 DEF Post, TypeOK
<1>4. \A e : Hand(g, e) = Places(op[g].events, e) /\ Hand(g, e)' = {}
  <2>1. \A e : Hand(g, e)' = {}
    BY <1>3, EmptyHands DEF Idle
  <2> QED BY <1>2, <2>1 DEF Hand, HasToEmit
<1>5. ASSUME NEW e \in Events
      PROVE  Emitted(e)' = Emitted(e) /\ IsFiniteSet(InHand(e)')
  <2>1. IsFiniteSet(InHand(e))
    BY DEF AttributionInv
  <2>2. /\ IsFiniteSet(InHand(e)')
        /\ \E n \in Nat : /\ Cardinality(InHand(e)) = n + Cardinality(Hand(g, e))
                          /\ Cardinality(InHand(e)') = n + Cardinality(Hand(g, e)')
    BY <1>1, <1>3, <2>1, InHandChanges
  <2>3. Cardinality({}) = 0
    BY FS_EmptySet
  <2>4. /\ Occurs(posted, e) \in Nat /\ Occurs(uaBuffer, e) \in Nat
        /\ Occurs(dropped, e) \in Nat /\ Cardinality(InHand(e)) \in Nat
        /\ Occurs(op[g].events, e) \in Nat
    BY <1>1, <1>2, <2>1, CountsAre, PlacesFinite
  <2>5. Cardinality(InHand(e)) = Cardinality(InHand(e)') + Occurs(op[g].events, e)
        /\ Cardinality(InHand(e)') \in Nat
    <3>1. Cardinality(Hand(g, e)) = Occurs(op[g].events, e)
      BY <1>4 DEF Occurs
    <3>2. Cardinality(Hand(g, e)') = 0
      BY <1>4, <2>3
    <3> QED BY <2>2, <2>4, <3>1, <3>2
  <2>6. Occurs(posted', e) = Occurs(posted, e) + Occurs(op[g].events, e)
    BY <1>1, <1>2, <1>3, OccursConcat DEF TypeOK
  <2>7. Emitted(e)' = Occurs(posted', e) + Occurs(uaBuffer, e) + Occurs(dropped, e)
                         + Cardinality(InHand(e)')
    BY <1>3 DEF Emitted
  <2>8. Emitted(e) = Occurs(posted, e) + Occurs(uaBuffer, e) + Occurs(dropped, e)
                         + Cardinality(InHand(e))
    BY DEF Emitted
  <2> QED BY <2>2, <2>4, <2>5, <2>6, <2>7, <2>8
<1> QED BY <1>3, <1>5, AccountKept

\* Every step keeps the account.
LEMMA AccountStep ==
    ASSUME AttributionInv, TypeOK', [Next]_vars
    PROVE  EventsAccountForSets' /\ \A e \in Events : IsFiniteSet(InHand(e)')
<1>1. TypeOK
  BY DEF AttributionInv, BufferInv
<1>2. CASE UNCHANGED <<op, uaActive, uaBuffer, posted, dropped>>
  <2>1. \A e : InHand(e)' = InHand(e)
    BY <1>2 DEF InHand, Hand, HasToEmit
  <2>2. \A e \in Events : Emitted(e)' = Emitted(e) /\ IsFiniteSet(InHand(e)')
    BY <1>2, <2>1 DEF Emitted, AttributionInv
  <2> QED BY <1>2, <2>2, AccountKept
<1>3. ASSUME NEW g \in Goroutines, NEW o, Call(g, o), o.pc \in {"set", "drain"}
      PROVE  EventsAccountForSets' /\ \A e \in Events : IsFiniteSet(InHand(e)')
  <2>1. /\ op' = [op EXCEPT ![g] = o] /\ op[g].pc = "idle" /\ g \in Threads
        /\ UNCHANGED <<uaActive, uaBuffer, posted, dropped>>
    BY <1>3 DEF Call, Idle, Threads
  <2> QED BY <1>3, <2>1, AccountOfIdle
<1>4. ASSUME NEW g \in Goroutines,
             \/ \E t \in Traces : \E keep, join : Call(g, SetOp(t, keep, join))
             \/ FlushUserAttribution(g)
      PROVE  EventsAccountForSets' /\ \A e \in Events : IsFiniteSet(InHand(e)')
  <2>1. \A t, keep, join : SetOp(t, keep, join).pc = "set"
    BY DEF SetOp
  <2>2. DrainOp.pc = "drain"
    BY DEF DrainOp
  <2> QED BY <1>3, <1>4, <2>1, <2>2 DEF FlushUserAttribution
<1>5. ASSUME NEW g \in Goroutines, NEW t \in Traces,
             \/ \E u \in Users : AddActiveUser(g, t, u) \/ RemoveActiveUser(g, t, u)
             \/ \E us \in SUBSET Users : SetActiveUsers(g, t, us)
             \/ ClearActiveUsers(g, t)
      PROVE  EventsAccountForSets' /\ \A e \in Events : IsFiniteSet(InHand(e)')
  <2>1. \E keep, join : Call(g, SetOp(t, keep, join))
    BY <1>5 DEF AddActiveUser, RemoveActiveUser, SetActiveUsers, ClearActiveUsers
  <2> QED BY <1>4, <2>1
<1>6. ASSUME NEW f \in Timers, TimerExpires(f)
      PROVE  EventsAccountForSets' /\ \A e \in Events : IsFiniteSet(InHand(e)')
  <2>1. /\ op' = [op EXCEPT ![f] = DrainOp] /\ op[f].pc = "idle" /\ f \in Threads
        /\ UNCHANGED <<uaActive, uaBuffer, posted, dropped>>
    BY <1>6 DEF TimerExpires, Idle, Threads
  <2>2. DrainOp.pc = "drain"
    BY DEF DrainOp
  <2> QED BY <2>1, <2>2, AccountOfIdle
<1>7. ASSUME NEW g \in Threads, Continue(g)
      PROVE  EventsAccountForSets' /\ \A e \in Events : IsFiniteSet(InHand(e)')
  BY <1>7, AccountOfChange, AccountOfEmit, AccountOfDrain, AccountOfPost DEF Continue
<1> QED BY <1>2, <1>4, <1>5, <1>6, <1>7 DEF Next, Configure, vars

\* No event of a configured SDK is left in the buffer without a timer that will
\* drain it, and the events account for the active sets, however calls, timers
\* and flushes overlap.
THEOREM AttributionIsSound == Spec => []AttributionInv
<1>1. Init => AttributionInv
  BY Initially, AccountInit DEF AttributionInv
<1>2. AttributionInv /\ [Next]_vars => AttributionInv'
  <2> SUFFICES ASSUME AttributionInv, [Next]_vars PROVE AttributionInv'
    OBVIOUS
  <2>1. BufferInv' /\ TypeOK'
    BY Steps DEF AttributionInv, BufferInv
  <2> QED BY <2>1, AccountStep DEF AttributionInv
<1> QED BY <1>1, <1>2, PTL DEF Spec

\* The events that were emitted, wherever they are by now, are those that the
\* active sets require: one add more than ends for each active user.
THEOREM EventsAccount == Spec => []EventsAccountForSets
<1>1. AttributionInv => EventsAccountForSets
  BY DEF AttributionInv
<1> QED BY AttributionIsSound, <1>1, PTL

\* At rest the posted events tell who is active.
THEOREM PostedEventsTell == Spec => []PostedEventsTellSets
<1>1. AttributionInv => PostedEventsTellSets
  <2> SUFFICES ASSUME TypeOK, EventsAccountForSets, AtRest,
                      NEW t \in Traces, NEW u \in Users
               PROVE  Occurs(posted, Event(t, u, "add")) =
                         Occurs(posted, Event(t, u, "end"))
                            + (IF u \in uaActive[t] THEN 1 ELSE 0)
    BY DEF AttributionInv, BufferInv, PostedEventsTellSets
  <2>1. ASSUME NEW e PROVE Emitted(e) = Occurs(posted, e)
    <3>1. \A g \in Threads : Hand(g, e) = {}
      BY DEF Hand, HasToEmit, AtRest
    <3>2. InHand(e) = {}
      BY <3>1 DEF InHand
    <3>3. Cardinality(InHand(e)) = 0
      BY <3>2, FS_EmptySet
    <3>4. Occurs(uaBuffer, e) = 0 /\ Occurs(dropped, e) = 0
      <4>1. Places(<<>>, e) = {}
        BY EmptySeq DEF Places
      <4>2. Occurs(<<>>, e) = 0
        BY <4>1, FS_EmptySet DEF Occurs
      <4> QED BY <4>2 DEF AtRest
    <3>5. Occurs(posted, e) \in Nat
      BY PlacesFinite DEF TypeOK
    <3> QED BY <3>3, <3>4, <3>5 DEF Emitted
  <2>2. Emitted(Event(t, u, "add")) = Occurs(posted, Event(t, u, "add"))
    BY <2>1
  <2>3. Emitted(Event(t, u, "end")) = Occurs(posted, Event(t, u, "end"))
    BY <2>1
  <2> QED BY <2>2, <2>3 DEF EventsAccountForSets
<1> QED BY AttributionIsSound, <1>1, PTL

=============================================================================
