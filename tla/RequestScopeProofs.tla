--------------------------- MODULE RequestScopeProofs ---------------------------
(***************************************************************************)
(* The scope of requests, proved for any number of goroutines, requests    *)
(* and messages, any depth of calls and any size of the ring.              *)
(***************************************************************************)
EXTENDS RequestScope, FiniteSetTheorems, SequenceTheorems, TLAPS

USE DedupSizeAssumption, BoundsAssumption, NoneAssumption

Inductive == ScopeInv /\ NeverMisattributed /\ DedupWindow

-----------------------------------------------------------------------------
(* The ring.                                                               *)

Passed == [message : Messages, at : Nat]
Slots == [message : Messages \cup {None}, at : Nat]

RingTypes ==
    /\ exceptionDedup \in [0..(DedupSize - 1) -> Slots]
    /\ exceptionDedupIndex \in 0..(DedupSize - 1)
    /\ passes \in Seq(Passed)

RingInv == RingTypes /\ RingHoldsLatest /\ PassesAreSpaced

\* Every slot of the ring is the slot of one age, and every age has a slot.
LEMMA SlotsAndAges ==
    ASSUME RingTypes
    PROVE  /\ \A age \in 0..(DedupSize - 1) : Slot(age) \in 0..(DedupSize - 1)
           /\ \A i \in 0..(DedupSize - 1) :
                 \E age \in 0..(DedupSize - 1) : Slot(age) = i
<1>1. DedupSize \in Nat \ {0} /\ exceptionDedupIndex \in 0..(DedupSize - 1)
  BY DEF RingTypes
<1>2. \A age \in 0..(DedupSize - 1) : Slot(age) \in 0..(DedupSize - 1)
  BY <1>1 DEF Slot
<1>3. ASSUME NEW i \in 0..(DedupSize - 1)
      PROVE  \E age \in 0..(DedupSize - 1) : Slot(age) = i
  <2>1. CASE i < exceptionDedupIndex
    <3>1. exceptionDedupIndex - 1 - i \in 0..(DedupSize - 1)
      BY <1>1, <2>1
    <3>2. Slot(exceptionDedupIndex - 1 - i) = i
      BY <1>1, <2>1 DEF Slot
    <3> QED BY <3>1, <3>2
  <2>2. CASE ~(i < exceptionDedupIndex)
    <3>1. exceptionDedupIndex - 1 - i + DedupSize \in 0..(DedupSize - 1)
      BY <1>1, <2>2
    <3>2. Slot(exceptionDedupIndex - 1 - i + DedupSize) = i
      BY <1>1, <2>2 DEF Slot
    <3> QED BY <3>1, <3>2
  <2> QED BY <2>1, <2>2
<1> QED BY <1>2, <1>3

\* Recording moves the index on, and every age with it.
LEMMA SlotsMove ==
    ASSUME RingTypes, NEW m, Record(m)
    PROVE  /\ exceptionDedupIndex' \in 0..(DedupSize - 1)
           /\ Slot(0)' = exceptionDedupIndex
           /\ \A age \in 0..(DedupSize - 1) :
                 age > 0 => /\ Slot(age)' = Slot(age - 1)
                            /\ Slot(age - 1) # exceptionDedupIndex
<1> DEFINE x == exceptionDedupIndex
           y == exceptionDedupIndex'
<1>1. DedupSize \in Nat \ {0} /\ x \in 0..(DedupSize - 1) /\ y = (x + 1) % DedupSize
  BY DEF RingTypes, Record
<1>2. y = IF x + 1 = DedupSize THEN 0 ELSE x + 1
  <2>1. CASE x + 1 = DedupSize
    <3>1. DedupSize % DedupSize = 0
      OBVIOUS
    <3> QED BY <1>1, <2>1, <3>1
  <2>2. CASE x + 1 # DedupSize
    BY <1>1, <2>2
  <2> QED BY <2>1, <2>2
<1> HIDE DEF x, y
<1>3. y \in 0..(DedupSize - 1)
  BY <1>1, <1>2
<1>4. (IF y - 1 >= 0 THEN y - 1 ELSE y - 1 + DedupSize) = x
  BY <1>1, <1>2
<1>5. \A age \in 0..(DedupSize - 1) : age > 0 =>
         /\ (IF y - 1 - age >= 0 THEN y - 1 - age ELSE y - 1 - age + DedupSize)
              = (IF x - 1 - (age - 1) >= 0 THEN x - 1 - (age - 1)
                 ELSE x - 1 - (age - 1) + DedupSize)
         /\ (IF x - 1 - (age - 1) >= 0 THEN x - 1 - (age - 1)
             ELSE x - 1 - (age - 1) + DedupSize) # x
  BY <1>1, <1>2
<1>6. Slot(0)' = exceptionDedupIndex
  BY <1>1, <1>3, <1>4 DEF Slot, x, y
<1>7. \A age \in 0..(DedupSize - 1) :
         age > 0 => /\ Slot(age)' = Slot(age - 1)
                    /\ Slot(age - 1) # exceptionDedupIndex
  BY <1>5 DEF Slot, x, y
<1> QED BY <1>3, <1>6, <1>7 DEF y

\* A message that is not recent passes.
LEMMA RecordStep ==
    ASSUME RingInv, now \in Nat, NEW m \in Messages, ~Recent(m), Record(m)
    PROVE  RingInv'
<1> DEFINE n == Len(passes)
           e == [message |-> m, at |-> now]
<1>1. RingTypes /\ RingHoldsLatest /\ PassesAreSpaced
  BY DEF RingInv
<1>2. e \in Passed /\ e \in Slots
  BY DEF Passed, Slots
<1>3. /\ exceptionDedup' = [exceptionDedup EXCEPT ![exceptionDedupIndex] = e]
      /\ passes' = Append(passes, e)
  BY DEF Record
<1>4. /\ passes' \in Seq(Passed) /\ Len(passes') = n + 1 /\ passes'[n + 1] = e
      /\ \A k \in 1..n : passes'[k] = passes[k]
  BY <1>1, <1>2, <1>3, AppendProperties DEF RingTypes
<1>5. n \in Nat /\ DOMAIN passes = 1..n /\ DOMAIN passes' = 1..(n + 1)
  BY <1>1, <1>4, LenProperties DEF RingTypes
<1>6. RingTypes'
  <2>1. exceptionDedup' \in [0..(DedupSize - 1) -> Slots]
    BY <1>1, <1>2, <1>3 DEF RingTypes
  <2> QED BY <1>1, <1>4, <2>1, SlotsMove DEF RingTypes
<1> HIDE DEF e
<1>7. RingHoldsLatest'
  <2> SUFFICES ASSUME NEW age \in 0..(DedupSize - 1)
               PROVE  IF age < n + 1
                      THEN exceptionDedup'[Slot(age)'] = passes'[n + 1 - age]
                      ELSE exceptionDedup'[Slot(age)'].message = None
    BY <1>4 DEF RingHoldsLatest
  <2>1. exceptionDedupIndex \in 0..(DedupSize - 1)
        /\ exceptionDedup \in [0..(DedupSize - 1) -> Slots]
    BY <1>1 DEF RingTypes
  <2>2. CASE age = 0
    <3>1. Slot(age)' = exceptionDedupIndex
      BY <1>1, <2>2, SlotsMove
    <3>2. exceptionDedup'[Slot(age)'] = e
      BY <1>3, <2>1, <3>1
    <3>3. n + 1 - age = n + 1 /\ age < n + 1
      BY <1>5, <2>2
    <3> QED BY <1>4, <3>2, <3>3
  <2>3. CASE age # 0
    <3>1. age > 0 /\ age - 1 \in 0..(DedupSize - 1)
      BY <2>3
    <3>2. Slot(age)' = Slot(age - 1) /\ Slot(age - 1) # exceptionDedupIndex
      BY <1>1, <3>1, SlotsMove
    <3>3. Slot(age - 1) \in 0..(DedupSize - 1)
      BY <1>1, <3>1, SlotsAndAges
    <3>4. exceptionDedup'[Slot(age)'] = exceptionDedup[Slot(age - 1)]
      BY <1>3, <2>1, <3>2, <3>3
    <3>5. IF age - 1 < n
          THEN exceptionDedup[Slot(age - 1)] = passes[n - (age - 1)]
          ELSE exceptionDedup[Slot(age - 1)].message = None
      BY <1>1, <3>1 DEF RingHoldsLatest
    <3>6. CASE age < n + 1
      <4>1. age - 1 < n /\ n + 1 - age = n - (age - 1) /\ n - (age - 1) \in 1..n
        BY <1>5, <3>1, <3>6
      <4>2. exceptionDedup[Slot(age - 1)] = passes[n - (age - 1)]
        BY <3>5, <4>1
      <4> QED BY <1>4, <3>4, <3>6, <4>1, <4>2
    <3>7. CASE ~(age < n + 1)
      <4>1. ~(age - 1 < n)
        BY <1>5, <3>1, <3>7
      <4> QED BY <3>4, <3>5, <3>7, <4>1
    <3> QED BY <3>6, <3>7
  <2> QED BY <2>2, <2>3
<1>8. PassesAreSpaced'
  <2> SUFFICES ASSUME NEW i \in 1..(n + 1), NEW j \in 1..(n + 1), i < j,
                      passes'[i].message = passes'[j].message,
                      passes'[j].at - passes'[i].at < TTL
               PROVE  j - i > DedupSize
    BY <1>5 DEF PassesAreSpaced
  <2>1. i \in 1..n /\ passes'[i] = passes[i]
    BY <1>4, <1>5
  <2>2. CASE j # n + 1
    <3>1. j \in 1..n /\ passes'[j] = passes[j]
      BY <1>4, <1>5, <2>2
    <3> QED BY <1>1, <1>5, <2>1, <3>1 DEF PassesAreSpaced
  <2>3. CASE j = n + 1
    <3>1. passes[i].message = m /\ now - passes[i].at < TTL
      BY <1>4, <2>1, <2>3 DEF e
    <3>2. CASE n - i \in 0..(DedupSize - 1)
      <4>1. n - i < n /\ n - (n - i) = i
        BY <1>5, <2>1
      <4>2. exceptionDedup[Slot(n - i)] = passes[i]
        BY <1>1, <3>2, <4>1 DEF RingHoldsLatest
      <4>3. Slot(n - i) \in 0..(DedupSize - 1)
        BY <1>1, <3>2, SlotsAndAges
      <4>4. Recent(m)
        BY <1>1, <3>1, <4>2, <4>3 DEF Recent, RingTypes
      <4> QED BY <4>4
    <3>3. CASE n - i \notin 0..(DedupSize - 1)
      BY <1>5, <2>1, <2>3, <3>3
    <3> QED BY <3>2, <3>3
  <2> QED BY <2>2, <2>3
<1> QED BY <1>6, <1>7, <1>8 DEF RingInv

\* What is recent has passed.
LEMMA RecentHasPassed ==
    ASSUME RingInv, NEW m \in Messages, Recent(m)
    PROVE  \E i \in DOMAIN passes : passes[i].message = m /\ now - passes[i].at < TTL
<1>1. RingTypes /\ RingHoldsLatest
  BY DEF RingInv
<1>2. PICK i \in 0..(DedupSize - 1) :
         exceptionDedup[i].message = m /\ now - exceptionDedup[i].at < TTL
  BY <1>1 DEF Recent, RingTypes
<1>3. PICK age \in 0..(DedupSize - 1) : Slot(age) = i
  BY <1>1, SlotsAndAges
<1>4. age < Len(passes) /\ exceptionDedup[i] = passes[Len(passes) - age]
  BY <1>1, <1>2, <1>3 DEF RingHoldsLatest
<1>5. Len(passes) - age \in DOMAIN passes
  <2>1. Len(passes) \in Nat /\ DOMAIN passes = 1..Len(passes)
    BY <1>1, LenProperties DEF RingTypes
  <2> QED BY <1>4, <2>1
<1> QED BY <1>2, <1>4, <1>5

LEMMA RingUnchanged ==
    ASSUME RingInv, UNCHANGED ring
    PROVE  RingInv'
BY DEF RingInv, RingTypes, RingHoldsLatest, PassesAreSpaced, Slot, ring

-----------------------------------------------------------------------------
(* The frames of one goroutine.                                            *)

Requests(s) == {k \in DOMAIN s : s[k].kind = "middleware"}
AtHand(s) == IF s = <<>> THEN None ELSE s[Len(s)].trace

\* ContextOfInnermost and InnermostOrLost of one goroutine.
Innermost(s, k) ==
    \/ /\ s[k].trace = None
       /\ \A j \in 1..k : s[j].kind # "middleware"
    \/ \E j \in 1..k :
          /\ s[j].kind = "middleware"
          /\ s[j].trace = s[k].trace
          /\ \A i \in (j + 1)..k : s[i].kind # "middleware"
Nested(s) == \A k \in DOMAIN s : Innermost(s, k)
Known(s, t, lost) ==
    IF Requests(s) = {} THEN t = None
    ELSE t = s[Max(Requests(s))].trace \/ (t = None /\ lost)

LEMMA MaxIs ==
    ASSUME NEW S \in SUBSET Int, NEW j \in S, \A i \in S : j >= i
    PROVE  Max(S) = j
<1> DEFINE m == CHOOSE x \in S : \A y \in S : x >= y
<1>1. m \in S /\ \A y \in S : m >= y
  OBVIOUS
<1>2. Max(S) = m
  BY Zenon DEF Max
<1> HIDE DEF m
<1>3. m = j
  BY <1>1
<1> QED BY <1>2, <1>3

\* What is at hand is what the innermost request has put there.
LEMMA AtHandIsInnermost ==
    ASSUME NEW s \in Seq(Frames), Nested(s)
    PROVE  /\ Requests(s) = {} => AtHand(s) = None
           /\ Requests(s) # {} => s[Max(Requests(s))].trace = AtHand(s)
<1>1. Len(s) \in Nat /\ DOMAIN s = 1..Len(s)
  BY LenProperties
<1>2. CASE s = <<>>
  <2>1. Len(s) = 0
    BY <1>2, EmptySeq
  <2> QED BY <1>1, <1>2, <2>1 DEF Requests, AtHand
<1>3. CASE s # <<>>
  <2>1. Len(s) \in 1..Len(s) /\ Innermost(s, Len(s)) /\ AtHand(s) = s[Len(s)].trace
    BY <1>1, <1>3, EmptySeq DEF Nested, AtHand
  <2>2. CASE \A j \in 1..Len(s) : s[j].kind # "middleware"
    <3>1. Requests(s) = {}
      BY <1>1, <2>2 DEF Requests
    <3>2. s[Len(s)].trace = None
      BY <2>1, <2>2 DEF Innermost
    <3> QED BY <2>1, <3>1, <3>2
  <2>3. CASE ~(\A j \in 1..Len(s) : s[j].kind # "middleware")
    <3>1. PICK j \in 1..Len(s) :
             /\ s[j].kind = "middleware"
             /\ s[j].trace = s[Len(s)].trace
             /\ \A i \in (j + 1)..Len(s) : s[i].kind # "middleware"
      BY <2>1, <2>3 DEF Innermost
    <3>2. j \in Requests(s) /\ Requests(s) \in SUBSET Int
      BY <1>1, <3>1 DEF Requests
    <3>3. \A i \in Requests(s) : j >= i
      BY <1>1, <3>1 DEF Requests
    <3>4. Max(Requests(s)) = j
      BY <3>2, <3>3, MaxIs
    <3> QED BY <2>1, <3>1, <3>2, <3>4
  <2> QED BY <2>2, <2>3
<1> QED BY <1>2, <1>3

\* A frame is put on top: that of a request, or one that is handed its context.
LEMMA PushScope ==
    ASSUME NEW s \in Seq(Frames), Nested(s), NEW f \in Frames, NEW t, NEW lost \in BOOLEAN,
           \/ f.kind = "middleware" /\ t = f.trace
           \/ f.kind # "middleware" /\ f.trace = AtHand(s) /\ Known(s, t, lost)
    PROVE  LET p == Append(s, f) IN
           p \in Seq(Frames) /\ Len(p) = Len(s) + 1 /\ Nested(p) /\ Known(p, t, lost)
<1> DEFINE p == Append(s, f)
           n == Len(s)
<1>1. /\ p \in Seq(Frames) /\ Len(p) = n + 1 /\ p[n + 1] = f /\ p # <<>>
      /\ \A k \in 1..n : p[k] = s[k]
  BY AppendProperties
<1>2. n \in Nat /\ DOMAIN s = 1..n /\ DOMAIN p = 1..(n + 1)
  BY <1>1, LenProperties
<1> HIDE DEF p
<1>3. ASSUME NEW k \in 1..n PROVE Innermost(p, k)
  <2>1. Innermost(s, k) /\ \A j \in 1..k : p[j] = s[j] /\ k \in 1..k
    BY <1>1, <1>2 DEF Nested
  <2>2. \A j \in 1..k : \A i \in (j + 1)..k : i \in 1..k
    BY <1>2
  <2> QED BY <2>1, <2>2 DEF Innermost
<1>4. Innermost(p, n + 1)
  <2>1. CASE f.kind = "middleware"
    <3>1. n + 1 \in 1..(n + 1) /\ \A i \in (n + 1 + 1)..(n + 1) : FALSE
      BY <1>2
    <3> QED BY <1>1, <2>1, <3>1 DEF Innermost
  <2>2. CASE f.kind # "middleware" /\ s = <<>>
    <3>1. n = 0
      BY <2>2, EmptySeq
    <3>2. \A k \in 1..(n + 1) : k = n + 1
      BY <3>1
    <3> QED BY <1>1, <2>2, <3>2 DEF Innermost, AtHand
  <2>3. CASE f.kind # "middleware" /\ s # <<>>
    <3>1. n \in 1..n /\ f.trace = s[n].trace /\ p[n] = s[n]
      BY <1>1, <1>2, <2>3, EmptySeq DEF AtHand
    <3>2. Innermost(p, n)
      BY <1>3, <3>1
    <3>3. CASE p[n].trace = None /\ \A j \in 1..n : p[j].kind # "middleware"
      BY <1>1, <1>2, <2>3, <3>1, <3>3 DEF Innermost
    <3>4. CASE \E j \in 1..n : /\ p[j].kind = "middleware"
                               /\ p[j].trace = p[n].trace
                               /\ \A i \in (j + 1)..n : p[i].kind # "middleware"
      <4>1. PICK j \in 1..n : /\ p[j].kind = "middleware"
                              /\ p[j].trace = p[n].trace
                              /\ \A i \in (j + 1)..n : p[i].kind # "middleware"
        BY <3>4
      <4>2. j \in 1..(n + 1) /\ p[j].trace = p[n + 1].trace
        BY <1>1, <1>2, <3>1, <4>1
      <4>3. \A i \in (j + 1)..(n + 1) : p[i].kind # "middleware"
        BY <1>1, <1>2, <2>3, <4>1
      <4> QED BY <4>1, <4>2, <4>3 DEF Innermost
    <3> QED BY <3>2, <3>3, <3>4 DEF Innermost
  <2> QED BY <2>1, <2>2, <2>3
<1>5. Nested(p)
  BY <1>2, <1>3, <1>4 DEF Nested
<1>6. AtHand(p) = f.trace
  BY <1>1 DEF AtHand
<1>7. Known(p, t, lost)
  <2>1. CASE f.kind = "middleware" /\ t = f.trace
    <3>1. n + 1 \in Requests(p)
      BY <1>1, <1>2, <2>1 DEF Requests
    <3> QED BY <1>1, <1>5, <1>6, <2>1, <3>1, AtHandIsInnermost DEF Known
  <2>2. CASE f.kind # "middleware" /\ f.trace = AtHand(s) /\ Known(s, t, lost)
    <3>1. Requests(p) = Requests(s)
      BY <1>1, <1>2, <2>2 DEF Requests
    <3>2. CASE Requests(s) = {}
      BY <2>2, <3>1, <3>2 DEF Known
    <3>3. CASE Requests(s) # {}
      <4>1. p[Max(Requests(p))].trace = s[Max(Requests(s))].trace
        BY <1>1, <1>5, <1>6, <2>2, <3>1, <3>3, AtHandIsInnermost
      <4> QED BY <2>2, <3>1, <3>3, <4>1 DEF Known
    <3> QED BY <3>2, <3>3
  <2> QED BY <2>1, <2>2
<1> QED BY <1>1, <1>5, <1>7 DEF p

\* The innermost frame returns; that of a request clears the registration.
LEMMA PopScope ==
    ASSUME NEW s \in Seq(Frames), s # <<>>, Nested(s), NEW t, NEW lost \in BOOLEAN,
           NEW u, NEW still \in BOOLEAN,
           Known(s, t, lost),
           IF s[Len(s)].kind = "middleware"
           THEN u = None /\ (Cardinality(Requests(s)) > 1 => still)
           ELSE u = t /\ (lost => still)
    PROVE  /\ Front(s) \in Seq(Frames) /\ Len(Front(s)) = Len(s) - 1
           /\ Nested(Front(s)) /\ Known(Front(s), u, still)
<1> DEFINE p == Front(s)
           n == Len(s)
<1>1. n \in Nat \ {0} /\ DOMAIN s = 1..n
  BY EmptySeq, LenProperties
<1>2. /\ p \in Seq(Frames) /\ Len(p) = n - 1
      /\ \A k \in 1..(n - 1) : p[k] = s[k]
  BY <1>1, SubSeqProperties DEF Front
<1>3. DOMAIN p = 1..(n - 1)
  BY <1>2, LenProperties
<1> HIDE DEF p
<1>4. Nested(p)
  <2> SUFFICES ASSUME NEW k \in 1..(n - 1) PROVE Innermost(p, k)
    BY <1>3 DEF Nested
  <2>1. Innermost(s, k) /\ \A j \in 1..k : p[j] = s[j] /\ k \in 1..k
    BY <1>1, <1>2 DEF Nested
  <2>2. \A j \in 1..k : \A i \in (j + 1)..k : i \in 1..k
    BY <1>1
  <2> QED BY <2>1, <2>2 DEF Innermost
<1>5. Requests(p) = Requests(s) \ {n}
  BY <1>1, <1>2, <1>3 DEF Requests
<1>6. ASSUME s[n].kind = "middleware" PROVE Known(p, u, still)
  <2>1. CASE Requests(p) = {}
    BY <1>6, <2>1 DEF Known
  <2>2. CASE Requests(p) # {}
    <3>1. IsFiniteSet(Requests(s))
      <4>1. Requests(s) \in SUBSET (1..n) /\ IsFiniteSet(1..n)
        BY <1>1, FS_Interval DEF Requests
      <4> QED BY <4>1, FS_Subset
    <3>2. n \in Requests(s)
      BY <1>1, <1>6 DEF Requests
    <3>3. /\ IsFiniteSet(Requests(p)) /\ Cardinality(Requests(s)) \in Nat
          /\ Cardinality(Requests(p)) = Cardinality(Requests(s)) - 1
      <4> DEFINE S == Requests(s)
      <4>1. IsFiniteSet(S) /\ n \in S
        BY <3>1, <3>2
      <4> HIDE DEF S
      <4>2. /\ IsFiniteSet(S \ {n}) /\ Cardinality(S) \in Nat
            /\ Cardinality(S \ {n}) = Cardinality(S) - 1
        BY <4>1, FS_RemoveElement, FS_CardinalityType
      <4> QED BY <1>5, <4>2 DEF S
    <3>4. Cardinality(Requests(p)) # 0 /\ Cardinality(Requests(p)) \in Nat
      BY <2>2, <3>3, FS_EmptySet, FS_CardinalityType
    <3>5. Cardinality(Requests(s)) > 1
      BY <3>3, <3>4
    <3> QED BY <1>6, <2>2, <3>5 DEF Known
  <2> QED BY <2>1, <2>2
<1>7. ASSUME s[n].kind # "middleware" PROVE Known(p, u, still)
  <2>1. Requests(p) = Requests(s)
    BY <1>1, <1>5, <1>7 DEF Requests
  <2>2. CASE Requests(s) = {}
    BY <1>7, <2>1, <2>2 DEF Known
  <2>3. CASE Requests(s) # {}
    <3>1. p[Max(Requests(s))] = s[Max(Requests(s))]
      <4>1. Innermost(s, n) /\ n \in 1..n
        BY <1>1 DEF Nested
      <4>2. PICK j \in 1..n : /\ s[j].kind = "middleware"
                              /\ \A i \in (j + 1)..n : s[i].kind # "middleware"
        BY <1>1, <2>3, <4>1 DEF Innermost, Requests
      <4>3. j \in Requests(s) /\ Requests(s) \in SUBSET Int
            /\ \A i \in Requests(s) : j >= i
        BY <1>1, <4>2 DEF Requests
      <4>4. Max(Requests(s)) = j
        BY <4>3, MaxIs
      <4>5. j # n
        BY <1>7, <4>2
      <4>6. n \in Nat /\ j \in 1..n
        BY <1>1
      <4> HIDE DEF n
      <4>7. j \in 1..(n - 1)
        BY <4>5, <4>6
      <4>8. p[j] = s[j]
        BY <1>2, <4>7
      <4> QED BY <4>4, <4>8
    <3> QED BY <1>7, <2>1, <2>3, <3>1 DEF Known
  <2> QED BY <2>2, <2>3
<1> QED BY <1>2, <1>4, <1>6, <1>7 DEF p

-----------------------------------------------------------------------------
(* A step of one goroutine.                                                *)

ScopeTypes ==
    /\ frames \in [Goroutines -> Seq(Frames)]
    /\ \A g \in Goroutines : Len(frames[g]) <= MaxFrames
    /\ panicking \in [Goroutines -> Messages \cup {None}]
    /\ goroutineTraces \in [Goroutines -> Traces \cup {None}]
    /\ inner \in [Goroutines -> BOOLEAN]
    /\ now \in 0..MaxTime

EmitTypes == last.kind \in Sent \cup {"nothing", "suppressed"}

\* The invariant falls into the scopes, the ring and what was emitted last.
ScopesInv ==
    ScopeTypes /\ ContextOfInnermost /\ InnermostOrLost /\ ScannerServesNothing
EmitInv == EmitTypes /\ NeverMisattributed /\ HeldBackForARecentOne

LEMMA Parts == Inductive <=> ScopesInv /\ RingInv /\ EmitInv
BY DEF Inductive, ScopeInv, TypeOK, DedupWindow, ScopesInv, ScopeTypes, RingInv, RingTypes,
       EmitInv, EmitTypes, Passed, Slots

LEMMA PartsNext == ScopesInv' /\ RingInv' /\ EmitInv' => Inductive'
BY DEF Inductive, ScopeInv, TypeOK, DedupWindow, ScopesInv, ScopeTypes, RingInv, RingTypes,
       EmitInv, EmitTypes, Passed, Slots

\* What the invariant says of one goroutine.
LEMMA OfOne ==
    ASSUME ScopesInv, NEW g \in Goroutines
    PROVE  /\ frames \in [Goroutines -> Seq(Frames)] /\ frames[g] \in Seq(Frames)
           /\ Len(frames[g]) \in Nat /\ Len(frames[g]) <= MaxFrames
           /\ goroutineTraces \in [Goroutines -> Traces \cup {None}]
           /\ goroutineTraces[g] \in Traces \cup {None}
           /\ inner \in [Goroutines -> BOOLEAN] /\ inner[g] \in BOOLEAN
           /\ panicking \in [Goroutines -> Messages \cup {None}]
           /\ panicking[g] \in Messages \cup {None}
           /\ now \in 0..MaxTime /\ now \in Nat
           /\ Nested(frames[g]) /\ Known(frames[g], goroutineTraces[g], inner[g])
           /\ CtxTrace(g) = AtHand(frames[g]) /\ CtxTrace(g) \in Traces \cup {None}
           /\ Registered(g) = Requests(frames[g])
           /\ frames[g] # <<>> => Top(g) = frames[g][Len(frames[g])] /\ Top(g) \in Frames
                                  /\ CtxTrace(g) = Top(g).trace
<1>1. ScopeTypes /\ ContextOfInnermost /\ InnermostOrLost
  BY DEF ScopesInv
<1>2. /\ frames \in [Goroutines -> Seq(Frames)] /\ frames[g] \in Seq(Frames)
      /\ Len(frames[g]) \in Nat /\ Len(frames[g]) <= MaxFrames
      /\ goroutineTraces \in [Goroutines -> Traces \cup {None}]
      /\ goroutineTraces[g] \in Traces \cup {None}
      /\ inner \in [Goroutines -> BOOLEAN] /\ inner[g] \in BOOLEAN
      /\ panicking \in [Goroutines -> Messages \cup {None}]
      /\ panicking[g] \in Messages \cup {None}
      /\ now \in 0..MaxTime /\ now \in Nat
  BY <1>1, LenProperties DEF ScopeTypes
<1>3. Nested(frames[g])
  BY <1>1 DEF ContextOfInnermost, Nested, Innermost
<1>4. Registered(g) = Requests(frames[g])
  BY DEF Registered, Requests
<1>5. Known(frames[g], goroutineTraces[g], inner[g])
  BY <1>1, <1>4 DEF InnermostOrLost, Known
<1>6. CtxTrace(g) = AtHand(frames[g])
  BY DEF CtxTrace, AtHand, Top
<1>7. frames[g] # <<>> => Top(g) = frames[g][Len(frames[g])] /\ Top(g) \in Frames
                          /\ CtxTrace(g) = Top(g).trace
  <2>1. frames[g] # <<>> => Len(frames[g]) \in 1..Len(frames[g])
    BY <1>2, EmptySeq
  <2> QED BY <1>2, <2>1, ElementOfSeq DEF Top, CtxTrace
<1>8. CtxTrace(g) \in Traces \cup {None}
  BY <1>7 DEF Frames, CtxTrace
<1> QED BY <1>2, <1>3, <1>4, <1>5, <1>6, <1>7, <1>8

\* A goroutine that leaves its own scopes in order keeps the invariant.
LEMMA StepOfOne ==
    ASSUME ScopesInv, NEW g \in Goroutines \ {Scanner}, now' = now,
           NEW s \in Seq(Frames), Len(s) <= MaxFrames, Nested(s),
           frames' = [frames EXCEPT ![g] = s],
           NEW t \in Traces \cup {None}, goroutineTraces' = [goroutineTraces EXCEPT ![g] = t],
           inner' \in [Goroutines -> BOOLEAN],
           \A h \in Goroutines \ {g} : inner'[h] = inner[h], Known(s, t, inner'[g]),
           NEW m \in Messages \cup {None}, panicking' = [panicking EXCEPT ![g] = m]
    PROVE  ScopesInv'
<1>1. /\ frames'[g] = s /\ goroutineTraces'[g] = t
      /\ \A h \in Goroutines : h # g =>
            /\ frames'[h] = frames[h] /\ goroutineTraces'[h] = goroutineTraces[h]
            /\ inner'[h] = inner[h]
  BY OfOne
<1>2. ScopeTypes'
  <2>1. /\ frames' \in [Goroutines -> Seq(Frames)]
        /\ goroutineTraces' \in [Goroutines -> Traces \cup {None}]
        /\ inner' \in [Goroutines -> BOOLEAN]
        /\ panicking' \in [Goroutines -> Messages \cup {None}]
    BY OfOne
  <2>2. \A h \in Goroutines : Len(frames'[h]) <= MaxFrames
    BY <1>1, OfOne
  <2> QED BY <2>1, <2>2 DEF ScopeTypes, ScopesInv
<1>3. ASSUME NEW h \in Goroutines
      PROVE  Nested(frames'[h]) /\ Known(frames'[h], goroutineTraces'[h], inner'[h])
  BY <1>1, OfOne
<1>4. ContextOfInnermost'
  BY <1>3 DEF ContextOfInnermost, Nested, Innermost
<1>5. InnermostOrLost'
  <2>1. \A h \in Goroutines : Registered(h)' = Requests(frames'[h])
    BY DEF Registered, Requests
  <2> QED BY <1>3, <2>1 DEF InnermostOrLost, Known
<1>6. ScannerServesNothing'
  BY <1>1 DEF ScannerServesNothing, ScopesInv
<1> QED BY <1>2, <1>4, <1>5, <1>6 DEF ScopesInv

\* Nothing of the scopes changes, but the panic of one goroutine may, or time.
LEMMA SameScopes ==
    ASSUME ScopesInv, UNCHANGED <<frames, goroutineTraces, inner>>, now' \in 0..MaxTime,
           panicking' \in [Goroutines -> Messages \cup {None}]
    PROVE  ScopesInv'
<1>1. ScopeTypes'
  BY DEF ScopesInv, ScopeTypes
<1>2. ContextOfInnermost'
  BY DEF ScopesInv, ContextOfInnermost
<1>3. \A g \in Goroutines : Registered(g)' = Registered(g)
  BY DEF Registered
<1>4. InnermostOrLost'
  BY <1>3 DEF ScopesInv, InnermostOrLost
<1>5. ScannerServesNothing'
  BY DEF ScopesInv, ScannerServesNothing
<1> QED BY <1>1, <1>2, <1>4, <1>5 DEF ScopesInv

\* Nothing emitted is nothing wrong.
LEMMA NothingEmitted ==
    ASSUME last' = Nothing
    PROVE  EmitInv'
<1>1. last'.kind = "nothing"
  BY DEF Nothing
<1> QED BY <1>1 DEF EmitInv, EmitTypes, NeverMisattributed, HeldBackForARecentOne, Sent

\* What is sent with the session that context or goroutine knows.
LEMMA LookedUp ==
    ASSUME ScopesInv, NEW g \in Goroutines \ {Scanner}, NEW c \in {CtxTrace(g), None},
           NEW kind \in {"log", "exception"}, last' = Emission(g, kind, SessionID(g, c))
    PROVE  EmitInv'
<1>1. /\ last'.kind = kind /\ last'.session = SessionID(g, c)
      /\ last'.request = CtxTrace(g) /\ last'.nested = inner[g]
  BY DEF Emission
<1>2. SessionID(g, c) = CtxTrace(g) \/ (SessionID(g, c) = None /\ inner[g])
  <2>1. CASE c # None
    BY <2>1 DEF SessionID
  <2>2. CASE c = None
    <3>1. SessionID(g, c) = goroutineTraces[g]
      BY <2>2 DEF SessionID
    <3>2. /\ Known(frames[g], goroutineTraces[g], inner[g]) /\ CtxTrace(g) = AtHand(frames[g])
          /\ Requests(frames[g]) = {} => AtHand(frames[g]) = None
          /\ Requests(frames[g]) # {} =>
                frames[g][Max(Requests(frames[g]))].trace = AtHand(frames[g])
      BY OfOne, AtHandIsInnermost
    <3> QED BY <3>1, <3>2 DEF Known
  <2> QED BY <2>1, <2>2
<1>3. NeverMisattributed'
  BY <1>1, <1>2 DEF NeverMisattributed
<1>4. EmitTypes' /\ HeldBackForARecentOne'
  BY <1>1 DEF EmitTypes, HeldBackForARecentOne, Sent
<1> QED BY <1>3, <1>4 DEF EmitInv

\* What is sent with the trace of the frame that sends it.
LEMMA SentFromFrame ==
    ASSUME ScopesInv, NEW g \in Goroutines \ {Scanner}, frames[g] # <<>>,
           NEW kind \in {"hop", "panic"}, last' = Emission(g, kind, Top(g).trace)
    PROVE  EmitInv'
<1>1. last'.kind = kind /\ last'.session = CtxTrace(g) /\ last'.request = CtxTrace(g)
  BY OfOne DEF Emission
<1> QED BY <1>1 DEF EmitInv, EmitTypes, NeverMisattributed, HeldBackForARecentOne, Sent

\* What the scanner sends: nothing is registered for it.
LEMMA CapturedPrint ==
    ASSUME ScopesInv, last' = [kind |-> "print", session |-> SessionID(Scanner, None)]
    PROVE  EmitInv'
<1>1. Requests(frames[Scanner]) = {}
  BY EmptySeq DEF ScopesInv, ScannerServesNothing, Requests
<1>2. SessionID(Scanner, None) = None
  BY <1>1, OfOne, ScannerAssumption DEF Known, SessionID
<1>3. last'.kind = "print" /\ last'.session = None
  BY <1>2
<1> QED BY <1>3 DEF EmitInv, EmitTypes, NeverMisattributed, HeldBackForARecentOne, Sent

\* An exception passes the ring or is held back.
LEMMA TransmitStep ==
    ASSUME Inductive, NEW g \in Goroutines \ {Scanner}, NEW c \in {CtxTrace(g), None},
           NEW m \in Messages, Transmit(g, c, m), now' = now
    PROVE  RingInv' /\ EmitInv'
<1>1. ScopesInv /\ RingInv
  BY Parts
<1>2. CASE Recent(m)
  <2>1. last' = [kind |-> "suppressed", message |-> m, at |-> now] /\ UNCHANGED ring
    BY <1>2 DEF Transmit
  <2>2. RingInv'
    BY <1>1, <2>1, RingUnchanged
  <2>3. PICK i \in DOMAIN passes : passes[i].message = m /\ now - passes[i].at < TTL
    BY <1>1, <1>2, RecentHasPassed
  <2>4. passes' = passes
    BY <2>1 DEF ring
  <2>5. HeldBackForARecentOne'
    BY <2>1, <2>3, <2>4 DEF HeldBackForARecentOne
  <2>6. EmitTypes' /\ NeverMisattributed'
    BY <2>1 DEF EmitTypes, NeverMisattributed, Sent
  <2> QED BY <2>2, <2>5, <2>6 DEF EmitInv
<1>3. CASE ~Recent(m)
  <2>1. Record(m) /\ last' = Emission(g, "exception", SessionID(g, c))
    BY <1>3 DEF Transmit
  <2>2. now \in Nat
    BY <1>1, OfOne
  <2>3. RingInv'
    BY <1>1, <1>3, <2>1, <2>2, RecordStep
  <2>4. EmitInv'
    BY <1>1, <2>1, LookedUp
  <2> QED BY <2>3, <2>4
<1> QED BY <1>2, <1>3

-----------------------------------------------------------------------------
(* The actions.                                                            *)

LEMMA EnterMiddlewareStep ==
    ASSUME Inductive, NEW g \in Goroutines \ {Scanner}, NEW t \in Traces, EnterMiddleware(g, t)
    PROVE  Inductive'
<1> DEFINE f == [kind |-> "middleware", trace |-> t]
           s == Append(frames[g], f)
<1>1. ScopesInv /\ RingInv
  BY Parts
<1>2. /\ panicking[g] = None /\ Len(frames[g]) < MaxFrames /\ last' = Nothing
      /\ UNCHANGED <<panicking, ring, now>>
      /\ goroutineTraces' = [goroutineTraces EXCEPT ![g] = t]
      /\ inner' = [inner EXCEPT ![g] = FALSE]
  BY DEF EnterMiddleware, MayCall
<1>3. frames' = [frames EXCEPT ![g] = s]
  BY <1>1, OfOne DEF EnterMiddleware, Push
<1>4. f \in Frames /\ f.kind = "middleware" /\ f.trace = t
  BY DEF Frames, Kinds
<1> HIDE DEF f
<1>5. s \in Seq(Frames) /\ Len(s) = Len(frames[g]) + 1 /\ Nested(s) /\ Known(s, t, FALSE)
  BY <1>1, <1>4, OfOne, PushScope
<1> HIDE DEF s
<1>6. Len(s) <= MaxFrames /\ panicking' = [panicking EXCEPT ![g] = panicking[g]]
  BY <1>1, <1>2, <1>5, OfOne
<1>7. /\ inner' \in [Goroutines -> BOOLEAN] /\ inner'[g] = FALSE
      /\ \A h \in Goroutines \ {g} : inner'[h] = inner[h]
  BY <1>1, <1>2, OfOne
<1>8. Known(s, t, inner'[g])
  BY <1>5, <1>7, Zenon
<1>9. ScopesInv'
  BY <1>1, <1>2, <1>3, <1>5, <1>6, <1>7, <1>8, OfOne, StepOfOne
<1> QED BY <1>1, <1>2, <1>9, RingUnchanged, NothingEmitted, PartsNext

LEMMA EnterDeferredStep ==
    ASSUME Inductive, NEW g \in Goroutines \ {Scanner}, NEW kind \in Kinds \ {"middleware"},
           EnterDeferred(g, kind)
    PROVE  Inductive'
<1> DEFINE f == [kind |-> kind, trace |-> CtxTrace(g)]
           s == Append(frames[g], f)
<1>1. ScopesInv /\ RingInv
  BY Parts
<1>2. /\ Len(frames[g]) < MaxFrames /\ last' = Nothing
      /\ UNCHANGED <<panicking, goroutineTraces, ring, now, inner>>
  BY DEF EnterDeferred, MayCall
<1>3. frames' = [frames EXCEPT ![g] = s]
  BY <1>1, OfOne DEF EnterDeferred, Push
<1>4. f \in Frames /\ f.kind # "middleware" /\ f.trace = AtHand(frames[g])
  BY <1>1, OfOne DEF Frames
<1> HIDE DEF f
<1>5. /\ s \in Seq(Frames) /\ Len(s) = Len(frames[g]) + 1 /\ Nested(s)
      /\ Known(s, goroutineTraces[g], inner[g])
  BY <1>1, <1>4, OfOne, PushScope
<1> HIDE DEF s
<1>6. /\ Len(s) <= MaxFrames /\ panicking' = [panicking EXCEPT ![g] = panicking[g]]
      /\ goroutineTraces' = [goroutineTraces EXCEPT ![g] = goroutineTraces[g]]
      /\ inner' \in [Goroutines -> BOOLEAN]
      /\ \A h \in Goroutines \ {g} : inner'[h] = inner[h]
  BY <1>1, <1>2, <1>5, OfOne
<1>7. Known(s, goroutineTraces[g], inner'[g])
  BY <1>2, <1>5
<1>8. ScopesInv'
  BY <1>1, <1>2, <1>3, <1>5, <1>6, <1>7, OfOne, StepOfOne
<1> QED BY <1>1, <1>2, <1>8, RingUnchanged, NothingEmitted, PartsNext

\* A frame of Middleware is left, by return or by panic.
LEMMA LeaveMiddleware ==
    ASSUME ScopesInv, NEW g \in Goroutines \ {Scanner}, frames[g] # <<>>, Top(g).kind = "middleware",
           goroutineTraces' = [goroutineTraces EXCEPT ![g] = None],
           frames' = Pop(g), now' = now,
           inner' = [inner EXCEPT ![g] = Cardinality(Registered(g)) > 1],
           NEW m \in Messages \cup {None}, panicking' = [panicking EXCEPT ![g] = m]
    PROVE  ScopesInv'
<1> DEFINE s == Front(frames[g])
<1>1. frames' = [frames EXCEPT ![g] = s]
  BY DEF Pop
<1>2. /\ inner' \in [Goroutines -> BOOLEAN] /\ inner'[g] \in BOOLEAN
      /\ \A h \in Goroutines \ {g} : inner'[h] = inner[h]
      /\ Cardinality(Requests(frames[g])) > 1 => inner'[g]
  <2> DEFINE c == Cardinality(Registered(g)) > 1
  <2>1. c \in BOOLEAN /\ inner' = [inner EXCEPT ![g] = c] /\ inner \in [Goroutines -> BOOLEAN]
    BY OfOne
  <2>2. Registered(g) = Requests(frames[g])
    BY OfOne
  <2>3. c <=> Cardinality(Requests(frames[g])) > 1
    BY <2>2
  <2> HIDE DEF c
  <2>4. inner' \in [Goroutines -> BOOLEAN] /\ inner'[g] = c
    BY <2>1, Zenon
  <2>5. \A h \in Goroutines \ {g} : inner'[h] = inner[h]
    BY <2>1, Zenon
  <2>6. inner'[g] <=> c
    BY <2>4, Zenon
  <2>7. inner'[g] \in BOOLEAN
    BY <2>4, Zenon
  <2> QED BY <2>3, <2>4, <2>5, <2>6, <2>7
<1> HIDE DEF s
<1>3. /\ s \in Seq(Frames) /\ Len(s) = Len(frames[g]) - 1 /\ Nested(s)
      /\ Known(s, None, inner'[g])
  <2>1. frames[g][Len(frames[g])].kind = "middleware"
    BY OfOne
  <2>2. ASSUME NEW t, NEW lost \in BOOLEAN, NEW still \in BOOLEAN, Known(frames[g], t, lost),
               Cardinality(Requests(frames[g])) > 1 => still
        PROVE  /\ s \in Seq(Frames) /\ Len(s) = Len(frames[g]) - 1 /\ Nested(s)
               /\ Known(s, None, still)
    BY <2>1, <2>2, OfOne, PopScope DEF s
  <2>3. Known(frames[g], goroutineTraces[g], inner[g]) /\ inner[g] \in BOOLEAN
    BY OfOne
  <2>4. inner'[g] \in BOOLEAN /\ (Cardinality(Requests(frames[g])) > 1 => inner'[g])
    BY <1>2, Zenon
  <2> QED BY <2>2, <2>3, <2>4, Zenon
<1>4. Len(s) <= MaxFrames
  BY <1>3, OfOne
<1> QED BY <1>1, <1>2, <1>3, <1>4, StepOfOne

\* A frame of another kind is left.
LEMMA LeaveDeferred ==
    ASSUME ScopesInv, NEW g \in Goroutines \ {Scanner}, frames[g] # <<>>, Top(g).kind # "middleware",
           frames' = Pop(g), UNCHANGED <<goroutineTraces, now, inner>>,
           NEW m \in Messages \cup {None}, panicking' = [panicking EXCEPT ![g] = m]
    PROVE  ScopesInv'
<1> DEFINE s == Front(frames[g])
<1>1. frames' = [frames EXCEPT ![g] = s]
  BY DEF Pop
<1> HIDE DEF s
<1>2. /\ s \in Seq(Frames) /\ Len(s) = Len(frames[g]) - 1 /\ Nested(s)
      /\ Known(s, goroutineTraces[g], inner[g])
  <2>1. frames[g][Len(frames[g])].kind # "middleware"
    BY OfOne
  <2> QED BY <2>1, OfOne, PopScope DEF s
<1>3. /\ Len(s) <= MaxFrames
      /\ goroutineTraces' = [goroutineTraces EXCEPT ![g] = goroutineTraces[g]]
      /\ inner' \in [Goroutines -> BOOLEAN]
      /\ \A h \in Goroutines \ {g} : inner'[h] = inner[h]
  BY <1>2, OfOne
<1>4. Known(s, goroutineTraces[g], inner'[g])
  BY <1>2
<1> QED BY <1>1, <1>2, <1>3, <1>4, OfOne, StepOfOne

LEMMA ReturnMiddlewareStep ==
    ASSUME Inductive, NEW g \in Goroutines \ {Scanner}, ReturnMiddleware(g)
    PROVE  Inductive'
<1>1. ScopesInv /\ RingInv
  BY Parts
<1>2. /\ frames[g] # <<>> /\ Top(g).kind = "middleware" /\ UNCHANGED <<ring, now>>
      /\ last' = Emission(g, "hop", Top(g).trace) /\ frames' = Pop(g)
      /\ goroutineTraces' = [goroutineTraces EXCEPT ![g] = None]
      /\ inner' = [inner EXCEPT ![g] = Cardinality(Registered(g)) > 1]
      /\ panicking' = [panicking EXCEPT ![g] = panicking[g]]
  BY <1>1, OfOne DEF ReturnMiddleware
<1>3. ScopesInv'
  BY <1>1, <1>2, OfOne, LeaveMiddleware
<1>4. EmitInv'
  BY <1>1, <1>2, SentFromFrame
<1> QED BY <1>1, <1>2, <1>3, <1>4, RingUnchanged, PartsNext

LEMMA UnwindMiddlewareStep ==
    ASSUME Inductive, NEW g \in Goroutines \ {Scanner}, UnwindMiddleware(g)
    PROVE  Inductive'
<1>1. ScopesInv /\ RingInv
  BY Parts
<1>2. /\ frames[g] # <<>> /\ Top(g).kind = "middleware" /\ UNCHANGED <<ring, now>>
      /\ last' = Emission(g, "panic", Top(g).trace) /\ frames' = Pop(g)
      /\ goroutineTraces' = [goroutineTraces EXCEPT ![g] = None]
      /\ inner' = [inner EXCEPT ![g] = Cardinality(Registered(g)) > 1]
      /\ panicking' = [panicking EXCEPT ![g] = None]
  BY DEF UnwindMiddleware
<1>3. ScopesInv'
  BY <1>1, <1>2, LeaveMiddleware
<1>4. EmitInv'
  BY <1>1, <1>2, SentFromFrame
<1> QED BY <1>1, <1>2, <1>3, <1>4, RingUnchanged, PartsNext

LEMMA ReturnDeferredStep ==
    ASSUME Inductive, NEW g \in Goroutines \ {Scanner}, ReturnDeferred(g)
    PROVE  Inductive'
<1>1. ScopesInv /\ RingInv
  BY Parts
<1>2. /\ frames[g] # <<>> /\ Top(g).kind # "middleware" /\ frames' = Pop(g)
      /\ UNCHANGED <<goroutineTraces, ring, now, inner>> /\ last' = Nothing
      /\ panicking' = [panicking EXCEPT ![g] = panicking[g]]
  BY <1>1, OfOne DEF ReturnDeferred
<1>3. ScopesInv'
  BY <1>1, <1>2, OfOne, LeaveDeferred
<1> QED BY <1>1, <1>2, <1>3, RingUnchanged, NothingEmitted, PartsNext

LEMMA UnwindReportingStep ==
    ASSUME Inductive, NEW g \in Goroutines \ {Scanner}, NEW c \in {CtxTrace(g), None},
           UnwindReporting(g, c)
    PROVE  Inductive'
<1> DEFINE m == panicking[g]
           u == IF Top(g).kind = "reporter" THEN m ELSE None
<1>1. ScopesInv /\ RingInv
  BY Parts
<1>2. /\ frames[g] # <<>> /\ Top(g).kind # "middleware" /\ frames' = Pop(g)
      /\ UNCHANGED <<goroutineTraces, now, inner>>
      /\ m # None /\ Transmit(g, c, m)
      /\ panicking' = [panicking EXCEPT ![g] = u]
  BY <1>1, OfOne DEF UnwindReporting
<1>3. m \in Messages /\ u \in Messages \cup {None}
  BY <1>1, <1>2, OfOne
<1> HIDE DEF m, u
<1>4. ScopesInv'
  BY <1>1, <1>2, <1>3, LeaveDeferred
<1>5. RingInv' /\ EmitInv'
  BY <1>2, <1>3, TransmitStep
<1> QED BY <1>4, <1>5, PartsNext

LEMMA UnwindElsewhereStep ==
    ASSUME Inductive, NEW g \in Goroutines \ {Scanner}, UnwindElsewhere(g)
    PROVE  Inductive'
<1>1. ScopesInv /\ RingInv
  BY Parts
<1>2. /\ frames[g] # <<>> => Top(g).kind # "middleware" /\ frames' = Pop(g)
      /\ frames[g] = <<>> => frames' = frames
      /\ UNCHANGED <<goroutineTraces, ring, now, inner>> /\ last' = Nothing
      /\ panicking' = [panicking EXCEPT ![g] = None]
  BY DEF UnwindElsewhere
<1>3. ScopesInv'
  <2>1. CASE frames[g] # <<>>
    BY <1>1, <1>2, <2>1, LeaveDeferred
  <2>2. CASE frames[g] = <<>>
    <3>1. panicking' \in [Goroutines -> Messages \cup {None}]
      BY <1>1, <1>2, OfOne
    <3> QED BY <1>1, <1>2, <2>2, <3>1, OfOne, SameScopes
  <2> QED BY <2>1, <2>2
<1> QED BY <1>1, <1>2, <1>3, RingUnchanged, NothingEmitted, PartsNext

\* Logs, prints, errors, panics and time.
LEMMA SameScopeSteps ==
    ASSUME Inductive
    PROVE  /\ \A g \in Goroutines \ {Scanner} : \A c \in {CtxTrace(g), None} :
                 /\ Log(g, c) => Inductive'
                 /\ \A m \in Messages : TransmitError(g, c, m) => Inductive'
           /\ \A g \in Goroutines \ {Scanner} : \A m \in Messages : Panic(g, m) => Inductive'
           /\ \A g \in Goroutines \ {Scanner} : \A m \in Messages :
                 ReportHandled(g, m) => Inductive'
           /\ CapturePrint => Inductive'
           /\ Tick => Inductive'
<1>1. ScopesInv /\ RingInv
  BY Parts
<1>2. ASSUME NEW g \in Goroutines \ {Scanner}, NEW c \in {CtxTrace(g), None}, Log(g, c) PROVE Inductive'
  <2>1. /\ last' = Emission(g, "log", SessionID(g, c))
        /\ UNCHANGED <<frames, panicking, goroutineTraces, ring, now, inner>>
    BY <1>2 DEF Log
  <2>2. ScopesInv'
    BY <1>1, <1>2, <2>1, OfOne, SameScopes
  <2>3. EmitInv'
    BY <1>1, <1>2, <2>1, LookedUp
  <2> QED BY <1>1, <2>1, <2>2, <2>3, RingUnchanged, PartsNext
<1>3. ASSUME NEW g \in Goroutines \ {Scanner}, NEW c \in {CtxTrace(g), None}, NEW m \in Messages,
             TransmitError(g, c, m)
      PROVE  Inductive'
  <2>1. Transmit(g, c, m) /\ UNCHANGED <<frames, panicking, goroutineTraces, now, inner>>
    BY <1>3 DEF TransmitError
  <2>2. ScopesInv'
    BY <1>1, <1>3, <2>1, OfOne, SameScopes
  <2>3. RingInv' /\ EmitInv'
    BY <1>3, <2>1, TransmitStep
  <2> QED BY <2>2, <2>3, PartsNext
<1>4. ASSUME NEW g \in Goroutines \ {Scanner}, NEW m \in Messages, Panic(g, m) PROVE Inductive'
  <2>1. /\ UNCHANGED <<frames, goroutineTraces, ring, now, inner>> /\ last' = Nothing
        /\ panicking' = [panicking EXCEPT ![g] = m]
    BY <1>4 DEF Panic
  <2>2. panicking' \in [Goroutines -> Messages \cup {None}]
    BY <1>1, <1>4, <2>1, OfOne
  <2>3. ScopesInv'
    BY <1>1, <1>4, <2>1, <2>2, OfOne, SameScopes
  <2> QED BY <1>1, <2>1, <2>3, RingUnchanged, NothingEmitted, PartsNext
<1>5. ASSUME Tick PROVE Inductive'
  <2>1. /\ UNCHANGED <<frames, panicking, goroutineTraces, ring, inner>> /\ last' = Nothing
        /\ now' = now + 1 /\ now < MaxTime
    BY <1>5 DEF Tick
  <2>2. now' \in 0..MaxTime
    BY <1>1, <2>1 DEF ScopesInv, ScopeTypes
  <2>3. ScopesInv'
    BY <1>1, <2>1, <2>2, SameScopes DEF ScopesInv, ScopeTypes
  <2> QED BY <1>1, <2>1, <2>3, RingUnchanged, NothingEmitted, PartsNext
<1>6. ASSUME NEW g \in Goroutines \ {Scanner}, NEW m \in Messages, ReportHandled(g, m)
      PROVE  Inductive'
  <2>1. TransmitError(g, CtxTrace(g), m)
    BY <1>6 DEF ReportHandled, TransmitError
  <2> QED BY <1>3, <2>1
<1>7. ASSUME CapturePrint PROVE Inductive'
  <2>1. /\ last' = [kind |-> "print", session |-> SessionID(Scanner, None)]
        /\ UNCHANGED <<frames, panicking, goroutineTraces, ring, now, inner>>
    BY <1>7 DEF CapturePrint
  <2>2. ScopesInv'
    BY <1>1, <2>1, SameScopes DEF ScopesInv, ScopeTypes
  <2>3. EmitInv'
    BY <1>1, <2>1, CapturedPrint
  <2> QED BY <1>1, <2>1, <2>2, <2>3, RingUnchanged, PartsNext
<1> QED BY <1>2, <1>3, <1>4, <1>5, <1>6, <1>7

LEMMA InitInv == Init => Inductive
<1> SUFFICES ASSUME Init PROVE Inductive
  OBVIOUS
<1> USE DEF Init
<1>1. /\ \A S : <<>> \in Seq(S)
      /\ Len(<<>>) = 0 /\ DOMAIN <<>> = {}
  BY EmptySeq
<1>2. ScopeTypes
  BY <1>1 DEF ScopeTypes
<1>3. ContextOfInnermost /\ InnermostOrLost
  BY <1>1 DEF ContextOfInnermost, InnermostOrLost, Registered
<1>4. RingTypes
  <2>1. [message |-> None, at |-> 0] \in Slots
    BY DEF Slots
  <2>2. 0 \in 0..(DedupSize - 1)
    OBVIOUS
  <2> QED BY <1>1, <2>1, <2>2 DEF RingTypes
<1>5. RingHoldsLatest
  BY <1>1, <1>4, SlotsAndAges DEF RingHoldsLatest
<1>6. PassesAreSpaced
  BY <1>1 DEF PassesAreSpaced
<1>7. EmitInv
  BY DEF EmitInv, EmitTypes, Nothing, NeverMisattributed, HeldBackForARecentOne, Sent
<1>8. ScannerServesNothing
  BY ScannerAssumption DEF ScannerServesNothing
<1> QED BY <1>2, <1>3, <1>4, <1>5, <1>6, <1>7, <1>8, Parts DEF ScopesInv, RingInv

LEMMA StepInv == Inductive /\ [Next]_vars => Inductive'
<1> SUFFICES ASSUME Inductive, [Next]_vars PROVE Inductive'
  OBVIOUS
<1>1. CASE UNCHANGED vars
  <2>1. /\ UNCHANGED <<frames, panicking, goroutineTraces, now, inner, last>>
        /\ UNCHANGED ring
    BY <1>1 DEF vars
  <2>2. ScopesInv /\ RingInv /\ EmitInv
    BY Parts
  <2>3. ScopesInv'
    BY <2>1, <2>2, SameScopes DEF ScopesInv, ScopeTypes
  <2>4. EmitInv'
    BY <2>1, <2>2 DEF EmitInv, EmitTypes, NeverMisattributed, HeldBackForARecentOne, ring
  <2> QED BY <2>1, <2>2, <2>3, <2>4, RingUnchanged, PartsNext
<1>2. CASE Tick
  BY <1>2, SameScopeSteps
<1>3. ASSUME NEW g \in Goroutines \ {Scanner}, NEW t \in Traces, EnterMiddleware(g, t) PROVE Inductive'
  BY <1>3, EnterMiddlewareStep
<1>4. ASSUME NEW g \in Goroutines \ {Scanner}, NEW kind \in Kinds \ {"middleware"}, EnterDeferred(g, kind)
      PROVE  Inductive'
  BY <1>4, EnterDeferredStep
<1>5. ASSUME NEW g \in Goroutines \ {Scanner}, ReturnMiddleware(g) PROVE Inductive'
  BY <1>5, ReturnMiddlewareStep
<1>6. ASSUME NEW g \in Goroutines \ {Scanner}, ReturnDeferred(g) PROVE Inductive'
  BY <1>6, ReturnDeferredStep
<1>7. ASSUME NEW g \in Goroutines \ {Scanner}, NEW c \in {CtxTrace(g), None},
             \/ Log(g, c)
             \/ \E m \in Messages : TransmitError(g, c, m)
      PROVE  Inductive'
  BY <1>7, SameScopeSteps
<1>8. ASSUME NEW g \in Goroutines \ {Scanner}, NEW m \in Messages,
             ReportHandled(g, m) \/ Panic(g, m)
      PROVE  Inductive'
  BY <1>8, SameScopeSteps
<1>9. ASSUME NEW g \in Goroutines \ {Scanner}, UnwindMiddleware(g) PROVE Inductive'
  BY <1>9, UnwindMiddlewareStep
<1>10. ASSUME NEW g \in Goroutines \ {Scanner}, NEW c \in {CtxTrace(g), None},
              UnwindReporting(g, c)
       PROVE  Inductive'
  BY <1>10, UnwindReportingStep
<1>11. ASSUME NEW g \in Goroutines \ {Scanner}, UnwindElsewhere(g) PROVE Inductive'
  BY <1>11, UnwindElsewhereStep
<1>12. CASE CapturePrint
  BY <1>12, SameScopeSteps
<1> QED BY <1>1, <1>2, <1>3, <1>4, <1>5, <1>6, <1>7, <1>8, <1>9, <1>10, <1>11, <1>12 DEF Next

LEMMA InductiveHolds == Spec => []Inductive
BY InitInv, StepInv, PTL DEF Spec

\* Contexts, registrations and ring are what Middleware and isDuplicateException
\* make of them, however requests nest, end and panic.
THEOREM ScopesAreKept == Spec => []ScopeInv
BY InductiveHolds, PTL DEF Inductive

\* Telemetry never carries the trace of another request than the one whose code
\* sends it.
THEOREM TelemetryIsAttributed == Spec => []NeverMisattributed
BY InductiveHolds, PTL DEF Inductive

\* The ring lets a message pass again only after the TTL or after as many others as
\* it holds, and holds one back only for a recent one.
THEOREM RingSuppressesRepeats == Spec => []DedupWindow
BY InductiveHolds, PTL DEF Inductive

=============================================================================
