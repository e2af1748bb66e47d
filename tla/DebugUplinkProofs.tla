-------------------------- MODULE DebugUplinkProofs --------------------------
(***************************************************************************)
(* The debug session and the uplink that drives it, proved for every       *)
(* number of goroutines, directives, budgets and incarnations.  First the  *)
(* session alone: SessionInv, the properties and what relates the active   *)
(* struct, the histories and the callbacks on their way, is inductive.     *)
(* Then the composition: what it does to the session is what the session's *)
(* specification allows, so every theorem about the session holds of the   *)
(* uplink too, and UplinkInv, with its two properties, is inductive.       *)
(***************************************************************************)
EXTENDS DebugUplink, TLAPS

-----------------------------------------------------------------------------
\* The session.

USE DirectivesAssumption, BoundsAssumption

\* The initial state satisfies the invariant.
LEMMA InitInv == SInit => SessionInv
<1> SUFFICES ASSUME SInit PROVE SessionInv
  OBVIOUS
<1> USE DEF SInit
<1>1. STypeOK
  <2>1. (CHOOSE d \in Directives : TRUE) \in Directives
    OBVIOUS
  <2>2. heap \in [Gens -> [dir: Directives, spans: Nat, bytes: Nat]]
    BY <2>1
  <2>3. op \in [Goroutines -> Ops]
    BY DEF Ops
  <2>4. report \in [Gens -> [fired: Nat, reason: Reasons \cup {"none"},
                             spans: Nat, bytes: Nat]]
    BY DEF NoReport
  <2>5. charged \in [Gens -> Counts] /\ granted \in [Gens -> Counts]
    BY DEF Counts, NoCounts
  <2> QED BY <2>2, <2>3, <2>4, <2>5 DEF STypeOK
<1>2. Fresh
  BY DEF Fresh, NoCounts, NoReport
<1>3. InFlight /\ SnapshotIsFinal
  BY DEF InFlight, SnapshotIsFinal, Idle
<1>4. Counters /\ EndedExactlyOnce /\ BudgetNotOverrun /\ ReasonIsTrue
  BY DEF Counters, EndedExactlyOnce, BudgetNotOverrun, ReasonIsTrue
<1> QED BY <1>1, <1>2, <1>3, <1>4 DEF SessionInv

\* What the type invariant says of the parts of structs and operations.
LEMMA Types ==
    ASSUME STypeOK
    PROVE  /\ gens \in Nat /\ gens <= MaxGen /\ active \in Nat /\ active <= gens
           /\ now \in Nat
           /\ \A k \in Gens :
                /\ k \in Nat /\ k # 0 /\ k <= MaxGen
                /\ heap[k].dir \in Directives
                /\ heap[k].dir.expires \in Nat
                /\ heap[k].dir.maxSpans \in Nat
                /\ heap[k].dir.maxBytes \in Nat
                /\ heap[k].spans \in Nat /\ heap[k].bytes \in Nat
                /\ charged[k].spans \in Nat /\ charged[k].bytes \in Nat
                /\ granted[k].spans \in Nat /\ granted[k].bytes \in Nat
                /\ report[k].fired \in Nat
           /\ active # 0 => active \in Gens
           /\ \A k \in 1..gens : k \in Gens
<1> USE DEF STypeOK, Gens
<1>1. \A d \in Directives : d.expires \in Nat /\ d.maxSpans \in Nat /\ d.maxBytes \in Nat
  OBVIOUS
<1>2. \A k \in Gens : heap[k] \in [dir: Directives, spans: Nat, bytes: Nat]
  OBVIOUS
<1>3. \A k \in Gens : charged[k] \in Counts /\ granted[k] \in Counts
  OBVIOUS
<1>4. report \in [Gens -> [fired: Nat, reason: Reasons \cup {"none"},
                           spans: Nat, bytes: Nat]]
  OBVIOUS
<1>5. \A k \in Gens : report[k].fired \in Nat
  BY <1>4
<1>6. \A k \in Gens : /\ charged[k].spans \in Nat /\ charged[k].bytes \in Nat
                      /\ granted[k].spans \in Nat /\ granted[k].bytes \in Nat
  BY <1>3 DEF Counts
<1>7. \A k \in Gens : /\ heap[k].dir \in Directives
                      /\ heap[k].spans \in Nat /\ heap[k].bytes \in Nat
  BY <1>2
<1>8. /\ gens \in Nat /\ gens <= MaxGen /\ active \in Nat /\ active <= gens
      /\ now \in Nat /\ MaxGen \in Nat
  OBVIOUS
<1>9. \A k \in Gens : k \in Nat /\ k # 0 /\ k <= MaxGen
  BY <1>8
<1>10. active # 0 => active \in Gens
  BY <1>8
<1>11. \A k \in 1..gens : k \in Gens
  BY <1>8
<1> HIDE DEF STypeOK, Gens
<1> QED BY <1>1, <1>5, <1>6, <1>7, <1>8, <1>9, <1>10, <1>11

\* What the type invariant says of an operation in flight.
LEMMA OpTypes ==
    ASSUME STypeOK, NEW g \in Goroutines
    PROVE  /\ op[g] \in Ops
           /\ op[g].pc = "activate" =>
                /\ op[g].dir \in Directives
                /\ op[g].dir.expires \in Nat
                /\ op[g].dir.maxSpans \in Nat
                /\ op[g].dir.maxBytes \in Nat
           /\ op[g].pc = "deactivate" => op[g].reason \in {"cancelled", "shutdown"}
           /\ op[g].pc = "record" => op[g].size \in Sizes /\ op[g].size \in Nat
           /\ op[g].pc = "fire" => op[g] \in FireOps
<1>1. op[g] \in Ops
  BY DEF STypeOK
<1>2. op[g].pc = "activate" => op[g].dir \in Directives
  BY <1>1 DEF Ops, Idle, TTLOp, FireOps
<1>3. op[g].pc = "deactivate" => op[g].reason \in {"cancelled", "shutdown"}
  BY <1>1 DEF Ops, Idle, TTLOp, FireOps
<1>4. op[g].pc = "record" => op[g].size \in Sizes
  BY <1>1 DEF Ops, Idle, TTLOp, FireOps
<1>5. op[g].pc = "fire" => op[g] \in FireOps
  BY <1>1 DEF Ops, Idle, TTLOp, FireOps
<1> QED BY <1>1, <1>2, <1>3, <1>4, <1>5

\* The clock moves: a reason that was true stays true.
LEMMA TickInv ==
    ASSUME SessionInv, Tick
    PROVE  SessionInv'
<1>0. STypeOK /\ Fresh /\ InFlight /\ Counters /\ EndedExactlyOnce
      /\ SnapshotIsFinal /\ BudgetNotOverrun /\ ReasonIsTrue
  BY DEF SessionInv
<1>1. now' \in Nat /\ now' >= now /\ now \in Nat
      /\ UNCHANGED <<active, gens, heap, op, charged, granted, report>>
  BY <1>0 DEF Tick, STypeOK
<1>2. \A k \in Gens : \A r : ReasonHolds(k, r) => ReasonHolds(k, r)'
  BY <1>0, <1>1, Types DEF ReasonHolds
<1>3. STypeOK' /\ Fresh' /\ Counters' /\ EndedExactlyOnce' /\ SnapshotIsFinal'
      /\ BudgetNotOverrun'
  BY <1>0, <1>1 DEF STypeOK, Fresh, Counters, EndedExactlyOnce, Pending,
                    SnapshotIsFinal, BudgetNotOverrun
<1>4. InFlight'
  BY <1>0, <1>1, <1>2, Types DEF InFlight
<1>5. ReasonIsTrue'
  BY <1>0, <1>1, <1>2, Types DEF ReasonIsTrue
<1> QED BY <1>3, <1>4, <1>5 DEF SessionInv

\* A goroutine moves between operations without a callback to fire.
LEMMA OpOnlyInv ==
    ASSUME SessionInv, STypeOK', NEW g \in Goroutines,
           op[g].pc # "fire", op'[g].pc # "fire",
           \A h \in Goroutines : h # g => op'[h] = op[h],
           UNCHANGED <<active, gens, heap, now, charged, granted, report>>
    PROVE  SessionInv'
<1>0. STypeOK /\ Fresh /\ InFlight /\ Counters /\ EndedExactlyOnce
      /\ SnapshotIsFinal /\ BudgetNotOverrun /\ ReasonIsTrue
  BY DEF SessionInv
<1>1. Fresh' /\ Counters' /\ BudgetNotOverrun' /\ ReasonIsTrue'
  BY <1>0 DEF Fresh, Counters, BudgetNotOverrun, ReasonIsTrue, ReasonHolds
<1>2. \A h \in Goroutines : op'[h].pc = "fire" => op'[h] = op[h] /\ op[h].pc = "fire"
  OBVIOUS
<1>3. InFlight'
  BY <1>0, <1>2 DEF InFlight, ReasonHolds
<1>4. \A h \in Goroutines : \A k : Pending(h, k)' <=> Pending(h, k)
  BY DEF Pending
<1>5. EndedExactlyOnce'
  BY <1>0, <1>4 DEF EndedExactlyOnce
<1>6. SnapshotIsFinal'
  BY <1>0, <1>2 DEF SnapshotIsFinal
<1> QED BY <1>0, <1>1, <1>3, <1>5, <1>6 DEF SessionInv

\* A call begins: only the caller's operation changes.
LEMMA BeginInv ==
    ASSUME SessionInv, NEW g \in Goroutines, NEW o \in Ops, o.pc # "fire", Begin(g, o)
    PROVE  SessionInv'
<1>1. STypeOK'
  BY DEF SessionInv, STypeOK, Begin
<1>2. op[g].pc # "fire" /\ op'[g].pc # "fire"
      /\ \A h \in Goroutines : h # g => op'[h] = op[h]
  BY DEF SessionInv, STypeOK, Begin, Idle
<1> QED BY <1>1, <1>2, OpOnlyInv DEF Begin

\* A goroutine ends the active incarnation, having charged s and b to it in
\* all, and is left with the callback to fire.
LEMMA EndInv ==
    ASSUME SessionInv, STypeOK', active # 0,
           NEW g \in Goroutines, NEW r \in Reasons, NEW s \in Nat, NEW b \in Nat,
           op[g].pc # "fire",
           op'[g] = FireOp(r, s, b),
           \A h \in Goroutines : h # g => op'[h] = op[h],
           active' = 0, UNCHANGED <<gens, now, granted, report>>,
           \A k \in Gens : heap'[k].dir = heap[k].dir,
           \A k \in Gens : k # active => charged'[k] = charged[k],
           charged'[active].spans = s, charged'[active].bytes = b,
           r = "ttl_expired" => now >= heap[active].dir.expires,
           r = "span_budget" => heap[active].dir.maxSpans # 0
                                /\ s >= heap[active].dir.maxSpans,
           r = "payload_budget" => heap[active].dir.maxBytes # 0
                                   /\ b >= heap[active].dir.maxBytes,
           granted[active].spans # 0 => s <= granted[active].spans,
           granted[active].bytes # 0 /\ s # 0 =>
               \E z \in Sizes : b < granted[active].bytes + z
    PROVE  SessionInv'
<1>0. STypeOK /\ Fresh /\ InFlight /\ Counters /\ EndedExactlyOnce
      /\ SnapshotIsFinal /\ BudgetNotOverrun /\ ReasonIsTrue
  BY DEF SessionInv
<1>1. active \in 1..gens /\ active \in Gens
  BY <1>0, Types
<1>2. /\ op'[g].pc = "fire" /\ op'[g].gen = active /\ op'[g].reason = r
      /\ op'[g].spans = s /\ op'[g].bytes = b
  BY DEF FireOp
<1>3. \A h \in Goroutines, k \in 1..gens :
         Pending(h, k)' <=> (h # g /\ Pending(h, k)) \/ (h = g /\ k = active)
  BY <1>2 DEF Pending
<1>4. report[active].fired = 0 /\ \A h \in Goroutines : ~Pending(h, active)
  BY <1>0, <1>1 DEF EndedExactlyOnce
<1>5. ~\E k \in 1..gens : Pending(g, k)
  BY DEF Pending
<1>6. Fresh'
  <2>1. \A k \in Gens : k > gens => k # active
    BY <1>0, <1>1, Types
  <2> QED BY <1>0, <2>1 DEF Fresh
<1>7. \A k \in 1..gens : \A q : k # active /\ ReasonHolds(k, q) => ReasonHolds(k, q)'
  BY <1>0, Types DEF ReasonHolds
<1>8. \A h \in Goroutines : h # g /\ op[h].pc = "fire" =>
         op[h].gen \in 1..gens /\ op[h].gen # active
  BY <1>0, <1>4 DEF InFlight, Pending
<1>9. InFlight'
  <2> SUFFICES ASSUME NEW h \in Goroutines, op'[h].pc = "fire"
               PROVE  (op[h].gen \in 1..gens /\ ReasonHolds(op[h].gen, op[h].reason))'
    BY DEF InFlight
  <2>1. CASE h = g
    BY <1>1, <1>2, <2>1 DEF ReasonHolds
  <2>2. CASE h # g
    BY <1>0, <1>7, <1>8, <2>2 DEF InFlight
  <2> QED BY <2>1, <2>2
<1>10. Counters'
  BY DEF Counters
<1>11. EndedExactlyOnce'
  <2> SUFFICES ASSUME NEW k \in 1..gens
      PROVE  (/\ report[k].fired <= 1
              /\ k = active => report[k].fired = 0
              /\ k = active \/ report[k].fired = 1 => \A h \in Goroutines : ~Pending(h, k)
              /\ k # active /\ report[k].fired = 0 => \E h \in Goroutines : Pending(h, k)
              /\ \A h, j \in Goroutines : Pending(h, k) /\ Pending(j, k) => h = j)'
    BY DEF EndedExactlyOnce
  <2>1. CASE k = active
    BY <1>1, <1>3, <1>4, <2>1
  <2>2. CASE k # active
    BY <1>0, <1>3, <1>5, <2>2, Types DEF EndedExactlyOnce
  <2> QED BY <2>1, <2>2
<1>12. SnapshotIsFinal'
  <2>1. \A k \in 1..gens : report[k].fired # 0 => k # active /\ k \in Gens
    BY <1>0, <1>4, Types
  <2> QED BY SMTT(30), <1>0, <1>1, <1>2, <1>8, <2>1, Types DEF SnapshotIsFinal
<1>13. BudgetNotOverrun'
  BY <1>0, <1>1, Types DEF BudgetNotOverrun
<1>14. ReasonIsTrue'
  BY <1>0, <1>4, <1>7 DEF ReasonIsTrue
<1> QED BY <1>6, <1>9, <1>10, <1>11, <1>12, <1>13, <1>14 DEF SessionInv

\* Cancel and shutdown end what is active, or find nothing to end.
LEMMA DeactivateInv ==
    ASSUME SessionInv, NEW g \in Goroutines, Deactivate(g)
    PROVE  SessionInv'
<1>0. STypeOK /\ Counters /\ BudgetNotOverrun
  BY DEF SessionInv
<1>1. op[g].pc = "deactivate" /\ op[g].reason \in {"cancelled", "shutdown"} /\ op[g].pc # "fire"
  BY <1>0, OpTypes DEF Deactivate
<1>2. CASE active = 0
  <2>1. op' = [op EXCEPT ![g] = Idle] /\ active' = active
    BY <1>2 DEF Deactivate
  <2>2. op'[g] = Idle /\ op'[g].pc # "fire"
        /\ \A h \in Goroutines : h # g => op'[h] = op[h]
    BY <1>0, <2>1 DEF STypeOK, Idle
  <2>3. STypeOK'
    BY <1>0, <2>1 DEF STypeOK, Deactivate, Ops
  <2> QED BY <1>1, <2>1, <2>2, <2>3, OpOnlyInv DEF Deactivate
<1>3. CASE active # 0
  <2> DEFINE s == heap[active].spans
             b == heap[active].bytes
             f == FireOp(op[g].reason, s, b)
  <2>1. active \in Gens /\ active \in 1..gens /\ s \in Nat /\ b \in Nat
    BY <1>0, <1>3, Types
  <2>2. op' = [op EXCEPT ![g] = f] /\ active' = 0
        /\ UNCHANGED <<gens, heap, now, charged, granted, report>>
    BY <1>3 DEF Deactivate
  <2>3. f \in Ops
    BY <1>1, <2>1 DEF Reasons, FireOp, FireOps, Ops
  <2>4. op'[g] = f /\ \A h \in Goroutines : h # g => op'[h] = op[h]
    BY <1>0, <2>2 DEF STypeOK
  <2>5. STypeOK'
    BY <1>0, <2>2, <2>3, Types DEF STypeOK
  <2>6. charged[active].spans = s /\ charged[active].bytes = b
    BY <1>0, <1>3 DEF Counters
  <2>7. op[g].reason \notin {"ttl_expired", "span_budget", "payload_budget"}
    BY <1>1
  <2>8. /\ granted[active].spans # 0 => s <= granted[active].spans
        /\ granted[active].bytes # 0 /\ s # 0 =>
             \E z \in Sizes : b < granted[active].bytes + z
    BY <1>0, <2>1, <2>6 DEF BudgetNotOverrun
  <2> HIDE DEF s, b, f
  <2>9. op'[g] = FireOp(op[g].reason, s, b)
    BY <2>4 DEF f
  <2> QED BY <1>1, <1>3, <2>1, <2>2, <2>4, <2>5, <2>6, <2>7, <2>8, <2>9, EndInv DEF Reasons
<1> QED BY <1>2, <1>3

\* The pump ends a session whose time is over, under the lock.
LEMMA CheckTTLInv ==
    ASSUME SessionInv, NEW g \in Goroutines, CheckTTL(g)
    PROVE  SessionInv'
<1>0. STypeOK /\ Counters /\ BudgetNotOverrun
  BY DEF SessionInv
<1>1. op[g].pc # "fire"
  BY DEF CheckTTL
<1>2. CASE ~(active # 0 /\ now >= heap[active].dir.expires)
  <2>1. op' = [op EXCEPT ![g] = Idle] /\ active' = active
    BY <1>2 DEF CheckTTL
  <2>2. op'[g] = Idle /\ op'[g].pc # "fire"
        /\ \A h \in Goroutines : h # g => op'[h] = op[h]
    BY <1>0, <2>1 DEF STypeOK, Idle
  <2>3. STypeOK'
    BY <1>0, <2>1 DEF STypeOK, CheckTTL, Ops
  <2> QED BY <1>1, <2>1, <2>2, <2>3, OpOnlyInv DEF CheckTTL
<1>3. CASE active # 0 /\ now >= heap[active].dir.expires
  <2> DEFINE s == heap[active].spans
             b == heap[active].bytes
             f == FireOp("ttl_expired", s, b)
  <2>1. active \in Gens /\ active \in 1..gens /\ s \in Nat /\ b \in Nat
    BY <1>0, <1>3, Types
  <2>2. op' = [op EXCEPT ![g] = f] /\ active' = 0
        /\ UNCHANGED <<gens, heap, now, charged, granted, report>>
    BY <1>3 DEF CheckTTL
  <2>3. f \in Ops
    BY <2>1 DEF FireOp, FireOps, Ops, Reasons
  <2>4. op'[g] = f /\ \A h \in Goroutines : h # g => op'[h] = op[h]
    BY <1>0, <2>2 DEF STypeOK
  <2>5. STypeOK'
    BY <1>0, <2>2, <2>3, Types DEF STypeOK
  <2>6. charged[active].spans = s /\ charged[active].bytes = b
    BY <1>0, <1>3 DEF Counters
  <2>7. /\ granted[active].spans # 0 => s <= granted[active].spans
        /\ granted[active].bytes # 0 /\ s # 0 =>
             \E z \in Sizes : b < granted[active].bytes + z
    BY <1>0, <2>1, <2>6 DEF BudgetNotOverrun
  <2> HIDE DEF s, b, f
  <2>8. op'[g] = FireOp("ttl_expired", s, b)
    BY <2>4 DEF f
  <2> QED BY <1>1, <1>3, <2>1, <2>2, <2>4, <2>5, <2>6, <2>7, <2>8, EndInv DEF Reasons
<1> QED BY <1>2, <1>3

\* The session goes on with new counters, or under a new directive: it has
\* room in the widest budget it was given.
LEMMA ContinueInv ==
    ASSUME SessionInv, STypeOK', active # 0, NEW g \in Goroutines,
           op[g].pc # "fire", op'[g].pc # "fire",
           \A h \in Goroutines : h # g => op'[h] = op[h],
           UNCHANGED <<active, gens, now, report>>,
           \A k \in Gens : k # active =>
               heap'[k] = heap[k] /\ charged'[k] = charged[k] /\ granted'[k] = granted[k],
           Counters',
           granted'[active].bytes # 0 /\ charged'[active].spans # 0 =>
               \E z \in Sizes : charged'[active].bytes < granted'[active].bytes + z
    PROVE  SessionInv'
<1>0. STypeOK /\ Fresh /\ InFlight /\ EndedExactlyOnce
      /\ SnapshotIsFinal /\ BudgetNotOverrun /\ ReasonIsTrue
  BY DEF SessionInv
<1>1. active \in 1..gens /\ active \in Gens
  BY <1>0, Types
<1>2. report[active].fired = 0 /\ \A h \in Goroutines : ~Pending(h, active)
  BY <1>0, <1>1 DEF EndedExactlyOnce
<1>3. \A h \in Goroutines : op'[h].pc = "fire" =>
         /\ op'[h] = op[h] /\ op[h].pc = "fire"
         /\ op[h].gen \in 1..gens /\ op[h].gen # active
  BY <1>0, <1>2 DEF InFlight, Pending
<1>4. \A k \in 1..gens : k \in Gens /\ k \in Nat
  BY <1>0, Types
<1>5. Fresh'
  <2>1. \A k \in Gens : k > gens => k # active
    BY <1>0, <1>1, Types
  <2> QED BY <1>0, <2>1 DEF Fresh
<1>6. InFlight'
  <2>1. \A k \in 1..gens : \A q : k # active /\ ReasonHolds(k, q) => ReasonHolds(k, q)'
    BY <1>4 DEF ReasonHolds
  <2> QED BY <1>0, <1>3, <2>1 DEF InFlight
<1>7. \A h \in Goroutines : \A k : Pending(h, k)' <=> Pending(h, k)
  BY DEF Pending
<1>8. EndedExactlyOnce'
  BY <1>0, <1>7 DEF EndedExactlyOnce
<1>9. SnapshotIsFinal'
  <2>1. \A k \in 1..gens : report[k].fired # 0 => k # active
    BY <1>2
  <2> QED BY <1>0, <1>3, <1>4, <2>1 DEF SnapshotIsFinal
<1>10. BudgetNotOverrun'
  <2>1. granted'[active].spans # 0 => charged'[active].spans <= granted'[active].spans
    <3>1. charged'[active].spans \in Nat /\ granted'[active].spans \in Nat
      BY <1>1 DEF STypeOK, Counts
    <3> QED BY <3>1 DEF Counters
  <2> QED BY <1>0, <1>4, <2>1 DEF BudgetNotOverrun
<1>11. ReasonIsTrue'
  <2>1. \A k \in 1..gens : report[k].fired # 0 => k # active
    BY <1>2
  <2> QED BY <1>0, <1>4, <2>1 DEF ReasonIsTrue, ReasonHolds
<1> QED BY <1>0, <1>5, <1>6, <1>8, <1>9, <1>10, <1>11 DEF SessionInv

\* An update keeps the counters and never narrows what was granted.
LEMMA UpdateInPlaceInv ==
    ASSUME SessionInv, NEW g \in Goroutines, UpdateInPlace(g)
    PROVE  SessionInv'
<1>0. STypeOK /\ Counters /\ BudgetNotOverrun
  BY DEF SessionInv
<1> DEFINE d == op[g].dir
           top == [spans |-> Wider(granted[active].spans, d.maxSpans),
                   bytes |-> Wider(granted[active].bytes, d.maxBytes)]
<1>1. /\ active # 0 /\ active \in Gens /\ active \in 1..gens
      /\ op[g].pc = "activate" /\ op[g].pc # "fire"
      /\ d \in Directives /\ d.maxSpans \in Nat /\ d.maxBytes \in Nat
  BY <1>0, Types, OpTypes DEF UpdateInPlace
<1>2. /\ heap[active].spans \in Nat /\ heap[active].bytes \in Nat
      /\ granted[active].spans \in Nat /\ granted[active].bytes \in Nat
      /\ charged[active].spans \in Nat /\ charged[active].bytes \in Nat
      /\ heap[active].dir.maxSpans \in Nat /\ heap[active].dir.maxBytes \in Nat
  BY <1>0, <1>1, Types
<1>3. /\ heap' = [heap EXCEPT ![active] = [@ EXCEPT !.dir = d]]
      /\ granted' = [granted EXCEPT ![active] = top]
      /\ op' = [op EXCEPT ![g] = Idle]
      /\ UNCHANGED <<active, gens, now, charged, report>>
  BY <1>0, <1>1 DEF UpdateInPlace, STypeOK
<1>4. top \in Counts /\ top.spans \in Nat /\ top.bytes \in Nat
  BY <1>1, <1>2 DEF Wider, Counts
<1>5. [heap[active] EXCEPT !.dir = d] \in [dir: Directives, spans: Nat, bytes: Nat]
  BY SMTT(30), <1>0, <1>1 DEF STypeOK
<1>6. STypeOK'
  BY <1>0, <1>1, <1>3, <1>4, <1>5 DEF STypeOK, Ops
<1>7. /\ heap'[active].dir = d
      /\ heap'[active].spans = heap[active].spans
      /\ heap'[active].bytes = heap[active].bytes
      /\ granted'[active] = top
  BY <1>0, <1>1, <1>3 DEF STypeOK
<1>8. /\ op'[g].pc # "fire"
      /\ \A h \in Goroutines : h # g => op'[h] = op[h]
      /\ \A k \in Gens : k # active =>
            heap'[k] = heap[k] /\ charged'[k] = charged[k] /\ granted'[k] = granted[k]
  BY <1>0, <1>1, <1>3 DEF STypeOK, Idle
<1>9. /\ top.spans # 0 =>
           /\ granted[active].spans # 0 /\ granted[active].spans <= top.spans
           /\ d.maxSpans \in 1..top.spans
      /\ top.bytes # 0 =>
           /\ granted[active].bytes # 0 /\ granted[active].bytes <= top.bytes
           /\ d.maxBytes \in 1..top.bytes
  BY <1>1, <1>2 DEF Wider
<1>10. /\ heap[active].spans = charged[active].spans
       /\ heap[active].bytes = charged[active].bytes
       /\ granted[active].spans # 0 => charged[active].spans < granted[active].spans
       /\ granted[active].bytes # 0 => charged[active].bytes < granted[active].bytes
  BY <1>0, <1>1 DEF Counters
<1> HIDE DEF top
<1>11. Counters'
  BY <1>1, <1>2, <1>3, <1>4, <1>7, <1>9, <1>10 DEF Counters
<1>12. top.bytes # 0 /\ charged[active].spans # 0 =>
          \E z \in Sizes : charged[active].bytes < top.bytes + z
  <2>1. top.bytes # 0 /\ charged[active].spans # 0 =>
          \E z \in Sizes : charged[active].bytes < granted[active].bytes + z
    BY <1>0, <1>1, <1>9 DEF BudgetNotOverrun
  <2> SUFFICES ASSUME top.bytes # 0, charged[active].spans # 0
               PROVE  \E z \in Sizes : charged[active].bytes < top.bytes + z
    OBVIOUS
  <2>2. PICK z \in Sizes : charged[active].bytes < granted[active].bytes + z
    BY <2>1
  <2>3. z \in Nat
    OBVIOUS
  <2> QED BY <1>2, <1>4, <1>9, <2>2, <2>3
<1> QED BY <1>1, <1>3, <1>6, <1>7, <1>8, <1>11, <1>12, ContinueInv

\* A span is charged; at a budget it ends the session.
LEMMA RecordSpanInv ==
    ASSUME SessionInv, NEW g \in Goroutines, RecordSpan(g)
    PROVE  SessionInv'
<1>0. STypeOK /\ Counters /\ BudgetNotOverrun
  BY DEF SessionInv
<1> DEFINE z == op[g].size
           d == heap[active].dir
           s == heap[active].spans + 1
           b == heap[active].bytes + z
           why == BudgetReason(d, s, b)
           f == FireOp(why, s, b)
<1>1. /\ active # 0 /\ active \in Gens /\ active \in 1..gens
      /\ op[g].pc = "record" /\ op[g].pc # "fire"
      /\ z \in Sizes /\ z \in Nat
  BY <1>0, Types, OpTypes DEF RecordSpan
<1>2. /\ heap[active].spans \in Nat /\ heap[active].bytes \in Nat
      /\ granted[active].spans \in Nat /\ granted[active].bytes \in Nat
      /\ charged[active].spans \in Nat /\ charged[active].bytes \in Nat
      /\ d \in Directives /\ d.maxSpans \in Nat /\ d.maxBytes \in Nat
  BY <1>0, <1>1, Types
<1>3. s \in Nat /\ b \in Nat
  BY <1>1, <1>2
<1>4. /\ heap' = [heap EXCEPT ![active] = [@ EXCEPT !.spans = s, !.bytes = b]]
      /\ charged' = [charged EXCEPT ![active] =
                        [spans |-> charged[active].spans + 1,
                         bytes |-> charged[active].bytes + z]]
      /\ active' = IF why = "none" THEN active ELSE 0
      /\ op' = [op EXCEPT ![g] = IF why = "none" THEN Idle ELSE f]
      /\ UNCHANGED <<gens, now, granted, report>>
  BY <1>0, <1>1 DEF RecordSpan, STypeOK
<1>5. /\ heap[active].spans = charged[active].spans
      /\ heap[active].bytes = charged[active].bytes
      /\ granted[active].spans # 0 => /\ d.maxSpans \in 1..granted[active].spans
                                      /\ charged[active].spans < granted[active].spans
      /\ granted[active].bytes # 0 => /\ d.maxBytes \in 1..granted[active].bytes
                                      /\ charged[active].bytes < granted[active].bytes
  BY <1>0, <1>1 DEF Counters
<1>6. /\ why \in {"none", "span_budget", "payload_budget"}
      /\ why = "none" => (d.maxSpans # 0 => s < d.maxSpans) /\ (d.maxBytes # 0 => b < d.maxBytes)
      /\ why = "span_budget" => d.maxSpans # 0 /\ s >= d.maxSpans
      /\ why = "payload_budget" => d.maxBytes # 0 /\ b >= d.maxBytes
  BY <1>2, <1>3 DEF BudgetReason
<1>7. /\ granted[active].spans # 0 => s <= granted[active].spans
      /\ granted[active].bytes # 0 => b < granted[active].bytes + z
  BY <1>1, <1>2, <1>5
<1>8. [heap[active] EXCEPT !.spans = s, !.bytes = b]
         \in [dir: Directives, spans: Nat, bytes: Nat]
  <2> HIDE DEF s, b
  <2>1. heap[active] \in [dir: Directives, spans: Nat, bytes: Nat]
    BY <1>0, <1>1 DEF STypeOK
  <2>2. \A x \in [dir: Directives, spans: Nat, bytes: Nat], p, q \in Nat :
           [x EXCEPT !.spans = p, !.bytes = q] \in [dir: Directives, spans: Nat, bytes: Nat]
    OBVIOUS
  <2> QED BY <1>3, <2>1, <2>2
<1>9. [spans |-> charged[active].spans + 1, bytes |-> charged[active].bytes + z] \in Counts
  BY <1>1, <1>2 DEF Counts
<1>10. /\ heap'[active].dir = d /\ heap'[active].spans = s /\ heap'[active].bytes = b
       /\ charged'[active].spans = s /\ charged'[active].bytes = b
       /\ \A k \in Gens : k # active => heap'[k] = heap[k] /\ charged'[k] = charged[k]
       /\ \A k \in Gens : heap'[k].dir = heap[k].dir
  BY <1>0, <1>1, <1>4, <1>5 DEF STypeOK
<1>11. \A h \in Goroutines : h # g => op'[h] = op[h]
  BY <1>0, <1>4 DEF STypeOK
<1>12. heap' \in [Gens -> [dir: Directives, spans: Nat, bytes: Nat]]
  BY <1>0, <1>1, <1>4, <1>8 DEF STypeOK
<1>13. charged' \in [Gens -> Counts]
  BY <1>0, <1>1, <1>4, <1>9 DEF STypeOK
<1>14. why = "none" \/ f \in Ops
  BY <1>1, <1>3, <1>6 DEF FireOp, FireOps, Ops, Reasons, Budgets
<1> HIDE DEF z, d, s, b, why, f
<1>15. STypeOK'
  <2>1. op' \in [Goroutines -> Ops]
    BY <1>0, <1>4, <1>14 DEF STypeOK, Ops
  <2>2. active' \in 0..gens'
    BY <1>0, <1>4, Types
  <2> QED BY <1>0, <1>4, <1>12, <1>13, <2>1, <2>2 DEF STypeOK
<1>16. CASE why = "none"
  <2>1. active' = active /\ op'[g].pc # "fire"
    BY <1>0, <1>4, <1>16 DEF STypeOK, Idle
  <2>2. Counters'
    BY <1>1, <1>2, <1>3, <1>4, <1>5, <1>6, <1>10, <1>16, <2>1 DEF Counters
  <2>3. granted'[active].bytes # 0 /\ charged'[active].spans # 0 =>
            \E y \in Sizes : charged'[active].bytes < granted'[active].bytes + y
    BY <1>1, <1>4, <1>7, <1>10
  <2>4. \A k \in Gens : k # active => granted'[k] = granted[k]
    BY <1>4
  <2> QED BY <1>1, <1>4, <1>10, <1>11, <1>15, <2>1, <2>2, <2>3, <2>4, ContinueInv
<1>17. CASE why # "none"
  <2>1. active' = 0 /\ op'[g] = FireOp(why, s, b)
    BY <1>0, <1>4, <1>17 DEF STypeOK, f
  <2>2. why \in Reasons /\ why # "ttl_expired"
    BY <1>6, <1>17 DEF Reasons, Budgets
  <2>3. /\ why = "span_budget" => /\ heap[active].dir.maxSpans # 0
                                  /\ s >= heap[active].dir.maxSpans
        /\ why = "payload_budget" => /\ heap[active].dir.maxBytes # 0
                                     /\ b >= heap[active].dir.maxBytes
    BY <1>6 DEF d
  <2>4. granted[active].bytes # 0 /\ s # 0 => \E y \in Sizes : b < granted[active].bytes + y
    BY <1>1, <1>7
  <2> QED BY <1>1, <1>3, <1>4, <1>7, <1>10, <1>11, <1>15, <2>1, <2>2, <2>3, <2>4, EndInv
<1> QED BY <1>16, <1>17

\* The session was gone when the lock was taken: nothing is charged.
LEMMA RecordNothingInv ==
    ASSUME SessionInv, NEW g \in Goroutines, RecordNothing(g)
    PROVE  SessionInv'
<1>0. STypeOK
  BY DEF SessionInv
<1>1. op[g].pc # "fire" /\ op'[g].pc # "fire"
      /\ \A h \in Goroutines : h # g => op'[h] = op[h]
  BY <1>0 DEF STypeOK, RecordNothing, Idle
<1>2. STypeOK'
  BY <1>0 DEF STypeOK, RecordNothing, Ops
<1> QED BY <1>1, <1>2, OpOnlyInv DEF RecordNothing

\* The goroutine that ended an incarnation fires its callback.
LEMMA FireInv ==
    ASSUME SessionInv, NEW g \in Goroutines, Fire(g)
    PROVE  SessionInv'
<1>0. STypeOK /\ Fresh /\ InFlight /\ Counters /\ EndedExactlyOnce
      /\ SnapshotIsFinal /\ BudgetNotOverrun /\ ReasonIsTrue
  BY DEF SessionInv
<1> DEFINE e == op[g].gen
           rep == [fired |-> report[e].fired + 1, reason |-> op[g].reason,
                   spans |-> op[g].spans, bytes |-> op[g].bytes]
<1>1. /\ op[g].pc = "fire" /\ e \in 1..gens /\ e \in Gens
      /\ op[g].reason \in Reasons /\ op[g].spans \in Nat /\ op[g].bytes \in Nat
      /\ Pending(g, e)
  <2>1. op[g].pc = "fire" /\ op[g] \in FireOps
    BY <1>0, OpTypes DEF Fire
  <2>2. e \in 1..gens
    BY <1>0, <2>1 DEF InFlight
  <2> QED BY <2>1, <2>2 DEF FireOps, Pending
<1>2. e # active /\ report[e].fired = 0
      /\ \A h \in Goroutines : Pending(h, e) => h = g
  <2>1. report[e].fired \in Nat
    BY <1>0, <1>1, Types
  <2> QED BY <1>0, <1>1, <2>1 DEF EndedExactlyOnce
<1>3. /\ report' = [report EXCEPT ![e] = rep]
      /\ op' = [op EXCEPT ![g] = Idle]
      /\ UNCHANGED <<active, gens, heap, now, charged, granted>>
  BY <1>0, <1>1 DEF Fire, STypeOK
<1>4. /\ op'[g] = Idle /\ op'[g].pc # "fire"
      /\ \A h \in Goroutines : h # g => op'[h] = op[h]
  BY <1>0, <1>3 DEF STypeOK, Idle
<1>5. /\ report'[e] = rep /\ rep.fired = 1
      /\ \A k \in Gens : k # e => report'[k] = report[k]
  BY <1>0, <1>1, <1>2, <1>3 DEF STypeOK
<1>6. STypeOK'
  <2>1. rep \in [fired: Nat, reason: Reasons \cup {"none"}, spans: Nat, bytes: Nat]
    BY <1>1, <1>2
  <2> QED BY <1>0, <1>1, <1>3, <2>1 DEF STypeOK, Ops
<1>7. \A k \in 1..gens : k \in Gens
  BY <1>0, Types
<1>8. Fresh' /\ Counters' /\ BudgetNotOverrun'
  <2>1. \A k \in Gens : k > gens => k # e
    BY <1>0, <1>1, Types
  <2> QED BY <1>0, <1>3, <1>5, <2>1 DEF Fresh, Counters, BudgetNotOverrun
<1>9. InFlight'
  BY <1>0, <1>3, <1>4 DEF InFlight, ReasonHolds
<1>10. \A h \in Goroutines : \A k : Pending(h, k)' <=> h # g /\ Pending(h, k)
  BY <1>4 DEF Pending
<1>11. EndedExactlyOnce'
  <2> SUFFICES ASSUME NEW k \in 1..gens
      PROVE  (/\ report[k].fired <= 1
              /\ k = active => report[k].fired = 0
              /\ k = active \/ report[k].fired = 1 => \A h \in Goroutines : ~Pending(h, k)
              /\ k # active /\ report[k].fired = 0 => \E h \in Goroutines : Pending(h, k)
              /\ \A h, j \in Goroutines : Pending(h, k) /\ Pending(j, k) => h = j)'
    BY <1>3 DEF EndedExactlyOnce
  <2> HIDE DEF e, rep
  <2>1. CASE k = e
    BY <1>2, <1>3, <1>5, <1>10, <2>1
  <2>2. CASE k # e
    <3>1. ~Pending(g, k)
      BY <1>1, <2>2 DEF Pending
    <3>2. report'[k] = report[k]
      BY <1>5, <1>7, <2>2
    <3> QED BY <1>0, <1>3, <1>10, <3>1, <3>2 DEF EndedExactlyOnce
  <2> QED BY <2>1, <2>2
<1>12. SnapshotIsFinal'
  <2>1. rep.spans = charged[e].spans /\ rep.bytes = charged[e].bytes
    BY <1>0, <1>1 DEF SnapshotIsFinal
  <2> HIDE DEF e, rep
  <2> QED BY <1>0, <1>3, <1>4, <1>5, <1>7, <2>1 DEF SnapshotIsFinal
<1>13. ReasonIsTrue'
  <2>1. ReasonHolds(e, rep.reason)
    BY <1>0, <1>1 DEF InFlight
  <2> HIDE DEF e, rep
  <2> QED BY <1>0, <1>3, <1>5, <1>7, <2>1 DEF ReasonIsTrue, ReasonHolds
<1> QED BY <1>6, <1>8, <1>9, <1>11, <1>12, <1>13 DEF SessionInv

\* A new incarnation takes over; the old one, if any, is on its way out with
\* the goroutine that replaced it.
LEMMA StartNewInv ==
    ASSUME SessionInv, NEW g \in Goroutines, StartNew(g)
    PROVE  SessionInv'
<1>0. STypeOK /\ Fresh /\ InFlight /\ Counters /\ EndedExactlyOnce
      /\ SnapshotIsFinal /\ BudgetNotOverrun /\ ReasonIsTrue
  BY DEF SessionInv
<1> DEFINE d == op[g].dir
           new == gens + 1
           struct == [dir |-> d, spans |-> 0, bytes |-> 0]
           top == [spans |-> d.maxSpans, bytes |-> d.maxBytes]
           f == FireOp("superseded", heap[active].spans, heap[active].bytes)
           o == IF active = 0 THEN Idle ELSE f
<1>1. /\ op[g].pc = "activate" /\ op[g].pc # "fire"
      /\ d \in Directives /\ d.maxSpans \in Nat /\ d.maxBytes \in Nat
  BY <1>0, OpTypes DEF StartNew
<1>2. /\ gens \in Nat /\ gens < MaxGen /\ new \in Gens /\ new \in Nat /\ new # 0
      /\ active \in Nat /\ active <= gens
  BY <1>0, Types DEF StartNew, Gens
<1>3. \A k \in 1..new : k \in Gens /\ (k = new \/ k \in 1..gens)
  BY <1>0, <1>2, Types
<1>4. active # 0 => /\ active \in 1..gens /\ active \in Gens /\ active # new
                    /\ heap[active].spans \in Nat /\ heap[active].bytes \in Nat
  BY <1>0, <1>2, Types
<1>5. /\ gens' = new /\ active' = new
      /\ heap' = [heap EXCEPT ![new] = struct]
      /\ granted' = [granted EXCEPT ![new] = top]
      /\ op' = [op EXCEPT ![g] = o]
      /\ UNCHANGED <<now, charged, report>>
  BY DEF StartNew
<1>6. o \in Ops
  BY <1>4 DEF FireOp, FireOps, Ops, Reasons
<1>7. /\ heap'[new] = struct /\ granted'[new] = top
      /\ charged'[new] = NoCounts /\ report'[new].fired = 0
      /\ \A k \in Gens : k # new =>
            /\ heap'[k] = heap[k] /\ charged'[k] = charged[k]
            /\ granted'[k] = granted[k] /\ report'[k] = report[k]
  BY <1>0, <1>2, <1>5 DEF STypeOK, Fresh
<1>8. op'[g] = o /\ \A h \in Goroutines : h # g => op'[h] = op[h]
  BY <1>0, <1>5 DEF STypeOK
<1>9. STypeOK'
  <2>1. top \in Counts /\ struct \in [dir: Directives, spans: Nat, bytes: Nat]
    BY <1>1 DEF Counts
  <2>2. gens' \in 0..MaxGen /\ active' \in 0..gens'
    BY <1>2, <1>5
  <2> HIDE DEF new, struct, top, o
  <2> QED BY <1>0, <1>2, <1>5, <1>6, <2>1, <2>2 DEF STypeOK
<1>10. /\ active = 0 => o.pc # "fire"
       /\ active # 0 => /\ o.pc = "fire" /\ o.gen = active /\ o.reason = "superseded"
                        /\ o.spans = heap[active].spans /\ o.bytes = heap[active].bytes
  BY DEF FireOp, Idle
<1>11. struct.spans = 0 /\ struct.bytes = 0 /\ struct.dir = d
       /\ top.spans = d.maxSpans /\ top.bytes = d.maxBytes
       /\ NoCounts.spans = 0 /\ NoCounts.bytes = 0
  BY DEF NoCounts
<1> HIDE DEF d, struct, top, o
<1>12. Fresh'
  <2>1. \A k \in Gens : k > new => k > gens /\ k # new
    BY <1>0, <1>2, Types
  <2> HIDE DEF new
  <2> QED BY <1>0, <1>5, <1>7, <2>1 DEF Fresh
<1>13. Counters'
  BY <1>1, <1>2, <1>5, <1>7, <1>11 DEF Counters
<1>14. \A h \in Goroutines : h # g /\ op[h].pc = "fire" =>
          /\ op[h].gen \in 1..gens /\ op[h].gen \in Gens
          /\ op[h].gen # new /\ op[h].gen # active
  <2>1. \A h \in Goroutines : op[h].pc = "fire" => op[h].gen \in 1..gens
    BY <1>0 DEF InFlight
  <2>2. \A h \in Goroutines : active # 0 => ~Pending(h, active)
    BY <1>0, <1>4 DEF EndedExactlyOnce
  <2> QED BY <1>2, <2>1, <2>2, <1>0, Types DEF Pending
<1>15. 1..gens \subseteq 1..new
  BY <1>2
<1>16. \A k \in Gens : \A q : k # new /\ ReasonHolds(k, q) => ReasonHolds(k, q)'
  BY <1>5, <1>7 DEF ReasonHolds
<1>17. InFlight'
  <2> SUFFICES ASSUME NEW h \in Goroutines, op'[h].pc = "fire"
               PROVE  (op[h].gen \in 1..gens /\ ReasonHolds(op[h].gen, op[h].reason))'
    BY DEF InFlight
  <2> HIDE DEF new
  <2>1. CASE h = g
    BY <1>4, <1>5, <1>8, <1>10, <1>15, <2>1 DEF ReasonHolds
  <2>2. CASE h # g
    BY <1>0, <1>5, <1>8, <1>14, <1>15, <1>16, <2>2 DEF InFlight
  <2> QED BY <2>1, <2>2
<1>18. \A h \in Goroutines, k \in 1..new :
          Pending(h, k)' <=> (h # g /\ Pending(h, k)) \/ (h = g /\ active # 0 /\ k = active)
  BY <1>8, <1>10 DEF Pending
<1>19. EndedExactlyOnce'
  <2> SUFFICES ASSUME NEW k \in 1..new
      PROVE  (/\ report[k].fired <= 1
              /\ k = active => report[k].fired = 0
              /\ k = active \/ report[k].fired = 1 => \A h \in Goroutines : ~Pending(h, k)
              /\ k # active /\ report[k].fired = 0 => \E h \in Goroutines : Pending(h, k)
              /\ \A h, j \in Goroutines : Pending(h, k) /\ Pending(j, k) => h = j)'
    BY <1>5 DEF EndedExactlyOnce
  <2>0. ~Pending(g, k)
    BY <1>1 DEF Pending
  <2>1. CASE k = new
    <3>1. \A h \in Goroutines : ~Pending(h, k)'
      BY <1>4, <1>14, <1>18, <2>1 DEF Pending
    <3> QED BY <1>5, <1>7, <2>1, <3>1
  <2>2. CASE k # new /\ k = active
    <3>1. report'[k].fired = 0 /\ \A h \in Goroutines : ~Pending(h, k)
      BY <1>0, <1>3, <1>7, <2>2 DEF EndedExactlyOnce
    <3> QED BY <1>3, <1>4, <1>5, <1>18, <2>2, <3>1
  <2>3. CASE k # new /\ k # active
    <3>1. k \in 1..gens /\ report'[k] = report[k]
      BY <1>3, <1>7, <2>3
    <3>2. \A h \in Goroutines : Pending(h, k)' <=> Pending(h, k)
      BY <1>18, <2>0, <2>3
    <3> QED BY <1>0, <1>5, <2>3, <3>1, <3>2 DEF EndedExactlyOnce
  <2> QED BY <2>1, <2>2, <2>3
<1>20. SnapshotIsFinal'
  <2>1. \A k \in 1..new : report'[k].fired # 0 =>
           /\ k \in 1..gens /\ report'[k] = report[k] /\ charged'[k] = charged[k]
    BY <1>3, <1>7
  <2>2. active # 0 => /\ heap[active].spans = charged[active].spans
                      /\ heap[active].bytes = charged[active].bytes
    BY <1>0 DEF Counters
  <2>3. \A h \in Goroutines : op'[h].pc = "fire" =>
           /\ op'[h].spans = charged[op'[h].gen].spans
           /\ op'[h].bytes = charged[op'[h].gen].bytes
    BY <1>0, <1>8, <1>10, <2>2 DEF SnapshotIsFinal
  <2> HIDE DEF new
  <2> QED BY <1>0, <1>5, <2>1, <2>3 DEF SnapshotIsFinal
<1>21. BudgetNotOverrun'
  <2> SUFFICES ASSUME NEW k \in 1..new
      PROVE  (/\ granted[k].spans # 0 => charged[k].spans <= granted[k].spans
              /\ granted[k].bytes # 0 /\ charged[k].spans # 0 =>
                    \E b \in Sizes : charged[k].bytes < granted[k].bytes + b)'
    BY <1>5 DEF BudgetNotOverrun
  <2>1. CASE k = new
    BY <1>1, <1>7, <1>11, <2>1
  <2>2. CASE k # new
    BY <1>0, <1>3, <1>7, <2>2 DEF BudgetNotOverrun
  <2> QED BY <2>1, <2>2
<1>22. ReasonIsTrue'
  <2>1. \A k \in 1..new : report'[k].fired # 0 =>
           k \in 1..gens /\ k # new /\ k \in Gens /\ report'[k] = report[k]
    BY <1>3, <1>7
  <2> HIDE DEF new
  <2> QED BY <1>0, <1>5, <1>16, <2>1 DEF ReasonIsTrue, ReasonHolds
<1> QED BY <1>9, <1>12, <1>13, <1>17, <1>19, <1>20, <1>21, <1>22 DEF SessionInv

\* Every step of the session preserves the invariant.
LEMMA StepInv == SessionInv /\ [SNext]_svars => SessionInv'
<1> SUFFICES ASSUME SessionInv, [SNext]_svars PROVE SessionInv'
  OBVIOUS
<1>1. CASE UNCHANGED svars
  BY SMTT(30), <1>1 DEF svars, SessionInv, STypeOK, Fresh, InFlight, Counters,
              EndedExactlyOnce, Pending, SnapshotIsFinal, BudgetNotOverrun,
              ReasonIsTrue, ReasonHolds
<1>2. CASE Tick
  BY <1>2, TickInv
<1>3. ASSUME NEW d \in Directives, CallActivate(Reader, d) PROVE SessionInv'
  <2>1. ActivateOp(d) \in Ops /\ ActivateOp(d).pc # "fire" /\ Reader \in Goroutines
    BY DEF ActivateOp, Ops, Goroutines
  <2> QED BY <1>3, <2>1, BeginInv DEF CallActivate
<1>4. ASSUME NEW g \in Goroutines, NEW r \in {"cancelled", "shutdown"}, CallDeactivate(g, r)
      PROVE  SessionInv'
  <2>1. DeactivateOp(r) \in Ops /\ DeactivateOp(r).pc # "fire"
    BY DEF DeactivateOp, Ops
  <2> QED BY <1>4, <2>1, BeginInv DEF CallDeactivate
<1>5. ASSUME NEW g \in Goroutines, NEW b \in Sizes, CallRecord(g, b) PROVE SessionInv'
  <2>1. RecordOp(b) \in Ops /\ RecordOp(b).pc # "fire"
    BY DEF RecordOp, Ops
  <2> QED BY <1>5, <2>1, BeginInv DEF CallRecord
<1>6. ASSUME NEW g \in Goroutines, CallCheckTTL(g) PROVE SessionInv'
  <2>1. TTLOp \in Ops /\ TTLOp.pc # "fire"
    BY DEF TTLOp, Ops
  <2> QED BY <1>6, <2>1, BeginInv DEF CallCheckTTL
<1>7. ASSUME NEW g \in Goroutines, Finish(g) PROVE SessionInv'
  BY <1>7, UpdateInPlaceInv, StartNewInv, DeactivateInv, RecordSpanInv,
     RecordNothingInv, CheckTTLInv, FireInv DEF Finish
<1> QED BY <1>1, <1>2, <1>3, <1>4, <1>5, <1>6, <1>7 DEF SNext, Goroutines

\* The session's accounting holds for ever.
THEOREM SessionInvariant == SSpec => []SessionInv
BY InitInv, StepInv, PTL DEF SSpec

\* Every incarnation is reported exactly once, however many goroutines race to
\* end it: funcspanSessionDeactivate's "exactly once", for all five ways out.
THEOREM ExactlyOnce == SSpec => []EndedExactlyOnce
BY SessionInvariant, PTL DEF SessionInv

\* The snapshot handed to the callback is final: nothing is charged to an
\* incarnation once its counters have been read for the report.
THEOREM FinalSnapshot == SSpec => []SnapshotIsFinal
BY SessionInvariant, PTL DEF SessionInv

\* Budgets bound what is charged, across updates that move them.
THEOREM BudgetsHold == SSpec => []BudgetNotOverrun
BY SessionInvariant, PTL DEF SessionInv

\* A session is never ended for a reason that its last directive denies.
THEOREM ReasonsHold == SSpec => []ReasonIsTrue
BY SessionInvariant, PTL DEF SessionInv

\* An ended incarnation stays ended and nothing is charged to it.
THEOREM EndedForGood == SSpec => NoResurrection
<1> DEFINE Step == \A k \in 1..gens : k # active =>
                      /\ active' # k
                      /\ charged'[k] = charged[k]
<1>1. SessionInv /\ [SNext]_svars => [Step]_svars
  <2> SUFFICES ASSUME STypeOK, SNext, NEW k \in 1..gens, k # active
               PROVE  active' # k /\ charged'[k] = charged[k]
    BY DEF SessionInv
  <2>1. k # 0 /\ k # gens + 1 /\ k \in Gens /\ gens \in Nat
    BY Types
  <2>2. ASSUME NEW g \in Goroutines, RecordSpan(g) PROVE active' # k /\ charged'[k] = charged[k]
    BY <2>1, <2>2 DEF RecordSpan, STypeOK
  <2>3. ASSUME NEW g \in Goroutines, Finish(g), ~RecordSpan(g)
        PROVE  active' # k /\ charged'[k] = charged[k]
    BY <2>1, <2>3
    DEF Finish, UpdateInPlace, StartNew, Deactivate, RecordNothing, CheckTTL, Fire
  <2>4. CASE ~\E g \in Goroutines : Finish(g)
    BY <2>4
    DEF SNext, Tick, Begin, CallActivate, CallDeactivate, CallRecord, CallCheckTTL
  <2> QED BY <2>2, <2>3, <2>4
<1> QED BY <1>1, SessionInvariant, PTL DEF SSpec, NoResurrection

-----------------------------------------------------------------------------
\* The uplink.

\* Every call that the uplink, the pump, a span or stopUplink makes into the
\* session is one that the session's specification has.
LEMMA StepIsSessionStep == [Next]_vars => [SNext]_svars
<1> SUFFICES ASSUME [Next]_vars PROVE SNext \/ UNCHANGED svars
  OBVIOUS
<1> USE DEF svars
<1>1. CASE UNCHANGED vars
  BY <1>1 DEF vars
<1>2. CASE StartUplink \/ LoopTop \/ DialFails \/ DialSucceeds \/ ReadFails \/ Closed
  BY <1>2 DEF StartUplink, LoopTop, DialFails, DialSucceeds, ReadFails, Closed
<1>3. CASE AfterRun \/ BackoffOver \/ BackoffQuit \/ QuitWatcher
  BY <1>3 DEF AfterRun, BackoffOver, BackoffQuit, QuitWatcher
<1>4. CASE SetRules \/ SendAck \/ CancelDone \/ ReceiveCancel
  BY <1>4 DEF SetRules, SendAck, CancelDone, ReceiveCancel
<1>5. CASE CancelSession
  BY <1>5 DEF CancelSession, SNext
<1>6. ASSUME NEW d \in Directives, NEW rs, ReceiveRules(d, rs)
      PROVE  SNext \/ UNCHANGED svars
  BY <1>6 DEF ReceiveRules, SNext
<1>7. ASSUME NEW p \in Pumps, PumpTick(p) PROVE SNext
  BY <1>7 DEF PumpTick, SNext
<1>8. ASSUME NEW w \in Workers, NEW b \in Sizes, SpanEnds(w, b) PROVE SNext
  BY <1>8 DEF SpanEnds, SNext
<1>9. ASSUME NEW g \in Goroutines, SessionStep(g) PROVE SNext
  BY <1>9 DEF SessionStep, SNext
<1>10. ASSUME NEW s \in Stoppers, Stop(s) PROVE SNext \/ UNCHANGED svars
  <2>1. CASE StopBegins(s)
    BY <2>1 DEF StopBegins, SNext
  <2>2. CASE StopDeactivated(s) \/ StopClosesQuit(s) \/ StopWaited(s) \/ StopTimeout(s)
    BY <2>2 DEF StopDeactivated, StopClosesQuit, StopWaited, StopTimeout
  <2> QED BY <1>10, <2>1, <2>2 DEF Stop
<1>11. CASE ClockTick
  BY <1>11 DEF ClockTick, SNext
<1> QED
  BY <1>1, <1>2, <1>3, <1>4, <1>5, <1>6, <1>7, <1>8, <1>9, <1>10, <1>11 DEF Next, Uplink

\* The uplink implements the session: seen through the session's variables the
\* composition of read loop, pump, spans and stopUplink is SSpec.
THEOREM UplinkImplementsSession == Spec => SSpec
<1>1. Init => SInit
  BY DEF Init
<1> QED BY <1>1, StepIsSessionStep, PTL DEF Spec, SSpec

\* Under the uplink as it drives it, a session is reported exactly once, with a
\* final count and for a true reason, and its budgets hold.
THEOREM SessionsUnderUplink ==
    Spec => [](EndedExactlyOnce /\ SnapshotIsFinal /\ ReasonIsTrue /\ BudgetNotOverrun)
<1>1. SessionInv => EndedExactlyOnce /\ SnapshotIsFinal /\ ReasonIsTrue /\ BudgetNotOverrun
  BY DEF SessionInv
<1> QED BY <1>1, UplinkImplementsSession, SessionInvariant, PTL

-----------------------------------------------------------------------------
(* The uplink's own invariants.                                            *)

\* UplinkInv and the two properties it was made for.
Inductive == UplinkInv /\ RulesMatchSession /\ ShutdownEndsSession

\* The initial state satisfies the invariant.
LEMMA UplinkInit == Init => Inductive
<1> SUFFICES ASSUME Init PROVE Inductive
  OBVIOUS
<1>1. SInit /\ STypeOK
  BY InitInv DEF Init, SessionInv
<1>2. UTypeOK
  BY <1>1 DEF Init, UTypeOK, UplinkPC, StopPC, RuleSets
<1>3. ConnectionIsCurrent /\ CompiledForDirective /\ RulesMatchSession
  BY <1>1 DEF Init, SInit, ConnectionIsCurrent, CompiledForDirective, RulesMatchSession
<1>4. OnlyReaderActivates
  BY <1>1 DEF SInit, OnlyReaderActivates, Idle
<1>5. MarkedIsBeingEnded /\ ShutdownEndsSession
  BY <1>1 DEF Init, SInit, MarkedIsBeingEnded, ShutdownEndsSession
<1> QED BY <1>2, <1>3, <1>4, <1>5 DEF Inductive, UplinkInv

\* What the rest of a call into the session does to the pointer, to the struct it
\* points to and to the operations.
LEMMA SessionStepParts ==
    ASSUME STypeOK, NEW g \in Goroutines, Finish(g)
    PROVE  /\ gens' >= gens
           /\ active' \in {active, 0, gens + 1}
           /\ active' = gens + 1 => active' # active /\ op[g].pc = "activate"
           /\ \A h \in Goroutines : h # g => op'[h] = op[h]
           /\ op'[g].pc # "activate"
           /\ op[g].pc = "deactivate" => active' = 0
           /\ op[g].pc = "activate" => active' # 0 /\ heap'[active'].dir = op[g].dir
           /\ op[g].pc # "activate" /\ active' # 0 =>
                 active' = active /\ heap'[active'].dir = heap[active].dir
<1> USE DEF FireOp, Idle
<1>0. /\ gens \in Nat /\ active \in Nat /\ active <= gens /\ MaxGen \in Nat
      /\ active # 0 => active \in Gens
      /\ gens < MaxGen => gens + 1 \in Gens
      /\ op \in [Goroutines -> Ops]
      /\ heap \in [Gens -> [dir: Directives, spans: Nat, bytes: Nat]]
  <2>1. gens \in Nat /\ gens <= MaxGen /\ active \in Nat /\ active <= gens /\ MaxGen \in Nat
        /\ (active # 0 => active \in Gens)
    BY Types, BoundsAssumption
  <2>2. gens < MaxGen => gens + 1 \in Gens
    BY <2>1 DEF Gens
  <2>3. /\ op \in [Goroutines -> Ops]
        /\ heap \in [Gens -> [dir: Directives, spans: Nat, bytes: Nat]]
    BY DEF STypeOK
  <2> QED BY <2>1, <2>2, <2>3
<1>1. CASE UpdateInPlace(g)
  <2>1. active \in Gens /\ active' = active
    BY <1>0, <1>1 DEF UpdateInPlace
  <2>2. heap'[active].dir = op[g].dir
    BY <1>0, <1>1, <2>1 DEF UpdateInPlace
  <2>3. op' = [op EXCEPT ![g] = Idle] /\ op[g].pc = "activate" /\ gens' = gens
    BY <1>1 DEF UpdateInPlace
  <2> QED BY <1>0, <1>1, <2>1, <2>2, <2>3 DEF UpdateInPlace
<1>2. CASE StartNew(g)
  BY <1>0, <1>2 DEF StartNew
<1>3. CASE Deactivate(g)
  BY <1>0, <1>3 DEF Deactivate
<1>4. CASE RecordSpan(g)
  BY <1>0, <1>4 DEF RecordSpan
<1>5. CASE RecordNothing(g)
  BY <1>0, <1>5 DEF RecordNothing
<1>6. CASE CheckTTL(g)
  BY <1>0, <1>6 DEF CheckTTL
<1>7. CASE Fire(g)
  BY <1>0, <1>7 DEF Fire
<1> QED BY <1>1, <1>2, <1>3, <1>4, <1>5, <1>6, <1>7 DEF Finish

\* A step that at most begins calls into the session, none of them an
\* activation, and does not move handleRules keeps the rules in order.
LEMMA RulesStay ==
    ASSUME UTypeOK, OnlyReaderActivates, CompiledForDirective, RulesMatchSession,
           UNCHANGED <<active, gens, heap, compiled>>, rules' \in {rules, NoRules},
           \A g \in Goroutines :
              op'[g] = op[g] \/ (op[g] = Idle /\ op'[g].pc # "activate"),
           upc' = upc \/ (upc # "activate" /\ upc' # "activate" /\ upc' # "off")
    PROVE  OnlyReaderActivates' /\ CompiledForDirective' /\ RulesMatchSession'
<1>1. \A g \in Goroutines : op'[g].pc = "activate" => op'[g] = op[g]
  OBVIOUS
<1>2. \A g \in Goroutines : op[g].pc = "activate" => op'[g] = op[g]
  BY DEF Idle
<1>3. OnlyReaderActivates'
  BY <1>1 DEF OnlyReaderActivates
<1>4. Reader \in Goroutines
  BY DEF Goroutines
<1>5. CompiledForDirective'
  BY <1>1, <1>2, <1>4 DEF CompiledForDirective
<1>6. RulesMatchSession'
  BY DEF RulesMatchSession
<1> QED BY <1>3, <1>5, <1>6

\* A step that changes neither the pointer nor a mark, and moves a stopUplink call
\* on at most when it has ended its session, keeps the marks in order.
LEMMA MarksStay ==
    ASSUME UTypeOK, MarkedIsBeingEnded, ShutdownEndsSession,
           UNCHANGED <<active, gens, mark>>,
           \A g \in Goroutines : op'[g] = op[g] \/ op[g] = Idle,
           \A s \in Stoppers :
              \/ stpc'[s] = stpc[s]
              \/ stpc[s] \in {"closeQuit", "wait"} /\ stpc'[s] # "deactivate"
              \/ stpc[s] = "deactivate" /\ op[s] = Idle /\ stpc'[s] = "closeQuit"
    PROVE  MarkedIsBeingEnded' /\ ShutdownEndsSession'
<1>1. \A s \in Stoppers : op[s].pc = "deactivate" => op'[s] = op[s] /\ op[s] # Idle
  BY DEF Goroutines, Idle
<1>2. MarkedIsBeingEnded'
  BY <1>1 DEF MarkedIsBeingEnded
<1>3. ShutdownEndsSession'
  BY <1>1 DEF MarkedIsBeingEnded, ShutdownEndsSession
<1> QED BY <1>2, <1>3

\* The types of the uplink's variables.
LEMMA UplinkTypes ==
    ASSUME UTypeOK, STypeOK', Next
    PROVE  UTypeOK'
<1> USE DEF UTypeOK, UplinkPC, RuleSets, StopPC, Goto, StopGoto, uvars
<1>1. CASE StartUplink \/ Uplink \/ QuitWatcher \/ ReceiveCancel
  <2>1. CASE StartUplink \/ LoopTop \/ DialFails \/ DialSucceeds \/ ReadFails \/ Closed
    BY <2>1 DEF StartUplink, LoopTop, DialFails, DialSucceeds, ReadFails, Closed
  <2>2. CASE AfterRun \/ BackoffOver \/ BackoffQuit \/ QuitWatcher \/ ReceiveCancel
    BY <2>2 DEF AfterRun, BackoffOver, BackoffQuit, QuitWatcher, ReceiveCancel
  <2>3. CASE SetRules \/ SendAck \/ CancelSession \/ CancelDone
    BY <2>3 DEF SetRules, SendAck, CancelSession, CancelDone
  <2> QED BY <1>1, <2>1, <2>2, <2>3 DEF Uplink
<1>2. ASSUME NEW d \in Directives, NEW rs \in {d.id, NoRules}, ReceiveRules(d, rs)
      PROVE  UTypeOK'
  <2>1. d.id \in SessionIDs
    BY DirectivesAssumption
  <2> QED BY <1>2, <2>1 DEF ReceiveRules
<1>3. ASSUME NEW p \in Pumps, PumpTick(p) PROVE UTypeOK'
  BY <1>3 DEF PumpTick
<1>4. ASSUME NEW w \in Workers, NEW b \in Sizes, SpanEnds(w, b) PROVE UTypeOK'
  BY <1>4 DEF SpanEnds
<1>5. ASSUME NEW g \in Goroutines, SessionStep(g) PROVE UTypeOK'
  BY <1>5 DEF SessionStep
<1>6. ASSUME NEW s \in Stoppers, Stop(s) PROVE UTypeOK'
  <2>1. active \in Nat
    BY Types
  <2>2. CASE StopBegins(s)
    BY <2>1, <2>2 DEF StopBegins
  <2>3. CASE StopDeactivated(s) \/ StopClosesQuit(s) \/ StopWaited(s) \/ StopTimeout(s)
    BY <2>3 DEF StopDeactivated, StopClosesQuit, StopWaited, StopTimeout
  <2> QED BY <1>6, <2>2, <2>3 DEF Stop
<1>7. CASE ClockTick
  BY <1>7 DEF ClockTick
<1> QED BY <1>1, <1>2, <1>3, <1>4, <1>5, <1>6, <1>7 DEF Next

\* The connection is published while it is read, and its context no longer.
LEMMA ConnectionStep ==
    ASSUME UTypeOK, ConnectionIsCurrent, Next
    PROVE  ConnectionIsCurrent'
<1> USE DEF ConnectionIsCurrent, Goto, StopGoto, uvars
<1>1. CASE StartUplink \/ LoopTop \/ DialFails \/ DialSucceeds \/ ReadFails \/ Closed
  BY <1>1 DEF StartUplink, LoopTop, DialFails, DialSucceeds, ReadFails, Closed
<1>2. CASE AfterRun \/ BackoffOver \/ BackoffQuit \/ QuitWatcher \/ ReceiveCancel
  BY <1>2 DEF AfterRun, BackoffOver, BackoffQuit, QuitWatcher, ReceiveCancel
<1>3. CASE SetRules \/ SendAck \/ CancelSession \/ CancelDone
  BY <1>3 DEF SetRules, SendAck, CancelSession, CancelDone
<1>4. ASSUME NEW d \in Directives, NEW rs, ReceiveRules(d, rs)
      PROVE  ConnectionIsCurrent'
  BY <1>4 DEF ReceiveRules
<1>5. CASE UNCHANGED <<upc, conn, ctx>>
  BY <1>5
<1>6. ASSUME NEW s \in Stoppers, Stop(s) PROVE UNCHANGED <<upc, conn, ctx>>
  BY <1>6 DEF Stop, StopBegins, StopDeactivated, StopClosesQuit, StopWaited, StopTimeout
<1>7. ASSUME \/ \E p \in Pumps : PumpTick(p)
             \/ \E w \in Workers, b \in Sizes : SpanEnds(w, b)
             \/ \E g \in Goroutines : SessionStep(g)
             \/ ClockTick
      PROVE  UNCHANGED <<upc, conn, ctx>>
  BY <1>7 DEF PumpTick, SpanEnds, SessionStep, ClockTick
<1> QED BY <1>1, <1>2, <1>3, <1>4, <1>5, <1>6, <1>7 DEF Next, Uplink

\* The rest of a call into the session, whoever makes it: an activation arms
\* nothing but gives the compiled rules their session, any other call ends the
\* active session or leaves it.
LEMMA SessionStepInv ==
    ASSUME Inductive, UTypeOK', ConnectionIsCurrent', NEW g \in Goroutines, SessionStep(g)
    PROVE  Inductive'
<1>0. UTypeOK /\ OnlyReaderActivates /\ CompiledForDirective /\ MarkedIsBeingEnded
      /\ RulesMatchSession /\ ShutdownEndsSession
  BY DEF Inductive, UplinkInv
<1>1. Finish(g) /\ UNCHANGED <<upc, conn, ctx, rules, compiled, quit, stpc, mark>>
  BY DEF SessionStep, uvars
<1>2. /\ gens' >= gens /\ gens \in Nat /\ gens' \in Nat
      /\ active' \in {active, 0, gens + 1}
      /\ \A h \in Goroutines : h # g => op'[h] = op[h]
      /\ op'[g].pc # "activate"
      /\ op[g].pc = "deactivate" => active' = 0
      /\ op[g].pc = "activate" => active' # 0 /\ heap'[active'].dir = op[g].dir
      /\ op[g].pc # "activate" /\ active' # 0 =>
            active' = active /\ heap'[active'].dir = heap[active].dir
  <2>1. STypeOK /\ gens \in Nat
    BY <1>0, Types DEF UTypeOK
  <2>2. gens' \in 0..MaxGen
    BY DEF UTypeOK, STypeOK
  <2>3. gens' \in Nat
    BY <2>2, BoundsAssumption
  <2> QED BY <1>1, <2>1, <2>3, SessionStepParts
<1>3. Reader \in Goroutines /\ Stoppers \subseteq Goroutines
  BY DEF Goroutines
<1>4. op[g].pc = "activate" => g = Reader /\ upc = "activate"
  BY <1>0 DEF OnlyReaderActivates
<1>5. OnlyReaderActivates'
  BY <1>0, <1>1, <1>2, <1>4 DEF OnlyReaderActivates
<1>6. CompiledForDirective'
  <2>1. CASE g = Reader
    BY <1>0, <1>1, <1>2, <2>1 DEF CompiledForDirective
  <2>2. CASE g # Reader
    BY <1>0, <1>1, <1>2, <1>3, <1>4, <2>2 DEF CompiledForDirective
  <2> QED BY <2>1, <2>2
<1>7. RulesMatchSession'
  BY <1>0, <1>1, <1>2, <1>4 DEF RulesMatchSession
<1>8. \A s \in Stoppers : mark[s] \in Nat /\ mark[s] <= gens
  BY <1>0 DEF UTypeOK, MarkedIsBeingEnded
<1>9. \A s \in Stoppers : mark[s] # 0 /\ active # mark[s] => active' # mark[s]
  BY <1>2, <1>8
<1>10. MarkedIsBeingEnded'
  <2> SUFFICES ASSUME NEW s \in Stoppers
               PROVE  /\ mark[s] <= gens'
                      /\ stpc[s] = "deactivate" =>
                            mark[s] # 0 /\ (op'[s].pc = "deactivate" \/ active' # mark[s])
    BY <1>1 DEF MarkedIsBeingEnded
  <2>1. mark[s] <= gens'
    BY <1>2, <1>8
  <2>2. ASSUME stpc[s] = "deactivate", op[s].pc = "deactivate", mark[s] # 0
        PROVE  op'[s].pc = "deactivate" \/ active' # mark[s]
    BY <1>2, <1>3, <2>2
  <2> QED BY <1>0, <1>9, <2>1, <2>2 DEF MarkedIsBeingEnded
<1>11. ShutdownEndsSession'
  BY <1>0, <1>1, <1>9 DEF ShutdownEndsSession
<1> QED BY <1>5, <1>6, <1>7, <1>10, <1>11 DEF Inductive, UplinkInv

\* handleRules: a directive is compiled, activated and armed.
LEMMA HandleRulesInv ==
    ASSUME Inductive, UTypeOK', ConnectionIsCurrent',
           SetRules \/ \E d \in Directives : \E rs \in {d.id, NoRules} : ReceiveRules(d, rs)
    PROVE  Inductive'
<1>0. UTypeOK /\ OnlyReaderActivates /\ CompiledForDirective /\ MarkedIsBeingEnded
      /\ RulesMatchSession /\ ShutdownEndsSession
  BY DEF Inductive, UplinkInv
<1>1. Reader \in Goroutines /\ op \in [Goroutines -> Ops]
  BY <1>0 DEF Goroutines, UTypeOK, STypeOK
<1>2. CASE SetRules
  <2>1. /\ UNCHANGED <<active, gens, heap, op, mark, stpc>> /\ rules' = compiled
        /\ upc = "activate" /\ upc' = "ack" /\ op[Reader].pc # "activate"
    BY <1>2 DEF SetRules, Goto, svars, Idle
  <2>2. OnlyReaderActivates'
    BY <1>0, <2>1 DEF OnlyReaderActivates
  <2>3. CompiledForDirective' /\ RulesMatchSession'
    BY <1>0, <2>1 DEF CompiledForDirective, RulesMatchSession
  <2>4. MarkedIsBeingEnded' /\ ShutdownEndsSession'
    BY <1>0, <2>1, MarksStay
  <2> QED BY <2>2, <2>3, <2>4 DEF Inductive, UplinkInv
<1>3. ASSUME NEW d \in Directives, NEW rs \in {d.id, NoRules}, ReceiveRules(d, rs)
      PROVE  Inductive'
  <2>1. UNCHANGED <<active, gens, heap, rules, stpc, mark>> /\ upc = "read"
    BY <1>3 DEF ReceiveRules, svars, CallActivate, Begin
  <2>2. CASE d.expires > now
    <3>1. /\ op[Reader] = Idle /\ op' = [op EXCEPT ![Reader] = ActivateOp(d)]
          /\ upc' = "activate" /\ compiled' = rs
      BY <1>3, <2>2 DEF ReceiveRules, CallActivate, Begin
    <3>2. op'[Reader].pc = "activate" /\ op'[Reader].dir = d
          /\ \A h \in Goroutines : h # Reader => op'[h] = op[h]
      BY <1>1, <3>1 DEF ActivateOp
    <3>3. OnlyReaderActivates'
      BY <1>0, <2>1, <3>1, <3>2 DEF OnlyReaderActivates
    <3>4. CompiledForDirective' /\ RulesMatchSession'
      BY <3>1, <3>2 DEF CompiledForDirective, RulesMatchSession
    <3>5. MarkedIsBeingEnded' /\ ShutdownEndsSession'
      BY <1>0, <2>1, <3>1, <3>2, MarksStay
    <3> QED BY <3>3, <3>4, <3>5 DEF Inductive, UplinkInv
  <2>3. CASE ~(d.expires > now)
    <3>1. UNCHANGED <<svars, upc, compiled>>
      BY <1>3, <2>3 DEF ReceiveRules
    <3>2. OnlyReaderActivates' /\ CompiledForDirective' /\ RulesMatchSession'
      BY <1>0, <2>1, <3>1, RulesStay DEF svars
    <3>3. MarkedIsBeingEnded' /\ ShutdownEndsSession'
      BY <1>0, <2>1, <3>1, MarksStay DEF svars
    <3> QED BY <3>2, <3>3 DEF Inductive, UplinkInv
  <2> QED BY <2>2, <2>3
<1> QED BY <1>2, <1>3

\* stopUplink, from the test for a session to its return.
LEMMA StopInv ==
    ASSUME Inductive, UTypeOK', ConnectionIsCurrent', NEW s \in Stoppers, Stop(s)
    PROVE  Inductive'
<1>0. UTypeOK /\ OnlyReaderActivates /\ CompiledForDirective /\ MarkedIsBeingEnded
      /\ RulesMatchSession /\ ShutdownEndsSession
  BY DEF Inductive, UplinkInv
<1>1. /\ s \in Goroutines /\ op \in [Goroutines -> Ops]
      /\ stpc \in [Stoppers -> StopPC] /\ mark \in [Stoppers -> Nat]
      /\ active \in Nat /\ gens \in Nat /\ active <= gens
  BY <1>0, Types DEF Goroutines, UTypeOK, STypeOK
<1>2. CASE StopBegins(s)
  <2>1. /\ UNCHANGED <<active, gens, heap, upc, rules, compiled>>
        /\ stpc[s] = "idle"
        /\ mark' = [mark EXCEPT ![s] = active]
        /\ stpc' = [stpc EXCEPT ![s] =
                       IF upc = "off" THEN "returned"
                       ELSE IF active # 0 THEN "deactivate" ELSE "closeQuit"]
        /\ upc # "off" /\ active # 0 =>
              op[s] = Idle /\ op' = [op EXCEPT ![s] = DeactivateOp("shutdown")]
        /\ ~(upc # "off" /\ active # 0) => op' = op
    BY <1>2 DEF StopBegins, CallDeactivate, Begin, svars
  <2>2. upc = "off" => active = 0
    BY <1>0 DEF OnlyReaderActivates
  <2>3. \A h \in Goroutines : op'[h] = op[h] \/ (op[h] = Idle /\ op'[h].pc # "activate")
    BY <1>1, <2>1 DEF DeactivateOp
  <2>4. OnlyReaderActivates' /\ CompiledForDirective' /\ RulesMatchSession'
    BY <1>0, <2>1, <2>3, RulesStay
  <2>5. \A t \in Stoppers : t # s =>
           /\ mark'[t] = mark[t] /\ stpc'[t] = stpc[t]
           /\ op[t].pc = "deactivate" => op'[t] = op[t]
    BY <1>1, <2>1 DEF Goroutines, Idle
  <2>6. mark'[s] = active /\ (stpc'[s] # "deactivate" => active = 0)
        /\ (stpc'[s] = "deactivate" => active # 0 /\ op'[s].pc = "deactivate")
    BY <1>1, <2>1, <2>2 DEF DeactivateOp
  <2>7. MarkedIsBeingEnded'
    BY <1>0, <1>1, <2>1, <2>5, <2>6 DEF MarkedIsBeingEnded
  <2>8. ShutdownEndsSession'
    BY <1>0, <1>1, <2>1, <2>5, <2>6 DEF ShutdownEndsSession
  <2> QED BY <2>4, <2>7, <2>8 DEF Inductive, UplinkInv
<1>3. CASE StopDeactivated(s) \/ StopClosesQuit(s) \/ StopWaited(s) \/ StopTimeout(s)
  <2>1. /\ UNCHANGED <<active, gens, heap, op, upc, rules, compiled, mark>>
        /\ \A t \in Stoppers :
              \/ stpc'[t] = stpc[t]
              \/ stpc[t] \in {"closeQuit", "wait"} /\ stpc'[t] # "deactivate"
              \/ stpc[t] = "deactivate" /\ op[t] = Idle /\ stpc'[t] = "closeQuit"
    BY <1>1, <1>3 DEF StopDeactivated, StopClosesQuit, StopWaited, StopTimeout,
                      StopGoto, svars
  <2>2. OnlyReaderActivates' /\ CompiledForDirective' /\ RulesMatchSession'
    BY <1>0, <2>1, RulesStay
  <2>3. MarkedIsBeingEnded' /\ ShutdownEndsSession'
    BY <1>0, <2>1, MarksStay
  <2> QED BY <2>2, <2>3 DEF Inductive, UplinkInv
<1> QED BY <1>2, <1>3 DEF Stop

\* Every step of the composition preserves the invariant.
LEMMA UplinkStep == Inductive /\ SessionInv' /\ [Next]_vars => Inductive'
<1> SUFFICES ASSUME Inductive, SessionInv', [Next]_vars PROVE Inductive'
  OBVIOUS
<1>0. UTypeOK /\ ConnectionIsCurrent /\ OnlyReaderActivates /\ CompiledForDirective
      /\ MarkedIsBeingEnded /\ RulesMatchSession /\ ShutdownEndsSession
  BY DEF Inductive, UplinkInv
<1>1. CASE UNCHANGED vars
  <2>1. UTypeOK' /\ ConnectionIsCurrent'
    BY <1>0, <1>1 DEF vars, UTypeOK, STypeOK, ConnectionIsCurrent
  <2>2. UNCHANGED <<active, gens, heap, op, upc, rules, compiled, mark, stpc>>
    BY <1>1 DEF vars
  <2> QED BY <1>0, <2>1, <2>2, RulesStay, MarksStay DEF Inductive, UplinkInv
<1> SUFFICES ASSUME Next PROVE Inductive'
  BY <1>1
<1>2. UTypeOK' /\ ConnectionIsCurrent'
  BY <1>0, UplinkTypes, ConnectionStep DEF SessionInv
\* What the steps that neither activate nor carry a call on have in common.
<1> DEFINE Quiet ==
        /\ UNCHANGED <<active, gens, heap, compiled, stpc, mark>>
        /\ rules' \in {rules, NoRules}
        /\ \A g \in Goroutines :
              op'[g] = op[g] \/ (op[g] = Idle /\ op'[g].pc # "activate")
        /\ upc' = upc \/ (upc # "activate" /\ upc' # "activate" /\ upc' # "off")
<1>3. ASSUME Quiet PROVE Inductive'
  BY <1>0, <1>2, <1>3, RulesStay, MarksStay DEF Inductive, UplinkInv
<1>4. op \in [Goroutines -> Ops]
  BY <1>0 DEF UTypeOK, STypeOK
<1>5. CASE StartUplink \/ LoopTop \/ DialFails \/ DialSucceeds \/ ReadFails \/ Closed
  <2>1. Quiet
    BY <1>5 DEF StartUplink, LoopTop, DialFails, DialSucceeds, ReadFails, Closed, Goto, svars
  <2> QED BY <1>3, <2>1
<1>6. CASE AfterRun \/ BackoffOver \/ BackoffQuit \/ QuitWatcher
  <2>1. Quiet
    BY <1>6 DEF AfterRun, BackoffOver, BackoffQuit, QuitWatcher, Goto, svars
  <2> QED BY <1>3, <2>1
<1>7. CASE SendAck \/ CancelDone \/ ReceiveCancel
  <2>1. Quiet
    BY <1>7 DEF SendAck, CancelDone, ReceiveCancel, Goto, svars
  <2> QED BY <1>3, <2>1
<1>8. CASE CancelSession
  <2>1. Quiet
    BY <1>4, <1>8 DEF CancelSession, CallDeactivate, Begin, DeactivateOp, svars
  <2> QED BY <1>3, <2>1
<1>9. ASSUME NEW p \in Pumps, PumpTick(p) PROVE Inductive'
  <2>1. Quiet
    BY <1>4, <1>9 DEF PumpTick, CallCheckTTL, Begin, TTLOp, uvars
  <2> QED BY <1>3, <2>1
<1>10. ASSUME NEW w \in Workers, NEW b \in Sizes, SpanEnds(w, b) PROVE Inductive'
  <2>1. Quiet
    BY <1>4, <1>10 DEF SpanEnds, CallRecord, Begin, RecordOp, uvars
  <2> QED BY <1>3, <2>1
<1>11. CASE ClockTick
  <2>1. Quiet
    BY <1>11 DEF ClockTick, Tick, uvars
  <2> QED BY <1>3, <2>1
<1>12. CASE SetRules \/ \E d \in Directives : \E rs \in {d.id, NoRules} : ReceiveRules(d, rs)
  BY <1>2, <1>12, HandleRulesInv
<1>13. ASSUME NEW g \in Goroutines, SessionStep(g) PROVE Inductive'
  BY <1>2, <1>13, SessionStepInv
<1>14. ASSUME NEW s \in Stoppers, Stop(s) PROVE Inductive'
  BY <1>2, <1>14, StopInv
<1> HIDE DEF Quiet
<1> QED
  BY <1>5, <1>6, <1>7, <1>8, <1>9, <1>10, <1>11, <1>12, <1>13, <1>14 DEF Next, Uplink

LEMMA InductiveHolds == Spec => []Inductive
<1>1. Spec => []SessionInv
  BY UplinkImplementsSession, SessionInvariant, PTL
<1> QED BY <1>1, UplinkInit, UplinkStep, PTL DEF Spec

\* The uplink's state fits together: the connection that sendSessionExpired finds
\* is the one being read, only the read loop activates, and the compiled rules
\* belong to the directive in hand.
THEOREM UplinkInvariant == Spec => []UplinkInv
BY InductiveHolds, PTL DEF Inductive

\* Once its rules are armed no session runs under the rules of another one, for any
\* number of sessions, spans, pumps and stopUplink calls that end sessions
\* meanwhile. Until then, between activation and arming, it does.
THEOREM RulesAreTheSessions == Spec => []RulesMatchSession
BY InductiveHolds, PTL DEF Inductive

\* stopUplink ends the session it found, whichever goroutine races it to that end.
THEOREM ShutdownEndsWhatItFound == Spec => []ShutdownEndsSession
BY InductiveHolds, PTL DEF Inductive

\* The uplink winds down once it has been told to.
THEOREM WindsDown == Spec => UplinkWindsDown
<1> DEFINE Closer ==
      quit /\ ~ctx /\ upc # "dial" =>
          /\ quit' /\ ~ctx' /\ upc' # "dial"
          /\ upc' = upc \/ StepsToStop(upc') < StepsToStop(upc)
<1>1. [Next]_vars => [Closer]_vars
  <2> SUFFICES ASSUME Next, quit, ~ctx, upc # "dial"
               PROVE  /\ quit' /\ ~ctx' /\ upc' # "dial"
                      /\ upc' = upc \/ StepsToStop(upc') < StepsToStop(upc)
    BY DEF vars
  <2>1. CASE StartUplink \/ Uplink
    <3>1. quit' = quit /\ (ctx' = ctx \/ ctx' = FALSE)
      BY <2>1 DEF StartUplink, Uplink, LoopTop, DialFails, DialSucceeds, ReadFails, Closed,
         AfterRun, BackoffOver, BackoffQuit, SetRules, SendAck, CancelSession, CancelDone,
         Goto
    <3>2. <<upc, upc'>> \in
             {<<"off", "top">>, <<"top", "stopped">>, <<"read", "closing">>,
              <<"closing", "after">>, <<"after", "stopped">>, <<"backoff", "top">>,
              <<"backoff", "stopped">>, <<"activate", "ack">>, <<"ack", "read">>,
              <<"cleared", "cancel">>, <<"cleared", "read">>, <<"cancel", "read">>}
      BY <2>1 DEF StartUplink, Uplink, LoopTop, DialFails, DialSucceeds, ReadFails, Closed,
         AfterRun, BackoffOver, BackoffQuit, SetRules, SendAck, CancelSession, CancelDone,
         Goto
    <3> QED BY <3>1, <3>2 DEF StepsToStop
  <2>2. CASE QuitWatcher
    BY <2>2 DEF QuitWatcher
  <2>3. CASE \/ \E d \in Directives : \E rs \in {d.id, NoRules} : ReceiveRules(d, rs)
             \/ ReceiveCancel
    BY <2>3 DEF ReceiveRules, ReceiveCancel
  <2>4. CASE \/ \E w \in Workers, b \in Sizes : SpanEnds(w, b)
             \/ \E g \in Goroutines : SessionStep(g)
             \/ \E p \in Pumps : PumpTick(p)
             \/ ClockTick
    <3>1. UNCHANGED uvars
      BY <2>4 DEF PumpTick, SpanEnds, SessionStep, ClockTick
    <3> QED BY <3>1 DEF uvars
  <2>5. ASSUME NEW s \in Stoppers, Stop(s) PROVE quit' /\ ctx' = ctx /\ upc' = upc
    BY <2>5 DEF Stop, StopBegins, StopDeactivated, StopClosesQuit, StopWaited, StopTimeout
  <2> QED BY <2>1, <2>2, <2>3, <2>4, <2>5 DEF Next
<1> QED BY <1>1, PTL DEF Spec, UplinkWindsDown

=============================================================================
