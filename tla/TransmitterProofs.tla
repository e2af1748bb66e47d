-------------------------- MODULE TransmitterProofs --------------------------
(***************************************************************************)
(* The delivery properties of the transmitter, proved for every set of     *)
(* items and of Shutdown callers, every channel capacity and every batch   *)
(* size.  HInv of TransmitterHistory is the inductive invariant.           *)
(***************************************************************************)
EXTENDS TransmitterHistory, SequenceTheorems, TLAPS

USE ChanCapAssumption, BatchMaxAssumption, MaxAcceptedAssumption

\* The initial state satisfies the inductive invariant.
LEMMA InitInv == HInit => HInv
<1> SUFFICES ASSUME HInit PROVE HInv
  OBVIOUS
<1> USE DEF HInit, Init
<1>0. <<>> \in Seq(Items) /\ Len(<<>>) = 0
  BY EmptySeq
<1>1. spc \in [Callers -> ShutdownPC]
  BY DEF ShutdownPC
<1>2. HTypeOK
  <2>1. Len(ch) <= ChanCap
    BY <1>0
  <2>2. up \in BOOLEAN /\ quit \in BOOLEAN /\ rpc \in RunPC
    BY DEF RunPC
  <2> QED BY <1>0, <1>1, <2>1, <2>2 DEF HTypeOK, TypeOK
<1>3. Accounting
  BY <1>0 DEF Accounting, Base
<1>4. ShutdownProgress
  BY DEF ShutdownProgress
<1> QED BY <1>2, <1>3, <1>4 DEF HInv

\* nonBlockingPost extends the channel and the accepted items alike.
LEMMA PostInv ==
    ASSUME HInv, NEW x \in Items, HPost(x)
    PROVE  HInv'
<1>0. HTypeOK /\ Accounting /\ ShutdownProgress
  BY DEF HInv
<1>a. CASE ~HasRoom
  BY <1>a, <1>0 DEF HPost, NonBlockingPost, HInv, HTypeOK, TypeOK, Accounting, ShutdownProgress, Base
<1>b. CASE HasRoom
  <2>0. UNCHANGED <<up, batch, i, rpc, n, quit, spc, posted, delivered, mark>>
    BY DEF HPost, NonBlockingPost
  <2>1. /\ ch' = Append(ch, x) /\ ch' \in Seq(Items)
        /\ Len(ch') = Len(ch) + 1
        /\ \A k \in 1..Len(ch) : ch'[k] = ch[k]
        /\ ch'[Len(ch) + 1] = x
    BY <1>b, <1>0, AppendProperties DEF HTypeOK, TypeOK, HPost, NonBlockingPost
  <2>2. /\ accepted' \in Seq(Items)
        /\ Len(accepted') = Len(accepted) + 1
        /\ \A k \in 1..Len(accepted) : accepted'[k] = accepted[k]
        /\ accepted'[Len(accepted) + 1] = x
    BY <1>b, <1>0, AppendProperties DEF HTypeOK, HPost
  <2>3. HTypeOK'
    BY <1>b, <1>0, <2>0, <2>1, <2>2 DEF HTypeOK, TypeOK, HasRoom
  <2>4. Accounting'
    <3>1. /\ Base \in Nat /\ Base' = Base
          /\ Len(batch) \in Nat /\ Len(ch) \in Nat /\ Len(posted) \in Nat
          /\ Len(accepted) = Base + Len(batch) + Len(ch)
      BY <1>0, <2>0 DEF HTypeOK, TypeOK, Accounting, Base
    <3>2. \A k \in 1..Len(posted) : posted[k] = accepted'[k]
      <4>1. i \in Nat /\ i <= Len(batch) /\ Len(posted) <= Len(accepted)
        BY <1>0, <3>1 DEF HTypeOK, TypeOK, Accounting, Base
      <4>2. \A k \in 1..Len(posted) : k \in 1..Len(accepted)
        BY <3>1, <4>1
      <4>3. \A k \in 1..Len(posted) : posted[k] = accepted[k]
        BY <1>0 DEF Accounting
      <4> QED BY <2>2, <4>2, <4>3
    <3>3. \A k \in 1..Len(batch) : batch[k] = accepted'[Base + k]
      BY <1>0, <2>2, <3>1 DEF Accounting
    <3>4. \A k \in 1..Len(ch') : ch'[k] = accepted'[Base + Len(batch) + k]
      <4> TAKE k \in 1..Len(ch')
      <4>1. CASE k = Len(ch) + 1
        BY <2>1, <2>2, <3>1, <4>1
      <4>2. CASE k \in 1..Len(ch)
        BY <1>0, <2>1, <2>2, <3>1, <4>2 DEF Accounting
      <4> QED BY <2>1, <3>1, <4>1, <4>2
    <3> QED BY <1>0, <2>0, <2>1, <2>2, <3>1, <3>2, <3>3, <3>4 DEF Accounting
  <2>5. ShutdownProgress'
    BY <1>0, <2>0, <2>1, <2>2 DEF HTypeOK, TypeOK, ShutdownProgress, Base
  <2> QED BY <2>3, <2>4, <2>5 DEF HInv
<1> QED BY <1>a, <1>b

\* postOne moves the boundary between posted and pending items by one.
LEMMA PostOneInv ==
    ASSUME HInv, HPostOne
    PROVE  HInv'
<1> USE DEF HPostOne, PostOne
<1>0. HTypeOK /\ Accounting /\ ShutdownProgress
  BY DEF HInv
<1>1. batch[i + 1] \in Items /\ batch[i + 1] = accepted[Len(posted) + 1]
  <2>1. i + 1 \in 1..Len(batch) /\ Base + (i + 1) = Len(posted) + 1
    BY <1>0 DEF HTypeOK, TypeOK, Base
  <2>2. batch[i + 1] = accepted[Base + (i + 1)]
    BY <1>0, <2>1 DEF Accounting
  <2> QED BY <1>0, <2>1, <2>2, ElementOfSeq DEF HTypeOK, TypeOK
<1>2. /\ posted' \in Seq(Items)
      /\ Len(posted') = Len(posted) + 1
      /\ \A k \in 1..Len(posted) : posted'[k] = posted[k]
      /\ posted'[Len(posted) + 1] = batch[i + 1]
  BY <1>0, <1>1, AppendProperties DEF HTypeOK
<1>3. delivered' \in Seq(Items)
  <2>1. delivered \in Seq(Items) /\ Append(delivered, batch[i + 1]) \in Seq(Items)
    BY <1>0, <1>1, AppendProperties DEF HTypeOK
  <2> QED BY <2>1
<1>4. HTypeOK'
  BY <1>0, <1>2, <1>3 DEF HTypeOK, TypeOK
<1>5. Accounting'
  BY SMTT(30), <1>0, <1>1, <1>2 DEF HTypeOK, TypeOK, Accounting, Base
<1>6. ShutdownProgress'
  BY <1>0, <1>2 DEF HTypeOK, TypeOK, ShutdownProgress, Base
<1> QED BY <1>4, <1>5, <1>6 DEF HInv

\* Closing quit remembers how much had been accepted.
LEMMA CloseInv ==
    ASSUME HInv, NEW c \in Callers, HShutdownClose(c)
    PROVE  HInv'
<1> USE DEF HShutdownClose, ShutdownClose
<1>0. HTypeOK /\ Accounting /\ ShutdownProgress
  BY DEF HInv
<1>1. HTypeOK'
  BY <1>0 DEF HTypeOK, TypeOK, ShutdownPC
<1>2. Accounting'
  BY <1>0 DEF Accounting, Base
<1>3. ShutdownProgress'
  BY <1>0 DEF HTypeOK, TypeOK, ShutdownProgress, Base, ShutdownPC
<1> QED BY <1>1, <1>2, <1>3 DEF HInv

\* A receive moves the head of the channel to the end of the batch.
LEMMA RecvInv ==
    ASSUME HInv, RecvItem \/ DrainOne, UNCHANGED hist
    PROVE  HInv'
<1> USE DEF hist
<1>0. HTypeOK /\ Accounting /\ ShutdownProgress
  BY DEF HInv
<1>1. /\ ch # <<>> /\ ch' = Tail(ch) /\ batch' = Append(batch, Head(ch))
      /\ UNCHANGED <<up, i, quit, spc, accepted, posted, delivered, mark>>
  BY DEF RecvItem, DrainOne
<1>2. /\ Head(ch) \in Items /\ Head(ch) = ch[1]
      /\ Len(ch) \in Nat \ {0}
      /\ ch' \in Seq(Items)
      /\ Len(ch') = Len(ch) - 1
      /\ \A k \in 1..Len(ch') : ch'[k] = ch[k + 1]
  BY <1>0, <1>1, EmptySeq, HeadTailProperties DEF HTypeOK, TypeOK
<1>3. /\ batch' \in Seq(Items)
      /\ Len(batch') = Len(batch) + 1
      /\ \A k \in 1..Len(batch) : batch'[k] = batch[k]
      /\ batch'[Len(batch) + 1] = ch[1]
  BY <1>0, <1>1, <1>2, AppendProperties DEF HTypeOK, TypeOK
<1>4. HTypeOK'
  <2>1. rpc' \in RunPC /\ n' \in Nat
    BY <1>0 DEF HTypeOK, TypeOK, RecvItem, DrainOne, RunPC
  <2> QED BY <1>0, <1>1, <1>2, <1>3, <2>1 DEF HTypeOK, TypeOK
<1>5. Accounting'
  <2>1. /\ Base \in Nat /\ Base' = Base
        /\ Len(batch) \in Nat /\ Len(posted) \in Nat
        /\ Len(accepted) = Base + Len(batch) + Len(ch)
        /\ i <= Len(batch) /\ i <= Len(posted) /\ i \in Nat
    BY <1>0, <1>1 DEF HTypeOK, TypeOK, Accounting, Base
  <2>2. \A k \in 1..Len(batch') : batch'[k] = accepted[Base + k]
    <3> TAKE k \in 1..Len(batch')
    <3>1. CASE k = Len(batch) + 1
      <4>1. ch[1] = accepted[Base + Len(batch) + 1]
        BY <1>0, <1>2 DEF Accounting
      <4> QED BY SMTT(30), <1>3, <2>1, <3>1, <4>1
    <3>2. CASE k \in 1..Len(batch)
      BY <1>0, <1>3, <3>2 DEF Accounting
    <3> QED BY <1>3, <2>1, <3>1, <3>2
  <2>3. \A k \in 1..Len(ch') : ch'[k] = accepted[Base + Len(batch') + k]
    <3> TAKE k \in 1..Len(ch')
    <3>1. k + 1 \in 1..Len(ch) /\ ch'[k] = ch[k + 1]
      BY <1>2
    <3>2. ch[k + 1] = accepted[Base + Len(batch) + (k + 1)]
      BY <1>0, <3>1 DEF Accounting
    <3>3. Base + Len(batch) + (k + 1) = Base + Len(batch') + k
      BY <1>3, <2>1
    <3> QED BY <3>1, <3>2, <3>3
  <2>4. \A k \in 1..Len(posted) : posted[k] = accepted[k]
    BY <1>0 DEF Accounting
  <2>5. Len(accepted) = Base + Len(batch') + Len(ch') /\ i <= Len(batch')
    BY <1>2, <1>3, <2>1
  <2> QED BY <1>1, <2>1, <2>2, <2>3, <2>4, <2>5 DEF Accounting
<1>6. ShutdownProgress'
  <2>1. CASE RecvItem
    BY <1>0, <1>1, <1>2, <1>3, <2>1
    DEF HTypeOK, TypeOK, ShutdownProgress, Base, RecvItem
  <2>2. CASE DrainOne
    BY <1>0, <1>1, <1>2, <1>3, <2>2
    DEF HTypeOK, TypeOK, ShutdownProgress, Base, DrainOne
  <2> QED BY <2>1, <2>2
<1> QED BY <1>4, <1>5, <1>6 DEF HInv

\* A batch is dropped only when it has been posted whole.
LEMMA FlushReturnInv ==
    ASSUME HInv, UNCHANGED hist, FlushReturn
    PROVE  HInv'
<1> USE DEF hist, FlushReturn
<1>0. HTypeOK /\ Accounting /\ ShutdownProgress
  BY DEF HInv
<1>1. batch' \in Seq(Items) /\ Len(batch') = 0
  BY EmptySeq
<1>2. HTypeOK'
  BY <1>0, <1>1 DEF HTypeOK, TypeOK, RunPC
<1>3. Accounting'
  BY <1>0, <1>1 DEF HTypeOK, TypeOK, Accounting, Base
<1>4. ShutdownProgress'
  BY <1>0 DEF HTypeOK, TypeOK, ShutdownProgress
<1> QED BY <1>2, <1>3, <1>4 DEF HInv

\* The other steps of run() only move its control point.
LEMMA ControlInv ==
    ASSUME HInv, UNCHANGED hist,
           InitTransmitter \/ TickFlush \/ QuitCase \/ DrainEnd \/ RunReturn
    PROVE  HInv'
<1> USE DEF hist, InitTransmitter, TickFlush, QuitCase, DrainEnd, RunReturn
<1>0. HTypeOK /\ Accounting /\ ShutdownProgress
  BY DEF HInv
<1>1. HTypeOK'
  <2>1. n' \in Nat
    BY <1>0 DEF HTypeOK, TypeOK
  <2>2. rpc' \in RunPC
    BY DEF RunPC
  <2>3. up' \in BOOLEAN
    BY <1>0 DEF HTypeOK, TypeOK
  <2>4. UNCHANGED <<ch, batch, i, quit, spc>>
    OBVIOUS
  <2> QED BY <1>0, <2>1, <2>2, <2>3, <2>4 DEF HTypeOK, TypeOK
<1>2. Accounting'
  BY <1>0 DEF Accounting, Base
<1>3. ShutdownProgress'
  <2>1. CASE InitTransmitter
    BY <1>0, <2>1 DEF HTypeOK, TypeOK, ShutdownProgress, Base
  <2>a. CASE TickFlush
    BY <1>0, <2>a DEF HTypeOK, TypeOK, ShutdownProgress, Base
  <2>b. CASE RunReturn
    <3>1. mark <= Len(posted)
      BY <1>0, <2>b DEF HTypeOK, TypeOK, ShutdownProgress, Base
    <3> QED BY <1>0, <2>b, <3>1 DEF HTypeOK, TypeOK, ShutdownProgress, Base
  <2>2. CASE QuitCase
    BY <1>0, <2>2 DEF HTypeOK, TypeOK, Accounting, ShutdownProgress, Base
  <2>3. CASE DrainEnd
    <3>1. batch = <<>> => Len(batch) = 0
      BY EmptySeq
    <3> QED BY <1>0, <2>3, <3>1 DEF HTypeOK, TypeOK, Accounting, ShutdownProgress, Base
  <2> QED BY <2>1, <2>a, <2>b, <2>2, <2>3
<1> QED BY <1>1, <1>2, <1>3 DEF HInv

\* Entering and leaving Shutdown only moves the caller.
LEMMA CallerInv ==
    ASSUME HInv, UNCHANGED hist, NEW c \in Callers,
           ShutdownEnter(c) \/ ShutdownReturn(c)
    PROVE  HInv'
<1> USE DEF hist, ShutdownEnter, ShutdownReturn
<1>1. HTypeOK'
  BY DEF HInv, HTypeOK, TypeOK, ShutdownPC
<1>2. Accounting'
  BY DEF HInv, HTypeOK, TypeOK, Accounting, Base
<1>3. ShutdownProgress'
  BY SMTT(30) DEF HInv, HTypeOK, TypeOK, Accounting, ShutdownProgress, Base, ShutdownPC
<1> QED BY <1>1, <1>2, <1>3 DEF HInv

\* Every step preserves the inductive invariant.
LEMMA StepInv == HInv /\ [HNext]_hvars => HInv'
<1> SUFFICES ASSUME HInv, [HNext]_hvars PROVE HInv'
  OBVIOUS
<1>1. CASE \E x \in Items : HPost(x)
  BY <1>1, PostInv
<1>2. CASE HPostOne
  BY <1>2, PostOneInv
<1>3. CASE \E c \in Callers : HShutdownClose(c)
  BY <1>3, CloseInv
<1>4. CASE HQuiet
  BY <1>4, RecvInv, FlushReturnInv, ControlInv, CallerInv DEF HQuiet
<1>5. CASE UNCHANGED hvars
  BY <1>5 DEF hvars, HInv, HTypeOK, TypeOK, Accounting, ShutdownProgress, Base
<1> QED BY <1>1, <1>2, <1>3, <1>4, <1>5 DEF HNext

\* The transmitter keeps its inductive invariant for ever.
THEOREM InvariantHolds == HSpec => []HInv
<1>1. HInit => HInv
  BY InitInv
<1>2. HInv /\ [HNext]_hvars => HInv'
  BY StepInv
<1> QED BY <1>1, <1>2, PTL DEF HSpec

\* nonBlockingPost's order is the order of the POSTs: PostedInOrder holds for
\* every capacity, batch size and number of producers and callers.
THEOREM PostsInOrder == HSpec => []PostedInOrder
<1>1. HInv => PostedInOrder
  <2> SUFFICES ASSUME HInv PROVE PostedInOrder
    OBVIOUS
  <2>0. HTypeOK /\ Accounting
    BY DEF HInv
  <2>1. Len(posted) <= Len(accepted) /\ Len(posted) \in Nat /\ Len(accepted) \in Nat
    BY <2>0 DEF HTypeOK, TypeOK, Accounting, Base
  <2>2. \A k \in 1..Len(posted) : accepted[k] \in Items
    BY <2>0, <2>1, ElementOfSeq DEF HTypeOK
  <2> DEFINE prefix == SubSeq(accepted, 1, Len(posted))
  <2>3. /\ prefix \in Seq(Items)
        /\ Len(prefix) = Len(posted)
        /\ \A k \in 1..Len(posted) : prefix[k] = accepted[k]
    BY <2>1, <2>2, SubSeqProperties
  <2>4. \A k \in 1..Len(posted) : posted[k] = prefix[k]
    BY <2>0, <2>3 DEF Accounting
  <2> HIDE DEF prefix
  <2>5. posted = prefix
    BY <2>0, <2>3, <2>4, SeqEqual DEF HTypeOK
  <2> QED BY <2>1, <2>5 DEF PostedInOrder, prefix
<1> QED BY <1>1, InvariantHolds, PTL

\* When Shutdown returns, everything queued before it closed quit has been
\* handed to postOne: ShutdownFlushes in every instance.
THEOREM ShutdownFlushesAll == HSpec => []ShutdownFlushes
<1>1. HInv => ShutdownFlushes
  BY DEF HInv, HTypeOK, ShutdownProgress, ShutdownFlushes
<1> QED BY <1>1, InvariantHolds, PTL

\* run() never blocks in its final drain.
THEOREM DrainIsFree == HSpec => []DrainNeverBlocks
<1>1. HInv => DrainNeverBlocks
  BY DEF HInv, ShutdownProgress, DrainNeverBlocks
<1> QED BY <1>1, InvariantHolds, PTL

\* After a Shutdown call has returned no item is posted any more.
THEOREM NothingAfterShutdown == HSpec => NoPostAfterShutdown
<1> DEFINE Quiet == (\E c \in Callers : spc[c] = "returned") => posted' = posted
<1>1. HInv /\ [HNext]_hvars => [Quiet]_hvars
  <2> SUFFICES ASSUME HInv, HNext, \E c \in Callers : spc[c] = "returned"
               PROVE  posted' = posted
    BY DEF hvars
  <2>1. rpc = "done"
    BY DEF HInv, ShutdownProgress
  <2>2. ~HPostOne
    BY <2>1 DEF HPostOne, PostOne
  <2> QED BY <2>2 DEF HNext, HPost, HShutdownClose, HQuiet, hist
<1> QED BY <1>1, InvariantHolds, PTL DEF HSpec, NoPostAfterShutdown

\* The end of run() is bounded from the quit case on, whatever else runs.
THEOREM ShutdownEnds == HSpec => ShutdownIsBounded
<1> DEFINE Lower ==
      Winding =>
          /\ Left \in Nat \ {0}
          /\ Left' \in 0..Left
          /\ Left' = Left <=> RunStands
<1>1. HInv /\ [HNext]_hvars => [Lower]_hvars
  <2> SUFFICES ASSUME HInv, HNext, Winding
               PROVE  /\ Left \in Nat \ {0}
                      /\ Left' \in 0..Left
                      /\ Left' = Left <=> RunStands
    BY DEF hvars
  <2>1. /\ Len(batch) \in Nat /\ i \in Nat /\ i <= Len(batch) /\ n \in Nat
        /\ rpc = "drain" => i = 0
        /\ ch \in Seq(Items) /\ batch \in Seq(Items)
    BY LenProperties DEF HInv, HTypeOK, TypeOK, Accounting, ShutdownProgress
  <2>2. Left \in Nat \ {0}
    BY <2>1 DEF Left, Winding
  <2>3. CASE RunStands
    BY <2>2, <2>3 DEF Left, RunStands
  <2>4. CASE PostOne \/ RunReturn
    BY <2>1, <2>2, <2>4 DEF Left, RunStands, PostOne, RunReturn
  <2>5. CASE DrainOne
    <3>1. Head(ch) \in Items
      BY <2>1, <2>5, EmptySeq, HeadTailProperties DEF DrainOne
    <3>2. Len(batch') = Len(batch) + 1
      BY <2>1, <2>5, <3>1, AppendProperties DEF DrainOne
    <3>3. rpc = "drain" /\ rpc' = "drain" /\ n' = n - 1 /\ n > 0 /\ batch' # batch
      BY <2>1, <2>5, <3>2 DEF DrainOne
    <3>4. Left = n + n + Len(batch) + 2 /\ Left' = n' + n' + Len(batch') + 2
      BY <3>3 DEF Left
    <3>5. Left' = Left - 1
      BY <2>1, <3>2, <3>3, <3>4
    <3> QED BY <2>2, <3>3, <3>5 DEF RunStands
  <2>6. CASE DrainEnd
    BY <2>1, <2>2, <2>6 DEF Left, RunStands, DrainEnd
  <2>7. \/ PostOne \/ RunReturn \/ DrainOne \/ DrainEnd
        \/ RunStands
    <3>1. ~InitTransmitter
      BY DEF HInv, ShutdownProgress, InitTransmitter, Winding
    <3> QED
      BY <3>1 DEF Winding, HNext, HPost, NonBlockingPost, HPostOne, HShutdownClose, ShutdownClose,
         HQuiet, RecvItem, TickFlush, FlushReturn, QuitCase, ShutdownEnter, ShutdownReturn,
         RunStands
  <2> QED BY <2>3, <2>4, <2>5, <2>6, <2>7
<1> QED BY <1>1, InvariantHolds, PTL DEF HSpec, ShutdownIsBounded

-----------------------------------------------------------------------------
(* The refinement of TelemetryQueue.                                       *)

\* Every step of the transmitter is a step of the lossy FIFO log or changes
\* nothing that the log shows.
LEMMA StepRefines == HInv /\ [HNext]_hvars => [TQ!Next]_(TQ!avars)
<1> SUFFICES ASSUME HInv, [HNext]_hvars PROVE [TQ!Next]_(TQ!avars)
  OBVIOUS
<1>0. HTypeOK /\ Accounting /\ ShutdownProgress
  BY DEF HInv
<1> DEFINE ended == {c \in Callers : spc[c] = "returned"}
<1> USE DEF TQ!avars
<1>1. CASE UNCHANGED hvars
  BY <1>1 DEF hvars
<1>2. ASSUME NEW x \in Items, HPost(x) PROVE [TQ!Next]_(TQ!avars)
  <2>1. CASE HasRoom
    BY <1>2, <2>1 DEF HPost, NonBlockingPost, TQ!Next, TQ!Accept
  <2>2. CASE ~HasRoom
    BY <1>2, <2>2 DEF HPost, NonBlockingPost
  <2> QED BY <2>1, <2>2
<1>3. CASE HPostOne
  <2>1. rpc # "done" /\ UNCHANGED <<accepted, spc, quit, mark>>
    BY <1>3 DEF HPostOne, PostOne
  <2>2. ended = {}
    BY <1>0, <2>1 DEF ShutdownProgress
  <2>3. /\ i + 1 \in 1..Len(batch) /\ Base + (i + 1) = Len(posted) + 1
        /\ Len(posted) < Len(accepted)
    BY <1>0, <1>3 DEF HTypeOK, TypeOK, Accounting, Base, HPostOne, PostOne
  <2>4. batch[i + 1] \in Items /\ batch[i + 1] = accepted[Len(posted) + 1]
    <3>1. batch[i + 1] = accepted[Base + (i + 1)]
      BY <1>0, <2>3 DEF Accounting
    <3> QED BY <1>0, <2>3, <3>1, ElementOfSeq DEF HTypeOK, TypeOK
  <2>5. Len(posted') = Len(posted) + 1
    BY <1>0, <1>3, <2>4, AppendProperties DEF HTypeOK, HPostOne
  <2>6. delivered' \in {delivered, Append(delivered, accepted[Len(posted) + 1])}
    BY <1>3, <2>4 DEF HPostOne
  <2> QED BY <2>1, <2>2, <2>3, <2>5, <2>6 DEF TQ!Next, TQ!Try
<1>4. ASSUME NEW c \in Callers, HShutdownClose(c) PROVE [TQ!Next]_(TQ!avars)
  <2>1. ended' = ended /\ UNCHANGED <<accepted, posted, delivered>>
    BY <1>0, <1>4 DEF HTypeOK, TypeOK, HShutdownClose, ShutdownClose
  <2>2. CASE up /\ ~quit
    <3>1. quit' = TRUE /\ mark' = Len(accepted)
      BY <1>4, <2>2 DEF HShutdownClose, ShutdownClose
    <3> QED BY <2>1, <2>2, <3>1 DEF TQ!Next, TQ!Close
  <2>3. CASE ~(up /\ ~quit)
    <3>1. quit' = quit /\ mark' = mark
      BY <1>0, <1>4, <2>3
      DEF HTypeOK, TypeOK, ShutdownProgress, HShutdownClose, ShutdownClose
    <3> QED BY <2>1, <3>1
  <2> QED BY <2>2, <2>3
<1>5. ASSUME NEW c \in Callers, ShutdownReturn(c), UNCHANGED hist
      PROVE  [TQ!Next]_(TQ!avars)
  <2>1. quit /\ Len(posted) >= mark
    BY <1>0, <1>5 DEF ShutdownReturn, ShutdownProgress, HTypeOK
  <2>2. ended' = ended \cup {c}
    BY <1>0, <1>5 DEF ShutdownReturn, HTypeOK, TypeOK
  <2> QED BY <1>5, <2>1, <2>2 DEF TQ!Next, TQ!Return, ShutdownReturn, hist
<1>6. ASSUME NEW c \in Callers, ShutdownEnter(c), UNCHANGED hist
      PROVE  [TQ!Next]_(TQ!avars)
  <2>1. ended' = ended
    BY <1>0, <1>6 DEF ShutdownEnter, HTypeOK, TypeOK
  <2> QED BY <1>6, <2>1 DEF ShutdownEnter, hist
<1>7. CASE /\ InitTransmitter \/ RecvItem \/ TickFlush \/ FlushReturn
              \/ QuitCase \/ DrainOne \/ DrainEnd \/ RunReturn
           /\ UNCHANGED hist
  BY <1>7 DEF hist, InitTransmitter, RecvItem, TickFlush, FlushReturn, QuitCase,
              DrainOne, DrainEnd, RunReturn
<1> QED BY <1>1, <1>2, <1>3, <1>4, <1>5, <1>6, <1>7 DEF HNext, HQuiet

\* The transmitter implements TelemetryQueue, for every instance.
THEOREM Refinement == HSpec => ImplementsTelemetryQueue
<1>1. HInit => TQ!Init
  <2> SUFFICES ASSUME HInit PROVE TQ!Init
    OBVIOUS
  <2>1. {c \in Callers : spc[c] = "returned"} = {}
    BY DEF HInit, Init
  <2>2. Len(posted) = 0
    BY EmptySeq DEF HInit
  <2> QED BY <2>1, <2>2 DEF HInit, Init, TQ!Init
<1>2. HInv /\ [HNext]_hvars => [TQ!Next]_(TQ!avars)
  BY StepRefines
<1> QED BY <1>1, <1>2, InvariantHolds, PTL
    DEF HSpec, ImplementsTelemetryQueue, TQ!Spec

=============================================================================
