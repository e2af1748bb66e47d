-------------------------- MODULE TransmitterHistory --------------------------
(***************************************************************************)
(* The transmitter with history variables for what was accepted, tried and *)
(* delivered, the delivery properties stated on them, and the refinement   *)
(* of TelemetryQueue.  Every action is the action of Transmitter and the   *)
(* history it leaves.                                                      *)
(***************************************************************************)
EXTENDS Transmitter

CONSTANT MaxAccepted    \* bound on the number of items ever accepted

ASSUME MaxAcceptedAssumption == MaxAccepted \in Nat

VARIABLES
    accepted,   \* the items nonBlockingPost has queued, in order
    posted,     \* the items postOne has been called with, in order
    delivered,  \* the items whose POST reached the collector
    mark        \* Len(accepted) when quit was closed

hist == <<accepted, posted, delivered, mark>>
hvars == <<up, ch, batch, i, rpc, n, quit, spc, accepted, posted, delivered, mark>>

HInit ==
    /\ Init
    /\ accepted = <<>>
    /\ posted = <<>>
    /\ delivered = <<>>
    /\ mark = 0

HPost(x) ==
    /\ Len(accepted) < MaxAccepted
    /\ NonBlockingPost(x)
    /\ accepted' = IF HasRoom THEN Append(accepted, x) ELSE accepted
    /\ UNCHANGED <<posted, delivered, mark>>

\* Marshalling, building the request or sending it may fail, and a request
\* that timed out may have arrived; the item is gone in every case.
HPostOne ==
    /\ PostOne
    /\ posted' = Append(posted, batch[i + 1])
    /\ delivered' \in {delivered, Append(delivered, batch[i + 1])}
    /\ UNCHANGED <<accepted, mark>>

HShutdownClose(c) ==
    /\ ShutdownClose(c)
    /\ mark' = IF up /\ ~quit THEN Len(accepted) ELSE mark
    /\ UNCHANGED <<accepted, posted, delivered>>

\* The steps that leave no history.
HQuiet ==
    /\ \/ InitTransmitter
       \/ RecvItem \/ TickFlush \/ FlushReturn
       \/ QuitCase \/ DrainOne \/ DrainEnd \/ RunReturn
       \/ \E c \in Callers : ShutdownEnter(c) \/ ShutdownReturn(c)
    /\ UNCHANGED hist

HNext ==
    \/ \E x \in Items : HPost(x)
    \/ HPostOne
    \/ \E c \in Callers : HShutdownClose(c)
    \/ HQuiet

HSpec == HInit /\ [][HNext]_hvars

-----------------------------------------------------------------------------
(* Where the items are: the first Base accepted items have left run() for  *)
(* good, the next Len(batch) are in its batch, the rest is in the channel. *)

Base == Len(posted) - i

HTypeOK ==
    /\ TypeOK
    /\ accepted \in Seq(Items)
    /\ posted \in Seq(Items)
    /\ delivered \in Seq(Items)
    /\ mark \in Nat

\* No accepted item is lost, duplicated or reordered between the channel, the
\* batch and postOne (run, flush): the three hold consecutive stretches of
\* what was accepted.
Accounting ==
    /\ i <= Len(batch)
    /\ i <= Len(posted)
    /\ Len(accepted) = Base + Len(batch) + Len(ch)
    /\ \A k \in 1..Len(posted) : posted[k] = accepted[k]
    /\ \A k \in 1..Len(batch) : batch[k] = accepted[Base + k]
    /\ \A k \in 1..Len(ch) : ch[k] = accepted[Base + Len(batch) + k]

\* What run() has reached of the items accepted before quit was closed: they
\* are posted, in the batch, or among the n items the drain has still to read.
ShutdownProgress ==
    /\ quit => mark <= Len(accepted)
    /\ rpc \in {"off", "select", "drain"} => i = 0
    /\ rpc \in {"drain", "lastflush", "done"} => quit
    /\ rpc = "drain" => n <= Len(ch) /\ mark <= Base + Len(batch) + n
    /\ rpc = "lastflush" => mark <= Base + Len(batch)
    /\ rpc = "done" => mark <= Len(posted)
    /\ \A c \in Callers : spc[c] = "returned" => rpc = "done"
    /\ quit => up
    /\ rpc = "off" <=> ~up

HInv == HTypeOK /\ Accounting /\ ShutdownProgress

-----------------------------------------------------------------------------
(* Properties.                                                             *)

\* postOne sees the accepted items in the order nonBlockingPost queued them,
\* each at most once and none skipped, whichever case of the select wins.
PostedInOrder ==
    /\ Len(posted) <= Len(accepted)
    /\ posted = SubSeq(accepted, 1, Len(posted))

\* "Shutdown flushes any remaining telemetry": once a Shutdown call has
\* returned, every item that was in the queue when quit was closed has been
\* handed to postOne, however the drain interleaved with late producers.
ShutdownFlushes ==
    \A c \in Callers : spc[c] = "returned" => Len(posted) >= mark

\* Nothing is posted once a Shutdown call has returned.
NoPostAfterShutdown ==
    [][(\E c \in Callers : spc[c] = "returned") => posted' = posted]_hvars

\* How many steps run() has still to take once it has met quit: two for an item
\* to drain, one for an item to post, and one to leave either loop.
Left ==
    CASE rpc = "drain" -> n + n + Len(batch) + 2
      [] rpc = "lastflush" -> Len(batch) - i + 1
      [] OTHER -> 0
RunStands == UNCHANGED <<batch, i, rpc, n>>
Winding == rpc \in {"drain", "lastflush"}

\* From the quit case on, run() has a number of steps left that every step of
\* its own lowers and no other step changes: what producers go on to post, and
\* the other callers of Shutdown, cannot make it longer.
ShutdownIsBounded ==
    [][Winding =>
          /\ Left \in Nat \ {0}
          /\ Left' \in 0..Left
          /\ Left' = Left <=> RunStands]_hvars

\* The transmitter implements the lossy FIFO log.
TQ == INSTANCE TelemetryQueue WITH
    log <- accepted,
    tried <- Len(posted),
    arrived <- delivered,
    closed <- quit,
    ended <- {c \in Callers : spc[c] = "returned"}

ImplementsTelemetryQueue == TQ!Spec

=============================================================================
