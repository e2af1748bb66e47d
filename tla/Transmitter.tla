----------------------------- MODULE Transmitter -----------------------------
(***************************************************************************)
(* The background transmitter of transmitter.go.  Request goroutines, log  *)
(* handlers and span code hand telemetry items to nonBlockingPost, which   *)
(* puts them in a buffered channel or drops them; one goroutine, run(),    *)
(* collects them in a batch and posts every item of a batch on its own;    *)
(* Shutdown closes the quit channel and waits for run() to return.         *)
(*                                                                         *)
(* The specification keeps no history, so its state space is finite even   *)
(* with producers that never stop: what Shutdown promises against them is  *)
(* checked here.  TransmitterHistory adds the history variables that the   *)
(* delivery properties talk about.                                         *)
(***************************************************************************)
EXTENDS Naturals, Sequences

CONSTANTS
    Items,      \* the telemetry items producers submit
    Callers,    \* the goroutines that call Shutdown (defer, signal handler)
    ChanCap,    \* the capacity of transmitter.ch (4096 in the code)
    BatchMax    \* SF_NBPOST_BATCH_MAX, positive, 1 by default

ASSUME ChanCapAssumption == ChanCap \in Nat \ {0}
ASSUME BatchMaxAssumption == BatchMax \in Nat \ {0}

VARIABLES
    up,         \* globalTransmitter # nil
    ch,         \* the contents of the channel
    batch,      \* the local slice of run()
    i,          \* how many items of batch the current flush has posted
    rpc,        \* where run() is
    n,          \* the loop counter of the final drain
    quit,       \* the quit channel is closed
    spc         \* where each Shutdown call is

vars == <<up, ch, batch, i, rpc, n, quit, spc>>

RunPC == {"off", "select", "flush", "drain", "lastflush", "done"}
ShutdownPC == {"idle", "stopUplink", "wait", "returned", "noop"}

TypeOK ==
    /\ up \in BOOLEAN
    /\ ch \in Seq(Items)
    /\ Len(ch) <= ChanCap
    /\ batch \in Seq(Items)
    /\ i \in Nat
    /\ rpc \in RunPC
    /\ n \in Nat
    /\ quit \in BOOLEAN
    /\ spc \in [Callers -> ShutdownPC]

Init ==
    /\ up = FALSE
    /\ ch = <<>>
    /\ batch = <<>>
    /\ i = 0
    /\ rpc = "off"
    /\ n = 0
    /\ quit = FALSE
    /\ spc = [c \in Callers |-> "idle"]

-----------------------------------------------------------------------------
(* Producers.                                                              *)

\* transmitterOnce: the first call makes the transmitter and starts run().
InitTransmitter ==
    /\ ~up
    /\ up' = TRUE
    /\ rpc' = "select"
    /\ UNCHANGED <<ch, batch, i, n, quit, spc>>

\* The send of nonBlockingPost's select can proceed.
HasRoom == up /\ Len(ch) < ChanCap

\* Mutant: a full channel makes room by discarding its oldest item.
NonBlockingPostEvicts(x) ==
    /\ ch' = IF HasRoom THEN Append(ch, x)
             ELSE IF up THEN Append(Tail(ch), x) ELSE ch
    /\ UNCHANGED <<up, batch, i, rpc, n, quit, spc>>

\* The item is queued, or dropped: before SetupInterceptors, when the channel
\* is full, and for good once run() has returned and the channel has filled up.
NonBlockingPost(x) ==
    /\ ch' = IF HasRoom THEN Append(ch, x) ELSE ch
    /\ UNCHANGED <<up, batch, i, rpc, n, quit, spc>>

-----------------------------------------------------------------------------
(* run(): a select over the channel, the ticker and quit.                  *)

RecvItem ==
    /\ rpc = "select"
    /\ ch # <<>>
    /\ ch' = Tail(ch)
    /\ batch' = Append(batch, Head(ch))
    /\ rpc' = IF Len(batch) + 1 >= BatchMax THEN "flush" ELSE "select"
    /\ UNCHANGED <<up, i, n, quit, spc>>

\* Mutant: the ticker only flushes a batch that is full.
TickFlushFull ==
    /\ rpc = "select"
    /\ Len(batch) >= BatchMax
    /\ rpc' = "flush"
    /\ UNCHANGED <<up, ch, batch, i, n, quit, spc>>

\* A tick with an empty batch does nothing.
TickFlush ==
    /\ rpc = "select"
    /\ batch # <<>>
    /\ rpc' = "flush"
    /\ UNCHANGED <<up, ch, batch, i, n, quit, spc>>

\* One iteration of flush: postOne returns, with or without an error; the
\* client's timeout bounds it and nothing is retried.
PostOne ==
    /\ rpc \in {"flush", "lastflush"}
    /\ i < Len(batch)
    /\ i' = i + 1
    /\ UNCHANGED <<up, ch, batch, rpc, n, quit, spc>>

\* Mutant: run() leaves the loop when a flush is over.
FlushReturnExits ==
    /\ rpc = "flush"
    /\ i = Len(batch)
    /\ batch' = <<>>
    /\ i' = 0
    /\ rpc' = "done"
    /\ UNCHANGED <<up, ch, n, quit, spc>>

\* flush returns to the loop, which empties the batch.
FlushReturn ==
    /\ rpc = "flush"
    /\ i = Len(batch)
    /\ batch' = <<>>
    /\ i' = 0
    /\ rpc' = "select"
    /\ UNCHANGED <<up, ch, n, quit, spc>>

\* Mutant: quit is honoured only when the channel has been emptied first.
QuitCaseWhenEmpty ==
    /\ rpc = "select"
    /\ quit
    /\ ch = <<>>
    /\ n' = 0
    /\ rpc' = "drain"
    /\ UNCHANGED <<up, ch, batch, i, quit, spc>>

\* Mutant: the quit case returns without reading the channel.
QuitCaseNoDrain ==
    /\ rpc = "select"
    /\ quit
    /\ n' = 0
    /\ rpc' = "drain"
    /\ UNCHANGED <<up, ch, batch, i, quit, spc>>

\* The quit case takes the number of items buffered at this moment.
QuitCase ==
    /\ rpc = "select"
    /\ quit
    /\ n' = Len(ch)
    /\ rpc' = "drain"
    /\ UNCHANGED <<up, ch, batch, i, quit, spc>>

\* The receive would block on an empty channel.
DrainOne ==
    /\ rpc = "drain"
    /\ n > 0
    /\ ch # <<>>
    /\ ch' = Tail(ch)
    /\ batch' = Append(batch, Head(ch))
    /\ n' = n - 1
    /\ UNCHANGED <<up, i, rpc, quit, spc>>

\* Mutant: run() returns without posting what it has drained.
DrainEndNoFlush ==
    /\ rpc = "drain"
    /\ n = 0
    /\ rpc' = "done"
    /\ UNCHANGED <<up, ch, batch, i, n, quit, spc>>

\* The drain is over: post the batch if there is one, else return.
DrainEnd ==
    /\ rpc = "drain"
    /\ n = 0
    /\ rpc' = IF batch # <<>> THEN "lastflush" ELSE "done"
    /\ UNCHANGED <<up, ch, batch, i, n, quit, spc>>

\* The last flush is over and run() returns (wg.Done).
RunReturn ==
    /\ rpc = "lastflush"
    /\ i = Len(batch)
    /\ rpc' = "done"
    /\ UNCHANGED <<up, ch, batch, i, n, quit, spc>>

Run ==
    \/ RecvItem \/ TickFlush \/ PostOne \/ FlushReturn
    \/ QuitCase \/ DrainOne \/ DrainEnd \/ RunReturn

-----------------------------------------------------------------------------
(* Shutdown.                                                               *)

\* The call begins with stopUplink, which DebugUplink models.
ShutdownEnter(c) ==
    /\ spc[c] = "idle"
    /\ spc' = [spc EXCEPT ![c] = "stopUplink"]
    /\ UNCHANGED <<up, ch, batch, i, rpc, n, quit>>

\* Without a transmitter there is nothing to do; else the first call closes
\* quit (quitOnce) and every call goes on to wg.Wait.
ShutdownClose(c) ==
    /\ spc[c] = "stopUplink"
    /\ quit' = (quit \/ up)
    /\ spc' = [spc EXCEPT ![c] = IF up THEN "wait" ELSE "noop"]
    /\ UNCHANGED <<up, ch, batch, i, rpc, n>>

\* wg.Wait returns once run() has.
ShutdownReturn(c) ==
    /\ spc[c] = "wait"
    /\ rpc = "done"
    /\ spc' = [spc EXCEPT ![c] = "returned"]
    /\ UNCHANGED <<up, ch, batch, i, rpc, n, quit>>

-----------------------------------------------------------------------------

Next ==
    \/ InitTransmitter
    \/ \E x \in Items : NonBlockingPost(x)
    \/ Run
    \/ \E c \in Callers :
          ShutdownEnter(c) \/ ShutdownClose(c) \/ ShutdownReturn(c)

Spec == Init /\ [][Next]_vars

(***************************************************************************)
(* Fairness.  run() and a Shutdown call are goroutines: a step that stays  *)
(* enabled is taken.  Go's select chooses uniformly among its ready cases, *)
(* so a case that is ready again and again is not passed over for ever:    *)
(* strong fairness for the quit case.  postOne ends because http.Client    *)
(* has a Timeout.  Producers owe nothing.                                  *)
(***************************************************************************)
Fairness ==
    /\ WF_vars(RecvItem)
    /\ WF_vars(TickFlush)
    /\ WF_vars(PostOne)
    /\ WF_vars(FlushReturn)
    /\ SF_vars(QuitCase)
    /\ WF_vars(DrainOne)
    /\ WF_vars(DrainEnd)
    /\ WF_vars(RunReturn)
    /\ \A c \in Callers :
          WF_vars(ShutdownClose(c)) /\ WF_vars(ShutdownReturn(c))

FairSpec == Spec /\ Fairness

-----------------------------------------------------------------------------
(* Properties.                                                             *)

\* The final drain reads len(t.ch) items with a blocking receive although
\* producers still run: the items it still has to read are there, so run()
\* never blocks in the drain (the comment at transmitter.go:138 argues this
\* from run() being the only reader).
DrainNeverBlocks == rpc = "drain" => n <= Len(ch)

\* A Shutdown call always returns, even against producers that never stop
\* posting: the drain is bounded by what was buffered when it began.
ShutdownReturns ==
    \A c \in Callers :
        spc[c] = "stopUplink" ~> spc[c] \in {"returned", "noop"}

\* A full channel, which drops telemetry, drains again unless the transmitter
\* is being shut down.
FullQueueDrains == Len(ch) = ChanCap ~> (Len(ch) < ChanCap \/ quit)

\* A batch smaller than BatchMax does not wait for more items: the ticker
\* posts it.
PartialBatchIsFlushed ==
    (rpc = "select" /\ batch # <<>>) ~> rpc \in {"flush", "lastflush"}

=============================================================================
