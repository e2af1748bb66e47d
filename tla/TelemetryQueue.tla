---------------------------- MODULE TelemetryQueue ----------------------------
(***************************************************************************)
(* What nonBlockingPost and Shutdown promise to the code that uses them,   *)
(* without channel, batch, ticker or drain: a lossy FIFO log.              *)
(*   - an item is accepted into the log or dropped when it is submitted;   *)
(*   - accepted items are tried one by one, in the order of acceptance,    *)
(*     each once; an attempt reaches the collector or is lost;             *)
(*   - a Shutdown call returns only when everything that was accepted      *)
(*     before the queue was closed has been tried, and nothing is tried    *)
(*     after any such call has returned.                                   *)
(***************************************************************************)
EXTENDS Naturals, Sequences

CONSTANTS
    Items,      \* the telemetry items
    Callers     \* the goroutines that call Shutdown

VARIABLES
    log,        \* every item accepted so far
    tried,      \* how many items of the log have been tried
    arrived,    \* the items that reached the collector
    closed,     \* some Shutdown call has closed the queue
    mark,       \* the length of the log when it was closed
    ended       \* the Shutdown calls that have returned

avars == <<log, tried, arrived, closed, mark, ended>>

Init ==
    /\ log = <<>>
    /\ tried = 0
    /\ arrived = <<>>
    /\ closed = FALSE
    /\ mark = 0
    /\ ended = {}

Accept(x) ==
    /\ log' = Append(log, x)
    /\ UNCHANGED <<tried, arrived, closed, mark, ended>>

Try ==
    /\ ended = {}
    /\ tried < Len(log)
    /\ tried' = tried + 1
    /\ arrived' \in {arrived, Append(arrived, log[tried + 1])}
    /\ UNCHANGED <<log, closed, mark, ended>>

Close ==
    /\ ~closed
    /\ closed' = TRUE
    /\ mark' = Len(log)
    /\ UNCHANGED <<log, tried, arrived, ended>>

Return(c) ==
    /\ closed
    /\ tried >= mark
    /\ ended' = ended \cup {c}
    /\ UNCHANGED <<log, tried, arrived, closed, mark>>

Next ==
    \/ \E x \in Items : Accept(x)
    \/ Try
    \/ Close
    \/ \E c \in Callers : Return(c)

Spec == Init /\ [][Next]_avars

=============================================================================
