---------------------------- MODULE OutputCapture ----------------------------
(***************************************************************************)
(* What the collector does to the output of the program.  Handler.Handle   *)
(* and LogWriter.Write (log_handler.go) write a log record to standard     *)
(* error and capture it under a re-entrancy guard, one flag for the whole  *)
(* process.  startPrintCapture (print_capture.go) makes standard output a  *)
(* pipe; a scanner goroutine reads it, shows each line on the original     *)
(* standard output and captures it; stopPrintCapture undoes that when a    *)
(* signal arrives.  A line captured is one handed to nonBlockingPost,      *)
(* which Transmitter specifies.                                            *)
(*                                                                         *)
(* A goroutine's calls are a stack: formatting a log record resolves its   *)
(* values (slog.LogValuer), which may log and print.                       *)
(***************************************************************************)
EXTENDS Naturals, Sequences, SequencesExt

CONSTANTS
    Goroutines,
    Main,       \* the goroutine whose return ends the process
    PipeCap,    \* how many lines fit in the pipe
    MaxCalls,   \* bound on the calls
    MaxDepth    \* bound on the depth of a stack

ASSUME MainAssumption == Main \in Goroutines
ASSUME PipeCapAssumption == PipeCap \in Nat \ {0}

VARIABLES
    lines,          \* every call made: its goroutine, kind and circumstances
    calls,          \* the stack of each goroutine, innermost call last
    inLogCapture,
    setup,          \* how SetupInterceptors has left standard output: "piped",
                    \*   "disabled", or "failed" when os.Pipe returned an error
    stdout,         \* os.Stdout
    pipe,           \* the lines in the pipe
    closed,         \* the files closed for writing, and "reader"
    scanner,        \* where the scanner goroutine is
    held,           \* the line it is at, or 0
    stop,           \* where stopPrintCapture is
    exited,         \* Main has returned
    accepted,       \* history: the lines written into the pipe, in order
    terminal,       \* history: the lines on the original stdout, in order
    posted,         \* history: the lines captured
    ignored,        \* history: the records that matched SF_LOG_IGNORE_REGEX
    lost            \* history: the prints whose write returned an error

pipes == <<setup, stdout, pipe, closed, scanner, held, stop, accepted, terminal>>
vars == <<lines, calls, inLogCapture, pipes, exited, posted, ignored, lost>>

Ids == DOMAIN lines
Top(g) == Last(calls[g])
At(g, pc) == ~exited /\ calls[g] # <<>> /\ Top(g).pc = pc
GoTo(g, pc) == calls' = [calls EXCEPT ![g][Len(calls[g])].pc = pc]
Return(g) == calls' = [calls EXCEPT ![g] = Front(@)]

\* SetupInterceptors has installed the log handler and started print capture,
\* unless SF_DISABLE_PRINT_CAPTURE is set. When os.Pipe fails, originalStdout
\* is set all the same. It is called once, before the program's own work.
Init ==
    /\ lines = <<>>
    /\ calls = [g \in Goroutines |-> <<>>]
    /\ inLogCapture = FALSE
    /\ setup \in {"piped", "disabled", "failed"}
    /\ stdout = IF setup = "piped" THEN "pipe" ELSE "terminal"
    /\ pipe = <<>>
    /\ closed = {}
    /\ scanner = IF setup = "piped" THEN "scan" ELSE "none"
    /\ held = 0
    /\ stop = "idle"
    /\ exited = FALSE
    /\ accepted = <<>>
    /\ terminal = <<>>
    /\ posted = {}
    /\ ignored = {}
    /\ lost = {}

\* A goroutine that is not in a call may make one; one that formats a log
\* record may be made to by the record's values.
MayCall(g) ==
    /\ ~exited
    /\ Len(lines) < MaxCalls
    /\ \/ calls[g] = <<>>
       \/ At(g, "format") /\ Len(calls[g]) < MaxDepth

Call(g, kind, pc, long) ==
    /\ MayCall(g)
    /\ lines' = Append(lines,
           [g |-> g, kind |-> kind, long |-> long, nested |-> calls[g] # <<>>,
            file |-> IF kind = "print" THEN stdout ELSE "stderr",
            during |-> IF kind = "print" /\ stop \in {"wait", "done"}
                       THEN stop ELSE "before"])
    /\ calls' = [calls EXCEPT ![g] =
           Append(@, [id |-> Len(lines) + 1, pc |-> pc])]
    /\ UNCHANGED <<inLogCapture, pipes, exited, posted, ignored, lost>>

-----------------------------------------------------------------------------
\* Logs.

\* The inner handler has formatted the record and written it to os.Stderr. What
\* its values call meanwhile is as if called before.
LogCall(g) == Call(g, "log", "cas", FALSE)

\* Mutant: the guard's release is deferred before the guard is taken.
LogGuardReleasedByAll(g) ==
    /\ At(g, "cas")
    /\ IF inLogCapture
       THEN Return(g) /\ inLogCapture' = FALSE
       ELSE GoTo(g, "format") /\ inLogCapture' = TRUE
    /\ UNCHANGED <<lines, pipes, exited, posted, ignored, lost>>

\* The compare-and-swap: when the guard is taken, the record is not captured.
LogGuard(g) ==
    /\ At(g, "cas")
    /\ IF inLogCapture
       THEN Return(g) /\ UNCHANGED inLogCapture
       ELSE GoTo(g, "format") /\ inLogCapture' = TRUE
    /\ UNCHANGED <<lines, pipes, exited, posted, ignored, lost>>

\* The record is formatted again and posted, unless SF_LOG_IGNORE_REGEX matches;
\* the deferred Store(false) releases the guard.
LogPost(g) ==
    /\ At(g, "format")
    /\ \/ posted' = posted \cup {Top(g).id} /\ UNCHANGED ignored
       \/ ignored' = ignored \cup {Top(g).id} /\ UNCHANGED posted
    /\ inLogCapture' = FALSE
    /\ Return(g)
    /\ UNCHANGED <<lines, pipes, exited, lost>>

-----------------------------------------------------------------------------
\* Prints.

\* fmt.Println of one line loads os.Stdout; for the pipe, the line may be
\* longer than the scanner's buffer.
PrintCall(g) ==
    \E long \in IF stdout = "pipe" THEN BOOLEAN ELSE {FALSE} :
        Call(g, "print", "write", long)

File(g) == lines[Top(g).id].file
Open(g) == /\ File(g) \notin closed
           /\ File(g) = "pipe" => "reader" \notin closed

Writing(g) == At(g, "write") \/ At(g, "rest")

\* Writes to a file are serialised, and block while the pipe is full: the rest
\* of a line goes before the others, once its beginning has been read.
MayWrite(g) ==
    /\ Open(g)
    /\ File(g) = "pipe" =>
          /\ Len(pipe) < PipeCap
          /\ At(g, "rest") => ~Contains(pipe, Top(g).id)
          /\ At(g, "write") => \A h \in Goroutines : ~At(h, "rest")

WriteTerminal(g) ==
    /\ At(g, "write") /\ File(g) = "terminal" /\ MayWrite(g)
    /\ terminal' = Append(terminal, Top(g).id)
    /\ Return(g)
    /\ UNCHANGED <<lines, inLogCapture, setup, stdout, pipe, closed, scanner, held, stop,
                   exited, accepted, posted, ignored, lost>>

\* A line that is too long does not fit in the pipe at once.
WritePipe(g) ==
    /\ At(g, "write") /\ File(g) = "pipe" /\ MayWrite(g)
    /\ pipe' = Append(pipe, Top(g).id)
    /\ accepted' = Append(accepted, Top(g).id)
    /\ IF lines[Top(g).id].long THEN GoTo(g, "rest") ELSE Return(g)
    /\ UNCHANGED <<lines, inLogCapture, setup, stdout, closed, scanner, held, stop,
                   exited, terminal, posted, ignored, lost>>

\* The rest of a long line fits in the pipe once the scanner has read most.
WriteRest(g) ==
    /\ At(g, "rest") /\ File(g) = "pipe" /\ MayWrite(g)
    /\ pipe' = Append(pipe, Top(g).id)
    /\ Return(g)
    /\ UNCHANGED <<lines, inLogCapture, setup, stdout, closed, scanner, held, stop,
                   exited, accepted, terminal, posted, ignored, lost>>

\* The write returns an error: ErrClosed after stopPrintCapture has closed the
\* file, EPIPE after the reader's file is gone.
WriteFails(g) ==
    /\ Writing(g) /\ ~Open(g)
    /\ lost' = lost \cup {Top(g).id}
    /\ Return(g)
    /\ UNCHANGED <<lines, inLogCapture, pipes, exited, posted, ignored>>

-----------------------------------------------------------------------------
\* The scanner goroutine.

\* Scan: the next line, or the end of the loop when the line does not fit in
\* the buffer of 1 MB. Of a long line whose write the close has cut short the
\* part that was written may fit.
Scan ==
    /\ ~exited /\ scanner = "scan" /\ pipe # <<>>
    /\ pipe' = Tail(pipe)
    /\ \/ /\ lines[Head(pipe)].long => "pipe" \in closed
          /\ scanner' = "show" /\ held' = Head(pipe)
       \/ /\ lines[Head(pipe)].long
          /\ scanner' = "done" /\ UNCHANGED held
    /\ UNCHANGED <<lines, calls, inLogCapture, setup, stdout, closed, stop, exited,
                   accepted, terminal, posted, ignored, lost>>

ScanEOF ==
    /\ ~exited /\ scanner = "scan" /\ pipe = <<>> /\ "pipe" \in closed
    /\ scanner' = "done"
    /\ UNCHANGED <<lines, calls, inLogCapture, setup, stdout, pipe, closed, held, stop,
                   exited, accepted, terminal, posted, ignored, lost>>

\* Mutant: a line is shown only if no log record is being captured.
ShowGuarded ==
    /\ ~exited /\ scanner = "show"
    /\ terminal' = IF inLogCapture THEN terminal ELSE Append(terminal, held)
    /\ scanner' = "capture"
    /\ UNCHANGED <<lines, calls, inLogCapture, setup, stdout, pipe, closed, held, stop,
                   exited, accepted, posted, ignored, lost>>

\* Fprintln to originalStdout.
Show ==
    /\ ~exited /\ scanner = "show"
    /\ terminal' = Append(terminal, held)
    /\ scanner' = "capture"
    /\ UNCHANGED <<lines, calls, inLogCapture, setup, stdout, pipe, closed, held, stop,
                   exited, accepted, posted, ignored, lost>>

\* Mutant: the post blocks when the queue is full.
CaptureBlocks ==
    /\ ~exited /\ scanner = "capture"
    /\ posted = {}
    /\ posted' = posted \cup {held}
    /\ scanner' = "scan" /\ held' = 0
    /\ UNCHANGED <<lines, calls, inLogCapture, setup, stdout, pipe, closed, stop, exited,
                   accepted, terminal, ignored, lost>>

\* The guard inPrintCapture is always free: no other goroutine takes it.
Capture ==
    /\ ~exited /\ scanner = "capture"
    /\ posted' = posted \cup {held}
    /\ scanner' = "scan" /\ held' = 0
    /\ UNCHANGED <<lines, calls, inLogCapture, setup, stdout, pipe, closed, stop, exited,
                   accepted, terminal, ignored, lost>>

\* The scanner has returned: nothing refers to the read end any more, and its
\* finalizer closes it at a garbage collection.
Finalize ==
    /\ ~exited /\ scanner = "done" /\ "reader" \notin closed
    /\ closed' = closed \cup {"reader"}
    /\ UNCHANGED <<lines, calls, inLogCapture, setup, stdout, pipe, scanner, held, stop,
                   exited, accepted, terminal, posted, ignored, lost>>

-----------------------------------------------------------------------------
\* Start, stop and the end of the process.

\* The signal goroutine has received its signal.
StopPrintCapture ==
    /\ ~exited /\ stop = "idle"
    /\ stop' = IF setup = "disabled" THEN "done" ELSE "close"
    /\ UNCHANGED <<lines, calls, inLogCapture, setup, stdout, pipe, closed, scanner, held,
                   exited, accepted, terminal, posted, ignored, lost>>

\* os.Stdout.Close(): the pipe, or the real file when there is no pipe. Writes
\* that block on it return.
StopClose ==
    /\ ~exited /\ stop = "close"
    /\ closed' = closed \cup {stdout}
    /\ stop' = "swap"
    /\ UNCHANGED <<lines, calls, inLogCapture, setup, stdout, pipe, scanner, held, exited,
                   accepted, terminal, posted, ignored, lost>>

StopSwap ==
    /\ ~exited /\ stop = "swap"
    /\ stdout' = "terminal"
    /\ stop' = "wait"
    /\ UNCHANGED <<lines, calls, inLogCapture, setup, pipe, closed, scanner, held, exited,
                   accepted, terminal, posted, ignored, lost>>

\* Mutant: the scanner is not waited for.
StopWaitNot ==
    /\ ~exited /\ stop = "wait"
    /\ stop' = "done"
    /\ UNCHANGED <<lines, calls, inLogCapture, setup, stdout, pipe, closed, scanner, held,
                   exited, accepted, terminal, posted, ignored, lost>>

\* printCaptureWg.Wait.
StopWait ==
    /\ ~exited /\ stop = "wait"
    /\ scanner \in {"none", "done"}
    /\ stop' = "done"
    /\ UNCHANGED <<lines, calls, inLogCapture, setup, stdout, pipe, closed, scanner, held,
                   exited, accepted, terminal, posted, ignored, lost>>

\* main returns. Its deferred Shutdown does not stop print capture.
Exit ==
    /\ ~exited /\ calls[Main] = <<>>
    /\ exited' = TRUE
    /\ UNCHANGED <<lines, calls, inLogCapture, pipes, posted, ignored, lost>>

-----------------------------------------------------------------------------

LogStep(g) == LogGuard(g) \/ LogPost(g)
WriteStep(g) == WriteTerminal(g) \/ WritePipe(g) \/ WriteRest(g) \/ WriteFails(g)
ScannerStep == Scan \/ ScanEOF \/ Show \/ Capture
StopStep == StopClose \/ StopSwap \/ StopWait

Next ==
    \/ \E g \in Goroutines : LogCall(g) \/ LogStep(g) \/ PrintCall(g) \/ WriteStep(g)
    \/ ScannerStep
    \/ Finalize
    \/ StopPrintCapture
    \/ StopStep
    \/ Exit

Spec == Init /\ [][Next]_vars

\* Goroutines run; writers that wait for the same file are served in turn, so
\* one that can write again and again does; the runtime collects garbage at
\* least every two minutes.
Fairness ==
    /\ \A g \in Goroutines :
          /\ WF_vars(LogStep(g))
          /\ WF_vars(WriteTerminal(g)) /\ SF_vars(WritePipe(g))
          /\ WF_vars(WriteRest(g)) /\ WF_vars(WriteFails(g))
    /\ WF_vars(ScannerStep)
    /\ WF_vars(Finalize)
    /\ WF_vars(StopStep)

FairSpec == Spec /\ Fairness

-----------------------------------------------------------------------------
\* Properties.

PCs == {"cas", "format", "write", "rest"}
Frames == [id : Nat, pc : PCs]
Lines == [g : Goroutines, kind : {"log", "print"}, long : BOOLEAN, nested : BOOLEAN,
          file : {"terminal", "pipe", "stderr"}, during : {"before", "wait", "done"}]
NoLongLine == \A id \in Ids : ~lines[id].long
InPipe(id) == lines[id].file = "pipe"

\* The variables have their types; every call on a stack is one that was made.
TypeOK ==
    /\ lines \in Seq(Lines)
    /\ calls \in [Goroutines -> Seq(Frames)]
    /\ \A g \in Goroutines : \A k \in DOMAIN calls[g] : calls[g][k].id \in Ids
    /\ inLogCapture \in BOOLEAN
    /\ setup \in {"piped", "disabled", "failed"}
    /\ stdout \in {"terminal", "pipe"}
    /\ closed \subseteq {"terminal", "pipe", "reader"}
    /\ scanner \in {"none", "scan", "show", "capture", "done"}
    /\ stop \in {"idle", "close", "swap", "wait", "done"}
    /\ exited \in BOOLEAN
    /\ held \in Ids \cup {0} /\ (held # 0 <=> scanner \in {"show", "capture"})
    /\ pipe \in Seq(Ids) /\ accepted \in Seq(Ids) /\ terminal \in Seq(Ids)
    /\ Len(pipe) <= PipeCap
    /\ posted \subseteq Ids /\ ignored \subseteq Ids /\ lost \subseteq Ids

Formats(g, k) == calls[g][k].pc = "format"

\* The guard inLogCapture is set exactly while one call in the whole process
\* captures its record: two never do at a time, a record logged while another
\* is formatted is not captured, and the guard is never left behind.
GuardHeldByOne ==
    /\ inLogCapture <=> \E g \in Goroutines : \E k \in DOMAIN calls[g] : Formats(g, k)
    /\ \A g, h \in Goroutines : \A j \in DOMAIN calls[g], k \in DOMAIN calls[h] :
          Formats(g, j) /\ Formats(h, k) => g = h /\ j = k

\* How many of the lines accepted have been shown: the others are in the pipe
\* and, before it shows the line it holds, at the scanner.
AtScanner == IF scanner = "show" THEN 1 ELSE 0
Shown == Len(accepted) - Len(pipe) - AtScanner

\* The lines on the original stdout that came through the pipe are the first n
\* that were accepted, in this order: the k-th stands at position at[k].
OnTerminal(n) ==
    \E at \in [1..n -> DOMAIN terminal] :
        /\ \A k \in 1..n : terminal[at[k]] = accepted[k]
        /\ \A j, k \in 1..n : j < k => at[j] < at[k]
        /\ \A i \in DOMAIN terminal : InPipe(terminal[i]) => \E k \in 1..n : at[k] = i

\* The pipe is a FIFO to the original stdout: what was written into it is,
\* in this order, on the original stdout, at the scanner or in the pipe, each
\* line once; and a print is captured when it has been shown. Only a line
\* longer than the scanner's buffer ends this.
ConveyedInOrder ==
    (scanner = "done" => NoLongLine) =>
        /\ Shown \in Nat
        /\ OnTerminal(Shown)
        /\ scanner = "show" => held = accepted[Shown + 1]
        /\ \A k \in DOMAIN pipe : pipe[k] = accepted[Shown + AtScanner + k]
        /\ {id \in posted : lines[id].kind = "print"}
              = {accepted[k] : k \in 1..Shown}
                    \ (IF scanner = "capture" THEN {held} ELSE {})

\* When stopPrintCapture has returned, every line whose write into the pipe
\* succeeded is on the original stdout and captured, unless a line was longer
\* than the scanner's buffer.
StopDrains ==
    stop = "done" /\ NoLongLine =>
        ToSet(accepted) \subseteq ToSet(terminal) \cap posted

\* A goroutine's lines appear in the order in which it printed them, except
\* that one printed between the restoring of os.Stdout and the end of
\* stopPrintCapture may overtake earlier ones, still in the pipe.
OvertakenOnlyWhileStopping ==
    \A i, j \in DOMAIN terminal :
        /\ i < j
        /\ lines[terminal[i]].g = lines[terminal[j]].g
        /\ terminal[i] > terminal[j]
        => lines[terminal[i]].during = "wait" /\ InPipe(terminal[j])

\* A print that begins after stopPrintCapture has returned is not lost, if the
\* pipe could be made when it was started.
PrintsAfterStop ==
    setup # "failed" =>
        \A id \in lost : lines[id].during # "done"

\* stopPrintCapture keeps its promise on either side of it: nothing is left in
\* the pipe, nothing is lost later, and while it waits at most the newest
\* lines, which no longer take the way through the pipe, are out of order.
StopIsOrderly == StopDrains /\ OvertakenOnlyWhileStopping /\ PrintsAfterStop

\* A print returns unless the process ends: also when the pipe is full and the
\* scanner has died of a long line, and whether or not a stop is under way; and
\* stopPrintCapture, which the flush at a signal waits for, returns.
OutputCallsReturn ==
    /\ \A g \in Goroutines : Writing(g) ~> ~Writing(g)
    /\ stop = "close" ~> (stop = "done" \/ exited)

-----------------------------------------------------------------------------
\* Who waits for whom.

\* The scanner goroutine, or the finalizer of its file, has a step to take.
ScannerMayGo ==
    /\ ~exited
    /\ \/ scanner = "scan" /\ (pipe # <<>> \/ "pipe" \in closed)
       \/ scanner \in {"show", "capture"}
       \/ scanner = "done" /\ "reader" \notin closed

\* Nobody waits for ever on the others: while a print is being written, it or
\* another one may be written, or returns an error, or the scanner goes on and
\* makes room; and while stopPrintCapture waits, the scanner goes on or is over.
\* A pipe that is full, a scanner that has died of a long line, and a stop do
\* not add up to a deadlock, whatever the size of the pipe.
NobodyIsStuck ==
    /\ (\E g \in Goroutines : Writing(g)) =>
          \/ ScannerMayGo
          \/ \E g \in Goroutines : Writing(g) /\ (MayWrite(g) \/ ~Open(g))
    /\ stop = "wait" /\ ~exited => ScannerMayGo \/ scanner \in {"none", "done"}

-----------------------------------------------------------------------------
\* The inductive invariant.

\* Only the innermost call of a goroutine does not format, and is its newest
\* line; a print being written was not accepted, and the rest of a long one is
\* written behind its beginning.
InOrder(g, k) ==
    LET id == calls[g][k].id
        pc == calls[g][k].pc
    IN  /\ lines[id].g = g
        /\ lines[id].kind = "log" <=> pc \in {"cas", "format"}
        /\ pc = "rest" => lines[id].long
        /\ k < Len(calls[g]) => pc = "format"
        /\ pc # "format" => \A y \in Ids : lines[y].g = g => y <= id
        /\ pc = "write" => \A i \in DOMAIN accepted : accepted[i] # id
        /\ pc = "rest" /\ "pipe" \notin closed /\ scanner # "done"
              => \E i \in DOMAIN pipe : pipe[i] = id

CallsInOrder == \A g \in Goroutines : \A k \in DOMAIN calls[g] : InOrder(g, k)

\* Where a line goes tells when it was printed.
LinesAreDated ==
    \A id \in Ids :
        /\ lines[id].kind = "log" <=> lines[id].file = "stderr"
        /\ lines[id].long => InPipe(id)
        /\ InPipe(id) => setup = "piped"
        /\ setup = "piped" /\ lines[id].file = "terminal" => lines[id].during # "before"
        /\ lines[id].during = "done" => stop = "done" /\ lines[id].file = "terminal"

\* How far stopPrintCapture has come tells which files are open, and where new
\* prints go.
StopInOrder ==
    /\ setup = "piped" =>
          /\ stdout = "pipe" <=> stop \in {"idle", "close", "swap"}
          /\ "pipe" \in closed <=> stop \in {"swap", "wait", "done"}
          /\ "terminal" \notin closed
          /\ scanner # "none"
          /\ stop = "done" => scanner = "done"
    /\ setup # "piped" =>
          stdout = "terminal" /\ scanner = "none" /\ accepted = <<>> /\ pipe = <<>>
    /\ setup = "disabled" => closed = {} /\ stop \in {"idle", "done"}

\* Lines come out of their goroutine in order, each once; the scanner leaves a
\* line when it is captured, and an empty pipe when it has met the end.
PipeInOrder ==
    /\ \A i \in DOMAIN accepted : InPipe(accepted[i])
    /\ \A i, j \in DOMAIN accepted : i < j =>
          /\ accepted[i] # accepted[j]
          /\ lines[accepted[i]].g = lines[accepted[j]].g => accepted[i] < accepted[j]
    /\ \A i \in DOMAIN terminal : lines[terminal[i]].kind = "print"
    /\ scanner = "capture" => Shown > 0 /\ held = accepted[Shown]
    /\ scanner = "done" /\ NoLongLine => pipe = <<>> /\ "pipe" \in closed

\* The invariant of the guard, of the calls that compete for it, and of what
\* conveys the prints.
OutputInv ==
    /\ TypeOK
    /\ GuardHeldByOne
    /\ CallsInOrder
    /\ LinesAreDated
    /\ StopInOrder
    /\ PipeInOrder

=============================================================================
