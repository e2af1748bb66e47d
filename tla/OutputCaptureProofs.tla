------------------------- MODULE OutputCaptureProofs -------------------------
(***************************************************************************)
(* The capture of logs and prints, proved for every number of goroutines,  *)
(* calls and nested calls, and every size of the pipe.  OutputInv, with    *)
(* the two properties it was made for, is inductive.                       *)
(***************************************************************************)
EXTENDS OutputCapture, SequenceTheorems, TLAPS

-----------------------------------------------------------------------------
(* Types.                                                                  *)

\* What the types say of the elements of the sequences.
LEMMA Typed ==
    ASSUME TypeOK
    PROVE  /\ Len(lines) \in Nat /\ Ids = 1..Len(lines)
           /\ \A id \in Ids : lines[id] \in Lines
           /\ Len(pipe) \in Nat /\ DOMAIN pipe = 1..Len(pipe)
           /\ \A i \in 1..Len(pipe) : pipe[i] \in Ids
           /\ Len(accepted) \in Nat /\ DOMAIN accepted = 1..Len(accepted)
           /\ \A i \in 1..Len(accepted) : accepted[i] \in Ids
           /\ Len(terminal) \in Nat /\ DOMAIN terminal = 1..Len(terminal)
           /\ \A i \in 1..Len(terminal) : terminal[i] \in Ids
<1>1. Len(lines) \in Nat /\ Ids = 1..Len(lines) /\ \A id \in 1..Len(lines) : lines[id] \in Lines
  BY LenProperties, ElementOfSeq DEF TypeOK, Ids
<1>2. Len(pipe) \in Nat /\ DOMAIN pipe = 1..Len(pipe) /\ \A i \in 1..Len(pipe) : pipe[i] \in Ids
  BY LenProperties, ElementOfSeq DEF TypeOK
<1>3. Len(accepted) \in Nat /\ DOMAIN accepted = 1..Len(accepted)
      /\ \A i \in 1..Len(accepted) : accepted[i] \in Ids
  BY LenProperties, ElementOfSeq DEF TypeOK
<1>4. Len(terminal) \in Nat /\ DOMAIN terminal = 1..Len(terminal)
      /\ \A i \in 1..Len(terminal) : terminal[i] \in Ids
  BY LenProperties, ElementOfSeq DEF TypeOK
<1> QED BY <1>1, <1>2, <1>3, <1>4

\* What the types say of the stack of a goroutine.
LEMMA StackTyped ==
    ASSUME TypeOK, NEW g \in Goroutines
    PROVE  /\ calls[g] \in Seq(Frames)
           /\ Len(calls[g]) \in Nat /\ DOMAIN calls[g] = 1..Len(calls[g])
           /\ \A k \in 1..Len(calls[g]) : calls[g][k] \in Frames /\ calls[g][k].id \in Ids
           /\ calls[g] # <<>> => Len(calls[g]) \in 1..Len(calls[g])
<1>1. calls[g] \in Seq(Frames)
  BY DEF TypeOK
<1>2. Len(calls[g]) \in Nat /\ DOMAIN calls[g] = 1..Len(calls[g])
      /\ \A k \in 1..Len(calls[g]) : calls[g][k] \in Frames
  BY <1>1, LenProperties, ElementOfSeq
<1>3. calls[g] # <<>> => Len(calls[g]) \in Nat \ {0}
  BY <1>1, EmptySeq
<1> QED BY <1>1, <1>2, <1>3 DEF TypeOK

\* The innermost call of a goroutine that is at pc.
LEMMA TopTyped ==
    ASSUME TypeOK, NEW g \in Goroutines, NEW pc, At(g, pc)
    PROVE  /\ Top(g) = calls[g][Len(calls[g])] /\ Top(g).pc = pc
           /\ Top(g) \in Frames /\ Top(g).id \in Ids
           /\ Len(calls[g]) \in 1..Len(calls[g])
BY StackTyped DEF At, Top, Last

\* What a step does to the stacks: g calls, goes on, or returns.
Others(g) == \A h \in Goroutines : h # g => calls'[h] = calls[h]
Pushed(g, c) ==
    /\ Others(g)
    /\ Len(calls'[g]) = Len(calls[g]) + 1
    /\ \A k \in 1..Len(calls[g]) : calls'[g][k] = calls[g][k]
    /\ calls'[g][Len(calls[g]) + 1] = c
Moved(g, pc) ==
    /\ Others(g)
    /\ Len(calls'[g]) = Len(calls[g])
    /\ \A k \in 1..Len(calls[g]) : k # Len(calls[g]) => calls'[g][k] = calls[g][k]
    /\ calls'[g][Len(calls[g])] = [id |-> Top(g).id, pc |-> pc]
Popped(g) ==
    /\ Others(g)
    /\ Len(calls'[g]) = Len(calls[g]) - 1
    /\ \A k \in 1..(Len(calls[g]) - 1) : calls'[g][k] = calls[g][k]

LEMMA Pushing ==
    ASSUME TypeOK, NEW g \in Goroutines, NEW c \in Frames,
           calls' = [calls EXCEPT ![g] = Append(@, c)]
    PROVE  Pushed(g, c) /\ calls' \in [Goroutines -> Seq(Frames)]
<1>1. calls'[g] = Append(calls[g], c) /\ Others(g)
  BY DEF TypeOK, Others
<1>2. calls[g] \in Seq(Frames)
  BY StackTyped
<1>3. /\ Append(calls[g], c) \in Seq(Frames)
      /\ Len(Append(calls[g], c)) = Len(calls[g]) + 1
      /\ \A k \in 1..Len(calls[g]) : Append(calls[g], c)[k] = calls[g][k]
      /\ Append(calls[g], c)[Len(calls[g]) + 1] = c
  BY <1>2, AppendProperties
<1> QED BY <1>1, <1>3 DEF Pushed, TypeOK

LEMMA Moving ==
    ASSUME TypeOK, NEW g \in Goroutines, NEW pc \in PCs, calls[g] # <<>>, GoTo(g, pc)
    PROVE  Moved(g, pc) /\ calls' \in [Goroutines -> Seq(Frames)]
<1> DEFINE n == Len(calls[g])
           c == [calls[g][n] EXCEPT !.pc = pc]
<1>1. calls[g] \in Seq(Frames) /\ n \in 1..n /\ calls[g][n] \in Frames
  BY StackTyped
<1>2. c \in Frames /\ c = [id |-> Top(g).id, pc |-> pc]
  BY <1>1 DEF Frames, Top, Last
<1> HIDE DEF c
<1>3. /\ [calls[g] EXCEPT ![n] = c] \in Seq(Frames)
      /\ Len([calls[g] EXCEPT ![n] = c]) = n
      /\ \A j \in 1..n : [calls[g] EXCEPT ![n] = c][j] = IF j = n THEN c ELSE calls[g][j]
  BY <1>1, <1>2, ExceptSeq
<1>4. calls' = [calls EXCEPT ![g] = [calls[g] EXCEPT ![n] = c]]
  BY DEF GoTo, c
<1>5. calls'[g] = [calls[g] EXCEPT ![n] = c] /\ Others(g)
  BY <1>4 DEF TypeOK, Others
<1> QED BY <1>1, <1>2, <1>3, <1>4, <1>5 DEF Moved, TypeOK

LEMMA Popping ==
    ASSUME TypeOK, NEW g \in Goroutines, calls[g] # <<>>, Return(g)
    PROVE  Popped(g) /\ calls' \in [Goroutines -> Seq(Frames)]
<1> DEFINE n == Len(calls[g])
           f == SubSeq(calls[g], 1, n - 1)
<1>1. n \in Nat \ {0} /\ \A k \in 1..(n - 1) : calls[g][k] \in Frames
  BY StackTyped
<1>2. f \in Seq(Frames) /\ Len(f) = n - 1 /\ \A k \in 1..(n - 1) : f[k] = calls[g][k]
  <2>1. /\ f \in Seq(Frames)
        /\ Len(f) = IF 1 <= n - 1 THEN (n - 1) - 1 + 1 ELSE 0
        /\ \A i \in 1..((n - 1) - 1 + 1) : f[i] = calls[g][1 + i - 1]
    BY <1>1, SubSeqProperties
  <2> QED BY <1>1, <2>1
<1>3. calls' = [calls EXCEPT ![g] = f]
  BY DEF Return, Front
<1> HIDE DEF f
<1>4. calls'[g] = f /\ Others(g)
  BY <1>3 DEF TypeOK, Others
<1> QED BY <1>2, <1>3, <1>4 DEF Popped, TypeOK

\* The stacks after a step, in which calls are of known lines.
LEMMA StacksStep ==
    ASSUME TypeOK, Ids \subseteq Ids', calls' \in [Goroutines -> Seq(Frames)],
           NEW g \in Goroutines,
           \/ UNCHANGED calls
           \/ \E pc \in PCs : Moved(g, pc) /\ calls[g] # <<>>
           \/ Popped(g)
           \/ \E c \in Frames : Pushed(g, c) /\ c.id \in Ids'
    PROVE  \A h \in Goroutines : \A k \in DOMAIN calls'[h] : calls'[h][k].id \in Ids'
<1> SUFFICES ASSUME NEW h \in Goroutines, NEW k \in DOMAIN calls'[h]
             PROVE  calls'[h][k].id \in Ids'
  OBVIOUS
<1>1. k \in 1..Len(calls'[h]) /\ Len(calls'[h]) \in Nat
  BY LenProperties
<1>2. /\ Len(calls[h]) \in Nat /\ DOMAIN calls[h] = 1..Len(calls[h])
      /\ \A j \in 1..Len(calls[h]) : calls[h][j].id \in Ids
      /\ calls[h] # <<>> => Len(calls[h]) \in 1..Len(calls[h])
  BY StackTyped
<1>3. CASE calls'[h] = calls[h]
  BY <1>1, <1>2, <1>3
<1>4. CASE h = g /\ calls'[h] # calls[h]
  <2>1. ASSUME NEW pc \in PCs, Moved(g, pc), calls[g] # <<>> PROVE calls'[h][k].id \in Ids'
    BY <1>1, <1>2, <1>4, <2>1 DEF Moved, Top, Last
  <2>2. CASE Popped(g)
    BY <1>1, <1>2, <1>4, <2>2 DEF Popped
  <2>3. ASSUME NEW c \in Frames, Pushed(g, c), c.id \in Ids' PROVE calls'[h][k].id \in Ids'
    BY <1>1, <1>2, <1>4, <2>3 DEF Pushed
  <2> QED BY <1>4, <2>1, <2>2, <2>3
<1> QED BY <1>3, <1>4 DEF Moved, Popped, Pushed, Others

\* A call adds a line and a frame for it.
NewLine(g, kind, long) ==
    [g |-> g, kind |-> kind, long |-> long, nested |-> calls[g] # <<>>,
     file |-> IF kind = "print" THEN stdout ELSE "stderr",
     during |-> IF kind = "print" /\ stop \in {"wait", "done"} THEN stop ELSE "before"]

LEMMA Calling ==
    ASSUME TypeOK, NEW g \in Goroutines, NEW kind \in {"log", "print"},
           NEW pc \in PCs, NEW long \in BOOLEAN, Call(g, kind, pc, long)
    PROVE  /\ TypeOK'
           /\ Pushed(g, [id |-> Len(lines) + 1, pc |-> pc])
           /\ calls[g] = <<>> \/ At(g, "format")
           /\ Ids' = Ids \cup {Len(lines) + 1}
           /\ \A id \in Ids : lines'[id] = lines[id]
           /\ lines'[Len(lines) + 1] = NewLine(g, kind, long)
<1> DEFINE c == [id |-> Len(lines) + 1, pc |-> pc]
           l == NewLine(g, kind, long)
<1>1. Len(lines) \in Nat /\ Ids = 1..Len(lines) /\ lines \in Seq(Lines)
  BY Typed DEF TypeOK
<1>2. l \in Lines
  BY DEF NewLine, Lines, TypeOK
<1>3. c \in Frames
  BY <1>1 DEF Frames
<1>4. lines' = Append(lines, l) /\ calls' = [calls EXCEPT ![g] = Append(@, c)]
  BY DEF Call, NewLine
<1> HIDE DEF c, l
<1>5. /\ lines' \in Seq(Lines)
      /\ Len(lines') = Len(lines) + 1
      /\ \A id \in 1..Len(lines) : lines'[id] = lines[id]
      /\ lines'[Len(lines) + 1] = l
  BY <1>1, <1>2, <1>4, AppendProperties
<1>6. Ids' = 1..(Len(lines) + 1)
  BY <1>5, LenProperties DEF Ids
<1>7. Pushed(g, c) /\ calls' \in [Goroutines -> Seq(Frames)]
  BY <1>3, <1>4, Pushing
<1>8. Ids \subseteq Ids' /\ c.id \in Ids'
  BY <1>1, <1>6 DEF c
<1>9. \A h \in Goroutines : \A k \in DOMAIN calls'[h] : calls'[h][k].id \in Ids'
  BY <1>3, <1>7, <1>8, StacksStep
<1>10. pipe \in Seq(Ids') /\ accepted \in Seq(Ids') /\ terminal \in Seq(Ids')
  BY <1>8, SeqMonotonic DEF TypeOK
<1>11. UNCHANGED <<inLogCapture, pipes, exited, posted, ignored, lost>>
  BY DEF Call
<1>12. TypeOK'
  <2> USE DEF TypeOK
  <2>1. /\ inLogCapture' \in BOOLEAN
        /\ setup' \in {"piped", "disabled", "failed"}
        /\ stdout' \in {"terminal", "pipe"}
        /\ closed' \subseteq {"terminal", "pipe", "reader"}
        /\ scanner' \in {"none", "scan", "show", "capture", "done"}
        /\ stop' \in {"idle", "close", "swap", "wait", "done"}
        /\ exited' \in BOOLEAN
        /\ Len(pipe') <= PipeCap
    BY <1>11 DEF pipes
  <2>2. /\ held' \in Ids' \cup {0}
        /\ pipe' \in Seq(Ids') /\ accepted' \in Seq(Ids') /\ terminal' \in Seq(Ids')
        /\ posted' \subseteq Ids' /\ ignored' \subseteq Ids' /\ lost' \subseteq Ids'
    BY <1>8, <1>10, <1>11 DEF pipes
  <2>3. held' # 0 <=> scanner' \in {"show", "capture"}
    BY <1>11 DEF pipes
  <2> QED BY <1>5, <1>7, <1>9, <2>1, <2>2, <2>3
<1>13. calls[g] = <<>> \/ At(g, "format")
  BY DEF Call, MayCall
<1> QED BY <1>1, <1>5, <1>6, <1>7, <1>12, <1>13 DEF c, l

\* The others leave the lines as they are.
LEMMA LinesKept ==
    ASSUME UNCHANGED lines
    PROVE  Ids' = Ids
BY DEF Ids

\* Appending a line, or taking the first away.
LEMMA Extended ==
    ASSUME TypeOK, NEW s \in Seq(Ids), NEW id \in Ids, NEW t, t = Append(s, id)
    PROVE  /\ t \in Seq(Ids) /\ Len(s) \in Nat /\ Len(t) = Len(s) + 1
           /\ DOMAIN t = 1..Len(t)
           /\ \A i \in 1..Len(s) : t[i] = s[i]
           /\ t[Len(s) + 1] = id
BY AppendProperties, LenProperties

LEMMA Shortened ==
    ASSUME TypeOK, NEW s \in Seq(Ids), s # <<>>, NEW t, t = Tail(s)
    PROVE  /\ t \in Seq(Ids) /\ Len(s) \in Nat \ {0} /\ Len(t) = Len(s) - 1
           /\ DOMAIN t = 1..Len(t)
           /\ \A i \in 1..Len(t) : t[i] = s[i + 1]
           /\ Head(s) = s[1] /\ Head(s) \in Ids
BY HeadTailProperties, LenProperties, EmptySeq

LEMMA TypeStep == TypeOK /\ [Next]_vars => TypeOK'
<1> SUFFICES ASSUME TypeOK, [Next]_vars PROVE TypeOK'
  OBVIOUS
<1>1. CASE UNCHANGED vars
  BY <1>1 DEF TypeOK, vars, pipes, Ids
<1>2. ASSUME NEW g \in Goroutines, LogCall(g) PROVE TypeOK'
  BY <1>2, Calling DEF LogCall, PCs
<1>3. ASSUME NEW g \in Goroutines, PrintCall(g) PROVE TypeOK'
  <2>1. PICK long \in BOOLEAN : Call(g, "print", "write", long)
    BY <1>3 DEF PrintCall
  <2> QED BY <2>1, Calling DEF PCs
<1>4. ASSUME NEW g \in Goroutines, LogGuard(g) PROVE TypeOK'
  <2>1. calls[g] # <<>> /\ (Return(g) \/ GoTo(g, "format"))
    BY <1>4 DEF LogGuard, At
  <2>2. /\ calls' \in [Goroutines -> Seq(Frames)]
        /\ Popped(g) \/ \E pc \in PCs : Moved(g, pc) /\ calls[g] # <<>>
    <3>1. "format" \in PCs
      BY DEF PCs
    <3> QED BY <2>1, <3>1, Popping, Moving
  <2>3. Ids' = Ids
    BY <1>4, LinesKept DEF LogGuard
  <2>4. \A h \in Goroutines : \A k \in DOMAIN calls'[h] : calls'[h][k].id \in Ids'
    BY <2>2, <2>3, StacksStep
  <2> QED BY <1>4, <2>2, <2>3, <2>4 DEF LogGuard, TypeOK, pipes
<1>5. ASSUME NEW g \in Goroutines,
             calls[g] # <<>>, Return(g), UNCHANGED lines
      PROVE  /\ Ids' = Ids
             /\ calls' \in [Goroutines -> Seq(Frames)]
             /\ \A h \in Goroutines : \A k \in DOMAIN calls'[h] : calls'[h][k].id \in Ids'
  <2>1. Popped(g) /\ calls' \in [Goroutines -> Seq(Frames)]
    BY <1>5, Popping
  <2>2. Ids' = Ids
    BY <1>5, LinesKept
  <2> QED BY <2>1, <2>2, StacksStep
<1>6. ASSUME NEW g \in Goroutines, LogPost(g) PROVE TypeOK'
  <2>1. Top(g).id \in Ids /\ calls[g] # <<>>
    BY <1>6, TopTyped DEF LogPost, At
  <2>2. Return(g) /\ UNCHANGED lines
    BY <1>6 DEF LogPost
  <2>3. posted' \subseteq Ids /\ ignored' \subseteq Ids
    BY <1>6, <2>1 DEF LogPost, TypeOK
  <2>4. UNCHANGED <<lines, pipes, exited, lost>> /\ inLogCapture' = FALSE
    BY <1>6 DEF LogPost
  <2> QED BY <1>5, <2>1, <2>2, <2>3, <2>4 DEF TypeOK, pipes
<1>7. ASSUME NEW g \in Goroutines, WriteTerminal(g) PROVE TypeOK'
  <2>1. Top(g).id \in Ids /\ calls[g] # <<>>
    BY <1>7, TopTyped DEF WriteTerminal, At
  <2>2. Return(g) /\ UNCHANGED lines
    BY <1>7 DEF WriteTerminal
  <2>3. terminal' \in Seq(Ids)
    BY <1>7, <2>1, Extended DEF WriteTerminal, TypeOK
  <2> QED BY <1>5, <1>7, <2>1, <2>2, <2>3 DEF WriteTerminal, TypeOK
<1>8. ASSUME NEW g \in Goroutines, WritePipe(g) PROVE TypeOK'
  <2>1. Top(g).id \in Ids /\ calls[g] # <<>>
    BY <1>8, TopTyped DEF WritePipe, At
  <2>2. UNCHANGED lines /\ (GoTo(g, "rest") \/ Return(g))
    BY <1>8 DEF WritePipe
  <2>3. accepted' \in Seq(Ids) /\ pipe' \in Seq(Ids) /\ Len(pipe') <= PipeCap
    <3>1. accepted' \in Seq(Ids)
      BY <1>8, <2>1, Extended DEF WritePipe, TypeOK
    <3>2. pipe' \in Seq(Ids) /\ Len(pipe) \in Nat /\ Len(pipe') = Len(pipe) + 1
      BY <1>8, <2>1, Extended DEF WritePipe, TypeOK
    <3> QED BY <1>8, <3>1, <3>2, PipeCapAssumption DEF MayWrite, WritePipe
  <2>4. /\ Ids' = Ids
        /\ calls' \in [Goroutines -> Seq(Frames)]
        /\ \A h \in Goroutines : \A k \in DOMAIN calls'[h] : calls'[h][k].id \in Ids'
    <3>1. CASE GoTo(g, "rest")
      <4>1. "rest" \in PCs
        BY DEF PCs
      <4>2. Moved(g, "rest") /\ calls' \in [Goroutines -> Seq(Frames)]
        BY <2>1, <3>1, <4>1, Moving
      <4>3. Ids' = Ids
        BY <2>2, LinesKept
      <4> QED BY <2>1, <4>1, <4>2, <4>3, StacksStep
    <3> QED BY <1>5, <2>1, <2>2, <3>1
  <2> QED BY <1>8, <2>3, <2>4 DEF WritePipe, TypeOK
<1>9. ASSUME NEW g \in Goroutines, WriteRest(g) PROVE TypeOK'
  <2>1. Top(g).id \in Ids /\ calls[g] # <<>>
    BY <1>9, TopTyped DEF WriteRest, At
  <2>2. Return(g) /\ UNCHANGED lines
    BY <1>9 DEF WriteRest
  <2>3. pipe' \in Seq(Ids) /\ Len(pipe) \in Nat /\ Len(pipe') = Len(pipe) + 1
    BY <1>9, <2>1, Extended DEF WriteRest, TypeOK
  <2>4. Len(pipe') <= PipeCap
    BY <1>9, <2>3, PipeCapAssumption DEF MayWrite, WriteRest
  <2> QED BY <1>5, <1>9, <2>1, <2>2, <2>3, <2>4 DEF WriteRest, TypeOK
<1>10. ASSUME NEW g \in Goroutines, WriteFails(g) PROVE TypeOK'
  <2>1. Top(g).id \in Ids /\ calls[g] # <<>>
    BY <1>10, TopTyped DEF WriteFails, Writing, At
  <2>2. Return(g) /\ UNCHANGED lines
    BY <1>10 DEF WriteFails
  <2> QED BY <1>5, <1>10, <2>1, <2>2 DEF WriteFails, TypeOK, pipes
<1>11. CASE Scan
  <2>1. /\ Head(pipe) \in Ids /\ pipe' \in Seq(Ids)
        /\ Len(pipe) \in Nat /\ Len(pipe') = Len(pipe) - 1
    BY <1>11, Shortened DEF Scan, TypeOK
  <2>2. Len(pipe') <= PipeCap
    BY <2>1, PipeCapAssumption DEF TypeOK
  <2> QED BY <1>11, <2>1, <2>2 DEF Scan, TypeOK, Ids
<1>12. CASE Show
  <2>1. terminal' \in Seq(Ids)
    <3>1. held \in Ids /\ terminal \in Seq(Ids) /\ terminal' = Append(terminal, held)
      BY <1>12 DEF Show, TypeOK
    <3> QED BY <3>1, Extended
  <2> QED BY <1>12, <2>1 DEF Show, TypeOK, Ids
<1>13. CASE Capture
  BY <1>13 DEF Capture, TypeOK, Ids
<1>14. CASE ScanEOF \/ Finalize
  BY <1>14 DEF ScanEOF, Finalize, TypeOK, Ids
<1>15. CASE StopPrintCapture \/ StopStep \/ Exit
  BY <1>15
  DEF StopPrintCapture, StopStep, StopClose, StopSwap, StopWait, Exit, TypeOK, pipes, Ids
<1> QED
  BY <1>1, <1>2, <1>3, <1>4, <1>6, <1>7, <1>8, <1>9, <1>10, <1>11, <1>12, <1>13, <1>14, <1>15
  DEF Next, LogStep, WriteStep, ScannerStep

\* What is known of the stacks after a step.
LEMMA StacksAfter ==
    ASSUME TypeOK', NEW g \in Goroutines
    PROVE  /\ Len(calls'[g]) \in Nat /\ DOMAIN calls'[g] = 1..Len(calls'[g])
           /\ \A k \in 1..Len(calls'[g]) : calls'[g][k] \in Frames
<1>1. calls'[g] \in Seq(Frames)
  BY DEF TypeOK
<1> QED BY <1>1, LenProperties, ElementOfSeq

-----------------------------------------------------------------------------
(* The guard.                                                              *)

FormatsAt(stacks, h, k) == k \in DOMAIN stacks[h] /\ stacks[h][k].pc = "format"

\* Calls and returns of what does not format leave the guard's holder alone.
LEMMA HolderKept ==
    ASSUME TypeOK, TypeOK', GuardHeldByOne, UNCHANGED inLogCapture,
           NEW g \in Goroutines,
           \/ UNCHANGED calls
           \/ Popped(g) /\ calls[g] # <<>> /\ Top(g).pc # "format"
           \/ Moved(g, "rest") /\ calls[g] # <<>> /\ Top(g).pc # "format"
           \/ \E c \in Frames : Pushed(g, c) /\ c.pc # "format"
    PROVE  GuardHeldByOne'
<1>1. ASSUME NEW h \in Goroutines, NEW k
      PROVE  FormatsAt(calls', h, k) <=> FormatsAt(calls, h, k)
  <2>1. Len(calls[h]) \in Nat /\ DOMAIN calls[h] = 1..Len(calls[h])
        /\ (calls[h] # <<>> => Len(calls[h]) \in 1..Len(calls[h]))
    BY StackTyped
  <2>2. Len(calls'[h]) \in Nat /\ DOMAIN calls'[h] = 1..Len(calls'[h])
    BY StacksAfter
  <2>3. CASE calls'[h] = calls[h]
    BY <2>3 DEF FormatsAt
  <2>4. CASE h = g /\ Popped(g) /\ calls[g] # <<>> /\ Top(g).pc # "format"
    BY <2>1, <2>2, <2>4 DEF FormatsAt, Popped, Top, Last
  <2>5. CASE h = g /\ Moved(g, "rest") /\ calls[g] # <<>> /\ Top(g).pc # "format"
    BY <2>1, <2>2, <2>5 DEF FormatsAt, Moved, Top, Last
  <2>6. ASSUME NEW c \in Frames, Pushed(g, c), c.pc # "format", h = g
        PROVE  FormatsAt(calls', h, k) <=> FormatsAt(calls, h, k)
    BY <2>1, <2>2, <2>6 DEF FormatsAt, Pushed
  <2> QED BY <2>3, <2>4, <2>5, <2>6 DEF Popped, Moved, Pushed, Others
<1> QED BY <1>1 DEF GuardHeldByOne, Formats, FormatsAt

LEMMA GuardStep ==
    ASSUME TypeOK, TypeOK', GuardHeldByOne, [Next]_vars
    PROVE  GuardHeldByOne'
<1>1. CASE UNCHANGED vars
  BY <1>1 DEF vars, GuardHeldByOne, Formats
<1>2. ASSUME NEW g \in Goroutines, LogCall(g) PROVE GuardHeldByOne'
  <2>1. Call(g, "log", "cas", FALSE) /\ "cas" \in PCs
    BY <1>2 DEF LogCall, PCs
  <2>2. Pushed(g, [id |-> Len(lines) + 1, pc |-> "cas"])
    BY <2>1, Calling
  <2>3. [id |-> Len(lines) + 1, pc |-> "cas"] \in Frames
    BY <2>1, Typed DEF Frames
  <2> QED BY <2>1, <2>2, <2>3, HolderKept DEF Call
<1>3. ASSUME NEW g \in Goroutines, PrintCall(g) PROVE GuardHeldByOne'
  <2>1. PICK long \in BOOLEAN : Call(g, "print", "write", long)
    BY <1>3 DEF PrintCall
  <2>2. "write" \in PCs
    BY DEF PCs
  <2>3. Pushed(g, [id |-> Len(lines) + 1, pc |-> "write"])
    BY <2>1, <2>2, Calling
  <2>4. [id |-> Len(lines) + 1, pc |-> "write"] \in Frames
    BY <2>2, Typed DEF Frames
  <2> QED BY <2>1, <2>3, <2>4, HolderKept DEF Call
<1>4. ASSUME NEW g \in Goroutines, LogGuard(g) PROVE GuardHeldByOne'
  <2>1. calls[g] # <<>> /\ Top(g).pc = "cas"
    BY <1>4 DEF LogGuard, At
  <2>2. CASE inLogCapture
    <3>1. Popped(g) /\ UNCHANGED inLogCapture
      BY <1>4, <2>1, <2>2, Popping DEF LogGuard
    <3> QED BY <2>1, <3>1, HolderKept
  <2>3. CASE ~inLogCapture
    <3>1. GoTo(g, "format") /\ inLogCapture' = TRUE /\ "format" \in PCs
      BY <1>4, <2>3 DEF LogGuard, PCs
    <3>2. Moved(g, "format")
      BY <2>1, <3>1, Moving
    <3>3. Len(calls[g]) \in 1..Len(calls[g]) /\ Len(calls'[g]) = Len(calls[g])
      BY <2>1, <3>2, StackTyped DEF Moved
    <3>4. ASSUME NEW h \in Goroutines, NEW k
          PROVE  FormatsAt(calls', h, k) <=> h = g /\ k = Len(calls[g])
      <4>1. Len(calls[h]) \in Nat /\ DOMAIN calls[h] = 1..Len(calls[h])
        BY StackTyped
      <4>2. Len(calls'[h]) \in Nat /\ DOMAIN calls'[h] = 1..Len(calls'[h])
        BY StacksAfter
      <4>3. ~FormatsAt(calls, h, k)
        BY <2>3 DEF GuardHeldByOne, Formats, FormatsAt
      <4> QED BY <3>2, <3>3, <4>1, <4>2, <4>3 DEF Moved, Others, FormatsAt
    <3>5. FormatsAt(calls', g, Len(calls[g]))
      BY <3>4
    <3> QED BY <3>1, <3>4, <3>5 DEF GuardHeldByOne, Formats, FormatsAt
  <2> QED BY <2>2, <2>3
<1>5. ASSUME NEW g \in Goroutines, LogPost(g) PROVE GuardHeldByOne'
  <2>1. calls[g] # <<>> /\ Top(g).pc = "format" /\ Return(g) /\ inLogCapture' = FALSE
    BY <1>5 DEF LogPost, At
  <2>2. Popped(g)
    BY <2>1, Popping
  <2>3. Len(calls[g]) \in 1..Len(calls[g]) /\ FormatsAt(calls, g, Len(calls[g]))
    BY <2>1, StackTyped DEF FormatsAt, Top, Last
  <2>4. ASSUME NEW h \in Goroutines, NEW k, FormatsAt(calls', h, k) PROVE FALSE
    <3>1. Len(calls[h]) \in Nat /\ DOMAIN calls[h] = 1..Len(calls[h])
      BY StackTyped
    <3>2. Len(calls'[h]) \in Nat /\ DOMAIN calls'[h] = 1..Len(calls'[h])
      BY StacksAfter
    <3>3. FormatsAt(calls, h, k) /\ ~(h = g /\ k = Len(calls[g]))
      BY <2>2, <2>3, <2>4, <3>1, <3>2 DEF Popped, Others, FormatsAt
    <3> QED BY <2>3, <3>3 DEF GuardHeldByOne, Formats, FormatsAt
  <2> QED BY <2>1, <2>4 DEF GuardHeldByOne, Formats, FormatsAt
<1>6. ASSUME NEW g \in Goroutines, WriteStep(g) PROVE GuardHeldByOne'
  <2>1. /\ calls[g] # <<>> /\ Top(g).pc \in {"write", "rest"}
        /\ Return(g) \/ GoTo(g, "rest")
        /\ UNCHANGED inLogCapture
    BY <1>6 DEF WriteStep, WriteTerminal, WritePipe, WriteRest, WriteFails, Writing, At
  <2>2. Popped(g) \/ Moved(g, "rest")
    <3>1. "rest" \in PCs
      BY DEF PCs
    <3> QED BY <2>1, <3>1, Popping, Moving
  <2> QED BY <2>1, <2>2, HolderKept
<1>7. CASE ScannerStep \/ Finalize \/ StopPrintCapture \/ StopStep \/ Exit
  BY <1>7
  DEF ScannerStep, Scan, ScanEOF, Show, Capture, Finalize, StopPrintCapture, StopStep,
      StopClose, StopSwap, StopWait, Exit, GuardHeldByOne, Formats
<1> QED
  BY <1>1, <1>2, <1>3, <1>4, <1>5, <1>6, <1>7 DEF Next, LogStep

-----------------------------------------------------------------------------
(* The calls.                                                              *)

\* A frame that a step leaves on the stack stays in order, if what it is
\* compared with does not change against it.
LEMMA FrameKept ==
    ASSUME TypeOK, TypeOK', NEW h \in Goroutines, NEW k \in 1..Len(calls[h]),
           InOrder(h, k),
           calls'[h][k] = calls[h][k],
           k < Len(calls'[h]) => k < Len(calls[h]) \/ calls[h][k].pc = "format",
           \A id \in Ids : lines'[id] = lines[id],
           \A y \in Ids' : y \in Ids \/ lines'[y].g # h \/ calls[h][k].pc = "format",
           calls[h][k].pc = "write" =>
               \A i \in DOMAIN accepted' :
                   \/ i \in DOMAIN accepted /\ accepted'[i] = accepted[i]
                   \/ accepted'[i] # calls[h][k].id,
           "pipe" \notin closed' => "pipe" \notin closed,
           scanner' # "done" => scanner # "done",
           calls[h][k].pc = "rest" /\ "pipe" \notin closed' /\ scanner' # "done" =>
               \A i \in DOMAIN pipe : pipe[i] = calls[h][k].id =>
                   \E j \in DOMAIN pipe' : pipe'[j] = pipe[i]
    PROVE  InOrder(h, k)'
<1>1. calls[h][k].id \in Ids
  BY StackTyped
<1> QED BY <1>1 DEF InOrder

LEMMA CallsStep ==
    ASSUME TypeOK, TypeOK', CallsInOrder, [Next]_vars
    PROVE  CallsInOrder'
<1> SUFFICES ASSUME NEW h \in Goroutines, NEW k \in 1..Len(calls'[h]) PROVE InOrder(h, k)'
  BY StacksAfter DEF CallsInOrder
<1> USE DEF CallsInOrder
<1>a. /\ Len(calls[h]) \in Nat /\ DOMAIN calls[h] = 1..Len(calls[h])
      /\ \A j \in 1..Len(calls[h]) : calls[h][j].id \in Ids /\ calls[h][j] \in Frames
      /\ Len(calls'[h]) \in Nat
      /\ (calls[h] # <<>> => Len(calls[h]) \in 1..Len(calls[h]))
  BY StackTyped, StacksAfter
<1>b. \A j \in 1..Len(calls[h]) : InOrder(h, j)
  BY <1>a
<1>1. CASE UNCHANGED vars
  <2>1. k \in 1..Len(calls[h]) /\ InOrder(h, k)
    BY <1>1, <1>b DEF vars
  <2> QED BY <1>1, <2>1 DEF vars, pipes, InOrder, Ids
<1>2. ASSUME NEW g \in Goroutines, NEW kind \in {"log", "print"}, NEW pc \in {"cas", "write"},
             NEW long \in BOOLEAN, Call(g, kind, pc, long),
             kind = "log" <=> pc = "cas"
      PROVE  InOrder(h, k)'
  <2>1. pc \in PCs
    BY DEF PCs
  <2>2. /\ Pushed(g, [id |-> Len(lines) + 1, pc |-> pc])
        /\ calls[g] = <<>> \/ At(g, "format")
        /\ Ids' = Ids \cup {Len(lines) + 1}
        /\ \A id \in Ids : lines'[id] = lines[id]
        /\ lines'[Len(lines) + 1] = NewLine(g, kind, long)
    BY <1>2, <2>1, Calling
  <2>3. UNCHANGED <<closed, scanner, pipe, accepted>>
    BY <1>2 DEF Call, pipes
  <2>4. lines'[Len(lines) + 1].g = g /\ lines'[Len(lines) + 1].kind = kind
    BY <2>2 DEF NewLine
  <2>5. CASE h # g
    <3>1. calls'[h] = calls[h] /\ k \in 1..Len(calls[h])
      BY <2>2, <2>5 DEF Pushed, Others
    <3> QED BY <1>b, <2>2, <2>3, <2>4, <2>5, <3>1, FrameKept
  <2>6. CASE h = g /\ k <= Len(calls[g])
    <3>1. k \in 1..Len(calls[h]) /\ calls'[h][k] = calls[h][k]
      BY <1>a, <2>2, <2>6 DEF Pushed
    <3>2. calls[h][k].pc = "format"
      BY <1>a, <1>b, <2>2, <2>6, <3>1, EmptySeq DEF At, Top, Last, InOrder
    <3> QED BY <1>b, <2>2, <2>3, <3>1, <3>2, FrameKept
  <2>7. CASE h = g /\ k > Len(calls[g])
    <3>1. k = Len(calls[g]) + 1 /\ Len(calls'[g]) = k
          /\ calls'[g][k] = [id |-> Len(lines) + 1, pc |-> pc]
      BY <1>a, <2>2, <2>7 DEF Pushed
    <3>2. Len(lines) \in Nat /\ Ids = 1..Len(lines)
          /\ \A i \in DOMAIN accepted : accepted[i] \in Ids
      BY Typed
    <3>3. /\ lines'[calls'[h][k].id].g = h
          /\ lines'[calls'[h][k].id].kind = "log" <=> calls'[h][k].pc \in {"cas", "format"}
          /\ calls'[h][k].pc # "rest" /\ ~(k < Len(calls'[h]))
      BY <1>2, <2>4, <2>7, <3>1
    <3>4. \A y \in Ids' : y <= calls'[h][k].id
      BY <2>2, <2>7, <3>1, <3>2
    <3>5. \A i \in DOMAIN accepted' : accepted'[i] # calls'[h][k].id
      BY <2>3, <2>7, <3>1, <3>2
    <3> QED BY <3>3, <3>4, <3>5 DEF InOrder
  <2> QED BY <1>a, <2>5, <2>6, <2>7
<1>3. ASSUME NEW g \in Goroutines, LogCall(g) PROVE InOrder(h, k)'
  BY <1>2, <1>3 DEF LogCall
<1>4. ASSUME NEW g \in Goroutines, PrintCall(g) PROVE InOrder(h, k)'
  <2>1. PICK long \in BOOLEAN : Call(g, "print", "write", long)
    BY <1>4 DEF PrintCall
  <2> QED BY <1>2, <2>1
<1>5. ASSUME NEW g \in Goroutines, calls[g] # <<>>, Return(g), UNCHANGED <<lines, closed, scanner>>,
             \A i \in DOMAIN accepted' :
                 \/ i \in DOMAIN accepted /\ accepted'[i] = accepted[i]
                 \/ accepted'[i] = Top(g).id,
             \A i \in DOMAIN pipe : \E j \in DOMAIN pipe' : pipe'[j] = pipe[i]
      PROVE  InOrder(h, k)'
  <2>1. Popped(g)
    BY <1>5, Popping
  <2>2. k \in 1..Len(calls[h]) /\ calls'[h][k] = calls[h][k]
        /\ (k < Len(calls'[h]) => k < Len(calls[h]))
    BY <1>a, <2>1 DEF Popped, Others
  <2>3. calls[h][k].pc = "write" => calls[h][k].id # Top(g).id
    <3>1. SUFFICES ASSUME calls[h][k].pc = "write", calls[h][k].id = Top(g).id PROVE FALSE
      OBVIOUS
    <3>2. Len(calls[g]) \in 1..Len(calls[g]) /\ Top(g) = calls[g][Len(calls[g])]
          /\ DOMAIN calls[g] = 1..Len(calls[g])
      BY <1>5, StackTyped DEF Top, Last
    <3>3. lines[Top(g).id].g = g
      BY <3>2 DEF InOrder
    <3>4. h = g
      BY <1>b, <2>2, <3>1, <3>3 DEF InOrder
    <3>5. k < Len(calls[h])
      BY <1>a, <2>1, <3>4 DEF Popped
    <3> QED BY <1>b, <2>2, <3>1, <3>5 DEF InOrder
  <2>4. Ids' = Ids
    BY <1>5, LinesKept
  <2> QED BY <1>5, <1>b, <2>2, <2>3, <2>4, FrameKept
<1>6. ASSUME NEW g \in Goroutines, NEW pc \in {"format", "rest"}, calls[g] # <<>>, GoTo(g, pc),
             UNCHANGED <<lines, closed, scanner>>,
             \A i \in DOMAIN accepted' :
                 \/ i \in DOMAIN accepted /\ accepted'[i] = accepted[i]
                 \/ accepted'[i] = Top(g).id,
             \A i \in DOMAIN pipe : \E j \in DOMAIN pipe' : pipe'[j] = pipe[i],
             pc = "format" => Top(g).pc = "cas",
             pc = "rest" => /\ Top(g).pc = "write" /\ lines[Top(g).id].long
                            /\ \E j \in DOMAIN pipe' : pipe'[j] = Top(g).id
      PROVE  InOrder(h, k)'
  <2>1. Moved(g, pc)
    BY <1>6, Moving DEF PCs
  <2>2. Len(calls[g]) \in 1..Len(calls[g]) /\ Top(g) = calls[g][Len(calls[g])]
        /\ DOMAIN calls[g] = 1..Len(calls[g])
    BY <1>6, StackTyped DEF Top, Last
  <2>3. Ids' = Ids /\ lines' = lines
    BY <1>6, LinesKept
  <2>4. CASE h = g /\ k = Len(calls[g])
    <3>1. /\ calls'[h][k].id = Top(g).id /\ calls'[h][k].pc = pc
          /\ Len(calls'[h]) = k
      BY <2>1, <2>4 DEF Moved
    <3>2. InOrder(g, Len(calls[g]))
      BY <2>2
    <3> QED BY <1>6, <2>2, <2>3, <2>4, <3>1, <3>2 DEF InOrder
  <2>5. CASE ~(h = g /\ k = Len(calls[g]))
    <3>1. k \in 1..Len(calls[h]) /\ calls'[h][k] = calls[h][k]
          /\ (k < Len(calls'[h]) => k < Len(calls[h]))
      BY <1>a, <2>1, <2>5 DEF Moved, Others
    <3>2. calls[h][k].pc = "write" => calls[h][k].id # Top(g).id
      <4>1. SUFFICES ASSUME calls[h][k].pc = "write", calls[h][k].id = Top(g).id PROVE FALSE
        OBVIOUS
      <4>2. lines[Top(g).id].g = g
        BY <2>2 DEF InOrder
      <4>3. h = g
        BY <1>b, <3>1, <4>1, <4>2 DEF InOrder
      <4>4. k < Len(calls[h])
        BY <1>a, <2>5, <3>1, <4>3
      <4> QED BY <1>b, <3>1, <4>1, <4>4 DEF InOrder
    <3> QED BY <1>6, <1>b, <2>3, <3>1, <3>2, FrameKept
  <2> QED BY <2>4, <2>5
<1>7. ASSUME NEW g \in Goroutines, LogGuard(g) PROVE InOrder(h, k)'
  <2>1. /\ calls[g] # <<>> /\ Top(g).pc = "cas"
        /\ Return(g) \/ GoTo(g, "format")
        /\ UNCHANGED <<lines, closed, scanner, accepted, pipe>>
    BY <1>7 DEF LogGuard, At, pipes
  <2> QED BY <1>5, <1>6, <2>1
<1>8. ASSUME NEW g \in Goroutines, LogPost(g) PROVE InOrder(h, k)'
  <2>1. calls[g] # <<>> /\ Return(g) /\ UNCHANGED <<lines, closed, scanner, accepted, pipe>>
    BY <1>8 DEF LogPost, At, pipes
  <2> QED BY <1>5, <2>1
<1>9. ASSUME NEW g \in Goroutines, WriteTerminal(g) \/ WriteFails(g) PROVE InOrder(h, k)'
  <2>1. calls[g] # <<>> /\ Return(g) /\ UNCHANGED <<lines, closed, scanner, accepted, pipe>>
    BY <1>9 DEF WriteTerminal, WriteFails, Writing, At, pipes
  <2> QED BY <1>5, <2>1
<1>10. ASSUME NEW g \in Goroutines, WritePipe(g) PROVE InOrder(h, k)'
  <2>1. /\ calls[g] # <<>> /\ Top(g).pc = "write"
        /\ (lines[Top(g).id].long /\ GoTo(g, "rest")) \/ Return(g)
        /\ UNCHANGED <<lines, closed, scanner>>
    BY <1>10 DEF WritePipe, At
  <2>2. Top(g).id \in Ids
    BY <1>10, TopTyped DEF WritePipe
  <2>3. /\ \A i \in DOMAIN accepted' : \/ i \in DOMAIN accepted /\ accepted'[i] = accepted[i]
                                       \/ accepted'[i] = Top(g).id
    <3>1. accepted \in Seq(Ids) /\ accepted' = Append(accepted, Top(g).id)
      BY <1>10 DEF WritePipe, TypeOK
    <3>2. /\ Len(accepted) \in Nat /\ Len(accepted') = Len(accepted) + 1
          /\ DOMAIN accepted' = 1..Len(accepted')
          /\ \A i \in 1..Len(accepted) : accepted'[i] = accepted[i]
          /\ accepted'[Len(accepted) + 1] = Top(g).id
      BY <2>2, <3>1, Extended
    <3> QED BY <3>2, Typed
  <2>4. /\ \A i \in DOMAIN pipe : \E j \in DOMAIN pipe' : pipe'[j] = pipe[i]
        /\ \E j \in DOMAIN pipe' : pipe'[j] = Top(g).id
    <3>1. pipe \in Seq(Ids) /\ pipe' = Append(pipe, Top(g).id)
      BY <1>10 DEF WritePipe, TypeOK
    <3>2. /\ Len(pipe) \in Nat /\ Len(pipe') = Len(pipe) + 1
          /\ DOMAIN pipe' = 1..Len(pipe')
          /\ \A i \in 1..Len(pipe) : pipe'[i] = pipe[i]
          /\ pipe'[Len(pipe) + 1] = Top(g).id
      BY <2>2, <3>1, Extended
    <3> QED BY <3>2, Typed
  <2> QED BY <1>5, <1>6, <2>1, <2>3, <2>4
<1>11. ASSUME NEW g \in Goroutines, WriteRest(g) PROVE InOrder(h, k)'
  <2>1. calls[g] # <<>> /\ Return(g) /\ UNCHANGED <<lines, closed, scanner, accepted>>
    BY <1>11 DEF WriteRest, At
  <2>2. Top(g).id \in Ids
    BY <1>11, TopTyped DEF WriteRest
  <2>3. \A i \in DOMAIN pipe : \E j \in DOMAIN pipe' : pipe'[j] = pipe[i]
    <3>1. pipe \in Seq(Ids) /\ pipe' = Append(pipe, Top(g).id)
      BY <1>11 DEF WriteRest, TypeOK
    <3>2. /\ Len(pipe) \in Nat /\ Len(pipe') = Len(pipe) + 1
          /\ DOMAIN pipe' = 1..Len(pipe')
          /\ \A i \in 1..Len(pipe) : pipe'[i] = pipe[i]
      BY <2>2, <3>1, Extended
    <3> QED BY <3>2, Typed
  <2> QED BY <1>5, <2>1, <2>3
<1>12. CASE Scan
  <2>1. UNCHANGED <<lines, calls, closed, accepted>> /\ Ids' = Ids
    BY <1>12, LinesKept DEF Scan
  <2>2. k \in 1..Len(calls[h]) /\ InOrder(h, k) /\ calls[h][k].id \in Ids
    BY <1>a, <1>b, <2>1
  <2>3. /\ Len(pipe) \in Nat /\ Len(pipe') = Len(pipe) - 1
        /\ DOMAIN pipe' = 1..Len(pipe') /\ DOMAIN pipe = 1..Len(pipe)
        /\ \A i \in 1..Len(pipe') : pipe'[i] = pipe[i + 1]
        /\ Head(pipe) = pipe[1]
    BY <1>12, Shortened, Typed DEF Scan, TypeOK
  <2>4. calls[h][k].pc = "rest" /\ "pipe" \notin closed' /\ scanner' # "done" =>
            calls[h][k].id # pipe[1]
    <3>1. SUFFICES ASSUME calls[h][k].pc = "rest", "pipe" \notin closed, scanner' # "done",
                          calls[h][k].id = pipe[1]
                   PROVE FALSE
      BY <2>1
    <3>2. lines[pipe[1]].long
      BY <2>2, <3>1 DEF InOrder
    <3> QED BY <1>12, <2>3, <3>1, <3>2 DEF Scan
  <2>5. calls[h][k].pc = "rest" /\ "pipe" \notin closed' /\ scanner' # "done" =>
            \A i \in DOMAIN pipe : pipe[i] = calls[h][k].id =>
                \E j \in DOMAIN pipe' : pipe'[j] = pipe[i]
    <3>1. SUFFICES ASSUME calls[h][k].id # pipe[1], NEW i \in DOMAIN pipe,
                          pipe[i] = calls[h][k].id
                   PROVE  \E j \in DOMAIN pipe' : pipe'[j] = pipe[i]
      BY <2>4
    <3>2. i - 1 \in DOMAIN pipe' /\ pipe'[i - 1] = pipe[i]
      BY <2>3, <3>1
    <3> QED BY <3>2
  <2>6. scanner # "done"
    BY <1>12 DEF Scan
  <2> QED BY <2>1, <2>2, <2>5, <2>6, FrameKept
<1>13. CASE ScanEOF \/ Show \/ Capture \/ Finalize \/ StopPrintCapture \/ StopStep \/ Exit
  <2>1. /\ UNCHANGED <<lines, calls, accepted, pipe>>
        /\ "pipe" \notin closed' => "pipe" \notin closed
        /\ scanner' # "done" => scanner # "done"
    BY <1>13
    DEF ScanEOF, Show, Capture, Finalize, StopPrintCapture, StopStep, StopClose, StopSwap,
        StopWait, Exit, pipes
  <2>2. k \in 1..Len(calls[h]) /\ InOrder(h, k) /\ Ids' = Ids
    BY <1>b, <2>1, LinesKept
  <2> QED BY <2>1, <2>2, FrameKept
<1> QED
  BY <1>1, <1>3, <1>4, <1>7, <1>8, <1>9, <1>10, <1>11, <1>12, <1>13
  DEF Next, LogStep, WriteStep, ScannerStep

\* What is known of the innermost call.
LEMMA TopInOrder ==
    ASSUME TypeOK, CallsInOrder, NEW g \in Goroutines, NEW pc, At(g, pc)
    PROVE  /\ Top(g).id \in Ids /\ lines[Top(g).id].g = g
           /\ lines[Top(g).id].kind = "log" <=> pc \in {"cas", "format"}
           /\ pc = "rest" => lines[Top(g).id].long
           /\ pc # "format" => \A y \in Ids : lines[y].g = g => y <= Top(g).id
           /\ pc = "write" => \A i \in DOMAIN accepted : accepted[i] # Top(g).id
           /\ pc = "rest" /\ "pipe" \notin closed /\ scanner # "done"
                 => \E i \in DOMAIN pipe : pipe[i] = Top(g).id
<1>1. /\ Top(g) = calls[g][Len(calls[g])] /\ Top(g).pc = pc /\ Top(g).id \in Ids
      /\ Len(calls[g]) \in DOMAIN calls[g]
  BY TopTyped, StackTyped
<1> QED BY <1>1 DEF CallsInOrder, InOrder

-----------------------------------------------------------------------------
(* The lines, and how far the stop has come.                               *)

\* What any step does to the lines.
LEMMA LinesStep ==
    ASSUME TypeOK, [Next]_vars
    PROVE  /\ Ids \subseteq Ids' /\ \A id \in Ids : lines'[id] = lines[id]
           /\ \/ UNCHANGED lines
              \/ \E g \in Goroutines, kind \in {"log", "print"}, long \in BOOLEAN :
                    /\ lines'[Len(lines) + 1] = NewLine(g, kind, long)
                    /\ Ids' = Ids \cup {Len(lines) + 1}
                    /\ long => kind = "print" /\ stdout = "pipe"
                    /\ UNCHANGED <<inLogCapture, pipes, exited, posted, ignored, lost>>
<1> DEFINE New(g, kind, long) ==
              /\ lines'[Len(lines) + 1] = NewLine(g, kind, long)
              /\ Ids' = Ids \cup {Len(lines) + 1}
              /\ long => kind = "print" /\ stdout = "pipe"
              /\ UNCHANGED <<inLogCapture, pipes, exited, posted, ignored, lost>>
<1>1. ASSUME NEW g \in Goroutines, LogCall(g)
      PROVE  New(g, "log", FALSE) /\ \A id \in Ids : lines'[id] = lines[id]
  <2>1. Call(g, "log", "cas", FALSE) /\ "cas" \in PCs
    BY <1>1 DEF LogCall, PCs
  <2> QED BY <2>1, Calling DEF Call
<1>2. ASSUME NEW g \in Goroutines, PrintCall(g)
      PROVE  \E long \in BOOLEAN : New(g, "print", long)
                                   /\ \A id \in Ids : lines'[id] = lines[id]
  <2>1. PICK long \in (IF stdout = "pipe" THEN BOOLEAN ELSE {FALSE}) :
            Call(g, "print", "write", long)
    BY <1>2 DEF PrintCall
  <2>2. "write" \in PCs /\ long \in BOOLEAN /\ (long => stdout = "pipe")
    BY <2>1 DEF PCs
  <2>3. New(g, "print", long) /\ \A id \in Ids : lines'[id] = lines[id]
    BY <2>1, <2>2, Calling DEF Call
  <2> QED BY <2>2, <2>3
<1>3. CASE ~\E g \in Goroutines : LogCall(g) \/ PrintCall(g)
  <2>1. UNCHANGED lines
    BY <1>3
    DEF Next, vars, LogStep, LogGuard, LogPost, WriteStep, WriteTerminal, WritePipe, WriteRest,
        WriteFails, ScannerStep, Scan, ScanEOF, Show, Capture, Finalize, StopPrintCapture,
        StopStep, StopClose, StopSwap, StopWait, Exit
  <2> QED BY <2>1, LinesKept
<1>4. CASE \E g \in Goroutines : LogCall(g) \/ PrintCall(g)
  <2>1. PICK g \in Goroutines : LogCall(g) \/ PrintCall(g)
    BY <1>4
  <2>2. PICK kind \in {"log", "print"}, long \in BOOLEAN : 
            New(g, kind, long) /\ \A id \in Ids : lines'[id] = lines[id]
    BY <1>1, <1>2, <2>1
  <2> QED BY <2>2
<1> QED BY <1>3, <1>4

LEMMA StopInOrderStep ==
    ASSUME TypeOK, TypeOK', StopInOrder, CallsInOrder, LinesAreDated, [Next]_vars
    PROVE  StopInOrder'
<1> USE DEF StopInOrder
<1>1. CASE UNCHANGED pipes
  BY <1>1 DEF pipes
<1>2. ASSUME NEW g \in Goroutines, WriteTerminal(g) \/ WriteRest(g) \/ WritePipe(g)
      PROVE  StopInOrder'
  <2>1. UNCHANGED <<setup, stdout, closed, scanner, stop>>
    BY <1>2 DEF WriteTerminal, WriteRest, WritePipe
  <2>2. CASE WriteTerminal(g)
    BY <2>1, <2>2 DEF WriteTerminal
  <2>3. CASE WriteRest(g) \/ WritePipe(g)
    <3>1. Top(g).id \in Ids
      BY <2>3, TopTyped DEF WriteRest, WritePipe
    <3>2. setup = "piped"
      <4>1. CASE WritePipe(g)
        BY <3>1, <4>1 DEF WritePipe, File, LinesAreDated, InPipe
      <4>2. CASE WriteRest(g)
        <5>1. lines[Top(g).id].long
          BY <4>2, TopInOrder DEF WriteRest
        <5> QED BY <3>1, <5>1 DEF LinesAreDated
      <4> QED BY <2>3, <4>1, <4>2
    <3> QED BY <2>1, <3>2
  <2> QED BY <1>2, <2>2, <2>3
<1>3. CASE ScannerStep \/ Finalize
  BY <1>3 DEF ScannerStep, Scan, ScanEOF, Show, Capture, Finalize, TypeOK
<1>4. CASE StopPrintCapture \/ StopStep
  BY <1>4 DEF StopPrintCapture, StopStep, StopClose, StopSwap, StopWait, TypeOK
<1>5. ASSUME NEW g \in Goroutines, LogCall(g) \/ PrintCall(g) \/ LogStep(g) \/ WriteFails(g)
      PROVE  UNCHANGED pipes
  BY <1>5 DEF LogCall, PrintCall, Call, LogStep, LogGuard, LogPost, WriteFails
<1> QED BY <1>1, <1>2, <1>3, <1>4, <1>5 DEF Next, WriteStep, Exit, vars

LEMMA DatedStep ==
    ASSUME TypeOK, TypeOK', StopInOrder, LinesAreDated, [Next]_vars
    PROVE  LinesAreDated'
<1> SUFFICES ASSUME NEW id \in Ids'
             PROVE  /\ lines'[id].kind = "log" <=> lines'[id].file = "stderr"
                    /\ lines'[id].long => lines'[id].file = "pipe"
                    /\ lines'[id].file = "pipe" => setup' = "piped"
                    /\ setup' = "piped" /\ lines'[id].file = "terminal"
                           => lines'[id].during # "before"
                    /\ lines'[id].during = "done"
                           => stop' = "done" /\ lines'[id].file = "terminal"
  BY DEF LinesAreDated, InPipe
<1>1. setup' = setup /\ (stop = "done" => stop' = "done")
  BY DEF Next, vars, pipes, LogCall, PrintCall, Call, LogStep, LogGuard, LogPost, WriteStep,
     WriteTerminal, WritePipe, WriteRest, WriteFails, ScannerStep, Scan, ScanEOF, Show, Capture,
     Finalize, StopPrintCapture, StopStep, StopClose, StopSwap, StopWait, Exit
<1>2. CASE id \in Ids
  <2>1. lines'[id] = lines[id]
    BY <1>2, LinesStep
  <2> QED BY <1>1, <1>2, <2>1 DEF LinesAreDated, InPipe
<1>3. CASE id \notin Ids
  <2>1. PICK g \in Goroutines, kind \in {"log", "print"}, long \in BOOLEAN :
            /\ lines'[Len(lines) + 1] = NewLine(g, kind, long)
            /\ Ids' = Ids \cup {Len(lines) + 1}
            /\ long => kind = "print" /\ stdout = "pipe"
            /\ UNCHANGED <<inLogCapture, pipes, exited, posted, ignored, lost>>
    BY <1>3, LinesStep, LinesKept
  <2>2. id = Len(lines) + 1 /\ stop' = stop
    BY <1>3, <2>1 DEF pipes
  <2> QED BY <1>1, <2>1, <2>2 DEF NewLine, StopInOrder, TypeOK
<1> QED BY <1>2, <1>3

-----------------------------------------------------------------------------
(* The pipe.                                                               *)

Prints == {id \in posted : lines[id].kind = "print"}

\* The first n lines accepted stand at these positions on the terminal.
Stand(at, n, acc, term, lns) ==
    /\ at \in [1..n -> DOMAIN term]
    /\ \A k \in 1..n : term[at[k]] = acc[k]
    /\ \A j, k \in 1..n : j < k => at[j] < at[k]
    /\ \A i \in DOMAIN term : lns[term[i]].file = "pipe" => \E k \in 1..n : at[k] = i

LEMMA OnTerminalStands ==
    /\ OnTerminal(Shown) <=> \E at : Stand(at, Shown, accepted, terminal, lines)
    /\ OnTerminal(Shown)' <=> \E at : Stand(at, Shown', accepted', terminal', lines')
BY DEF OnTerminal, Stand, InPipe

\* A long line that has once been printed stays.
LEMMA LongLineStays ==
    ASSUME TypeOK, [Next]_vars, NoLongLine'
    PROVE  NoLongLine
BY LinesStep DEF NoLongLine

\* The scanner holds a line that was accepted.
LEMMA HeldWasAccepted ==
    ASSUME TypeOK, PipeInOrder, ConveyedInOrder, scanner = "show"
    PROVE  /\ Shown + 1 \in DOMAIN accepted /\ held = accepted[Shown + 1]
           /\ held \in Ids /\ InPipe(held)
<1>1. Shown \in Nat /\ held = accepted[Shown + 1]
  BY DEF ConveyedInOrder
<1>2. Shown + 1 \in 1..Len(accepted)
  BY <1>1, Typed DEF Shown, AtScanner
<1> QED BY <1>1, <1>2, Typed DEF PipeInOrder

\* The rest of a long line is written only when the scanner has died of it.
LEMMA RestWhenDone ==
    ASSUME TypeOK, CallsInOrder, LinesAreDated, StopInOrder, NEW g \in Goroutines, WriteRest(g)
    PROVE  scanner = "done" /\ ~NoLongLine
<1>1. Top(g).id \in Ids /\ lines[Top(g).id].long
  BY TopInOrder DEF WriteRest
<1>2. File(g) = "pipe" /\ "pipe" \notin closed
  BY <1>1 DEF MayWrite, WriteRest, Open, LinesAreDated, InPipe, File
<1>3. scanner = "done"
  <2>1. SUFFICES ASSUME scanner # "done" PROVE FALSE
    OBVIOUS
  <2>2. \E i \in DOMAIN pipe : pipe[i] = Top(g).id
    BY <1>2, <2>1, TopInOrder DEF WriteRest
  <2> QED BY <2>2, Typed DEF MayWrite, WriteRest, Contains
<1> QED BY <1>1, <1>3 DEF NoLongLine

\* A step that neither moves a line nor captures a print.
LEMMA QuietStep ==
    ASSUME TypeOK, TypeOK', PipeInOrder, ConveyedInOrder, [Next]_vars,
           UNCHANGED <<accepted, pipe, terminal, scanner, held>>,
           closed \subseteq closed',
           posted' = posted \/ \E id \in Ids : lines[id].kind = "log" /\ posted' = posted \cup {id}
    PROVE  PipeInOrder' /\ ConveyedInOrder'
<1>1. Ids \subseteq Ids' /\ \A id \in Ids : lines'[id] = lines[id]
  BY LinesStep
<1>2. NoLongLine' => NoLongLine
  BY LongLineStays
<1>3. Shown' = Shown /\ AtScanner' = AtScanner
  BY DEF Shown, AtScanner
<1>4. /\ \A i \in DOMAIN accepted : accepted[i] \in Ids
      /\ \A i \in DOMAIN terminal : terminal[i] \in Ids
  BY Typed
<1>5. PipeInOrder'
  BY <1>1, <1>2, <1>3, <1>4 DEF PipeInOrder, InPipe
<1>6. Prints' = Prints
  BY <1>1 DEF Prints, TypeOK
<1>7. OnTerminal(Shown) => OnTerminal(Shown)'
  <2>1. ASSUME NEW at, Stand(at, Shown, accepted, terminal, lines)
        PROVE  Stand(at, Shown', accepted', terminal', lines')
    BY <1>1, <1>3, <1>4, <2>1 DEF Stand
  <2> QED BY <2>1, OnTerminalStands
<1>8. ConveyedInOrder'
  BY <1>2, <1>3, <1>6, <1>7 DEF ConveyedInOrder, Prints
<1> QED BY <1>5, <1>8

LEMMA WriteTerminalConveyed ==
    ASSUME TypeOK, TypeOK', CallsInOrder, LinesAreDated, PipeInOrder, ConveyedInOrder,
           NEW g \in Goroutines, WriteTerminal(g)
    PROVE  PipeInOrder' /\ ConveyedInOrder'
<1> DEFINE x == Top(g).id
           m == Len(terminal) + 1
<1>1. x \in Ids /\ lines[x].file = "terminal" /\ lines[x].kind = "print"
  <2>1. x \in Ids /\ lines[x].file = "terminal"
    BY TopTyped DEF WriteTerminal, File
  <2>2. lines[x] \in Lines
    BY <2>1, Typed
  <2> QED BY <2>1, <2>2 DEF LinesAreDated, Lines
<1>2. UNCHANGED <<lines, accepted, pipe, scanner, held, closed, posted>>
  BY DEF WriteTerminal
<1>3. /\ terminal' \in Seq(Ids) /\ DOMAIN terminal = 1..Len(terminal) /\ Len(terminal) \in Nat
      /\ DOMAIN terminal' = 1..m /\ terminal'[m] = x
      /\ \A i \in 1..Len(terminal) : terminal'[i] = terminal[i]
  <2>1. terminal \in Seq(Ids) /\ terminal' = Append(terminal, x)
    BY DEF WriteTerminal, TypeOK
  <2> QED BY <1>1, <2>1, Extended, Typed
<1>4. Shown' = Shown /\ AtScanner' = AtScanner /\ (NoLongLine' <=> NoLongLine)
  BY <1>2 DEF Shown, AtScanner, NoLongLine, Ids
<1> HIDE DEF x, m
<1>5. \A i \in DOMAIN terminal' : lines[terminal'[i]].kind = "print"
  BY <1>1, <1>3 DEF PipeInOrder, m
<1>6. PipeInOrder'
  BY <1>2, <1>4, <1>5 DEF PipeInOrder, InPipe
<1>7. ASSUME OnTerminal(Shown) PROVE OnTerminal(Shown)'
  <2>1. ASSUME NEW at, Stand(at, Shown, accepted, terminal, lines)
        PROVE  Stand(at, Shown', accepted', terminal', lines')
    <3> USE <2>1 DEF Stand
    <3>1. at \in [1..Shown' -> DOMAIN terminal'] /\ \A k \in 1..Shown : at[k] \in 1..Len(terminal)
      BY <1>3, <1>4 DEF m
    <3>2. \A k \in 1..Shown' : terminal'[at[k]] = accepted'[k]
      BY <1>2, <1>3, <1>4, <3>1
    <3>3. \A j, k \in 1..Shown' : j < k => at[j] < at[k]
      BY <1>4
    <3>4. \A i \in DOMAIN terminal' : lines'[terminal'[i]].file = "pipe"
              => \E k \in 1..Shown' : at[k] = i
      BY <1>1, <1>2, <1>3, <1>4 DEF m
    <3> QED BY <3>1, <3>2, <3>3, <3>4
  <2> QED BY <1>7, <2>1, OnTerminalStands
<1>8. ConveyedInOrder'
  BY <1>2, <1>4, <1>7 DEF ConveyedInOrder
<1> QED BY <1>6, <1>8

LEMMA WritePipeConveyed ==
    ASSUME TypeOK, TypeOK', CallsInOrder, LinesAreDated, PipeInOrder, ConveyedInOrder,
           NEW g \in Goroutines, WritePipe(g)
    PROVE  PipeInOrder' /\ ConveyedInOrder'
<1> DEFINE x == Top(g).id
           n == Len(accepted) + 1
           p == Len(pipe) + 1
<1>1. /\ x \in Ids /\ lines[x].file = "pipe" /\ lines[x].g = g
      /\ \A y \in Ids : lines[y].g = g => y <= x
      /\ \A i \in DOMAIN accepted : accepted[i] # x
      /\ "pipe" \notin closed
  BY TopInOrder DEF MayWrite, WritePipe, File, Open
<1>2. UNCHANGED <<lines, terminal, scanner, held, closed, posted>>
  BY DEF WritePipe
<1>3. /\ DOMAIN accepted = 1..Len(accepted) /\ Len(accepted) \in Nat
      /\ Len(accepted') = n /\ DOMAIN accepted' = 1..n /\ accepted'[n] = x
      /\ \A i \in 1..Len(accepted) : accepted'[i] = accepted[i] /\ accepted[i] \in Ids
  <2>1. accepted \in Seq(Ids) /\ accepted' = Append(accepted, x)
    BY DEF WritePipe, TypeOK
  <2> QED BY <1>1, <2>1, Extended, Typed
<1>4. /\ DOMAIN pipe = 1..Len(pipe) /\ Len(pipe) \in Nat
      /\ Len(pipe') = p /\ DOMAIN pipe' = 1..p /\ pipe'[p] = x
      /\ \A i \in 1..Len(pipe) : pipe'[i] = pipe[i]
  <2>1. pipe \in Seq(Ids) /\ pipe' = Append(pipe, x)
    BY DEF WritePipe, TypeOK
  <2> QED BY <1>1, <2>1, Extended, Typed
<1>5. AtScanner' = AtScanner /\ AtScanner \in {0, 1}
  BY <1>2 DEF AtScanner
<1>6. Shown' = Shown /\ (NoLongLine' <=> NoLongLine)
  BY <1>2, <1>3, <1>4, <1>5 DEF Shown, NoLongLine, Ids
<1>7. ~(scanner = "done" /\ NoLongLine)
  BY <1>1 DEF PipeInOrder
<1>8. Ids \subseteq Nat
  BY Typed
<1> HIDE DEF x
<1>9. \A i \in DOMAIN accepted' : lines[accepted'[i]].file = "pipe"
  BY <1>1, <1>3 DEF PipeInOrder, InPipe
<1>10. \A i, j \in DOMAIN accepted' : i < j =>
          /\ accepted'[i] # accepted'[j]
          /\ lines[accepted'[i]].g = lines[accepted'[j]].g => accepted'[i] < accepted'[j]
  <2> SUFFICES ASSUME NEW i \in 1..n, NEW j \in 1..n, i < j
               PROVE  /\ accepted'[i] # accepted'[j]
                      /\ lines[accepted'[i]].g = lines[accepted'[j]].g
                             => accepted'[i] < accepted'[j]
    BY <1>3
  <2>1. i \in 1..Len(accepted) /\ accepted'[i] = accepted[i] /\ accepted[i] \in Ids
    BY <1>3
  <2>2. CASE j = n
    <3>1. accepted'[j] = x /\ accepted[i] # x /\ accepted[i] \in Nat /\ x \in Nat
      BY <1>1, <1>3, <1>8, <2>1, <2>2
    <3>2. lines[accepted[i]].g = lines[x].g => accepted[i] <= x
      BY <1>1, <2>1
    <3> QED BY <2>1, <3>1, <3>2
  <2>3. CASE j # n
    <3>1. j \in 1..Len(accepted) /\ accepted'[j] = accepted[j]
      BY <1>3, <2>3
    <3> QED BY <1>3, <2>1, <3>1 DEF PipeInOrder
  <2> QED BY <2>2, <2>3
<1>11. scanner' = "capture" => Shown' > 0 /\ held' = accepted'[Shown']
  BY <1>2, <1>3, <1>4, <1>5, <1>6 DEF PipeInOrder, Shown
<1>12. PipeInOrder'
  BY <1>2, <1>6, <1>7, <1>9, <1>10, <1>11 DEF PipeInOrder, InPipe
<1>13. ASSUME scanner # "done" PROVE ConveyedInOrder'
  <2>1. /\ Shown \in Nat /\ OnTerminal(Shown)
        /\ scanner = "show" => held = accepted[Shown + 1]
        /\ \A k \in DOMAIN pipe : pipe[k] = accepted[Shown + AtScanner + k]
        /\ Prints = {accepted[k] : k \in 1..Shown} \ (IF scanner = "capture" THEN {held} ELSE {})
    BY <1>13 DEF ConveyedInOrder, Prints
  <2>2. Shown + AtScanner + Len(pipe) = Len(accepted)
    BY <1>3, <1>4, <1>5 DEF Shown
  <2>3. 1..Shown \subseteq 1..Len(accepted)
    BY <1>3, <1>4, <1>5, <2>1, <2>2
  <2>4. OnTerminal(Shown)'
    <3>1. ASSUME NEW at, Stand(at, Shown, accepted, terminal, lines)
          PROVE  Stand(at, Shown', accepted', terminal', lines')
      <4>1. \A k \in 1..Shown : accepted'[k] = accepted[k]
        BY <1>3, <2>3
      <4> QED BY <1>2, <1>6, <3>1, <4>1 DEF Stand
    <3> QED BY <2>1, <3>1, OnTerminalStands
  <2>5. scanner' = "show" => held' = accepted'[Shown' + 1]
    <3>1. scanner = "show" => Shown + 1 \in 1..Len(accepted)
      BY <1>3, <1>4, <2>1 DEF Shown, AtScanner
    <3> QED BY <1>2, <1>3, <1>6, <2>1, <3>1
  <2>6. \A k \in DOMAIN pipe' : pipe'[k] = accepted'[Shown' + AtScanner' + k]
    <3> SUFFICES ASSUME NEW k \in 1..p PROVE pipe'[k] = accepted'[Shown + AtScanner + k]
      BY <1>4, <1>5, <1>6
    <3>1. CASE k = p
      <4>1. Shown + AtScanner + k = n
        BY <1>3, <1>4, <1>5, <2>1, <2>2, <3>1
      <4> QED BY <1>3, <1>4, <3>1, <4>1
    <3>2. CASE k # p
      <4>1. k \in 1..Len(pipe) /\ Shown + AtScanner + k \in 1..Len(accepted)
        BY <1>3, <1>4, <1>5, <2>1, <2>2, <3>2
      <4> QED BY <1>3, <1>4, <2>1, <4>1
    <3> QED BY <3>1, <3>2
  <2>7. /\ Prints' = Prints
        /\ {accepted'[k] : k \in 1..Shown'} = {accepted[k] : k \in 1..Shown}
    BY <1>2, <1>3, <1>6, <2>3 DEF Prints
  <2> QED BY <1>2, <1>6, <2>1, <2>4, <2>5, <2>6, <2>7 DEF ConveyedInOrder, Prints
<1>14. CASE scanner = "done"
  BY <1>2, <1>6, <1>7, <1>12, <1>14 DEF ConveyedInOrder
<1> QED BY <1>12, <1>13, <1>14

LEMMA ScanConveyed ==
    ASSUME TypeOK, TypeOK', PipeInOrder, ConveyedInOrder, Scan
    PROVE  PipeInOrder' /\ ConveyedInOrder'
<1>1. /\ UNCHANGED <<lines, accepted, terminal, closed, posted>> /\ scanner = "scan"
      /\ pipe # <<>> /\ pipe' = Tail(pipe)
      /\ scanner' = "done" => lines[Head(pipe)].long
      /\ scanner' # "done" => scanner' = "show" /\ held' = Head(pipe)
      /\ scanner' \in {"show", "done"}
  BY DEF Scan
<1>2. /\ Len(pipe) \in Nat \ {0} /\ Len(pipe') = Len(pipe) - 1
      /\ DOMAIN pipe' = 1..Len(pipe') /\ DOMAIN pipe = 1..Len(pipe)
      /\ \A i \in 1..Len(pipe') : pipe'[i] = pipe[i + 1]
      /\ Head(pipe) = pipe[1] /\ Head(pipe) \in Ids
  <2>1. pipe \in Seq(Ids)
    BY DEF TypeOK
  <2> QED BY <1>1, <2>1, Shortened, Typed
<1>3. AtScanner = 0 /\ (scanner' = "show" => AtScanner' = 1)
  BY <1>1 DEF AtScanner
<1>4. Len(accepted) \in Nat /\ (NoLongLine' <=> NoLongLine)
  BY <1>1, Typed DEF NoLongLine, Ids
<1>5. scanner' = "done" => ~NoLongLine'
  BY <1>1, <1>2, <1>4 DEF NoLongLine
<1>6. PipeInOrder'
  BY <1>1, <1>5 DEF PipeInOrder, InPipe
<1>7. ASSUME scanner' = "show" PROVE ConveyedInOrder'
  <2>1. /\ Shown \in Nat /\ OnTerminal(Shown)
        /\ \A k \in 1..Len(pipe) : pipe[k] = accepted[Shown + k]
        /\ Prints = {accepted[k] : k \in 1..Shown}
    <3>1. \A k \in 1..Len(pipe) : pipe[k] = accepted[Shown + AtScanner + k]
      BY <1>1, <1>2 DEF ConveyedInOrder
    <3>2. Shown \in Nat
      BY <1>1 DEF ConveyedInOrder
    <3>3. \A k \in 1..Len(pipe) : Shown + AtScanner + k = Shown + k
      BY <1>3, <3>2
    <3> QED BY <1>1, <3>1, <3>2, <3>3 DEF ConveyedInOrder, Prints
  <2>2. Shown' = Shown
    BY <1>1, <1>2, <1>3, <1>4, <1>7 DEF Shown
  <2>3. held' = accepted'[Shown' + 1]
    BY <1>1, <1>2, <1>7, <2>1, <2>2
  <2>4. \A k \in DOMAIN pipe' : pipe'[k] = accepted'[Shown' + AtScanner' + k]
    <3> SUFFICES ASSUME NEW k \in 1..Len(pipe') PROVE pipe'[k] = accepted[Shown + 1 + k]
      BY <1>1, <1>2, <1>3, <1>7, <2>2
    <3>1. k + 1 \in 1..Len(pipe) /\ Shown + (k + 1) = Shown + 1 + k
      BY <1>2, <2>1
    <3> QED BY <1>2, <2>1, <3>1
  <2>5. OnTerminal(Shown)'
    BY <1>1, <2>1, <2>2, OnTerminalStands
  <2>6. Prints' = Prints
    BY <1>1 DEF Prints
  <2> QED BY <1>1, <1>7, <2>1, <2>2, <2>3, <2>4, <2>5, <2>6 DEF ConveyedInOrder, Prints
<1>8. CASE scanner' = "done"
  BY <1>5, <1>6, <1>8 DEF ConveyedInOrder
<1> QED BY <1>1, <1>6, <1>7, <1>8

LEMMA ShowConveyed ==
    ASSUME TypeOK, TypeOK', LinesAreDated, PipeInOrder, ConveyedInOrder, Show
    PROVE  PipeInOrder' /\ ConveyedInOrder'
<1> DEFINE m == Len(terminal) + 1
           n == Shown + 1
<1>1. /\ UNCHANGED <<lines, accepted, pipe, held, closed, posted>>
      /\ scanner = "show" /\ scanner' = "capture"
  BY DEF Show
<1>2. /\ n \in DOMAIN accepted /\ held = accepted[n] /\ held \in Ids
      /\ lines[held].file = "pipe"
  BY <1>1, HeldWasAccepted DEF InPipe
<1>3. /\ DOMAIN terminal = 1..Len(terminal) /\ Len(terminal) \in Nat
      /\ DOMAIN terminal' = 1..m /\ terminal'[m] = held
      /\ \A i \in 1..Len(terminal) : terminal'[i] = terminal[i]
  <2>1. terminal \in Seq(Ids) /\ terminal' = Append(terminal, held)
    BY DEF Show, TypeOK
  <2> QED BY <1>2, <2>1, Extended, Typed
<1>4. /\ Shown \in Nat /\ OnTerminal(Shown)
      /\ \A k \in DOMAIN pipe : pipe[k] = accepted[Shown + AtScanner + k]
      /\ Prints = {accepted[k] : k \in 1..Shown}
  BY <1>1 DEF ConveyedInOrder, Prints
<1>5. AtScanner = 1 /\ AtScanner' = 0 /\ Shown' = n
  <2>1. AtScanner = 1 /\ AtScanner' = 0
    BY <1>1 DEF AtScanner
  <2> QED BY <1>1, <1>4, <2>1, Typed DEF Shown
<1>6. NoLongLine' <=> NoLongLine
  BY <1>1 DEF NoLongLine, Ids
<1>7. lines[held].kind = "print"
  BY <1>2, Typed DEF LinesAreDated, Lines
<1>8. \A i \in DOMAIN terminal' : lines[terminal'[i]].kind = "print"
  BY <1>3, <1>7 DEF PipeInOrder
<1>9. PipeInOrder'
  BY <1>1, <1>2, <1>4, <1>5, <1>8 DEF PipeInOrder, InPipe
<1>10. ASSUME NEW at, Stand(at, Shown, accepted, terminal, lines)
       PROVE  Stand([k \in 1..n |-> IF k = n THEN m ELSE at[k]], n, accepted', terminal', lines')
  <2> DEFINE to == [k \in 1..n |-> IF k = n THEN m ELSE at[k]]
  <2>1. \A k \in 1..n : k # n => k \in 1..Shown
    BY <1>4
  <2>2. n \in 1..n /\ m \in 1..m /\ \A k \in 1..Shown : k \in 1..n /\ k # n
    BY <1>3, <1>4
  <2>3. \A k \in 1..Shown : at[k] \in 1..Len(terminal) /\ terminal[at[k]] = accepted[k]
    BY <1>3, <1>10 DEF Stand
  <2>4. to[n] = m /\ \A k \in 1..Shown : to[k] = at[k]
    BY <2>2
  <2>5. to \in [1..n -> DOMAIN terminal']
    BY <1>3, <2>1, <2>3
  <2> HIDE DEF to, n, m
  <2>6. \A k \in 1..n : terminal'[to[k]] = accepted'[k]
    BY <1>1, <1>2, <1>3, <2>1, <2>3, <2>4
  <2>7. \A j, k \in 1..n : j < k => to[j] < to[k]
    <3> SUFFICES ASSUME NEW j \in 1..n, NEW k \in 1..n, j < k PROVE to[j] < to[k]
      OBVIOUS
    <3>1. j \in 1..Shown /\ to[j] = at[j]
      BY <1>4, <2>4 DEF n
    <3>2. CASE k = n
      BY <1>3, <2>3, <2>4, <3>1, <3>2 DEF m
    <3>3. CASE k # n
      <4>1. k \in 1..Shown /\ to[k] = at[k]
        BY <2>1, <2>4, <3>3
      <4> QED BY <1>10, <3>1, <4>1 DEF Stand
    <3> QED BY <3>2, <3>3
  <2>8. \A i \in DOMAIN terminal' : lines'[terminal'[i]].file = "pipe" => \E k \in 1..n : to[k] = i
    <3> SUFFICES ASSUME NEW i \in 1..m, lines[terminal'[i]].file = "pipe"
                 PROVE  \E k \in 1..n : to[k] = i
      BY <1>1, <1>3
    <3>1. CASE i = m
      BY <2>2, <2>4, <3>1
    <3>2. CASE i # m
      <4>1. i \in 1..Len(terminal) /\ terminal'[i] = terminal[i]
        BY <1>3, <3>2 DEF m
      <4>2. PICK k \in 1..Shown : at[k] = i
        BY <1>3, <1>10, <4>1 DEF Stand
      <4> QED BY <2>2, <2>4, <4>2
    <3> QED BY <3>1, <3>2
  <2>9. Stand(to, n, accepted', terminal', lines')
    BY <2>5, <2>6, <2>7, <2>8 DEF Stand
  <2> QED BY <2>9 DEF to
<1>11. OnTerminal(Shown)'
  BY <1>4, <1>5, <1>10, OnTerminalStands
<1>12. Prints' = {accepted'[k] : k \in 1..Shown'} \ {held'}
  <2>1. \A k \in 1..Shown : accepted[k] # held
    <3>1. \A k \in 1..Shown : k \in DOMAIN accepted /\ k < n
      BY <1>2, <1>4, Typed
    <3> QED BY <1>2, <3>1 DEF PipeInOrder
  <2>2. \A k \in 1..Shown' : k \in 1..Shown \/ accepted'[k] = held'
    BY <1>1, <1>2, <1>4, <1>5
  <2>3. \A k \in 1..Shown : k \in 1..Shown'
    BY <1>4, <1>5
  <2>4. Prints' = Prints
    BY <1>1 DEF Prints
  <2> QED BY <1>1, <1>4, <2>1, <2>2, <2>3, <2>4
<1>13. \A k \in DOMAIN pipe' : pipe'[k] = accepted'[Shown' + AtScanner' + k]
  <2> SUFFICES ASSUME NEW k \in 1..Len(pipe) PROVE pipe[k] = accepted[n + 0 + k]
    BY <1>1, <1>5, Typed
  <2>1. n + 0 + k = Shown + AtScanner + k
    BY <1>4, <1>5
  <2> QED BY <1>4, <2>1, Typed
<1>14. ConveyedInOrder'
  BY <1>1, <1>4, <1>5, <1>11, <1>12, <1>13 DEF ConveyedInOrder, Prints
<1> QED BY <1>9, <1>14

LEMMA CaptureConveyed ==
    ASSUME TypeOK, TypeOK', LinesAreDated, PipeInOrder, ConveyedInOrder, Capture
    PROVE  PipeInOrder' /\ ConveyedInOrder'
<1>1. /\ UNCHANGED <<lines, accepted, pipe, terminal, closed>>
      /\ scanner = "capture" /\ scanner' = "scan" /\ posted' = posted \cup {held}
  BY DEF Capture
<1>2. /\ Shown \in Nat /\ OnTerminal(Shown)
      /\ \A k \in DOMAIN pipe : pipe[k] = accepted[Shown + AtScanner + k]
      /\ Prints = {accepted[k] : k \in 1..Shown} \ {held}
  BY <1>1 DEF ConveyedInOrder, Prints
<1>3. AtScanner = 0 /\ AtScanner' = 0 /\ Shown' = Shown /\ (NoLongLine' <=> NoLongLine)
  BY <1>1 DEF AtScanner, Shown, NoLongLine, Ids
<1>4. Shown > 0 /\ held = accepted[Shown]
  BY <1>1 DEF PipeInOrder
<1>5. PipeInOrder'
  BY <1>1 DEF PipeInOrder, InPipe
<1>6. Shown \in DOMAIN accepted
  BY <1>2, <1>3, <1>4, Typed DEF Shown
<1>7. lines[held].kind = "print"
  <2>1. held \in Ids /\ InPipe(held)
    BY <1>4, <1>6, Typed DEF PipeInOrder
  <2> QED BY <2>1, Typed DEF LinesAreDated, Lines, InPipe
<1>8. Prints' = {accepted'[k] : k \in 1..Shown'}
  <2>1. Prints' = Prints \cup {held}
    BY <1>1, <1>7 DEF Prints
  <2>2. held \in {accepted[k] : k \in 1..Shown}
    BY <1>2, <1>4
  <2> QED BY <1>1, <1>2, <1>3, <2>1, <2>2
<1>9. OnTerminal(Shown)'
  BY <1>1, <1>2, <1>3, OnTerminalStands
<1>10. ConveyedInOrder'
  BY <1>1, <1>2, <1>3, <1>8, <1>9 DEF ConveyedInOrder, Prints
<1> QED BY <1>5, <1>10

LEMMA ScanEOFConveyed ==
    ASSUME TypeOK, TypeOK', PipeInOrder, ConveyedInOrder, ScanEOF
    PROVE  PipeInOrder' /\ ConveyedInOrder'
<1>1. /\ UNCHANGED <<lines, accepted, pipe, terminal, closed, posted, held>>
      /\ scanner = "scan" /\ scanner' = "done" /\ pipe = <<>> /\ "pipe" \in closed
  BY DEF ScanEOF
<1>2. AtScanner = 0 /\ AtScanner' = 0 /\ Shown' = Shown
  BY <1>1 DEF AtScanner, Shown
<1>3. PipeInOrder'
  BY <1>1 DEF PipeInOrder, InPipe
<1>4. OnTerminal(Shown) => OnTerminal(Shown)'
  BY <1>1, <1>2, OnTerminalStands
<1>5. ConveyedInOrder'
  BY <1>1, <1>2, <1>4 DEF ConveyedInOrder
<1> QED BY <1>3, <1>5

LEMMA ConveyedStep ==
    ASSUME TypeOK, TypeOK', CallsInOrder, LinesAreDated, StopInOrder, PipeInOrder,
           ConveyedInOrder, [Next]_vars
    PROVE  PipeInOrder' /\ ConveyedInOrder'
<1>1. ASSUME NEW g \in Goroutines, LogPost(g) PROVE PipeInOrder' /\ ConveyedInOrder'
  <2>1. UNCHANGED <<accepted, pipe, terminal, scanner, held, closed>>
    BY <1>1 DEF LogPost, pipes
  <2>2. posted' = posted \/ posted' = posted \cup {Top(g).id}
    BY <1>1 DEF LogPost
  <2>3. Top(g).id \in Ids /\ lines[Top(g).id].kind = "log"
    BY <1>1, TopInOrder DEF LogPost
  <2> QED BY <2>1, <2>2, <2>3, QuietStep
<1>2. ASSUME NEW g \in Goroutines, WriteRest(g) PROVE PipeInOrder' /\ ConveyedInOrder'
  <2>1. scanner = "done" /\ ~NoLongLine
    BY <1>2, RestWhenDone
  <2>2. UNCHANGED <<lines, accepted, terminal, scanner, held, closed>>
    BY <1>2 DEF WriteRest
  <2>3. ~NoLongLine' /\ scanner' = "done"
    BY <2>1, <2>2 DEF NoLongLine, Ids
  <2> QED BY <2>2, <2>3 DEF PipeInOrder, ConveyedInOrder, InPipe
<1>3. CASE Finalize \/ StopPrintCapture \/ StopStep \/ Exit \/ UNCHANGED vars
  <2>1. /\ UNCHANGED <<accepted, pipe, terminal, scanner, held, posted>>
        /\ closed \subseteq closed'
    BY <1>3
    DEF Finalize, StopPrintCapture, StopStep, StopClose, StopSwap, StopWait, Exit, vars, pipes
  <2> QED BY <2>1, QuietStep
<1>4. ASSUME NEW g \in Goroutines, LogCall(g) \/ PrintCall(g) \/ LogGuard(g) \/ WriteFails(g)
      PROVE  PipeInOrder' /\ ConveyedInOrder'
  <2>1. UNCHANGED <<accepted, pipe, terminal, scanner, held, posted, closed>>
    BY <1>4 DEF LogCall, PrintCall, Call, LogGuard, WriteFails, pipes
  <2> QED BY <2>1, QuietStep
<1>5. ASSUME NEW g \in Goroutines, WriteTerminal(g) \/ WritePipe(g)
      PROVE  PipeInOrder' /\ ConveyedInOrder'
  BY <1>5, WriteTerminalConveyed, WritePipeConveyed
<1>6. CASE ScannerStep
  BY <1>6, ScanConveyed, ShowConveyed, CaptureConveyed, ScanEOFConveyed DEF ScannerStep
<1> QED BY <1>1, <1>2, <1>3, <1>4, <1>5, <1>6 DEF Next, LogStep, WriteStep

-----------------------------------------------------------------------------
(* The order on the terminal, and prints that fail.                        *)

\* A line that is appended to the terminal is overtaken only as allowed, if the
\* lines before it are.
LEMMA AppendedInOrder ==
    ASSUME TypeOK, OvertakenOnlyWhileStopping, UNCHANGED lines, NEW x \in Ids,
           terminal' = Append(terminal, x),
           \A i \in DOMAIN terminal :
               lines[terminal[i]].g = lines[x].g /\ terminal[i] > x =>
                   lines[terminal[i]].during = "wait" /\ InPipe(x)
    PROVE  OvertakenOnlyWhileStopping'
<1>1. /\ DOMAIN terminal = 1..Len(terminal) /\ Len(terminal) \in Nat
      /\ DOMAIN terminal' = 1..(Len(terminal) + 1) /\ terminal'[Len(terminal) + 1] = x
      /\ \A i \in 1..Len(terminal) : terminal'[i] = terminal[i]
  <2>1. terminal \in Seq(Ids)
    BY DEF TypeOK
  <2> QED BY <2>1, Extended, Typed
<1> SUFFICES ASSUME NEW i \in DOMAIN terminal', NEW j \in DOMAIN terminal', i < j,
                    lines[terminal'[i]].g = lines[terminal'[j]].g,
                    terminal'[i] > terminal'[j]
             PROVE  /\ lines[terminal'[i]].during = "wait"
                    /\ lines[terminal'[j]].file = "pipe"
  BY DEF OvertakenOnlyWhileStopping, InPipe
<1>2. i \in DOMAIN terminal /\ terminal'[i] = terminal[i]
  BY <1>1
<1>3. CASE j \in DOMAIN terminal
  <2>1. terminal'[j] = terminal[j]
    BY <1>1, <1>3
  <2> QED BY <1>2, <1>3, <2>1 DEF OvertakenOnlyWhileStopping, InPipe
<1>4. CASE j \notin DOMAIN terminal
  <2>1. terminal'[j] = x
    BY <1>1, <1>4
  <2> QED BY <1>2, <2>1 DEF InPipe
<1> QED BY <1>3, <1>4

LEMMA OvertakenStep ==
    ASSUME TypeOK, TypeOK', CallsInOrder, LinesAreDated, StopInOrder, PipeInOrder,
           ConveyedInOrder, OvertakenOnlyWhileStopping, [Next]_vars
    PROVE  OvertakenOnlyWhileStopping'
<1>1. ASSUME UNCHANGED terminal PROVE OvertakenOnlyWhileStopping'
  <2>1. \A id \in Ids : lines'[id] = lines[id]
    BY LinesStep
  <2>2. \A i \in DOMAIN terminal : terminal[i] \in Ids
    BY Typed
  <2> QED BY <1>1, <2>1, <2>2 DEF OvertakenOnlyWhileStopping, InPipe
<1>2. ASSUME NEW g \in Goroutines, WriteTerminal(g) PROVE OvertakenOnlyWhileStopping'
  <2>1. /\ Top(g).id \in Ids /\ lines[Top(g).id].g = g
        /\ \A y \in Ids : lines[y].g = g => y <= Top(g).id
    BY <1>2, TopInOrder DEF WriteTerminal
  <2>2. terminal' = Append(terminal, Top(g).id) /\ UNCHANGED lines
    BY <1>2 DEF WriteTerminal
  <2>3. \A i \in DOMAIN terminal : terminal[i] \in Ids /\ terminal[i] \in Nat
    BY Typed
  <2>4. Top(g).id \in Nat
    BY <2>1, Typed
  <2>5. \A i \in DOMAIN terminal : lines[terminal[i]].g = g => ~(terminal[i] > Top(g).id)
    BY <2>1, <2>3, <2>4
  <2> QED BY <2>1, <2>2, <2>5, AppendedInOrder
<1>3. CASE Show
  <2>1. terminal' = Append(terminal, held) /\ UNCHANGED lines /\ scanner = "show"
    BY <1>3 DEF Show
  <2>2. /\ Shown + 1 \in DOMAIN accepted /\ held = accepted[Shown + 1]
        /\ held \in Ids /\ InPipe(held)
    BY <2>1, HeldWasAccepted
  <2>3. Shown \in Nat
    BY <2>1 DEF ConveyedInOrder
  <2>4. PICK at : Stand(at, Shown, accepted, terminal, lines)
    BY <2>1, OnTerminalStands DEF ConveyedInOrder
  <2>5. ASSUME NEW i \in DOMAIN terminal, lines[terminal[i]].g = lines[held].g,
               terminal[i] > held
        PROVE  lines[terminal[i]].during = "wait"
    <3>1. terminal[i] \in Ids /\ lines[terminal[i]] \in Lines /\ terminal[i] \in Nat
          /\ held \in Nat
      BY <2>2, Typed
    <3>2. CASE lines[terminal[i]].file = "pipe"
      <4>1. PICK k \in 1..Shown : at[k] = i
        BY <2>4, <3>2 DEF Stand
      <4>2. terminal[i] = accepted[k]
        BY <2>4, <4>1 DEF Stand
      <4>3. k \in DOMAIN accepted /\ k < Shown + 1
        BY <2>2, <2>3, Typed
      <4>4. accepted[k] < held
        BY <2>2, <2>5, <4>2, <4>3 DEF PipeInOrder
      <4> QED BY <2>5, <3>1, <4>2, <4>4
    <3>3. CASE lines[terminal[i]].file # "pipe"
      <4>1. lines[terminal[i]].file = "terminal"
        BY <3>1, <3>3 DEF PipeInOrder, LinesAreDated, Lines
      <4>2. setup = "piped"
        BY <2>2 DEF LinesAreDated
      <4>3. lines[terminal[i]].during # "before"
        BY <3>1, <4>1, <4>2 DEF LinesAreDated
      <4>4. lines[terminal[i]].during # "done"
        BY <2>1, <3>1, <4>2 DEF LinesAreDated, StopInOrder
      <4> QED BY <3>1, <4>3, <4>4 DEF Lines
    <3> QED BY <3>2, <3>3
  <2> QED BY <2>1, <2>2, <2>5, AppendedInOrder
<1>4. CASE ~Show /\ ~\E g \in Goroutines : WriteTerminal(g)
  <2>1. UNCHANGED terminal
    BY <1>4
    DEF Next, vars, pipes, LogCall, PrintCall, Call, LogStep, LogGuard, LogPost, WriteStep,
        WritePipe, WriteRest, WriteFails, ScannerStep, Scan, ScanEOF, Capture, Finalize,
        StopPrintCapture, StopStep, StopClose, StopSwap, StopWait, Exit
  <2> QED BY <1>1, <2>1
<1> QED BY <1>2, <1>3, <1>4

LEMMA LostStep ==
    ASSUME TypeOK, TypeOK', CallsInOrder, LinesAreDated, StopInOrder, PrintsAfterStop,
           [Next]_vars
    PROVE  PrintsAfterStop'
<1>1. \A id \in Ids : lines'[id] = lines[id]
  BY LinesStep
<1>2. ASSUME NEW g \in Goroutines, WriteFails(g) PROVE PrintsAfterStop'
  <2>1. UNCHANGED <<lines, setup>> /\ lost' = lost \cup {Top(g).id}
    BY <1>2 DEF WriteFails, pipes
  <2>2. ASSUME setup # "failed", lines[Top(g).id].during = "done" PROVE FALSE
    <3>1. Top(g).id \in Ids
      BY <1>2, TopTyped DEF WriteFails, Writing
    <3>2. File(g) = "terminal"
      BY <2>2, <3>1 DEF File, LinesAreDated
    <3>3. "terminal" \notin closed
      BY <2>2 DEF StopInOrder, TypeOK
    <3> QED BY <1>2, <3>2, <3>3 DEF WriteFails, Open
  <2> QED BY <2>1, <2>2 DEF PrintsAfterStop
<1>3. CASE ~\E g \in Goroutines : WriteFails(g)
  <2>1. UNCHANGED <<setup, lost>>
    BY <1>3
    DEF Next, vars, pipes, LogCall, PrintCall, Call, LogStep, LogGuard, LogPost, WriteStep,
        WriteTerminal, WritePipe, WriteRest, ScannerStep, Scan, ScanEOF, Show, Capture,
        Finalize, StopPrintCapture, StopStep, StopClose, StopSwap, StopWait, Exit
  <2> QED BY <1>1, <2>1 DEF PrintsAfterStop, TypeOK
<1> QED BY <1>2, <1>3

\* When stopPrintCapture has returned, the scanner has met the end of an empty
\* pipe, so that all that was accepted has been shown and captured.
LEMMA Drained == OutputInv /\ ConveyedInOrder => StopDrains
<1> SUFFICES ASSUME OutputInv, ConveyedInOrder, stop = "done", NoLongLine
             PROVE  ToSet(accepted) \subseteq ToSet(terminal) \cap posted
  BY DEF StopDrains
<1> USE DEF OutputInv
<1>1. CASE setup # "piped"
  <2>1. accepted = <<>>
    BY <1>1 DEF StopInOrder
  <2>2. DOMAIN accepted = {}
    BY <2>1
  <2> QED BY <2>2 DEF ToSet
<1>2. CASE setup = "piped"
  <2>1. scanner = "done" /\ pipe = <<>>
    BY <1>2 DEF StopInOrder, PipeInOrder
  <2>2. Shown = Len(accepted) /\ DOMAIN accepted = 1..Shown
    <3>1. Len(pipe) = 0 /\ AtScanner = 0
      BY <2>1, EmptySeq DEF AtScanner
    <3> QED BY <3>1, Typed DEF Shown
  <2>3. PICK at : Stand(at, Shown, accepted, terminal, lines)
    BY OnTerminalStands DEF ConveyedInOrder
  <2>4. Prints = {accepted[k] : k \in 1..Shown}
    BY <2>1 DEF ConveyedInOrder, Prints
  <2>5. ASSUME NEW k \in DOMAIN accepted
        PROVE  accepted[k] \in {terminal[i] : i \in DOMAIN terminal} /\ accepted[k] \in posted
    BY <2>2, <2>3, <2>4 DEF Stand, Prints
  <2> QED BY <2>5 DEF ToSet
<1> QED BY <1>1, <1>2

-----------------------------------------------------------------------------

Inductive ==
    /\ OutputInv
    /\ ConveyedInOrder
    /\ OvertakenOnlyWhileStopping
    /\ PrintsAfterStop

LEMMA Initially == Init => Inductive
<1> SUFFICES ASSUME Init PROVE Inductive
  OBVIOUS
<1> USE DEF Init
<1>1. Ids = {} /\ \A S : <<>> \in Seq(S)
  BY DEF Ids
<1>2. Len(pipe) = 0 /\ Len(accepted) = 0 /\ DOMAIN pipe = {} /\ DOMAIN accepted = {}
      /\ DOMAIN terminal = {} /\ \A g \in Goroutines : DOMAIN calls[g] = {}
  OBVIOUS
<1>3. TypeOK
  <2>1. lines \in Seq(Lines) /\ pipe \in Seq(Ids) /\ accepted \in Seq(Ids) /\ terminal \in Seq(Ids)
    BY <1>1
  <2>2. calls \in [Goroutines -> Seq(Frames)]
    BY <1>1
  <2>3. /\ setup \in {"piped", "disabled", "failed"} /\ stdout \in {"terminal", "pipe"}
        /\ scanner \in {"none", "scan", "show", "capture", "done"}
        /\ held # 0 <=> scanner \in {"show", "capture"}
    OBVIOUS
  <2>4. Len(pipe) <= PipeCap
    BY <1>2, PipeCapAssumption
  <2>5. \A g \in Goroutines : \A k \in DOMAIN calls[g] : calls[g][k].id \in Ids
    BY <1>2
  <2>6. /\ inLogCapture \in BOOLEAN /\ closed \subseteq {"terminal", "pipe", "reader"}
        /\ stop \in {"idle", "close", "swap", "wait", "done"} /\ exited \in BOOLEAN
        /\ held \in Ids \cup {0}
        /\ posted \subseteq Ids /\ ignored \subseteq Ids /\ lost \subseteq Ids
    OBVIOUS
  <2> HIDE DEF Init
  <2> QED BY <2>1, <2>2, <2>3, <2>4, <2>5, <2>6 DEF TypeOK
<1>4. GuardHeldByOne /\ CallsInOrder /\ LinesAreDated
  BY <1>1, <1>2 DEF GuardHeldByOne, CallsInOrder, LinesAreDated
<1>5. StopInOrder
  BY DEF StopInOrder
<1>6. Shown = 0
  <2>1. AtScanner = 0
    BY DEF AtScanner
  <2> QED BY <1>2, <2>1 DEF Shown
<1>7. PipeInOrder
  BY <1>1, <1>2 DEF PipeInOrder
<1>8. OnTerminal(0)
  <2>1. [k \in 1..0 |-> 0] \in [1..0 -> DOMAIN terminal]
    OBVIOUS
  <2> QED BY <1>2, <2>1 DEF OnTerminal
<1>9. ConveyedInOrder
  BY <1>2, <1>6, <1>8 DEF ConveyedInOrder
<1>10. OvertakenOnlyWhileStopping /\ PrintsAfterStop
  BY <1>2 DEF OvertakenOnlyWhileStopping, PrintsAfterStop
<1> QED BY <1>3, <1>4, <1>5, <1>7, <1>9, <1>10 DEF Inductive, OutputInv

LEMMA Steps == Inductive /\ [Next]_vars => Inductive'
<1> SUFFICES ASSUME Inductive, [Next]_vars PROVE Inductive'
  OBVIOUS
<1>1. TypeOK'
  BY TypeStep DEF Inductive, OutputInv
<1>2. GuardHeldByOne'
  BY <1>1, GuardStep DEF Inductive, OutputInv
<1>3. CallsInOrder'
  BY <1>1, CallsStep DEF Inductive, OutputInv
<1>4. LinesAreDated' /\ StopInOrder'
  BY <1>1, DatedStep, StopInOrderStep DEF Inductive, OutputInv
<1>5. PipeInOrder' /\ ConveyedInOrder'
  BY <1>1, ConveyedStep DEF Inductive, OutputInv
<1>6. OvertakenOnlyWhileStopping' /\ PrintsAfterStop'
  BY <1>1, OvertakenStep, LostStep DEF Inductive, OutputInv
<1> QED BY <1>1, <1>2, <1>3, <1>4, <1>5, <1>6 DEF Inductive, OutputInv

LEMMA AlwaysInductive == Spec => []Inductive
BY Initially, Steps, PTL DEF Spec

\* The guard of log capture has one holder at most, in the whole process, and
\* is never left behind; what the other handlers rely on holds too.
THEOREM OutputIsInOrder == Spec => []OutputInv
BY AlwaysInductive, PTL DEF Inductive

\* Prints come out of the pipe in the order in which they went in, each once,
\* and are captured when they have been shown.
THEOREM PrintsAreConveyed == Spec => []ConveyedInOrder
BY AlwaysInductive, PTL DEF Inductive

\* stopPrintCapture leaves nothing in the pipe, lets only what is printed while
\* it waits overtake, and loses no later print.
THEOREM StopsOrderly == Spec => []StopIsOrderly
<1>1. Inductive => StopIsOrderly
  BY Drained DEF Inductive, StopIsOrderly
<1> QED BY <1>1, AlwaysInductive, PTL

-----------------------------------------------------------------------------
(* Who waits for whom.                                                     *)

\* Of the lines in the pipe's way, one can always go on.
THEOREM PrintsAndStopsGoOn == Spec => []NobodyIsStuck
<1>1. OutputInv => NobodyIsStuck
  <2> DEFINE SomeoneMayWrite ==
        \E h \in Goroutines : Writing(h) /\ (MayWrite(h) \/ ~Open(h))
  <2> SUFFICES ASSUME OutputInv, ~ScannerMayGo
               PROVE  /\ (\E g \in Goroutines : Writing(g)) => SomeoneMayWrite
                      /\ stop = "wait" /\ ~exited => scanner \in {"none", "done"}
    BY DEF NobodyIsStuck
  <2>0. TypeOK /\ CallsInOrder /\ LinesAreDated /\ StopInOrder
    BY DEF OutputInv
  <2>1. ASSUME NEW g \in Goroutines, Writing(g) PROVE SomeoneMayWrite
    <3>1. SUFFICES ASSUME \A h \in Goroutines : Writing(h) => Open(h) /\ ~MayWrite(h)
                   PROVE  FALSE
      OBVIOUS
    <3>2. ~exited
      BY <2>1 DEF Writing, At
    <3>3. File(g) = "pipe" /\ Open(g)
      BY <2>1, <3>1 DEF MayWrite
    <3>4. setup = "piped"
      BY <2>0, <2>1, <3>3, TopTyped DEF Writing, File, LinesAreDated, InPipe
    <3>5. scanner = "scan" /\ pipe = <<>>
      <4>1. scanner # "none" /\ "reader" \notin closed
        BY <2>0, <3>3, <3>4 DEF StopInOrder, Open
      <4> QED BY <2>0, <3>2, <4>1 DEF ScannerMayGo, TypeOK
    <3>6. Len(pipe) < PipeCap /\ \A id : ~Contains(pipe, id)
      BY <3>5, PipeCapAssumption, EmptySeq DEF Contains
    <3>7. PICK h \in Goroutines : At(h, "rest")
      BY <2>1, <3>1, <3>6 DEF MayWrite, Writing
    <3>8. MayWrite(h)
      BY <3>1, <3>6, <3>7 DEF MayWrite, Writing, At
    <3> QED BY <3>1, <3>7, <3>8 DEF Writing
  <2>2. ASSUME stop = "wait", ~exited PROVE scanner \in {"none", "done"}
    <3>1. setup = "piped" => "pipe" \in closed
      BY <2>0, <2>2 DEF StopInOrder
    <3> QED BY <2>0, <2>2, <3>1 DEF ScannerMayGo, StopInOrder, TypeOK
  <2> QED BY <2>1, <2>2
<1> QED BY <1>1, OutputIsInOrder, PTL

=============================================================================
