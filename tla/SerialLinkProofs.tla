-------------------------- MODULE SerialLinkProofs --------------------------
(***************************************************************************)
(* The life of a command in SerialLink, for any callers, queues, calls and *)
(* upsets: its types, its place, its order, its answer, that SerialLink    *)
(* implements CommandService, and so keeps its promises.                   *)
(***************************************************************************)
EXTENDS SerialLink, SequenceTheorems, TLAPS

-----------------------------------------------------------------------------
(* Commands and queues.                                                    *)

\* A command is determined by its caller and its number.
LEMMA CommandFacts ==
  /\ \A c \in Commands : c.from \in Callers /\ c.n \in Nat /\ 1 <= c.n /\ c.n <= MaxCalls[c.from]
  /\ \A g \in Callers, k \in Nat :
       1 <= k /\ k <= MaxCalls[g] => [from |-> g, n |-> k] \in Commands
  /\ \A c, d \in Commands : c.from = d.from /\ c.n = d.n => c = d
  /\ NoCmd \notin Commands
<1>1. \A c \in Commands : \E g \in Callers : c \in [from : {g}, n : 1 .. MaxCalls[g]]
  BY DEF Commands
<1>2. \A g \in Callers : MaxCalls[g] \in Nat
  BY BoundsAssumption
<1>3. \A c \in Commands : c.from \in Callers /\ c.n \in Nat /\ 1 <= c.n /\ c.n <= MaxCalls[c.from]
  BY <1>1, <1>2
<1>4. \A g \in Callers, k \in Nat : 1 <= k /\ k <= MaxCalls[g] => [from |-> g, n |-> k] \in Commands
  BY <1>2 DEF Commands
<1>5. \A c, d \in Commands : c.from = d.from /\ c.n = d.n => c = d
  BY <1>1
<1>6. NoCmd \notin Commands
  BY <1>3 DEF NoCmd
<1> QED BY <1>3, <1>4, <1>5, <1>6

\* What is in a queue after an append.
LEMMA InAppend ==
  ASSUME NEW S, NEW q \in Seq(S), NEW e \in S
  PROVE  /\ Append(q, e) \in Seq(S) /\ Len(Append(q, e)) = Len(q) + 1
         /\ \A c : InSeq(c, Append(q, e)) <=> InSeq(c, q) \/ c = e
<1>1. Append(q, e) \in Seq(S) /\ Len(Append(q, e)) = Len(q) + 1 /\ Len(q) \in Nat
  OBVIOUS
<1>2. \A i \in 1 .. Len(q) : Append(q, e)[i] = q[i]
  OBVIOUS
<1>3. Append(q, e)[Len(q) + 1] = e
  OBVIOUS
<1> QED BY <1>1, <1>2, <1>3 DEF InSeq

\* What is in a queue before and after its head is taken.
LEMMA InTail ==
  ASSUME NEW S, NEW q \in Seq(S), q # <<>>
  PROVE  /\ Head(q) \in S /\ Tail(q) \in Seq(S) /\ Len(Tail(q)) = Len(q) - 1 /\ Len(q) \in Nat
         /\ \A c : InSeq(c, q) <=> c = Head(q) \/ InSeq(c, Tail(q))
<1>1. /\ Head(q) \in S /\ Tail(q) \in Seq(S) /\ Len(Tail(q)) = Len(q) - 1
      /\ \A i \in 1 .. Len(Tail(q)) : Tail(q)[i] = q[i + 1]
  BY HeadTailProperties
<1>2. Len(q) \in Nat \ {0} /\ Head(q) = q[1]
  BY EmptySeq
<1>3. \A i \in 1 .. Len(q) : i = 1 \/ (i - 1 \in 1 .. Len(Tail(q)) /\ Tail(q)[i - 1] = q[i])
  BY <1>1, <1>2
<1>4. ASSUME NEW c, InSeq(c, q) PROVE c = Head(q) \/ InSeq(c, Tail(q))
  BY <1>2, <1>3, <1>4 DEF InSeq
<1>5. ASSUME NEW c, c = Head(q) \/ InSeq(c, Tail(q)) PROVE InSeq(c, q)
  <2>1. CASE c = Head(q)
    BY <1>2, <2>1 DEF InSeq
  <2>2. CASE InSeq(c, Tail(q))
    <3>1. PICK i \in 1 .. Len(Tail(q)) : Tail(q)[i] = c
      BY <2>2 DEF InSeq
    <3>2. i + 1 \in 1 .. Len(q) /\ q[i + 1] = c
      BY <1>1, <1>2, <3>1
    <3> QED BY <3>2 DEF InSeq
  <2> QED BY <1>5, <2>1, <2>2
<1> QED BY <1>1, <1>2, <1>4, <1>5

\* The commands of one goroutine stand in a queue in the order of its calls.
Sorted(q) == \A i, j \in 1 .. Len(q) : i < j /\ q[i].from = q[j].from => q[i].n < q[j].n

LEMMA SortedAppend ==
  ASSUME NEW q \in Seq(Commands), NEW e \in Commands, Sorted(q),
         \A c \in Commands : InSeq(c, q) /\ c.from = e.from => c.n < e.n
  PROVE  Sorted(Append(q, e))
<1>1. Len(Append(q, e)) = Len(q) + 1 /\ Len(q) \in Nat /\ Append(q, e)[Len(q) + 1] = e
  OBVIOUS
<1>2. \A i \in 1 .. Len(q) : Append(q, e)[i] = q[i] /\ q[i] \in Commands /\ InSeq(q[i], q)
  BY DEF InSeq
<1>3. \A i \in 1 .. Len(q) + 1 : i \in 1 .. Len(q) \/ i = Len(q) + 1
  BY <1>1
<1> QED BY <1>1, <1>2, <1>3 DEF Sorted

LEMMA SortedTail ==
  ASSUME NEW q \in Seq(Commands), q # <<>>, Sorted(q)
  PROVE  /\ Sorted(Tail(q))
         /\ \A c \in Commands : InSeq(c, Tail(q)) /\ c.from = Head(q).from => Head(q).n < c.n
<1>1. /\ Len(Tail(q)) = Len(q) - 1 /\ \A i \in 1 .. Len(Tail(q)) : Tail(q)[i] = q[i + 1]
  BY HeadTailProperties
<1>2. Len(q) \in Nat \ {0} /\ Head(q) = q[1]
  BY EmptySeq
<1>3. Sorted(Tail(q))
  BY <1>1, <1>2 DEF Sorted
<1>4. ASSUME NEW i \in 1 .. Len(Tail(q)), Tail(q)[i].from = Head(q).from PROVE Head(q).n < Tail(q)[i].n
  <2>1. Tail(q)[i] = q[i + 1] /\ i + 1 \in 1 .. Len(q) /\ 1 \in 1 .. Len(q) /\ 1 < i + 1
    BY <1>1, <1>2
  <2> QED BY <1>2, <1>4, <2>1 DEF Sorted
<1> QED BY <1>3, <1>4 DEF InSeq

-----------------------------------------------------------------------------
(* Types.                                                                  *)

\* writeLoop has a command from the moment it takes it to the answer.
Busy == /\ wpc \in {"write", "wait", "temps"} <=> cur # NoCmd
        /\ wpc = "temps" <=> got # NoLine

\* Who is inside a call has begun one.
Began == \A g \in Callers : cpc[g] # "idle" => calls[g] > 0

Shape == Busy /\ Began

\* What is in wire and rx is well-formed.
LEMMA LineFacts ==
  /\ \A k \in Kinds, c \in Commands \cup {NoCmd} : [kind |-> k, for |-> c] \in Lines
  /\ \A l \in Lines : l.kind \in Kinds
  /\ NoLine \notin Lines /\ NoRead.line = NoLine /\ NoRead.seen = "none"
  /\ Terminals \subseteq Kinds /\ Notices \subseteq Kinds
<1>1. \A l \in Lines : l.kind \in Kinds
  BY DEF Lines
<1>2. NoLine \notin Lines
  BY <1>1 DEF NoLine, Kinds
<1>3. Terminals \subseteq Kinds /\ Notices \subseteq Kinds
  BY KindsAssumption DEF Kinds
<1> QED BY <1>1, <1>2, <1>3 DEF Lines, NoRead

\* The initial state is typed.
LEMMA InitType == Init => TypeOK /\ Shape
<1> SUFFICES ASSUME Init PROVE TypeOK /\ Shape
  OBVIOUS
<1>1. QueueType
  BY BoundsAssumption, EmptySeq DEF Init, QueueType
<1>2. CallerType
  BY BoundsAssumption DEF Init, CallerType
<1>3. LoopType /\ Shape
  BY DEF Init, LoopType, Shape, Busy, Began
<1>4. PrinterType
  BY BoundsAssumption, EmptySeq DEF Init, PrinterType
<1>5. HistoryType
  BY DEF Init, HistoryType
<1> QED BY <1>1, <1>2, <1>3, <1>4, <1>5 DEF TypeOK

\* The command a goroutine is at.
LEMMA CmdOfTyped ==
  ASSUME TypeOK, Began, NEW g \in Callers, cpc[g] # "idle"
  PROVE  CmdOf(g) \in Commands
<1>1. calls[g] \in Nat /\ 1 <= calls[g] /\ calls[g] <= MaxCalls[g]
  BY DEF TypeOK, CallerType, Began
<1> QED BY <1>1, CommandFacts DEF CmdOf

\* The calling goroutines.
LEMMA CallTyped ==
  ASSUME TypeOK, Shape, NEW g \in Callers, CallSend(g) \/ EnqueueSend(g) \/ EnqueuePrio(g) \/ Return(g)
  PROVE  TypeOK' /\ Shape'
<1> USE DEF TypeOK, Shape, callVars, queueVars, writerVars, readerVars, printerVars, resetVars
<1>1. UNCHANGED <<inbound, resetpc, resets, state, wpc, cur, got, rd, answer, wire, rx, boot, notices,
                  faults, given, late, bypass>>
  BY DEF CallSend, EnqueueSend, EnqueuePrio, Return
<1>2. LoopType' /\ PrinterType' /\ HistoryType' /\ Busy'
  BY <1>1 DEF LoopType, PrinterType, HistoryType, Busy
<1>3. CallerType' /\ Began'
  <2>1. MaxCalls[g] \in Nat
    BY BoundsAssumption
  <2> QED BY <1>1, <2>1 DEF CallSend, EnqueueSend, EnqueuePrio, Return, CallerType, Began
<1>4. QueueType'
  <2>1. CASE UNCHANGED queueVars
    BY <1>1, <2>1 DEF QueueType
  <2>2. CASE EnqueueSend(g)
    <3>1. CmdOf(g) \in Commands
      BY <2>2, CmdOfTyped DEF EnqueueSend
    <3>2. sendQ' \in Seq(Commands) /\ Len(sendQ') = Len(sendQ) + 1 /\ Len(sendQ) < SendCap
      BY <2>2, <3>1 DEF EnqueueSend, QueueType
    <3>3. Len(sendQ) \in Nat /\ SendCap \in Nat /\ priorityQ' = priorityQ
      BY <2>2, BoundsAssumption DEF EnqueueSend, QueueType
    <3> QED BY <1>1, <3>2, <3>3 DEF QueueType
  <2>3. CASE priorityQ' = Append(priorityQ, CmdOf(g)) /\ EnqueuePrio(g) /\ Len(priorityQ) < PrioCap
    <3>1. CmdOf(g) \in Commands
      BY <2>3, CmdOfTyped DEF EnqueuePrio
    <3>2. priorityQ' \in Seq(Commands) /\ Len(priorityQ') = Len(priorityQ) + 1
      BY <2>3, <3>1 DEF QueueType
    <3>3. Len(priorityQ) \in Nat /\ PrioCap \in Nat /\ sendQ' = sendQ
      BY <2>3, BoundsAssumption DEF EnqueuePrio, QueueType
    <3> QED BY <1>1, <2>3, <3>2, <3>3 DEF QueueType
  <2> QED BY <2>1, <2>2, <2>3 DEF CallSend, EnqueuePrio, Return
<1> QED BY <1>2, <1>3, <1>4

\* writeLoop takes a command.
LEMMA TakeTyped ==
  ASSUME TypeOK, Shape, WritePoll \/ WriteSelect
  PROVE  TypeOK' /\ Shape'
<1> USE DEF TypeOK, Shape, callVars, queueVars, writerVars, readerVars, printerVars, resetVars
<1>1. UNCHANGED <<inbound, resetpc, resets, state, got, cpc, calls, rd, answer, wire, rx, boot, notices,
                  faults, given, late>> /\ wpc \in {"poll", "select"}
  BY DEF WritePoll, WriteSelect, TakePriority, TakeSend
<1>2. CallerType' /\ PrinterType' /\ Began'
  BY <1>1 DEF CallerType, PrinterType, Began
<1>3. CASE TakePriority
  <2>1. Head(priorityQ) \in Commands /\ Tail(priorityQ) \in Seq(Commands)
        /\ Len(Tail(priorityQ)) = Len(priorityQ) - 1 /\ Len(priorityQ) \in Nat
    BY <1>3, InTail DEF TakePriority, QueueType
  <2>2. PrioCap \in Nat
    BY BoundsAssumption
  <2>3. QueueType'
    BY <1>1, <1>3, <2>1, <2>2 DEF TakePriority, QueueType
  <2>4. LoopType' /\ HistoryType' /\ Busy'
    BY <1>1, <1>3, <2>1, CommandFacts DEF TakePriority, LoopType, HistoryType, Busy
  <2> QED BY <1>2, <2>3, <2>4
<1>4. CASE TakeSend
  <2>1. Head(sendQ) \in Commands /\ Tail(sendQ) \in Seq(Commands)
        /\ Len(Tail(sendQ)) = Len(sendQ) - 1 /\ Len(sendQ) \in Nat
    BY <1>4, InTail DEF TakeSend, QueueType
  <2>2. SendCap \in Nat
    BY BoundsAssumption
  <2>3. QueueType'
    BY <1>1, <1>4, <2>1, <2>2 DEF TakeSend, QueueType
  <2>4. LoopType' /\ HistoryType' /\ Busy'
    BY <1>1, <1>4, <2>1, CommandFacts DEF TakeSend, LoopType, HistoryType, Busy
  <2> QED BY <1>2, <2>3, <2>4
<1>5. CASE wpc' = "select" /\ UNCHANGED <<cur, got, queueVars, bypass>>
  BY <1>1, <1>2, <1>5 DEF QueueType, LoopType, HistoryType, Busy
<1> QED BY <1>3, <1>4, <1>5 DEF WritePoll, WriteSelect

\* The answer to a command.
LEMMA RespondTyped ==
  ASSUME CallerType, NEW c, NEW a \in {"nil", "error", "timeout", "unwritten"}, Respond(c, a)
  PROVE  answer' \in [Commands -> {"none", "nil", "error", "timeout", "unwritten"}]
  BY DEF CallerType, Respond

\* writeLoop writes and waits.
LEMMA WriteTyped ==
  ASSUME TypeOK, Shape, PortWrite \/ PortWriteFails \/ WriteReply \/ WriteTemps \/ WriteTimeout
  PROVE  TypeOK' /\ Shape'
<1> USE DEF TypeOK, Shape, callVars, queueVars, writerVars, readerVars, printerVars, resetVars
<1>1. UNCHANGED <<sendQ, priorityQ, resetpc, resets, state, cpc, calls, rd, rx, boot, notices, bypass>>
  BY DEF PortWrite, PortWriteFails, WriteReply, WriteTemps, WriteTimeout
<1>2. Began'
  BY <1>1 DEF Began
<1>3. CASE PortWrite
  <2>1. cur \in Commands
    BY <1>3 DEF PortWrite, LoopType, Busy
  <2>2. wire' \in Seq(Commands)
    BY <1>3, <2>1 DEF PortWrite, PrinterType
  <2>3. HistoryType'
    BY <1>1, <1>3, <2>1 DEF PortWrite, HistoryType
  <2>4. QueueType' /\ CallerType' /\ PrinterType'
    BY <1>1, <1>3, <2>2 DEF PortWrite, QueueType, CallerType, PrinterType
  <2>5. LoopType' /\ Busy'
    BY <1>1, <1>3 DEF PortWrite, LoopType, Busy
  <2> QED BY <1>2, <2>3, <2>4, <2>5
<1>4. CASE PortWriteFails
  <2>1. CallerType'
    BY <1>1, <1>4, RespondTyped DEF PortWriteFails, CallerType
  <2>2. faults' \in 0 .. MaxUpsets
    BY <1>4, BoundsAssumption DEF PortWriteFails, Upsets, PrinterType, QueueType
  <2>3. QueueType' /\ PrinterType' /\ HistoryType'
    BY <1>1, <1>4, <2>2 DEF PortWriteFails, QueueType, PrinterType, HistoryType
  <2>4. LoopType' /\ Busy'
    BY <1>1, <1>4 DEF PortWriteFails, LoopType, Busy
  <2> QED BY <1>2, <2>1, <2>3, <2>4
<1>5. ASSUME NEW l, HandleLine(l) PROVE
        /\ answer' \in [Commands -> {"none", "nil", "error", "timeout", "unwritten"}]
        /\ (wpc' = "poll" /\ cur' = NoCmd) \/ (wpc' = "wait" /\ cur' = cur)
  <2>1. CASE EndsCommand(l)
    BY <1>5, <2>1, RespondTyped DEF HandleLine, Outcome
  <2>2. CASE ~EndsCommand(l)
    BY <1>5, <2>2 DEF HandleLine, CallerType
  <2> QED BY <2>1, <2>2
<1>6. CASE WriteReply
  <2>1. Head(inbound) \in Lines /\ Tail(inbound) \in Seq(Lines)
        /\ Len(Tail(inbound)) = Len(inbound) - 1 /\ Len(inbound) \in Nat /\ InboundCap \in Nat
    BY <1>6, InTail, BoundsAssumption DEF WriteReply, QueueType
  <2>2. QueueType' /\ PrinterType' /\ HistoryType'
    BY <1>1, <1>6, <2>1 DEF WriteReply, QueueType, PrinterType, HistoryType
  <2>3. CASE CarriesTemps(Head(inbound))
    BY <1>1, <1>2, <1>6, <2>1, <2>2, <2>3, LineFacts DEF WriteReply, CallerType, LoopType, Busy
  <2>4. CASE ~CarriesTemps(Head(inbound))
    <3>1. HandleLine(Head(inbound)) /\ got' = got /\ wpc = "wait"
      BY <1>6, <2>4 DEF WriteReply
    <3>2. CallerType' /\ LoopType' /\ Busy'
      BY <1>1, <1>5, <3>1 DEF CallerType, LoopType, Busy
    <3> QED BY <1>2, <2>2, <3>2
  <2> QED BY <2>3, <2>4
<1>7. CASE WriteTemps
  <2>1. HandleLine(got) /\ got' = NoLine /\ wpc = "temps"
    BY <1>7 DEF WriteTemps
  <2>2. CallerType' /\ LoopType' /\ Busy'
    BY <1>1, <1>5, <2>1 DEF CallerType, LoopType, Busy
  <2> QED BY <1>1, <1>2, <1>7, <2>2 DEF WriteTemps, QueueType, PrinterType, HistoryType
<1>8. CASE WriteTimeout
  <2>1. CallerType'
    BY <1>1, <1>8, RespondTyped DEF WriteTimeout, CallerType
  <2>2. QueueType'
    BY <1>1, <1>8, EmptySeq, BoundsAssumption DEF WriteTimeout, QueueType
  <2>3. late' \in BOOLEAN
    BY <1>8 DEF WriteTimeout
  <2>4. PrinterType' /\ HistoryType' /\ LoopType' /\ Busy'
    BY <1>1, <1>8, <2>3 DEF WriteTimeout, PrinterType, HistoryType, LoopType, Busy
  <2> QED BY <1>2, <2>1, <2>2, <2>4
<1> QED BY <1>3, <1>4, <1>6, <1>7, <1>8

\* readLoop and the initialization timer.
LEMMA ReadTyped ==
  ASSUME TypeOK, Shape, ReadLoop \/ InitTimer
  PROVE  TypeOK' /\ Shape'
<1> USE DEF TypeOK, Shape, callVars, queueVars, writerVars, readerVars, printerVars, resetVars, ReadLoop
<1>1. UNCHANGED <<sendQ, priorityQ, resetpc, resets, cpc, calls, answer, wpc, cur, got, wire, boot,
                  notices, faults, given, bypass>>
  BY DEF ReadScan, ReadInitializing, ReadConnected, InitTimer
<1>2. CallerType' /\ Busy' /\ Began'
  BY <1>1 DEF CallerType, Busy, Began
<1>3. HistoryType'
  <2>1. late' \in BOOLEAN
    BY DEF ReadScan, ReadInitializing, ReadConnected, InitTimer, HistoryType
  <2> QED BY <1>1, <2>1 DEF HistoryType
<1>4. CASE ReadScan
  <2>1. Head(rx) \in Lines /\ Tail(rx) \in Seq(Lines)
    BY <1>4, InTail DEF ReadScan, PrinterType
  <2> QED BY <1>1, <1>2, <1>3, <1>4, <2>1 DEF ReadScan, QueueType, LoopType, PrinterType
<1>5. CASE ReadConnected
  <2>1. rd.line \in Lines
    BY <1>5, LineFacts DEF ReadConnected, LoopType
  <2>2. inbound' \in Seq(Lines) /\ Len(inbound') <= InboundCap
    <3>1. Append(inbound, rd.line) \in Seq(Lines) /\ Len(Append(inbound, rd.line)) = Len(inbound) + 1
      BY <2>1, InAppend DEF QueueType
    <3>2. Len(inbound) \in Nat /\ InboundCap \in Nat
      BY BoundsAssumption DEF QueueType
    <3> QED BY <1>5, <3>1, <3>2 DEF ReadConnected, QueueType
  <2> QED BY <1>1, <1>2, <1>3, <1>5, <2>2 DEF ReadConnected, QueueType, LoopType, PrinterType
<1>6. CASE ReadInitializing \/ InitTimer
  BY <1>1, <1>2, <1>3, <1>6 DEF ReadInitializing, InitTimer, QueueType, LoopType, PrinterType
<1> QED BY <1>4, <1>5, <1>6

\* ResetQueues.
LEMMA ResetTyped ==
  ASSUME TypeOK, Shape, Reset
  PROVE  TypeOK' /\ Shape'
<1> USE DEF TypeOK, Shape, callVars, queueVars, writerVars, readerVars, printerVars, resetVars, Reset
<1>1. UNCHANGED <<inbound, cpc, calls, answer, state, rd, rx, wpc, cur, got, wire, boot,
                  notices, faults, given, late>>
  BY DEF ResetBegin, ResetLen, ResetRecv
<1>2. CallerType' /\ LoopType' /\ PrinterType' /\ Busy' /\ Began'
  BY <1>1 DEF CallerType, LoopType, PrinterType, Busy, Began
<1>3. HistoryType'
  BY <1>1 DEF ResetBegin, ResetLen, ResetRecv, HistoryType
<1>4. QueueType'
  <2>1. CASE ResetBegin
    <3>1. resets' \in 0 .. MaxUpsets
      BY <2>1, BoundsAssumption DEF ResetBegin, Upsets, PrinterType, QueueType
    <3> QED BY <1>1, <2>1, <3>1 DEF ResetBegin, QueueType
  <2>2. CASE ResetLen
    BY <1>1, <2>2 DEF ResetLen, QueueType
  <2>3. CASE ResetRecv
    <3>1. SendCap \in Nat /\ PrioCap \in Nat
      BY BoundsAssumption
    <3>2. \A q \in Seq(Commands) : q # <<>> =>
            Tail(q) \in Seq(Commands) /\ Len(Tail(q)) = Len(q) - 1 /\ Len(q) \in Nat
      BY InTail
    <3>3. resets' = resets /\ resetpc' \in {"lenSend", "lenPrio"}
      BY <2>3 DEF ResetRecv
    <3>4. CASE sendQ # <<>> /\ sendQ' = Tail(sendQ) /\ priorityQ' = priorityQ
      <4>1. sendQ' \in Seq(Commands) /\ Len(sendQ') = Len(sendQ) - 1 /\ Len(sendQ) \in Nat
        BY <3>2, <3>4 DEF QueueType
      <4> QED BY <1>1, <3>1, <3>3, <3>4, <4>1 DEF QueueType
    <3>5. CASE priorityQ # <<>> /\ priorityQ' = Tail(priorityQ) /\ sendQ' = sendQ
      <4>1. priorityQ' \in Seq(Commands) /\ Len(priorityQ') = Len(priorityQ) - 1 /\ Len(priorityQ) \in Nat
        BY <3>2, <3>5 DEF QueueType
      <4> QED BY <1>1, <3>1, <3>3, <3>5, <4>1 DEF QueueType
    <3> QED BY <2>3, <3>4, <3>5 DEF ResetRecv
  <2> QED BY <2>1, <2>2, <2>3
<1> QED BY <1>2, <1>3, <1>4

\* The printer.
LEMMA PrinterTyped ==
  ASSUME TypeOK, Shape, Printer
  PROVE  TypeOK' /\ Shape'
<1> USE DEF TypeOK, Shape, callVars, queueVars, writerVars, readerVars, printerVars, resetVars, Printer
<1>1. UNCHANGED <<inbound, sendQ, priorityQ, resetpc, resets, cpc, calls, answer, state, rd, wpc, cur, got,
                  given, late, bypass>>
  BY DEF PrinterBoots, PrinterNotice, PrinterReplies, PrinterLoses
<1>2. QueueType' /\ CallerType' /\ LoopType' /\ HistoryType' /\ Busy' /\ Began'
  BY <1>1 DEF QueueType, CallerType, LoopType, HistoryType, Busy, Began
<1>3. PrinterType'
  <2>1. notices' \in 0 .. MaxUpsets /\ faults' \in 0 .. MaxUpsets
    <3>1. notices \in 0 .. MaxUpsets /\ faults \in 0 .. MaxUpsets /\ resets \in 0 .. MaxUpsets
          /\ MaxUpsets \in Nat
      BY BoundsAssumption DEF PrinterType, QueueType
    <3>2. Upsets < MaxUpsets => notices + 1 \in 0 .. MaxUpsets /\ faults + 1 \in 0 .. MaxUpsets
      BY <3>1 DEF Upsets
    <3>3. notices' = notices \/ (notices' = notices + 1 /\ Upsets < MaxUpsets)
      BY DEF PrinterBoots, PrinterNotice, PrinterReplies, PrinterLoses
    <3>4. faults' = faults \/ (faults' = faults + 1 /\ Upsets < MaxUpsets)
      BY DEF PrinterBoots, PrinterNotice, PrinterReplies, PrinterLoses
    <3> QED BY <3>1, <3>2, <3>3, <3>4
  <2>2. wire # <<>> => Head(wire) \in Commands /\ Tail(wire) \in Seq(Commands)
    BY InTail DEF PrinterType
  <2>3. wire' \in Seq(Commands) /\ boot' \in {"booting", "up"}
    BY <2>2 DEF PrinterBoots, PrinterNotice, PrinterReplies, PrinterLoses, PrinterType
  <2>4. \A l \in Lines : Append(rx, l) \in Seq(Lines)
    BY InAppend DEF PrinterType
  <2>5. rx' \in Seq(Lines)
    <3>1. CASE PrinterBoots
      <4>1. [kind |-> "ok", for |-> NoCmd] \in Lines
        BY LineFacts DEF Kinds
      <4> QED BY <2>4, <3>1, <4>1 DEF PrinterBoots, PrinterType
    <3>2. CASE PrinterNotice
      BY <2>4, <3>2, LineFacts DEF PrinterNotice
    <3>3. CASE PrinterReplies
      BY <2>2, <2>4, <3>3, LineFacts DEF PrinterReplies
    <3>4. CASE PrinterLoses
      BY <3>4 DEF PrinterLoses, PrinterType
    <3> QED BY <3>1, <3>2, <3>3, <3>4
  <2> QED BY <2>1, <2>3, <2>5 DEF PrinterType
<1> QED BY <1>2, <1>3

\* Every step keeps the types.
LEMMA NextType == TypeOK /\ Shape /\ [Next]_vars => TypeOK' /\ Shape'
<1> SUFFICES ASSUME TypeOK, Shape, [Next]_vars PROVE TypeOK' /\ Shape'
  OBVIOUS
<1>1. CASE Call
  BY <1>1, CallTyped DEF Call
<1>2. CASE WriteLoop
  BY <1>2, TakeTyped, WriteTyped DEF WriteLoop
<1>3. CASE ReadLoop \/ InitTimer
  BY <1>3, ReadTyped
<1>4. CASE Reset
  BY <1>4, ResetTyped
<1>5. CASE Printer
  BY <1>5, PrinterTyped
<1>6. CASE UNCHANGED vars
  BY <1>6 DEF vars, callVars, queueVars, writerVars, readerVars, printerVars, resetVars, TypeOK,
              QueueType, CallerType, LoopType, PrinterType, HistoryType, Shape, Busy, Began
<1> QED BY <1>1, <1>2, <1>3, <1>4, <1>5, <1>6 DEF Next, Finished

\* Every variable keeps its type, and no channel exceeds its capacity.
THEOREM TypeCorrect == Spec => []TypeOK
<1>1. Spec => [](TypeOK /\ Shape)
  BY InitType, NextType, PTL DEF Spec
<1> QED BY <1>1, PTL

-----------------------------------------------------------------------------
(* The place of a command.                                                 *)

Queued(c) == InSeq(c, sendQ) \/ InSeq(c, priorityQ)

\* Each goroutine has its lane, and its commands stand there in order.
Lanes == \A c \in Commands : /\ InSeq(c, sendQ) => c.from \in SendCallers
                             /\ InSeq(c, priorityQ) => c.from \in PrioCallers
InOrder == Lanes /\ Sorted(sendQ) /\ Sorted(priorityQ)

\* What is queued or held was issued, and not by the call that is about to queue.
Issued == \A c \in Commands : Queued(c) \/ cur = c =>
            /\ c.n <= calls[c.from]
            /\ cpc[c.from] = "enqueue" => c.n < calls[c.from]

\* The command writeLoop holds is older than those of its caller in the queues.
Ahead == \A c \in Commands : Queued(c) /\ cur # NoCmd /\ c.from = cur.from => cur.n < c.n

\* While a command is on its way to the port, neither it nor a later one of its
\* caller was written.
Fresh == \A c, d \in Commands :
           (Queued(c) \/ (wpc = "write" /\ cur = c)) /\ d.from = c.from /\ d.n >= c.n
             => given[d] = 0

\* Nothing happens to a command before it is queued.
Blank == \A c \in Commands :
           c.n > calls[c.from] \/ (cpc[c.from] = "enqueue" /\ c.n = calls[c.from])
             => given[c] = 0 /\ answer[c] = "none"

\* writeLoop waits for a reply to what it has written.
Written == wpc \in {"wait", "temps"} => given[cur] > 0

\* A command that expects an answer keeps its caller inside the call.
Awaited == \A c \in Commands : (Queued(c) \/ cur = c) /\ Waits(c) =>
             answer[c] = "none" /\ cpc[c.from] = "await" /\ calls[c.from] = c.n

\* Who awaits an answer asked for one, and is forgotten only by a reset.
Kept == /\ \A g \in Callers : cpc[g] = "await" => Waits(CmdOf(g))
        /\ resetpc # "idle" => resets > 0
        /\ NoWaiterForgotten

Placed == InOrder /\ Issued /\ Ahead /\ Fresh /\ Blank /\ Written /\ Awaited /\ Kept

LinkInv == TypeOK /\ Shape /\ Placed

LEMMA InitPlaced == Init => Placed
<1> SUFFICES ASSUME Init PROVE Placed
  OBVIOUS
<1>1. \A c \in Commands : ~Queued(c)
  BY EmptySeq DEF Init, Queued, InSeq
<1>2. InOrder
  BY EmptySeq DEF Init, InOrder, Lanes, Sorted, InSeq
<1>3. Issued /\ Ahead /\ Fresh /\ Blank /\ Written /\ Awaited
  BY <1>1, CommandFacts DEF Init, Issued, Ahead, Fresh, Blank, Written, Awaited
<1>4. Kept
  BY DEF Init, Kept, NoWaiterForgotten
<1> QED BY <1>2, <1>3, <1>4 DEF Placed

\* Only the commands of one lane have the same caller, so the head of a queue is
\* older than every other queued command of its caller.
LEMMA HeadTaken ==
  ASSUME TypeOK, InOrder, NEW h,
         \/ sendQ # <<>> /\ h = Head(sendQ) /\ sendQ' = Tail(sendQ) /\ priorityQ' = priorityQ
         \/ priorityQ # <<>> /\ h = Head(priorityQ) /\ priorityQ' = Tail(priorityQ) /\ sendQ' = sendQ
  PROVE  /\ InOrder' /\ h \in Commands /\ Queued(h)
         /\ \A c \in Commands : Queued(c) <=> c = h \/ Queued(c)'
         /\ \A c \in Commands : Queued(c)' /\ c.from = h.from => h.n < c.n
<1> USE DEF InOrder
<1>1. sendQ \in Seq(Commands) /\ priorityQ \in Seq(Commands)
  BY DEF TypeOK, QueueType
<1>2. CASE sendQ # <<>> /\ h = Head(sendQ) /\ sendQ' = Tail(sendQ) /\ priorityQ' = priorityQ
  <2>1. /\ Head(sendQ) \in Commands /\ Len(Tail(sendQ)) = Len(sendQ) - 1 /\ Len(sendQ) \in Nat
        /\ \A c : InSeq(c, sendQ) <=> c = Head(sendQ) \/ InSeq(c, sendQ')
    BY <1>1, <1>2, InTail
  <2>2. /\ Sorted(sendQ')
        /\ \A c \in Commands : InSeq(c, sendQ') /\ c.from = Head(sendQ).from => Head(sendQ).n < c.n
    BY <1>1, <1>2, SortedTail
  <2>3. InOrder'
    BY <1>2, <2>1, <2>2 DEF Lanes, InSeq, Sorted
  <2>4. \A c \in Commands : InSeq(c, priorityQ) => c.from # Head(sendQ).from
    BY <2>1, CallersAssumption DEF Lanes
  <2>6. \A c \in Commands : Queued(c) <=> c = Head(sendQ) \/ Queued(c)'
    BY <1>2, <2>1 DEF Queued, InSeq
  <2>7. \A c \in Commands : Queued(c)' /\ c.from = Head(sendQ).from => Head(sendQ).n < c.n
    BY <1>2, <2>2, <2>4 DEF Queued, InSeq
  <2> QED BY <1>2, <2>1, <2>3, <2>6, <2>7
<1>3. CASE priorityQ # <<>> /\ h = Head(priorityQ) /\ priorityQ' = Tail(priorityQ) /\ sendQ' = sendQ
  <2>1. /\ Head(priorityQ) \in Commands /\ Len(Tail(priorityQ)) = Len(priorityQ) - 1 /\ Len(priorityQ) \in Nat
        /\ \A c : InSeq(c, priorityQ) <=> c = Head(priorityQ) \/ InSeq(c, priorityQ')
    BY <1>1, <1>3, InTail
  <2>2. /\ Sorted(priorityQ')
        /\ \A c \in Commands : InSeq(c, priorityQ') /\ c.from = Head(priorityQ).from
                                 => Head(priorityQ).n < c.n
    BY <1>1, <1>3, SortedTail
  <2>3. InOrder'
    BY <1>3, <2>1, <2>2 DEF Lanes, InSeq, Sorted
  <2>4. \A c \in Commands : InSeq(c, sendQ) => c.from # Head(priorityQ).from
    BY <2>1, CallersAssumption DEF Lanes
  <2>6. \A c \in Commands : Queued(c) <=> c = Head(priorityQ) \/ Queued(c)'
    BY <1>3, <2>1 DEF Queued, InSeq
  <2>7. \A c \in Commands : Queued(c)' /\ c.from = Head(priorityQ).from => Head(priorityQ).n < c.n
    BY <1>3, <2>2, <2>4 DEF Queued, InSeq
  <2> QED BY <1>3, <2>1, <2>3, <2>6, <2>7
<1> QED BY <1>2, <1>3

\* A command that enters a queue is the last one there.
LEMMA TailAdded ==
  ASSUME TypeOK, Shape, InOrder, Issued, NEW g \in Callers, cpc[g] = "enqueue",
         \/ g \in SendCallers /\ sendQ' = Append(sendQ, CmdOf(g)) /\ priorityQ' = priorityQ
         \/ g \in PrioCallers /\ priorityQ' = Append(priorityQ, CmdOf(g)) /\ sendQ' = sendQ
  PROVE  InOrder' /\ \A c \in Commands : Queued(c)' <=> Queued(c) \/ c = CmdOf(g)
<1> USE DEF InOrder
<1>1. sendQ \in Seq(Commands) /\ priorityQ \in Seq(Commands) /\ CmdOf(g) \in Commands
  BY CmdOfTyped DEF TypeOK, QueueType, Shape
<1>2. CmdOf(g).from = g /\ CmdOf(g).n = calls[g]
  BY DEF CmdOf
<1>3. \A c \in Commands : Queued(c) /\ c.from = g => c.n < CmdOf(g).n
  BY <1>2 DEF Issued
<1>4. CASE g \in SendCallers /\ sendQ' = Append(sendQ, CmdOf(g)) /\ priorityQ' = priorityQ
  <2>1. \A c : InSeq(c, sendQ') <=> InSeq(c, sendQ) \/ c = CmdOf(g)
    BY <1>1, <1>4, InAppend
  <2>2. Sorted(sendQ')
    BY <1>1, <1>2, <1>3, <1>4, SortedAppend DEF Queued
  <2>3. InOrder'
    BY <1>2, <1>4, <2>1, <2>2 DEF Lanes, InSeq, Sorted
  <2> QED BY <1>4, <2>1, <2>3 DEF Queued, InSeq
<1>5. CASE g \in PrioCallers /\ priorityQ' = Append(priorityQ, CmdOf(g)) /\ sendQ' = sendQ
  <2>1. \A c : InSeq(c, priorityQ') <=> InSeq(c, priorityQ) \/ c = CmdOf(g)
    BY <1>1, <1>5, InAppend
  <2>2. Sorted(priorityQ')
    BY <1>1, <1>2, <1>3, <1>5, SortedAppend DEF Queued
  <2>3. InOrder'
    BY <1>2, <1>5, <2>1, <2>2 DEF Lanes, InSeq, Sorted
  <2> QED BY <1>5, <2>1, <2>3 DEF Queued, InSeq
<1> QED BY <1>4, <1>5

\* A step that moves no command keeps the place of every command.
LEMMA StillPlaced ==
  ASSUME LinkInv,
         UNCHANGED <<sendQ, priorityQ, cur, cpc, calls, answer, given>>,
         wpc' = wpc \/ (wpc \in {"poll", "wait", "temps"} /\ wpc' \in {"select", "wait", "temps"}
                         /\ (wpc' # "select" => wpc # "poll")),
         resetpc' # "idle" => resets' > 0,
         resets \in Nat /\ resets' \in Nat /\ resets <= resets'
  PROVE  Placed'
<1> USE DEF LinkInv, Placed
<1>1. \A c : (InSeq(c, sendQ)' <=> InSeq(c, sendQ)) /\ (InSeq(c, priorityQ)' <=> InSeq(c, priorityQ))
              /\ (Queued(c)' <=> Queued(c)) /\ (WasGiven(c)' <=> WasGiven(c)) /\ CmdOf(c)' = CmdOf(c)
  BY DEF InSeq, Queued, WasGiven, CmdOf
<1>2. InOrder' /\ Issued' /\ Ahead' /\ Blank' /\ Awaited'
  BY <1>1 DEF InOrder, Lanes, Sorted, Issued, Ahead, Blank, Awaited
<1>3. wpc' = "write" => wpc = "write"
  OBVIOUS
<1>4. Fresh'
  BY <1>1, <1>3 DEF Fresh
<1>5. Written'
  BY DEF Written
<1>6. Kept'
  BY <1>1 DEF Kept, NoWaiterForgotten
<1> QED BY <1>2, <1>4, <1>5, <1>6

\* A call begins or returns.
LEMMA CallPlaced ==
  ASSUME LinkInv, NEW g \in Callers, CallSend(g) \/ Return(g)
  PROVE  Placed'
<1> USE DEF LinkInv, Placed, callVars, queueVars, writerVars, readerVars, printerVars, resetVars
<1>1. UNCHANGED <<sendQ, priorityQ, cur, wpc, answer, given, resetpc, resets>>
  BY DEF CallSend, Return
<1>2. \A c : (InSeq(c, sendQ)' <=> InSeq(c, sendQ)) /\ (InSeq(c, priorityQ)' <=> InSeq(c, priorityQ))
              /\ (Queued(c)' <=> Queued(c)) /\ (WasGiven(c)' <=> WasGiven(c))
  BY <1>1 DEF InSeq, Queued, WasGiven
<1>3. InOrder' /\ Ahead' /\ Fresh' /\ Written'
  BY <1>1, <1>2 DEF InOrder, Lanes, Sorted, Ahead, Fresh, Written
<1>4. /\ cpc \in [Callers -> {"idle", "enqueue", "await"}] /\ calls \in [Callers -> Nat]
      /\ \A c \in Commands : c.from \in Callers /\ c.n \in Nat
  BY CommandFacts DEF TypeOK, CallerType
<1>5. /\ \A x \in Callers : x # g => cpc'[x] = cpc[x] /\ calls'[x] = calls[x] /\ CmdOf(x)' = CmdOf(x)
      /\ CallSend(g) => cpc[g] = "idle" /\ cpc'[g] = "enqueue" /\ calls'[g] = calls[g] + 1
      /\ Return(g) => cpc[g] = "await" /\ cpc'[g] = "idle" /\ calls' = calls /\ answer[CmdOf(g)] # "none"
  BY <1>4 DEF CallSend, Return, CmdOf
<1>6. Issued'
  BY <1>1, <1>2, <1>4, <1>5 DEF Issued
<1>7. Blank'
  BY <1>1, <1>4, <1>5 DEF Blank
<1>8. Awaited'
  <2> SUFFICES ASSUME NEW c \in Commands, (Queued(c) \/ cur = c), Waits(c)
               PROVE  answer'[c] = "none" /\ cpc'[c.from] = "await" /\ calls'[c.from] = c.n
    BY <1>1, <1>2 DEF Awaited, Waits
  <2>1. answer[c] = "none" /\ cpc[c.from] = "await" /\ calls[c.from] = c.n
    BY DEF Awaited
  <2>2. c.from = g => c = CmdOf(g)
    BY <2>1, CommandFacts, CmdOfTyped DEF CmdOf, Shape
  <2> QED BY <1>1, <1>4, <1>5, <2>1, <2>2
<1>9. Kept'
  <2>1. \A x \in Callers : cpc'[x] = "await" => cpc[x] = "await" /\ CmdOf(x)' = CmdOf(x)
    BY <1>4, <1>5
  <2>2. NoWaiterForgotten'
    BY <1>1, <1>2, <2>1 DEF Kept, NoWaiterForgotten
  <2> QED BY <1>1, <2>1, <2>2 DEF Kept, Waits
<1> QED BY <1>3, <1>6, <1>7, <1>8, <1>9

\* A call queues its command, or finds its lane full.
LEMMA EnqueuePlaced ==
  ASSUME LinkInv, NEW g \in Callers, EnqueueSend(g) \/ EnqueuePrio(g)
  PROVE  Placed'
<1> USE DEF LinkInv, Placed, callVars, queueVars, writerVars, readerVars, printerVars, resetVars
<1>1. UNCHANGED <<calls, cur, wpc, answer, given, resetpc, resets>> /\ cpc[g] = "enqueue"
  BY DEF EnqueueSend, EnqueuePrio
<1>2. /\ cpc \in [Callers -> {"idle", "enqueue", "await"}] /\ calls \in [Callers -> Nat]
      /\ \A c \in Commands : c.from \in Callers /\ c.n \in Nat
      /\ CmdOf(g) \in Commands /\ CmdOf(g).from = g /\ CmdOf(g).n = calls[g]
      /\ \A x \in Callers : CmdOf(x)' = CmdOf(x)
  BY <1>1, CommandFacts, CmdOfTyped DEF TypeOK, CallerType, CmdOf, Shape
<1>3. \A c : WasGiven(c)' <=> WasGiven(c)
  BY <1>1 DEF WasGiven
<1>4. Written'
  BY <1>1 DEF Written
<1>5. CASE UNCHANGED <<sendQ, priorityQ>> /\ cpc' = [cpc EXCEPT ![g] = "idle"]
  <2>1. \A c : (InSeq(c, sendQ)' <=> InSeq(c, sendQ)) /\ (InSeq(c, priorityQ)' <=> InSeq(c, priorityQ))
                /\ (Queued(c)' <=> Queued(c))
    BY <1>5 DEF InSeq, Queued
  <2>2. InOrder' /\ Ahead' /\ Fresh'
    BY <1>1, <1>5, <2>1 DEF InOrder, Lanes, Sorted, Ahead, Fresh
  <2>3. \A x \in Callers : cpc'[x] = cpc[x] \/ (x = g /\ cpc'[x] = "idle")
    BY <1>2, <1>5
  <2>4. Issued' /\ Blank' /\ Awaited'
    BY <1>1, <1>2, <2>1, <2>3 DEF Issued, Blank, Awaited, Waits
  <2>5. Kept'
    BY <1>1, <1>2, <1>3, <2>1, <2>3 DEF Kept, NoWaiterForgotten, Waits
  <2> QED BY <1>4, <2>2, <2>4, <2>5
<1>6. CASE /\ cpc' = [cpc EXCEPT ![g] = IF Waits(CmdOf(g)) THEN "await" ELSE "idle"]
           /\ \/ g \in SendCallers /\ sendQ' = Append(sendQ, CmdOf(g)) /\ priorityQ' = priorityQ
              \/ g \in PrioCallers /\ priorityQ' = Append(priorityQ, CmdOf(g)) /\ sendQ' = sendQ
  <2>1. InOrder' /\ \A c \in Commands : Queued(c)' <=> Queued(c) \/ c = CmdOf(g)
    BY <1>1, <1>6, TailAdded
  <2>2. /\ \A x \in Callers : x # g => cpc'[x] = cpc[x]
        /\ cpc'[g] = IF Waits(CmdOf(g)) THEN "await" ELSE "idle"
    BY <1>2, <1>6
  <2>3. \A c \in Commands : Queued(c) \/ cur = c => ~(c.from = g /\ Waits(c))
    BY <1>1 DEF Awaited
  <2>4. Issued'
    BY <1>1, <1>2, <2>1, <2>2 DEF Issued
  <2>5. Blank'
    BY <1>1, <1>2, <2>2 DEF Blank
  <2>6. Fresh'
    <3> SUFFICES ASSUME NEW c \in Commands, NEW d \in Commands,
                        Queued(c)' \/ (wpc = "write" /\ cur = c), d.from = c.from, d.n >= c.n
                 PROVE  given[d] = 0
      BY <1>1 DEF Fresh
    <3>1. CASE c = CmdOf(g)
      BY <1>1, <1>2, <3>1 DEF Blank
    <3>2. CASE c # CmdOf(g)
      BY <2>1, <3>2 DEF Fresh
    <3> QED BY <3>1, <3>2
  <2>7. Ahead'
    <3>1. cur # NoCmd => cur \in Commands
      BY DEF TypeOK, LoopType
    <3>2. cur # NoCmd /\ cur.from = g => cur.n < calls[g]
      BY <1>1, <3>1 DEF Issued
    <3> QED BY <1>1, <1>2, <2>1, <3>2 DEF Ahead
  <2>8. Awaited'
    <3> SUFFICES ASSUME NEW c \in Commands, Queued(c)' \/ cur = c, Waits(c)
                 PROVE  answer[c] = "none" /\ cpc'[c.from] = "await" /\ calls[c.from] = c.n
      BY <1>1 DEF Awaited, Waits
    <3>1. CASE c = CmdOf(g)
      BY <1>1, <1>2, <2>2, <3>1 DEF Blank
    <3>2. CASE c # CmdOf(g)
      BY <1>2, <2>1, <2>2, <2>3, <3>2 DEF Awaited
    <3> QED BY <3>1, <3>2
  <2>9. Kept'
    <3>1. \A x \in Callers : cpc'[x] = "await" => Waits(CmdOf(x))
      BY <1>2, <2>2 DEF Kept
    <3>2. ASSUME NEW x \in Callers, cpc'[x] = "await", answer[CmdOf(x)] = "none"
          PROVE  \/ Queued(CmdOf(x))' \/ cur = CmdOf(x)
                 \/ resets > 0 /\ ~WasGiven(CmdOf(x))
      <4>1. CASE x = g
        BY <1>2, <2>1, <4>1
      <4>2. CASE x # g
        <5>1. cpc[x] = "await"
          BY <2>2, <3>2, <4>2
        <5>2. CmdOf(x) \in Commands
          BY <5>1, CmdOfTyped DEF Shape
        <5>3. Queued(CmdOf(x)) \/ cur = CmdOf(x) \/ (resets > 0 /\ ~WasGiven(CmdOf(x)))
          BY <3>2, <5>1 DEF Kept, NoWaiterForgotten, Queued
        <5> QED BY <1>2, <2>1, <5>2, <5>3
      <4> QED BY <4>1, <4>2
    <3> QED BY <1>1, <1>2, <1>3, <3>1, <3>2 DEF Kept, NoWaiterForgotten, Queued, Waits
  <2> QED BY <1>4, <2>1, <2>4, <2>5, <2>6, <2>7, <2>8, <2>9
<1>7. g \in SendCallers => Waits(CmdOf(g))
  BY <1>2, CallersAssumption DEF Waits
<1> QED BY <1>5, <1>6, <1>7 DEF EnqueueSend, EnqueuePrio

\* writeLoop or a reset takes the head of a queue.
LEMMA HeadPlaced ==
  ASSUME LinkInv, NEW h,
         \/ sendQ # <<>> /\ h = Head(sendQ) /\ sendQ' = Tail(sendQ) /\ priorityQ' = priorityQ
         \/ priorityQ # <<>> /\ h = Head(priorityQ) /\ priorityQ' = Tail(priorityQ) /\ sendQ' = sendQ,
         UNCHANGED <<cpc, calls, answer, given, resets>>,
         \/ cur = NoCmd /\ cur' = h /\ wpc' = "write" /\ resetpc' = resetpc
         \/ cur' = cur /\ wpc' = wpc /\ resetpc # "idle"
  PROVE  Placed'
<1> USE DEF LinkInv, Placed
<1>1. /\ InOrder' /\ h \in Commands /\ Queued(h)
      /\ \A c \in Commands : Queued(c) <=> c = h \/ Queued(c)'
      /\ \A c \in Commands : Queued(c)' /\ c.from = h.from => h.n < c.n
  BY HeadTaken
<1>2. /\ \A c : (WasGiven(c)' <=> WasGiven(c)) /\ CmdOf(c)' = CmdOf(c)
      /\ h # NoCmd /\ NoCmd \notin Commands /\ \A c \in Commands : c.n \in Nat
  BY <1>1, CommandFacts DEF WasGiven, CmdOf
<1>3. \A c \in Commands : cur' = c => cur = c \/ c = h
  OBVIOUS
<1>4. Issued' /\ Awaited'
  BY <1>1, <1>3 DEF Issued, Awaited, Waits
<1>5. Blank'
  BY DEF Blank
<1>6. Written'
  BY DEF Written
<1>7. Fresh'
  BY <1>1, <1>3 DEF Fresh
<1>8. Ahead'
  BY <1>1 DEF Ahead
<1>9. Kept'
  <2>1. \A x \in Callers : cpc[x] = "await" => CmdOf(x) \in Commands /\ Waits(CmdOf(x)) /\ CmdOf(x)' = CmdOf(x)
    BY <1>2, CmdOfTyped DEF Kept, Shape
  <2>2. resetpc' # "idle" => resets' > 0
    BY DEF Kept
  <2>3. ASSUME NEW x \in Callers, cpc[x] = "await", answer[CmdOf(x)] = "none"
        PROVE  \/ Queued(CmdOf(x))' \/ cur' = CmdOf(x)
               \/ resets > 0 /\ ~WasGiven(CmdOf(x))
    <3>1. Queued(CmdOf(x)) \/ cur = CmdOf(x) \/ (resets > 0 /\ ~WasGiven(CmdOf(x)))
      BY <2>3 DEF Kept, NoWaiterForgotten, Queued
    <3>2. CASE Queued(CmdOf(x)) /\ CmdOf(x) = h
      <4>1. given[h] = 0
        BY <1>1, <1>2 DEF Fresh
      <4> QED BY <3>2, <4>1 DEF Kept, WasGiven
    <3>3. CASE Queued(CmdOf(x)) /\ CmdOf(x) # h
      BY <1>1, <2>1, <2>3, <3>3
    <3> QED BY <1>2, <2>1, <2>3, <3>1, <3>2, <3>3
  <2> QED BY <1>2, <2>1, <2>2, <2>3 DEF Kept, NoWaiterForgotten, Queued, Waits
<1> QED BY <1>1, <1>4, <1>5, <1>6, <1>7, <1>8, <1>9

\* writeLoop writes its command.
LEMMA WritePlaced ==
  ASSUME LinkInv, PortWrite
  PROVE  Placed'
<1> USE DEF LinkInv, Placed, PortWrite, callVars, queueVars, writerVars, readerVars, printerVars, resetVars
<1>1. \A c : (InSeq(c, sendQ)' <=> InSeq(c, sendQ)) /\ (InSeq(c, priorityQ)' <=> InSeq(c, priorityQ))
              /\ (Queued(c)' <=> Queued(c)) /\ CmdOf(c)' = CmdOf(c)
  BY DEF InSeq, Queued, CmdOf
<1>2. cur \in Commands /\ cur # NoCmd
  BY DEF TypeOK, LoopType, Shape, Busy
<1>3. /\ given \in [Commands -> Nat] /\ given'[cur] = given[cur] + 1
      /\ \A c \in Commands : c # cur => given'[c] = given[c]
      /\ \A c \in Commands : c.n \in Nat
  BY <1>2, CommandFacts DEF TypeOK, HistoryType
<1>4. InOrder' /\ Issued' /\ Ahead' /\ Awaited'
  BY <1>1 DEF InOrder, Lanes, Sorted, Issued, Ahead, Awaited
<1>5. Written'
  BY <1>2, <1>3 DEF Written
<1>6. Blank'
  <2>1. cur.n <= calls[cur.from] /\ (cpc[cur.from] = "enqueue" => cur.n < calls[cur.from])
    BY <1>2 DEF Issued
  <2>2. \A c \in Commands : calls[c.from] \in Nat
    BY CommandFacts DEF TypeOK, CallerType
  <2> QED BY <1>2, <1>3, <2>1, <2>2 DEF Blank
<1>7. Fresh'
  <2> SUFFICES ASSUME NEW c \in Commands, NEW d \in Commands, Queued(c), d.from = c.from, d.n >= c.n
               PROVE  given'[d] = 0
    BY <1>1 DEF Fresh
  <2>1. given[d] = 0
    BY DEF Fresh
  <2>2. d # cur
    BY <1>2, <1>3 DEF Ahead
  <2> QED BY <1>3, <2>1, <2>2
<1>8. Kept'
  <2>1. ASSUME NEW x \in Callers, cpc[x] = "await", answer[CmdOf(x)] = "none"
        PROVE  \/ Queued(CmdOf(x)) \/ cur = CmdOf(x)
               \/ resets > 0 /\ ~(given'[CmdOf(x)] > 0)
    <3>1. CmdOf(x) \in Commands
      BY <2>1, CmdOfTyped DEF Shape
    <3> QED BY <1>3, <2>1, <3>1 DEF Kept, NoWaiterForgotten, Queued, WasGiven
  <2> QED BY <1>1, <2>1 DEF Kept, NoWaiterForgotten, Queued, WasGiven, Waits
<1> QED BY <1>4, <1>5, <1>6, <1>7, <1>8

\* writeLoop answers its command and lets go of it.
LEMMA AnswerPlaced ==
  ASSUME LinkInv, cur # NoCmd, NEW a, a # "none", Respond(cur, a), wpc' = "poll", cur' = NoCmd,
         UNCHANGED <<cpc, calls, sendQ, priorityQ, given, resetpc, resets>>
  PROVE  Placed'
<1> USE DEF LinkInv, Placed
<1>1. \A c : (InSeq(c, sendQ)' <=> InSeq(c, sendQ)) /\ (InSeq(c, priorityQ)' <=> InSeq(c, priorityQ))
              /\ (Queued(c)' <=> Queued(c)) /\ CmdOf(c)' = CmdOf(c) /\ (WasGiven(c)' <=> WasGiven(c))
  BY DEF InSeq, Queued, CmdOf, WasGiven
<1>2. cur \in Commands /\ NoCmd \notin Commands /\ \A c \in Commands : c.n \in Nat /\ calls[c.from] \in Nat
  BY CommandFacts DEF TypeOK, LoopType, CallerType
<1>3. /\ Waits(cur) => answer'[cur] = a
      /\ \A c \in Commands : c # cur \/ ~Waits(c) => answer'[c] = answer[c]
  BY <1>2 DEF Respond, TypeOK, CallerType
<1>4. InOrder' /\ Issued' /\ Ahead' /\ Written' /\ Fresh'
  BY <1>1, <1>2 DEF InOrder, Lanes, Sorted, Issued, Ahead, Written, Fresh
<1>5. Blank'
  <2>1. cur.n <= calls[cur.from] /\ (cpc[cur.from] = "enqueue" => cur.n < calls[cur.from])
    BY <1>2 DEF Issued
  <2> QED BY <1>2, <1>3, <2>1 DEF Blank
<1>6. Awaited'
  <2> SUFFICES ASSUME NEW c \in Commands, Queued(c), Waits(c)
               PROVE  answer'[c] = "none" /\ cpc[c.from] = "await" /\ calls[c.from] = c.n
    BY <1>1, <1>2 DEF Awaited, Waits
  <2>1. c # cur
    BY <1>2 DEF Ahead
  <2> QED BY <1>3, <2>1 DEF Awaited
<1>7. Kept'
  <2>1. \A x \in Callers : cpc[x] = "await" => CmdOf(x) \in Commands /\ Waits(CmdOf(x))
    BY CmdOfTyped DEF Kept, Shape
  <2>2. \A x \in Callers : cpc[x] = "await" /\ answer'[CmdOf(x)] = "none"
                               => answer[CmdOf(x)] = "none" /\ CmdOf(x) # cur
    BY <1>3, <2>1
  <2>3. NoWaiterForgotten'
    BY <1>1, <2>2 DEF Kept, NoWaiterForgotten
  <2> QED BY <1>1, <2>1, <2>3 DEF Kept, Waits
<1> QED BY <1>4, <1>5, <1>6, <1>7

-----------------------------------------------------------------------------
(* Every step keeps the place of every command.                            *)

\* What an answer does to the command writeLoop holds.
LEMMA LineHandled ==
  ASSUME NEW l, HandleLine(l)
  PROVE  \/ wpc' = "wait" /\ cur' = cur /\ answer' = answer
         \/ wpc' = "poll" /\ cur' = NoCmd /\ \E a \in {"nil", "error"} : Respond(cur, a)
  BY DEF HandleLine, Outcome

LEMMA WriterPlaced ==
  ASSUME LinkInv, WriteLoop
  PROVE  Placed'
<1> USE DEF LinkInv, WriteLoop, callVars, queueVars, writerVars, readerVars, printerVars, resetVars
<1>1. cur = NoCmd <=> wpc \in {"poll", "select"}
  BY DEF TypeOK, LoopType, Shape, Busy
<1>2. resets \in Nat /\ (resetpc # "idle" => resets > 0)
  BY BoundsAssumption DEF TypeOK, QueueType, Placed, Kept
<1>3. CASE WritePoll \/ WriteSelect
  <2>1. CASE TakePriority \/ TakeSend
    <3>1. cur = NoCmd /\ wpc' = "write" /\ UNCHANGED <<cpc, calls, answer, given, resets, resetpc>>
      BY <1>1, <1>3, <2>1 DEF WritePoll, WriteSelect, TakePriority, TakeSend
    <3>2. CASE TakePriority
      <4>1. priorityQ # <<>> /\ cur' = Head(priorityQ) /\ priorityQ' = Tail(priorityQ) /\ sendQ' = sendQ
        BY <3>2 DEF TakePriority
      <4> QED BY <3>1, <4>1, HeadPlaced
    <3>3. CASE TakeSend
      <4>1. sendQ # <<>> /\ cur' = Head(sendQ) /\ sendQ' = Tail(sendQ) /\ priorityQ' = priorityQ
        BY <3>3 DEF TakeSend
      <4> QED BY <3>1, <4>1, HeadPlaced
    <3> QED BY <2>1, <3>2, <3>3
  <2>2. CASE WritePoll /\ ~TakePriority
    BY <1>2, <2>2, StillPlaced DEF WritePoll
  <2> QED BY <1>3, <2>1, <2>2 DEF WriteSelect
<1>4. CASE PortWrite
  BY <1>4, WritePlaced
<1>5. CASE PortWriteFails
  BY <1>1, <1>5, AnswerPlaced DEF PortWriteFails
<1>6. CASE WriteReply \/ WriteTemps
  <2>1. wpc \in {"wait", "temps"} /\ UNCHANGED <<cpc, calls, sendQ, priorityQ, given, resetpc, resets>>
    BY <1>6 DEF WriteReply, WriteTemps
  <2>2. \/ wpc' \in {"wait", "temps"} /\ cur' = cur /\ answer' = answer
        \/ wpc' = "poll" /\ cur' = NoCmd /\ \E a \in {"nil", "error"} : Respond(cur, a)
    BY <1>6, LineHandled DEF WriteReply, WriteTemps
  <2>3. CASE wpc' \in {"wait", "temps"} /\ cur' = cur /\ answer' = answer
    BY <1>2, <2>1, <2>3, StillPlaced
  <2>4. CASE wpc' = "poll" /\ cur' = NoCmd /\ \E a \in {"nil", "error"} : Respond(cur, a)
    <3>1. PICK a \in {"nil", "error"} : Respond(cur, a)
      BY <2>4
    <3> QED BY <1>1, <2>1, <2>4, <3>1, AnswerPlaced
  <2> QED BY <2>2, <2>3, <2>4
<1>7. CASE WriteTimeout
  BY <1>1, <1>7, AnswerPlaced DEF WriteTimeout
<1> QED BY <1>3, <1>4, <1>5, <1>6, <1>7

LEMMA ResetPlaced ==
  ASSUME LinkInv, Reset
  PROVE  Placed'
<1> USE DEF LinkInv, Reset, callVars, queueVars, writerVars, readerVars, printerVars, resetVars
<1>1. resets \in Nat /\ (resetpc # "idle" => resets > 0)
  BY BoundsAssumption DEF TypeOK, QueueType, Placed, Kept
<1>2. CASE ResetBegin
  BY <1>1, <1>2, StillPlaced DEF ResetBegin
<1>3. CASE ResetLen
  BY <1>1, <1>3, StillPlaced DEF ResetLen
<1>4. CASE ResetRecv
  <2>1. /\ UNCHANGED <<cpc, calls, answer, given, resets, cur, wpc>>
        /\ resetpc # "idle"
    BY <1>4 DEF ResetRecv
  <2>2. CASE sendQ # <<>> /\ sendQ' = Tail(sendQ) /\ priorityQ' = priorityQ
    BY <2>1, <2>2, HeadPlaced
  <2>3. CASE priorityQ # <<>> /\ priorityQ' = Tail(priorityQ) /\ sendQ' = sendQ
    BY <2>1, <2>3, HeadPlaced
  <2> QED BY <1>4, <2>2, <2>3 DEF ResetRecv
<1> QED BY <1>2, <1>3, <1>4

LEMMA NextPlaced == LinkInv /\ [Next]_vars => LinkInv'
<1> SUFFICES ASSUME LinkInv, [Next]_vars PROVE Placed'
  BY NextType DEF LinkInv
<1> USE DEF callVars, queueVars, writerVars, readerVars, printerVars, resetVars
<1>1. resets \in Nat /\ (resetpc # "idle" => resets > 0)
  BY BoundsAssumption DEF LinkInv, TypeOK, QueueType, Placed, Kept
<1>2. CASE Call
  BY <1>2, CallPlaced, EnqueuePlaced DEF Call
<1>3. CASE WriteLoop
  BY <1>3, WriterPlaced
<1>4. CASE ReadLoop \/ InitTimer \/ Printer \/ UNCHANGED vars
  <2>1. UNCHANGED <<sendQ, priorityQ, cur, cpc, calls, answer, given, wpc, resetpc, resets>>
    BY <1>4 DEF ReadLoop, ReadScan, ReadInitializing, ReadConnected, InitTimer, Printer, PrinterBoots,
                PrinterNotice, PrinterReplies, PrinterLoses, vars
  <2> QED BY <1>1, <2>1, StillPlaced
<1>5. CASE Reset
  BY <1>5, ResetPlaced
<1> QED BY <1>2, <1>3, <1>4, <1>5 DEF Next, Finished

THEOREM LinkInvAlways == Spec => []LinkInv
<1>1. Init => LinkInv
  BY InitType, InitPlaced DEF LinkInv
<1> QED BY <1>1, NextPlaced, PTL DEF Spec

-----------------------------------------------------------------------------
(* The properties.                                                         *)

\* writeLoop never blocks on cmd.RespCh: the caller of the command it holds waits
\* for its first and only answer (the write to RespCh in writeLoop).
THEOREM WriterHasCallerAlways == Spec => []WriterHasCaller
<1>1. LinkInv => WriterHasCaller
  <2> SUFFICES ASSUME LinkInv, cur # NoCmd, Waits(cur)
               PROVE  answer[cur] = "none" /\ cpc[cur.from] = "await" /\ CmdOf(cur.from) = cur
    BY DEF WriterHasCaller
  <2>1. cur \in Commands
    BY DEF LinkInv, TypeOK, LoopType
  <2>2. answer[cur] = "none" /\ cpc[cur.from] = "await" /\ calls[cur.from] = cur.n
    BY <2>1 DEF LinkInv, Placed, Awaited
  <2>3. CmdOf(cur.from) \in Commands
    BY <2>1, <2>2, CommandFacts, CmdOfTyped DEF LinkInv, Shape
  <2> QED BY <2>1, <2>2, <2>3, CommandFacts DEF CmdOf
<1> QED BY <1>1, LinkInvAlways, PTL

\* A caller that waits without an answer is still queued or held by writeLoop;
\* only ResetQueues forgets one, and never one whose command was written.
THEOREM NoWaiterForgottenAlways == Spec => []NoWaiterForgotten
<1>1. LinkInv => NoWaiterForgotten
  BY DEF LinkInv, Placed, Kept
<1> QED BY <1>1, LinkInvAlways, PTL

\* The commands of a goroutine are written in the order of its calls, each at
\* most once (SendGcode, SendGcodePriority, writeLoop, ResetQueues).
THEOREM CallerOrderAlways == Spec => CallerOrder
<1>1. ASSUME LinkInv, [Next]_vars, NEW c \in Commands, NEW d \in Commands,
             given'[c] > given[c], d.from = c.from, d.n >= c.n
      PROVE  given[d] = 0
  <2>1. PortWrite \/ given' = given
    BY <1>1 DEF Next, Call, CallSend, EnqueueSend, EnqueuePrio, Return, WriteLoop, WritePoll, WriteSelect,
                TakePriority, TakeSend, PortWriteFails, WriteReply, WriteTemps, WriteTimeout, ReadLoop,
                ReadScan, ReadInitializing, ReadConnected, InitTimer, Reset, ResetBegin, ResetLen, ResetRecv,
                Printer, PrinterBoots, PrinterNotice, PrinterReplies, PrinterLoses, Finished, vars
  <2>2. given[c] \in Nat
    BY <1>1 DEF LinkInv, TypeOK, HistoryType
  <2>3. PortWrite /\ c = cur
    BY <1>1, <2>1, <2>2 DEF PortWrite, LinkInv, TypeOK, HistoryType
  <2> QED BY <1>1, <2>3 DEF PortWrite, LinkInv, Placed, Fresh
<1>2. LinkInv /\ [Next]_vars =>
        [\A c, d \in Commands :
           given'[c] > given[c] /\ d.from = c.from /\ d.n >= c.n => given[d] = 0]_vars
  BY <1>1
<1> QED BY <1>2, LinkInvAlways, PTL DEF Spec, CallerOrder

\* How often sendQ overtook, and where writeLoop is then.
Overtaken == /\ bypass \in {0, 1}
             /\ bypass = 1 => priorityQ # <<>> /\ wpc # "select"

\* While a priority command waits, writeLoop takes at most one command from sendQ
\* (the two selects of writeLoop).
THEOREM PriorityBypassAlways == Spec => []PriorityBypass
<1>1. Init => Overtaken
  BY DEF Init, Overtaken
<1>2. TypeOK /\ Shape /\ Overtaken /\ [Next]_vars => Overtaken'
  <2> SUFFICES ASSUME TypeOK, Shape, Overtaken, [Next]_vars PROVE Overtaken'
    OBVIOUS
  <2> USE DEF Overtaken, callVars, queueVars, writerVars, readerVars, printerVars, resetVars
  <2>1. CASE Call
    <3>1. PICK g \in Callers : CallSend(g) \/ EnqueueSend(g) \/ EnqueuePrio(g) \/ Return(g)
      BY <2>1 DEF Call
    <3>2. bypass' = bypass /\ wpc' = wpc
      BY <3>1 DEF CallSend, EnqueueSend, EnqueuePrio, Return
    <3>3. priorityQ' = priorityQ \/ (priorityQ' = Append(priorityQ, CmdOf(g)) /\ cpc[g] = "enqueue")
      BY <3>1 DEF CallSend, EnqueueSend, EnqueuePrio, Return
    <3>4. cpc[g] = "enqueue" => Append(priorityQ, CmdOf(g)) # <<>>
      BY CmdOfTyped DEF TypeOK, QueueType, Shape
    <3> QED BY <3>2, <3>3, <3>4
  <2>2. CASE WriteLoop
    BY <2>2 DEF WriteLoop, WritePoll, WriteSelect, TakePriority, TakeSend, PortWrite, PortWriteFails,
                WriteReply, WriteTemps, WriteTimeout, HandleLine
  <2>3. CASE ReadLoop \/ InitTimer \/ Printer \/ UNCHANGED vars
    BY <2>3 DEF ReadLoop, ReadScan, ReadInitializing, ReadConnected, InitTimer, Printer, PrinterBoots,
                PrinterNotice, PrinterReplies, PrinterLoses, vars
  <2>4. CASE Reset
    BY <2>4 DEF Reset, ResetBegin, ResetLen, ResetRecv
  <2> QED BY <2>1, <2>2, <2>3, <2>4 DEF Next, Finished
<1>3. Overtaken => PriorityBypass
  BY DEF Overtaken, PriorityBypass
<1>4. Spec => [](TypeOK /\ Shape)
  BY InitType, NextType, PTL DEF Spec
<1> QED BY <1>1, <1>2, <1>3, <1>4, PTL DEF Spec

-----------------------------------------------------------------------------
(* SerialLink implements CommandService.                                   *)

\* The abstract state: the commands of the calls begun so far, and those that
\* are still on their way to the port.
IssuedSet == {c \in Commands : c.n <= calls[c.from]}
OnItsWay(c) == \/ cpc[c.from] = "enqueue" /\ c = CmdOf(c.from)
               \/ Queued(c)
               \/ wpc = "write" /\ cur = c
PendingSet == {c \in Commands : OnItsWay(c)}

ServiceStep == Service!Next \/ UNCHANGED Service!vars

LEMMA AbstractState ==
  /\ Service!vars = <<IssuedSet, PendingSet, given, answer>>
  /\ Service!vars' = <<IssuedSet', PendingSet', given', answer'>>
<1>1. PendingSet = {c \in Commands :
                      \/ cpc[c.from] = "enqueue" /\ c = CmdOf(c.from)
                      \/ InSeq(c, sendQ) \/ InSeq(c, priorityQ)
                      \/ wpc = "write" /\ cur = c}
  BY DEF PendingSet, OnItsWay, Queued
<1>2. PendingSet' = {c \in Commands :
                      \/ cpc[c.from] = "enqueue" /\ c = CmdOf(c.from)
                      \/ InSeq(c, sendQ) \/ InSeq(c, priorityQ)
                      \/ wpc = "write" /\ cur = c}'
  BY DEF PendingSet, OnItsWay, Queued
<1> QED BY <1>1, <1>2 DEF Service!vars, IssuedSet

\* The actions of CommandService, in these terms.
LEMMA AbstractActions ==
  ASSUME NEW c \in Commands
  PROVE  /\ UNCHANGED <<given, answer>> /\ c \notin IssuedSet
              /\ IssuedSet' = IssuedSet \cup {c} /\ PendingSet' = PendingSet \cup {c} => Service!Next
         /\ given' = [given EXCEPT ![c] = @ + 1] /\ c \in PendingSet
              /\ PendingSet' = PendingSet \ {c} /\ IssuedSet' = IssuedSet /\ answer' = answer => Service!Next
         /\ given' = given /\ answer' \in {answer, [answer EXCEPT ![c] = "unwritten"]} /\ c \in PendingSet
              /\ PendingSet' = PendingSet \ {c} /\ IssuedSet' = IssuedSet => Service!Next
         /\ \A a \in {"nil", "error", "timeout"} :
              answer[c] = "none" /\ answer' = [answer EXCEPT ![c] = a] /\ given[c] > 0
                /\ c \in IssuedSet \ PendingSet /\ IssuedSet' = IssuedSet /\ PendingSet' = PendingSet
                /\ given' = given => Service!Next
<1>1. /\ PendingSet = {x \in Commands :
                        \/ cpc[x.from] = "enqueue" /\ x = CmdOf(x.from)
                        \/ InSeq(x, sendQ) \/ InSeq(x, priorityQ)
                        \/ wpc = "write" /\ cur = x}
      /\ PendingSet' = {x \in Commands :
                        \/ cpc[x.from] = "enqueue" /\ x = CmdOf(x.from)
                        \/ InSeq(x, sendQ) \/ InSeq(x, priorityQ)
                        \/ wpc = "write" /\ cur = x}'
  BY DEF PendingSet, OnItsWay, Queued
<1>2. /\ IssuedSet = {x \in Commands : x.n <= calls[x.from]}
      /\ IssuedSet' = {x \in Commands : x.n <= calls[x.from]}'
  BY DEF IssuedSet
<1>3. UNCHANGED <<given, answer>> /\ c \notin IssuedSet
        /\ IssuedSet' = IssuedSet \cup {c} /\ PendingSet' = PendingSet \cup {c} => Service!Submit(c)
  BY <1>1, <1>2 DEF Service!Submit
<1>4. given' = [given EXCEPT ![c] = @ + 1] /\ c \in PendingSet
        /\ PendingSet' = PendingSet \ {c} /\ IssuedSet' = IssuedSet /\ answer' = answer => Service!Give(c)
  BY <1>1, <1>2 DEF Service!Give
<1>5. given' = given /\ answer' \in {answer, [answer EXCEPT ![c] = "unwritten"]} /\ c \in PendingSet
        /\ PendingSet' = PendingSet \ {c} /\ IssuedSet' = IssuedSet => Service!Drop(c)
  BY <1>1, <1>2 DEF Service!Drop
<1>6. ASSUME NEW a \in {"nil", "error", "timeout"},
             answer[c] = "none", answer' = [answer EXCEPT ![c] = a], given[c] > 0,
             c \in IssuedSet, c \notin PendingSet, IssuedSet' = IssuedSet, PendingSet' = PendingSet,
             given' = given
      PROVE  Service!Reply(c, a)
  <2>1. c \in {x \in Commands : x.n <= calls[x.from]} \ {x \in Commands :
                        \/ cpc[x.from] = "enqueue" /\ x = CmdOf(x.from)
                        \/ InSeq(x, sendQ) \/ InSeq(x, priorityQ)
                        \/ wpc = "write" /\ cur = x}
    BY <1>1, <1>2, <1>6
  <2> QED BY <1>1, <1>2, <1>6, <2>1 DEF Service!Reply
<1>7. ASSUME NEW a \in {"nil", "error", "timeout"}, Service!Reply(c, a) PROVE Service!Next
  BY <1>7 DEF Service!Next
<1>8. Service!Submit(c) \/ Service!Give(c) \/ Service!Drop(c) => Service!Next
  BY DEF Service!Next
<1> QED BY <1>3, <1>4, <1>5, <1>6, <1>7, <1>8

LEMMA AbstractStutter ==
  ASSUME UNCHANGED <<given, answer>>, \A c \in Commands : OnItsWay(c)' <=> OnItsWay(c),
         IssuedSet' = IssuedSet
  PROVE  ServiceStep
<1>1. PendingSet' = PendingSet
  BY DEF PendingSet
<1> QED BY <1>1, AbstractState DEF ServiceStep

\* A command on its way to the port was issued, and leaves it for good.
LEMMA OnItsWayFacts ==
  ASSUME LinkInv, NEW c \in Commands
  PROVE  /\ OnItsWay(c) => c \in IssuedSet
         /\ Queued(c) => ~(cpc[c.from] = "enqueue" /\ c = CmdOf(c.from)) /\ cur # c
         /\ cur = c => ~(cpc[c.from] = "enqueue" /\ c = CmdOf(c.from)) /\ ~Queued(c)
<1>1. c.n \in Nat /\ c.from \in Callers /\ calls[c.from] \in Nat /\ NoCmd \notin Commands
  BY CommandFacts DEF LinkInv, TypeOK, CallerType
<1>2. CmdOf(c.from).n = calls[c.from]
  BY DEF CmdOf
<1>3. Queued(c) \/ cur = c => c.n <= calls[c.from] /\ (cpc[c.from] = "enqueue" => c.n < calls[c.from])
  BY DEF LinkInv, Placed, Issued
<1>4. Queued(c) => cur # c
  BY <1>1 DEF LinkInv, Placed, Ahead
<1> QED BY <1>1, <1>2, <1>3, <1>4 DEF OnItsWay, IssuedSet

LEMMA CallAbstract ==
  ASSUME LinkInv, NEW g \in Callers, CallSend(g) \/ Return(g)
  PROVE  ServiceStep
<1> USE DEF LinkInv, callVars, queueVars, writerVars, readerVars, printerVars, resetVars
<1>1. UNCHANGED <<sendQ, priorityQ, cur, wpc, answer, given>>
  BY DEF CallSend, Return
<1>2. \A c : Queued(c)' <=> Queued(c)
  BY <1>1 DEF Queued, InSeq
<1>3. /\ cpc \in [Callers -> {"idle", "enqueue", "await"}] /\ calls \in [Callers -> Nat]
      /\ \A c \in Commands : c.from \in Callers /\ c.n \in Nat
  BY CommandFacts DEF TypeOK, CallerType
<1>4. CASE CallSend(g)
  <2> DEFINE c == [from |-> g, n |-> calls[g] + 1]
  <2>1. /\ cpc[g] = "idle" /\ cpc'[g] = "enqueue" /\ calls'[g] = calls[g] + 1 /\ CmdOf(g)' = c
        /\ \A x \in Callers : x # g => cpc'[x] = cpc[x] /\ calls'[x] = calls[x] /\ CmdOf(x)' = CmdOf(x)
    BY <1>3, <1>4 DEF CallSend, CmdOf
  <2>2. c \in Commands
    <3>1. calls[g] + 1 \in Nat /\ 1 <= calls[g] + 1 /\ calls[g] + 1 <= MaxCalls[g]
      <4>1. calls[g] \in Nat /\ MaxCalls[g] \in Nat /\ calls[g] < MaxCalls[g]
        BY <1>3, <1>4, BoundsAssumption DEF CallSend
      <4> QED BY <4>1
    <3> QED BY <3>1, CommandFacts
  <2>3. c \notin IssuedSet
    BY <1>3 DEF IssuedSet
  <2>4. IssuedSet' = IssuedSet \cup {c}
    <3>1. \A x \in Commands : x.n <= calls'[x.from] <=> x.n <= calls[x.from] \/ x = c
      BY <1>3, <2>1, <2>2, CommandFacts
    <3> QED BY <2>2, <3>1 DEF IssuedSet
  <2>5. PendingSet' = PendingSet \cup {c}
    <3>1. \A x \in Commands : OnItsWay(x)' <=> OnItsWay(x) \/ x = c
      <4> HIDE DEF c
      <4> SUFFICES ASSUME NEW x \in Commands PROVE OnItsWay(x)' <=> OnItsWay(x) \/ x = c
        OBVIOUS
      <4>1. c.from = g
        BY DEF c
      <4>2. CASE x.from = g
        BY <1>1, <1>2, <2>1, <4>1, <4>2 DEF OnItsWay
      <4>3. CASE x.from # g
        BY <1>1, <1>2, <1>3, <2>1, <4>1, <4>3 DEF OnItsWay
      <4> QED BY <4>2, <4>3
    <3> QED BY <2>2, <3>1 DEF PendingSet
  <2> HIDE DEF c
  <2>6. Service!Next
    BY <1>1, <2>2, <2>3, <2>4, <2>5, AbstractActions
  <2> QED BY <2>6 DEF ServiceStep
<1>5. CASE Return(g)
  <2>1. /\ calls' = calls /\ cpc[g] = "await" /\ cpc'[g] = "idle"
        /\ \A x \in Callers : (x # g => cpc'[x] = cpc[x]) /\ CmdOf(x)' = CmdOf(x)
    BY <1>3, <1>5 DEF Return, CmdOf
  <2>2. \A x \in Commands : OnItsWay(x)' <=> OnItsWay(x)
    <3>1. \A x \in Callers : (cpc'[x] = "enqueue" <=> cpc[x] = "enqueue") /\ CmdOf(x)' = CmdOf(x)
      BY <2>1
    <3> QED BY <1>1, <1>2, <1>3, <3>1 DEF OnItsWay
  <2> QED BY <1>1, <2>1, <2>2, AbstractStutter DEF IssuedSet
<1> QED BY <1>4, <1>5

LEMMA EnqueueAbstract ==
  ASSUME LinkInv, NEW g \in Callers, EnqueueSend(g) \/ EnqueuePrio(g)
  PROVE  ServiceStep
<1> USE DEF LinkInv, callVars, queueVars, writerVars, readerVars, printerVars, resetVars
<1>1. UNCHANGED <<calls, cur, wpc, answer, given>> /\ cpc[g] = "enqueue"
  BY DEF EnqueueSend, EnqueuePrio
<1>2. /\ cpc \in [Callers -> {"idle", "enqueue", "await"}]
      /\ \A c \in Commands : c.from \in Callers
      /\ CmdOf(g) \in Commands /\ CmdOf(g).from = g
      /\ \A x \in Callers : CmdOf(x)' = CmdOf(x)
  BY <1>1, CommandFacts, CmdOfTyped DEF TypeOK, CallerType, CmdOf, Shape
<1>3. IssuedSet' = IssuedSet
  BY <1>1 DEF IssuedSet
<1>4. OnItsWay(CmdOf(g)) /\ ~Queued(CmdOf(g)) /\ cur # CmdOf(g)
  BY <1>1, <1>2, OnItsWayFacts DEF OnItsWay
<1>5. CASE UNCHANGED <<sendQ, priorityQ>> /\ cpc' = [cpc EXCEPT ![g] = "idle"]
  <2>1. \A x \in Commands : OnItsWay(x)' <=> OnItsWay(x) /\ x # CmdOf(g)
    <3>1. \A x : Queued(x)' <=> Queued(x)
      BY <1>5 DEF Queued, InSeq
    <3>2. \A x \in Callers : cpc'[x] = "enqueue" <=> cpc[x] = "enqueue" /\ x # g
      BY <1>2, <1>5
    <3>3. \A x \in Callers : CmdOf(x) = CmdOf(g) => x = g
      BY DEF CmdOf
    <3> QED BY <1>1, <1>2, <1>4, <3>1, <3>2, <3>3 DEF OnItsWay
  <2>2. CmdOf(g) \in PendingSet /\ PendingSet' = PendingSet \ {CmdOf(g)}
    BY <1>2, <1>4, <2>1 DEF PendingSet
  <2>3. Service!Next
    BY <1>1, <1>2, <1>3, <2>2, AbstractActions
  <2> QED BY <2>3 DEF ServiceStep
<1>6. CASE /\ cpc' = [cpc EXCEPT ![g] = IF Waits(CmdOf(g)) THEN "await" ELSE "idle"]
           /\ \/ g \in SendCallers /\ sendQ' = Append(sendQ, CmdOf(g)) /\ priorityQ' = priorityQ
              \/ g \in PrioCallers /\ priorityQ' = Append(priorityQ, CmdOf(g)) /\ sendQ' = sendQ
  <2>1. \A c \in Commands : Queued(c)' <=> Queued(c) \/ c = CmdOf(g)
    BY <1>1, <1>6, TailAdded DEF Placed
  <2>2. \A x \in Callers : cpc'[x] = "enqueue" <=> cpc[x] = "enqueue" /\ x # g
    BY <1>2, <1>6
  <2>3. \A x \in Commands : OnItsWay(x)' <=> OnItsWay(x)
    BY <1>1, <1>2, <1>4, <2>1, <2>2 DEF OnItsWay
  <2> QED BY <1>1, <1>3, <2>3, AbstractStutter
<1>7. g \in SendCallers => Waits(CmdOf(g))
  BY <1>2, CallersAssumption DEF Waits
<1> QED BY <1>5, <1>6, <1>7 DEF EnqueueSend, EnqueuePrio

\* writeLoop takes a command, which stays on its way; a reset drops it.
LEMMA HeadAbstract ==
  ASSUME LinkInv, NEW h,
         \/ sendQ # <<>> /\ h = Head(sendQ) /\ sendQ' = Tail(sendQ) /\ priorityQ' = priorityQ
         \/ priorityQ # <<>> /\ h = Head(priorityQ) /\ priorityQ' = Tail(priorityQ) /\ sendQ' = sendQ,
         UNCHANGED <<cpc, calls, answer, given>>,
         \/ wpc \in {"poll", "select"} /\ cur' = h /\ wpc' = "write"
         \/ cur' = cur /\ wpc' = wpc
  PROVE  ServiceStep
<1> USE DEF LinkInv
<1>1. /\ h \in Commands /\ Queued(h)
      /\ \A c \in Commands : Queued(c) <=> c = h \/ Queued(c)'
      /\ \A c \in Commands : Queued(c)' /\ c.from = h.from => h.n < c.n
  BY HeadTaken DEF Placed
<1>2. IssuedSet' = IssuedSet /\ \A x : CmdOf(x)' = CmdOf(x)
  BY DEF IssuedSet, CmdOf
<1>3. CASE wpc \in {"poll", "select"} /\ cur' = h /\ wpc' = "write"
  <2>1. \A x \in Commands : OnItsWay(x)' <=> OnItsWay(x)
    BY <1>1, <1>2, <1>3 DEF OnItsWay
  <2> QED BY <1>2, <2>1, AbstractStutter
<1>4. CASE cur' = cur /\ wpc' = wpc
  <2>1. ~Queued(h)'
    BY <1>1, CommandFacts
  <2>2. ~(cpc[h.from] = "enqueue" /\ h = CmdOf(h.from)) /\ cur # h
    BY <1>1, OnItsWayFacts
  <2>3. \A x \in Commands : OnItsWay(x)' <=> OnItsWay(x) /\ x # h
    BY <1>1, <1>2, <1>4, <2>1, <2>2 DEF OnItsWay
  <2>4. h \in PendingSet /\ PendingSet' = PendingSet \ {h}
    BY <1>1, <2>3 DEF PendingSet, OnItsWay
  <2>5. Service!Next
    BY <1>1, <1>2, <2>4, AbstractActions
  <2> QED BY <2>5 DEF ServiceStep
<1> QED BY <1>3, <1>4

\* writeLoop writes its command, fails to, or answers it.
LEMMA WriterAbstract ==
  ASSUME LinkInv, WriteLoop
  PROVE  ServiceStep
<1> USE DEF LinkInv, WriteLoop, callVars, queueVars, writerVars, readerVars, printerVars, resetVars
<1>1. CASE TakePriority /\ (WritePoll \/ WriteSelect)
  <2>1. priorityQ # <<>> /\ cur' = Head(priorityQ) /\ priorityQ' = Tail(priorityQ) /\ sendQ' = sendQ
        /\ wpc' = "write" /\ wpc \in {"poll", "select"}
    BY <1>1 DEF TakePriority, WritePoll, WriteSelect
  <2>2. UNCHANGED <<cpc, calls, answer, given>>
    BY <1>1 DEF WritePoll, WriteSelect
  <2> QED BY <2>1, <2>2, HeadAbstract
<1>2. CASE TakeSend /\ (WritePoll \/ WriteSelect)
  <2>1. sendQ # <<>> /\ cur' = Head(sendQ) /\ sendQ' = Tail(sendQ) /\ priorityQ' = priorityQ
        /\ wpc' = "write" /\ wpc \in {"poll", "select"}
    BY <1>2 DEF TakeSend, WritePoll, WriteSelect
  <2>2. UNCHANGED <<cpc, calls, answer, given>>
    BY <1>2 DEF WritePoll, WriteSelect
  <2> QED BY <2>1, <2>2, HeadAbstract
<1>3. ASSUME UNCHANGED <<sendQ, priorityQ, cpc, calls>>
      PROVE  /\ IssuedSet' = IssuedSet
             /\ \A x \in Commands : OnItsWay(x)' <=>
                  \/ cpc[x.from] = "enqueue" /\ x = CmdOf(x.from)
                  \/ Queued(x)
                  \/ wpc' = "write" /\ cur' = x
  BY <1>3 DEF IssuedSet, OnItsWay, Queued, InSeq, CmdOf
<1>4. cur \in Commands => /\ cur \in IssuedSet /\ ~Queued(cur)
                          /\ ~(cpc[cur.from] = "enqueue" /\ cur = CmdOf(cur.from))
  <2>1. ASSUME cur \in Commands PROVE cur.n <= calls[cur.from]
    BY <2>1 DEF Placed, Issued
  <2> QED BY <2>1, OnItsWayFacts DEF IssuedSet
<1>5. CASE WritePoll /\ ~TakePriority
  <2>1. /\ UNCHANGED <<sendQ, priorityQ, cpc, calls, answer, given, cur>>
        /\ wpc = "poll" /\ wpc' = "select"
    BY <1>5 DEF WritePoll
  <2>2. \A x \in Commands : OnItsWay(x)' <=> OnItsWay(x)
    BY <1>3, <2>1 DEF OnItsWay
  <2> QED BY <1>3, <2>1, <2>2, AbstractStutter
<1>6. CASE wpc = "write" /\ wpc' # "write" /\ UNCHANGED <<sendQ, priorityQ, cpc, calls>>
           /\ (PortWrite \/ PortWriteFails)
  <2>1. cur \in Commands
    BY <1>6 DEF TypeOK, LoopType, Shape, Busy
  <2>2. \A x \in Commands : OnItsWay(x)' <=> OnItsWay(x) /\ x # cur
    BY <1>3, <1>4, <1>6, <2>1 DEF OnItsWay
  <2>3. cur \in PendingSet /\ PendingSet' = PendingSet \ {cur} /\ IssuedSet' = IssuedSet
    BY <1>3, <1>6, <2>1, <2>2 DEF PendingSet, OnItsWay
  <2>4. \/ given' = [given EXCEPT ![cur] = @ + 1] /\ answer' = answer
        \/ given' = given /\ answer' \in {answer, [answer EXCEPT ![cur] = "unwritten"]}
    BY <1>6 DEF PortWrite, PortWriteFails, Respond
  <2>5. Service!Next
    BY <2>1, <2>3, <2>4, AbstractActions
  <2> QED BY <2>5 DEF ServiceStep
<1>7. CASE /\ wpc \in {"wait", "temps"} /\ UNCHANGED <<sendQ, priorityQ, cpc, calls, given>>
           /\ wpc' # "write"
           /\ answer' = answer \/ \E a \in {"nil", "error", "timeout"} : Respond(cur, a)
  <2>1. cur \in Commands
    BY <1>7 DEF TypeOK, LoopType, Shape, Busy
  <2>2. \A x \in Commands : OnItsWay(x)' <=> OnItsWay(x)
    BY <1>3, <1>7 DEF OnItsWay
  <2>3. CASE answer' = answer
    BY <1>3, <1>7, <2>2, <2>3, AbstractStutter
  <2>4. CASE answer' # answer
    <3>1. PICK a \in {"nil", "error", "timeout"} : answer[cur] = "none" /\ answer' = [answer EXCEPT ![cur] = a]
      BY <1>7, <2>4 DEF Respond
    <3>2. given[cur] > 0
      BY <1>7 DEF Placed, Written
    <3>3. cur \in IssuedSet \ PendingSet /\ PendingSet' = PendingSet /\ IssuedSet' = IssuedSet
      <4>1. ~OnItsWay(cur)
        BY <1>4, <1>7, <2>1 DEF OnItsWay
      <4> QED BY <1>3, <1>4, <1>7, <2>1, <2>2, <4>1 DEF PendingSet
    <3>4. Service!Next
      BY <1>7, <2>1, <3>1, <3>2, <3>3, AbstractActions
    <3> QED BY <3>4 DEF ServiceStep
  <2> QED BY <2>3, <2>4
<1>8. CASE PortWrite \/ PortWriteFails
  BY <1>6, <1>8 DEF PortWrite, PortWriteFails
<1>9. CASE WriteReply \/ WriteTemps
  <2>1. wpc \in {"wait", "temps"} /\ UNCHANGED <<sendQ, priorityQ, cpc, calls, given>>
    BY <1>9 DEF WriteReply, WriteTemps
  <2>2. wpc' # "write" /\ (answer' = answer \/ \E a \in {"nil", "error", "timeout"} : Respond(cur, a))
    BY <1>9, LineHandled DEF WriteReply, WriteTemps
  <2> QED BY <1>7, <2>1, <2>2
<1>10. CASE WriteTimeout
  BY <1>7, <1>10 DEF WriteTimeout
<1> QED BY <1>1, <1>2, <1>5, <1>8, <1>9, <1>10 DEF WritePoll, WriteSelect

LEMMA NextAbstract == LinkInv /\ [Next]_vars => ServiceStep
<1> SUFFICES ASSUME LinkInv, [Next]_vars PROVE ServiceStep
  OBVIOUS
<1> USE DEF callVars, queueVars, writerVars, readerVars, printerVars, resetVars
<1>1. CASE Call
  BY <1>1, CallAbstract, EnqueueAbstract DEF Call
<1>2. CASE WriteLoop
  BY <1>2, WriterAbstract
<1>3. CASE ReadLoop \/ InitTimer \/ Printer \/ ResetBegin \/ ResetLen \/ UNCHANGED vars
  <2>1. UNCHANGED <<sendQ, priorityQ, cur, cpc, calls, answer, given, wpc>>
    BY <1>3 DEF ReadLoop, ReadScan, ReadInitializing, ReadConnected, InitTimer, Printer, PrinterBoots,
                PrinterNotice, PrinterReplies, PrinterLoses, ResetBegin, ResetLen, vars
  <2>2. IssuedSet' = IssuedSet /\ \A x \in Commands : OnItsWay(x)' <=> OnItsWay(x)
    BY <2>1 DEF IssuedSet, OnItsWay, Queued, InSeq, CmdOf
  <2> QED BY <2>1, <2>2, AbstractStutter
<1>4. CASE ResetRecv
  <2>1. UNCHANGED <<cpc, calls, answer, given, cur, wpc>>
    BY <1>4 DEF ResetRecv
  <2>2. CASE sendQ # <<>> /\ sendQ' = Tail(sendQ) /\ priorityQ' = priorityQ
    BY <2>1, <2>2, HeadAbstract
  <2>3. CASE priorityQ # <<>> /\ priorityQ' = Tail(priorityQ) /\ sendQ' = sendQ
    BY <2>1, <2>3, HeadAbstract
  <2> QED BY <1>4, <2>2, <2>3 DEF ResetRecv
<1> QED BY <1>1, <1>2, <1>3, <1>4 DEF Next, Finished, Reset

\* SerialLink implements CommandService: whatever the goroutines, queues, resets
\* and faults, a submitted command is given to the printer at most once and
\* answered at most once, and never with a printer's answer before it was given.
THEOREM ImplementsServiceAlways == Spec => ImplementsService
<1>1. Init => Service!Init
  <2> SUFFICES ASSUME Init PROVE Service!Init
    OBVIOUS
  <2>1. {c \in Commands : c.n <= calls[c.from]} = {}
    BY CommandFacts DEF Init
  <2>2. {c \in Commands :
           \/ cpc[c.from] = "enqueue" /\ c = CmdOf(c.from)
           \/ InSeq(c, sendQ) \/ InSeq(c, priorityQ)
           \/ wpc = "write" /\ cur = c} = {}
    BY CommandFacts, EmptySeq DEF Init, InSeq
  <2>3. given = [c \in Commands |-> 0] /\ answer = [c \in Commands |-> "none"]
    BY DEF Init
  <2> QED BY <2>1, <2>2, <2>3 DEF Service!Init
<1>2. LinkInv /\ [Next]_vars => [Service!Next]_(Service!vars)
  BY NextAbstract DEF ServiceStep
<1> QED BY <1>1, <1>2, LinkInvAlways, PTL DEF Spec, Service!Spec, ImplementsService

-----------------------------------------------------------------------------
(* The replies.                                                            *)

\* The terminal lines of a queue of lines.
HasEnd(q) == \E i \in 1 .. Len(q) : EndsCommand(q[i])
OneEnd(q) == \A i, j \in 1 .. Len(q) : EndsCommand(q[i]) /\ EndsCommand(q[j]) => i = j
EndsFor(q, c) == \A i \in 1 .. Len(q) : EndsCommand(q[i]) => q[i].for = c

LEMMA EndsAppend ==
  ASSUME NEW q \in Seq(Lines), NEW l \in Lines, NEW c
  PROVE  /\ HasEnd(Append(q, l)) <=> HasEnd(q) \/ EndsCommand(l)
         /\ OneEnd(q) /\ ~(HasEnd(q) /\ EndsCommand(l)) => OneEnd(Append(q, l))
         /\ EndsFor(q, c) /\ (EndsCommand(l) => l.for = c) => EndsFor(Append(q, l), c)
<1>1. Len(Append(q, l)) = Len(q) + 1 /\ Len(q) \in Nat /\ Append(q, l)[Len(q) + 1] = l
  OBVIOUS
<1>2. \A i \in 1 .. Len(q) : Append(q, l)[i] = q[i]
  OBVIOUS
<1>3. \A i \in 1 .. Len(q) + 1 : i \in 1 .. Len(q) \/ i = Len(q) + 1
  BY <1>1
<1>4. 1 .. Len(q) \subseteq 1 .. Len(q) + 1 /\ Len(q) + 1 \in 1 .. Len(q) + 1
  BY <1>1
<1>5. HasEnd(Append(q, l)) <=> HasEnd(q) \/ EndsCommand(l)
  BY <1>1, <1>2, <1>3, <1>4 DEF HasEnd
<1>6. OneEnd(q) /\ ~(HasEnd(q) /\ EndsCommand(l)) => OneEnd(Append(q, l))
  BY <1>1, <1>2, <1>3 DEF OneEnd, HasEnd
<1>7. EndsFor(q, c) /\ (EndsCommand(l) => l.for = c) => EndsFor(Append(q, l), c)
  BY <1>1, <1>2, <1>3 DEF EndsFor
<1> QED BY <1>5, <1>6, <1>7

LEMMA EndsTail ==
  ASSUME NEW q \in Seq(Lines), q # <<>>, NEW c
  PROVE  /\ HasEnd(q) <=> EndsCommand(Head(q)) \/ HasEnd(Tail(q))
         /\ OneEnd(q) => OneEnd(Tail(q)) /\ ~(EndsCommand(Head(q)) /\ HasEnd(Tail(q)))
         /\ EndsFor(q, c) => EndsFor(Tail(q), c) /\ (EndsCommand(Head(q)) => Head(q).for = c)
<1>1. /\ Len(Tail(q)) = Len(q) - 1 /\ \A i \in 1 .. Len(Tail(q)) : Tail(q)[i] = q[i + 1]
  BY HeadTailProperties
<1>2. Len(q) \in Nat \ {0} /\ Head(q) = q[1]
  BY EmptySeq
<1>3. \A i \in 1 .. Len(Tail(q)) : i + 1 \in 1 .. Len(q) /\ i + 1 # 1 /\ Tail(q)[i] = q[i + 1]
  BY <1>1, <1>2
<1>4. \A i \in 1 .. Len(q) : i = 1 \/ (i - 1 \in 1 .. Len(Tail(q)) /\ Tail(q)[i - 1] = q[i])
  BY <1>1, <1>2
<1>5. 1 \in 1 .. Len(q)
  BY <1>2
<1>6. HasEnd(q) <=> EndsCommand(Head(q)) \/ HasEnd(Tail(q))
  BY <1>2, <1>3, <1>4, <1>5 DEF HasEnd
<1>7. OneEnd(q) => OneEnd(Tail(q)) /\ ~(EndsCommand(Head(q)) /\ HasEnd(Tail(q)))
  <2>1. \A i, j \in 1 .. Len(Tail(q)) : i + 1 = j + 1 => i = j
    BY <1>1, <1>2
  <2> QED BY <1>2, <1>3, <1>5, <2>1 DEF OneEnd, HasEnd
<1>8. EndsFor(q, c) => EndsFor(Tail(q), c) /\ (EndsCommand(Head(q)) => Head(q).for = c)
  BY <1>2, <1>3, <1>5 DEF EndsFor
<1> QED BY <1>6, <1>7, <1>8

\* Until the initialization ends no command exists, and until the printer has
\* booted it ends none.
Dormant == state = "Initializing" =>
             /\ \A g \in Callers : cpc[g] = "idle"
             /\ sendQ = <<>> /\ priorityQ = <<>> /\ inbound = <<>> /\ wire = <<>>
             /\ wpc \in {"poll", "select"}
Booting == boot = "booting" => ~HasEnd(rx) /\ ~EndsCommand(rd.line) /\ ~HasEnd(inbound) /\ ~EndsCommand(got)

\* readLoop acts on the state it read, and only a timer can make that stale.
Seen == /\ rd.seen = "Connected" => state = "Connected"
        /\ rd.seen = "Initializing" /\ ~late => state = "Initializing"
        /\ state = "Connected" /\ ~late => boot = "up"

\* Until then one command or the reply to it is between the write and writeLoop,
NoReply == /\ ~HasEnd(inbound) /\ ~EndsCommand(rd.line) /\ ~HasEnd(rx) /\ ~EndsCommand(got)
           /\ wire = <<>>
OneReply == ~late =>
  /\ OneEnd(inbound) /\ OneEnd(rx) /\ Len(wire) <= 1
  /\ HasEnd(inbound) => ~EndsCommand(rd.line) /\ ~HasEnd(rx) /\ ~EndsCommand(got) /\ wire = <<>>
  /\ EndsCommand(rd.line) => ~HasEnd(rx) /\ ~EndsCommand(got) /\ wire = <<>>
  /\ HasEnd(rx) => ~EndsCommand(got) /\ wire = <<>>
  /\ EndsCommand(got) => wire = <<>>

\* and it is the one writeLoop waits for.
Matched == ~late /\ state = "Connected" =>
  /\ NoReply \/ wpc \in {"wait", "temps"}
  /\ EndsFor(inbound, cur) /\ EndsFor(rx, cur) /\ (wire # <<>> => Head(wire) = cur)
  /\ EndsCommand(rd.line) => rd.line.for = cur
  /\ EndsCommand(got) => got.for = cur

Paired == Dormant /\ Booting /\ Seen /\ OneReply /\ Matched

LineInv == TypeOK /\ Shape /\ Paired

LEMMA InitPaired == Init => Paired
<1> SUFFICES ASSUME Init PROVE Paired
  OBVIOUS
<1>1. /\ state = "Initializing" /\ boot = "booting" /\ rd = NoRead /\ got = NoLine /\ wire = <<>>
      /\ rx = <<>> /\ inbound = <<>>
  BY DEF Init
<1>2. ~HasEnd(<<>>) /\ OneEnd(<<>>) /\ ~EndsCommand(NoLine) /\ NoRead.line = NoLine
  BY DEF HasEnd, OneEnd, EndsCommand, NoLine, NoRead
<1>3. NoReply /\ Booting
  BY <1>1, <1>2 DEF NoReply, Booting
<1>4. Dormant /\ Seen
  BY <1>1, LineFacts DEF Init, Dormant, Seen
<1>5. OneReply /\ Matched
  BY <1>1, <1>2, <1>3, EmptySeq DEF OneReply, Matched, NoReply
<1> QED BY <1>3, <1>4, <1>5 DEF Paired

\* A step that moves no line.
LEMMA StillPaired ==
  ASSUME LineInv, UNCHANGED <<state, inbound, rd, rx, got, wire, boot, cur, late>>,
         state = "Initializing" => UNCHANGED <<cpc, sendQ, priorityQ>> /\ wpc' \in {"poll", "select"},
         wpc' = wpc \/ NoReply
  PROVE  Paired'
<1> USE DEF LineInv, Paired
<1>1. /\ HasEnd(inbound)' = HasEnd(inbound) /\ HasEnd(rx)' = HasEnd(rx)
      /\ OneEnd(inbound)' = OneEnd(inbound) /\ OneEnd(rx)' = OneEnd(rx)
      /\ EndsFor(inbound, cur)' = EndsFor(inbound, cur) /\ EndsFor(rx, cur)' = EndsFor(rx, cur)
      /\ EndsCommand(rd.line)' = EndsCommand(rd.line) /\ EndsCommand(got)' = EndsCommand(got)
  BY DEF HasEnd, OneEnd, EndsFor, EndsCommand
<1>2. Dormant' /\ Seen'
  BY DEF Dormant, Seen
<1>3. Booting' /\ OneReply' /\ Matched'
  BY <1>1 DEF Booting, OneReply, Matched, NoReply
<1> QED BY <1>2, <1>3

\* The callers and ResetQueues touch no line.
LEMMA CallPaired ==
  ASSUME LineInv, Call \/ Reset
  PROVE  Paired'
<1> USE DEF LineInv, Paired, callVars, queueVars, writerVars, readerVars, printerVars, resetVars, Call, Reset
<1>1. UNCHANGED <<state, inbound, rd, rx, got, wire, boot, cur, late, wpc>>
  BY DEF CallSend, EnqueueSend, EnqueuePrio, Return, ResetBegin, ResetLen, ResetRecv
<1>2. state = "Initializing" => UNCHANGED <<cpc, sendQ, priorityQ>>
  BY DEF CallSend, EnqueueSend, EnqueuePrio, Return, ResetBegin, ResetLen, ResetRecv, Dormant
<1> QED BY <1>1, <1>2, StillPaired DEF Dormant

\* writeLoop acts only in the Connected state.
LEMMA WriterPaired ==
  ASSUME LineInv, WriteLoop
  PROVE  Paired'
<1> USE DEF LineInv, Paired, WriteLoop, callVars, queueVars, writerVars, readerVars, printerVars, resetVars
<1>1. /\ inbound \in Seq(Lines) /\ rx \in Seq(Lines) /\ wire \in Seq(Commands)
      /\ ~EndsCommand(NoLine) /\ ~HasEnd(<<>>) /\ OneEnd(<<>>)
      /\ (wpc # "temps" => ~EndsCommand(got)) /\ (cur = NoCmd <=> wpc \in {"poll", "select"})
  <2>1. inbound \in Seq(Lines) /\ rx \in Seq(Lines) /\ wire \in Seq(Commands)
    BY DEF TypeOK, QueueType, PrinterType
  <2>2. ~EndsCommand(NoLine) /\ ~HasEnd(<<>>) /\ OneEnd(<<>>)
    BY DEF EndsCommand, NoLine, HasEnd, OneEnd
  <2>3. wpc # "temps" => got = NoLine
    BY DEF Shape, Busy
  <2>4. cur = NoCmd <=> wpc \in {"poll", "select"}
    BY DEF TypeOK, LoopType, Shape, Busy
  <2> QED BY <2>1, <2>2, <2>3, <2>4
<1>2. CASE WritePoll \/ WriteSelect
  <2>1. /\ UNCHANGED <<state, inbound, rd, rx, got, wire, boot, late, cpc>>
        /\ wpc \in {"poll", "select"}
    BY <1>2 DEF WritePoll, WriteSelect, TakePriority, TakeSend
  <2>2. state = "Initializing" => UNCHANGED <<sendQ, priorityQ>> /\ wpc' = "select"
    BY <1>2 DEF WritePoll, WriteSelect, TakePriority, TakeSend, Dormant
  <2>3. Dormant' /\ Seen' /\ Booting' /\ OneReply'
    BY <2>1, <2>2 DEF Dormant, Seen, Booting, OneReply, HasEnd, OneEnd
  <2>4. ~late /\ state = "Connected" => NoReply
    BY <2>1 DEF Matched
  <2>5. Matched'
    BY <2>1, <2>4 DEF Matched, NoReply, HasEnd, EndsFor
  <2> QED BY <2>3, <2>5
<1>3. CASE PortWrite
  <2>1. /\ UNCHANGED <<state, inbound, rd, rx, got, boot, late, cpc, sendQ, priorityQ, cur>>
        /\ wpc = "write" /\ wpc' = "wait" /\ wire' = Append(wire, cur)
    BY <1>3 DEF PortWrite
  <2>2. state = "Connected"
    BY <2>1 DEF Dormant, TypeOK, LoopType
  <2>3. ~late => NoReply
    BY <2>1, <2>2 DEF Matched
  <2>4. wire = <<>> => Len(wire') = 1 /\ Head(wire') = cur
    BY <2>1
  <2>5. Dormant' /\ Seen' /\ Booting'
    BY <2>1, <2>2 DEF Dormant, Seen, Booting, HasEnd
  <2>6. OneReply'
    BY <2>1, <2>3, <2>4 DEF OneReply, NoReply, HasEnd, OneEnd
  <2>7. \A q, c : ~HasEnd(q) => EndsFor(q, c)
    BY DEF HasEnd, EndsFor
  <2>8. Matched'
    BY <2>1, <2>3, <2>4, <2>7 DEF Matched, NoReply
  <2> QED BY <2>5, <2>6, <2>8
<1>4. CASE PortWriteFails
  <2>1. /\ UNCHANGED <<state, inbound, rd, rx, got, boot, late, cpc, sendQ, priorityQ, wire>>
        /\ wpc = "write" /\ wpc' = "poll"
    BY <1>4 DEF PortWriteFails
  <2>2. state = "Connected"
    BY <2>1 DEF Dormant, TypeOK, LoopType
  <2>3. ~late => NoReply
    BY <2>1, <2>2 DEF Matched
  <2>4. Dormant' /\ Seen' /\ Booting' /\ OneReply'
    BY <2>1, <2>2 DEF Dormant, Seen, Booting, OneReply, HasEnd, OneEnd
  <2>5. \A q, c : ~HasEnd(q) => EndsFor(q, c)
    BY DEF HasEnd, EndsFor
  <2>6. Matched'
    BY <2>1, <2>3, <2>5 DEF Matched, NoReply
  <2> QED BY <2>4, <2>6
<1>5. CASE WriteReply
  <2>1. /\ UNCHANGED <<state, rd, rx, boot, late, cpc, sendQ, priorityQ, wire>>
        /\ wpc = "wait" /\ inbound # <<>> /\ inbound' = Tail(inbound)
    BY <1>5 DEF WriteReply
  <2>2. state = "Connected"
    BY <2>1 DEF Dormant, TypeOK, LoopType
  <2>3. /\ HasEnd(inbound) <=> EndsCommand(Head(inbound)) \/ HasEnd(inbound')
        /\ OneEnd(inbound) => OneEnd(inbound') /\ ~(EndsCommand(Head(inbound)) /\ HasEnd(inbound'))
        /\ EndsFor(inbound, cur) => EndsFor(inbound', cur) /\ (EndsCommand(Head(inbound)) => Head(inbound).for = cur)
    BY <1>1, <2>1, EndsTail
  <2>4. \/ got' = Head(inbound) /\ wpc' = "temps" /\ cur' = cur
        \/ got' = got /\ EndsCommand(Head(inbound)) /\ wpc' = "poll"
        \/ got' = got /\ ~EndsCommand(Head(inbound)) /\ wpc' = "wait" /\ cur' = cur
    BY <1>5 DEF WriteReply, HandleLine
  <2>5. Dormant' /\ Seen'
    BY <2>1, <2>2 DEF Dormant, Seen
  <2>6. ~EndsCommand(got)
    BY <1>1, <2>1
  <2>7. Booting'
    <3>1. EndsCommand(got') => EndsCommand(Head(inbound))
      BY <2>4, <2>6
    <3> QED BY <2>1, <2>3, <3>1 DEF Booting, HasEnd, EndsCommand
  <2>8. OneReply'
    <3>1. OneEnd(inbound)' = OneEnd(inbound') /\ HasEnd(inbound)' = HasEnd(inbound')
          /\ OneEnd(rx)' = OneEnd(rx) /\ HasEnd(rx)' = HasEnd(rx)
          /\ EndsCommand(rd.line)' = EndsCommand(rd.line)
      BY <2>1 DEF OneEnd, HasEnd, EndsCommand
    <3>2. EndsCommand(got)' => EndsCommand(Head(inbound))
      BY <2>4, <2>6 DEF EndsCommand
    <3> QED BY <2>1, <2>3, <3>1, <3>2 DEF OneReply
  <2>9. Matched'
    <3>1. /\ EndsFor(inbound, cur)' = EndsFor(inbound', cur') /\ HasEnd(inbound)' = HasEnd(inbound')
          /\ EndsFor(rx, cur)' = EndsFor(rx, cur') /\ HasEnd(rx)' = HasEnd(rx)
          /\ EndsCommand(rd.line)' = EndsCommand(rd.line) /\ EndsCommand(got)' = EndsCommand(got')
      BY <2>1 DEF EndsFor, HasEnd, EndsCommand
    <3>2. CASE wpc' # "poll"
      BY <2>1, <2>3, <2>4, <2>6, <3>1, <3>2 DEF Matched, NoReply
    <3>3. CASE wpc' = "poll"
      <4>1. got' = got /\ EndsCommand(Head(inbound))
        BY <2>4, <3>3
      <4>2. ~late => NoReply'
        BY <2>1, <2>3, <2>6, <3>1, <4>1 DEF OneReply, NoReply
      <4>3. \A q, c : ~HasEnd(q) => EndsFor(q, c)
        BY DEF HasEnd, EndsFor
      <4> QED BY <2>1, <4>2, <4>3 DEF Matched, NoReply
    <3> QED BY <3>2, <3>3
  <2> QED BY <2>5, <2>7, <2>8, <2>9
<1>6. CASE WriteTemps
  <2>1. /\ UNCHANGED <<state, rd, rx, boot, late, cpc, sendQ, priorityQ, wire, inbound>>
        /\ wpc = "temps" /\ got' = NoLine
        /\ (EndsCommand(got) /\ wpc' = "poll") \/ (wpc' = "wait" /\ cur' = cur)
    BY <1>6 DEF WriteTemps, HandleLine
  <2>2. state = "Connected" /\ ~EndsCommand(got')
    BY <1>1, <2>1 DEF Dormant, TypeOK, LoopType
  <2>3. /\ OneEnd(inbound)' = OneEnd(inbound) /\ HasEnd(inbound)' = HasEnd(inbound)
        /\ OneEnd(rx)' = OneEnd(rx) /\ HasEnd(rx)' = HasEnd(rx)
        /\ EndsCommand(rd.line)' = EndsCommand(rd.line) /\ EndsCommand(got)' = EndsCommand(got')
        /\ EndsFor(inbound, cur)' = EndsFor(inbound, cur') /\ EndsFor(rx, cur)' = EndsFor(rx, cur')
    BY <2>1 DEF OneEnd, HasEnd, EndsFor, EndsCommand
  <2>4. Dormant' /\ Seen' /\ Booting' /\ OneReply'
    BY <2>1, <2>2, <2>3 DEF Dormant, Seen, Booting, OneReply
  <2>5. CASE wpc' = "wait" /\ cur' = cur
    <3>1. Matched'
      BY <2>1, <2>2, <2>3, <2>5 DEF Matched, NoReply
    <3> QED BY <2>4, <3>1
  <2>6. CASE EndsCommand(got)
    <3>1. ~late => NoReply'
      BY <2>1, <2>2, <2>3, <2>6 DEF OneReply, NoReply
    <3>2. \A q, c : ~HasEnd(q) => EndsFor(q, c)
      BY DEF HasEnd, EndsFor
    <3>3. Matched'
      BY <2>1, <3>1, <3>2 DEF Matched, NoReply
    <3> QED BY <2>4, <3>3
  <2> QED BY <2>1, <2>5, <2>6
<1>7. CASE WriteTimeout
  <2>1. /\ UNCHANGED <<state, rd, rx, boot, cpc, sendQ, priorityQ, wire, got>>
        /\ wpc = "wait" /\ wpc' = "poll" /\ inbound' = <<>>
        /\ ~late' => ~late /\ Quiet /\ wire = <<>>
    BY <1>7 DEF WriteTimeout
  <2>2. state = "Connected" /\ ~EndsCommand(got)
    BY <1>1, <2>1 DEF Dormant, TypeOK, LoopType
  <2>3. /\ OneEnd(inbound)' = OneEnd(<<>>) /\ HasEnd(inbound)' = HasEnd(<<>>)
        /\ OneEnd(rx)' = OneEnd(rx) /\ HasEnd(rx)' = HasEnd(rx)
        /\ EndsCommand(rd.line)' = EndsCommand(rd.line) /\ EndsCommand(got)' = EndsCommand(got)
    BY <2>1 DEF OneEnd, HasEnd, EndsCommand
  <2>4. Dormant' /\ Seen' /\ Booting'
    BY <1>1, <2>1, <2>2, <2>3 DEF Dormant, Seen, Booting
  <2>5. ~late' => NoReply'
    BY <1>1, <2>1, <2>2, <2>3, LineFacts DEF NoReply, Quiet
  <2>6. OneReply'
    BY <1>1, <2>1, <2>3, <2>5 DEF OneReply, NoReply
  <2>7. \A q, c : ~HasEnd(q) => EndsFor(q, c)
    BY DEF HasEnd, EndsFor
  <2>8. Matched'
    BY <2>5, <2>7 DEF Matched, NoReply
  <2> QED BY <2>4, <2>6, <2>8
<1> QED BY <1>2, <1>3, <1>4, <1>5, <1>6, <1>7

\* readLoop passes a line on; the initialization timer may be early.
LEMMA ReaderPaired ==
  ASSUME LineInv, ReadLoop \/ InitTimer
  PROVE  Paired'
<1> USE DEF LineInv, Paired, ReadLoop, callVars, queueVars, writerVars, readerVars, printerVars, resetVars
<1>1. /\ inbound \in Seq(Lines) /\ rx \in Seq(Lines) /\ rd.line \in Lines \cup {NoLine}
      /\ ~EndsCommand(NoLine) /\ NoRead.line = NoLine /\ NoRead.seen = "none"
  <2>1. inbound \in Seq(Lines) /\ rx \in Seq(Lines)
    BY DEF TypeOK, QueueType, PrinterType
  <2>2. rd.line \in Lines \cup {NoLine} /\ NoRead.line = NoLine /\ NoRead.seen = "none"
    BY LineFacts DEF TypeOK, LoopType
  <2> QED BY <2>1, <2>2 DEF EndsCommand, NoLine
<1>2. UNCHANGED <<got, wire, boot, cur, wpc, cpc, sendQ, priorityQ>>
  BY DEF ReadScan, ReadInitializing, ReadConnected, InitTimer
<1>3. /\ EndsCommand(got)' = EndsCommand(got) /\ EndsCommand(rd.line)' = EndsCommand(rd'.line)
      /\ HasEnd(inbound)' = HasEnd(inbound') /\ HasEnd(rx)' = HasEnd(rx')
      /\ OneEnd(inbound)' = OneEnd(inbound') /\ OneEnd(rx)' = OneEnd(rx')
      /\ EndsFor(inbound, cur)' = EndsFor(inbound', cur) /\ EndsFor(rx, cur)' = EndsFor(rx', cur)
  BY <1>2 DEF EndsCommand, HasEnd, OneEnd, EndsFor
<1>4. CASE ReadScan
  <2>1. /\ rx # <<>> /\ rx' = Tail(rx) /\ rd'.line = Head(rx) /\ rd'.seen = state /\ ~EndsCommand(rd.line)
        /\ UNCHANGED <<state, inbound, late>>
    BY <1>1, <1>4 DEF ReadScan
  <2>2. /\ HasEnd(rx) <=> EndsCommand(Head(rx)) \/ HasEnd(rx')
        /\ OneEnd(rx) => OneEnd(rx') /\ ~(EndsCommand(Head(rx)) /\ HasEnd(rx'))
        /\ EndsFor(rx, cur) => EndsFor(rx', cur) /\ (EndsCommand(Head(rx)) => Head(rx).for = cur)
    BY <1>1, <2>1, EndsTail
  <2>3. Dormant' /\ Seen'
    BY <1>2, <2>1 DEF Dormant, Seen
  <2>4. Booting' /\ OneReply' /\ Matched'
    BY <1>2, <1>3, <2>1, <2>2 DEF Booting, OneReply, Matched, NoReply
  <2> QED BY <2>3, <2>4
<1>5. CASE ReadConnected
  <2>1. /\ rd'.line = NoLine /\ rd'.seen = "none" /\ UNCHANGED <<state, rx, late>> /\ state = "Connected"
        /\ rd.line \in Lines
        /\ inbound' = Append(inbound, rd.line) \/ inbound' = inbound
    BY <1>1, <1>5, LineFacts DEF ReadConnected, Seen, TypeOK, LoopType
  <2>2. /\ HasEnd(inbound') => HasEnd(inbound) \/ EndsCommand(rd.line)
        /\ OneEnd(inbound) /\ ~(HasEnd(inbound) /\ EndsCommand(rd.line)) => OneEnd(inbound')
        /\ EndsFor(inbound, cur) /\ (EndsCommand(rd.line) => rd.line.for = cur) => EndsFor(inbound', cur)
    <3>1. CASE inbound' = inbound
      BY <3>1
    <3>2. CASE inbound' = Append(inbound, rd.line)
      BY <1>1, <2>1, <3>2, EndsAppend
    <3> QED BY <2>1, <3>1, <3>2
  <2>3. Dormant' /\ Seen'
    BY <1>2, <2>1 DEF Dormant, Seen
  <2>4. Booting' /\ OneReply' /\ Matched'
    BY <1>1, <1>2, <1>3, <2>1, <2>2 DEF Booting, OneReply, Matched, NoReply
  <2> QED BY <2>3, <2>4
<1>6. CASE ReadInitializing
  <2>1. /\ rd'.line = NoLine /\ rd'.seen = "none" /\ UNCHANGED <<inbound, rx, late>>
        /\ rd.seen = "Initializing"
        /\ state' = state \/ (state' = "Connected" /\ EndsCommand(rd.line))
    BY <1>1, <1>6 DEF ReadInitializing, EndsCommand
  <2>2. Dormant' /\ Booting' /\ OneReply'
    BY <1>1, <1>2, <1>3, <2>1 DEF Dormant, Booting, OneReply, TypeOK, LoopType
  <2>3. ~late => state = "Initializing" /\ ~EndsCommand(got) /\ ~HasEnd(inbound) /\ wire = <<>>
    BY <1>1, <2>1 DEF Seen, Dormant, HasEnd, Shape, Busy
  <2>4. ~late /\ EndsCommand(rd.line) => boot = "up" /\ ~HasEnd(rx)
    BY <2>1 DEF Booting, OneReply, TypeOK, PrinterType
  <2>5. Seen'
    BY <1>2, <2>1, <2>3, <2>4 DEF Seen
  <2>6. \A q, c : ~HasEnd(q) => EndsFor(q, c)
    BY DEF HasEnd, EndsFor
  <2>7. Matched'
    BY <1>1, <1>2, <1>3, <2>1, <2>3, <2>4, <2>6 DEF Matched, NoReply
  <2> QED BY <2>2, <2>5, <2>7
<1>7. CASE InitTimer
  <2>1. /\ UNCHANGED <<rd, inbound, rx>> /\ state = "Initializing" /\ state' = "Connected"
        /\ ~late' => ~late /\ boot = "up" /\ rx = <<>> /\ rd = NoRead /\ inbound = <<>>
    BY <1>7 DEF InitTimer, Quiet
  <2>2. Dormant' /\ Booting' /\ OneReply'
    BY <1>2, <1>3, <2>1 DEF Dormant, Booting, OneReply
  <2>3. Seen'
    BY <1>1, <1>2, <2>1 DEF Seen
  <2>4. ~EndsCommand(got) /\ wire = <<>>
    BY <1>1, <2>1 DEF Dormant, Shape, Busy
  <2>5. ~HasEnd(<<>>) /\ \A q, c : ~HasEnd(q) => EndsFor(q, c)
    BY DEF HasEnd, EndsFor
  <2>6. Matched'
    BY <1>1, <1>2, <1>3, <2>1, <2>4, <2>5 DEF Matched, NoReply
  <2> QED BY <2>2, <2>3, <2>6
<1> QED BY <1>4, <1>5, <1>6, <1>7

\* The printer ends one command at a time, the one it was given.
LEMMA PrinterPaired ==
  ASSUME LineInv, Printer
  PROVE  Paired'
<1> USE DEF LineInv, Paired, Printer, callVars, queueVars, writerVars, readerVars, printerVars, resetVars
<1>1. UNCHANGED <<state, rd, inbound, got, cur, wpc, cpc, sendQ, priorityQ, late>>
  BY DEF PrinterBoots, PrinterNotice, PrinterReplies, PrinterLoses
<1>2. rx \in Seq(Lines) /\ wire \in Seq(Commands)
  BY DEF TypeOK, PrinterType
<1>3. /\ EndsCommand(got)' = EndsCommand(got) /\ EndsCommand(rd.line)' = EndsCommand(rd.line)
      /\ HasEnd(inbound)' = HasEnd(inbound) /\ HasEnd(rx)' = HasEnd(rx')
      /\ OneEnd(inbound)' = OneEnd(inbound) /\ OneEnd(rx)' = OneEnd(rx')
      /\ EndsFor(inbound, cur)' = EndsFor(inbound, cur) /\ EndsFor(rx, cur)' = EndsFor(rx', cur)
  BY <1>1 DEF EndsCommand, HasEnd, OneEnd, EndsFor
<1>4. \A l \in Lines :
        /\ HasEnd(Append(rx, l)) <=> HasEnd(rx) \/ EndsCommand(l)
        /\ OneEnd(rx) /\ ~(HasEnd(rx) /\ EndsCommand(l)) => OneEnd(Append(rx, l))
        /\ EndsFor(rx, cur) /\ (EndsCommand(l) => l.for = cur) => EndsFor(Append(rx, l), cur)
  BY <1>2, EndsAppend
<1>5. CASE PrinterBoots
  <2>1. boot = "booting" /\ boot' = "up" /\ wire' = wire
    BY <1>5 DEF PrinterBoots
  <2>2. [kind |-> "ok", for |-> NoCmd] \in Lines
    BY LineFacts DEF Kinds
  <2>3. rx' = rx \/ rx' = Append(rx, [kind |-> "ok", for |-> NoCmd])
    BY <1>5 DEF PrinterBoots
  <2>4. ~late => state = "Initializing" /\ wire = <<>>
    BY <2>1 DEF Seen, Dormant, TypeOK, LoopType
  <2>5. Dormant' /\ Booting' /\ Seen' /\ Matched'
    BY <1>1, <2>1, <2>4 DEF Dormant, Booting, Seen, Matched, TypeOK, LoopType
  <2>6. OneEnd(rx) => OneEnd(rx')
    BY <1>4, <2>1, <2>2, <2>3 DEF Booting
  <2>7. OneReply'
    BY <1>1, <1>3, <2>1, <2>4, <2>6 DEF OneReply, Booting
  <2> QED BY <2>5, <2>7
<1>6. CASE PrinterNotice
  <2>1. boot' = boot /\ wire' = wire
    BY <1>6 DEF PrinterNotice
  <2>2. PICK l \in Lines : rx' = Append(rx, l) /\ ~EndsCommand(l)
    <3>1. PICK k \in Notices : rx' = Append(rx, [kind |-> k, for |-> NoCmd])
      BY <1>6 DEF PrinterNotice
    <3>2. [kind |-> k, for |-> NoCmd] \in Lines
      BY LineFacts
    <3>3. ~EndsCommand([kind |-> k, for |-> NoCmd])
      BY KindsAssumption DEF EndsCommand
    <3> QED BY <3>1, <3>2, <3>3
  <2>3. /\ HasEnd(rx') <=> HasEnd(rx)
        /\ OneEnd(rx) => OneEnd(rx')
        /\ EndsFor(rx, cur) => EndsFor(rx', cur)
    BY <1>4, <2>2
  <2>4. Dormant' /\ Seen' /\ Booting' /\ OneReply' /\ Matched'
    BY <1>1, <1>3, <2>1, <2>3 DEF Dormant, Seen, Booting, OneReply, Matched, NoReply
  <2> QED BY <2>4
<1>7. CASE PrinterReplies
  <2>1. boot = "up" /\ boot' = boot /\ wire # <<>> /\ wire' = Tail(wire)
    BY <1>7 DEF PrinterReplies
  <2>2. PICK l \in Lines : rx' = Append(rx, l) /\ l.for = Head(wire) /\ EndsCommand(l)
    <3>1. PICK k \in Terminals : rx' = Append(rx, [kind |-> k, for |-> Head(wire)])
      BY <1>7 DEF PrinterReplies
    <3>2. Head(wire) \in Commands
      BY <1>2, <2>1, InTail
    <3>3. [kind |-> k, for |-> Head(wire)] \in Lines
      BY <3>2, LineFacts
    <3>4. EndsCommand([kind |-> k, for |-> Head(wire)])
      BY KindsAssumption DEF EndsCommand
    <3> QED BY <3>1, <3>3, <3>4
  <2>3. state = "Connected"
    BY <2>1 DEF Dormant, TypeOK, LoopType
  <2>4. Len(wire) <= 1 => wire' = <<>>
    BY <1>2, <2>1
  <2>5. /\ HasEnd(rx')
        /\ OneEnd(rx) /\ ~HasEnd(rx) => OneEnd(rx')
        /\ EndsFor(rx, cur) /\ Head(wire) = cur => EndsFor(rx', cur)
    BY <1>4, <2>2
  <2>6. Dormant' /\ Seen' /\ Booting'
    BY <1>1, <2>1, <2>3 DEF Dormant, Seen, Booting
  <2>7. OneReply'
    BY <1>1, <1>3, <2>1, <2>4, <2>5 DEF OneReply
  <2>8. Matched'
    BY <1>1, <1>3, <2>1, <2>3, <2>4, <2>5 DEF OneReply, Matched, NoReply
  <2> QED BY <2>6, <2>7, <2>8
<1>8. CASE PrinterLoses
  <2>1. boot' = boot /\ wire # <<>> /\ wire' = Tail(wire) /\ rx' = rx
    BY <1>8 DEF PrinterLoses
  <2>2. state = "Connected" /\ (Len(wire) <= 1 => wire' = <<>>)
    BY <1>2, <2>1 DEF Dormant, TypeOK, LoopType
  <2>3. Dormant' /\ Seen' /\ Booting'
    BY <1>1, <1>3, <2>1, <2>2 DEF Dormant, Seen, Booting
  <2>4. OneReply'
    BY <1>1, <1>3, <2>1, <2>2, EmptySeq DEF OneReply
  <2>5. Matched'
    BY <1>1, <1>3, <2>1, <2>2 DEF OneReply, Matched, NoReply
  <2> QED BY <2>3, <2>4, <2>5
<1> QED BY <1>5, <1>6, <1>7, <1>8

LEMMA NextPaired == LineInv /\ [Next]_vars => LineInv'
<1> SUFFICES ASSUME LineInv, [Next]_vars PROVE Paired'
  BY NextType DEF LineInv
<1>1. CASE UNCHANGED vars
  <2>1. UNCHANGED <<state, inbound, rd, rx, got, wire, boot, cur, late, cpc, sendQ, priorityQ, wpc>>
    BY <1>1 DEF vars, callVars, queueVars, writerVars, readerVars, printerVars
  <2> QED BY <2>1, StillPaired DEF LineInv, Paired, Dormant
<1> QED BY <1>1, CallPaired, WriterPaired, ReaderPaired, PrinterPaired DEF Next, Finished

\* Until a timer expires before the printer is done, no line ends a command it does
\* not answer (the reply handling of writeLoop and readLoop).
THEOREM AckMatchesInTimeAlways == Spec => AckMatchesInTime
<1>1. ASSUME LineInv, [Next]_vars, NEW c \in Commands, Told(c), ~late
      PROVE  LineInHand.for = c
  <2> USE <1>1 DEF LineInv
  <2>1. answer' # answer /\ answer'[c] # answer[c] /\ answer'[c] \in {"nil", "error"}
    BY <1>1 DEF Told
  <2>2. WriteReply \/ WriteTemps
    <3>1. PortWriteFails \/ WriteTimeout => answer'[c] \in {answer[c], "unwritten", "timeout"}
      <4>1. ASSUME PortWriteFails \/ WriteTimeout
            PROVE  answer' = answer \/ \E a \in {"unwritten", "timeout"} : answer' = [answer EXCEPT ![cur] = a]
        BY <4>1 DEF PortWriteFails, WriteTimeout, Respond
      <4>2. answer \in [Commands -> {"none", "nil", "error", "timeout", "unwritten"}]
        BY DEF TypeOK, CallerType
      <4> QED BY <4>1, <4>2
    <3> QED BY <1>1, <2>1, <3>1 DEF Next, Call, CallSend, EnqueueSend, EnqueuePrio, Return, WriteLoop, WritePoll,
                WriteSelect, PortWrite, ReadLoop, ReadScan, ReadInitializing, ReadConnected, InitTimer,
                Reset, ResetBegin, ResetLen, ResetRecv, Printer, PrinterBoots, PrinterNotice, PrinterReplies,
                PrinterLoses, Finished, vars
  <2>3. state = "Connected"
    <3>1. wpc \in {"wait", "temps"}
      BY <2>2 DEF WriteReply, WriteTemps
    <3>2. state \in {"Initializing", "Connected"}
      BY DEF TypeOK, LoopType
    <3> QED BY <3>1, <3>2 DEF Paired, Dormant
  <2>4. c = cur /\ EndsCommand(LineInHand)
    <3>1. HandleLine(LineInHand)
      BY <2>1, <2>2 DEF WriteReply, WriteTemps, LineInHand
    <3>2. EndsCommand(LineInHand) /\ \E a \in {"nil", "error"} : answer' = [answer EXCEPT ![cur] = a]
      BY <2>1, <3>1 DEF HandleLine, Respond, Outcome
    <3>3. answer \in [Commands -> {"none", "nil", "error", "timeout", "unwritten"}]
      BY DEF TypeOK, CallerType
    <3> QED BY <2>1, <3>2, <3>3
  <2>5. CASE wpc = "temps"
    BY <1>1, <2>3, <2>4, <2>5 DEF LineInHand, Paired, Matched
  <2>6. CASE wpc # "temps"
    <3>1. inbound # <<>> /\ inbound \in Seq(Lines)
      <4>1. inbound # <<>>
        BY <2>2, <2>6 DEF WriteReply, WriteTemps
      <4>2. inbound \in Seq(Lines)
        BY DEF TypeOK, QueueType
      <4> QED BY <4>1, <4>2
    <3>2. EndsFor(inbound, cur)
      BY <1>1, <2>3 DEF Paired, Matched
    <3>3. Head(inbound).for = cur
      BY <2>4, <2>6, <3>1, <3>2, EndsTail DEF LineInHand
    <3> QED BY <2>4, <2>6, <3>3 DEF LineInHand
  <2> QED BY <2>5, <2>6
<1>2. LineInv /\ [Next]_vars => [\A c \in Commands : Told(c) => late \/ LineInHand.for = c]_vars
  BY <1>1
<1>3. Init => LineInv
  BY InitType, InitPaired DEF LineInv
<1> QED BY <1>2, <1>3, NextPaired, PTL DEF Spec, AckMatchesInTime
-----------------------------------------------------------------------------
(* What CommandService promises.                                           *)

\* The promises of CommandService, about the commands of SerialLink.
Promises == INSTANCE CommandServiceProofs WITH
  Commands <- Commands, issued <- IssuedSet, pending <- PendingSet, given <- given, answer <- answer

\* What comes through RespCh is true and stays true, for any callers, queues, timeouts
\* and resets: after nil, an error of the printer or a timeout the command was written
\* exactly once; after an error of port.Write it was not, and will not be.
THEOREM AnswersToCallers == Spec => []Service!AnswersAreTrue /\ Service!AnswersAreFinal
<1>1. Service!Init => Promises!Init
  BY DEF Service!Init, Promises!Init, IssuedSet, PendingSet, OnItsWay, Queued
<1>2. [Service!Next]_(Service!vars) => [Promises!Next]_(Promises!vars)
  BY DEF Service!Next, Promises!Next, Service!vars, Promises!vars, IssuedSet, PendingSet, OnItsWay, Queued,
     Service!Submit, Promises!Submit, Service!Give, Promises!Give, Service!Drop, Promises!Drop,
     Service!Reply, Promises!Reply
<1>3. Promises!AnswersAreTrue => Service!AnswersAreTrue
  BY DEF Promises!AnswersAreTrue, Service!AnswersAreTrue
<1>4. Promises!Spec => []Promises!AnswersAreTrue
  BY Promises!AnswersAreTrueAlways
<1>5. Promises!Spec => Promises!AnswersAreFinal
  BY Promises!AnswersAreFinalAlways
<1>6. Promises!AnswersAreFinal => Service!AnswersAreFinal
  BY DEF Promises!AnswersAreFinal, Service!AnswersAreFinal, Service!vars, Promises!vars,
     IssuedSet, PendingSet, OnItsWay, Queued
<1> QED
  BY <1>1, <1>2, <1>3, <1>4, <1>5, <1>6, ImplementsServiceAlways, PTL
     DEF ImplementsService, Service!Spec, Promises!Spec
=============================================================================
