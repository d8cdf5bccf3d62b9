----------------------------- MODULE SerialLink -----------------------------
(***************************************************************************)
(* The life of a G-code command inside the serial manager while one        *)
(* connection is up: the goroutines that submit commands (SendGcode,       *)
(* SendGcodePriority), the two command queues, writeLoop, the printer at   *)
(* the other end of the cable, readLoop and the inbound queue, and the     *)
(* ResetQueues request, which drains the queues while it holds sm.mu.      *)
(*                                                                         *)
(* Opening, losing and closing the port are the matter of another module:  *)
(* here the port is open, and the state is Initializing or Connected.      *)
(* Time is abstracted: a timer that runs may expire at any moment; the     *)
(* history variable late tells whether one did before the printer was done.*)
(***************************************************************************)
EXTENDS Naturals, Sequences

CONSTANTS
  SendCallers,   \* goroutines that call SendGcode(line, true)
  PrioCallers,   \* goroutines that call SendGcodePriority(line, wait)
  Casts,         \* the commands sent with wait = false
  SendCap,       \* capacity of sendQ (32 in Connect)
  PrioCap,       \* capacity of priorityQ (8)
  InboundCap,    \* capacity of inbound (128)
  Terminals,     \* the replies that end a command the printer may choose from
  Notices,       \* the lines that end no command the printer may choose from
  MaxCalls,      \* bound: the calls of each goroutine
  MaxUpsets      \* bound: resets, failed writes, lost commands, errors and notices

Callers == SendCallers \cup PrioCallers

ASSUME CallersAssumption ==
  /\ SendCallers \cap PrioCallers = {}
  /\ Casts \subseteq [from : PrioCallers, n : Nat]

ASSUME BoundsAssumption ==
  /\ SendCap \in Nat \ {0} /\ PrioCap \in Nat \ {0} /\ InboundCap \in Nat \ {0}
  /\ MaxCalls \in [Callers -> Nat] /\ MaxUpsets \in Nat

ASSUME KindsAssumption ==
  /\ Terminals \subseteq {"ok", "ok T:", "error", "Unknown"}
  /\ Notices \subseteq {"T:", "echo"}

\* GcodeCmd: the n-th command of a goroutine. Its text is abstracted away.
Commands == UNION {[from : {g}, n : 1 .. MaxCalls[g]] : g \in Callers}
NoCmd == [from |-> "nobody", n |-> 0]

\* RespCh is nil when no acknowledgement is expected.
Waits(c) == c \notin Casts

\* A line from the printer: its prefix, and the command it answers. The code
\* sees the prefix only; "for" is a history field.
Kinds == {"ok", "ok T:", "error", "Unknown", "T:", "echo"}
Lines == [kind : Kinds, for : Commands \cup {NoCmd}]
NoLine == [kind |-> "none", for |-> NoCmd]

EndsCommand(l) == l.kind \in {"ok", "ok T:", "error", "Unknown"}
CarriesTemps(l) == l.kind \in {"ok T:", "T:"}

VARIABLES
  state,      \* sm.state: Initializing or Connected
  sendQ, priorityQ, inbound,
  cpc,        \* where each calling goroutine is: idle, enqueue or await
  calls,      \* number of calls each goroutine has begun
  answer,     \* what was put in the RespCh of a command, "none" before
  wpc,        \* where writeLoop is
  cur,        \* writeLoop's cmd
  got,        \* writeLoop's line, while it waits for sm.mu to store temperatures
  rd,         \* readLoop's line and the state it read with it
  resetpc,    \* where the ResetQueues request is; not idle = it holds sm.mu
  resets,
  wire,       \* commands on the cable, the first of which the printer executes
  rx,         \* lines on the cable
  boot,       \* whether the printer still boots
  notices, faults,
  given,      \* history: how often each command was written to the port
  late,       \* history: a timer expired before the printer was done
  bypass      \* history: sendQ commands taken since priorityQ became non-empty

callVars    == <<cpc, calls>>
queueVars   == <<sendQ, priorityQ>>
writerVars  == <<wpc, cur, got>>
readerVars  == <<state, rd>>
printerVars == <<boot, notices>>
resetVars   == <<resetpc, resets>>
vars == <<callVars, queueVars, writerVars, readerVars, printerVars, resetVars,
          inbound, answer, wire, rx, faults, given, late, bypass>>

\* The rare events, which MaxUpsets bounds together.
Upsets == faults + resets + notices

MuFree == resetpc = "idle"

CmdOf(g) == [from |-> g, n |-> calls[g]]

\* cmd.RespCh <- err, on a channel made for this one command.
Respond(c, a) ==
  IF Waits(c) THEN /\ answer[c] = "none"      \* capacity 1: a second send blocks
                   /\ answer' = [answer EXCEPT ![c] = a]
              ELSE UNCHANGED answer

Outcome(l) == IF l.kind = "error" THEN "error" ELSE "nil"

NoRead == [line |-> NoLine, seen |-> "none"]

\* No line is on its way to writeLoop.
Quiet == rx = <<>> /\ rd = NoRead /\ inbound = <<>>

Init ==
  /\ state = "Initializing"
  /\ sendQ = <<>> /\ priorityQ = <<>> /\ inbound = <<>>
  /\ cpc = [g \in Callers |-> "idle"]
  /\ calls = [g \in Callers |-> 0]
  /\ answer = [c \in Commands |-> "none"]
  /\ wpc = "poll" /\ cur = NoCmd /\ got = NoLine
  /\ rd = NoRead
  /\ resetpc = "idle" /\ resets = 0
  /\ wire = <<>> /\ rx = <<>>
  /\ boot = "booting"
  /\ notices = 0 /\ faults = 0
  /\ given = [c \in Commands |-> 0]
  /\ late = FALSE
  /\ bypass = 0

-----------------------------------------------------------------------------
(* The calling goroutines.                                                 *)

\* WaitReady and the second look at the state, both under sm.mu, succeed. A
\* call that finds the printer still initializing after ten seconds returns an
\* error and changes nothing.
CallSend(g) ==
  /\ cpc[g] = "idle" /\ calls[g] < MaxCalls[g]
  /\ MuFree /\ state = "Connected"
  /\ calls' = [calls EXCEPT ![g] = @ + 1]
  /\ cpc' = [cpc EXCEPT ![g] = "enqueue"]
  /\ UNCHANGED <<queueVars, writerVars, readerVars, printerVars, resetVars,
                 inbound, answer, wire, rx, faults, given, late, bypass>>

\* sm.sendQ <- cmd blocks while the queue is full.
EnqueueSend(g) ==
  /\ g \in SendCallers /\ cpc[g] = "enqueue"
  /\ Len(sendQ) < SendCap
  /\ sendQ' = Append(sendQ, CmdOf(g))
  /\ cpc' = [cpc EXCEPT ![g] = "await"]
  /\ UNCHANGED <<priorityQ, calls, writerVars, readerVars, printerVars, resetVars,
                 inbound, answer, wire, rx, faults, given, late, bypass>>

\* Mutant: no return when the queue is full.
EnqueuePrioAwaitsAnyway(g) ==
  /\ g \in PrioCallers /\ cpc[g] = "enqueue"
  /\ priorityQ' = IF Len(priorityQ) < PrioCap THEN Append(priorityQ, CmdOf(g)) ELSE priorityQ
  /\ cpc' = [cpc EXCEPT ![g] = IF Waits(CmdOf(g)) THEN "await" ELSE "idle"]
  /\ UNCHANGED <<sendQ, calls, writerVars, readerVars, printerVars, resetVars,
                 inbound, answer, wire, rx, faults, given, late, bypass>>

\* Mutant: a queue without a limit.
EnqueuePrioUnbounded(g) ==
  /\ g \in PrioCallers /\ cpc[g] = "enqueue"
  /\ priorityQ' = Append(priorityQ, CmdOf(g))
  /\ cpc' = [cpc EXCEPT ![g] = IF Waits(CmdOf(g)) THEN "await" ELSE "idle"]
  /\ UNCHANGED <<sendQ, calls, writerVars, readerVars, printerVars, resetVars,
                 inbound, answer, wire, rx, faults, given, late, bypass>>

\* select on priorityQ with a default: a full queue drops the command.
EnqueuePrio(g) ==
  /\ g \in PrioCallers /\ cpc[g] = "enqueue"
  /\ \/ /\ Len(priorityQ) < PrioCap
        /\ priorityQ' = Append(priorityQ, CmdOf(g))
        /\ cpc' = [cpc EXCEPT ![g] = IF Waits(CmdOf(g)) THEN "await" ELSE "idle"]
     \/ /\ Len(priorityQ) = PrioCap
        /\ cpc' = [cpc EXCEPT ![g] = "idle"]
        /\ UNCHANGED priorityQ
  /\ UNCHANGED <<sendQ, calls, writerVars, readerVars, printerVars, resetVars,
                 inbound, answer, wire, rx, faults, given, late, bypass>>

\* return <-resp
Return(g) ==
  /\ cpc[g] = "await" /\ answer[CmdOf(g)] # "none"
  /\ cpc' = [cpc EXCEPT ![g] = "idle"]
  /\ UNCHANGED <<calls, queueVars, writerVars, readerVars, printerVars, resetVars,
                 inbound, answer, wire, rx, faults, given, late, bypass>>

-----------------------------------------------------------------------------
(* writeLoop.                                                              *)

\* Mutant: the command stays in the queue.
TakePriorityPeeks ==
  /\ priorityQ # <<>>
  /\ cur' = Head(priorityQ)
  /\ wpc' = "write"
  /\ bypass' = 0
  /\ UNCHANGED <<queueVars, got>>

TakePriority ==
  /\ priorityQ # <<>>
  /\ cur' = Head(priorityQ)
  /\ priorityQ' = Tail(priorityQ)
  /\ wpc' = "write"
  /\ bypass' = 0
  /\ UNCHANGED <<sendQ, got>>

TakeSend ==
  /\ sendQ # <<>>
  /\ cur' = Head(sendQ)
  /\ sendQ' = Tail(sendQ)
  /\ wpc' = "write"
  /\ bypass' = IF priorityQ = <<>> THEN 0 ELSE bypass + 1
  /\ UNCHANGED <<priorityQ, got>>

\* Mutant: no look at priorityQ before the fair select.
WritePollNoLook ==
  /\ wpc = "poll" /\ wpc' = "select"
  /\ UNCHANGED <<cur, got, queueVars, bypass, callVars, readerVars, printerVars, resetVars,
                 inbound, answer, wire, rx, faults, given, late>>

\* The outer select: priorityQ, or the default.
WritePoll ==
  /\ wpc = "poll"
  /\ \/ TakePriority
     \/ /\ priorityQ = <<>>
        /\ wpc' = "select"
        /\ UNCHANGED <<cur, got, queueVars, bypass>>
  /\ UNCHANGED <<callVars, readerVars, printerVars, resetVars,
                 inbound, answer, wire, rx, faults, given, late>>

\* The inner select: any queue that has a command.
WriteSelect ==
  /\ wpc = "select"
  /\ TakePriority \/ TakeSend
  /\ UNCHANGED <<callVars, readerVars, printerVars, resetVars,
                 inbound, answer, wire, rx, faults, given, late>>

\* Mutant: the command is sent again when nothing comes back.
PortWriteRepeats ==
  /\ wpc \in {"write", "wait"} /\ given[cur] < 2
  /\ wire' = Append(wire, cur)
  /\ given' = [given EXCEPT ![cur] = @ + 1]
  /\ wpc' = "wait"
  /\ UNCHANGED <<cur, got, callVars, queueVars, readerVars, printerVars, resetVars,
                 inbound, answer, rx, faults, late, bypass>>

PortWrite ==
  /\ wpc = "write"
  /\ wire' = Append(wire, cur)
  /\ given' = [given EXCEPT ![cur] = @ + 1]
  /\ wpc' = "wait"
  /\ UNCHANGED <<cur, got, callVars, queueVars, readerVars, printerVars, resetVars,
                 inbound, answer, rx, faults, late, bypass>>

\* Mutant: the loop goes on without telling the caller.
PortWriteFailsSilently ==
  /\ wpc = "write" /\ Upsets < MaxUpsets
  /\ faults' = faults + 1
  /\ wpc' = "poll" /\ cur' = NoCmd
  /\ UNCHANGED <<got, callVars, queueVars, readerVars, printerVars, resetVars,
                 answer, inbound, wire, rx, given, late, bypass>>

PortWriteFails ==
  /\ wpc = "write" /\ Upsets < MaxUpsets
  /\ faults' = faults + 1
  /\ Respond(cur, "unwritten")
  /\ wpc' = "poll" /\ cur' = NoCmd
  /\ UNCHANGED <<got, callVars, queueVars, readerVars, printerVars, resetVars,
                 inbound, wire, rx, given, late, bypass>>

\* The switch on the reply: a terminal line answers cmd and ends the wait.
HandleLine(l) ==
  IF EndsCommand(l)
  THEN /\ Respond(cur, Outcome(l))
       /\ wpc' = "poll" /\ cur' = NoCmd
  ELSE /\ wpc' = "wait"
       /\ UNCHANGED <<cur, answer>>

\* A line with temperatures is stored under sm.mu before the switch.
WriteReply ==
  /\ wpc = "wait" /\ inbound # <<>>
  /\ inbound' = Tail(inbound)
  /\ IF CarriesTemps(Head(inbound))
     THEN /\ wpc' = "temps" /\ got' = Head(inbound)
          /\ UNCHANGED <<cur, answer>>
     ELSE /\ HandleLine(Head(inbound))
          /\ UNCHANGED got
  /\ UNCHANGED <<callVars, queueVars, readerVars, printerVars, resetVars,
                 wire, rx, faults, given, late, bypass>>

WriteTemps ==
  /\ wpc = "temps" /\ MuFree
  /\ HandleLine(got)
  /\ got' = NoLine
  /\ UNCHANGED <<callVars, queueVars, readerVars, printerVars, resetVars,
                 inbound, wire, rx, faults, given, late, bypass>>

\* Mutant: waiting = false is missing.
WriteTimeoutGoesOn ==
  /\ wpc = "wait"
  /\ Respond(cur, "timeout")
  /\ inbound' = <<>>
  /\ UNCHANGED <<writerVars, callVars, queueVars, readerVars, printerVars, resetVars,
                 wire, rx, faults, given, late, bypass>>

\* The command timer expires: inbound is flushed, the caller gets "timeout".
WriteTimeout ==
  /\ wpc = "wait"
  /\ late' = (late \/ ~Quiet \/ wire # <<>>)
  /\ inbound' = <<>>
  /\ Respond(cur, "timeout")
  /\ wpc' = "poll" /\ cur' = NoCmd
  /\ UNCHANGED <<got, callVars, queueVars, readerVars, printerVars, resetVars,
                 wire, rx, faults, given, bypass>>

-----------------------------------------------------------------------------
(* readLoop and the initialization timer.                                  *)

\* Scan returns a line; the state is read once, under sm.mu.
ReadScan ==
  /\ rd = NoRead /\ rx # <<>> /\ MuFree
  /\ rd' = [line |-> Head(rx), seen |-> state]
  /\ rx' = Tail(rx)
  /\ UNCHANGED <<state, callVars, queueVars, writerVars, printerVars, resetVars,
                 inbound, answer, wire, faults, given, late, bypass>>

\* Mutant: without the "continue", the line goes to writeLoop too.
ReadInitializingFallsThrough ==
  /\ rd.seen = "Initializing" /\ MuFree
  /\ state' = IF rd.line.kind \in {"ok", "ok T:"} THEN "Connected" ELSE state
  /\ inbound' = IF Len(inbound) < InboundCap THEN Append(inbound, rd.line) ELSE inbound
  /\ rd' = NoRead
  /\ UNCHANGED <<callVars, queueVars, writerVars, printerVars, resetVars,
                 answer, wire, rx, faults, given, late, bypass>>

\* Lines read while initializing never reach writeLoop: they restart the timer,
\* and an "ok" ends the initialization.
ReadInitializing ==
  /\ rd.seen = "Initializing" /\ MuFree
  /\ state' = IF rd.line.kind \in {"ok", "ok T:"} THEN "Connected" ELSE state
  /\ rd' = NoRead
  /\ UNCHANGED <<callVars, queueVars, writerVars, printerVars, resetVars,
                 inbound, answer, wire, rx, faults, given, late, bypass>>

\* A full inbound queue drops the line.
ReadConnected ==
  /\ rd.seen = "Connected"
  /\ inbound' = IF Len(inbound) < InboundCap THEN Append(inbound, rd.line) ELSE inbound
  /\ rd' = NoRead
  /\ UNCHANGED <<state, callVars, queueVars, writerVars, printerVars, resetVars,
                 answer, wire, rx, faults, given, late, bypass>>

\* initTimer fires finishInitialization.
InitTimer ==
  /\ state = "Initializing" /\ MuFree
  /\ late' = (late \/ boot # "up" \/ ~Quiet)
  /\ state' = "Connected"
  /\ UNCHANGED <<rd, callVars, queueVars, writerVars, printerVars, resetVars,
                 inbound, answer, wire, rx, faults, given, bypass>>

-----------------------------------------------------------------------------
(* ResetQueues: drainQueue(sendQ), then drainQueue(priorityQ), under sm.mu. *)

ResetBegin ==
  /\ MuFree /\ Upsets < MaxUpsets
  /\ resets' = resets + 1
  /\ resetpc' = "lenSend"
  /\ UNCHANGED <<callVars, queueVars, writerVars, readerVars, printerVars,
                 inbound, answer, wire, rx, faults, given, late, bypass>>

\* for len(ch) > 0: the look at the length and the receive are two steps.
ResetLen ==
  /\ \/ /\ resetpc = "lenSend"
        /\ resetpc' = IF sendQ # <<>> THEN "recvSend" ELSE "lenPrio"
     \/ /\ resetpc = "lenPrio"
        /\ resetpc' = IF priorityQ # <<>> THEN "recvPrio" ELSE "idle"
  /\ UNCHANGED <<resets, callVars, queueVars, writerVars, readerVars, printerVars,
                 inbound, answer, wire, rx, faults, given, late, bypass>>

\* <-ch blocks when writeLoop took the last command in between.
ResetRecv ==
  /\ \/ /\ resetpc = "recvSend" /\ sendQ # <<>>
        /\ sendQ' = Tail(sendQ)
        /\ resetpc' = "lenSend"
        /\ UNCHANGED <<priorityQ, bypass>>
     \/ /\ resetpc = "recvPrio" /\ priorityQ # <<>>
        /\ priorityQ' = Tail(priorityQ)
        /\ resetpc' = "lenPrio"
        /\ bypass' = IF Tail(priorityQ) = <<>> THEN 0 ELSE bypass
        /\ UNCHANGED sendQ
  /\ UNCHANGED <<resets, callVars, writerVars, readerVars, printerVars,
                 inbound, answer, wire, rx, faults, given, late>>

-----------------------------------------------------------------------------
(* The printer (external).                                                 *)

\* Booting ends with an "ok", or silently.
PrinterBoots ==
  /\ boot = "booting"
  /\ boot' = "up"
  /\ \/ rx' = Append(rx, [kind |-> "ok", for |-> NoCmd])
     \/ UNCHANGED rx
  /\ UNCHANGED <<notices, callVars, queueVars, writerVars, readerVars, resetVars,
                 inbound, answer, wire, faults, given, late, bypass>>

PrinterNotice ==
  /\ Upsets < MaxUpsets
  /\ notices' = notices + 1
  /\ \E k \in Notices : rx' = Append(rx, [kind |-> k, for |-> NoCmd])
  /\ UNCHANGED <<boot, callVars, queueVars, writerVars, readerVars, resetVars,
                 inbound, answer, wire, faults, given, late, bypass>>

\* The printer executes the commands on the cable in turn, one reply for each.
PrinterReplies ==
  /\ boot = "up" /\ wire # <<>>
  /\ \E k \in Terminals :
       /\ k = "error" => Upsets < MaxUpsets
       /\ faults' = IF k = "error" THEN faults + 1 ELSE faults
       /\ rx' = Append(rx, [kind |-> k, for |-> Head(wire)])
  /\ wire' = Tail(wire)
  /\ UNCHANGED <<printerVars, callVars, queueVars, writerVars, readerVars, resetVars,
                 inbound, answer, given, late, bypass>>

\* The command, or the reply to it, is lost on the cable.
PrinterLoses ==
  /\ wire # <<>> /\ Upsets < MaxUpsets
  /\ faults' = faults + 1
  /\ wire' = Tail(wire)
  /\ UNCHANGED <<printerVars, callVars, queueVars, writerVars, readerVars, resetVars,
                 inbound, answer, rx, given, late, bypass>>

-----------------------------------------------------------------------------

Call == \E g \in Callers : CallSend(g) \/ EnqueueSend(g) \/ EnqueuePrio(g) \/ Return(g)
WriteLoop == \/ WritePoll \/ WriteSelect \/ PortWrite \/ PortWriteFails
             \/ WriteReply \/ WriteTemps \/ WriteTimeout
ReadLoop == ReadScan \/ ReadInitializing \/ ReadConnected
Reset == ResetBegin \/ ResetLen \/ ResetRecv
Printer == PrinterBoots \/ PrinterNotice \/ PrinterReplies \/ PrinterLoses

\* Every goroutine has made its calls and got its answers: the bounds are used up.
Finished ==
  /\ \A g \in Callers : cpc[g] = "idle" /\ calls[g] = MaxCalls[g]
  /\ wpc = "select" /\ sendQ = <<>> /\ priorityQ = <<>>
  /\ UNCHANGED vars

Next == Call \/ WriteLoop \/ ReadLoop \/ InitTimer \/ Reset \/ Printer \/ Finished

Spec == Init /\ [][Next]_vars

\* The callers, writeLoop with its timers and a reset that has begun run on.
\* Nothing else has to happen: the printer may fall silent, and readLoop stop.
Fairness ==
  /\ \A g \in Callers : WF_vars(EnqueueSend(g) \/ EnqueuePrio(g) \/ Return(g))
  /\ WF_vars(WritePoll \/ WriteSelect \/ PortWrite \/ WriteReply \/ WriteTemps \/ WriteTimeout)
  /\ WF_vars(ResetLen \/ ResetRecv)

FairSpec == Spec /\ Fairness

-----------------------------------------------------------------------------
(* Properties.                                                             *)

QueueType ==
  /\ sendQ \in Seq(Commands) /\ Len(sendQ) <= SendCap
  /\ priorityQ \in Seq(Commands) /\ Len(priorityQ) <= PrioCap
  /\ inbound \in Seq(Lines) /\ Len(inbound) <= InboundCap
  /\ resetpc \in {"idle", "lenSend", "recvSend", "lenPrio", "recvPrio"}
  /\ resets \in 0 .. MaxUpsets

CallerType ==
  /\ cpc \in [Callers -> {"idle", "enqueue", "await"}]
  /\ calls \in [Callers -> Nat] /\ \A g \in Callers : calls[g] <= MaxCalls[g]
  /\ answer \in [Commands -> {"none", "nil", "error", "timeout", "unwritten"}]

LoopType ==
  /\ state \in {"Initializing", "Connected"}
  /\ wpc \in {"poll", "select", "write", "wait", "temps"}
  /\ cur \in Commands \cup {NoCmd}
  /\ got \in Lines \cup {NoLine}
  /\ rd \in [line : Lines, seen : {"Initializing", "Connected"}] \cup {NoRead}

PrinterType ==
  /\ wire \in Seq(Commands) /\ rx \in Seq(Lines)
  /\ boot \in {"booting", "up"}
  /\ notices \in 0 .. MaxUpsets /\ faults \in 0 .. MaxUpsets

HistoryType ==
  /\ given \in [Commands -> Nat]
  /\ bypass \in Nat /\ late \in BOOLEAN

\* Every variable keeps its type, and no channel exceeds its capacity.
TypeOK == QueueType /\ CallerType /\ LoopType /\ PrinterType /\ HistoryType

InSeq(c, q) == \E i \in 1 .. Len(q) : q[i] = c

WasGiven(c) == given[c] > 0

\* The commands of one goroutine reach the printer in the order of its calls,
\* and none reaches it twice, whatever lane they take and whatever is dropped.
CallerOrder ==
  [][\A c, d \in Commands :
       given'[c] > given[c] /\ d.from = c.from /\ d.n >= c.n => given[d] = 0]_vars

\* writeLoop never blocks on cmd.RespCh: while it holds a command that has one,
\* the caller of that very command waits for its first and only answer.
WriterHasCaller ==
  cur # NoCmd /\ Waits(cur) =>
    /\ answer[cur] = "none"
    /\ cpc[cur.from] = "await" /\ CmdOf(cur.from) = cur

\* A caller that waits without an answer is still queued or held by writeLoop.
\* Only a queue reset makes the program forget one, and never one whose
\* command was written to the port.
NoWaiterForgotten ==
  \A g \in Callers :
    cpc[g] = "await" /\ answer[CmdOf(g)] = "none" =>
      \/ InSeq(CmdOf(g), sendQ) \/ InSeq(CmdOf(g), priorityQ) \/ cur = CmdOf(g)
      \/ resets > 0 /\ ~WasGiven(CmdOf(g))

\* "prioridad primero" (docs/architecture.md:22), as far as the code keeps it:
\* while a priority command waits, writeLoop takes at most one command from
\* sendQ, the one that won the inner select.
PriorityBypass == bypass <= 1

\* The line writeLoop acts on, and whether a command is now answered by one.
LineInHand == IF wpc = "temps" THEN got ELSE Head(inbound)
Told(c) == answer[c] = "none" /\ answer'[c] \in {"nil", "error"}

\* "ACK correcto" (docs/architecture.md:23), as far as the code keeps it: until
\* a timer expires before the printer is done, no reply, greeting or notice
\* ends a command it does not answer. After that a late reply ends the next
\* command, because nothing in a reply tells which command it is for.
AckMatchesInTime == [][\A c \in Commands : Told(c) => late \/ LineInHand.for = c]_vars

\* Every call that queued its command returns, if no reset drains the queues.
CallsReturn == \A g \in Callers : []<>(cpc[g] = "idle" \/ resets > 0)

Service == INSTANCE CommandService WITH
  Commands <- Commands,
  issued <- {c \in Commands : c.n <= calls[c.from]},
  pending <- {c \in Commands :
                \/ cpc[c.from] = "enqueue" /\ c = CmdOf(c.from)
                \/ InSeq(c, sendQ) \/ InSeq(c, priorityQ)
                \/ wpc = "write" /\ cur = c},
  given <- given,
  answer <- answer

\* SerialLink implements CommandService: at most one write per command, at most
\* one answer, and a nil, error or timeout answer only after the write.
ImplementsService == Service!Spec
=============================================================================
