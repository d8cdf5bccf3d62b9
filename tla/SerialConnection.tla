-------------------------- MODULE SerialConnection --------------------------
(***************************************************************************)
(* Connections of the serial manager: Connect from the web API and from    *)
(* the autoconnect goroutine, the timers and lines that end the            *)
(* initialization, the three loops that every connection starts, Disconnect *)
(* with its single stop token, and ports that fail to open or go away.     *)
(*                                                                         *)
(* A handle is the n-th port that openFn returned; it also names the loops *)
(* and the channels that its connection made. Commands are anonymous: only *)
(* the M105 of tempLoop is queued, and a reply may come at any time.       *)
(* readLoop has bound its scanner to the port when it starts, and sync.Once *)
(* is a flag.                                                              *)
(***************************************************************************)
EXTENDS Naturals, FiniteSets

CONSTANTS
  Ports,          \* the serial devices of the machine
  Users,          \* HTTP requests to connect
  AutoConnect,    \* the goroutine of initAutoConnect
  QueueCap,       \* capacity of priorityQ
  MaxOpens,       \* bound: ports opened
  MaxDisconnects, \* bound: disconnect requests that are not ignored
  BootLines,      \* what the printer may print: "ok", or anything else
  MaxEvents       \* bound: lines of the printer, opens that fail, cables unplugged

ASSUME ConnectionAssumption ==
  /\ AutoConnect \notin Users
  /\ QueueCap \in Nat \ {0} /\ MaxOpens \in Nat
  /\ MaxDisconnects \in Nat /\ MaxEvents \in Nat
  /\ BootLines \subseteq {"ok", "start"}

Connectors == Users \cup {AutoConnect}
Handles == 1 .. MaxOpens
NoHandle == 0     \* a nil port, and the channels that New made

VARIABLES
  state, port,
  chans,      \* the handle whose connection made sm.sendQ, sm.stopCh...
  cpc, mine,  \* where each Connect is, and the port it has opened
  opens,      \* handles used so far
  open,       \* handles that are open
  device,     \* the serial device of each handle
  lost,       \* handles whose cable was unplugged
  stopping,   \* Disconnect sends its token, and holds sm.mu meanwhile
  disconnects,
  initDone,   \* sm.initDone
  initTimer,  \* the timer sm.initTimer points to: whose it is, and does it run
  armed,      \* how many timers each connection has running
  wpc, wch,   \* writeLoop of each handle, and the channels of its select, if it is in one
  rpc, rx,    \* readLoop of each handle, and the line it is about to read
  tpc,        \* tempLoop of each handle
  queued,     \* commands in the priorityQ of each connection
  events,
  crashed,    \* history: Write was called on a nil port
  overtaken,  \* history: connections whose stop token missed their writeLoop
  hasty       \* history: a Connect came while the printer initialized

managerVars == <<state, port, chans, stopping, disconnects>>
connectVars == <<cpc, mine, opens, open, device>>
cableVars   == <<lost, events, rx>>
timerVars   == <<initDone, initTimer, armed>>
loopVars    == <<wpc, wch, rpc, tpc, queued, crashed>>
historyVars == <<overtaken, hasty>>
vars == <<managerVars, connectVars, cableVars, timerVars, loopVars, historyVars>>

MuFree == ~stopping

Init ==
  /\ state = "Disconnected" /\ port = NoHandle /\ chans = NoHandle
  /\ cpc = [c \in Connectors |-> "idle"]
  /\ mine = [c \in Connectors |-> NoHandle]
  /\ opens = 0 /\ open = {} /\ lost = {}
  /\ device \in [Handles -> Ports]     \* chosen when the port is opened
  /\ stopping = FALSE /\ disconnects = 0
  /\ initDone = FALSE
  /\ initTimer = [of |-> NoHandle, on |-> FALSE]
  /\ armed = [h \in Handles |-> 0]
  /\ wpc = [h \in Handles |-> "none"] /\ wch = [h \in Handles |-> NoHandle]
  /\ rpc = [h \in Handles |-> "none"] /\ rx = [h \in Handles |-> "none"]
  /\ tpc = [h \in Handles |-> "none"]
  /\ queued = [h \in Handles \cup {NoHandle} |-> 0]
  /\ events = 0
  /\ crashed = FALSE
  /\ overtaken = {} /\ hasty = FALSE

-----------------------------------------------------------------------------
(* Connect.                                                                *)

\* One tick of initAutoConnect: the state is read, and Connect called later.
AutoLook ==
  /\ cpc[AutoConnect] = "idle" /\ MuFree
  /\ \E next \in {"seen", "gone"} :   \* gone: autoConnect was switched off
       /\ next = "seen" => state = "Disconnected"
       /\ cpc' = [cpc EXCEPT ![AutoConnect] = next]
  /\ UNCHANGED <<managerVars, mine, opens, open, device, cableVars, timerVars,
                 loopVars, historyVars>>

Begins(c, ignored) ==
  /\ cpc[c] = (IF c = AutoConnect THEN "seen" ELSE "idle")
  /\ MuFree
  /\ IF state \in ignored
     THEN /\ c = AutoConnect  \* "connected": autoconnect is done
          /\ cpc' = [cpc EXCEPT ![c] = "gone"]
          /\ UNCHANGED <<state, hasty>>
     ELSE /\ state' = "Connecting"
          /\ hasty' = (hasty \/ state = "Initializing")
          /\ cpc' = [cpc EXCEPT ![c] = "opening"]
  /\ UNCHANGED <<port, chans, stopping, disconnects, mine, opens, open, device,
                 cableVars, timerVars, loopVars, overtaken>>

\* Mutant: a Connect while connected is not ignored.
ConnectBeginsConnected(c) == Begins(c, {"Connecting"})

\* A Connect is ignored while another one opens the port or is complete.
ConnectBegins(c) == Begins(c, {"Connected", "Connecting"})

\* openFn fails: the port is busy, missing or refused. sm.port stays.
OpenFails(c) ==
  /\ cpc[c] = "opening" /\ MuFree
  /\ \/ open # {} /\ UNCHANGED events
     \/ events < MaxEvents /\ events' = events + 1
  /\ state' = "Error"
  /\ cpc' = [cpc EXCEPT ![c] = "idle"]
  /\ UNCHANGED <<port, chans, stopping, disconnects, mine, opens, open, device,
                 lost, rx, timerVars, loopVars, historyVars>>

\* openFn succeeds on a device nobody has open; port, state and the channels
\* are set under sm.mu.
Opens(c) ==
  /\ cpc[c] = "opening" /\ MuFree /\ opens < MaxOpens
  /\ LET h == opens + 1 IN
     /\ \A k \in open : device[k] # device[h]
     /\ opens' = h
     /\ open' = open \cup {h}
     /\ mine' = [mine EXCEPT ![c] = h]
     /\ port' = h /\ chans' = h
  /\ state' = "Initializing"
  /\ cpc' = [cpc EXCEPT ![c] = "spawn"]
  /\ UNCHANGED <<stopping, disconnects, device, cableVars, timerVars, loopVars, historyVars>>

\* go writeLoop, readLoop, tempLoop
Spawns(c) ==
  /\ cpc[c] = "spawn"
  /\ cpc' = [cpc EXCEPT ![c] = "once"]
  /\ wpc' = [wpc EXCEPT ![mine[c]] = "top"]
  /\ rpc' = [rpc EXCEPT ![mine[c]] = "poll"]
  /\ tpc' = [tpc EXCEPT ![mine[c]] = "poll"]
  /\ UNCHANGED <<managerVars, mine, opens, open, device, cableVars, timerVars,
                 wch, queued, crashed, historyVars>>

\* Mutant: initDone is made once, in New.
KeepsOnce(c) ==
  /\ cpc[c] = "once"
  /\ cpc' = [cpc EXCEPT ![c] = "arm"]
  /\ UNCHANGED <<managerVars, mine, opens, open, device, cableVars, timerVars,
                 loopVars, historyVars>>

\* sm.initDone = sync.Once{}, after the loops have started and without sm.mu.
ResetsOnce(c) ==
  /\ cpc[c] = "once"
  /\ initDone' = FALSE
  /\ cpc' = [cpc EXCEPT ![c] = "arm"]
  /\ UNCHANGED <<managerVars, mine, opens, open, device, cableVars, initTimer, armed,
                 loopVars, historyVars>>

\* sm.initTimer = time.AfterFunc(...): the timer it pointed to runs on.
Arms(c) ==
  /\ cpc[c] = "arm" /\ MuFree
  /\ initTimer' = [of |-> mine[c], on |-> TRUE]
  /\ armed' = [armed EXCEPT ![mine[c]] = @ + 1]
  /\ mine' = [mine EXCEPT ![c] = NoHandle]
  /\ cpc' = [cpc EXCEPT ![c] = IF c = AutoConnect THEN "gone" ELSE "idle"]
  /\ UNCHANGED <<managerVars, opens, open, device, cableVars, initDone,
                 loopVars, historyVars>>

-----------------------------------------------------------------------------
(* Disconnect.                                                             *)

DisconnectBegins ==
  /\ MuFree /\ state = "Connected" /\ port # NoHandle
  /\ disconnects < MaxDisconnects
  /\ disconnects' = disconnects + 1
  /\ stopping' = TRUE
  /\ UNCHANGED <<state, port, chans, connectVars, cableVars, timerVars, loopVars, historyVars>>

ClosedFrame == UNCHANGED <<chans, disconnects, cpc, mine, opens, device, cableVars,
                           timerVars, queued, crashed>>

\* Mutant: the port stays in sm.port.
ClosedKeepsPort ==
  /\ open' = open \ {port} /\ UNCHANGED port
  /\ state' = "Disconnected" /\ stopping' = FALSE
  /\ ClosedFrame

\* The rest of Disconnect.
Closed ==
  /\ open' = open \ {port} /\ port' = NoHandle
  /\ state' = "Disconnected" /\ stopping' = FALSE
  /\ ClosedFrame

\* Mutant: the port is closed without the token.
ClosesUnstopped ==
  /\ stopping
  /\ Closed
  /\ UNCHANGED <<wpc, wch, rpc, tpc, historyVars>>

Listening(h) == wpc[h] \in {"select", "wait"} /\ wch[h] = chans

\* stopCh has no buffer: a writeLoop blocked in a select on it gets the token
\* first. readLoop and tempLoop only look whether there is one. A port that
\* Close leaves behind may still have a line in the buffer of its scanner.
StopsOne ==
  /\ stopping
  /\ Closed
  /\ \/ /\ \E h \in Handles : /\ Listening(h)
                              /\ wpc' = [wpc EXCEPT ![h] = "ended"]
                              /\ wch' = [wch EXCEPT ![h] = NoHandle]
        /\ UNCHANGED <<rpc, tpc>>
     \/ /\ \A h \in Handles : ~Listening(h)
        /\ \/ /\ \E h \in Handles : rpc[h] = "poll" /\ rpc' = [rpc EXCEPT ![h] = "ended"]
              /\ UNCHANGED tpc
           \/ /\ \E h \in Handles : tpc[h] = "poll" /\ tpc' = [tpc EXCEPT ![h] = "ended"]
              /\ UNCHANGED rpc
        /\ UNCHANGED <<wpc, wch>>
  /\ overtaken' = IF wpc'[chans] = "ended" THEN overtaken ELSE overtaken \cup {chans}
  /\ UNCHANGED hasty

-----------------------------------------------------------------------------
(* The end of the initialization.                                          *)

\* finishInitialization does not know whose line or timer it is called for.
Finish ==
  IF state = "Initializing" /\ ~initDone
  THEN /\ state' = "Connected" /\ initDone' = TRUE
  ELSE UNCHANGED <<state, initDone>>

TimerFires(h) ==
  /\ armed[h] > 0 /\ MuFree
  /\ armed' = [armed EXCEPT ![h] = @ - 1]
  /\ \/ /\ initTimer = [of |-> h, on |-> TRUE]
        /\ initTimer' = [of |-> NoHandle, on |-> FALSE]
     \/ /\ initTimer = [of |-> h, on |-> TRUE] => armed[h] > 1
        /\ UNCHANGED initTimer
  /\ Finish
  /\ UNCHANGED <<port, chans, stopping, disconnects, connectVars, cableVars, loopVars, historyVars>>

-----------------------------------------------------------------------------
(* writeLoop. A select is on the channels sm has when it is entered.       *)

LoopFrame == UNCHANGED <<managerVars, connectVars, timerVars, historyVars>>

WriteEnters(h) ==
  /\ wpc[h] = "top"
  /\ wpc' = [wpc EXCEPT ![h] = "select"]
  /\ wch' = [wch EXCEPT ![h] = chans]
  /\ LoopFrame /\ UNCHANGED <<cableVars, rpc, tpc, queued, crashed>>

WriteTakes(h) ==
  /\ wpc[h] = "select" /\ queued[wch[h]] > 0
  /\ queued' = [queued EXCEPT ![wch[h]] = @ - 1]
  /\ wpc' = [wpc EXCEPT ![h] = "write"]
  /\ wch' = [wch EXCEPT ![h] = NoHandle]
  /\ LoopFrame /\ UNCHANGED <<cableVars, rpc, tpc, crashed>>

\* sm.port is read without sm.mu; a failed write is reported to the caller.
PortWrite(h) ==
  /\ wpc[h] = "write"
  /\ crashed' = (port = NoHandle)
  /\ IF port \in open \ lost
     THEN wpc' = [wpc EXCEPT ![h] = "wait"] /\ wch' = [wch EXCEPT ![h] = chans]
     ELSE wpc' = [wpc EXCEPT ![h] = "top"] /\ UNCHANGED wch
  /\ LoopFrame /\ UNCHANGED <<cableVars, rpc, tpc, queued>>

\* Mutant: a timeout ends the loop.
WriteTimeoutReturns(h) ==
  /\ wpc[h] = "wait"
  /\ wpc' = [wpc EXCEPT ![h] = "ended"]
  /\ LoopFrame /\ UNCHANGED <<cableVars, wch, rpc, tpc, queued, crashed>>

\* The reply that ends the command arrives, or its timer expires.
WriteEnds(h) ==
  /\ wpc[h] = "wait"
  /\ wpc' = [wpc EXCEPT ![h] = "top"] /\ wch' = [wch EXCEPT ![h] = NoHandle]
  /\ LoopFrame /\ UNCHANGED <<cableVars, rpc, tpc, queued, crashed>>

\* A line with temperatures: they are stored under sm.mu.
WriteTemps(h) ==
  /\ \/ /\ wpc[h] = "wait"
        /\ wpc' = [wpc EXCEPT ![h] = "temps"] /\ wch' = [wch EXCEPT ![h] = NoHandle]
     \/ /\ wpc[h] = "temps" /\ MuFree
        /\ \/ wpc' = [wpc EXCEPT ![h] = "top"] /\ UNCHANGED wch
           \/ wpc' = [wpc EXCEPT ![h] = "wait"] /\ wch' = [wch EXCEPT ![h] = chans]
  /\ LoopFrame /\ UNCHANGED <<cableVars, rpc, tpc, queued, crashed>>

-----------------------------------------------------------------------------
(* readLoop and tempLoop.                                                  *)

\* The select on stopCh has a default; a token that waits is always taken.
ReadEnters(h) ==
  /\ rpc[h] = "poll" /\ ~stopping
  /\ rpc' = [rpc EXCEPT ![h] = "scan"]
  /\ LoopFrame /\ UNCHANGED <<cableVars, wpc, wch, tpc, queued, crashed>>

\* Mutant: a failed Scan starts over.
ReadEndsNever(h) ==
  /\ rpc[h] = "scan" /\ rx[h] = "none" /\ h \notin open \ lost
  /\ rpc' = [rpc EXCEPT ![h] = "poll"]
  /\ LoopFrame /\ UNCHANGED <<cableVars, wpc, wch, tpc, queued, crashed>>

\* Scan returns false when the port was closed or went away.
ReadEnds(h) ==
  /\ rpc[h] = "scan" /\ rx[h] = "none" /\ h \notin open \ lost
  /\ rpc' = [rpc EXCEPT ![h] = "ended"]
  /\ LoopFrame /\ UNCHANGED <<cableVars, wpc, wch, tpc, queued, crashed>>

\* A line: the state is read under sm.mu, and a line read while connected is
\* handed to writeLoop.
ReadLooks(h) ==
  /\ rpc[h] = "scan" /\ rx[h] # "none" /\ MuFree
  /\ IF state = "Initializing"
     THEN rpc' = [rpc EXCEPT ![h] = "handle"] /\ UNCHANGED rx
     ELSE rpc' = [rpc EXCEPT ![h] = "poll"] /\ rx' = [rx EXCEPT ![h] = "none"]
  /\ LoopFrame /\ UNCHANGED <<lost, events, wpc, wch, tpc, queued, crashed>>

\* resetInitTimer stops the timer sm.initTimer points to and starts another;
\* an "ok" ends the initialization.
ReadHandles(h) ==
  /\ rpc[h] = "handle" /\ MuFree
  /\ LET stopped == IF initTimer.on THEN [armed EXCEPT ![initTimer.of] = @ - 1] ELSE armed
     IN  armed' = [stopped EXCEPT ![h] = @ + 1]
  /\ initTimer' = [of |-> h, on |-> TRUE]
  /\ IF rx[h] = "ok" THEN Finish ELSE UNCHANGED <<state, initDone>>
  /\ rpc' = [rpc EXCEPT ![h] = "poll"]
  /\ rx' = [rx EXCEPT ![h] = "none"]
  /\ UNCHANGED <<port, chans, stopping, disconnects, connectVars, lost, events,
                 wpc, wch, tpc, queued, crashed, historyVars>>

\* IsConnected and WaitReady, then the non-blocking send on sm.priorityQ.
TempPolls(h) ==
  /\ \/ /\ tpc[h] = "poll" /\ ~stopping
        /\ tpc' = [tpc EXCEPT ![h] = "check"]
        /\ UNCHANGED queued
     \/ /\ tpc[h] = "check" /\ MuFree
        /\ tpc' = [tpc EXCEPT ![h] = IF state = "Connected" THEN "push" ELSE "poll"]
        /\ UNCHANGED queued
     \/ /\ tpc[h] = "push"
        /\ tpc' = [tpc EXCEPT ![h] = "poll"]
        /\ queued' = [queued EXCEPT ![chans] = IF @ < QueueCap THEN @ + 1 ELSE @]
  /\ LoopFrame /\ UNCHANGED <<cableVars, wpc, wch, rpc, crashed>>

-----------------------------------------------------------------------------
(* The printer and the cable (external).                                   *)

\* A line counts from when Scan can return it; until then nobody sees it.
PrinterLine(h) ==
  /\ rpc[h] = "scan"
  /\ h \in open \ lost /\ rx[h] = "none" /\ events < MaxEvents
  /\ events' = events + 1
  /\ \E l \in BootLines : rx' = [rx EXCEPT ![h] = l]
  /\ UNCHANGED <<managerVars, connectVars, lost, timerVars, loopVars, historyVars>>

Unplug(h) ==
  /\ h \in open \ lost /\ events < MaxEvents
  /\ events' = events + 1
  /\ lost' = lost \cup {h}
  /\ UNCHANGED <<managerVars, connectVars, rx, timerVars, loopVars, historyVars>>

-----------------------------------------------------------------------------

Connect(c) ==
  ConnectBegins(c) \/ OpenFails(c) \/ Opens(c) \/ Spawns(c) \/ ResetsOnce(c) \/ Arms(c)

WriteLoop(h) ==
  WriteEnters(h) \/ WriteTakes(h) \/ PortWrite(h) \/ WriteEnds(h) \/ WriteTemps(h)

ReadLoop(h) == ReadEnters(h) \/ ReadEnds(h) \/ ReadLooks(h) \/ ReadHandles(h)

\* A write on a nil port ends the program.
Next ==
  /\ ~crashed
  /\ \/ AutoLook
     \/ \E c \in Connectors : Connect(c)
     \/ DisconnectBegins \/ StopsOne
     \/ \E h \in Handles :
          \/ TimerFires(h) \/ WriteLoop(h) \/ ReadLoop(h) \/ TempPolls(h)
          \/ PrinterLine(h) \/ Unplug(h)

Spec == Init /\ [][Next]_vars

\* The loops and Disconnect run on while they can. Nobody has to connect, to
\* disconnect or to print a line, and tempLoop may rest.
DisconnectRuns == WF_vars(~crashed /\ StopsOne)
WriteLoopRuns(h) == WF_vars(~crashed /\ (WriteEnters(h) \/ WriteTakes(h) \/ PortWrite(h)))
ReadLoopRuns(h) == WF_vars(~crashed /\ ReadLoop(h))
Fairness == DisconnectRuns /\ \A h \in Handles : WriteLoopRuns(h) /\ ReadLoopRuns(h)

FairSpec == Spec /\ Fairness

-----------------------------------------------------------------------------
(* Properties.                                                             *)

ManagerType ==
  /\ state \in {"Disconnected", "Connecting", "Initializing", "Connected", "Error"}
  /\ port \in {NoHandle, opens} \cup open /\ chans \in 0 .. opens
  /\ cpc \in [Connectors -> {"idle", "seen", "opening", "spawn", "once", "arm", "gone"}]
  /\ mine \in [Connectors -> 0 .. opens]
  /\ opens \in 0 .. MaxOpens /\ open \subseteq 1 .. opens /\ lost \subseteq 1 .. opens
  /\ stopping \in BOOLEAN /\ disconnects \in 0 .. MaxDisconnects

LoopsType ==
  /\ initDone \in BOOLEAN /\ crashed \in BOOLEAN
  /\ initTimer \in [of : 0 .. opens, on : BOOLEAN] /\ armed \in [Handles -> Nat]
  /\ wpc \in [Handles -> {"none", "top", "select", "write", "wait", "temps", "ended"}]
  /\ wch \in [Handles -> 0 .. opens]
  /\ rpc \in [Handles -> {"none", "poll", "scan", "handle", "ended"}]
  /\ rx \in [Handles -> {"none", "ok", "start"}]
  /\ tpc \in [Handles -> {"none", "poll", "check", "push", "ended"}]
  /\ queued \in [Handles \cup {NoHandle} -> 0 .. QueueCap]

\* Every variable keeps its type, and sm.port is an open handle or nil.
TypeOK == ManagerType /\ LoopsType /\ (port # NoHandle => port \in open)

Ready == state \in {"Initializing", "Connected"}

\* No port is open that the manager has forgotten: Disconnect closes all there
\* are, and the next Connect finds the device free. Users must not connect while
\* the printer initializes; nothing keeps them from it.
NoPortLeaked == ~hasty => open = (IF Ready THEN {port} ELSE {})

\* "Agregar timeout para cuando no se realiza la conexion inicial y se queda
\* pegada" (docs/issues.md:29): no connection is stuck in Initializing. The
\* Connect that made it is not through yet, or a timer runs that will find
\* sm.initDone unused.
InitializingHasTimer ==
  state = "Initializing" =>
    \/ \E c \in Connectors : cpc[c] \in {"spawn", "once", "arm"}
    \/ ~initDone /\ \E h \in Handles : armed[h] > 0

LiveWriters == {h \in Handles : Listening(h)}

\* If writeLoop itself received the stop token of every Disconnect so far, one
\* writeLoop serves the queues, and no command is written to a nil port.
CleanStop == ~hasty /\ overtaken = {} => ~crashed /\ Cardinality(LiveWriters) <= 1

\* "Improve autoconnect: duplicating connect?", ticked as done
\* (docs/issues.md:34): a port is never opened while another one is open.
NoDuplicateConnect == Cardinality(open) <= 1

\* Whose line or timer a step that ends the initialization is for.
ReadyBy(h) == IF rpc' = rpc THEN armed'[h] # armed[h] ELSE rpc'[h] # rpc[h]

\* "The printer is considered ready only after no new startup output has been
\* received for this duration" (serial_manager.go:855): the line or the timer
\* that makes a connection ready is its own.
ReadyIsOwn == [][state = "Initializing" /\ state' = "Connected" => ReadyBy(chans)]_vars

\* Disconnect holds sm.mu while it sends the token. It returns, unless the
\* writeLoop it waits for itself waits for sm.mu to store temperatures.
DisconnectReturns == []<>(~stopping \/ wpc[chans] = "temps")

\* The readLoop of a port that is closed or gone ends, unless a Disconnect
\* keeps it from sm.mu.
ReadersEnd ==
  \A h \in Handles :
    []<>(rpc[h] \in {"none", "ended"} \/ h \in open \ lost \/ stopping \/ crashed)
=============================================================================
