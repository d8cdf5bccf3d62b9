----------------------- MODULE SerialConnectionProofs -----------------------
(***************************************************************************)
(* The invariants of SerialConnection, for any serial devices, users,      *)
(* queue, number of connections and number of mishaps, and the end of a    *)
(* readLoop and of a Disconnect. The prover knows nothing of ENABLED: that *)
(* a loop can take its next step is a hypothesis of these two theorems.    *)
(***************************************************************************)
EXTENDS SerialConnection, FiniteSetTheorems, TLAPS

-----------------------------------------------------------------------------
(* Types.                                                                  *)

\* A Connect that has opened a port knows its handle; the timer that initTimer
\* points to runs; only a connection that was opened has a readLoop.
Named == /\ \A c \in Connectors : cpc[c] \in {"spawn", "once", "arm"} => mine[c] # NoHandle
         /\ initTimer.on => initTimer.of # NoHandle /\ armed[initTimer.of] > 0
         /\ \A h \in Handles : rpc[h] # "none" => h <= opens

TypeInv == TypeOK /\ Named

\* The numbers of the connections.
LEMMA Numbers ==
  ASSUME ManagerType
  PROVE  /\ opens \in Nat /\ MaxOpens \in Nat /\ opens <= MaxOpens /\ QueueCap \in Nat \ {0}
         /\ \A h \in Handles : h \in Nat /\ h # NoHandle
         /\ \A h \in 0 .. opens : h \in Handles \cup {NoHandle}
         /\ AutoConnect \in Connectors
<1>1. MaxOpens \in Nat /\ QueueCap \in Nat \ {0}
  BY ConnectionAssumption
<1>2. opens \in 0 .. MaxOpens
  BY DEF ManagerType
<1> QED BY <1>1, <1>2 DEF Handles, NoHandle, Connectors

LEMMA InitTyped == Init => TypeInv
<1> SUFFICES ASSUME Init PROVE TypeInv
  OBVIOUS
<1>1. ManagerType
  <2>1. MaxOpens \in Nat /\ MaxDisconnects \in Nat
    BY ConnectionAssumption
  <2>2. /\ state = "Disconnected" /\ port = 0 /\ chans = 0 /\ opens = 0 /\ open = {} /\ lost = {}
        /\ stopping = FALSE /\ disconnects = 0
    BY DEF Init, NoHandle
  <2>3. cpc = [c \in Connectors |-> "idle"] /\ mine = [c \in Connectors |-> 0]
    BY DEF Init, NoHandle
  <2>4. cpc \in [Connectors -> {"idle", "seen", "opening", "spawn", "once", "arm", "gone"}]
        /\ mine \in [Connectors -> 0 .. opens]
    BY <2>2, <2>3
  <2>5. opens \in 0 .. MaxOpens /\ disconnects \in 0 .. MaxDisconnects /\ chans \in 0 .. opens
    BY <2>1, <2>2
  <2> QED BY <2>2, <2>4, <2>5 DEF ManagerType, NoHandle
<1>2. LoopsType
  <2>1. QueueCap \in Nat \ {0} /\ opens = 0
    BY ConnectionAssumption DEF Init
  <2>2. initDone \in BOOLEAN /\ crashed \in BOOLEAN /\ armed \in [Handles -> Nat]
        /\ initTimer \in [of : 0 .. opens, on : BOOLEAN]
    <3>1. initTimer = [of |-> 0, on |-> FALSE] /\ initDone = FALSE /\ crashed = FALSE
      BY DEF Init, NoHandle
    <3>2. armed \in [Handles -> Nat]
      BY DEF Init
    <3>3. 0 \in 0 .. opens
      BY <2>1
    <3>4. initTimer \in [of : 0 .. opens, on : BOOLEAN]
      BY <3>1, <3>3
    <3> QED BY <3>1, <3>2, <3>4
  <2>3. /\ wpc \in [Handles -> {"none", "top", "select", "write", "wait", "temps", "ended"}]
        /\ wch \in [Handles -> 0 .. opens]
    BY <2>1 DEF Init, NoHandle
  <2>4. /\ rpc \in [Handles -> {"none", "poll", "scan", "handle", "ended"}]
        /\ rx \in [Handles -> {"none", "ok", "start"}]
        /\ tpc \in [Handles -> {"none", "poll", "check", "push", "ended"}]
    BY DEF Init
  <2>5. queued \in [Handles \cup {NoHandle} -> 0 .. QueueCap]
    BY <2>1 DEF Init
  <2> QED BY <2>2, <2>3, <2>4, <2>5 DEF LoopsType
<1>3. Named
  BY DEF Init, Named
<1>4. port = NoHandle
  BY DEF Init
<1> QED BY <1>1, <1>2, <1>3, <1>4 DEF TypeInv, TypeOK

\* Connect, but for the opening of the port.
LEMMA ConnectTyped ==
  ASSUME TypeInv, NEW c \in Connectors,
         AutoLook \/ ConnectBegins(c) \/ OpenFails(c) \/ Spawns(c) \/ ResetsOnce(c) \/ Arms(c)
  PROVE  TypeInv'
<1> USE DEF TypeInv, TypeOK
<1>1. AutoConnect \in Connectors
  BY DEF Connectors
<1>2. /\ UNCHANGED <<port, chans, stopping, disconnects, opens, open, lost, wch, queued, crashed, rx>>
      /\ initDone' \in {initDone, FALSE}
  BY DEF AutoLook, ConnectBegins, Begins, OpenFails, Spawns, ResetsOnce, Arms,
         managerVars, cableVars, timerVars, loopVars, historyVars
<1>3. CASE AutoLook \/ ConnectBegins(c) \/ OpenFails(c) \/ ResetsOnce(c)
  <2>1. UNCHANGED <<mine, initTimer, armed, wpc, rpc, tpc>>
    BY <1>3 DEF AutoLook, ConnectBegins, Begins, OpenFails, ResetsOnce, cableVars, timerVars, loopVars
  <2>2. \E x \in Connectors :
          \/ \E p \in {"seen", "gone", "opening", "idle"} : cpc' = [cpc EXCEPT ![x] = p]
          \/ cpc[x] = "once" /\ cpc' = [cpc EXCEPT ![x] = "arm"]
    <3>1. CASE AutoLook
      BY <1>1, <3>1 DEF AutoLook
    <3>2. CASE ConnectBegins(c)
      BY <3>2 DEF ConnectBegins, Begins
    <3>3. CASE OpenFails(c)
      BY <3>3 DEF OpenFails
    <3>4. CASE ResetsOnce(c)
      BY <3>4 DEF ResetsOnce
    <3> QED BY <1>3, <3>1, <3>2, <3>3, <3>4
  <2>3. state' \in {state, "Connecting", "Error"}
    BY <1>3 DEF AutoLook, ConnectBegins, Begins, OpenFails, ResetsOnce, managerVars
  <2>4. ManagerType'
    BY <1>2, <2>1, <2>2, <2>3 DEF ManagerType
  <2>5. LoopsType'
    BY <1>2, <2>1 DEF LoopsType
  <2>6. Named'
    BY <1>2, <2>1, <2>2 DEF Named, ManagerType
  <2> QED BY <1>2, <2>4, <2>5, <2>6
<1>4. CASE Spawns(c)
  <2>1. mine[c] \in Handles /\ mine[c] <= opens
    <3>1. mine[c] \in 0 .. opens /\ mine[c] # NoHandle
      BY <1>4 DEF Spawns, Named, ManagerType
    <3> QED BY <3>1, Numbers DEF NoHandle
  <2>2. UNCHANGED <<state, mine, initTimer, armed>> /\ cpc' = [cpc EXCEPT ![c] = "once"] /\ cpc[c] = "spawn"
    BY <1>4 DEF Spawns, managerVars, timerVars
  <2>3. ManagerType'
    BY <1>2, <2>2 DEF ManagerType
  <2>4. LoopsType'
    <3>1. wpc' = [wpc EXCEPT ![mine[c]] = "top"] /\ rpc' = [rpc EXCEPT ![mine[c]] = "poll"]
          /\ tpc' = [tpc EXCEPT ![mine[c]] = "poll"]
      BY <1>4 DEF Spawns
    <3>2. wpc' \in [Handles -> {"none", "top", "select", "write", "wait", "temps", "ended"}]
      BY <2>1, <3>1 DEF LoopsType
    <3>3. rpc' \in [Handles -> {"none", "poll", "scan", "handle", "ended"}]
      BY <2>1, <3>1 DEF LoopsType
    <3>4. tpc' \in [Handles -> {"none", "poll", "check", "push", "ended"}]
      BY <2>1, <3>1 DEF LoopsType
    <3> QED BY <1>2, <2>2, <3>2, <3>3, <3>4 DEF LoopsType
  <2>5. Named'
    BY <1>2, <1>4, <2>1, <2>2 DEF Named, Spawns, ManagerType, LoopsType
  <2> QED BY <1>2, <2>3, <2>4, <2>5
<1>5. CASE Arms(c)
  <2>1. mine[c] \in Handles /\ mine[c] \in 0 .. opens /\ mine[c] # NoHandle
    <3>1. mine[c] \in 0 .. opens /\ mine[c] # NoHandle
      BY <1>5 DEF Arms, Named, ManagerType
    <3> QED BY <3>1, Numbers
  <2>2. UNCHANGED <<state, wpc, rpc, tpc>> /\ initTimer' = [of |-> mine[c], on |-> TRUE]
        /\ armed' = [armed EXCEPT ![mine[c]] = @ + 1] /\ mine' = [mine EXCEPT ![c] = NoHandle]
        /\ cpc' \in {[cpc EXCEPT ![c] = "gone"], [cpc EXCEPT ![c] = "idle"]}
    BY <1>5 DEF Arms, managerVars, loopVars
  <2>3. opens \in Nat
    BY Numbers
  <2>4. ManagerType'
    BY <1>2, <2>2, <2>3 DEF ManagerType, NoHandle
  <2>5. LoopsType'
    <3>1. armed' \in [Handles -> Nat]
      BY <2>1, <2>2 DEF LoopsType
    <3>2. initTimer' \in [of : 0 .. opens', on : BOOLEAN]
      BY <1>2, <2>1, <2>2
    <3> QED BY <1>2, <2>2, <3>1, <3>2 DEF LoopsType
  <2>6. armed'[mine[c]] > 0
    BY <2>1, <2>2 DEF LoopsType
  <2>7. Named'
    BY <1>2, <2>1, <2>2, <2>6 DEF Named, ManagerType
  <2> QED BY <1>2, <2>4, <2>5, <2>7
<1> QED BY <1>3, <1>4, <1>5

LEMMA OpensTyped ==
  ASSUME TypeInv, NEW c \in Connectors, Opens(c)
  PROVE  TypeInv'
<1> USE DEF TypeInv, TypeOK
<1> DEFINE h == opens + 1
<1>1. h \in Nat /\ h <= MaxOpens /\ h # NoHandle /\ opens \in Nat /\ MaxOpens \in Nat
  BY Numbers DEF Opens, NoHandle
<1>2. /\ opens' = h /\ open' = open \cup {h} /\ mine' = [mine EXCEPT ![c] = h] /\ port' = h /\ chans' = h
      /\ state' = "Initializing" /\ cpc' = [cpc EXCEPT ![c] = "spawn"]
      /\ UNCHANGED <<stopping, disconnects, lost, rx, initDone, initTimer, armed, wpc, wch, rpc, tpc, queued,
                     crashed>>
  BY DEF Opens, cableVars, timerVars, loopVars
<1> HIDE DEF h
<1>3. 0 .. opens \subseteq 0 .. h /\ 1 .. opens \subseteq 1 .. h /\ h \in 1 .. h /\ h \in 0 .. MaxOpens
      /\ h \in 0 .. h
  BY <1>1 DEF h, NoHandle
<1>4. ManagerType'
  BY <1>1, <1>2, <1>3 DEF ManagerType
<1>5. LoopsType'
  BY <1>2, <1>3 DEF LoopsType
<1>6. Named'
  BY <1>1, <1>2 DEF Named, ManagerType, Handles, h
<1> QED BY <1>2, <1>4, <1>5, <1>6

LEMMA DisconnectTyped ==
  ASSUME TypeInv, DisconnectBegins \/ StopsOne
  PROVE  TypeInv'
<1> USE DEF TypeInv, TypeOK
<1>1. /\ UNCHANGED <<chans, cpc, mine, opens, lost, rx, initDone, initTimer, armed, queued, crashed>>
      /\ port' \in {port, NoHandle} /\ (port' = port => open' = open) /\ open' \subseteq open
      /\ state' \in {state, "Disconnected"} /\ stopping' \in BOOLEAN
  <2>1. CASE DisconnectBegins
    BY <2>1 DEF DisconnectBegins, connectVars, cableVars, timerVars, loopVars
  <2>2. CASE StopsOne
    <3>1. Closed
      BY <2>2 DEF StopsOne
    <3>2. port # NoHandle \/ (port = NoHandle /\ open \ {port} = open)
      BY Numbers DEF ManagerType, NoHandle
    <3> QED BY <3>1, <3>2 DEF Closed, ClosedFrame, cableVars, timerVars
  <2> QED BY <2>1, <2>2
<1>2. disconnects' \in 0 .. MaxDisconnects
  BY ConnectionAssumption DEF DisconnectBegins, StopsOne, Closed, ClosedFrame, ManagerType
<1>3. ManagerType' /\ (port' # NoHandle => port' \in open')
  BY <1>1, <1>2 DEF ManagerType
<1>4. NoHandle \in 0 .. opens
  BY Numbers DEF NoHandle
<1>5. /\ UNCHANGED <<wpc, wch>> \/ \E h \in Handles : wpc' = [wpc EXCEPT ![h] = "ended"]
                                                     /\ wch' = [wch EXCEPT ![h] = NoHandle]
      /\ UNCHANGED rpc \/ \E h \in Handles : rpc[h] = "poll" /\ rpc' = [rpc EXCEPT ![h] = "ended"]
      /\ UNCHANGED tpc \/ \E h \in Handles : tpc' = [tpc EXCEPT ![h] = "ended"]
  BY DEF DisconnectBegins, StopsOne, loopVars
<1>6. LoopsType'
  <2>1. wpc' \in [Handles -> {"none", "top", "select", "write", "wait", "temps", "ended"}]
        /\ wch' \in [Handles -> 0 .. opens]
    BY <1>4, <1>5 DEF LoopsType
  <2>2. rpc' \in [Handles -> {"none", "poll", "scan", "handle", "ended"}]
        /\ tpc' \in [Handles -> {"none", "poll", "check", "push", "ended"}]
    BY <1>5 DEF LoopsType
  <2> QED BY <1>1, <2>1, <2>2 DEF LoopsType
<1>7. Named'
  <2>1. \A h \in Handles : rpc'[h] # "none" => rpc[h] # "none"
    BY <1>5 DEF LoopsType
  <2> QED BY <1>1, <2>1 DEF Named
<1> QED BY <1>3, <1>6, <1>7

\* finishInitialization and the timers.
LEMMA TimersTyped ==
  ASSUME TypeInv, NEW h \in Handles, TimerFires(h) \/ ReadHandles(h)
  PROVE  TypeInv'
<1> USE DEF TypeInv, TypeOK
<1>1. UNCHANGED <<port, chans, stopping, disconnects, cpc, mine, opens, open, lost, wpc, wch, tpc, queued, crashed>>
  BY DEF TimerFires, ReadHandles, connectVars, cableVars, loopVars
<1>2. state' \in {state, "Connected"} /\ initDone' \in BOOLEAN
  BY DEF TimerFires, ReadHandles, Finish, LoopsType
<1>3. ManagerType' /\ (port' # NoHandle => port' \in open')
  BY <1>1, <1>2 DEF ManagerType
<1>4. /\ armed \in [Handles -> Nat] /\ initTimer \in [of : 0 .. opens, on : BOOLEAN] /\ NoHandle \in 0 .. opens
      /\ initTimer.on => initTimer.of \in Handles /\ armed[initTimer.of] > 0
  BY Numbers DEF LoopsType, Named, NoHandle
<1>5. CASE TimerFires(h)
  <2>1. armed' = [armed EXCEPT ![h] = @ - 1] /\ armed[h] > 0 /\ UNCHANGED <<rpc, rx>>
    BY <1>5 DEF TimerFires, loopVars, cableVars
  <2>2. \/ initTimer' = [of |-> NoHandle, on |-> FALSE]
        \/ initTimer' = initTimer /\ (initTimer.on /\ initTimer.of = h => armed[h] > 1)
    <3>1. initTimer.on /\ initTimer.of = h => initTimer = [of |-> h, on |-> TRUE]
      BY <1>4
    <3> QED BY <1>5, <3>1 DEF TimerFires
  <2>3. armed' \in [Handles -> Nat] /\ (initTimer'.on => initTimer' = initTimer /\ armed'[initTimer.of] > 0)
    BY <1>4, <2>1, <2>2
  <2>4. initTimer' \in [of : 0 .. opens, on : BOOLEAN]
    <3>1. [of |-> NoHandle, on |-> FALSE] \in [of : 0 .. opens, on : BOOLEAN]
      BY <1>4
    <3> QED BY <1>4, <2>2, <3>1
  <2> QED BY <1>1, <1>2, <1>3, <2>1, <2>3, <2>4 DEF LoopsType, Named
<1>6. CASE ReadHandles(h)
  <2> DEFINE stopped == IF initTimer.on THEN [armed EXCEPT ![initTimer.of] = @ - 1] ELSE armed
  <2>1. /\ armed' = [stopped EXCEPT ![h] = @ + 1] /\ initTimer' = [of |-> h, on |-> TRUE]
        /\ rpc' = [rpc EXCEPT ![h] = "poll"] /\ rx' = [rx EXCEPT ![h] = "none"] /\ rpc[h] = "handle"
    BY <1>6 DEF ReadHandles
  <2>2. stopped \in [Handles -> Nat]
    BY <1>4
  <2> HIDE DEF stopped
  <2>3. armed' \in [Handles -> Nat] /\ armed'[h] > 0
    BY <2>1, <2>2
  <2>4. h \in 0 .. opens /\ h # NoHandle /\ h <= opens
    BY <2>1, Numbers DEF Named, Handles, NoHandle
  <2> QED BY <1>1, <1>2, <1>3, <2>1, <2>3, <2>4 DEF LoopsType, Named
<1> QED BY <1>5, <1>6

\* What the loops of a connection and its cable do leaves the manager alone.
LEMMA LoopsTyped ==
  ASSUME TypeInv, NEW h \in Handles,
         \/ WriteLoop(h) \/ ReadEnters(h) \/ ReadEnds(h) \/ ReadLooks(h) \/ TempPolls(h)
         \/ PrinterLine(h) \/ Unplug(h)
  PROVE  TypeInv'
<1> USE DEF TypeInv, TypeOK, WriteLoop, LoopFrame, managerVars, connectVars, cableVars, timerVars, loopVars
<1>1. UNCHANGED <<state, port, chans, stopping, disconnects, cpc, mine, opens, open, initDone, initTimer, armed>>
  BY DEF WriteEnters, WriteTakes, PortWrite, WriteEnds, WriteTemps, ReadEnters, ReadEnds, ReadLooks,
         TempPolls, PrinterLine, Unplug
<1>2. chans \in 0 .. opens /\ NoHandle \in 0 .. opens /\ open \subseteq 1 .. opens
  BY Numbers DEF ManagerType, NoHandle
<1>3. lost' \subseteq 1 .. opens
  BY <1>2 DEF WriteEnters, WriteTakes, PortWrite, WriteEnds, WriteTemps, ReadEnters, ReadEnds, ReadLooks,
              TempPolls, PrinterLine, Unplug, ManagerType
<1>4. ManagerType' /\ (port' # NoHandle => port' \in open')
  BY <1>1, <1>3 DEF ManagerType
<1>5. /\ UNCHANGED wpc \/ \E p \in {"select", "write", "wait", "top", "temps"} : wpc' = [wpc EXCEPT ![h] = p]
      /\ UNCHANGED wch \/ \E k \in {chans, NoHandle} : wch' = [wch EXCEPT ![h] = k]
  BY DEF WriteEnters, WriteTakes, PortWrite, WriteEnds, WriteTemps, ReadEnters, ReadEnds, ReadLooks,
         TempPolls, PrinterLine, Unplug
<1>6. /\ UNCHANGED rpc \/ (rpc[h] # "none" /\ \E p \in {"scan", "ended", "handle", "poll"} : rpc' = [rpc EXCEPT ![h] = p])
      /\ UNCHANGED tpc \/ \E p \in {"check", "push", "poll"} : tpc' = [tpc EXCEPT ![h] = p]
  BY DEF WriteEnters, WriteTakes, PortWrite, WriteEnds, WriteTemps, ReadEnters, ReadEnds, ReadLooks,
         TempPolls, PrinterLine, Unplug
<1>7. UNCHANGED rx \/ \E l \in {"none", "ok", "start"} : rx' = [rx EXCEPT ![h] = l]
  BY ConnectionAssumption
     DEF WriteEnters, WriteTakes, PortWrite, WriteEnds, WriteTemps, ReadEnters, ReadEnds, ReadLooks,
         TempPolls, PrinterLine, Unplug
<1>8. crashed' \in BOOLEAN
  BY DEF WriteEnters, WriteTakes, PortWrite, WriteEnds, WriteTemps, ReadEnters, ReadEnds, ReadLooks,
         TempPolls, PrinterLine, Unplug, LoopsType
<1>9. queued' \in [Handles \cup {NoHandle} -> 0 .. QueueCap]
  <2>1. QueueCap \in Nat /\ chans \in Handles \cup {NoHandle} /\ wch[h] \in Handles \cup {NoHandle}
    BY <1>2, Numbers DEF LoopsType
  <2>2. \/ UNCHANGED queued
        \/ queued[wch[h]] > 0 /\ queued' = [queued EXCEPT ![wch[h]] = @ - 1]
        \/ queued' = [queued EXCEPT ![chans] = IF @ < QueueCap THEN @ + 1 ELSE @]
    BY DEF WriteEnters, WriteTakes, PortWrite, WriteEnds, WriteTemps, ReadEnters, ReadEnds, ReadLooks,
           TempPolls, PrinterLine, Unplug
  <2> QED BY <2>1, <2>2 DEF LoopsType
<1>10. LoopsType'
  <2>1. wpc' \in [Handles -> {"none", "top", "select", "write", "wait", "temps", "ended"}]
        /\ wch' \in [Handles -> 0 .. opens]
    BY <1>2, <1>5 DEF LoopsType
  <2>2. rpc' \in [Handles -> {"none", "poll", "scan", "handle", "ended"}]
    BY <1>6 DEF LoopsType
  <2>3. tpc' \in [Handles -> {"none", "poll", "check", "push", "ended"}]
    BY <1>6 DEF LoopsType
  <2>4. rx' \in [Handles -> {"none", "ok", "start"}]
    BY <1>7 DEF LoopsType
  <2> QED BY <1>1, <1>8, <1>9, <2>1, <2>2, <2>3, <2>4 DEF LoopsType
<1>11. Named'
  <2>1. \A k \in Handles : rpc'[k] # "none" => rpc[k] # "none"
    BY <1>6 DEF LoopsType
  <2> QED BY <1>1, <2>1 DEF Named
<1> QED BY <1>4, <1>10, <1>11

LEMMA NextTyped == TypeInv /\ [Next]_vars => TypeInv'
<1> SUFFICES ASSUME TypeInv, [Next]_vars PROVE TypeInv'
  OBVIOUS
<1>1. CASE AutoLook \/ \E c \in Connectors : Connect(c)
  BY <1>1, Numbers, ConnectTyped, OpensTyped DEF Connect, TypeInv, TypeOK
<1>2. CASE DisconnectBegins \/ StopsOne
  BY <1>2, DisconnectTyped
<1>3. CASE \E h \in Handles : \/ TimerFires(h) \/ WriteLoop(h) \/ ReadLoop(h) \/ TempPolls(h)
                              \/ PrinterLine(h) \/ Unplug(h)
  BY <1>3, TimersTyped, LoopsTyped DEF ReadLoop
<1>4. CASE UNCHANGED vars
  <2> USE <1>4 DEF vars, managerVars, connectVars, cableVars, timerVars, loopVars
  <2>1. ManagerType'
    BY DEF TypeInv, TypeOK, ManagerType
  <2>2. LoopsType'
    BY DEF TypeInv, TypeOK, LoopsType
  <2> QED BY <2>1, <2>2 DEF TypeInv, TypeOK, Named
<1> QED BY <1>1, <1>2, <1>3, <1>4 DEF Next

\* Every variable keeps its type, and sm.port is an open port or nil (Connect,
\* Disconnect and the three loops of each connection).
THEOREM TypeCorrect == Spec => []TypeOK
<1>1. Spec => []TypeInv
  BY InitTyped, NextTyped, PTL DEF Spec
<1> QED BY <1>1, PTL DEF TypeInv

-----------------------------------------------------------------------------
(* Ports.                                                                  *)

\* One Connect opens a port at a time, and the state says so; a Disconnect that
\* sends its token keeps the state.
Alone == /\ \A c \in Connectors : cpc[c] = "opening" => state = "Connecting"
         /\ \A c, d \in Connectors : cpc[c] = "opening" /\ cpc[d] = "opening" => c = d
         /\ stopping => state = "Connected" /\ port # NoHandle

PortInv == TypeInv /\ Alone /\ NoPortLeaked

LEMMA InitPorts == Init => PortInv
<1> SUFFICES ASSUME Init PROVE PortInv
  OBVIOUS
<1>1. Alone /\ NoPortLeaked
  BY DEF Init, Alone, NoPortLeaked, Ready
<1> QED BY <1>1, InitTyped DEF PortInv

LEMMA ConnectPorts ==
  ASSUME PortInv, NEW c \in Connectors, AutoLook \/ Connect(c)
  PROVE  Alone' /\ NoPortLeaked'
<1> USE DEF PortInv, TypeInv, TypeOK
<1>1. /\ AutoConnect \in Connectors
      /\ cpc \in [Connectors -> {"idle", "seen", "opening", "spawn", "once", "arm", "gone"}]
  BY DEF Connectors, ManagerType
<1>2. CASE AutoLook \/ Spawns(c) \/ ResetsOnce(c) \/ Arms(c)
  <2>1. UNCHANGED <<state, port, stopping, open, hasty>>
    BY <1>2 DEF AutoLook, Spawns, ResetsOnce, Arms, managerVars, historyVars
  <2>2. \A x \in Connectors : cpc'[x] = "opening" => cpc[x] = "opening"
    BY <1>1, <1>2 DEF AutoLook, Spawns, ResetsOnce, Arms
  <2> QED BY <2>1, <2>2 DEF Alone, NoPortLeaked, Ready
<1>3. CASE ConnectBegins(c)
  <2>1. UNCHANGED <<port, stopping, open>> /\ ~stopping
    BY <1>3 DEF ConnectBegins, Begins, MuFree
  <2>2. CASE state \in {"Connected", "Connecting"}
    <3>1. UNCHANGED <<state, hasty>> /\ cpc' = [cpc EXCEPT ![c] = "gone"]
      BY <1>3, <2>2 DEF ConnectBegins, Begins
    <3> QED BY <1>1, <2>1, <3>1 DEF Alone, NoPortLeaked, Ready
  <2>3. CASE state \notin {"Connected", "Connecting"}
    <3>1. /\ state' = "Connecting" /\ hasty' = (hasty \/ state = "Initializing")
          /\ cpc' = [cpc EXCEPT ![c] = "opening"]
      BY <1>3, <2>3 DEF ConnectBegins, Begins
    <3>2. Alone'
      BY <1>1, <2>1, <2>3, <3>1 DEF Alone
    <3>3. NoPortLeaked'
      BY <2>1, <2>3, <3>1 DEF NoPortLeaked, Ready
    <3> QED BY <3>2, <3>3
  <2> QED BY <2>2, <2>3
<1>4. CASE OpenFails(c)
  <2>1. UNCHANGED <<port, stopping, open, hasty>> /\ ~stopping /\ cpc[c] = "opening" /\ state' = "Error"
        /\ cpc' = [cpc EXCEPT ![c] = "idle"]
    BY <1>4 DEF OpenFails, MuFree, historyVars
  <2>2. Alone'
    BY <1>1, <2>1 DEF Alone
  <2>3. NoPortLeaked'
    BY <2>1 DEF Alone, NoPortLeaked, Ready
  <2> QED BY <2>2, <2>3
<1>5. CASE Opens(c)
  <2>1. UNCHANGED <<stopping, hasty>> /\ ~stopping /\ cpc[c] = "opening" /\ state' = "Initializing"
        /\ cpc' = [cpc EXCEPT ![c] = "spawn"] /\ open' = open \cup {opens + 1} /\ port' = opens + 1
    BY <1>5 DEF Opens, MuFree, historyVars
  <2>2. Alone'
    BY <1>1, <2>1 DEF Alone
  <2>3. NoPortLeaked'
    BY <2>1 DEF Alone, NoPortLeaked, Ready
  <2> QED BY <2>2, <2>3
<1> QED BY <1>2, <1>3, <1>4, <1>5 DEF Connect

LEMMA NextPorts == PortInv /\ [Next]_vars => PortInv'
<1> SUFFICES ASSUME PortInv, [Next]_vars PROVE Alone' /\ NoPortLeaked'
  BY NextTyped DEF PortInv
<1>1. CASE AutoLook \/ \E c \in Connectors : Connect(c)
  BY <1>1, ConnectPorts, Numbers DEF PortInv, TypeInv, TypeOK
<1>2. CASE DisconnectBegins
  BY <1>2 DEF PortInv, DisconnectBegins, MuFree, Alone, NoPortLeaked, Ready, connectVars, historyVars
<1>3. CASE StopsOne
  <2>1. stopping /\ open' = open \ {port} /\ state' = "Disconnected" /\ stopping' = FALSE
        /\ UNCHANGED <<cpc, hasty>>
    BY <1>3 DEF StopsOne, Closed, ClosedFrame
  <2>2. state = "Connected" /\ \A c \in Connectors : cpc[c] # "opening"
    BY <2>1 DEF PortInv, Alone
  <2> QED BY <2>1, <2>2 DEF PortInv, Alone, NoPortLeaked, Ready
<1>4. CASE \E h \in Handles : TimerFires(h) \/ ReadHandles(h)
  <2>1. /\ UNCHANGED <<port, open, stopping, cpc, hasty>> /\ ~stopping
        /\ state' = state \/ (state = "Initializing" /\ state' = "Connected")
    BY <1>4 DEF TimerFires, ReadHandles, Finish, MuFree, connectVars, historyVars
  <2> QED BY <2>1 DEF PortInv, Alone, NoPortLeaked, Ready
<1>5. CASE UNCHANGED <<state, port, open, stopping, cpc, hasty>>
  BY <1>5 DEF PortInv, Alone, NoPortLeaked, Ready
<1>6. ASSUME NEW h \in Handles, \/ WriteLoop(h) \/ ReadEnters(h) \/ ReadEnds(h) \/ ReadLooks(h)
                               \/ TempPolls(h) \/ PrinterLine(h) \/ Unplug(h)
      PROVE  UNCHANGED <<state, port, open, stopping, cpc, hasty>>
  BY <1>6 DEF WriteLoop, LoopFrame, WriteEnters, WriteTakes, PortWrite, WriteEnds, WriteTemps, ReadEnters, ReadEnds,
              ReadLooks, TempPolls, PrinterLine, Unplug, managerVars, connectVars, historyVars
<1>7. CASE UNCHANGED vars
  BY <1>5, <1>7 DEF vars, managerVars, connectVars, historyVars
<1> QED BY <1>1, <1>2, <1>3, <1>4, <1>5, <1>6, <1>7 DEF Next, ReadLoop

\* Unless somebody connects while the printer initializes, the only open port is the
\* one of a connection that initializes or is up (Connect, Disconnect).
THEOREM NoPortLeakedAlways == Spec => []NoPortLeaked
<1>1. Spec => []PortInv
  BY InitPorts, NextPorts, PTL DEF Spec
<1> QED BY <1>1, PTL DEF PortInv

-----------------------------------------------------------------------------
(* The end of the initialization.                                          *)

\* From the reset of initDone on a timer runs or is about to be started.
Armed == state = "Initializing" =>
           \/ \E c \in Connectors : cpc[c] \in {"spawn", "once"}
           \/ /\ ~initDone
              /\ (\E c \in Connectors : cpc[c] = "arm") \/ (\E h \in Handles : armed[h] > 0)

LEMMA ConnectArmed ==
  ASSUME TypeInv, Armed, NEW c \in Connectors, AutoLook \/ Connect(c)
  PROVE  Armed'
<1> USE DEF TypeInv, TypeOK
<1>1. /\ AutoConnect \in Connectors
      /\ cpc \in [Connectors -> {"idle", "seen", "opening", "spawn", "once", "arm", "gone"}]
  BY DEF Connectors, ManagerType
<1>2. CASE AutoLook
  <2>1. UNCHANGED <<state, initDone, armed>> /\ cpc[AutoConnect] = "idle"
        /\ \E p \in {"seen", "gone"} : cpc' = [cpc EXCEPT ![AutoConnect] = p]
    BY <1>2 DEF AutoLook, managerVars, timerVars
  <2>2. \A x \in Connectors : cpc[x] \in {"spawn", "once", "arm"} => cpc'[x] = cpc[x]
    BY <1>1, <2>1
  <2> QED BY <2>1, <2>2 DEF Armed
<1>3. CASE ConnectBegins(c)
  <2>1. UNCHANGED <<initDone, armed>> /\ cpc[c] \in {"idle", "seen"}
        /\ \E p \in {"gone", "opening"} : cpc' = [cpc EXCEPT ![c] = p]
        /\ state' \in {state, "Connecting"}
    BY <1>3 DEF ConnectBegins, Begins, timerVars
  <2>2. \A x \in Connectors : cpc[x] \in {"spawn", "once", "arm"} => cpc'[x] = cpc[x]
    BY <1>1, <2>1
  <2> QED BY <2>1, <2>2 DEF Armed
<1>4. CASE OpenFails(c)
  BY <1>4 DEF OpenFails, Armed
<1>5. CASE Opens(c)
  BY <1>1, <1>5 DEF Opens, Armed
<1>6. CASE Spawns(c)
  BY <1>1, <1>6 DEF Spawns, Armed
<1>7. CASE ResetsOnce(c)
  BY <1>1, <1>7 DEF ResetsOnce, Armed
<1>8. CASE Arms(c)
  <2>1. mine[c] \in Handles /\ cpc[c] = "arm" /\ UNCHANGED <<state, initDone>>
        /\ armed' = [armed EXCEPT ![mine[c]] = @ + 1]
        /\ \E p \in {"gone", "idle"} : cpc' = [cpc EXCEPT ![c] = p]
    <3>1. mine[c] \in 0 .. opens /\ mine[c] # NoHandle
      BY <1>8 DEF Arms, Named, ManagerType
    <3> QED BY <1>8, <3>1, Numbers DEF Arms, managerVars
  <2>2. armed'[mine[c]] > 0
    BY <2>1 DEF LoopsType
  <2>3. \A x \in Connectors : cpc[x] \in {"spawn", "once"} => cpc'[x] = cpc[x]
    BY <1>1, <2>1
  <2> QED BY <2>1, <2>2, <2>3 DEF Armed
<1> QED BY <1>2, <1>3, <1>4, <1>5, <1>6, <1>7, <1>8 DEF Connect

LEMMA NextArmed == TypeInv /\ Armed /\ [Next]_vars => Armed'
<1> SUFFICES ASSUME TypeInv, Armed, [Next]_vars PROVE Armed'
  OBVIOUS
<1>1. CASE AutoLook \/ \E c \in Connectors : Connect(c)
  BY <1>1, ConnectArmed, Numbers DEF TypeInv, TypeOK
<1>2. CASE DisconnectBegins
  BY <1>2 DEF DisconnectBegins, Armed, connectVars, timerVars
<1>3. CASE StopsOne
  BY <1>3 DEF StopsOne, Closed, Armed
<1>4. ASSUME NEW h \in Handles, TimerFires(h) PROVE Armed'
  <2>1. UNCHANGED cpc /\ Finish
    BY <1>4 DEF TimerFires, connectVars
  <2> QED BY <2>1 DEF Finish, Armed
<1>5. ASSUME NEW h \in Handles, ReadHandles(h) PROVE Armed'
  <2>1. UNCHANGED cpc /\ (Finish \/ UNCHANGED <<state, initDone>>)
    BY <1>5 DEF ReadHandles, connectVars
  <2>2. armed'[h] > 0
    <3> DEFINE stopped == IF initTimer.on THEN [armed EXCEPT ![initTimer.of] = @ - 1] ELSE armed
    <3>1. armed' = [stopped EXCEPT ![h] = @ + 1]
      BY <1>5 DEF ReadHandles
    <3>2. /\ armed \in [Handles -> Nat] /\ (initTimer.on => initTimer.of \in Handles /\ armed[initTimer.of] > 0)
      BY Numbers DEF TypeInv, TypeOK, LoopsType, Named
    <3>3. stopped \in [Handles -> Nat]
      BY <3>2
    <3> HIDE DEF stopped
    <3> QED BY <3>1, <3>3
  <2> QED BY <2>1, <2>2 DEF Finish, Armed
<1>6. CASE UNCHANGED <<state, initDone, armed, cpc>>
  BY <1>6 DEF Armed
<1>7. ASSUME NEW h \in Handles, \/ WriteLoop(h) \/ ReadEnters(h) \/ ReadEnds(h) \/ ReadLooks(h)
                               \/ TempPolls(h) \/ PrinterLine(h) \/ Unplug(h)
      PROVE  UNCHANGED <<state, initDone, armed, cpc>>
  BY <1>7 DEF WriteLoop, LoopFrame, WriteEnters, WriteTakes, PortWrite, WriteEnds, WriteTemps, ReadEnters, ReadEnds,
              ReadLooks, TempPolls, PrinterLine, Unplug, managerVars, connectVars, timerVars
<1>8. CASE UNCHANGED vars
  BY <1>6, <1>8 DEF vars, managerVars, connectVars, timerVars
<1> QED BY <1>1, <1>2, <1>3, <1>4, <1>5, <1>6, <1>7, <1>8 DEF Next, ReadLoop

\* No connection is stuck in Initializing: the Connect that made it is not through
\* yet, or a timer runs that will find initDone unused (Connect, resetInitTimer,
\* finishInitialization).
THEOREM InitializingHasTimerAlways == Spec => []InitializingHasTimer
<1>1. Init => TypeInv /\ Armed
  BY InitTyped DEF Init, Armed
<1>2. Spec => [](TypeInv /\ Armed)
  BY <1>1, NextTyped, NextArmed, PTL DEF Spec
<1>3. Armed => InitializingHasTimer
  BY DEF Armed, InitializingHasTimer
<1> QED BY <1>2, <1>3, PTL

-----------------------------------------------------------------------------
(* One writeLoop.                                                          *)

\* A connection has no writeLoop before Connect starts it, and two Connects
\* never start the same one.
Unstarted == /\ \A h \in Handles : h > opens => wpc[h] = "none"
             /\ \A c \in Connectors : cpc[c] = "spawn" => wpc[mine[c]] = "none"
             /\ \A c, d \in Connectors :
                  cpc[c] = "spawn" /\ cpc[d] = "spawn" /\ mine[c] = mine[d] => c = d
             /\ Ready => chans # NoHandle

Running(h) == wpc[h] \notin {"none", "ended"}

\* As long as every stop token reached its writeLoop, only the connection that
\* initializes or is up has one.
Single == ~hasty /\ overtaken = {} =>
            /\ ~crashed
            /\ \A c \in Connectors : cpc[c] = "spawn" => Ready /\ mine[c] = chans
            /\ \A h \in Handles : Running(h) => Ready /\ h = chans
            /\ Ready => wpc[chans] # "ended"

StopInv == PortInv /\ Unstarted /\ Single

LEMMA InitStop == Init => StopInv
<1> SUFFICES ASSUME Init PROVE StopInv
  OBVIOUS
<1>1. Unstarted /\ Single
  BY DEF Init, Unstarted, Single, Ready, Running
<1> QED BY <1>1, InitPorts DEF StopInv

LEMMA ConnectStop ==
  ASSUME StopInv, NEW c \in Connectors, AutoLook \/ Connect(c)
  PROVE  Unstarted' /\ Single'
<1> USE DEF StopInv, PortInv, TypeInv, TypeOK
<1>1. /\ AutoConnect \in Connectors
      /\ cpc \in [Connectors -> {"idle", "seen", "opening", "spawn", "once", "arm", "gone"}]
      /\ mine \in [Connectors -> 0 .. opens] /\ opens \in Nat /\ MaxOpens \in Nat
      /\ wpc \in [Handles -> {"none", "top", "select", "write", "wait", "temps", "ended"}]
  BY Numbers DEF Connectors, ManagerType, LoopsType
<1>2. CASE AutoLook \/ ResetsOnce(c) \/ Arms(c)
  <2>1. UNCHANGED <<state, chans, opens, wpc, crashed, hasty, overtaken>>
    BY <1>2 DEF AutoLook, ResetsOnce, Arms, managerVars, loopVars, historyVars
  <2>2. \A x \in Connectors : cpc'[x] = "spawn" => cpc[x] = "spawn" /\ mine'[x] = mine[x]
    BY <1>1, <1>2 DEF AutoLook, ResetsOnce, Arms
  <2> QED BY <2>1, <2>2 DEF Unstarted, Single, Ready, Running
<1>3. CASE ConnectBegins(c)
  <2>1. /\ UNCHANGED <<chans, opens, mine, wpc, crashed, overtaken>>
        /\ \/ UNCHANGED <<state, hasty>>
           \/ /\ state' = "Connecting" /\ hasty' = (hasty \/ state = "Initializing")
              /\ state # "Connected"
        /\ \E p \in {"gone", "opening"} : cpc' = [cpc EXCEPT ![c] = p]
    BY <1>3 DEF ConnectBegins, Begins, loopVars
  <2>2. \A x \in Connectors : cpc'[x] = "spawn" => cpc[x] = "spawn"
    BY <1>1, <2>1
  <2>3. Ready' => Ready /\ state' = state /\ hasty' = hasty
    BY <2>1 DEF Ready
  <2>4. Ready /\ ~hasty' => Ready'
    BY <2>1 DEF Ready
  <2>5. Unstarted'
    BY <2>1, <2>2, <2>3 DEF Unstarted
  <2>6. hasty => hasty'
    BY <2>1
  <2>7. Single'
    BY <2>1, <2>2, <2>3, <2>4, <2>6 DEF Single, Running
  <2> QED BY <2>5, <2>7
<1>4. CASE OpenFails(c)
  <2>1. /\ UNCHANGED <<chans, opens, mine, wpc, crashed, overtaken, hasty>>
        /\ cpc[c] = "opening" /\ state' = "Error" /\ cpc' = [cpc EXCEPT ![c] = "idle"]
    BY <1>4 DEF OpenFails, loopVars, historyVars
  <2>2. \A x \in Connectors : cpc'[x] = "spawn" => cpc[x] = "spawn"
    BY <1>1, <2>1
  <2>3. state = "Connecting"
    BY <2>1 DEF Alone
  <2> QED BY <2>1, <2>2, <2>3 DEF Unstarted, Single, Ready, Running
<1>5. CASE Opens(c)
  <2> DEFINE h == opens + 1
  <2>1. /\ UNCHANGED <<wpc, crashed, overtaken, hasty>> /\ opens' = h /\ chans' = h
        /\ cpc[c] = "opening" /\ state' = "Initializing" /\ cpc' = [cpc EXCEPT ![c] = "spawn"]
        /\ mine' = [mine EXCEPT ![c] = h]
    BY <1>5 DEF Opens, loopVars, historyVars
  <2>2. h \in Handles /\ h # NoHandle /\ h > opens
    BY <1>1, <1>5 DEF Opens, Handles, NoHandle
  <2>3. state = "Connecting" /\ wpc[h] = "none"
    BY <2>1, <2>2 DEF Alone, Unstarted
  <2>4. \A x \in Connectors : x # c => /\ cpc'[x] = cpc[x] /\ mine'[x] = mine[x] /\ mine[x] # h
    BY <1>1, <2>1, <2>2
  <2>5. cpc'[c] = "spawn" /\ mine'[c] = h
    BY <1>1, <2>1
  <2> HIDE DEF h
  <2>6. \A k \in Handles : k \in Nat
    BY Numbers
  <2>7. Unstarted'
    BY <1>1, <2>1, <2>2, <2>3, <2>4, <2>5, <2>6 DEF Unstarted, Ready
  <2>8. Single'
    BY <2>1, <2>3, <2>4, <2>5 DEF Single, Ready, Running
  <2> QED BY <2>7, <2>8
<1>6. CASE Spawns(c)
  <2>1. /\ UNCHANGED <<state, chans, mine, opens, crashed, overtaken, hasty>> /\ cpc[c] = "spawn"
        /\ cpc' = [cpc EXCEPT ![c] = "once"] /\ wpc' = [wpc EXCEPT ![mine[c]] = "top"]
    BY <1>6 DEF Spawns, managerVars, historyVars
  <2>2. mine[c] \in Handles /\ mine[c] <= opens
    <3>1. mine[c] \in 0 .. opens /\ mine[c] # NoHandle
      BY <1>1, <2>1 DEF Named
    <3> QED BY <3>1, Numbers DEF NoHandle
  <2>3. \A x \in Connectors : cpc'[x] = "spawn" => x # c /\ cpc[x] = "spawn"
    BY <1>1, <2>1
  <2>4. \A h \in Handles : h # mine[c] => wpc'[h] = wpc[h]
    BY <1>1, <2>1, <2>2
  <2>5. wpc'[mine[c]] = "top"
    BY <1>1, <2>1, <2>2
  <2>6. \A h \in Handles : h > opens => h # mine[c]
    BY <1>1, <2>2, Numbers
  <2>7. \A x \in Connectors : cpc[x] = "spawn" => mine[x] \in Handles
    <3>1. \A x \in Connectors : cpc[x] = "spawn" => mine[x] \in 0 .. opens /\ mine[x] # NoHandle
      BY <1>1 DEF Named
    <3> QED BY <3>1, Numbers
  <2>8. Unstarted'
    BY <2>1, <2>3, <2>4, <2>6, <2>7 DEF Unstarted, Ready
  <2>9. Single'
    BY <2>1, <2>3, <2>4, <2>5 DEF Single, Ready, Running
  <2> QED BY <2>8, <2>9
<1> QED BY <1>2, <1>3, <1>4, <1>5, <1>6 DEF Connect

\* A token that reaches the writeLoop of its connection leaves no writeLoop.
LEMMA DisconnectStop ==
  ASSUME StopInv, StopsOne
  PROVE  Unstarted' /\ Single'
<1> USE DEF StopInv, PortInv, TypeInv, TypeOK
<1>1. /\ UNCHANGED <<chans, cpc, mine, opens, crashed, hasty>> /\ stopping /\ state' = "Disconnected"
      /\ overtaken' = IF wpc'[chans] = "ended" THEN overtaken ELSE overtaken \cup {chans}
  BY DEF StopsOne, Closed, ClosedFrame
<1>2. state = "Connected"
  BY <1>1 DEF Alone
<1>3. /\ wpc \in [Handles -> {"none", "top", "select", "write", "wait", "temps", "ended"}]
      /\ \/ wpc' = wpc
         \/ \E h \in Handles : wpc[h] \in {"select", "wait"} /\ wpc' = [wpc EXCEPT ![h] = "ended"]
  BY DEF StopsOne, Listening, LoopsType
<1>4. \A h \in Handles : wpc'[h] = wpc[h] \/ (wpc[h] \in {"select", "wait"} /\ wpc'[h] = "ended")
  BY <1>3
<1>5. \A x \in Connectors : cpc[x] = "spawn" => mine[x] \in Handles
  <2>1. \A x \in Connectors : cpc[x] = "spawn" => mine[x] \in 0 .. opens /\ mine[x] # NoHandle
    BY DEF Named, ManagerType
  <2> QED BY <2>1, Numbers
<1>6. Unstarted'
  BY <1>1, <1>4, <1>5 DEF Unstarted, Ready
<1>7. Single'
  <2> SUFFICES ASSUME ~hasty, overtaken' = {} PROVE Single'
    BY <1>1 DEF Single
  <2>1. overtaken = {} /\ wpc'[chans] = "ended"
    BY <1>1
  <2>2. chans \in Handles
    BY <1>2, Numbers DEF Unstarted, Ready, ManagerType
  <2>3. wpc[chans] \in {"select", "wait"}
    BY <1>2, <1>4, <2>1, <2>2 DEF Single, Ready
  <2>4. \A h \in Handles : wpc'[h] \in {"none", "ended"}
    BY <1>4, <2>1 DEF Single, Running
  <2>5. \A x \in Connectors : cpc[x] # "spawn"
    BY <2>1, <2>3 DEF Single, Unstarted
  <2> QED BY <1>1, <2>1, <2>4, <2>5 DEF Single, Ready, Running
<1> QED BY <1>6, <1>7

\* A writeLoop that runs stays what it is, and finds a port.
LEMMA WriterStop ==
  ASSUME StopInv, NEW h \in Handles, WriteLoop(h)
  PROVE  Unstarted' /\ Single'
<1> USE DEF StopInv, PortInv, TypeInv, TypeOK
<1>1. /\ UNCHANGED <<state, chans, cpc, mine, opens, hasty, overtaken, port, open>>
      /\ Running(h)
      /\ \E p \in {"top", "select", "write", "wait", "temps"} : wpc' = [wpc EXCEPT ![h] = p]
      /\ crashed' = crashed \/ crashed' = (port = NoHandle)
  BY DEF WriteLoop, WriteEnters, WriteTakes, PortWrite, WriteEnds, WriteTemps, LoopFrame,
         managerVars, connectVars, historyVars, Running
<1>2. wpc \in [Handles -> {"none", "top", "select", "write", "wait", "temps", "ended"}]
  BY DEF LoopsType
<1>3. /\ \A k \in Handles : k # h => wpc'[k] = wpc[k]
      /\ wpc'[h] \in {"top", "select", "write", "wait", "temps"}
  BY <1>1, <1>2
<1>4. \A x \in Connectors : cpc[x] = "spawn" => mine[x] \in Handles
  <2>1. \A x \in Connectors : cpc[x] = "spawn" => mine[x] \in 0 .. opens /\ mine[x] # NoHandle
    BY DEF Named, ManagerType
  <2> QED BY <2>1, Numbers
<1>5. Unstarted'
  BY <1>1, <1>3, <1>4 DEF Unstarted, Ready, Running
<1>6. ~hasty /\ Ready => port # NoHandle
  <2>1. NoHandle \notin open
    BY Numbers DEF ManagerType, NoHandle
  <2> QED BY <2>1 DEF NoPortLeaked
<1>7. Single'
  BY <1>1, <1>3, <1>6 DEF Single, Ready, Running
<1> QED BY <1>5, <1>7

LEMMA NextStop == StopInv /\ [Next]_vars => StopInv'
<1> SUFFICES ASSUME StopInv, [Next]_vars PROVE Unstarted' /\ Single'
  BY NextPorts DEF StopInv
<1>1. CASE AutoLook \/ \E c \in Connectors : Connect(c)
  BY <1>1, ConnectStop, Numbers DEF StopInv, PortInv, TypeInv, TypeOK
<1>2. CASE StopsOne
  BY <1>2, DisconnectStop
<1>3. CASE \E h \in Handles : WriteLoop(h)
  BY <1>3, WriterStop
<1>4. CASE \E h \in Handles : TimerFires(h) \/ ReadHandles(h)
  <2>1. /\ UNCHANGED <<chans, cpc, mine, opens, wpc, crashed, hasty, overtaken>>
        /\ state' = state \/ (state = "Initializing" /\ state' = "Connected")
    BY <1>4 DEF TimerFires, ReadHandles, Finish, connectVars, loopVars, historyVars
  <2> QED BY <2>1 DEF StopInv, Unstarted, Single, Ready, Running
<1>5. CASE UNCHANGED <<state, chans, cpc, mine, opens, wpc, crashed, hasty, overtaken>>
  BY <1>5 DEF StopInv, Unstarted, Single, Ready, Running
<1>6. ASSUME NEW h \in Handles, \/ ReadEnters(h) \/ ReadEnds(h) \/ ReadLooks(h)
                               \/ TempPolls(h) \/ PrinterLine(h) \/ Unplug(h)
      PROVE  UNCHANGED <<state, chans, cpc, mine, opens, wpc, crashed, hasty, overtaken>>
  BY <1>6 DEF LoopFrame, ReadEnters, ReadEnds, ReadLooks, TempPolls, PrinterLine, Unplug,
              managerVars, connectVars, loopVars, historyVars
<1>7. CASE DisconnectBegins \/ UNCHANGED vars
  BY <1>5, <1>7 DEF DisconnectBegins, vars, managerVars, connectVars, loopVars, historyVars
<1> QED BY <1>1, <1>2, <1>3, <1>4, <1>5, <1>6, <1>7 DEF Next, ReadLoop

\* As long as writeLoop itself received every stop token of Disconnect, one
\* writeLoop at most serves the queues, and none writes to a nil port.
THEOREM CleanStopAlways == Spec => []CleanStop
<1>1. StopInv => CleanStop
  <2> SUFFICES ASSUME StopInv, ~hasty, overtaken = {}
               PROVE  ~crashed /\ Cardinality(LiveWriters) <= 1
    BY DEF CleanStop
  <2>1. ~crashed /\ LiveWriters \subseteq {chans}
    BY DEF StopInv, Single, Running, LiveWriters, Listening
  <2>2. IsFiniteSet({chans}) /\ Cardinality({chans}) = 1
    BY FS_Singleton
  <2>3. IsFiniteSet(LiveWriters) /\ Cardinality(LiveWriters) <= Cardinality({chans})
    BY <2>1, <2>2, FS_Subset
  <2>4. Cardinality(LiveWriters) \in Nat
    BY <2>3, FS_CardinalityType
  <2> QED BY <2>1, <2>2, <2>3, <2>4
<1> QED BY <1>1, InitStop, NextStop, PTL DEF Spec
-----------------------------------------------------------------------------
(* The end of readLoop.                                                    *)

\* The loops of a connection start together.
Together == \A h \in Handles : wpc[h] = "none" => rpc[h] = "none"

\* Every step keeps that.
LEMMA NextTogether == TypeInv /\ Together /\ [Next]_vars => Together'
<1> SUFFICES ASSUME TypeInv, Together, [Next]_vars PROVE Together'
  OBVIOUS
<1> USE DEF TypeInv, TypeOK, LoopsType, Together
<1>1. ASSUME NEW c \in Connectors, Spawns(c) PROVE Together'
  BY <1>1 DEF Spawns
<1>2. ASSUME NEW h \in Handles, WriteLoop(h) PROVE Together'
  BY <1>2 DEF WriteLoop, WriteEnters, WriteTakes, PortWrite, WriteEnds, WriteTemps
<1>3. ASSUME NEW h \in Handles, ReadLoop(h) PROVE Together'
  BY <1>3 DEF ReadLoop, ReadEnters, ReadEnds, ReadLooks, ReadHandles
<1>4. CASE StopsOne
  BY <1>4 DEF StopsOne
<1>5. CASE UNCHANGED <<wpc, rpc>>
  BY <1>5
<1>6. \/ \E c \in Connectors : Spawns(c)
      \/ \E h \in Handles : WriteLoop(h) \/ ReadLoop(h)
      \/ StopsOne
      \/ UNCHANGED <<wpc, rpc>>
  BY Numbers DEF Next, Connect, AutoLook, ConnectBegins, Begins, OpenFails, Opens, ResetsOnce, Arms,
     DisconnectBegins, TimerFires, TempPolls, PrinterLine, Unplug, vars, loopVars
<1> QED BY <1>1, <1>2, <1>3, <1>4, <1>5, <1>6

ReadInv == StopInv /\ Together

\* The invariant holds in every behaviour.
LEMMA ReadInvariant == Spec => []ReadInv
<1>1. Init => ReadInv
  BY InitStop DEF Init, ReadInv, Together
<1>2. StopInv => TypeInv
  BY DEF StopInv, PortInv
<1> QED BY <1>1, <1>2, NextStop, NextTogether, PTL DEF Spec, ReadInv

\* A readLoop that is left on a port that is closed or gone, while sm.mu is free.
Left(h) == /\ rpc[h] \notin {"none", "ended"} /\ h \notin open \ lost
           /\ ~stopping /\ ~crashed

At(h, where) == rpc[h] = where /\ rx[h] = "none"
With(h, where) == rpc[h] = where /\ rx[h] # "none"

\* Only its own steps move it.
LEMMA OnlyItself ==
  ASSUME ReadInv, [Next]_vars, NEW h \in Handles, Left(h), Left(h)'
  PROVE  ReadLoop(h) \/ UNCHANGED <<rpc[h], rx[h]>>
<1> USE DEF TypeInv, TypeOK, LoopsType
<1>1. TypeInv /\ Together /\ Unstarted
  BY DEF ReadInv, StopInv, PortInv
<1>2. ASSUME NEW c \in Connectors, Spawns(c) PROVE UNCHANGED <<rpc[h], rx[h]>>
  <2>1. mine[c] # h
    BY <1>1, <1>2 DEF Spawns, Unstarted, Together, Left
  <2> QED BY <1>1, <1>2, <2>1 DEF Spawns, cableVars
<1>3. ASSUME NEW k \in Handles, k # h, ReadLoop(k) PROVE UNCHANGED <<rpc[h], rx[h]>>
  BY <1>1, <1>3 DEF ReadLoop, ReadEnters, ReadEnds, ReadLooks, ReadHandles, cableVars
<1>4. ASSUME NEW k \in Handles, PrinterLine(k) PROVE UNCHANGED <<rpc[h], rx[h]>>
  BY <1>1, <1>4 DEF PrinterLine, Left, loopVars
<1>5. ~StopsOne
  BY DEF StopsOne, Left
<1>6. \/ \E c \in Connectors : Spawns(c)
      \/ \E k \in Handles : ReadLoop(k) \/ PrinterLine(k)
      \/ UNCHANGED <<rpc, rx>>
  BY <1>1, <1>5, Numbers DEF Next, Connect, AutoLook, ConnectBegins, Begins, OpenFails, Opens, ResetsOnce, Arms,
     DisconnectBegins, TimerFires, TempPolls, Unplug, vars, loopVars, cableVars, WriteLoop, WriteEnters,
     WriteTakes, PortWrite, WriteEnds, WriteTemps
<1> QED BY <1>2, <1>3, <1>4, <1>6

\* Its own steps bring it to its end.
LEMMA ReaderMovesOn ==
  ASSUME ReadInv, NEW h \in Handles, ReadLoop(h), Left(h), Left(h)'
  PROVE  /\ With(h, "poll") => With(h, "scan")'
         /\ With(h, "scan") => (rpc[h] = "handle")' \/ At(h, "poll")'
         /\ rpc[h] = "handle" => At(h, "poll")'
         /\ At(h, "poll") => At(h, "scan")'
         /\ ~At(h, "scan")
<1>1. TypeInv
  BY DEF ReadInv, StopInv, PortInv
<1> QED BY <1>1 DEF TypeInv, TypeOK, LoopsType, ReadLoop, ReadEnters, ReadEnds, ReadLooks, ReadHandles,
                    At, With, Left, cableVars

\* A readLoop is not left for ever if it runs on.
LEMMA LeftEnds ==
  ASSUME NEW h \in Handles
  PROVE  Spec /\ ([]<>~Left(h) \/ []<><<~crashed /\ ReadLoop(h)>>_vars) => []<>~Left(h)
<1>1. ReadInv /\ Left(h) => \/ With(h, "poll") \/ With(h, "scan") \/ rpc[h] = "handle"
                            \/ At(h, "poll") \/ At(h, "scan")
  BY DEF ReadInv, StopInv, PortInv, TypeInv, TypeOK, LoopsType, Left, At, With
<1>2. ReadInv /\ [Next]_vars /\ Left(h) /\ Left(h)' =>
        /\ With(h, "poll") => With(h, "poll")' \/ With(h, "scan")'
        /\ With(h, "scan") => With(h, "scan")' \/ (rpc[h] = "handle")' \/ At(h, "poll")'
        /\ rpc[h] = "handle" => (rpc[h] = "handle")' \/ At(h, "poll")'
        /\ At(h, "poll") => At(h, "poll")' \/ At(h, "scan")'
        /\ At(h, "scan") => At(h, "scan")'
  BY OnlyItself, ReaderMovesOn DEF At, With
<1>3. ReadInv /\ Left(h) /\ Left(h)' /\ <<~crashed /\ ReadLoop(h)>>_vars =>
        /\ With(h, "poll") => With(h, "scan")'
        /\ With(h, "scan") => (rpc[h] = "handle")' \/ At(h, "poll")'
        /\ rpc[h] = "handle" => At(h, "poll")'
        /\ At(h, "poll") => At(h, "scan")'
        /\ ~At(h, "scan")
  BY ReaderMovesOn
<1> QED BY <1>1, <1>2, <1>3, ReadInvariant, PTL DEF Spec

\* A readLoop that is left can take its next step.
ReaderCanStep == \A h \in Handles : Left(h) => ENABLED <<~crashed /\ ReadLoop(h)>>_vars

\* A readLoop that runs on, and that nothing but the end of its steps stops, ends
\* once its port is closed or gone and sm.mu is free.
THEOREM ReadersEndIfTheyRun == FairSpec /\ []ReaderCanStep => ReadersEnd
<1>1. ASSUME NEW h \in Handles
      PROVE  FairSpec /\ []ReaderCanStep =>
               []<>(rpc[h] \in {"none", "ended"} \/ h \in open \ lost \/ stopping \/ crashed)
  <2>1. FairSpec => Spec /\ ReadLoopRuns(h)
    BY DEF FairSpec, Fairness
  <2>2. ReaderCanStep => (Left(h) => ENABLED <<~crashed /\ ReadLoop(h)>>_vars)
    BY DEF ReaderCanStep
  <2>3. Spec /\ ([]<>~Left(h) \/ []<><<~crashed /\ ReadLoop(h)>>_vars) => []<>~Left(h)
    BY LeftEnds
  <2>4. ~Left(h) => rpc[h] \in {"none", "ended"} \/ h \in open \ lost \/ stopping \/ crashed
    BY DEF Left
  <2> QED BY <2>1, <2>2, <2>3, <2>4, PTL DEF ReadLoopRuns
<1> QED BY <1>1 DEF ReadersEnd
-----------------------------------------------------------------------------
(* Who takes the stop token.                                               *)

\* A Disconnect that hands out stop tokens waits for the writeLoop of the last
\* connection: it listens, is on its way back to its select, or is about to be
\* started. ("temps" needs sm.mu, which this Disconnect holds.)
TokenReceiver ==
  stopping => \/ Listening(chans)
              \/ wpc[chans] \in {"top", "write", "temps"}
              \/ \E c \in Connectors : cpc[c] = "spawn" /\ mine[c] = chans

\* The channels are those of the last port that was opened, a select is never
\* on older ones than its own, and the writeLoop of a connection that is up
\* has not ended and is started by its Connect.
Serving ==
  /\ chans = opens
  /\ \A h \in Handles : wpc[h] \in {"select", "wait"} => h <= wch[h]
  /\ Ready => /\ wpc[chans] # "ended"
              /\ wpc[chans] = "none" => \E c \in Connectors : cpc[c] = "spawn" /\ mine[c] = chans

\* The steps of Connect.
LEMMA ConnectServing ==
  ASSUME StopInv, Serving, NEW c \in Connectors, Connect(c)
  PROVE  Serving'
<1> USE DEF StopInv, PortInv, TypeInv, TypeOK, ManagerType, LoopsType
<1>1. CASE ConnectBegins(c) \/ OpenFails(c)
  <2>1. ~Ready' \/ (state' = state /\ \A d \in Connectors : cpc[d] = "spawn" => cpc'[d] = "spawn")
    BY <1>1 DEF ConnectBegins, Begins, OpenFails, Ready
  <2> QED BY <1>1, <2>1 DEF ConnectBegins, Begins, OpenFails, Serving, Ready, loopVars
<1>2. CASE Opens(c)
  <2>1. /\ chans' = opens' /\ chans' = opens + 1 /\ cpc'[c] = "spawn" /\ mine'[c] = chans'
        /\ UNCHANGED <<wpc, wch>> /\ chans' \in Handles /\ chans' > opens
    <3>1. /\ chans' = opens + 1 /\ opens' = opens + 1 /\ UNCHANGED <<wpc, wch>>
          /\ cpc'[c] = "spawn" /\ mine'[c] = opens + 1
      BY <1>2 DEF Opens, loopVars
    <3>2. opens \in Nat /\ opens < MaxOpens /\ MaxOpens \in Nat
      BY <1>2, Numbers DEF Opens
    <3> QED BY <3>1, <3>2 DEF Handles
  <2>2. wpc'[chans'] = "none"
    BY <2>1 DEF Unstarted
  <2> QED BY <2>1, <2>2 DEF Serving
<1>3. CASE Spawns(c)
  <2>1. /\ wpc' = [wpc EXCEPT ![mine[c]] = "top"] /\ cpc' = [cpc EXCEPT ![c] = "once"]
        /\ UNCHANGED <<chans, opens, wch, mine, state>> /\ cpc[c] = "spawn"
    BY <1>3 DEF Spawns, managerVars
  <2>2. mine[c] \in Handles
    BY <2>1, Numbers DEF Named
  <2>3. Ready => chans \in Handles
    BY Numbers DEF Unstarted
  <2> QED BY <2>1, <2>2, <2>3 DEF Serving, Ready
<1>4. CASE ResetsOnce(c) \/ Arms(c)
  BY <1>4 DEF ResetsOnce, Arms, Serving, Ready, managerVars, loopVars
<1> QED BY <1>1, <1>2, <1>3, <1>4 DEF Connect

\* Every step keeps the invariant.
LEMMA NextServing == StopInv /\ Serving /\ [Next]_vars => Serving'
<1> SUFFICES ASSUME StopInv, Serving, [Next]_vars PROVE Serving'
  OBVIOUS
<1> USE DEF StopInv, PortInv, TypeInv, TypeOK, ManagerType, LoopsType
<1>1. CASE AutoLook
  BY <1>1 DEF AutoLook, Connectors, Serving, Ready, managerVars, loopVars
<1>2. CASE StopsOne
  <2>1. ~Ready' /\ UNCHANGED <<chans, opens>>
    BY <1>2 DEF StopsOne, Closed, ClosedFrame, Ready
  <2>2. \A h \in Handles : wpc'[h] \in {"select", "wait"} => wpc[h] = wpc'[h] /\ wch'[h] = wch[h]
    BY <1>2 DEF StopsOne
  <2> QED BY <2>1, <2>2 DEF Serving
<1>3. ASSUME NEW h \in Handles, WriteLoop(h) PROVE Serving'
  <2>1. /\ UNCHANGED <<state, chans, opens, cpc, mine>>
        /\ wpc'[h] \notin {"none", "ended"} /\ wpc[h] # "none"
        /\ \A k \in Handles : k # h => wpc'[k] = wpc[k] /\ wch'[k] = wch[k]
    BY <1>3 DEF WriteLoop, WriteEnters, WriteTakes, PortWrite, WriteEnds, WriteTemps, LoopFrame,
                managerVars, connectVars
  <2>2. wpc'[h] \in {"select", "wait"} => wch'[h] = chans
    BY <1>3 DEF WriteLoop, WriteEnters, WriteTakes, PortWrite, WriteEnds, WriteTemps
  <2>3. h <= chans
    BY <2>1, Numbers DEF Unstarted, Serving
  <2>4. Ready => chans \in Handles
    BY Numbers DEF Unstarted
  <2> QED BY <2>1, <2>2, <2>3, <2>4 DEF Serving, Ready
<1>4. ASSUME NEW h \in Handles, TimerFires(h) \/ ReadHandles(h) PROVE Serving'
  <2>1. UNCHANGED <<chans, opens, cpc, mine, wpc, wch>> /\ (Ready' => Ready)
    BY <1>4 DEF TimerFires, ReadHandles, Finish, Ready, connectVars, loopVars
  <2> QED BY <2>1 DEF Serving
<1>5. CASE UNCHANGED <<state, chans, opens, cpc, mine, wpc, wch>>
  BY <1>5 DEF Serving, Ready
<1>6. \/ AutoLook \/ StopsOne \/ \E c \in Connectors : Connect(c)
      \/ \E h \in Handles : WriteLoop(h) \/ TimerFires(h) \/ ReadHandles(h)
      \/ UNCHANGED <<state, chans, opens, cpc, mine, wpc, wch>>
  BY DEF Next, DisconnectBegins, ReadLoop, ReadEnters, ReadEnds, ReadLooks, TempPolls, PrinterLine, Unplug,
         LoopFrame, vars, managerVars, connectVars, loopVars
<1> QED BY <1>1, <1>2, <1>3, <1>4, <1>5, <1>6, ConnectServing

\* The invariant holds in every behaviour.
LEMMA ServingInvariant == Spec => [](StopInv /\ Serving)
<1>1. Init => StopInv /\ Serving
  BY InitStop DEF Init, Serving, Ready, NoHandle
<1> QED BY <1>1, NextStop, NextServing, PTL DEF Spec

\* Disconnect always has a goroutine to wait for: the writeLoop that it hands a
\* stop token to exists, reads from the channel it sends on, and has not ended.
THEOREM TokenReceiverAlways == Spec => []TokenReceiver
<1>1. StopInv /\ Serving => TokenReceiver
  <2> SUFFICES ASSUME StopInv, Serving, stopping PROVE TokenReceiver
    BY DEF TokenReceiver
  <2> USE DEF StopInv, PortInv, TypeInv, TypeOK
  <2>1. Ready /\ chans \in Handles
    BY Numbers DEF Alone, Ready, Unstarted, ManagerType
  <2>2. wpc[chans] \in {"select", "wait"} => wch[chans] = chans
    <3>1. wch[chans] \in 0 .. opens /\ opens \in Nat /\ chans \in Nat
      BY <2>1, Numbers DEF LoopsType
    <3> QED BY <2>1, <3>1 DEF Serving
  <2> QED BY <2>1, <2>2 DEF Serving, LoopsType, TokenReceiver, Listening
<1> QED BY <1>1, ServingInvariant, PTL
-----------------------------------------------------------------------------
(* The end of a Disconnect.                                                *)

\* Go's select takes any of the channels that are ready: a token that writeLoop
\* could take again and again is taken. Connect comes to its go statements.
StopIsFair == SF_vars(~crashed /\ StopsOne)
SpawnRuns(c) == WF_vars(~crashed /\ Spawns(c))
StopRuns == StopIsFair /\ (\A h \in Handles : WriteLoopRuns(h)) /\ (\A c \in Connectors : SpawnRuns(c))

\* A Disconnect waits, and not for a writeLoop that waits for sm.mu.
Waiting == stopping /\ wpc[chans] # "temps"
WaitingFor(h) == Waiting /\ chans = h
Spawning(c, h) == cpc[c] = "spawn" /\ mine[c] = h

\* The steps that end the wait can be taken.
SpawnCanRun == \A c \in Connectors : cpc[c] = "spawn" /\ stopping => ENABLED <<~crashed /\ Spawns(c)>>_vars
WriterCanRun ==
  \A h \in Handles :
    /\ wpc[h] \in {"top", "write"} /\ stopping =>
         ENABLED <<~crashed /\ (WriteEnters(h) \/ WriteTakes(h) \/ PortWrite(h))>>_vars
    /\ Listening(h) /\ stopping => ENABLED <<~crashed /\ StopsOne>>_vars
StopCanStep == SpawnCanRun /\ WriterCanRun

WaitInv == StopInv /\ Serving /\ TokenReceiver /\ (stopping => ~crashed)

\* The invariant holds in every behaviour.
LEMMA WaitInvariant == Spec => []WaitInv
<1>1. Init => (stopping => ~crashed)
  BY DEF Init
<1>2. StopInv /\ (stopping => ~crashed) /\ [Next]_vars => (stopping => ~crashed)'
  <2> SUFFICES ASSUME StopInv, stopping => ~crashed, [Next]_vars, stopping' PROVE ~crashed'
    OBVIOUS
  <2>1. \/ crashed' = crashed /\ (stopping \/ ~crashed)
        \/ \E h \in Handles : PortWrite(h)
    BY DEF Next, AutoLook, Connect, ConnectBegins, Begins, OpenFails, Opens, Spawns, ResetsOnce, Arms,
       DisconnectBegins, StopsOne, Closed, ClosedFrame, TimerFires, WriteLoop, WriteEnters, WriteTakes,
       WriteEnds, WriteTemps, ReadLoop, ReadEnters, ReadEnds, ReadLooks, ReadHandles, TempPolls, PrinterLine,
       Unplug, LoopFrame, vars, managerVars, loopVars
  <2>2. ASSUME NEW h \in Handles, PortWrite(h) PROVE ~crashed'
    BY <2>2 DEF PortWrite, LoopFrame, managerVars, StopInv, PortInv, Alone
  <2> QED BY <2>1, <2>2
<1> QED BY <1>1, <1>2, ServingInvariant, TokenReceiverAlways, PTL DEF Spec, WaitInv

\* While a Disconnect waits, it has sm.mu: the channels stay as they are.
LEMMA WaitKeepsChannels ==
  ASSUME [Next]_vars, stopping, stopping'
  PROVE  chans' = chans /\ ~StopsOne
<1>1. ~StopsOne
  BY DEF StopsOne, Closed
<1>2. \A c \in Connectors : ~Opens(c)
  BY DEF Opens, MuFree
<1> QED BY <1>1, <1>2 DEF Next, AutoLook, Connect, ConnectBegins, Begins, OpenFails, Spawns, ResetsOnce, Arms,
       DisconnectBegins, TimerFires, WriteLoop, WriteEnters, WriteTakes, PortWrite, WriteEnds, WriteTemps,
       ReadLoop, ReadEnters, ReadEnds, ReadLooks, ReadHandles, TempPolls, PrinterLine, Unplug, LoopFrame,
       vars, managerVars

\* A Connect before its go statements goes nowhere else.
LEMMA SpawnIsNext ==
  ASSUME StopInv, [Next]_vars, stopping, stopping', NEW c \in Connectors, cpc[c] = "spawn"
  PROVE  Spawns(c) \/ UNCHANGED <<cpc[c], mine[c]>>
<1> USE DEF StopInv, PortInv, TypeInv, TypeOK, ManagerType
<1>1. ASSUME NEW d \in Connectors, d # c, Connect(d) PROVE UNCHANGED <<cpc[c], mine[c]>>
  BY <1>1 DEF Connect, ConnectBegins, Begins, OpenFails, Opens, Spawns, ResetsOnce, Arms
<1>2. CASE Connect(c)
  BY <1>2 DEF Connect, ConnectBegins, Begins, OpenFails, Opens, ResetsOnce, Arms
<1>3. CASE AutoLook
  BY <1>3 DEF AutoLook, MuFree
<1>4. CASE UNCHANGED <<cpc, mine>>
  BY <1>4
<1>5. AutoLook \/ (\E d \in Connectors : Connect(d)) \/ UNCHANGED <<cpc, mine>>
  BY DEF Next, DisconnectBegins, StopsOne, Closed, ClosedFrame, TimerFires, WriteLoop, WriteEnters, WriteTakes,
     PortWrite, WriteEnds, WriteTemps, ReadLoop, ReadEnters, ReadEnds, ReadLooks, ReadHandles, TempPolls,
     PrinterLine, Unplug, LoopFrame, vars, connectVars
<1> QED BY <1>1, <1>2, <1>3, <1>4, <1>5

\* No Connect leaves the writeLoop of h unstarted.
LEMMA NobodySpawns ==
  ASSUME NEW c \in Connectors, NEW h \in Handles
  PROVE  /\ []WaitInv /\ [][Next]_vars /\ SpawnRuns(c) /\ []StopCanStep
         /\ []WaitingFor(h) /\ [](wpc[h] = "none")
         => ~Spawning(c, h)
<1>1. StopCanStep => (cpc[c] = "spawn" /\ stopping => ENABLED <<~crashed /\ Spawns(c)>>_vars)
  BY DEF StopCanStep, SpawnCanRun
<1>2. <<~crashed /\ Spawns(c)>>_vars /\ WaitInv /\ Spawning(c, h) => ~(wpc[h] = "none")'
  BY DEF Spawns, Spawning, WaitInv, StopInv, PortInv, TypeInv, TypeOK, LoopsType
<1>3. WaitInv /\ [Next]_vars /\ WaitingFor(h) /\ WaitingFor(h)' /\ Spawning(c, h) =>
        Spawning(c, h)' \/ <<~crashed /\ Spawns(c)>>_vars
  <2> SUFFICES ASSUME WaitInv, [Next]_vars, WaitingFor(h), WaitingFor(h)', Spawning(c, h)
               PROVE  Spawning(c, h)' \/ <<~crashed /\ Spawns(c)>>_vars
    OBVIOUS
  <2>1. Spawns(c) \/ UNCHANGED <<cpc[c], mine[c]>>
    BY SpawnIsNext DEF WaitingFor, Waiting, WaitInv, Spawning
  <2>2. Spawns(c) => cpc' # cpc
    BY DEF Spawns, WaitInv, StopInv, PortInv, TypeInv, TypeOK, ManagerType
  <2>3. ~crashed
    BY DEF WaitInv, WaitingFor, Waiting
  <2> QED BY <2>1, <2>2, <2>3 DEF Spawning, vars, connectVars
<1>4. Spawning(c, h) /\ WaitingFor(h) => cpc[c] = "spawn" /\ stopping
  BY DEF Spawning, WaitingFor, Waiting
<1> QED BY <1>1, <1>2, <1>3, <1>4, PTL DEF SpawnRuns

\* Where the writeLoop that is waited for goes.
LEMMA WriterMoves ==
  ASSUME WaitInv, [Next]_vars, NEW h \in Handles, WaitingFor(h), WaitingFor(h)', wpc[h] # "none"
  PROVE  /\ wpc'[h] # "none"
         /\ wpc[h] = "top" => wpc'[h] = "top" \/ Listening(h)'
         /\ wpc[h] = "write" => wpc'[h] = "write" \/ wpc'[h] = "top" \/ Listening(h)'
         /\ Listening(h) => Listening(h)' \/ wpc'[h] = "top" \/ wpc'[h] = "write"
         /\ WriteEnters(h) \/ WriteTakes(h) \/ PortWrite(h) =>
              /\ wpc[h] = "top" => Listening(h)'
              /\ wpc[h] = "write" => wpc'[h] = "top" \/ Listening(h)'
<1> USE DEF WaitInv, StopInv, PortInv, TypeInv, TypeOK, LoopsType, ManagerType
<1>1. chans' = chans /\ chans = h /\ wpc[h] # "temps" /\ wpc'[h] # "temps" /\ ~StopsOne /\ stopping
  BY WaitKeepsChannels DEF WaitingFor, Waiting
<1>2. CASE WriteLoop(h)
  <2>1. CASE WriteEnters(h)
    BY <1>1, <2>1 DEF WriteEnters, Listening
  <2>2. CASE WriteTakes(h)
    BY <1>1, <2>2 DEF WriteTakes, Listening
  <2>3. CASE PortWrite(h)
    BY <1>1, <2>3 DEF PortWrite, Listening
  <2>4. CASE WriteEnds(h)
    BY <1>1, <2>4 DEF WriteEnds, WriteEnters, WriteTakes, PortWrite, Listening
  <2>5. CASE WriteTemps(h)
    BY <1>1, <2>5 DEF WriteTemps, WriteEnters, WriteTakes, PortWrite, Listening
  <2> QED BY <1>2, <2>1, <2>2, <2>3, <2>4, <2>5 DEF WriteLoop
<1>3. CASE UNCHANGED <<wpc[h], wch[h]>> /\ ~WriteLoop(h)
  BY <1>1, <1>3 DEF Listening, WriteLoop
<1>4. ASSUME NEW c \in Connectors, Spawns(c) PROVE UNCHANGED <<wpc[h], wch[h]>>
  BY <1>1, <1>4 DEF Spawns, Unstarted
<1>5. ASSUME NEW k \in Handles, k # h, WriteLoop(k) PROVE UNCHANGED <<wpc[h], wch[h]>>
  BY <1>5 DEF WriteLoop, WriteEnters, WriteTakes, PortWrite, WriteEnds, WriteTemps
<1>6. \/ \E c \in Connectors : Spawns(c)
      \/ \E k \in Handles : WriteLoop(k)
      \/ UNCHANGED <<wpc, wch>>
  BY <1>1 DEF Next, AutoLook, Connect, ConnectBegins, Begins, OpenFails, Opens, ResetsOnce, Arms,
     DisconnectBegins, TimerFires, ReadLoop, ReadEnters, ReadEnds, ReadLooks, ReadHandles, TempPolls,
     PrinterLine, Unplug, LoopFrame, vars, loopVars
<1> QED BY <1>2, <1>3, <1>4, <1>5, <1>6

\* A writeLoop that runs on takes the token.
LEMMA TokenIsTaken ==
  ASSUME NEW h \in Handles
  PROVE  /\ []WaitInv /\ [][Next]_vars /\ StopIsFair /\ WriteLoopRuns(h) /\ []StopCanStep
         /\ []WaitingFor(h)
         => wpc[h] = "none"
<1>1. StopCanStep =>
        /\ wpc[h] \in {"top", "write"} /\ stopping =>
             ENABLED <<~crashed /\ (WriteEnters(h) \/ WriteTakes(h) \/ PortWrite(h))>>_vars
        /\ Listening(h) /\ stopping => ENABLED <<~crashed /\ StopsOne>>_vars
  BY DEF StopCanStep, WriterCanRun
<1>2. <<~crashed /\ StopsOne>>_vars => ~stopping'
  BY DEF StopsOne, Closed
<1>3. WaitingFor(h) => stopping
  BY DEF WaitingFor, Waiting
<1>4. WaitInv /\ WaitingFor(h) =>
        wpc[h] = "none" \/ wpc[h] = "top" \/ wpc[h] = "write" \/ Listening(h)
  BY DEF WaitInv, WaitingFor, Waiting, TokenReceiver, StopInv, PortInv, Unstarted
<1>5. wpc[h] = "top" \/ wpc[h] = "write" => wpc[h] \in {"top", "write"}
  OBVIOUS
<1>6. WaitInv /\ [Next]_vars /\ WaitingFor(h) /\ WaitingFor(h)' /\ ~(wpc[h] = "none") =>
        /\ ~(wpc[h] = "none")'
        /\ wpc[h] = "top" => (wpc[h] = "top")' \/ Listening(h)'
        /\ wpc[h] = "write" => (wpc[h] = "write")' \/ (wpc[h] = "top")' \/ Listening(h)'
  BY WriterMoves
<1>7. WaitInv /\ [Next]_vars /\ WaitingFor(h) /\ WaitingFor(h)' /\ ~(wpc[h] = "none")
        /\ <<~crashed /\ (WriteEnters(h) \/ WriteTakes(h) \/ PortWrite(h))>>_vars =>
        /\ wpc[h] = "top" => Listening(h)'
        /\ wpc[h] = "write" => (wpc[h] = "top")' \/ Listening(h)'
  <2> SUFFICES ASSUME WaitInv, [Next]_vars, WaitingFor(h), WaitingFor(h)', wpc[h] # "none",
                      WriteEnters(h) \/ WriteTakes(h) \/ PortWrite(h)
               PROVE  /\ wpc[h] = "top" => Listening(h)'
                      /\ wpc[h] = "write" => (wpc[h] = "top")' \/ Listening(h)'
    OBVIOUS
  <2> QED BY WriterMoves
<1> QED BY <1>1, <1>2, <1>3, <1>4, <1>5, <1>6, <1>7, PTL DEF StopIsFair, WriteLoopRuns

\* A Disconnect comes to its end, for any number of connections and commands: only a
\* writeLoop that waits for sm.mu to store temperatures keeps it for ever, never one
\* that has commands to write, fails to write them, or is still to be started.
THEOREM DisconnectReturnsIfFair == Spec /\ []StopRuns /\ []StopCanStep => DisconnectReturns
<1> DEFINE Rest == []WaitInv /\ [][Next]_vars /\ []StopCanStep
<1>1. ASSUME NEW h \in Handles PROVE Rest /\ []StopRuns => ~[]WaitingFor(h)
  <2> DEFINE Idle == []WaitingFor(h) /\ [](wpc[h] = "none")
  <2>1. ASSUME NEW c \in Connectors PROVE Rest /\ StopRuns /\ Idle => ~Spawning(c, h)
    <3>1. StopRuns => SpawnRuns(c)
      BY DEF StopRuns
    <3>2. /\ []WaitInv /\ [][Next]_vars /\ SpawnRuns(c) /\ []StopCanStep
          /\ []WaitingFor(h) /\ [](wpc[h] = "none")
          => ~Spawning(c, h)
      BY NobodySpawns
    <3> QED BY <3>1, <3>2, PTL
  <2> HIDE DEF Rest, Idle
  <2>2. Rest /\ StopRuns /\ Idle => \A c \in Connectors : ~Spawning(c, h)
    BY <2>1
  <2>3. WaitInv /\ WaitingFor(h) /\ wpc[h] = "none" => ~ \A c \in Connectors : ~Spawning(c, h)
    BY DEF WaitInv, WaitingFor, Waiting, TokenReceiver, Listening, Spawning
  <2>4. StopRuns => StopIsFair /\ WriteLoopRuns(h)
    BY DEF StopRuns
  <2>5. /\ []WaitInv /\ [][Next]_vars /\ StopIsFair /\ WriteLoopRuns(h) /\ []StopCanStep
        /\ []WaitingFor(h)
        => wpc[h] = "none"
    BY TokenIsTaken
  <2> QED BY <2>2, <2>3, <2>4, <2>5, PTL DEF Rest, Idle
<1>2. WaitInv /\ [Next]_vars /\ Waiting /\ Waiting' => chans' = chans
  BY WaitKeepsChannels DEF Waiting
<1>3. ASSUME NEW h \in Handles PROVE Rest /\ []StopRuns /\ []Waiting => ~(chans = h)
  <2>1. WaitInv /\ [Next]_vars /\ Waiting /\ Waiting' /\ chans = h => (chans = h)'
    BY <1>2
  <2>2. Waiting /\ chans = h => WaitingFor(h)
    BY DEF WaitingFor
  <2> QED BY <1>1, <2>1, <2>2, PTL
<1> HIDE DEF Rest
<1>4. Rest /\ []StopRuns /\ []Waiting => \A h \in Handles : ~(chans = h)
  BY <1>3
<1>5. WaitInv /\ Waiting => ~ \A h \in Handles : ~(chans = h)
  <2>1. WaitInv /\ Waiting => chans \in Handles
    BY Numbers DEF WaitInv, Waiting, StopInv, PortInv, TypeInv, TypeOK, ManagerType, Alone, Unstarted, Ready
  <2> QED BY <2>1
<1>6. ~Waiting => ~stopping \/ wpc[chans] = "temps"
  BY DEF Waiting
<1> QED BY <1>4, <1>5, <1>6, WaitInvariant, PTL DEF Rest, Spec, DisconnectReturns
=============================================================================
