----------------------------- MODULE StatusFeed -----------------------------
(***************************************************************************)
(* Where the job manager, the web API and the serial manager meet:         *)
(* jm.Lock guards the status, and SendPriorityCommand keeps it while it    *)
(* waits for the serial manager; readLoop needs it to report a line, also  *)
(* the "ok" that ends the initialization; GET /api/job subscribes to the   *)
(* status, and every change of it starts one goroutine per subscriber,     *)
(* which reads the status without jm.Lock.                                 *)
(*                                                                         *)
(* The status is the number of its changes. A critical section is one step *)
(* unless another lock or a wait is inside it. Connections are in less     *)
(* detail than in SerialConnection: Connect is one step, and the stop      *)
(* token of Disconnect is taken by a writeLoop that needs no lock for it.  *)
(***************************************************************************)
EXTENDS Naturals, Sequences

CONSTANTS
  Readers,      \* requests for the job status
  Senders,      \* requests that send G-code commands
  Size,         \* how many commands each of those has
  MaxConnects,  \* bound: connections
  MaxChanges    \* bound: lines of the printer and changes of the job

ASSUME FeedAssumption ==
  /\ Readers \cap Senders = {}
  /\ Size \in [Senders -> Nat \ {0}]
  /\ MaxConnects \in Nat \ {0} /\ MaxChanges \in Nat

Conns == 1 .. MaxConnects

VARIABLES
  state, mu,     \* sm.state, and who holds sm.mu across steps
  conn,          \* the connection that is up, or the last one
  timer,         \* initTimer runs
  rd,            \* readLoop of each connection, and the line in its hands
  version,       \* jm.status
  changes,
  rpc,           \* where each request for the status is
  chan,          \* the channel of each subscriber
  closed,        \* channels that are closed
  spawned,       \* goroutines of broadcast that have not sent yet
  got,           \* what each request for the status replied
  asked,         \* history: the status when the request came
  spc, left      \* where each request to send is, and its commands not sent

serialVars == <<state, mu, conn, timer, rd>>
feedVars   == <<version, chan, closed, spawned>>
readerVars == <<rpc, got, asked>>
senderVars == <<spc, left>>
vars == <<serialVars, feedVars, readerVars, senderVars, changes>>

Torn == 0    \* a status read while it is written

NotStarted == [at |-> "none", seen |-> "none", ok |-> FALSE]
Scanning   == [at |-> "scan", seen |-> "none", ok |-> FALSE]

MuFree == mu = "none"

\* SendPriorityCommand holds jm.Lock from its first look at the connection on.
HoldsJm(k) == spc[k] \in {"conn", "ready", "look", "push"}
JmFree == \A k \in Senders : ~HoldsJm(k)

Init ==
  /\ state = "Connected" /\ mu = "none" /\ conn = 1 /\ timer = FALSE
  /\ rd = [h \in Conns |-> IF h = 1 THEN Scanning ELSE NotStarted]
  /\ version = 1 /\ changes = 0
  /\ rpc = [r \in Readers |-> "idle"] /\ chan = [r \in Readers |-> <<>>]
  /\ closed = {} /\ spawned = [r \in Readers |-> 0]
  /\ got = [r \in Readers |-> 0] /\ asked = [r \in Readers |-> 0]
  /\ spc = [k \in Senders |-> "idle"] /\ left = Size

-----------------------------------------------------------------------------
(* The status, its subscribers and broadcast.                              *)

Subscribed(r) == rpc[r] \in {"select", "snap", "unsub"}

\* A change of jm.status and broadcast: a goroutine for every subscriber.
Changes ==
  /\ version' = version + 1
  /\ spawned' = [r \in Readers |-> IF Subscribed(r) THEN spawned[r] + 1 ELSE spawned[r]]
  /\ UNCHANGED <<chan, closed>>

\* runPrint, StartPrint, Cancel: they change the status under jm.Lock.
JobChanges ==
  /\ JmFree /\ changes < MaxChanges
  /\ changes' = changes + 1
  /\ Changes
  /\ UNCHANGED <<serialVars, readerVars, senderVars>>

\* c <- jm.status: the status is read at some moment after the goroutine was
\* started, without jm.Lock. A closed channel makes it panic and recover.
SendsStatus(r) ==
  /\ spawned[r] > 0
  /\ spawned' = [spawned EXCEPT ![r] = @ - 1]
  /\ \/ r \in closed /\ UNCHANGED chan
     \/ /\ r \notin closed /\ chan[r] = <<>>
        /\ \E v \in 1 .. version \cup {Torn} : chan' = [chan EXCEPT ![r] = <<v>>]
  /\ UNCHANGED <<version, closed, serialVars, readerVars, senderVars, changes>>

-----------------------------------------------------------------------------
(* octoGetJobStatus.                                                       *)

Asks(r) ==
  /\ rpc[r] = "idle"
  /\ rpc' = [rpc EXCEPT ![r] = "asked"]
  /\ asked' = [asked EXCEPT ![r] = version]
  /\ UNCHANGED <<got, serialVars, feedVars, senderVars, changes>>

\* Mutant: the channel starts empty.
SubscribesEmpty(r) ==
  /\ rpc[r] = "asked" /\ JmFree
  /\ rpc' = [rpc EXCEPT ![r] = "select"]
  /\ UNCHANGED <<got, asked, serialVars, feedVars, senderVars, changes>>

\* The channel, of capacity 1, starts with the present status in it.
Subscribes(r) ==
  /\ rpc[r] = "asked" /\ JmFree
  /\ chan' = [chan EXCEPT ![r] = <<version>>]
  /\ rpc' = [rpc EXCEPT ![r] = "select"]
  /\ UNCHANGED <<version, closed, spawned, got, asked, serialVars, senderVars, changes>>

\* v := <-c, or five seconds are over.
Selects(r) ==
  /\ rpc[r] = "select"
  /\ \/ /\ chan[r] # <<>>
        /\ got' = [got EXCEPT ![r] = Head(chan[r])]
        /\ chan' = [chan EXCEPT ![r] = <<>>]
        /\ rpc' = [rpc EXCEPT ![r] = "unsub"]
     \/ /\ rpc' = [rpc EXCEPT ![r] = "snap"]
        /\ UNCHANGED <<got, chan>>
  /\ UNCHANGED <<version, closed, spawned, asked, serialVars, senderVars, changes>>

Snapshots(r) ==
  /\ rpc[r] = "snap" /\ JmFree
  /\ got' = [got EXCEPT ![r] = version]
  /\ rpc' = [rpc EXCEPT ![r] = "unsub"]
  /\ UNCHANGED <<asked, feedVars, serialVars, senderVars, changes>>

\* Mutant: the channel is left to the garbage collector.
UnsubscribesOpen(r) ==
  /\ rpc[r] = "unsub" /\ JmFree
  /\ rpc' = [rpc EXCEPT ![r] = "done"]
  /\ UNCHANGED <<got, asked, feedVars, serialVars, senderVars, changes>>

Unsubscribes(r) ==
  /\ rpc[r] = "unsub" /\ JmFree
  /\ closed' = closed \cup {r}
  /\ rpc' = [rpc EXCEPT ![r] = "done"]
  /\ UNCHANGED <<version, chan, spawned, got, asked, serialVars, senderVars, changes>>

-----------------------------------------------------------------------------
(* octoPrinterCommand and SendPriorityCommand.                             *)

Goes(k, to) == spc' = [spc EXCEPT ![k] = to]

\* An error ends the request; jm.Lock, where it is held, is released.
Fails(k) == Goes(k, "done")

\* IsConnected, before the first command.
Posts(k) ==
  /\ spc[k] = "idle" /\ MuFree
  /\ \/ state = "Connected" /\ Goes(k, "lock")
     \/ state # "Connected" /\ Fails(k)
  /\ UNCHANGED <<left, serialVars, feedVars, readerVars, changes>>

\* Mutant: SendPriorityCommand without jm.Lock.
LocksNothing(k) ==
  /\ spc[k] = "lock"
  /\ Goes(k, "conn")
  /\ UNCHANGED <<left, serialVars, feedVars, readerVars, changes>>

Locks(k) ==
  /\ spc[k] = "lock" /\ JmFree
  /\ Goes(k, "conn")
  /\ UNCHANGED <<left, serialVars, feedVars, readerVars, changes>>

\* IsConnected again; the command is logged and LastCommand set.
Logs(k) ==
  /\ spc[k] = "conn" /\ MuFree
  /\ \/ state = "Connected" /\ Changes /\ Goes(k, "ready")
     \/ state # "Connected" /\ Fails(k) /\ UNCHANGED feedVars
  /\ UNCHANGED <<left, serialVars, readerVars, changes>>

\* WaitReady: a printer that initializes is polled for at most ten seconds.
Waits(k) ==
  /\ spc[k] = "ready" /\ MuFree
  /\ \/ state = "Connected" /\ Goes(k, "look")
     \/ state # "Connected" /\ Fails(k)
  /\ UNCHANGED <<left, serialVars, feedVars, readerVars, changes>>

Looks(k) ==
  /\ spc[k] = "look" /\ MuFree
  /\ \/ state = "Connected" /\ Goes(k, "push")
     \/ state # "Connected" /\ Fails(k)
  /\ UNCHANGED <<left, serialVars, feedVars, readerVars, changes>>

\* The command is queued, or dropped by a full queue: both return at once, and
\* jm.Lock is released.
Pushes(k) ==
  /\ spc[k] = "push"
  /\ left' = [left EXCEPT ![k] = @ - 1]
  /\ Goes(k, IF left[k] > 1 THEN "lock" ELSE "done")
  /\ UNCHANGED <<serialVars, feedVars, readerVars, changes>>

-----------------------------------------------------------------------------
(* The serial manager.                                                     *)

\* Mutant: the handler is called with sm.mu held.
ScansLocked(h) ==
  /\ rd[h].at = "scan" /\ h = conn /\ state # "Disconnected" /\ MuFree
  /\ changes < MaxChanges /\ changes' = changes + 1
  /\ \E ok \in BOOLEAN : rd' = [rd EXCEPT ![h] = [at |-> "line", seen |-> state, ok |-> ok]]
  /\ mu' = "readLoop"
  /\ UNCHANGED <<state, conn, timer, feedVars, readerVars, senderVars>>

\* readLoop has a line: it reads the state and the handler under sm.mu.
Scans(h) ==
  /\ rd[h].at = "scan" /\ h = conn /\ state # "Disconnected" /\ MuFree
  /\ changes < MaxChanges /\ changes' = changes + 1
  /\ \E ok \in BOOLEAN : rd' = [rd EXCEPT ![h] = [at |-> "line", seen |-> state, ok |-> ok]]
  /\ UNCHANGED <<state, mu, conn, timer, feedVars, readerVars, senderVars>>

\* The handler: LastReply, the log and broadcast under jm.Lock.
Handles(h) ==
  /\ rd[h].at = "line" /\ JmFree
  /\ Changes
  /\ rd' = [rd EXCEPT ![h].at = "state"]
  /\ mu' = IF mu = "readLoop" THEN "none" ELSE mu
  /\ UNCHANGED <<state, conn, timer, readerVars, senderVars, changes>>

\* resetInitTimer and finishInitialization, or sm.inbound.
Follows(h) ==
  /\ rd[h].at = "state" /\ MuFree
  /\ rd' = [rd EXCEPT ![h] = Scanning]
  /\ timer' = (timer \/ rd[h].seen = "Initializing")
  /\ state' = IF rd[h].seen = "Initializing" /\ rd[h].ok /\ state = "Initializing"
              THEN "Connected" ELSE state
  /\ UNCHANGED <<mu, conn, feedVars, readerVars, senderVars, changes>>

TimerFires ==
  /\ timer /\ MuFree
  /\ timer' = FALSE
  /\ state' = IF state = "Initializing" THEN "Connected" ELSE state
  /\ UNCHANGED <<mu, conn, rd, feedVars, readerVars, senderVars, changes>>

\* A new port and new loops.
Connects ==
  /\ state = "Disconnected" /\ MuFree /\ conn < MaxConnects
  /\ state' = "Initializing" /\ conn' = conn + 1
  /\ timer' = TRUE
  /\ rd' = [rd EXCEPT ![conn + 1] = Scanning]
  /\ UNCHANGED <<mu, feedVars, readerVars, senderVars, changes>>

\* Disconnect holds sm.mu until its stop token is taken.
Disconnects ==
  /\ state = "Connected" /\ MuFree
  /\ mu' = "Disconnect"
  /\ UNCHANGED <<state, conn, timer, rd, feedVars, readerVars, senderVars, changes>>

Disconnected ==
  /\ mu = "Disconnect"
  /\ mu' = "none" /\ state' = "Disconnected"
  /\ UNCHANGED <<conn, timer, rd, feedVars, readerVars, senderVars, changes>>

-----------------------------------------------------------------------------

Answers(r) == Subscribes(r) \/ Selects(r) \/ Snapshots(r) \/ Unsubscribes(r)
GetJobStatus(r) == Asks(r) \/ Answers(r)
SendsCommands(k) == Locks(k) \/ Logs(k) \/ Waits(k) \/ Looks(k) \/ Pushes(k)
PrinterCommand(k) == Posts(k) \/ SendsCommands(k)
ReadLoop(h) == Scans(h) \/ Handles(h) \/ Follows(h)

Next ==
  \/ JobChanges
  \/ \E r \in Readers : SendsStatus(r) \/ GetJobStatus(r)
  \/ \E k \in Senders : PrinterCommand(k)
  \/ \E h \in Conns : ReadLoop(h)
  \/ TimerFires \/ Connects \/ Disconnects \/ Disconnected

Spec == Init /\ [][Next]_vars

\* Handlers and goroutines run on, timers expire and stop tokens are taken.
\* Nobody has to ask, to connect or to print a line.
Fairness ==
  /\ \A r \in Readers : WF_vars(SendsStatus(r)) /\ WF_vars(Answers(r))
  /\ \A k \in Senders : WF_vars(SendsCommands(k))
  /\ \A h \in Conns : WF_vars(Handles(h) \/ Follows(h))
  /\ WF_vars(Disconnected) /\ WF_vars(TimerFires)

FairSpec == Spec /\ Fairness

-----------------------------------------------------------------------------
(* Properties.                                                             *)

SerialType ==
  /\ state \in {"Disconnected", "Initializing", "Connected"}
  /\ mu \in {"none", "Disconnect", "readLoop"} /\ conn \in Conns /\ timer \in BOOLEAN
  /\ rd \in [Conns -> [at : {"none", "scan", "line", "state"},
                       seen : {"none", "Initializing", "Connected"}, ok : BOOLEAN]]

FeedType ==
  /\ version \in Nat \ {0} /\ changes \in 0 .. MaxChanges
  /\ rpc \in [Readers -> {"idle", "asked", "select", "snap", "unsub", "done"}]
  /\ chan \in [Readers -> Seq(Nat)] /\ \A r \in Readers : Len(chan[r]) <= 1
  /\ closed \subseteq Readers /\ spawned \in [Readers -> Nat]
  /\ got \in [Readers -> Nat] /\ asked \in [Readers -> Nat]

SendType ==
  /\ spc \in [Senders -> {"idle", "lock", "conn", "ready", "look", "push", "done"}]
  /\ left \in [Senders -> Nat]
  /\ \A j, k \in Senders : HoldsJm(j) /\ HoldsJm(k) => j = k

\* Every variable keeps its type, jm.Lock has at most one holder and a channel
\* at most one value.
TypeOK == SerialType /\ FeedType /\ SendType

\* A reply is a status that there really was, not older than the request,
\* although broadcast reads the status while others write it.
TrueReply ==
  \A r \in Readers : rpc[r] \in {"unsub", "done"} => got[r] \in asked[r] .. version

\* Every request for the status and every request to send is answered:
\* jm.Lock and sm.mu never wait for each other, and a printer that boots while
\* SendPriorityCommand holds jm.Lock keeps it no longer than WaitReady allows.
RequestsEnd ==
  /\ \A r \in Readers : []<>(rpc[r] \in {"idle", "done"})
  /\ \A k \in Senders : []<>(spc[k] \in {"idle", "done"})

\* No goroutine of broadcast is left behind by a subscriber that has gone.
GoroutinesEnd == \A r \in Readers : []<>(spawned[r] = 0)
=============================================================================
