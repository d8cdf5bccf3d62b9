-------------------------- MODULE StatusFeedProofs --------------------------
(***************************************************************************)
(* The replies of octoGetJobStatus, the owner of jm.Lock, the goroutines   *)
(* of broadcast that wait for a subscriber, and who gets jm.Lock and       *)
(* sm.mu, for any number of requests, commands, lines and connections. The *)
(* prover knows nothing of ENABLED: that a handler can take its next step  *)
(* is a hypothesis of the theorem about the locks.                         *)
(***************************************************************************)
EXTENDS StatusFeed, TLAPS

\* A request to send that is not through has a command left: left never drops
\* below zero.
LeftToSend == \A k \in Senders : spc[k] # "done" => left[k] > 0

\* While a request waits in its select, its channel holds the value Subscribe
\* put there: no goroutine of broadcast can add another before it is received.
FirstInChannel ==
  \A r \in Readers :
    /\ asked[r] <= version
    /\ rpc[r] = "select" => Len(chan[r]) = 1 /\ chan[r][1] \in asked[r] .. version

IInv == TypeOK /\ LeftToSend /\ FirstInChannel /\ TrueReply

\* The invariant holds at the start.
LEMMA InitIInv == Init => IInv
<1> SUFFICES ASSUME Init PROVE IInv
  OBVIOUS
<1> USE FeedAssumption
<1>1. SerialType
  <2>4. 1 \in Conns
    BY DEF Conns
  <2>5. rd \in [Conns -> [at : {"none", "scan", "line", "state"},
                         seen : {"none", "Initializing", "Connected"}, ok : BOOLEAN]]
    BY DEF Init, Scanning, NotStarted
  <2>6. state = "Connected" /\ mu = "none" /\ conn = 1 /\ timer = FALSE
    BY DEF Init
  <2> QED BY <2>4, <2>5, <2>6 DEF SerialType
<1>2. FeedType
  BY DEF Init, FeedType
<1>3. SendType
  BY DEF Init, SendType, HoldsJm
<1>4. LeftToSend /\ FirstInChannel /\ TrueReply
  BY DEF Init, LeftToSend, FirstInChannel, TrueReply
<1> QED BY <1>1, <1>2, <1>3, <1>4 DEF IInv, TypeOK

\* A change of the status leaves true what was true of the replies.
LEMMA ChangesKeep ==
  ASSUME FeedType, FirstInChannel, TrueReply, Changes, UNCHANGED readerVars,
         changes' \in 0 .. MaxChanges
  PROVE  FeedType' /\ FirstInChannel' /\ TrueReply'
<1> USE DEF Changes, readerVars, FeedType
<1>1. version' \in Nat /\ version' = version + 1 /\ version \in Nat
  OBVIOUS
<1>2. FeedType'
  BY <1>1
<1>3. FirstInChannel' /\ TrueReply'
  BY <1>1 DEF FirstInChannel, TrueReply
<1> QED BY <1>2, <1>3

\* What leaves the status and its readers alone.
LEMMA FeedUnmoved ==
  ASSUME FeedType, FirstInChannel, TrueReply, UNCHANGED <<feedVars, readerVars>>,
         changes' \in 0 .. MaxChanges
  PROVE  FeedType' /\ FirstInChannel' /\ TrueReply'
  BY DEF FeedType, FirstInChannel, TrueReply, feedVars, readerVars

\* What leaves the requests to send alone.
LEMMA SendUnmoved ==
  ASSUME SendType, LeftToSend, UNCHANGED senderVars
  PROVE  SendType' /\ LeftToSend'
  BY DEF SendType, LeftToSend, senderVars, HoldsJm

\* What leaves the serial manager alone.
LEMMA SerialUnmoved ==
  ASSUME SerialType, UNCHANGED serialVars
  PROVE  SerialType'
  BY DEF SerialType, serialVars

\* The goroutines of broadcast and the requests for the status.
LEMMA ReadersKeep ==
  ASSUME IInv, NEW r \in Readers, SendsStatus(r) \/ GetJobStatus(r)
  PROVE  IInv'
<1> USE DEF IInv, TypeOK
<1>1. UNCHANGED <<serialVars, senderVars, changes>>
  BY DEF SendsStatus, GetJobStatus, Asks, Answers, Subscribes, Selects, Snapshots, Unsubscribes
<1>2. SerialType' /\ SendType' /\ LeftToSend'
  BY <1>1, SerialUnmoved, SendUnmoved
<1>3. CASE SendsStatus(r)
  <2>1. /\ UNCHANGED <<version, closed, readerVars>>
        /\ spawned' = [spawned EXCEPT ![r] = @ - 1] /\ spawned[r] > 0
    BY <1>3 DEF SendsStatus
  <2>2. CASE UNCHANGED chan
    BY <1>1, <1>2, <2>1, <2>2 DEF FeedType, FirstInChannel, TrueReply, readerVars
  <2>3. CASE chan[r] = <<>> /\ \E v \in 1 .. version \cup {Torn} : chan' = [chan EXCEPT ![r] = <<v>>]
    <3>1. PICK v \in 1 .. version \cup {Torn} : chan' = [chan EXCEPT ![r] = <<v>>]
      BY <2>3
    <3>2. v \in Nat /\ <<v>> \in Seq(Nat) /\ Len(<<v>>) = 1
      BY DEF Torn, FeedType
    <3>3. FeedType'
      BY <1>1, <2>1, <3>1, <3>2 DEF FeedType, readerVars
    <3>4. rpc[r] # "select"
      BY <2>3 DEF FirstInChannel
    <3>5. FirstInChannel' /\ TrueReply'
      BY <2>1, <3>1, <3>4 DEF FirstInChannel, TrueReply, readerVars, FeedType
    <3> QED BY <1>2, <3>3, <3>5
  <2> QED BY <1>3, <2>2, <2>3 DEF SendsStatus
<1>4. CASE Asks(r)
  BY <1>1, <1>2, <1>4 DEF Asks, feedVars, FeedType, FirstInChannel, TrueReply
<1>5. CASE Subscribes(r)
  <2>1. version \in Nat /\ <<version>> \in Seq(Nat) /\ Len(<<version>>) = 1 /\ <<version>>[1] = version
    BY DEF FeedType
  <2>2. FeedType'
    BY <1>1, <1>5, <2>1 DEF Subscribes, FeedType
  <2>3. FirstInChannel' /\ TrueReply'
    BY <1>5, <2>1 DEF Subscribes, FeedType, FirstInChannel, TrueReply
  <2> QED BY <1>2, <2>2, <2>3
<1>6. CASE Selects(r)
  <2>1. Len(chan[r]) = 1 /\ Head(chan[r]) = chan[r][1] /\ chan[r][1] \in asked[r] .. version
    BY <1>6 DEF Selects, FirstInChannel, FeedType
  <2>2. FeedType'
    <3>1. <<>> \in Seq(Nat) /\ Len(<<>>) = 0 /\ Head(chan[r]) \in Nat
      BY <2>1 DEF FeedType
    <3>2. chan' \in [Readers -> Seq(Nat)] /\ \A q \in Readers : Len(chan'[q]) <= 1
      <4>1. CASE chan' = [chan EXCEPT ![r] = <<>>]
        BY <3>1, <4>1 DEF FeedType
      <4>2. CASE chan' = chan
        BY <4>2 DEF FeedType
      <4> QED BY <1>6, <4>1, <4>2 DEF Selects
    <3>3. got' \in [Readers -> Nat]
      BY <1>6, <3>1 DEF Selects, FeedType
    <3> QED BY <1>1, <1>6, <3>2, <3>3 DEF Selects, FeedType
  <2>3. FirstInChannel' /\ TrueReply'
    BY <1>6, <2>1 DEF Selects, FeedType, FirstInChannel, TrueReply
  <2> QED BY <1>2, <2>2, <2>3
<1>7. CASE Snapshots(r)
  BY <1>1, <1>2, <1>7 DEF Snapshots, feedVars, FeedType, FirstInChannel, TrueReply
<1>8. CASE Unsubscribes(r)
  BY <1>1, <1>2, <1>8 DEF Unsubscribes, FeedType, FirstInChannel, TrueReply
<1> QED BY <1>3, <1>4, <1>5, <1>6, <1>7, <1>8 DEF GetJobStatus, Answers

\* The requests to send: jm.Lock has one owner, and each push uses up a command.
LEMMA SendersKeep ==
  ASSUME IInv, NEW k \in Senders, PrinterCommand(k)
  PROVE  IInv'
<1> USE DEF IInv, TypeOK
<1>1. UNCHANGED <<serialVars, readerVars, changes>> /\ SerialType' /\ changes' \in 0 .. MaxChanges
  <2>1. UNCHANGED <<serialVars, readerVars, changes>>
    BY DEF PrinterCommand, SendsCommands, Posts, Locks, Logs, Waits, Looks, Pushes
  <2> QED BY <2>1, SerialUnmoved DEF FeedType
<1>2. FeedType' /\ FirstInChannel' /\ TrueReply'
  <2>1. CASE UNCHANGED feedVars
    BY <1>1, <2>1, FeedUnmoved
  <2>2. CASE Changes
    BY <1>1, <2>2, ChangesKeep
  <2> QED BY <2>1, <2>2 DEF PrinterCommand, SendsCommands, Posts, Locks, Logs, Waits, Looks, Pushes
<1>3. SendType' /\ LeftToSend'
  <2> USE DEF SendType, LeftToSend, HoldsJm, Goes, Fails
  <2>1. CASE Posts(k)
    BY <2>1 DEF Posts
  <2>2. CASE Locks(k)
    BY <2>2 DEF Locks, JmFree
  <2>3. CASE Logs(k)
    BY <2>3 DEF Logs
  <2>4. CASE Waits(k)
    BY <2>4 DEF Waits
  <2>5. CASE Looks(k)
    BY <2>5 DEF Looks
  <2>6. CASE Pushes(k)
    BY <2>6 DEF Pushes
  <2> QED BY <2>1, <2>2, <2>3, <2>4, <2>5, <2>6 DEF PrinterCommand, SendsCommands
<1> QED BY <1>1, <1>2, <1>3

\* The steps of readLoop.
LEMMA ReadLoopKeeps ==
  ASSUME IInv, NEW h \in Conns, ReadLoop(h)
  PROVE  IInv'
<1> USE DEF IInv, TypeOK
<1>1. UNCHANGED <<readerVars, senderVars>> /\ SendType' /\ LeftToSend'
  <2>1. UNCHANGED <<readerVars, senderVars>>
    BY DEF ReadLoop, Scans, Handles, Follows
  <2> QED BY <2>1, SendUnmoved
<1>2. CASE Scans(h)
  <2>1. SerialType'
    BY <1>2 DEF Scans, SerialType
  <2>2. UNCHANGED feedVars /\ changes' \in 0 .. MaxChanges
    BY <1>2, FeedAssumption DEF Scans, FeedType
  <2> QED BY <1>1, <2>1, <2>2, FeedUnmoved
<1>3. CASE Handles(h)
  <2>1. SerialType'
    BY <1>3 DEF Handles, SerialType
  <2>2. Changes /\ changes' \in 0 .. MaxChanges
    BY <1>3 DEF Handles, FeedType
  <2> QED BY <1>1, <2>1, <2>2, ChangesKeep
<1>4. CASE Follows(h)
  <2>1. SerialType'
    BY <1>4 DEF Follows, SerialType, Scanning
  <2>2. UNCHANGED feedVars /\ changes' \in 0 .. MaxChanges
    BY <1>4 DEF Follows, FeedType
  <2> QED BY <1>1, <2>1, <2>2, FeedUnmoved
<1> QED BY <1>2, <1>3, <1>4 DEF ReadLoop

\* Connect, Disconnect and the timer.
LEMMA ConnectionKeeps ==
  ASSUME IInv, TimerFires \/ Connects \/ Disconnects \/ Disconnected
  PROVE  IInv'
<1> USE DEF IInv, TypeOK
<1>1. UNCHANGED <<feedVars, readerVars, senderVars, changes>>
  BY DEF TimerFires, Connects, Disconnects, Disconnected
<1>2. SerialType'
  <2>1. CASE TimerFires
    BY <2>1 DEF TimerFires, SerialType
  <2>2. CASE Connects
    <3>1. conn + 1 \in Conns
      BY <2>2, FeedAssumption DEF Connects, SerialType, Conns
    <3> QED BY <2>2, <3>1 DEF Connects, SerialType, Scanning
  <2>3. CASE Disconnects \/ Disconnected
    BY <2>3 DEF Disconnects, Disconnected, SerialType
  <2> QED BY <2>1, <2>2, <2>3
<1>3. changes' \in 0 .. MaxChanges
  BY <1>1 DEF FeedType
<1> QED BY <1>1, <1>2, <1>3, FeedUnmoved, SendUnmoved

\* Every step keeps the invariant.
LEMMA NextIInv == IInv /\ [Next]_vars => IInv'
<1> SUFFICES ASSUME IInv, [Next]_vars PROVE IInv'
  OBVIOUS
<1> USE DEF IInv, TypeOK
<1>1. CASE JobChanges
  <2>1. UNCHANGED <<serialVars, readerVars, senderVars>> /\ Changes
    BY <1>1 DEF JobChanges
  <2>2. changes' \in 0 .. MaxChanges
    BY <1>1, FeedAssumption DEF JobChanges, FeedType
  <2> QED BY <2>1, <2>2, SerialUnmoved, SendUnmoved, ChangesKeep
<1>2. CASE \E r \in Readers : SendsStatus(r) \/ GetJobStatus(r)
  BY <1>2, ReadersKeep
<1>3. CASE \E k \in Senders : PrinterCommand(k)
  BY <1>3, SendersKeep
<1>4. CASE \E h \in Conns : ReadLoop(h)
  BY <1>4, ReadLoopKeeps
<1>5. CASE TimerFires \/ Connects \/ Disconnects \/ Disconnected
  BY <1>5, ConnectionKeeps
<1>6. CASE UNCHANGED vars
  <2>1. UNCHANGED <<serialVars, feedVars, readerVars, senderVars, changes>>
    BY <1>6 DEF vars
  <2> QED BY <2>1, SerialUnmoved, SendUnmoved, FeedUnmoved DEF FeedType
<1> QED BY <1>1, <1>2, <1>3, <1>4, <1>5, <1>6 DEF Next

\* The invariant holds in every behaviour.
LEMMA Invariant == Spec => []IInv
  BY InitIInv, NextIInv, PTL DEF Spec

\* Variables keep their types, jm.Lock never has two owners and no channel
\* holds two values.
THEOREM TypeCorrect == Spec => []TypeOK
<1>1. IInv => TypeOK
  BY DEF IInv
<1> QED BY <1>1, Invariant, PTL

\* octoGetJobStatus replies a status that there was, not older than its
\* request, however many goroutines of broadcast read the status unlocked.
THEOREM TrueReplyAlways == Spec => []TrueReply
<1>1. IInv => TrueReply
  BY DEF IInv
<1> QED BY <1>1, Invariant, PTL
-----------------------------------------------------------------------------
(* Goroutines that stay behind.                                            *)

\* A goroutine that has not sent yet has a subscriber that will receive or
\* unsubscribe, or a closed channel that makes it panic.
SomebodyReceives == \A r \in Readers : spawned[r] > 0 => Subscribed(r) \/ r \in closed

\* No goroutine of broadcast waits for a subscriber that left its channel open.
THEOREM SomebodyReceivesAlways == Spec => []SomebodyReceives
<1>1. Init => SomebodyReceives
  BY DEF Init, SomebodyReceives
<1>2. IInv /\ SomebodyReceives /\ [Next]_vars => SomebodyReceives'
  <2> SUFFICES ASSUME IInv, SomebodyReceives, [Next]_vars PROVE SomebodyReceives'
    OBVIOUS
  <2> USE DEF IInv, TypeOK, FeedType, SomebodyReceives, Subscribed
  <2>1. CASE Changes /\ UNCHANGED readerVars
    BY <2>1 DEF Changes, readerVars
  <2>2. ASSUME NEW r \in Readers, SendsStatus(r) PROVE SomebodyReceives'
    BY <2>2 DEF SendsStatus, readerVars
  <2>3. ASSUME NEW r \in Readers, GetJobStatus(r) PROVE SomebodyReceives'
    BY <2>3 DEF GetJobStatus, Answers, Asks, Subscribes, Selects, Snapshots, Unsubscribes, feedVars
  <2>4. CASE UNCHANGED <<feedVars, readerVars>>
    BY <2>4 DEF feedVars, readerVars
  <2>5. \/ Changes /\ UNCHANGED readerVars
        \/ \E r \in Readers : SendsStatus(r) \/ GetJobStatus(r)
        \/ UNCHANGED <<feedVars, readerVars>>
    BY DEF Next, JobChanges, PrinterCommand, Posts, SendsCommands, Locks, Logs, Waits, Looks, Pushes, ReadLoop,
           Scans, Handles, Follows, TimerFires, Connects, Disconnects, Disconnected, vars
  <2> QED BY <2>1, <2>2, <2>3, <2>4, <2>5
<1> QED BY <1>1, <1>2, Invariant, PTL DEF Spec
-----------------------------------------------------------------------------
(* jm.Lock and sm.mu.                                                      *)

\* Go's mutexes serve whoever waits: a handler that can get on again and again
\* does so. The stop token of Disconnect is taken.
CommandIsServed(k) == SF_vars(SendsCommands(k))
RequestIsServed(r) == SF_vars(Answers(r))
TokenIsTaken == WF_vars(Disconnected)
LocksAreFair ==
  /\ TokenIsTaken
  /\ \A k \in Senders : CommandIsServed(k)
  /\ \A r \in Readers : RequestIsServed(r)

\* Where the handlers and Disconnect can take their next step.
SenderCanRun(k) ==
  \/ spc[k] \in {"conn", "ready", "look"} /\ MuFree
  \/ spc[k] = "push"
  \/ spc[k] = "lock" /\ JmFree
ReaderCanRun(r) == rpc[r] = "select" \/ (rpc[r] \in {"asked", "snap", "unsub"} /\ JmFree)
SendersCanStep == \A k \in Senders : SenderCanRun(k) => ENABLED <<SendsCommands(k)>>_vars
ReadersCanStep == \A r \in Readers : ReaderCanRun(r) => ENABLED <<Answers(r)>>_vars
CanStep == SendersCanStep /\ ReadersCanStep /\ (mu = "Disconnect" => ENABLED <<Disconnected>>_vars)

\* readLoop calls the handler without sm.mu.
LockFacts == TypeOK /\ mu # "readLoop"

\* The invariant holds in every behaviour.
LEMMA LockAlways == Spec => []LockFacts
<1>1. Init => mu # "readLoop"
  BY DEF Init
<1>2. mu # "readLoop" /\ [Next]_vars => (mu # "readLoop")'
  BY DEF Next, JobChanges, SendsStatus, GetJobStatus, Asks, Answers, Subscribes, Selects, Snapshots, Unsubscribes,
     PrinterCommand, Posts, SendsCommands, Locks, Logs, Waits, Looks, Pushes, ReadLoop, Scans, Handles, Follows,
     TimerFires, Connects, Disconnects, Disconnected, vars, serialVars
<1>3. IInv => TypeOK
  BY DEF IInv
<1> QED BY <1>1, <1>2, <1>3, Invariant, PTL DEF Spec, LockFacts

\* sm.mu is free again and again.
LEMMA MuIsFreed == []LockFacts /\ [][Next]_vars /\ TokenIsTaken /\ []CanStep => []<>MuFree
<1>1. CanStep => (mu = "Disconnect" => ENABLED <<Disconnected>>_vars)
  BY DEF CanStep
<1>2. LockFacts => MuFree \/ mu = "Disconnect"
  BY DEF LockFacts, TypeOK, SerialType, MuFree
<1>3. LockFacts /\ [Next]_vars /\ mu = "Disconnect" => (mu = "Disconnect")' \/ MuFree'
  BY DEF Next, JobChanges, SendsStatus, GetJobStatus, Asks, Answers, Subscribes, Selects, Snapshots, Unsubscribes,
     PrinterCommand, Posts, SendsCommands, Locks, Logs, Waits, Looks, Pushes, ReadLoop, Scans, Handles, Follows,
     TimerFires, Connects, Disconnects, Disconnected, vars, serialVars, MuFree
<1>4. <<Disconnected>>_vars => MuFree'
  BY DEF Disconnected, MuFree
<1> QED BY <1>1, <1>2, <1>3, <1>4, PTL DEF TokenIsTaken

\* Where a request to send goes.
LEMMA SenderMoves ==
  ASSUME LockFacts, [Next]_vars, NEW k \in Senders
  PROVE  /\ spc[k] = "lock" => spc'[k] = "lock" \/ spc'[k] = "conn"
         /\ spc[k] = "conn" => spc'[k] = "conn" \/ spc'[k] = "ready" \/ ~HoldsJm(k)'
         /\ spc[k] = "ready" => spc'[k] = "ready" \/ spc'[k] = "look" \/ ~HoldsJm(k)'
         /\ spc[k] = "look" => spc'[k] = "look" \/ spc'[k] = "push" \/ ~HoldsJm(k)'
         /\ spc[k] = "push" => spc'[k] = "push" \/ ~HoldsJm(k)'
         /\ SendsCommands(k) => spc'[k] # spc[k]
<1> USE DEF LockFacts, TypeOK, SendType, HoldsJm
<1>1. CASE SendsCommands(k)
  BY <1>1 DEF SendsCommands, Locks, Logs, Waits, Looks, Pushes, Goes, Fails
<1>2. CASE spc'[k] = spc[k] /\ ~SendsCommands(k)
  BY <1>2
<1>3. CASE Posts(k)
  BY <1>3 DEF Posts, SendsCommands, Locks, Logs, Waits, Looks, Pushes
<1>4. ASSUME NEW j \in Senders, j # k, PrinterCommand(j) PROVE spc'[k] = spc[k]
  BY <1>4 DEF PrinterCommand, Posts, SendsCommands, Locks, Logs, Waits, Looks, Pushes, Goes, Fails
<1>5. (\E j \in Senders : PrinterCommand(j)) \/ UNCHANGED spc
  BY DEF Next, JobChanges, SendsStatus, GetJobStatus, Asks, Answers, Subscribes, Selects, Snapshots, Unsubscribes,
     ReadLoop, Scans, Handles, Follows, TimerFires, Connects, Disconnects, Disconnected, vars, senderVars
<1> QED BY <1>1, <1>2, <1>3, <1>4, <1>5 DEF PrinterCommand

\* Who holds jm.Lock gives it back.
LEMMA HolderEnds ==
  ASSUME NEW k \in Senders
  PROVE  /\ []LockFacts /\ [][Next]_vars /\ []<>MuFree /\ CommandIsServed(k) /\ []CanStep
         => []<>~HoldsJm(k)
<1>1. LockFacts /\ [Next]_vars =>
         /\ spc[k] = "conn" => (spc[k] = "conn")' \/ (spc[k] = "ready")' \/ ~HoldsJm(k)'
         /\ spc[k] = "ready" => (spc[k] = "ready")' \/ (spc[k] = "look")' \/ ~HoldsJm(k)'
         /\ spc[k] = "look" => (spc[k] = "look")' \/ (spc[k] = "push")' \/ ~HoldsJm(k)'
         /\ spc[k] = "push" => (spc[k] = "push")' \/ ~HoldsJm(k)'
  BY SenderMoves
<1>2. LockFacts /\ [Next]_vars /\ <<SendsCommands(k)>>_vars =>
         /\ spc[k] = "conn" => ~(spc[k] = "conn")'
         /\ spc[k] = "ready" => ~(spc[k] = "ready")'
         /\ spc[k] = "look" => ~(spc[k] = "look")'
         /\ spc[k] = "push" => ~(spc[k] = "push")'
  BY SenderMoves
<1>3. HoldsJm(k) => spc[k] = "conn" \/ spc[k] = "ready" \/ spc[k] = "look" \/ spc[k] = "push"
  BY DEF HoldsJm
<1>4. ((spc[k] = "conn" \/ spc[k] = "ready" \/ spc[k] = "look") /\ MuFree) \/ spc[k] = "push" => SenderCanRun(k)
  BY DEF SenderCanRun
<1>5. CanStep => (SenderCanRun(k) => ENABLED <<SendsCommands(k)>>_vars)
  <2>1. CanStep => SendersCanStep
    BY DEF CanStep
  <2>2. SendersCanStep => (SenderCanRun(k) => ENABLED <<SendsCommands(k)>>_vars)
    BY DEF SendersCanStep
  <2> QED BY <2>1, <2>2
<1> QED BY <1>1, <1>2, <1>3, <1>4, <1>5, PTL DEF CommandIsServed

\* jm.Lock is free again and again.
LEMMA JmIsFreed == []LockFacts /\ [][Next]_vars /\ []LocksAreFair /\ []CanStep => []<>JmFree
<1> DEFINE Held == []LockFacts /\ [][Next]_vars /\ []CanStep /\ []~JmFree
<1>1. ASSUME NEW k \in Senders PROVE Held /\ LocksAreFair => ~HoldsJm(k)
  <2>1. LocksAreFair => TokenIsTaken /\ CommandIsServed(k)
    BY DEF LocksAreFair
  <2>2. /\ []LockFacts /\ [][Next]_vars /\ []<>MuFree /\ CommandIsServed(k) /\ []CanStep
        => []<>~HoldsJm(k)
    BY HolderEnds
  <2>3. LockFacts /\ [Next]_vars /\ HoldsJm(k) /\ ~JmFree' => HoldsJm(k)'
    <3> SUFFICES ASSUME LockFacts, [Next]_vars, HoldsJm(k), ~HoldsJm(k)' PROVE JmFree'
      OBVIOUS
    <3>1. \A j \in Senders : HoldsJm(j) => j = k
      BY DEF LockFacts, TypeOK, SendType
    <3>2. \A j \in Senders : HoldsJm(j)' => HoldsJm(j) \/ JmFree
      BY DEF Next, JobChanges, SendsStatus, GetJobStatus, Asks, Answers, Subscribes, Selects, Snapshots,
         Unsubscribes, PrinterCommand, Posts, SendsCommands, Locks, Logs, Waits, Looks, Pushes, Goes, Fails,
         ReadLoop, Scans, Handles, Follows, TimerFires, Connects, Disconnects, Disconnected, vars, senderVars,
         HoldsJm, LockFacts, TypeOK, SendType
    <3> QED BY <3>1, <3>2 DEF JmFree
  <2> QED BY <2>1, <2>2, <2>3, MuIsFreed, PTL
<1> HIDE DEF Held
<1>2. Held /\ LocksAreFair => \A k \in Senders : ~HoldsJm(k)
  BY <1>1
<1>3. ~JmFree => ~ \A k \in Senders : ~HoldsJm(k)
  BY DEF JmFree
<1> QED BY <1>2, <1>3, PTL DEF Held

\* Where a request for the status goes.
LEMMA ReaderMoves ==
  ASSUME LockFacts, [Next]_vars, NEW r \in Readers
  PROVE  /\ rpc[r] = "asked" => rpc'[r] = "asked" \/ rpc'[r] = "select"
         /\ rpc[r] = "select" => rpc'[r] = "select" \/ rpc'[r] = "snap" \/ rpc'[r] = "unsub"
         /\ rpc[r] = "snap" => rpc'[r] = "snap" \/ rpc'[r] = "unsub"
         /\ rpc[r] = "unsub" => rpc'[r] = "unsub" \/ rpc'[r] = "done"
         /\ Answers(r) => rpc'[r] # rpc[r]
<1> USE DEF LockFacts, TypeOK, FeedType
<1>1. CASE Answers(r)
  BY <1>1 DEF Answers, Subscribes, Selects, Snapshots, Unsubscribes
<1>2. CASE rpc'[r] = rpc[r] /\ ~Answers(r)
  BY <1>2
<1>3. CASE Asks(r)
  BY <1>3 DEF Asks, Answers, Subscribes, Selects, Snapshots, Unsubscribes
<1>4. ASSUME NEW q \in Readers, q # r, GetJobStatus(q) PROVE rpc'[r] = rpc[r]
  BY <1>4 DEF GetJobStatus, Asks, Answers, Subscribes, Selects, Snapshots, Unsubscribes
<1>5. (\E q \in Readers : GetJobStatus(q)) \/ UNCHANGED rpc
  BY DEF Next, JobChanges, SendsStatus, PrinterCommand, Posts, SendsCommands, Locks, Logs, Waits, Looks, Pushes,
     ReadLoop, Scans, Handles, Follows, TimerFires, Connects, Disconnects, Disconnected, vars, readerVars
<1> QED BY <1>1, <1>2, <1>3, <1>4, <1>5 DEF GetJobStatus

\* A request for the status that gets jm.Lock when it needs it is answered.
LEMMA RequestEnds ==
  ASSUME NEW r \in Readers
  PROVE  /\ []LockFacts /\ [][Next]_vars /\ []<>JmFree /\ RequestIsServed(r) /\ []CanStep
         => []<>(rpc[r] \in {"idle", "done"})
<1>1. LockFacts /\ [Next]_vars =>
         /\ rpc[r] = "asked" => (rpc[r] = "asked")' \/ (rpc[r] = "select")'
         /\ rpc[r] = "select" => (rpc[r] = "select")' \/ (rpc[r] = "snap")' \/ (rpc[r] = "unsub")'
         /\ rpc[r] = "snap" => (rpc[r] = "snap")' \/ (rpc[r] = "unsub")'
         /\ rpc[r] = "unsub" => (rpc[r] = "unsub")' \/ (rpc[r] = "done")'
  BY ReaderMoves
<1>2. LockFacts /\ [Next]_vars /\ <<Answers(r)>>_vars =>
         /\ rpc[r] = "asked" => ~(rpc[r] = "asked")'
         /\ rpc[r] = "select" => ~(rpc[r] = "select")'
         /\ rpc[r] = "snap" => ~(rpc[r] = "snap")'
         /\ rpc[r] = "unsub" => ~(rpc[r] = "unsub")'
  BY ReaderMoves
<1>3. LockFacts => \/ rpc[r] \in {"idle", "done"}
                   \/ rpc[r] = "asked" \/ rpc[r] = "select" \/ rpc[r] = "snap" \/ rpc[r] = "unsub"
  BY DEF LockFacts, TypeOK, FeedType
<1>4. ((rpc[r] = "asked" \/ rpc[r] = "snap" \/ rpc[r] = "unsub") /\ JmFree) \/ rpc[r] = "select" => ReaderCanRun(r)
  BY DEF ReaderCanRun
<1>5. CanStep => (ReaderCanRun(r) => ENABLED <<Answers(r)>>_vars)
  <2>1. CanStep => ReadersCanStep
    BY DEF CanStep
  <2>2. ReadersCanStep => (ReaderCanRun(r) => ENABLED <<Answers(r)>>_vars)
    BY DEF ReadersCanStep
  <2> QED BY <2>1, <2>2
<1>6. rpc[r] = "done" => rpc[r] \in {"idle", "done"}
  OBVIOUS
<1> QED BY <1>1, <1>2, <1>3, <1>4, <1>5, <1>6, PTL DEF RequestIsServed

\* A command that waits for jm.Lock gets it.
LEMMA CommandGoesOn ==
  ASSUME NEW k \in Senders
  PROVE  /\ []LockFacts /\ [][Next]_vars /\ []<>JmFree /\ CommandIsServed(k) /\ []CanStep
         => (spc[k] = "lock" ~> HoldsJm(k))
<1>1. LockFacts /\ [Next]_vars => (spc[k] = "lock" => (spc[k] = "lock")' \/ (spc[k] = "conn")')
  BY SenderMoves
<1>2. LockFacts /\ [Next]_vars /\ <<SendsCommands(k)>>_vars => (spc[k] = "lock" => ~(spc[k] = "lock")')
  BY SenderMoves
<1>3. spc[k] = "conn" => HoldsJm(k)
  BY DEF HoldsJm
<1>4. spc[k] = "lock" /\ JmFree => SenderCanRun(k)
  BY DEF SenderCanRun
<1>5. CanStep => (SenderCanRun(k) => ENABLED <<SendsCommands(k)>>_vars)
  <2>1. CanStep => SendersCanStep
    BY DEF CanStep
  <2>2. SendersCanStep => (SenderCanRun(k) => ENABLED <<SendsCommands(k)>>_vars)
    BY DEF SendersCanStep
  <2> QED BY <2>1, <2>2
<1> QED BY <1>1, <1>2, <1>3, <1>4, <1>5, PTL DEF CommandIsServed

\* Every request for the status is answered. Every command that waits for jm.Lock
\* gets it, and gives it back.
AllServed ==
  /\ \A r \in Readers : []<>(rpc[r] \in {"idle", "done"})
  /\ \A k \in Senders : (spc[k] = "lock" ~> HoldsJm(k)) /\ []<>~HoldsJm(k)

\* jm.Lock and sm.mu never wait for each other, for any number of requests, commands,
\* lines and connections: SendPriorityCommand gets sm.mu while it holds jm.Lock,
\* readLoop asks for jm.Lock without sm.mu, and so everybody is served.
THEOREM AllServedIfLocksAreFair == Spec /\ []LocksAreFair /\ []CanStep => AllServed
<1> DEFINE Runs == []LockFacts /\ [][Next]_vars /\ []<>JmFree /\ []<>MuFree /\ []CanStep
<1>1. Spec /\ []LocksAreFair /\ []CanStep => Runs
  <2>1. LocksAreFair => TokenIsTaken
    BY DEF LocksAreFair
  <2> QED BY <2>1, LockAlways, JmIsFreed, MuIsFreed, PTL DEF Spec
<1>2. ASSUME NEW r \in Readers PROVE Runs /\ LocksAreFair => []<>(rpc[r] \in {"idle", "done"})
  <2>1. LocksAreFair => RequestIsServed(r)
    BY DEF LocksAreFair
  <2> QED BY <2>1, RequestEnds, PTL
<1>3. ASSUME NEW k \in Senders
      PROVE  Runs /\ LocksAreFair => (spc[k] = "lock" ~> HoldsJm(k)) /\ []<>~HoldsJm(k)
  <2>1. LocksAreFair => CommandIsServed(k)
    BY DEF LocksAreFair
  <2> QED BY <2>1, CommandGoesOn, HolderEnds, PTL
<1> HIDE DEF Runs
<1>4. Runs /\ LocksAreFair => AllServed
  BY <1>2, <1>3 DEF AllServed
<1> QED BY <1>1, <1>4, PTL
=============================================================================
