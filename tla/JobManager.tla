----------------------------- MODULE JobManager -----------------------------
(***************************************************************************)
(* Print jobs: StartPrint, the goroutine runPrint with the sending loop of *)
(* SerialManager.SendGcodeFileWithContext, Cancel, Pause and Resume from   *)
(* the web API, from the printer and from the G-code of the job itself,    *)
(* and the goroutine that runs the shutdown script after a job.            *)
(*                                                                         *)
(* jm.Lock protects the status, except that Pause and Resume write it      *)
(* under jm.mu only; sm.paused is read with no lock at all. The steps are  *)
(* cut where another goroutine can see or change one of these. A line sent *)
(* to the serial link is answered at some time with nil or with an error.  *)
(***************************************************************************)
EXTENDS Naturals, Sequences, FiniteSets

CONSTANTS
  Jobs,         \* the uploads that ask to be printed, each one stream
  Program,      \* the kinds of the lines of each job's file
  Clients,      \* HTTP requests that pause or resume
  ReadLoop,     \* the goroutine that obeys //action: lines of the printer
  NoJob,
  Shutdown,     \* the uploads that ask for a shutdown after the print
  MaxRequests   \* bound: pause and resume requests

\* What ParseLine and the scanner tell apart: a command, the commands that
\* HandleGcode obeys (M0, M1, M600, M25; M24), a line without a command, and
\* a line longer than the scanner's buffer.
LineKinds == {"cmd", "pause", "resume", "comment", "toolong"}

ASSUME JobsAssumption ==
  /\ NoJob \notin Jobs
  /\ Jobs \cap Clients = {}
  /\ ReadLoop \notin Jobs \cup Clients /\ NoJob \notin Clients \cup {ReadLoop}
  /\ Program \in [Jobs -> Seq(LineKinds)]
  /\ Shutdown \subseteq Jobs
  /\ MaxRequests \in Nat

Requesters == Clients \cup {ReadLoop}
Actors == Jobs \cup Requesters

VARIABLES
  status,      \* jm.status
  jmPaused,    \* jm.paused
  smPaused,    \* sm.paused
  cancelOf,    \* the job whose context jm.cancel cancels
  cancelled,   \* the jobs whose context is done
  connected,   \* serial.IsConnected()
  rpc,         \* where runPrint of each job is
  pos,         \* lines the scanner of each job has returned
  sent,        \* lines the printer has acknowledged
  result,      \* what SendGcodeFileWithContext returned
  want,        \* the value a requester is about to set: pause, resume or none
  requests,
  mu,          \* who holds jm.mu inside Pause or Resume, and the next step
  jmLock,      \* the job that holds jm.Lock across Pause or Resume
  watch,       \* the shutdown goroutine of each job
  handed,      \* history: lines that SendGcode queued
  afterCancel, \* history: those handed after the context was cancelled
  inHand,      \* history: runs past the gate when sm.paused was last set
  overrun,     \* history: the other runs that queued a line under the pause
  rushed       \* history: a print was started while an earlier run was alive

statusVars  == <<status, cancelOf, cancelled>>
pauseVars   == <<jmPaused, smPaused, mu>>
requestVars == <<want, requests>>
runVars     == <<rpc, pos, sent, result>>
historyVars == <<handed, afterCancel, inHand, overrun, rushed>>
vars == <<statusVars, pauseVars, requestVars, runVars, historyVars,
          connected, jmLock, watch>>

\* jm.mu when nobody holds it.
Unlocked == [who |-> NoJob, value |-> FALSE, step |-> 0]

MuFree == mu.who = NoJob
JmFree == jmLock = NoJob
Alive(j) == rpc[j] \notin {"none", "ended"}

Kind(j) == Program[j][pos[j]]
IsCommand(k) == k \in {"cmd", "pause", "resume"}

Init ==
  /\ status = [job |-> NoJob, active |-> FALSE, paused |-> FALSE,
               progress |-> 0, desc |-> "none"]
  /\ jmPaused = FALSE /\ smPaused = FALSE
  /\ cancelOf = NoJob /\ cancelled = {}
  /\ connected \in BOOLEAN
  /\ rpc = [j \in Jobs |-> "none"]
  /\ pos = [j \in Jobs |-> 0] /\ sent = [j \in Jobs |-> 0]
  /\ result = [j \in Jobs |-> "nil"]
  /\ want = [r \in Requesters |-> "none"] /\ requests = 0
  /\ mu = Unlocked
  /\ jmLock = NoJob
  /\ watch = [j \in Jobs |-> "off"]
  /\ handed = [j \in Jobs |-> 0]
  /\ afterCancel = [j \in Jobs |-> 0]
  /\ inHand = {} /\ overrun = {} /\ rushed = FALSE

-----------------------------------------------------------------------------
(* Starting and cancelling, under jm.Lock.                                 *)

\* A new job replaces the whole status; the pause flags outside it stay.
StartPrint(j) ==
  /\ JmFree /\ rpc[j] = "none"
  /\ ~status.active /\ connected
  /\ rushed' = (rushed \/ \E k \in Jobs : Alive(k))
  /\ cancelOf' = j
  /\ status' = [job |-> j, active |-> TRUE, paused |-> FALSE,
                progress |-> 0, desc |-> "none"]
  /\ rpc' = [rpc EXCEPT ![j] = "top"]
  /\ watch' = [watch EXCEPT ![j] = IF j \in Shutdown THEN "polling" ELSE "off"]
  /\ UNCHANGED <<cancelled, pos, sent, result, pauseVars, requestVars, handed,
                 afterCancel, inHand, overrun, connected, jmLock>>

\* Mutant: status.Active is left to runPrint.
CancelStaysActive ==
  /\ JmFree
  /\ cancelOf # NoJob /\ status.active
  /\ cancelled' = cancelled \cup {cancelOf}
  /\ status' = [status EXCEPT !.desc = "Cancelled"]
  /\ cancelOf' = NoJob
  /\ UNCHANGED <<pauseVars, requestVars, runVars, historyVars, connected, jmLock, watch>>

\* Mutant: jm.cancel() is missing.
CancelStatusOnly ==
  /\ JmFree
  /\ cancelOf # NoJob /\ status.active
  /\ status' = [status EXCEPT !.active = FALSE, !.desc = "Cancelled"]
  /\ cancelOf' = NoJob
  /\ UNCHANGED <<cancelled, pauseVars, requestVars, runVars, historyVars, connected,
                 jmLock, watch>>

\* Also what //action:cancel of the printer does.
Cancel ==
  /\ JmFree
  /\ cancelOf # NoJob /\ status.active
  /\ cancelled' = cancelled \cup {cancelOf}
  /\ status' = [status EXCEPT !.active = FALSE, !.desc = "Cancelled"]
  /\ cancelOf' = NoJob
  /\ UNCHANGED <<pauseVars, requestVars, runVars, historyVars, connected, jmLock, watch>>

\* The serial manager connects and disconnects.
SerialChanges ==
  /\ connected' = ~connected
  /\ UNCHANGED <<statusVars, pauseVars, requestVars, runVars, historyVars, jmLock, watch>>

-----------------------------------------------------------------------------
(* runPrint of job j.                                                      *)

Run(j, from, to) ==
  /\ rpc[j] = from
  /\ rpc' = [rpc EXCEPT ![j] = to]

Leave(j, from, res) ==
  /\ Run(j, from, "finish")
  /\ result' = [result EXCEPT ![j] = res]

\* Mutant: the head of the loop does not look at the context.
LoopTopNoContext(j) ==
  /\ Run(j, "top", "scan")
  /\ UNCHANGED <<result, pos, sent, statusVars, pauseVars, requestVars, historyVars,
                 connected, jmLock, watch>>

\* The select on ctx.Done() at the head of the loop.
LoopTop(j) ==
  /\ \/ j \in cancelled /\ Leave(j, "top", "canceled")
     \/ j \notin cancelled /\ Run(j, "top", "scan") /\ UNCHANGED result
  /\ UNCHANGED <<pos, sent, statusVars, pauseVars, requestVars, historyVars,
                 connected, jmLock, watch>>

\* Mutant: the pause check comes after Scan, and drops the line.
LoopScanThenPause(j) ==
  /\ pos[j] < Len(Program[j])
  /\ pos' = [pos EXCEPT ![j] = @ + 1]
  /\ Run(j, "scan", IF ~smPaused /\ IsCommand(Program[j][pos[j] + 1]) THEN "gate" ELSE "top")
  /\ UNCHANGED <<result, sent, statusVars, pauseVars, requestVars, historyVars,
                 connected, jmLock, watch>>

\* Mutant: scanner.Err() is ignored.
LoopScanNoErr(j) ==
  /\ \/ smPaused /\ Run(j, "scan", "top") /\ UNCHANGED <<pos, result>>
     \/ /\ ~smPaused
        /\ pos[j] < Len(Program[j]) => Program[j][pos[j] + 1] = "toolong"
        /\ Leave(j, "scan", "nil") /\ UNCHANGED pos
     \/ /\ ~smPaused /\ pos[j] < Len(Program[j])
        /\ LET k == Program[j][pos[j] + 1] IN
           k # "toolong" /\ Run(j, "scan", IF IsCommand(k) THEN "gate" ELSE "top")
        /\ pos' = [pos EXCEPT ![j] = @ + 1]
        /\ UNCHANGED result
  /\ UNCHANGED <<sent, statusVars, pauseVars, requestVars, historyVars,
                 connected, jmLock, watch>>

\* if sm.paused, sleep and start over; otherwise take the next line.
LoopScan(j) ==
  /\ \/ smPaused /\ Run(j, "scan", "top") /\ UNCHANGED <<pos, result>>
     \/ /\ ~smPaused /\ pos[j] = Len(Program[j])
        /\ Leave(j, "scan", "nil") /\ UNCHANGED pos
     \/ /\ ~smPaused /\ pos[j] < Len(Program[j])
        /\ LET k == Program[j][pos[j] + 1] IN
           IF k = "toolong"
           THEN Leave(j, "scan", "error") /\ UNCHANGED pos
           ELSE /\ Run(j, "scan", IF IsCommand(k) THEN "gate" ELSE "top")
                /\ pos' = [pos EXCEPT ![j] = @ + 1]
                /\ UNCHANGED result
  /\ UNCHANGED <<sent, statusVars, pauseVars, requestVars, historyVars,
                 connected, jmLock, watch>>

\* Mutant: no second pause check.
LoopGateOpen(j) ==
  /\ Run(j, "gate", "call")
  /\ UNCHANGED <<result, pos, sent, statusVars, pauseVars, requestVars, historyVars,
                 connected, jmLock, watch>>

\* Mutant: the second pause check does not look at the context.
LoopGateNoContext(j) ==
  /\ ~smPaused /\ Run(j, "gate", "call")
  /\ UNCHANGED <<result, pos, sent, statusVars, pauseVars, requestVars, historyVars,
                 connected, jmLock, watch>>

\* for sm.paused: the second pause check, which looks at the context too.
LoopGate(j) ==
  /\ \/ ~smPaused /\ Run(j, "gate", "call") /\ UNCHANGED result
     \/ smPaused /\ j \in cancelled /\ Leave(j, "gate", "canceled")
  /\ UNCHANGED <<pos, sent, statusVars, pauseVars, requestVars, historyVars,
                 connected, jmLock, watch>>

\* SendGcode(line, true): the line is queued, if the printer is connected or
\* becomes so in time.
SendCalls(j) ==
  /\ \/ /\ connected /\ Run(j, "call", "send")
        /\ handed' = [handed EXCEPT ![j] = @ + 1]
        /\ afterCancel' = [afterCancel EXCEPT ![j] = IF j \in cancelled THEN @ + 1 ELSE @]
        /\ inHand' = inHand \ {j}
        /\ overrun' = IF smPaused /\ j \notin inHand THEN overrun \cup {j} ELSE overrun
        /\ UNCHANGED <<result, rushed>>
     \/ /\ ~connected /\ Leave(j, "call", "error")
        /\ UNCHANGED historyVars
  /\ UNCHANGED <<pos, sent, statusVars, pauseVars, requestVars, connected, jmLock, watch>>

\* SendGcode returns: the line was acknowledged, or there was some error.
SendReturns(j) ==
  /\ \/ /\ Run(j, "send", "onLine")
        /\ sent' = [sent EXCEPT ![j] = @ + 1]
        /\ UNCHANGED result
     \/ /\ Leave(j, "send", "error")
        /\ UNCHANGED sent
  /\ UNCHANGED <<pos, statusVars, pauseVars, requestVars, historyVars,
                 connected, jmLock, watch>>

\* The callback onLine, under jm.Lock, writes whatever status is there. With
\* a pausing or resuming command it keeps the lock until Pause returns.
OnLine(j) ==
  /\ JmFree /\ rpc[j] = "onLine"
  /\ status' = [status EXCEPT !.progress = sent[j]]
  /\ IF Kind(j) = "cmd"
     THEN Run(j, "onLine", "top") /\ UNCHANGED jmLock
     ELSE Run(j, "onLine", "HandleGcode") /\ jmLock' = j
  /\ UNCHANGED <<cancelOf, cancelled, pos, sent, result, pauseVars, requestVars,
                 historyVars, connected, watch>>

\* The tail of runPrint, under jm.Lock: it, too, writes the current status.
Finish(j) ==
  /\ JmFree
  /\ Run(j, "finish", "ended")
  /\ status' = [status EXCEPT
       !.active = FALSE,
       !.progress = IF result[j] = "nil" THEN Len(Program[j]) ELSE @,
       !.desc = CASE result[j] = "nil" -> "Done"
                  [] result[j] = "canceled" -> "Cancelled"
                  [] result[j] = "error" -> "Error"]
  /\ UNCHANGED <<cancelOf, cancelled, pos, sent, result, pauseVars, requestVars,
                 historyVars, connected, jmLock, watch>>

-----------------------------------------------------------------------------
(* Pause and Resume.                                                       *)

\* octoPostJob looks at IsPaused() and then acts on what it saw.
Request(c) ==
  /\ c \in Clients /\ want[c] = "none" /\ requests < MaxRequests
  /\ MuFree
  /\ requests' = requests + 1
  /\ \E action \in {"toggle", "pause", "resume"} :
       want' = [want EXCEPT ![c] =
                  CASE jmPaused  /\ action # "pause"  -> "resume"
                    [] ~jmPaused /\ action # "resume" -> "pause"
                    [] OTHER -> "none"]
  /\ UNCHANGED <<statusVars, pauseVars, runVars, historyVars, connected, jmLock, watch>>

\* //action:pause and //action:resume act without looking.
PrinterAction ==
  /\ want[ReadLoop] = "none" /\ requests < MaxRequests
  /\ requests' = requests + 1
  /\ \E v \in {"pause", "resume"} : want' = [want EXCEPT ![ReadLoop] = v]
  /\ UNCHANGED <<statusVars, pauseVars, runVars, historyVars, connected, jmLock, watch>>

\* jm.mu.Lock(); jm.paused = v
TakeMu(a) ==
  /\ MuFree
  /\ \/ /\ a \in Requesters /\ want[a] # "none"
        /\ mu' = [who |-> a, value |-> want[a] = "pause", step |-> 1]
     \/ /\ a \in Jobs /\ rpc[a] = "HandleGcode"
        /\ mu' = [who |-> a, value |-> Kind(a) = "pause", step |-> 1]
  /\ jmPaused' = mu'.value
  /\ UNCHANGED <<smPaused, statusVars, requestVars, runVars, historyVars,
                 connected, jmLock, watch>>

\* jm.status.Paused = v, without jm.Lock
SetStatusPaused ==
  /\ mu.step = 1
  /\ status' = [status EXCEPT !.paused = mu.value]
  /\ mu' = [mu EXCEPT !.step = 2]
  /\ UNCHANGED <<jmPaused, smPaused, cancelOf, cancelled, requestVars, runVars,
                 historyVars, connected, jmLock, watch>>

\* The end of Pause and Resume, which leaves sm.paused and the locks as given.
Released(v, muAfter, lockAfter) ==
  /\ mu.step = 2
  /\ smPaused' = v
  /\ mu' = muAfter
  /\ inHand' = IF v THEN {j \in Jobs : rpc[j] = "call"} ELSE inHand
  /\ IF mu.who \in Jobs
     THEN Run(mu.who, "HandleGcode", "top") /\ jmLock' = lockAfter /\ UNCHANGED want
     ELSE want' = [want EXCEPT ![mu.who] = "none"] /\ UNCHANGED <<rpc, jmLock>>
  /\ UNCHANGED <<jmPaused, statusVars, requests, pos, sent, result, handed, afterCancel,
                 overrun, rushed, connected, watch>>

\* Mutants: Resume does not reach the serial manager; jm.mu is not unlocked as
\* it was locked; jm.Lock is not released.
SetSerialPausedOnly == Released(smPaused \/ mu.value, Unlocked, NoJob)
SetSerialPausedLocked == Released(mu.value, [mu EXCEPT !.step = 0], NoJob)
SetSerialPausedHoldsLock == Released(mu.value, Unlocked, mu.who)

\* jm.serial.SetPaused(v); jm.mu.Unlock(). The callback then drops jm.Lock.
SetSerialPaused == Released(mu.value, Unlocked, NoJob)

-----------------------------------------------------------------------------
(* localUpload: poll the status once a second, then run the shutdown script. *)

\* Mutant: the script does not wait.
WatchNotWaiting(j) ==
  /\ watch[j] = "polling"
  /\ watch' = [watch EXCEPT ![j] = "fired"]
  /\ UNCHANGED <<statusVars, pauseVars, requestVars, runVars, historyVars, connected, jmLock>>

Watch(j) ==
  /\ watch[j] = "polling" /\ JmFree
  /\ ~status.active
  /\ watch' = [watch EXCEPT ![j] = "fired"]
  /\ UNCHANGED <<statusVars, pauseVars, requestVars, runVars, historyVars, connected, jmLock>>

-----------------------------------------------------------------------------

RunPrint(j) ==
  \/ LoopTop(j) \/ LoopScan(j) \/ LoopGate(j)
  \/ SendCalls(j) \/ SendReturns(j) \/ OnLine(j) \/ Finish(j)

PauseSteps == (\E a \in Actors : TakeMu(a)) \/ SetStatusPaused \/ SetSerialPaused

Next ==
  \/ \E j \in Jobs : StartPrint(j) \/ RunPrint(j) \/ Watch(j)
  \/ Cancel \/ SerialChanges
  \/ \E c \in Clients : Request(c)
  \/ PrinterAction
  \/ PauseSteps

Spec == Init /\ [][Next]_vars

\* The goroutines run; SendGcode returns. Nobody has to start, cancel or pause.
FairSpec ==
  /\ Spec
  /\ \A j \in Jobs : WF_vars(RunPrint(j)) /\ WF_vars(Watch(j))
  /\ \A a \in Actors : WF_vars(TakeMu(a))
  /\ WF_vars(SetStatusPaused) /\ WF_vars(SetSerialPaused)
-----------------------------------------------------------------------------
(* Properties.                                                             *)

StatusType ==
  /\ status \in [job : Jobs \cup {NoJob}, active : BOOLEAN, paused : BOOLEAN,
                 progress : Nat, desc : {"none", "Done", "Cancelled", "Error"}]
  /\ cancelOf \in Jobs \cup {NoJob} /\ cancelled \subseteq Jobs
  /\ connected \in BOOLEAN

PauseType ==
  /\ jmPaused \in BOOLEAN /\ smPaused \in BOOLEAN
  /\ want \in [Requesters -> {"none", "pause", "resume"}] /\ requests \in Nat
  /\ mu \in [who : Actors \cup {NoJob}, value : BOOLEAN, step : 0 .. 2]
  /\ mu.who = NoJob <=> mu.step = 0
  /\ jmLock \in Jobs \cup {NoJob}

RunType ==
  /\ rpc \in [Jobs -> {"none", "top", "scan", "gate", "call", "send", "onLine",
                      "HandleGcode", "finish", "ended"}]
  /\ pos \in [Jobs -> Nat] /\ sent \in [Jobs -> Nat]
  /\ result \in [Jobs -> {"nil", "canceled", "error"}]
  /\ watch \in [Jobs -> {"off", "polling", "fired"}]

HistoryType ==
  /\ handed \in [Jobs -> Nat] /\ afterCancel \in [Jobs -> Nat]
  /\ inHand \subseteq Jobs /\ overrun \subseteq Jobs /\ rushed \in BOOLEAN

\* Every variable keeps its type; jm.mu is held during the two middle steps of
\* Pause and Resume, and then only.
TypeOK == StatusType /\ PauseType /\ RunType /\ HistoryType

\* A status that says "active" is about a print that runs, that nobody has
\* cancelled, and that Cancel would stop.
ActiveIsBacked ==
  status.active => /\ status.job # NoJob /\ Alive(status.job)
                   /\ cancelOf = status.job
                   /\ status.job \notin cancelled

\* After Cancel the run queues at most one more line: the one for which it
\* had looked at the context already.
CancelBound == \A j \in Jobs : afterCancel[j] <= 1

\* While sm.paused is set, no run queues a line, except the one line it had
\* looked at the flag for when the flag was set. After a pausing command of its
\* own file (M0, M600...) there is none: a filament change is never printed over.
PauseHolds == overrun = {}

\* Whenever no Pause or Resume is under way, the flag that IsPaused() reports
\* is the flag that stops the sending loop.
PauseFlagsAgree == MuFree => jmPaused = smPaused

CommandsUpTo(j, n) == {i \in 1 .. n : IsCommand(Program[j][i])}

\* Every command line the scanner passed was queued exactly once, whatever
\* pauses came in between; only the line in hand may still wait for its turn.
NoLineSkipped ==
  \A j \in Jobs :
    rpc[j] \notin {"finish", "ended"} =>
      Cardinality(CommandsUpTo(j, pos[j]))
        = handed[j] + (IF rpc[j] \in {"gate", "call"} THEN 1 ELSE 0)

\* A run that ends with nil has had every command of its file acknowledged.
DoneMeansAll ==
  \A j \in Jobs :
    rpc[j] \in {"finish", "ended"} /\ result[j] = "nil" =>
      sent[j] = Cardinality(CommandsUpTo(j, Len(Program[j])))

Uncancelled(j) == Alive(j) /\ j \notin cancelled

\* "Active devuelve true si hay un trabajo activo" (job/jobmanager.go:253): a
\* run that nobody cancelled is the job of an active status, as long as users
\* wait for a cancelled run to end before they start another.
StatusTruth ==
  ~rushed => \A j \in Jobs : Uncancelled(j) => status.active /\ status.job = j

\* "gestiona un trabajo activo" and "job already running"
\* (job/jobmanager.go:69, 130): two prints never run at the same time.
OneJobAtATime == \A j, k \in Jobs : Uncancelled(j) /\ Uncancelled(k) => j = k

\* "Wait until job finishes" (webapi/upload.go:113): the shutdown script runs
\* only after the print it belongs to has ended or was cancelled, as long as
\* users wait in the same way.
ShutdownWaits == ~rushed => \A j \in Jobs : watch[j] = "fired" => ~Uncancelled(j)

\* "JobStatus mantiene el estado actual de un trabajo" (job/jobmanager.go:15):
\* the status of a print that the sending loop holds back says so.
PausedTruth == MuFree /\ JmFree /\ status.active => status.paused = smPaused

\* A cancelled run ends, even if it is paused and never resumed.
CancelledEnds == \A j \in Jobs : j \in cancelled ~> rpc[j] = "ended"

\* A run that is not held back by a pause ends.
RunEnds == \A j \in Jobs : Alive(j) ~> rpc[j] = "ended" \/ smPaused
=============================================================================
