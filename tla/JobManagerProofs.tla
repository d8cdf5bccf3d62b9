-------------------------- MODULE JobManagerProofs --------------------------
(***************************************************************************)
(* Theorems about JobManager for any set of jobs, any files, any requests. *)
(* The proofs go by the inductive invariant IInv: the type invariant and,  *)
(* for each property, the conjunct that makes it inductive. The prover     *)
(* knows nothing of ENABLED: that a step can be taken where its guard      *)
(* holds is a hypothesis of the theorem about cancelled runs.              *)
(***************************************************************************)
EXTENDS JobManager, FiniteSetTheorems, TLAPS

\* A context is cancelled, or can be, only once its run was started.
StartedFirst ==
  \A j \in Jobs : j \in cancelled \/ cancelOf = j => rpc[j] # "none"

\* A run that queued a line after its context was done is past the point
\* where it would queue another without looking at the context.
CancelInv ==
  \A j \in Jobs :
    /\ afterCancel[j] <= 1
    /\ afterCancel[j] = 1 => j \in cancelled /\ rpc[j] \notin {"none", "scan", "gate", "call"}

\* While sm.paused is set, the runs past the gate are those noted as such.
PauseInv ==
  /\ overrun = {}
  /\ smPaused => \A j \in Jobs : rpc[j] = "call" => j \in inHand

\* Inside jm.mu, jm.paused has its new value already.
FlagsInv ==
  /\ MuFree => jmPaused = smPaused
  /\ ~MuFree => jmPaused = mu.value

IInv ==
  /\ TypeOK
  /\ StartedFirst
  /\ ActiveIsBacked
  /\ CancelInv
  /\ PauseInv
  /\ FlagsInv

-----------------------------------------------------------------------------

\* A file has a length.
LEMMA LenNat == \A j \in Jobs : Len(Program[j]) \in Nat
BY JobsAssumption

\* The initial state is well typed.
LEMMA TypeInit == Init => TypeOK
<1> SUFFICES ASSUME Init PROVE TypeOK
  OBVIOUS
<1>1. StatusType BY DEF Init, StatusType
<1>2. PauseType
  <2>1. mu \in [who : Actors \cup {NoJob}, value : BOOLEAN, step : 0 .. 2]
    BY DEF Init, Unlocked
  <2> QED BY <2>1 DEF Init, PauseType, Unlocked
<1>3. RunType BY DEF Init, RunType
<1>4. HistoryType BY DEF Init, HistoryType
<1> QED BY <1>1, <1>2, <1>3, <1>4 DEF TypeOK

\* No step disturbs the type of the status.
LEMMA StatusTypeNext == TypeOK /\ [Next]_vars => StatusType'
<1> SUFFICES ASSUME TypeOK, [Next]_vars PROVE StatusType'
  OBVIOUS
<1> USE DEF TypeOK, StatusType, statusVars
<1>1. ASSUME NEW j \in Jobs, StartPrint(j) PROVE StatusType'
  BY <1>1 DEF StartPrint
<1>2. CASE Cancel
  BY <1>2 DEF Cancel
<1>3. CASE SerialChanges
  BY <1>3 DEF SerialChanges
<1>4. ASSUME NEW j \in Jobs, OnLine(j) PROVE StatusType'
  BY <1>4 DEF OnLine, RunType
<1>5. ASSUME NEW j \in Jobs, Finish(j) PROVE StatusType'
  <2>1. result[j] \in {"nil", "canceled", "error"} /\ Len(Program[j]) \in Nat
    BY LenNat DEF RunType
  <2> QED BY <1>5, <2>1 DEF Finish
<1>6. CASE SetStatusPaused
  BY <1>6 DEF SetStatusPaused, PauseType
<1>7. CASE SetSerialPaused
  BY <1>7 DEF SetSerialPaused, Released, Unlocked
<1>8. ASSUME NEW j \in Jobs,
             LoopTop(j) \/ LoopScan(j) \/ LoopGate(j) \/ SendCalls(j) \/ SendReturns(j) \/ Watch(j)
      PROVE  StatusType'
  BY <1>8 DEF LoopTop, LoopScan, LoopGate, SendCalls, SendReturns, Watch
<1>9. ASSUME NEW a \in Actors, TakeMu(a) PROVE StatusType'
  BY <1>9 DEF TakeMu
<1>10. ASSUME NEW r \in Clients, Request(r) \/ PrinterAction PROVE StatusType'
  BY <1>10 DEF Request, PrinterAction
<1>11. CASE PrinterAction
  BY <1>11 DEF PrinterAction
<1>12. CASE UNCHANGED vars
  BY <1>12 DEF vars
<1> QED
  BY <1>1, <1>2, <1>3, <1>4, <1>5, <1>6, <1>7, <1>8, <1>9, <1>10, <1>11, <1>12
  DEF Next, RunPrint, PauseSteps

\* No step disturbs the types of the pause flags and of the two locks.
LEMMA PauseTypeNext == TypeOK /\ [Next]_vars => PauseType'
<1> SUFFICES ASSUME TypeOK, [Next]_vars PROVE PauseType'
  OBVIOUS
<1> USE JobsAssumption DEF TypeOK, PauseType, pauseVars, requestVars
<1>1. ASSUME NEW j \in Jobs,
             StartPrint(j) \/ RunPrint(j) \/ Watch(j)
      PROVE  PauseType'
  BY <1>1 DEF StartPrint, RunPrint, LoopTop, LoopScan, LoopGate, SendCalls, SendReturns,
              OnLine, Finish, Watch
<1>2. CASE Cancel
  BY <1>2 DEF Cancel
<1>3. CASE SerialChanges
  BY <1>3 DEF SerialChanges
<1>4. ASSUME NEW r \in Clients, Request(r) PROVE PauseType'
  BY <1>4 DEF Request, Requesters
<1>5. CASE PrinterAction
  BY <1>5 DEF PrinterAction, Requesters
<1>6. ASSUME NEW a \in Actors, TakeMu(a) PROVE PauseType'
  <2>1. a # NoJob
    BY JobsAssumption DEF Actors, Requesters
  <2>2. \E v \in BOOLEAN : mu' = [who |-> a, value |-> v, step |-> 1] /\ jmPaused' = v
    <3>1. CASE a \in Requesters /\ mu' = [who |-> a, value |-> want[a] = "pause", step |-> 1]
      <4> DEFINE v == want[a] = "pause"
      <4>1. v \in BOOLEAN /\ mu' = [who |-> a, value |-> v, step |-> 1]
        BY <3>1
      <4> HIDE DEF v
      <4> QED BY <1>6, <4>1 DEF TakeMu
    <3>2. CASE a \in Jobs /\ mu' = [who |-> a, value |-> Kind(a) = "pause", step |-> 1]
      <4> DEFINE v == Kind(a) = "pause"
      <4>1. v \in BOOLEAN /\ mu' = [who |-> a, value |-> v, step |-> 1]
        BY <3>2
      <4> HIDE DEF v
      <4> QED BY <1>6, <4>1 DEF TakeMu
    <3> QED BY <1>6, <3>1, <3>2 DEF TakeMu
  <2> QED BY <1>6, <2>1, <2>2 DEF TakeMu
<1>7. CASE SetStatusPaused
  BY <1>7 DEF SetStatusPaused
<1>8. CASE SetSerialPaused
  BY <1>8 DEF SetSerialPaused, Released, Unlocked, Actors, Requesters
<1>9. CASE UNCHANGED vars
  BY <1>9 DEF vars
<1> QED
  BY <1>1, <1>2, <1>3, <1>4, <1>5, <1>6, <1>7, <1>8, <1>9 DEF Next, PauseSteps

\* No step disturbs the types of the runs.
LEMMA RunTypeNext == TypeOK /\ [Next]_vars => RunType'
<1> SUFFICES ASSUME TypeOK, [Next]_vars PROVE RunType'
  OBVIOUS
<1> USE DEF TypeOK, RunType, runVars, Run, Leave
<1>1. ASSUME NEW j \in Jobs, StartPrint(j) PROVE RunType'
  BY <1>1 DEF StartPrint
<1>2. ASSUME NEW j \in Jobs, LoopTop(j) PROVE RunType'
  BY <1>2 DEF LoopTop
<1>3. ASSUME NEW j \in Jobs, LoopScan(j) PROVE RunType'
  <2>1. pos' \in [Jobs -> Nat]
    BY <1>3 DEF LoopScan
  <2>2. rpc' \in [Jobs -> {"none", "top", "scan", "gate", "call", "send", "onLine",
                         "HandleGcode", "finish", "ended"}]
    BY <1>3 DEF LoopScan
  <2>3. result' \in [Jobs -> {"nil", "canceled", "error"}]
    BY <1>3 DEF LoopScan
  <2>4. UNCHANGED <<sent, watch>>
    BY <1>3 DEF LoopScan
  <2> QED BY <2>1, <2>2, <2>3, <2>4
<1>4. ASSUME NEW j \in Jobs, LoopGate(j) PROVE RunType'
  BY <1>4 DEF LoopGate
<1>5. ASSUME NEW j \in Jobs, SendCalls(j) PROVE RunType'
  BY <1>5 DEF SendCalls
<1>6. ASSUME NEW j \in Jobs, SendReturns(j) PROVE RunType'
  BY <1>6 DEF SendReturns
<1>7. ASSUME NEW j \in Jobs, OnLine(j) PROVE RunType'
  BY <1>7 DEF OnLine
<1>8. ASSUME NEW j \in Jobs, Finish(j) PROVE RunType'
  BY <1>8 DEF Finish
<1>9. CASE SetSerialPaused
  BY <1>9 DEF SetSerialPaused, Released, Unlocked
<1>10. ASSUME NEW j \in Jobs, Watch(j) PROVE RunType'
  BY <1>10 DEF Watch
<1>11. ASSUME NEW a \in Actors, TakeMu(a) PROVE RunType'
  BY <1>11 DEF TakeMu
<1>12. ASSUME NEW r \in Clients, Request(r) PROVE RunType'
  BY <1>12 DEF Request
<1>13. CASE Cancel \/ SerialChanges \/ PrinterAction \/ SetStatusPaused \/ UNCHANGED vars
  BY <1>13 DEF Cancel, SerialChanges, PrinterAction, SetStatusPaused, vars
<1> QED
  BY <1>1, <1>2, <1>3, <1>4, <1>5, <1>6, <1>7, <1>8, <1>9, <1>10, <1>11, <1>12, <1>13
  DEF Next, RunPrint, PauseSteps

\* No step disturbs the types of the history variables.
LEMMA HistoryTypeNext == TypeOK /\ [Next]_vars => HistoryType'
<1> SUFFICES ASSUME TypeOK, [Next]_vars PROVE HistoryType'
  OBVIOUS
<1> USE DEF TypeOK, HistoryType, historyVars
<1>1. ASSUME NEW j \in Jobs, SendCalls(j) PROVE HistoryType'
  BY <1>1 DEF SendCalls
<1>2. CASE SetSerialPaused
  BY <1>2 DEF SetSerialPaused, Released, Unlocked
<1>3. ASSUME NEW j \in Jobs,
             \/ StartPrint(j) \/ LoopTop(j) \/ LoopScan(j) \/ LoopGate(j)
             \/ SendReturns(j) \/ OnLine(j) \/ Finish(j) \/ Watch(j)
      PROVE  HistoryType'
  BY <1>3 DEF StartPrint, LoopTop, LoopScan, LoopGate, SendReturns, OnLine, Finish, Watch
<1>4. ASSUME NEW a \in Actors, TakeMu(a) PROVE HistoryType'
  BY <1>4 DEF TakeMu
<1>5. ASSUME NEW r \in Clients, Request(r) PROVE HistoryType'
  BY <1>5 DEF Request
<1>6. CASE Cancel \/ SerialChanges \/ PrinterAction \/ SetStatusPaused \/ UNCHANGED vars
  BY <1>6 DEF Cancel, SerialChanges, PrinterAction, SetStatusPaused, vars
<1> QED
  BY <1>1, <1>2, <1>3, <1>4, <1>5, <1>6 DEF Next, RunPrint, PauseSteps

\* No step leaves the types.
LEMMA TypeNext == TypeOK /\ [Next]_vars => TypeOK'
BY StatusTypeNext, PauseTypeNext, RunTypeNext, HistoryTypeNext DEF TypeOK

\* Every reachable state is well typed, for any jobs, files and requests.
THEOREM TypeCorrect == Spec => []TypeOK
BY TypeNext, TypeInit, PTL DEF Spec

-----------------------------------------------------------------------------

QuietVars == <<status, cancelOf, cancelled, rpc>>

\* The steps that leave the status, the contexts and the control points alone.
LEMMA QuietSteps ==
  ASSUME TypeOK,
         \/ SerialChanges \/ PrinterAction \/ UNCHANGED vars
         \/ \E j \in Jobs : Watch(j)
         \/ \E r \in Clients : Request(r)
         \/ \E a \in Actors : TakeMu(a)
  PROVE  UNCHANGED QuietVars
BY DEF SerialChanges, PrinterAction, Watch, Request, TakeMu, vars, QuietVars,
       statusVars, runVars

\* A status that says "active" belongs to a live run that Cancel would stop.
LEMMA ActiveNext ==
  TypeOK /\ StartedFirst /\ ActiveIsBacked /\ [Next]_vars => (StartedFirst /\ ActiveIsBacked)'
<1> SUFFICES ASSUME TypeOK, StartedFirst, ActiveIsBacked, [Next]_vars
             PROVE  (StartedFirst /\ ActiveIsBacked)'
  OBVIOUS
<1> USE JobsAssumption DEF StartedFirst, ActiveIsBacked, Alive, TypeOK, StatusType, RunType,
                           statusVars, runVars, Run, Leave
<1>1. ASSUME NEW j \in Jobs, StartPrint(j) PROVE (StartedFirst /\ ActiveIsBacked)'
  BY <1>1 DEF StartPrint
<1>2. CASE Cancel
  BY <1>2 DEF Cancel
<1>3. ASSUME NEW j \in Jobs, LoopTop(j) PROVE (StartedFirst /\ ActiveIsBacked)'
  BY <1>3 DEF LoopTop
<1>4. ASSUME NEW j \in Jobs, LoopScan(j) PROVE (StartedFirst /\ ActiveIsBacked)'
  BY <1>4 DEF LoopScan
<1>5. ASSUME NEW j \in Jobs, LoopGate(j) PROVE (StartedFirst /\ ActiveIsBacked)'
  BY <1>5 DEF LoopGate
<1>6. ASSUME NEW j \in Jobs, SendCalls(j) PROVE (StartedFirst /\ ActiveIsBacked)'
  BY <1>6 DEF SendCalls
<1>7. ASSUME NEW j \in Jobs, SendReturns(j) PROVE (StartedFirst /\ ActiveIsBacked)'
  BY <1>7 DEF SendReturns
<1>8. ASSUME NEW j \in Jobs, OnLine(j) PROVE (StartedFirst /\ ActiveIsBacked)'
  BY <1>8 DEF OnLine
<1>9. ASSUME NEW j \in Jobs, Finish(j) PROVE (StartedFirst /\ ActiveIsBacked)'
  BY <1>9 DEF Finish
<1>10. CASE SetStatusPaused
  BY <1>10 DEF SetStatusPaused
<1>11. CASE SetSerialPaused
  BY <1>11 DEF SetSerialPaused, Released, Unlocked
<1>12. CASE UNCHANGED QuietVars
  BY <1>12 DEF QuietVars
<1> QED
  BY <1>1, <1>2, <1>3, <1>4, <1>5, <1>6, <1>7, <1>8, <1>9, <1>10, <1>11, <1>12, QuietSteps
  DEF Next, RunPrint, PauseSteps

\* A cancelled run queues no second line.
LEMMA CancelNext == TypeOK /\ StartedFirst /\ CancelInv /\ [Next]_vars => CancelInv'
<1> SUFFICES ASSUME TypeOK, StartedFirst, CancelInv, [Next]_vars PROVE CancelInv'
  OBVIOUS
<1> USE DEF CancelInv, TypeOK, RunType, HistoryType, StatusType,
            statusVars, runVars, historyVars, Run, Leave
<1>1. ASSUME NEW j \in Jobs, StartPrint(j) PROVE CancelInv'
  BY <1>1 DEF StartPrint
<1>2. CASE Cancel
  BY <1>2 DEF Cancel
<1>3. ASSUME NEW j \in Jobs, LoopTop(j) PROVE CancelInv'
  BY <1>3 DEF LoopTop
<1>4. ASSUME NEW j \in Jobs, LoopScan(j) PROVE CancelInv'
  BY <1>4 DEF LoopScan
<1>5. ASSUME NEW j \in Jobs, LoopGate(j) PROVE CancelInv'
  BY <1>5 DEF LoopGate
<1>6. ASSUME NEW j \in Jobs, SendCalls(j) PROVE CancelInv'
  BY <1>6 DEF SendCalls
<1>7. ASSUME NEW j \in Jobs, SendReturns(j) PROVE CancelInv'
  BY <1>7 DEF SendReturns
<1>8. ASSUME NEW j \in Jobs, OnLine(j) PROVE CancelInv'
  BY <1>8 DEF OnLine
<1>9. ASSUME NEW j \in Jobs, Finish(j) PROVE CancelInv'
  BY <1>9 DEF Finish
<1>10. CASE SetStatusPaused
  BY <1>10 DEF SetStatusPaused
<1>11. CASE SetSerialPaused
  BY <1>11 DEF SetSerialPaused, Released, Unlocked
<1>12. CASE UNCHANGED <<cancelled, rpc, afterCancel>>
  BY <1>12
<1>13. ASSUME \/ SerialChanges \/ PrinterAction \/ UNCHANGED vars
              \/ \E j \in Jobs : Watch(j)
              \/ \E r \in Clients : Request(r)
              \/ \E a \in Actors : TakeMu(a)
       PROVE  UNCHANGED <<cancelled, rpc, afterCancel>>
  BY <1>13 DEF SerialChanges, PrinterAction, Watch, Request, TakeMu, vars
<1> QED
  BY <1>1, <1>2, <1>3, <1>4, <1>5, <1>6, <1>7, <1>8, <1>9, <1>10, <1>11, <1>12, <1>13
  DEF Next, RunPrint, PauseSteps

\* A paused run queues nothing it did not have in hand.
LEMMA PauseNext == TypeOK /\ PauseInv /\ [Next]_vars => PauseInv'
<1> SUFFICES ASSUME TypeOK, PauseInv, [Next]_vars PROVE PauseInv'
  OBVIOUS
<1> USE DEF PauseInv, TypeOK, RunType, HistoryType, PauseType,
            pauseVars, runVars, historyVars, Run, Leave
<1>1. ASSUME NEW j \in Jobs, StartPrint(j) PROVE PauseInv'
  BY <1>1 DEF StartPrint
<1>2. ASSUME NEW j \in Jobs, LoopTop(j) PROVE PauseInv'
  BY <1>2 DEF LoopTop
<1>3. ASSUME NEW j \in Jobs, LoopScan(j) PROVE PauseInv'
  BY <1>3 DEF LoopScan
<1>4. ASSUME NEW j \in Jobs, LoopGate(j) PROVE PauseInv'
  BY <1>4 DEF LoopGate
<1>5. ASSUME NEW j \in Jobs, SendCalls(j) PROVE PauseInv'
  BY <1>5 DEF SendCalls
<1>6. ASSUME NEW j \in Jobs, SendReturns(j) PROVE PauseInv'
  BY <1>6 DEF SendReturns
<1>7. ASSUME NEW j \in Jobs, OnLine(j) PROVE PauseInv'
  BY <1>7 DEF OnLine
<1>8. ASSUME NEW j \in Jobs, Finish(j) PROVE PauseInv'
  BY <1>8 DEF Finish
<1>9. CASE SetSerialPaused
  BY <1>9 DEF SetSerialPaused, Released, Unlocked
<1>10. CASE UNCHANGED <<smPaused, rpc, inHand, overrun>>
  BY <1>10
<1>11. ASSUME \/ Cancel \/ SerialChanges \/ PrinterAction \/ SetStatusPaused \/ UNCHANGED vars
              \/ \E j \in Jobs : Watch(j)
              \/ \E r \in Clients : Request(r)
              \/ \E a \in Actors : TakeMu(a)
       PROVE  UNCHANGED <<smPaused, rpc, inHand, overrun>>
  BY <1>11 DEF Cancel, SerialChanges, PrinterAction, SetStatusPaused, Watch, Request, TakeMu, vars
<1> QED
  BY <1>1, <1>2, <1>3, <1>4, <1>5, <1>6, <1>7, <1>8, <1>9, <1>10, <1>11
  DEF Next, RunPrint, PauseSteps

\* jm.paused and sm.paused agree outside jm.mu.
LEMMA FlagsNext == TypeOK /\ FlagsInv /\ [Next]_vars => FlagsInv'
<1> SUFFICES ASSUME TypeOK, FlagsInv, [Next]_vars PROVE FlagsInv'
  OBVIOUS
<1> USE JobsAssumption DEF FlagsInv, MuFree, TypeOK, PauseType, pauseVars
<1>1. ASSUME NEW a \in Actors, TakeMu(a) PROVE FlagsInv'
  BY <1>1 DEF TakeMu, Actors, Requesters
<1>2. CASE SetStatusPaused
  BY <1>2 DEF SetStatusPaused
<1>3. CASE SetSerialPaused
  BY <1>3 DEF SetSerialPaused, Released, Unlocked
<1>4. CASE UNCHANGED pauseVars
  BY <1>4
<1>5. ASSUME \/ Cancel \/ SerialChanges \/ PrinterAction \/ UNCHANGED vars
             \/ \E j \in Jobs : StartPrint(j) \/ RunPrint(j) \/ Watch(j)
             \/ \E r \in Clients : Request(r)
      PROVE  UNCHANGED pauseVars
  BY <1>5 DEF Cancel, SerialChanges, PrinterAction, StartPrint, RunPrint, LoopTop, LoopScan,
              LoopGate, SendCalls, SendReturns, OnLine, Finish, Watch, Request, vars
<1> QED
  BY <1>1, <1>2, <1>3, <1>4, <1>5 DEF Next, PauseSteps

\* IInv is inductive.
LEMMA Inductive == IInv /\ [Next]_vars => IInv'
BY TypeNext, ActiveNext, CancelNext, PauseNext, FlagsNext DEF IInv

\* IInv holds at the start.
LEMMA Initially == Init => IInv
<1> SUFFICES ASSUME Init PROVE IInv
  OBVIOUS
<1>1. StartedFirst /\ ActiveIsBacked
  BY JobsAssumption DEF Init, StartedFirst, ActiveIsBacked
<1>2. CancelInv
  BY DEF Init, CancelInv
<1>3. PauseInv /\ FlagsInv
  BY DEF Init, PauseInv, FlagsInv, MuFree, Unlocked
<1> QED BY <1>1, <1>2, <1>3, TypeInit DEF IInv

\* The invariant of the job manager.
LEMMA Invariance == Spec => []IInv
BY Inductive, Initially, PTL DEF Spec

\* An active status is about a print that runs and that Cancel would stop.
THEOREM ActiveIsBackedAlways == Spec => []ActiveIsBacked
BY Invariance, PTL DEF IInv

\* After Cancel, a run queues at most one more line.
THEOREM CancelBoundAlways == Spec => []CancelBound
<1>1. IInv => CancelBound
  BY DEF IInv, CancelInv, CancelBound
<1> QED BY <1>1, Invariance, PTL

\* Under a pause, a run queues only the line it had in hand.
THEOREM PauseHoldsAlways == Spec => []PauseHolds
<1>1. IInv => PauseHolds
  BY DEF IInv, PauseInv, PauseHolds
<1> QED BY <1>1, Invariance, PTL

\* The two pause flags agree whenever jm.mu is free.
THEOREM PauseFlagsAgreeAlways == Spec => []PauseFlagsAgree
<1>1. IInv => PauseFlagsAgree
  BY DEF IInv, FlagsInv, PauseFlagsAgree
<1> QED BY <1>1, Invariance, PTL

-----------------------------------------------------------------------------
(* Users who wait: one run at a time, and a status that tells the truth.   *)

\* What holds while nobody has started a print beside a run that is alive.
PatientInv ==
  /\ ~rushed => \A j, k \in Jobs : Alive(j) /\ Alive(k) => j = k
  /\ StatusTruth
  /\ ShutdownWaits
  /\ \A j \in Jobs : watch[j] # "off" => rpc[j] # "none"

\* No step disturbs PatientInv.
LEMMA PatientNext ==
  ASSUME IInv, PatientInv, [Next]_vars
  PROVE  PatientInv'
<1> USE DEF PatientInv, StatusTruth, ShutdownWaits, Uncancelled, Alive, IInv, TypeOK,
            StatusType, RunType, statusVars, runVars, historyVars, Run, Leave
<1>1. ASSUME NEW j \in Jobs, StartPrint(j) PROVE PatientInv'
  BY <1>1 DEF StartPrint
<1>2. CASE Cancel
  BY <1>2 DEF Cancel, ActiveIsBacked
<1>3. ASSUME NEW j \in Jobs, LoopTop(j) PROVE PatientInv'
  BY <1>3 DEF LoopTop
<1>4. ASSUME NEW j \in Jobs, LoopScan(j) PROVE PatientInv'
  <2>1. UNCHANGED <<statusVars, watch, rushed>> /\ rpc[j] = "scan"
    BY <1>4 DEF LoopScan
  <2>2. rpc' = [rpc EXCEPT ![j] = rpc'[j]] /\ rpc'[j] \in {"top", "finish", "gate"}
    BY <1>4 DEF LoopScan
  <2> QED BY <2>1, <2>2
<1>5. ASSUME NEW j \in Jobs, LoopGate(j) PROVE PatientInv'
  BY <1>5 DEF LoopGate
<1>6. ASSUME NEW j \in Jobs, SendCalls(j) PROVE PatientInv'
  BY <1>6 DEF SendCalls
<1>7. ASSUME NEW j \in Jobs, SendReturns(j) PROVE PatientInv'
  BY <1>7 DEF SendReturns
<1>8. ASSUME NEW j \in Jobs, OnLine(j) PROVE PatientInv'
  BY <1>8 DEF OnLine
<1>9. ASSUME NEW j \in Jobs, Finish(j) PROVE PatientInv'
  BY <1>9 DEF Finish
<1>10. CASE SetStatusPaused
  BY <1>10 DEF SetStatusPaused
<1>11. CASE SetSerialPaused
  BY <1>11 DEF SetSerialPaused, Released, Unlocked
<1>12. ASSUME NEW j \in Jobs, Watch(j) PROVE PatientInv'
  BY <1>12 DEF Watch
<1>13. CASE UNCHANGED <<statusVars, rpc, watch, rushed>>
  BY <1>13
<1>14. ASSUME \/ SerialChanges \/ PrinterAction \/ UNCHANGED vars
              \/ \E r \in Clients : Request(r)
              \/ \E a \in Actors : TakeMu(a)
       PROVE  UNCHANGED <<statusVars, rpc, watch, rushed>>
  BY <1>14 DEF SerialChanges, PrinterAction, Request, TakeMu, vars
<1> QED
  BY <1>1, <1>2, <1>3, <1>4, <1>5, <1>6, <1>7, <1>8, <1>9, <1>10, <1>11, <1>12, <1>13, <1>14
  DEF Next, RunPrint, PauseSteps

\* While no print is started beside a live run, an uncancelled run is the job of an active status.
THEOREM StatusTruthAlways == Spec => []StatusTruth
<1>1. Init => PatientInv
  BY JobsAssumption DEF Init, PatientInv, StatusTruth, ShutdownWaits, Uncancelled, Alive
<1>2. IInv /\ PatientInv /\ [Next]_vars => PatientInv'
  BY PatientNext
<1>3. PatientInv => StatusTruth
  BY DEF PatientInv
<1> QED BY <1>1, <1>2, <1>3, Invariance, PTL DEF Spec

\* While no print is started beside a live run, the shutdown script waits for its print.
THEOREM ShutdownWaitsAlways == Spec => []ShutdownWaits
<1>1. Init => PatientInv
  BY JobsAssumption DEF Init, PatientInv, StatusTruth, ShutdownWaits, Uncancelled, Alive
<1>2. IInv /\ PatientInv /\ [Next]_vars => PatientInv'
  BY PatientNext
<1>3. PatientInv => ShutdownWaits
  BY DEF PatientInv
<1> QED BY <1>1, <1>2, <1>3, Invariance, PTL DEF Spec

-----------------------------------------------------------------------------
(* Counting lines: nothing of a file is skipped.                           *)

\* The commands among the first lines of a file: a finite set that grows by
\* the next line if it is a command.
LEMMA CountFinite ==
  ASSUME NEW j \in Jobs, NEW n \in Nat
  PROVE  IsFiniteSet(CommandsUpTo(j, n)) /\ Cardinality(CommandsUpTo(j, n)) \in Nat
<1>1. CommandsUpTo(j, n) \in SUBSET (1 .. n) /\ IsFiniteSet(1 .. n)
  BY FS_Interval DEF CommandsUpTo
<1> QED BY <1>1, FS_Subset, FS_CardinalityType

\* No lines, no commands.
LEMMA CountNone == \A j \in Jobs : Cardinality(CommandsUpTo(j, 0)) = 0
<1>1. \A j \in Jobs : CommandsUpTo(j, 0) = {}
  BY DEF CommandsUpTo
<1> QED BY <1>1, FS_EmptySet

\* The next line counts if it is a command.
LEMMA CountNext ==
  ASSUME NEW j \in Jobs, NEW n \in Nat
  PROVE  Cardinality(CommandsUpTo(j, n + 1))
           = Cardinality(CommandsUpTo(j, n)) + (IF IsCommand(Program[j][n + 1]) THEN 1 ELSE 0)
<1>1. CASE IsCommand(Program[j][n + 1])
  <2>1. CommandsUpTo(j, n + 1) = CommandsUpTo(j, n) \cup {n + 1}
    BY <1>1 DEF CommandsUpTo
  <2>2. n + 1 \notin CommandsUpTo(j, n)
    BY DEF CommandsUpTo
  <2> QED BY <1>1, <2>1, <2>2, CountFinite, FS_AddElement
<1>2. CASE ~IsCommand(Program[j][n + 1])
  <2>1. CommandsUpTo(j, n + 1) = CommandsUpTo(j, n)
    BY <1>2 DEF CommandsUpTo
  <2> QED BY <1>2, <2>1, CountFinite
<1> QED BY <1>1, <1>2

\* The number of commands among the first n lines of j's file.
Count(j, n) == Cardinality(CommandsUpTo(j, n))

\* How the counters of one run hang together at each of its control points.
LinesOf(j) ==
  /\ pos[j] <= Len(Program[j])
  /\ rpc[j] = "none" => pos[j] = 0
  /\ rpc[j] \notin {"finish", "ended"} =>
       Count(j, pos[j]) = handed[j] + (IF rpc[j] \in {"gate", "call"} THEN 1 ELSE 0)
  /\ rpc[j] \notin {"finish", "ended"} =>
       handed[j] = sent[j] + (IF rpc[j] = "send" THEN 1 ELSE 0)
  /\ rpc[j] \in {"finish", "ended"} /\ result[j] = "nil" =>
       sent[j] = Count(j, Len(Program[j]))

LinesInv == \A j \in Jobs : LinesOf(j)

\* A step that leaves a run's counters and control point alone.
LEMMA LinesFrame ==
  ASSUME NEW j \in Jobs, LinesOf(j),
         rpc'[j] = rpc[j], pos'[j] = pos[j], sent'[j] = sent[j],
         result'[j] = result[j], handed'[j] = handed[j]
  PROVE  LinesOf(j)'
BY DEF LinesOf, Count, CommandsUpTo, IsCommand

\* The steps of a run keep its counters in agreement.
LEMMA LinesRun ==
  ASSUME TypeOK, NEW j \in Jobs, LinesOf(j), StartPrint(j) \/ RunPrint(j)
  PROVE  LinesOf(j)'
<1>1. /\ pos[j] \in Nat /\ sent[j] \in Nat /\ handed[j] \in Nat
      /\ Len(Program[j]) \in Nat
      /\ \A n \in Nat : Count(j, n) \in Nat
  BY LenNat, CountFinite DEF TypeOK, RunType, HistoryType, Count
<1>2. Count(j, pos[j] + 1) = Count(j, pos[j]) + (IF IsCommand(Program[j][pos[j] + 1]) THEN 1 ELSE 0)
  BY <1>1, CountNext DEF Count
<1> USE DEF LinesOf, TypeOK, RunType, HistoryType, runVars, historyVars, Run, Leave
<1>4. CASE StartPrint(j)
  BY <1>4, <1>1 DEF StartPrint
<1>5. CASE LoopTop(j)
  BY <1>5, <1>1 DEF LoopTop
<1>6. CASE LoopScan(j)
  <2>1. UNCHANGED <<sent, handed>> /\ rpc[j] = "scan"
    BY <1>6 DEF LoopScan
  <2>2. CASE rpc'[j] = "top" /\ pos' = pos
    BY <2>1, <2>2, <1>1
  <2>3. CASE rpc'[j] = "finish" /\ pos' = pos /\ (result'[j] = "nil" => pos[j] = Len(Program[j]))
    BY <2>1, <2>3, <1>1
  <2>4. CASE /\ pos[j] < Len(Program[j]) /\ pos'[j] = pos[j] + 1
             /\ rpc'[j] = IF IsCommand(Program[j][pos[j] + 1]) THEN "gate" ELSE "top"
    <3>1. Count(j, pos'[j]) = Count(j, pos[j]) + (IF rpc'[j] = "gate" THEN 1 ELSE 0)
      BY <2>4, <1>2
    <3>2. rpc'[j] \in {"gate", "top"}
      BY <2>4
    <3>3. pos'[j] <= Len(Program[j])
      <4>1. pos[j] < Len(Program[j]) /\ pos'[j] = pos[j] + 1
        BY <2>4
      <4>2. pos[j] \in Nat /\ Len(Program[j]) \in Nat
        BY <1>1
      <4> QED BY <4>1, <4>2
    <3>4. CASE rpc'[j] = "gate"
      BY <2>1, <3>1, <3>3, <3>4, <1>1
    <3>5. CASE rpc'[j] = "top"
      BY <2>1, <3>1, <3>3, <3>5, <1>1
    <3> QED BY <3>2, <3>4, <3>5
  <2> QED BY <1>6, <1>1, <2>2, <2>3, <2>4 DEF LoopScan
<1>7. CASE LoopGate(j)
  BY <1>7, <1>1 DEF LoopGate
<1>8. CASE SendCalls(j)
  <2>1. UNCHANGED <<pos, sent>> /\ rpc[j] = "call"
    BY <1>8 DEF SendCalls
  <2>2. CASE rpc'[j] = "send" /\ handed'[j] = handed[j] + 1
    BY <2>1, <2>2, <1>1
  <2>3. CASE rpc'[j] = "finish" /\ result'[j] = "error"
    BY <2>1, <2>3, <1>1
  <2> QED BY <1>8, <2>2, <2>3 DEF SendCalls
<1>9. CASE SendReturns(j)
  <2>1. UNCHANGED <<pos, handed>> /\ rpc[j] = "send"
    BY <1>9 DEF SendReturns
  <2>2. CASE rpc'[j] = "onLine" /\ sent'[j] = sent[j] + 1
    BY <2>1, <2>2, <1>1
  <2>3. CASE rpc'[j] = "finish" /\ result'[j] = "error"
    BY <2>1, <2>3, <1>1
  <2> QED BY <1>9, <2>2, <2>3 DEF SendReturns
<1>10. CASE OnLine(j)
  BY <1>10, <1>1 DEF OnLine
<1>11. CASE Finish(j)
  BY <1>11, <1>1 DEF Finish
<1> QED
  BY <1>4, <1>5, <1>6, <1>7, <1>8, <1>9, <1>10, <1>11 DEF RunPrint

\* A step of anyone else leaves the run's counters alone; a run that obeys a
\* pausing line of its file only returns to the head of the loop.
LEMMA LinesNext == TypeOK /\ LinesInv /\ [Next]_vars => LinesInv'
<1> SUFFICES ASSUME TypeOK, LinesInv, [Next]_vars, NEW k \in Jobs
             PROVE  LinesOf(k)'
  BY DEF LinesInv
<1> USE DEF TypeOK, RunType, HistoryType, runVars, historyVars, Run, Leave
<1>1. LinesOf(k)
  BY DEF LinesInv
<1>2. ASSUME NEW j \in Jobs, StartPrint(j) \/ RunPrint(j) PROVE LinesOf(k)'
  <2>1. CASE j = k
    BY <1>1, <1>2, <2>1, LinesRun
  <2>2. CASE j # k
    <3>1. /\ rpc'[k] = rpc[k] /\ pos'[k] = pos[k] /\ sent'[k] = sent[k]
          /\ result'[k] = result[k] /\ handed'[k] = handed[k]
      <4>1. CASE StartPrint(j) \/ LoopTop(j) \/ LoopGate(j)
        BY <4>1, <2>2 DEF StartPrint, LoopTop, LoopGate
      <4>2. CASE LoopScan(j)
        BY <4>2, <2>2 DEF LoopScan
      <4>3. CASE SendCalls(j) \/ SendReturns(j)
        BY <4>3, <2>2 DEF SendCalls, SendReturns
      <4>4. CASE OnLine(j) \/ Finish(j)
        BY <4>4, <2>2 DEF OnLine, Finish
      <4> QED BY <1>2, <4>1, <4>2, <4>3, <4>4 DEF RunPrint
    <3> QED BY <1>1, <3>1, LinesFrame
  <2> QED BY <2>1, <2>2
<1>3. CASE SetSerialPaused
  <2>1. UNCHANGED <<pos, sent, result, handed>>
    BY <1>3 DEF SetSerialPaused, Released, Unlocked
  <2>2. rpc'[k] = rpc[k] \/ (rpc[k] = "HandleGcode" /\ rpc'[k] = "top")
    <3>1. CASE mu.who = k
      BY <1>3, <3>1 DEF SetSerialPaused, Released, Unlocked
    <3>2. CASE mu.who # k
      <4>1. rpc' = rpc \/ rpc' = [rpc EXCEPT ![mu.who] = "top"]
        BY <1>3 DEF SetSerialPaused, Released, Unlocked
      <4> QED BY <3>2, <4>1
    <3> QED BY <3>1, <3>2
  <2> QED BY <1>1, <2>1, <2>2 DEF LinesOf, Count, CommandsUpTo, IsCommand
<1>4. CASE UNCHANGED <<runVars, handed>>
  BY <1>1, <1>4, LinesFrame
<1>5. ASSUME \/ Cancel \/ SerialChanges \/ PrinterAction \/ SetStatusPaused \/ UNCHANGED vars
             \/ \E j \in Jobs : Watch(j)
             \/ \E r \in Clients : Request(r)
             \/ \E a \in Actors : TakeMu(a)
      PROVE  UNCHANGED <<runVars, handed>>
  BY <1>5 DEF Cancel, SerialChanges, PrinterAction, SetStatusPaused, Watch, Request, TakeMu, vars
<1> QED
  BY <1>2, <1>3, <1>4, <1>5 DEF Next, PauseSteps

\* The counters agree in every reachable state.
LEMMA LinesAlways == Spec => []LinesInv
<1>1. Init => LinesInv
  BY CountNone, LenNat DEF Init, LinesInv, LinesOf, Count
<1>2. TypeOK /\ LinesInv /\ [Next]_vars => LinesInv'
  BY LinesNext
<1> QED BY <1>1, <1>2, TypeCorrect, PTL DEF Spec

\* Every command line the scanner passed was queued once, but for the one in hand.
THEOREM NoLineSkippedAlways == Spec => []NoLineSkipped
<1>1. LinesInv => NoLineSkipped
  BY DEF LinesInv, LinesOf, Count, NoLineSkipped
<1> QED BY <1>1, LinesAlways, PTL

\* A print that ends as "Done" had every command of its file acknowledged.
THEOREM DoneMeansAllAlways == Spec => []DoneMeansAll
<1>1. LinesInv => DoneMeansAll
  BY DEF LinesInv, LinesOf, Count, DoneMeansAll
<1> QED BY <1>1, LinesAlways, PTL
-----------------------------------------------------------------------------
(* The two locks.                                                          *)

\* A callback keeps jm.Lock exactly as long as it is in Pause or Resume, so that
\* a job that holds jm.mu holds jm.Lock already.
LockInv ==
  /\ \A j \in Jobs : jmLock = j <=> rpc[j] = "HandleGcode"
  /\ mu.who \in Jobs => jmLock = mu.who

\* Every step keeps that.
LEMMA LockNext == TypeOK /\ LockInv /\ [Next]_vars => LockInv'
<1> SUFFICES ASSUME TypeOK, LockInv, [Next]_vars PROVE LockInv'
  OBVIOUS
<1> USE DEF TypeOK, PauseType, RunType, LockInv
<1>0. NoJob \notin Jobs
  BY JobsAssumption
<1>1. ASSUME NEW j \in Jobs, StartPrint(j) \/ LoopTop(j) \/ LoopScan(j) \/ LoopGate(j) \/ SendCalls(j)
                             \/ SendReturns(j) \/ Finish(j)
      PROVE  LockInv'
  <2>1. jmLock' = jmLock /\ mu' = mu
    BY <1>1 DEF StartPrint, LoopTop, LoopScan, LoopGate, SendCalls, SendReturns, Finish, pauseVars
  <2>2. \E to \in {"top", "scan", "gate", "call", "send", "onLine", "finish", "ended"} :
          rpc' = [rpc EXCEPT ![j] = to]
    BY <1>1 DEF StartPrint, LoopTop, LoopScan, LoopGate, SendCalls, SendReturns, Finish, Leave, Run
  <2>3. rpc[j] # "HandleGcode"
    BY <1>1 DEF StartPrint, LoopTop, LoopScan, LoopGate, SendCalls, SendReturns, Finish, Leave, Run
  <2> QED BY <2>1, <2>2, <2>3
<1>2. ASSUME NEW j \in Jobs, OnLine(j) PROVE LockInv'
  <2>1. mu' = mu /\ jmLock = NoJob /\ rpc[j] = "onLine"
    BY <1>2 DEF OnLine, pauseVars, JmFree
  <2>2. \/ rpc' = [rpc EXCEPT ![j] = "top"] /\ jmLock' = jmLock
        \/ rpc' = [rpc EXCEPT ![j] = "HandleGcode"] /\ jmLock' = j
    BY <1>2 DEF OnLine, Run
  <2> QED BY <1>0, <2>1, <2>2
<1>3. ASSUME NEW a \in Actors, TakeMu(a) PROVE LockInv'
  <2>1. rpc' = rpc /\ jmLock' = jmLock /\ mu'.who = a
    BY <1>3 DEF TakeMu, runVars
  <2>2. a \in Jobs => rpc[a] = "HandleGcode"
    BY <1>3, JobsAssumption DEF TakeMu, Requesters
  <2> QED BY <2>1, <2>2
<1>4. CASE SetStatusPaused
  BY <1>4 DEF SetStatusPaused, runVars
<1>5. CASE SetSerialPaused
  <2>1. mu' = Unlocked /\ mu'.who = NoJob
    BY <1>5 DEF SetSerialPaused, Released, Unlocked
  <2>2. CASE mu.who \in Jobs
    <3>1. rpc' = [rpc EXCEPT ![mu.who] = "top"] /\ jmLock' = NoJob
      BY <1>5, <2>2 DEF SetSerialPaused, Released, Run
    <3> QED BY <1>0, <2>1, <2>2, <3>1
  <2>3. CASE mu.who \notin Jobs
    <3>1. rpc' = rpc /\ jmLock' = jmLock
      BY <1>5, <2>3 DEF SetSerialPaused, Released
    <3> QED BY <1>0, <2>1, <3>1
  <2> QED BY <2>2, <2>3
<1>6. CASE UNCHANGED <<rpc, jmLock, mu>>
  BY <1>6
<1>7. \/ \E j \in Jobs : StartPrint(j) \/ RunPrint(j)
      \/ PauseSteps
      \/ UNCHANGED <<rpc, jmLock, mu>>
  BY DEF Next, Watch, Cancel, SerialChanges, Request, PrinterAction, vars, runVars, pauseVars
<1> QED BY <1>1, <1>2, <1>3, <1>4, <1>5, <1>6, <1>7 DEF RunPrint, PauseSteps

\* The invariant holds in every behaviour.
LEMMA LockAlways == Spec => [](TypeOK /\ StartedFirst /\ LockInv)
<1>1. Init => LockInv
  BY JobsAssumption DEF Init, LockInv, Unlocked
<1>2. IInv => TypeOK /\ StartedFirst
  BY DEF IInv
<1> QED BY <1>1, <1>2, LockNext, Invariance, PTL DEF Spec

\* jm.Lock comes before jm.mu: a run that is in jm.mu has jm.Lock, and the run
\* that has jm.Lock across a callback is in Pause or Resume, which ask for jm.mu
\* only. A run and a request never wait for each other's lock.
THEOREM LockOrder == Spec => []LockInv
BY LockAlways, PTL
-----------------------------------------------------------------------------
(* The end of a cancelled run.                                             *)

\* Go's mutexes serve whoever waits: a run, also one in Pause or Resume, that
\* can get on again and again does so.
RunIsServed(j) == SF_vars(RunPrint(j)) /\ SF_vars(TakeMu(j))
PauseGoesOn == WF_vars(SetStatusPaused) /\ WF_vars(SetSerialPaused)
LocksAreFair == PauseGoesOn /\ \A j \in Jobs : RunIsServed(j)

\* Where a cancelled run, Pause and Resume can take their next step.
CanRun(j) ==
  \/ rpc[j] \in {"top", "scan", "gate", "call", "send"}
  \/ rpc[j] \in {"onLine", "finish"} /\ JmFree
RunCanStep == \A j \in Jobs : j \in cancelled /\ CanRun(j) => ENABLED <<RunPrint(j)>>_vars
Waits(j) == jmLock = j /\ MuFree
HolderCanStep == \A j \in Jobs : Waits(j) => ENABLED <<TakeMu(j)>>_vars
PauseCanStep ==
  /\ mu.step = 1 => ENABLED <<SetStatusPaused>>_vars
  /\ mu.step = 2 => ENABLED <<SetSerialPaused>>_vars
CanStep == RunCanStep /\ HolderCanStep /\ PauseCanStep

LockFacts == TypeOK /\ StartedFirst /\ LockInv

\* Only Pause and Resume touch jm.mu.
LEMMA MuMoves ==
  [Next]_vars => \/ mu' = mu \/ SetStatusPaused \/ SetSerialPaused
                 \/ \E a \in Actors : TakeMu(a)
<1> SUFFICES ASSUME [Next]_vars PROVE \/ mu' = mu \/ SetStatusPaused \/ SetSerialPaused
                                      \/ \E a \in Actors : TakeMu(a)
  OBVIOUS
<1>1. ASSUME NEW j \in Jobs, StartPrint(j) \/ RunPrint(j) \/ Watch(j) PROVE mu' = mu
  BY <1>1 DEF StartPrint, RunPrint, LoopTop, LoopScan, LoopGate, SendCalls, SendReturns, OnLine, Finish,
     Watch, pauseVars
<1>2. CASE Cancel \/ SerialChanges \/ PrinterAction \/ (\E c \in Clients : Request(c)) \/ UNCHANGED vars
  BY <1>2 DEF Cancel, SerialChanges, PrinterAction, Request, vars, pauseVars
<1> QED BY <1>1, <1>2 DEF Next, PauseSteps

\* jm.mu is free again and again.
LEMMA MuIsFreed == []LockFacts /\ [][Next]_vars /\ PauseGoesOn /\ []CanStep => []<>MuFree
<1>1. CanStep => /\ mu.step = 1 => ENABLED <<SetStatusPaused>>_vars
                 /\ mu.step = 2 => ENABLED <<SetSerialPaused>>_vars
  BY DEF CanStep, PauseCanStep
<1>2. LockFacts => MuFree \/ mu.step = 1 \/ mu.step = 2
  BY DEF LockFacts, TypeOK, PauseType, MuFree
<1>3. LockFacts /\ [Next]_vars /\ mu.step = 1 => (mu.step = 1)' \/ (mu.step = 2)'
  <2> SUFFICES ASSUME LockFacts, [Next]_vars, mu.step = 1 PROVE mu'.step \in {1, 2}
    OBVIOUS
  <2>1. ~MuFree /\ mu \in [who : Actors \cup {NoJob}, value : BOOLEAN, step : 0 .. 2]
    BY DEF LockFacts, TypeOK, PauseType, MuFree
  <2>2. CASE SetStatusPaused
    BY <2>1, <2>2 DEF SetStatusPaused
  <2>3. CASE mu' = mu
    BY <2>3
  <2>4. ~SetSerialPaused /\ \A a \in Actors : ~TakeMu(a)
    BY <2>1 DEF SetSerialPaused, Released, TakeMu
  <2> QED BY <2>2, <2>3, <2>4, MuMoves
<1>4. <<SetStatusPaused>>_vars /\ LockFacts => (mu.step = 2)'
  BY DEF SetStatusPaused, LockFacts, TypeOK, PauseType
<1>5. <<SetSerialPaused>>_vars => MuFree'
  BY DEF SetSerialPaused, Released, Unlocked, MuFree
<1>6. LockFacts /\ [Next]_vars /\ mu.step = 2 => (mu.step = 2)' \/ MuFree'
  <2> SUFFICES ASSUME LockFacts, [Next]_vars, mu.step = 2 PROVE (mu.step = 2)' \/ MuFree'
    OBVIOUS
  <2>1. ~MuFree
    BY DEF LockFacts, TypeOK, PauseType, MuFree
  <2>2. CASE SetSerialPaused
    BY <2>2 DEF SetSerialPaused, Released, Unlocked, MuFree
  <2>3. ~SetStatusPaused /\ \A a \in Actors : ~TakeMu(a)
    BY <2>1 DEF SetStatusPaused, TakeMu
  <2> QED BY <2>2, <2>3, MuMoves
<1> QED BY <1>1, <1>2, <1>3, <1>4, <1>5, <1>6, PTL DEF PauseGoesOn

\* A callback that holds jm.Lock gives it back.
LEMMA HolderEnds ==
  ASSUME NEW j \in Jobs
  PROVE  /\ []LockFacts /\ [][Next]_vars /\ PauseGoesOn /\ RunIsServed(j) /\ []CanStep
         /\ []~JmFree
         => ~(jmLock = j)
<1>1. CanStep => (Waits(j) => ENABLED <<TakeMu(j)>>_vars)
  <2>1. CanStep => HolderCanStep
    BY DEF CanStep
  <2>2. HolderCanStep => (Waits(j) => ENABLED <<TakeMu(j)>>_vars)
    BY DEF HolderCanStep
  <2> QED BY <2>1, <2>2
<1>2. LockFacts /\ <<TakeMu(j)>>_vars => (mu.who = j)'
  BY DEF TakeMu
<1>3. LockFacts /\ [Next]_vars /\ ~JmFree' /\ jmLock = j => (jmLock = j)'
  <2> SUFFICES ASSUME LockFacts, [Next]_vars, ~JmFree', jmLock = j PROVE jmLock' = j
    OBVIOUS
  <2> QED BY JobsAssumption DEF Next, PauseSteps, StartPrint, RunPrint, LoopTop, LoopScan, LoopGate, SendCalls,
     SendReturns, OnLine, Finish, Watch, Cancel, SerialChanges, Request, PrinterAction, TakeMu, SetSerialPaused,
     Released, SetStatusPaused, JmFree, vars
<1>4. LockFacts /\ [Next]_vars /\ ~JmFree' /\ mu.who = j => (mu.who = j)'
  <2> SUFFICES ASSUME LockFacts, [Next]_vars, ~JmFree', mu.who = j PROVE mu'.who = j
    OBVIOUS
  <2>1. ~MuFree
    BY JobsAssumption DEF MuFree
  <2>2. mu' = mu \/ SetStatusPaused \/ SetSerialPaused
    BY <2>1, MuMoves DEF TakeMu
  <2>3. ~SetSerialPaused
    BY DEF SetSerialPaused, Released, JmFree
  <2>4. SetStatusPaused => mu'.who = j
    BY DEF SetStatusPaused, LockFacts, TypeOK, PauseType
  <2> QED BY <2>2, <2>3, <2>4
<1>5. mu.who = j => ~MuFree
  BY JobsAssumption DEF MuFree
<1> QED BY <1>1, <1>2, <1>3, <1>4, <1>5, MuIsFreed, PTL DEF RunIsServed, Waits

\* jm.Lock is free again and again.
LEMMA JmIsFreed == []LockFacts /\ [][Next]_vars /\ []LocksAreFair /\ []CanStep => []<>JmFree
<1> DEFINE Held == []LockFacts /\ [][Next]_vars /\ []CanStep /\ []~JmFree
<1>1. ASSUME NEW j \in Jobs PROVE Held /\ LocksAreFair => ~(jmLock = j)
  <2>1. LocksAreFair => PauseGoesOn /\ RunIsServed(j)
    BY DEF LocksAreFair
  <2>2. /\ []LockFacts /\ [][Next]_vars /\ PauseGoesOn /\ RunIsServed(j) /\ []CanStep
        /\ []~JmFree
        => ~(jmLock = j)
    BY HolderEnds
  <2> QED BY <2>1, <2>2, PTL
<1> HIDE DEF Held
<1>2. Held /\ LocksAreFair => \A j \in Jobs : ~(jmLock = j)
  BY <1>1
<1>3. LockFacts /\ ~JmFree => ~ \A j \in Jobs : ~(jmLock = j)
  BY DEF LockFacts, TypeOK, PauseType, JmFree
<1> QED BY <1>2, <1>3, PTL DEF Held
-----------------------------------------------------------------------------

\* Where runPrint of job j is.
At(j, where) == rpc[j] = where

\* A cancelled run stays cancelled, and goes nowhere but forward.
LEMMA CancelledMoves ==
  ASSUME NEW j \in Jobs, LockFacts, [Next]_vars, j \in cancelled
  PROVE  /\ j \in cancelled'
         /\ At(j, "top") => At(j, "top")' \/ At(j, "finish")'
         /\ At(j, "scan") => At(j, "scan")' \/ At(j, "top")' \/ At(j, "gate")' \/ At(j, "finish")'
         /\ At(j, "gate") => At(j, "gate")' \/ At(j, "call")' \/ At(j, "finish")'
         /\ At(j, "call") => At(j, "call")' \/ At(j, "send")' \/ At(j, "finish")'
         /\ At(j, "send") => At(j, "send")' \/ At(j, "onLine")' \/ At(j, "finish")'
         /\ At(j, "onLine") => At(j, "onLine")' \/ At(j, "top")' \/ At(j, "HandleGcode")'
         /\ At(j, "HandleGcode") => At(j, "HandleGcode")' \/ At(j, "top")'
         /\ At(j, "finish") => At(j, "finish")' \/ At(j, "ended")'
         /\ At(j, "ended") => At(j, "ended")'
<1> USE DEF LockFacts, TypeOK, StatusType, PauseType, RunType, At
<1>0. j \in cancelled'
  BY DEF Next, PauseSteps, StartPrint, RunPrint, LoopTop, LoopScan, LoopGate, SendCalls, SendReturns, OnLine,
     Finish, Watch, Cancel, SerialChanges, Request, PrinterAction, TakeMu, SetSerialPaused, Released,
     SetStatusPaused, statusVars, vars
<1>1. CASE rpc'[j] = rpc[j]
  BY <1>0, <1>1
<1>2. CASE RunPrint(j)
  <2>1. CASE LoopTop(j)
    BY <1>0, <2>1 DEF LoopTop, Leave, Run
  <2>2. CASE LoopScan(j)
    <3>1. rpc[j] = "scan"
      BY <2>2 DEF LoopScan, Leave, Run
    <3>2. \E to \in {"top", "gate", "finish"} : rpc' = [rpc EXCEPT ![j] = to]
      BY <2>2 DEF LoopScan, Leave, Run
    <3> QED BY <1>0, <3>1, <3>2
  <2>3. CASE LoopGate(j)
    BY <1>0, <2>3 DEF LoopGate, Leave, Run
  <2>4. CASE SendCalls(j)
    BY <1>0, <2>4 DEF SendCalls, Leave, Run
  <2>5. CASE SendReturns(j)
    BY <1>0, <2>5 DEF SendReturns, Leave, Run
  <2>6. CASE OnLine(j)
    BY <1>0, <2>6 DEF OnLine, Run
  <2>7. CASE Finish(j)
    BY <1>0, <2>7 DEF Finish, Run
  <2> QED BY <1>2, <2>1, <2>2, <2>3, <2>4, <2>5, <2>6, <2>7 DEF RunPrint
<1>3. CASE SetSerialPaused
  <2>1. rpc' = rpc \/ (\E k \in Jobs : rpc[k] = "HandleGcode" /\ rpc' = [rpc EXCEPT ![k] = "top"])
    BY <1>3 DEF SetSerialPaused, Released, Run
  <2>2. rpc'[j] = rpc[j] \/ (rpc[j] = "HandleGcode" /\ rpc'[j] = "top")
    BY <2>1
  <2>3. CASE rpc[j] = "HandleGcode" /\ rpc'[j] = "top"
    BY <1>0, <2>3
  <2> QED BY <1>1, <2>2, <2>3
<1>4. rpc[j] # "none"
  BY DEF StartedFirst
<1>5. ASSUME NEW k \in Jobs, StartPrint(k) \/ Watch(k) PROVE rpc'[j] = rpc[j]
  BY <1>4, <1>5 DEF StartPrint, Watch, runVars
<1>6. ASSUME NEW k \in Jobs \ {j}, RunPrint(k) PROVE rpc'[j] = rpc[j]
  BY <1>6 DEF RunPrint, LoopTop, LoopScan, LoopGate, SendCalls, SendReturns, OnLine, Finish, Leave, Run
<1>7. ASSUME \/ Cancel \/ SerialChanges \/ PrinterAction \/ SetStatusPaused \/ UNCHANGED vars
             \/ (\E c \in Clients : Request(c)) \/ (\E a \in Actors : TakeMu(a))
      PROVE  rpc'[j] = rpc[j]
  BY <1>7 DEF Cancel, SerialChanges, PrinterAction, SetStatusPaused, Request, TakeMu, runVars, vars
<1> QED BY <1>1, <1>2, <1>3, <1>5, <1>6, <1>7 DEF Next, PauseSteps

\* When it moves, it leaves the place where it was.
LEMMA CancelledLeaves ==
  ASSUME NEW j \in Jobs, LockFacts, RunPrint(j), j \in cancelled
  PROVE  /\ At(j, "top") => ~At(j, "top")'
         /\ At(j, "scan") => ~At(j, "scan")'
         /\ At(j, "gate") => ~At(j, "gate")'
         /\ At(j, "call") => ~At(j, "call")'
         /\ At(j, "send") => ~At(j, "send")'
         /\ At(j, "onLine") => ~At(j, "onLine")'
         /\ At(j, "finish") => ~At(j, "finish")'
BY DEF LockFacts, TypeOK, RunType, At, RunPrint, LoopTop, LoopScan, LoopGate, SendCalls, SendReturns, OnLine,
   Finish, Leave, Run

\* A cancelled run that can go on when it is its turn ends.
LEMMA CancelledRunEnds ==
  ASSUME NEW j \in Jobs
  PROVE  /\ []LockFacts /\ [][Next]_vars /\ []<>JmFree /\ RunIsServed(j) /\ []CanStep
         => (j \in cancelled ~> rpc[j] = "ended")
<1>1. LockFacts /\ j \in cancelled =>
        \/ At(j, "top") \/ At(j, "scan") \/ At(j, "gate") \/ At(j, "call") \/ At(j, "send")
        \/ At(j, "onLine") \/ At(j, "HandleGcode") \/ At(j, "finish") \/ At(j, "ended")
  BY DEF LockFacts, TypeOK, RunType, StartedFirst, At
<1>2. LockFacts /\ [Next]_vars /\ j \in cancelled =>
         /\ (j \in cancelled)'
         /\ At(j, "top") => At(j, "top")' \/ At(j, "finish")'
         /\ At(j, "scan") => At(j, "scan")' \/ At(j, "top")' \/ At(j, "gate")' \/ At(j, "finish")'
         /\ At(j, "gate") => At(j, "gate")' \/ At(j, "call")' \/ At(j, "finish")'
         /\ At(j, "call") => At(j, "call")' \/ At(j, "send")' \/ At(j, "finish")'
         /\ At(j, "send") => At(j, "send")' \/ At(j, "onLine")' \/ At(j, "finish")'
         /\ At(j, "onLine") => At(j, "onLine")' \/ At(j, "top")' \/ At(j, "HandleGcode")'
         /\ At(j, "HandleGcode") => At(j, "HandleGcode")' \/ At(j, "top")'
         /\ At(j, "finish") => At(j, "finish")' \/ At(j, "ended")'
         /\ At(j, "ended") => At(j, "ended")'
  BY CancelledMoves
<1>3. LockFacts /\ <<RunPrint(j)>>_vars /\ j \in cancelled =>
         /\ At(j, "top") => ~At(j, "top")'
         /\ At(j, "scan") => ~At(j, "scan")'
         /\ At(j, "gate") => ~At(j, "gate")'
         /\ At(j, "call") => ~At(j, "call")'
         /\ At(j, "send") => ~At(j, "send")'
         /\ At(j, "onLine") => ~At(j, "onLine")'
         /\ At(j, "finish") => ~At(j, "finish")'
  BY CancelledLeaves
<1>4. LockFacts /\ At(j, "HandleGcode") => ~JmFree
  BY JobsAssumption DEF LockFacts, LockInv, At, JmFree
<1>5. CanStep => (j \in cancelled /\ CanRun(j) => ENABLED <<RunPrint(j)>>_vars)
  <2>1. CanStep => RunCanStep
    BY DEF CanStep
  <2>2. RunCanStep => (j \in cancelled /\ CanRun(j) => ENABLED <<RunPrint(j)>>_vars)
    BY DEF RunCanStep
  <2> QED BY <2>1, <2>2
<1>6. (\/ At(j, "top") \/ At(j, "scan") \/ At(j, "gate") \/ At(j, "call") \/ At(j, "send")
       \/ (At(j, "onLine") \/ At(j, "finish")) /\ JmFree) => CanRun(j)
  BY DEF At, CanRun
<1>7. At(j, "ended") => rpc[j] = "ended"
  BY DEF At
<1> QED BY <1>1, <1>2, <1>3, <1>4, <1>5, <1>6, <1>7, PTL DEF RunIsServed

\* Whatever others pause, resume, print or cancel meanwhile: if the locks serve
\* everybody who waits for them, a cancelled run ends.
THEOREM CancelledEndsIfLocksAreFair == Spec /\ []LocksAreFair /\ []CanStep => CancelledEnds
<1>1. Spec => []LockFacts /\ [][Next]_vars
  BY LockAlways, PTL DEF LockFacts, Spec
<1>2. ASSUME NEW j \in Jobs
      PROVE  Spec /\ []LocksAreFair /\ []CanStep => (j \in cancelled ~> rpc[j] = "ended")
  <2>1. LocksAreFair => RunIsServed(j)
    BY DEF LocksAreFair
  <2> QED BY <1>1, <2>1, JmIsFreed, CancelledRunEnds, PTL
<1> QED BY <1>2 DEF CancelledEnds
=============================================================================
