------------------------ MODULE FirmwareUpdateProofs ------------------------
(***************************************************************************)
(* What the flash holds during and after updates, for any requests, images *)
(* and number of mishaps, and that updates and the service come to their   *)
(* end. The prover knows nothing of ENABLED: that a step can be taken      *)
(* where its guard holds is a hypothesis of the two liveness theorems.     *)
(***************************************************************************)
EXTENDS FirmwareUpdate, TLAPS

Copying == {"backup", "install", "restore"}

\* The three copies: from where, to where, and what follows.
LEMMA Copies ==
  /\ DOMAIN CpTo = Copying /\ DOMAIN CpFrom = Copying
  /\ CpFrom["backup"] = "installed" /\ CpTo["backup"] = "previous"
  /\ CpFrom["install"] = "new" /\ CpTo["install"] = "installed"
  /\ CpFrom["restore"] = "previous" /\ CpTo["restore"] = "installed"
  /\ CpNext["backup"] = "install" /\ CpFailed["backup"] = "install"
  /\ CpNext["install"] = "sync" /\ CpFailed["install"] = "restore"
  /\ CpNext["restore"] = "restart" /\ CpFailed["restore"] = "restart"
  BY DEF CpTo, CpFrom, CpNext, CpFailed, Copying

\* What files may hold, and that images are real.
LEMMA Holds ==
  /\ Images \subseteq Held /\ {"none", "part", "alien"} \subseteq Held /\ Factory \in Images
  /\ "none" \notin Images /\ "part" \notin Images /\ "alien" \notin Images
  /\ "none" # "part" /\ "alien" # "part"
  BY ImagesAssumption DEF Held

\* A request whose script has not been started.
NotYet == \A r \in Requests : pc[r] = "idle" \/ InFlight(r) => sh[r] = "none"

Mishaps == {"overlap", "upload", "backup", "install", "restore", "cut", "midway"}

\* A mishap is counted and named.
LEMMA FaultTyped ==
  ASSUME DeviceType, NEW kind \in Mishaps, Fault(kind)
  PROVE  faults' \in 0 .. MaxFaults /\ trouble' \subseteq Mishaps
<1>1. faults' \in 0 .. MaxFaults
  BY BoundsAssumption DEF DeviceType, Fault
<1>2. trouble' \subseteq Mishaps
  BY DEF DeviceType, Fault, Mishaps
<1> QED BY <1>1, <1>2

\* The initial state is typed.
LEMMA InitType == Init => TypeOK
<1> SUFFICES ASSUME Init PROVE TypeOK
  OBVIOUS
<1>1. RequestType
  BY DEF Init, RequestType
<1>2. ScriptType
  BY Holds DEF Init, ScriptType
<1>3. FileType
  BY Holds DEF Init, FileType
<1>4. DeviceType
  <2>1. faults \in 0 .. MaxFaults
    BY BoundsAssumption DEF Init
  <2> QED BY <2>1 DEF Init, DeviceType
<1> QED BY <1>1, <1>2, <1>3, <1>4 DEF TypeOK

\* The steps of pagUpdate.
LEMMA UploadTyped ==
  ASSUME TypeOK, NotYet, NEW r \in Requests, PagUpdate(r)
  PROVE  TypeOK'
<1> USE DEF TypeOK
<1>1. CASE Open(r)
  <2>1. RequestType'
    <3>1. Offers[r] \subseteq Images \cup {"alien"}
      BY BoundsAssumption
    <3>2. pc' \in [Requests -> {"idle", "copy", "check", "write", "launch", "done", "killed"}]
      BY <1>1 DEF Open, RequestType
    <3>3. put' \in [Requests -> Images \cup {"none", "alien"}]
      BY <1>1, <3>1 DEF Open, RequestType
    <3>4. link' \in [Requests -> {"none", "alone", "shared", "spoilt", "gone"}]
      BY <1>1 DEF Open, RequestType
    <3>5. reply' \in [Requests -> {"none", "error", "updating"}]
      BY <1>1 DEF Open, RequestType
    <3> QED BY <3>2, <3>3, <3>4, <3>5 DEF RequestType
  <2>2. ScriptType'
    BY <1>1 DEF Open, ScriptType, requestVars, scriptVars, flashVars, powerVars
  <2>3. FileType'
    BY <1>1, Holds DEF Open, FileType, requestVars, scriptVars, flashVars, powerVars
  <2>4. DeviceType'
    BY <1>1 DEF Open, DeviceType, requestVars, scriptVars, flashVars, powerVars
  <2> QED BY <2>1, <2>2, <2>3, <2>4
<1>2. CASE CopyEnds(r)
  <2>1. RequestType'
    BY <1>2 DEF CopyEnds, RequestType, requestVars, scriptVars, flashVars, powerVars
  <2>2. ScriptType'
    BY <1>2 DEF CopyEnds, ScriptType, requestVars, scriptVars, flashVars, powerVars
  <2>3. FileType'
    BY <1>2, Holds DEF CopyEnds, FileType, requestVars, scriptVars, flashVars, powerVars, RequestType, Held
  <2>4. DeviceType'
    BY <1>2 DEF CopyEnds, DeviceType, requestVars, scriptVars, flashVars, powerVars
  <2> QED BY <2>1, <2>2, <2>3, <2>4
<1>3. CASE Check(r)
  <2>1. RequestType'
    BY <1>3 DEF Check, RequestType, requestVars, scriptVars, flashVars, powerVars, Removes, Refuses
  <2>2. ScriptType'
    BY <1>3 DEF Check, ScriptType, requestVars, scriptVars, flashVars, powerVars, Removes, Refuses
  <2>3. FileType'
    BY <1>3, Holds DEF Check, FileType, requestVars, scriptVars, flashVars, powerVars, Removes, Refuses
  <2>4. DeviceType'
    BY <1>3 DEF Check, DeviceType, requestVars, scriptVars, flashVars, powerVars, Removes, Refuses
  <2> QED BY <2>1, <2>2, <2>3, <2>4
<1>4. CASE WriteScript(r)
  <2>1. RequestType'
    BY <1>4 DEF WriteScript, RequestType, requestVars, scriptVars, flashVars, powerVars
  <2>2. ScriptType'
    BY <1>4 DEF WriteScript, ScriptType, requestVars, scriptVars, flashVars, powerVars
  <2>3. FileType'
    BY <1>4 DEF WriteScript, FileType, requestVars, scriptVars, flashVars, powerVars
  <2>4. DeviceType'
    BY <1>4 DEF WriteScript, DeviceType, requestVars, scriptVars, flashVars, powerVars
  <2> QED BY <2>1, <2>2, <2>3, <2>4
<1>5. CASE TmpFull(r)
  <2>1. RequestType'
    BY <1>5 DEF TmpFull, RequestType, requestVars, scriptVars, flashVars, powerVars, Fault, Refuses
  <2>2. ScriptType'
    BY <1>5 DEF TmpFull, ScriptType, requestVars, scriptVars, flashVars, powerVars, Fault, Refuses
  <2>3. FileType'
    BY <1>5 DEF TmpFull, FileType, requestVars, scriptVars, flashVars, powerVars, Fault, Refuses
  <2>4. DeviceType'
    BY <1>5, BoundsAssumption DEF TmpFull, DeviceType, requestVars, scriptVars, flashVars, powerVars, Fault, Refuses
  <2> QED BY <2>1, <2>2, <2>3, <2>4
<1>6. CASE Launch(r)
  <2>1. RequestType'
    BY <1>6 DEF Launch, RequestType, requestVars, scriptVars, flashVars, powerVars
  <2>2. ScriptType'
    <3>1. sh[r] = "none" /\ src[r] = "none"
      BY <1>6, Copies DEF Launch, NotYet, InFlight, ScriptType, Copying
    <3> QED BY <1>6, <3>1 DEF Launch, ScriptType
  <2>3. FileType'
    BY <1>6 DEF Launch, FileType, requestVars, scriptVars, flashVars, powerVars
  <2>4. DeviceType'
    BY <1>6 DEF Launch, DeviceType, requestVars, scriptVars, flashVars, powerVars
  <2> QED BY <2>1, <2>2, <2>3, <2>4
<1> QED BY <1>1, <1>2, <1>3, <1>4, <1>5, <1>6 DEF PagUpdate

\* The steps of the script.
LEMMA ScriptTyped ==
  ASSUME TypeOK, NotYet, NEW r \in Requests, Script(r)
  PROVE  TypeOK'
<1> USE DEF TypeOK
<1>1. CASE Wakes(r)
  <2>1. RequestType'
    BY <1>1 DEF Wakes, RequestType, requestVars, scriptVars, flashVars, powerVars
  <2>2. ScriptType'
    BY <1>1, Copies DEF Wakes, ScriptType, requestVars, scriptVars, flashVars, powerVars, Copying
  <2>3. FileType'
    BY <1>1 DEF Wakes, FileType, requestVars, scriptVars, flashVars, powerVars
  <2>4. DeviceType'
    BY <1>1 DEF Wakes, DeviceType, requestVars, scriptVars, flashVars, powerVars
  <2> QED BY <2>1, <2>2, <2>3, <2>4
<1>2. CASE Stops(r)
  <2>1. RequestType'
    BY <1>2 DEF Stops, RequestType, requestVars, scriptVars, flashVars, powerVars, Killed, InFlight
  <2>2. ScriptType'
    BY <1>2, Copies DEF Stops, ScriptType, requestVars, scriptVars, flashVars, powerVars, Copying
  <2>3. FileType'
    BY <1>2 DEF Stops, FileType, requestVars, scriptVars, flashVars, powerVars
  <2>4. DeviceType'
    BY <1>2 DEF Stops, DeviceType, requestVars, scriptVars, flashVars, powerVars
  <2> QED BY <2>1, <2>2, <2>3, <2>4
<1>3. CASE CpBegins(r)
  <2>1. RequestType'
    BY <1>3 DEF CpBegins, RequestType, requestVars, scriptVars, flashVars, powerVars
  <2>2. ScriptType'
    BY <1>3, Copies DEF CpBegins, ScriptType, requestVars, scriptVars, flashVars, powerVars, Copying, FileType
  <2>3. FileType'
    <3>1. sh[r] \in Copying /\ CpTo[sh[r]] \in {"installed", "previous"} /\ landed' = landed
      BY <1>3, Copies DEF CpBegins, Copying
    <3>2. CASE file' = file /\ unsynced' = unsynced
      BY <3>1, <3>2 DEF FileType
    <3>3. CASE file' = [file EXCEPT ![CpTo[sh[r]]] = "part"] /\ unsynced' = unsynced \cup {CpTo[sh[r]]}
      BY <3>1, <3>3, Holds DEF FileType
    <3> QED BY <1>3, <3>2, <3>3 DEF CpBegins
  <2>4. DeviceType'
    BY <1>3 DEF CpBegins, DeviceType, requestVars, scriptVars, flashVars, powerVars
  <2> QED BY <2>1, <2>2, <2>3, <2>4
<1>4. CASE CpEnds(r)
  <2>1. RequestType'
    BY <1>4 DEF CpEnds, RequestType, requestVars, scriptVars, flashVars, powerVars
  <2>2. ScriptType'
    BY <1>4, Copies, Holds DEF CpEnds, ScriptType, requestVars, scriptVars, flashVars, powerVars, Copying
  <2>3. FileType'
    BY <1>4, Copies, Holds DEF CpEnds, FileType, requestVars, scriptVars, flashVars, powerVars, Copying, ScriptType
  <2>4. DeviceType'
    BY <1>4 DEF CpEnds, DeviceType, requestVars, scriptVars, flashVars, powerVars
  <2> QED BY <2>1, <2>2, <2>3, <2>4
<1>5. CASE CpFails(r)
  <2>1. RequestType'
    BY <1>5 DEF CpFails, RequestType, requestVars, scriptVars, flashVars, powerVars, Fault
  <2>2. ScriptType'
    BY <1>5, Copies, Holds DEF CpFails, ScriptType, requestVars, scriptVars, flashVars, powerVars, Copying, Fault
  <2>3. FileType'
    BY <1>5 DEF CpFails, FileType, requestVars, scriptVars, flashVars, powerVars, Fault
  <2>4. DeviceType'
    <3>1. Fault(sh[r]) /\ sh[r] \in Mishaps
      BY <1>5, Copies DEF CpFails, ScriptType, Copying, Mishaps
    <3>2. UNCHANGED <<up, booting, ip, script>>
      BY <1>5 DEF CpFails, powerVars
    <3> QED BY <3>1, <3>2, FaultTyped DEF DeviceType, Mishaps
  <2> QED BY <2>1, <2>2, <2>3, <2>4
<1>6. CASE Syncs(r)
  <2>1. RequestType'
    BY <1>6 DEF Syncs, RequestType, requestVars, scriptVars, flashVars, powerVars
  <2>2. ScriptType'
    BY <1>6, Copies DEF Syncs, ScriptType, requestVars, scriptVars, flashVars, powerVars, Copying
  <2>3. FileType'
    BY <1>6 DEF Syncs, FileType, requestVars, scriptVars, flashVars, powerVars
  <2>4. DeviceType'
    BY <1>6 DEF Syncs, DeviceType, requestVars, scriptVars, flashVars, powerVars
  <2> QED BY <2>1, <2>2, <2>3, <2>4
<1>7. CASE Starts(r)
  <2>1. RequestType'
    BY <1>7 DEF Starts, RequestType, requestVars, scriptVars, flashVars, powerVars, StartsService
  <2>2. ScriptType'
    BY <1>7, Copies DEF Starts, ScriptType, requestVars, scriptVars, flashVars, powerVars, Copying, StartsService
  <2>3. FileType'
    BY <1>7 DEF Starts, FileType, requestVars, scriptVars, flashVars, powerVars, StartsService
  <2>4. DeviceType'
    BY <1>7 DEF Starts, DeviceType, requestVars, scriptVars, flashVars, powerVars, StartsService
  <2> QED BY <2>1, <2>2, <2>3, <2>4
<1>8. CASE Cleans(r)
  <2>1. RequestType'
    BY <1>8 DEF Cleans, RequestType, requestVars, scriptVars, flashVars, powerVars, Removes
  <2>2. ScriptType'
    BY <1>8, Copies DEF Cleans, ScriptType, requestVars, scriptVars, flashVars, powerVars, Copying, Removes
  <2>3. FileType'
    BY <1>8, Holds DEF Cleans, FileType, requestVars, scriptVars, flashVars, powerVars, Removes
  <2>4. DeviceType'
    BY <1>8 DEF Cleans, DeviceType, requestVars, scriptVars, flashVars, powerVars
  <2> QED BY <2>1, <2>2, <2>3, <2>4
<1> QED BY <1>1, <1>2, <1>3, <1>4, <1>5, <1>6, <1>7, <1>8 DEF Script, ScriptRuns

\* The device.
LEMMA DeviceTyped ==
  ASSUME TypeOK, PowerCut \/ Boots \/ NetworkChanges
  PROVE  TypeOK'
<1> USE DEF TypeOK
<1>1. CASE PowerCut
  <2>1. RequestType'
    BY <1>1 DEF PowerCut, RequestType, requestVars, scriptVars, flashVars, powerVars, Killed, InFlight, Fault
  <2>2. ScriptType'
    BY <1>1, Copies, Holds DEF PowerCut, ScriptType, requestVars, scriptVars, flashVars, powerVars, Copying, Runs, Fault
  <2>3. FileType'
    BY <1>1, Holds DEF PowerCut, FileType, requestVars, scriptVars, flashVars, powerVars, Fault
  <2>4. DeviceType'
    <3>1. PICK kind \in {"midway", "cut"} : Fault(kind)
      BY <1>1 DEF PowerCut
    <3>2. up' = FALSE /\ booting' = TRUE /\ script' = FALSE /\ ip' = ip
      BY <1>1 DEF PowerCut
    <3> QED BY <3>1, <3>2, FaultTyped DEF DeviceType, Mishaps
  <2> QED BY <2>1, <2>2, <2>3, <2>4
<1>2. CASE Boots
  <2>1. RequestType'
    BY <1>2 DEF Boots, RequestType, requestVars, scriptVars, flashVars, powerVars, StartsService
  <2>2. ScriptType'
    BY <1>2 DEF Boots, ScriptType, requestVars, scriptVars, flashVars, powerVars, StartsService
  <2>3. FileType'
    BY <1>2 DEF Boots, FileType, requestVars, scriptVars, flashVars, powerVars, StartsService
  <2>4. DeviceType'
    BY <1>2 DEF Boots, DeviceType, requestVars, scriptVars, flashVars, powerVars, StartsService
  <2> QED BY <2>1, <2>2, <2>3, <2>4
<1>3. CASE NetworkChanges
  <2>1. RequestType'
    BY <1>3 DEF NetworkChanges, RequestType, requestVars, scriptVars, flashVars, powerVars
  <2>2. ScriptType'
    BY <1>3 DEF NetworkChanges, ScriptType, requestVars, scriptVars, flashVars, powerVars
  <2>3. FileType'
    BY <1>3 DEF NetworkChanges, FileType, requestVars, scriptVars, flashVars, powerVars
  <2>4. DeviceType'
    BY <1>3 DEF NetworkChanges, DeviceType, requestVars, scriptVars, flashVars, powerVars
  <2> QED BY <2>1, <2>2, <2>3, <2>4
<1> QED BY <1>1, <1>2, <1>3

\* A started script had its request done with: NotYet is kept by every step.
LEMMA NotYetKept == TypeOK /\ NotYet /\ [Next]_vars => NotYet'
<1> SUFFICES ASSUME TypeOK, NotYet, [Next]_vars PROVE NotYet'
  OBVIOUS
<1> USE DEF NotYet, InFlight, TypeOK, RequestType, ScriptType
<1>1. CASE \E r \in Requests : PagUpdate(r)
  <2> PICK r \in Requests : PagUpdate(r)
    BY <1>1
  <2>1. CASE Launch(r)
    BY <2>1 DEF Launch
  <2>2. CASE ~Launch(r)
    <3>1. UNCHANGED sh
      BY <2>2 DEF PagUpdate, Open, CopyEnds, Check, WriteScript, TmpFull, scriptVars
    <3>2. sh[r] = "none"
      BY <2>2 DEF PagUpdate, Open, CopyEnds, Check, WriteScript, TmpFull
    <3>3. \A q \in Requests : q # r => pc'[q] = pc[q]
      BY <2>2 DEF PagUpdate, Open, CopyEnds, Check, WriteScript, TmpFull, Refuses
    <3> QED BY <3>1, <3>2, <3>3
  <2> QED BY <2>1, <2>2
<1>2. CASE \E r \in Requests : Script(r)
  <2> PICK r \in Requests : Script(r)
    BY <1>2
  <2>1. sh[r] # "none" /\ \A q \in Requests : q # r => sh'[q] = sh[q]
    BY Copies DEF Script, ScriptRuns, Wakes, Stops, CpBegins, CpEnds, CpFails, Syncs, Starts, Cleans,
                  scriptVars, Copying
  <2>2. UNCHANGED pc \/ Killed
    BY DEF Script, ScriptRuns, Wakes, Stops, CpBegins, CpEnds, CpFails, Syncs, Starts, Cleans, requestVars
  <2> QED BY <2>1, <2>2 DEF Killed
<1>3. CASE PowerCut
  BY <1>3 DEF PowerCut, Killed, Runs
<1>4. CASE Boots \/ NetworkChanges \/ UNCHANGED vars
  BY <1>4 DEF Boots, NetworkChanges, vars, requestVars, scriptVars
<1> QED BY <1>1, <1>2, <1>3, <1>4 DEF Next

\* Types are kept by every step.
LEMMA NextType == TypeOK /\ NotYet /\ [Next]_vars => TypeOK'
<1> SUFFICES ASSUME TypeOK, NotYet, [Next]_vars PROVE TypeOK'
  OBVIOUS
<1>1. CASE UNCHANGED vars
  BY <1>1 DEF vars, requestVars, scriptVars, flashVars, powerVars, TypeOK,
              RequestType, ScriptType, FileType, DeviceType
<1> QED BY <1>1, UploadTyped, ScriptTyped, DeviceTyped DEF Next

-----------------------------------------------------------------------------
(* What the flash holds, as long as no two updates overlap.                *)

Active(r) == InFlight(r) \/ Runs(r)

Alone == \A q, r \in Requests : Active(q) /\ Active(r) => q = r

\* A device that boots has forgotten its updates.
Forgotten == booting => ~up /\ \A r \in Requests : ~Active(r)

\* An accepted upload is the one that will be installed.
Stored ==
  \A r \in Requests :
    /\ pc[r] = "copy" => link[r] = "alone"
    /\ pc[r] \in {"copy", "check"} => put[r] # "none"
    /\ pc[r] = "check" => file["new"] = put[r]
    /\ pc[r] \in {"write", "launch"} => file["new"] \in Images
    /\ sh[r] \in {"sleep", "stop", "backup", "install"} => file["new"] \in Images

\* A copy reads an image that nobody changes meanwhile.
Sources ==
  \A r \in Requests : src[r] # "none" => src[r] = file[CpFrom[sh[r]]] /\ src[r] \in Images

\* Whoever replaces the program can go back.
Replacing ==
  \A r \in Requests :
    /\ sh[r] \in Copying => ~up
    /\ sh[r] \in {"install", "restore"} => file["previous"] \in Images \/ "backup" \in trouble
    /\ sh[r] = "restore" => "install" \in trouble

Midway(r) == (sh[r] = "install" /\ src[r] # "none") \/ sh[r] = "restore"

\* The program is whole unless a script is replacing it.
Whole == file["installed"] \in Images \/ \E r \in Requests : Midway(r)

\* What is installed survives a power cut, unless it is being installed.
Synced ==
  "installed" \in unsynced =>
    "install" \in trouble \/ \E r \in Requests : sh[r] \in {"install", "restore", "sync"}

Safe == /\ Alone /\ Forgotten /\ Stored /\ Sources
        /\ Replacing /\ Whole /\ Synced

IInv == TypeOK /\ NotYet /\ (Survivable => Safe)

\* A request whose script runs or whose upload is stored is alone with it.
LEMMA OthersRest ==
  ASSUME TypeOK, Alone, NEW r \in Requests, Active(r), NEW q \in Requests, q # r
  PROVE  pc[q] \notin {"copy", "check", "write", "launch"} /\ sh[q] \in {"none", "ended"} /\ src[q] = "none"
<1>1. ~Active(q)
  BY DEF Alone
<1> QED BY <1>1, Copies DEF Active, InFlight, Runs, TypeOK, ScriptType, Copying

\* Mishaps are not forgotten.
LEMMA TroubleGrows == [Next]_vars => trouble \subseteq trouble'
<1> SUFFICES ASSUME [Next]_vars PROVE trouble \subseteq trouble'
  OBVIOUS
<1>1. ASSUME NEW r \in Requests, PagUpdate(r) PROVE trouble \subseteq trouble'
  BY <1>1 DEF PagUpdate, Open, CopyEnds, Check, WriteScript, TmpFull, Launch, Fault
<1>2. ASSUME NEW r \in Requests, Script(r) PROVE trouble \subseteq trouble'
  BY <1>2 DEF Script, ScriptRuns, Wakes, Stops, CpBegins, CpEnds, CpFails, Syncs, Starts, Cleans, Fault
<1>3. CASE PowerCut
  BY <1>3 DEF PowerCut, Fault
<1>4. CASE Boots \/ NetworkChanges \/ UNCHANGED vars
  BY <1>4 DEF Boots, NetworkChanges, vars
<1> QED BY <1>1, <1>2, <1>3, <1>4 DEF Next

\* What was survivable after a step was so before it.
LEMMA SurvivableBefore == [Next]_vars /\ Survivable' => Survivable
  BY TroubleGrows DEF Survivable

\* The invariant holds at the start.
LEMMA InitIInv == Init => IInv
<1> SUFFICES ASSUME Init PROVE IInv
  OBVIOUS
<1>1. TypeOK
  BY InitType
<1>2. /\ pc = [r \in Requests |-> "idle"] /\ sh = [r \in Requests |-> "none"]
      /\ src = [r \in Requests |-> "none"] /\ file["installed"] = Factory
      /\ booting = FALSE /\ unsynced = {}
  BY DEF Init
<1>3. NotYet
  BY <1>2 DEF NotYet
<1>4. \A r \in Requests : ~Active(r)
  BY <1>2 DEF Active, InFlight, Runs
<1>5. Safe
  BY <1>2, <1>4, Holds DEF Safe, Alone, Forgotten, Stored, Sources, Replacing, Whole, Synced, Copying
<1> QED BY <1>1, <1>3, <1>5 DEF IInv

\* The steps of pagUpdate. A second active request would make it an overlap.
LEMMA UploadSafe ==
  ASSUME TypeOK, NotYet, Safe, Survivable', NEW r \in Requests, PagUpdate(r)
  PROVE  Safe'
<1> USE DEF Safe, TypeOK, RequestType, ScriptType, FileType, DeviceType
<1>1. UNCHANGED <<src, unsynced, up, booting>> /\ file'["installed"] = file["installed"]
      /\ file'["previous"] = file["previous"] /\ trouble \subseteq trouble'
  BY DEF PagUpdate, Open, CopyEnds, Check, WriteScript, TmpFull, Launch, scriptVars, flashVars,
         powerVars, Removes, Refuses, Fault
<1>2. CASE Open(r)
  <2>1. \A q \in Requests : ~Active(q)
    BY <1>2 DEF Open, Active, Survivable
  <2>2. \A q \in Requests : sh'[q] = sh[q] /\ sh[q] \in {"none", "ended"} /\ src[q] = "none"
    BY <1>2, <2>1, Copies DEF Open, scriptVars, Active, Runs, Copying
  <2>3. \A q \in Requests : q # r => pc'[q] = pc[q] /\ ~InFlight(q)
    BY <1>2, <2>1 DEF Open, Active
  <2>4. pc'[r] = "copy" /\ link'[r] = "alone" /\ put'[r] # "none" /\ up /\ ~booting
    <3>1. pc'[r] = "copy" /\ link'[r] = "alone" /\ up
      BY <1>2, <2>1 DEF Open, Active, InFlight
    <3>2. put'[r] \in Offers[r] /\ Offers[r] \subseteq Images \cup {"alien"}
      BY <1>2, BoundsAssumption DEF Open
    <3>3. put'[r] # "none"
      BY <3>2, Holds
    <3> QED BY <3>1, <3>3 DEF Forgotten
  <2>5. Alone' /\ Forgotten' /\ Stored'
    BY <1>1, <2>2, <2>3, <2>4 DEF Alone, Forgotten, Stored, Active, InFlight, Runs
  <2>6. Sources' /\ Replacing' /\ Whole' /\ Synced'
    BY <1>1, <2>2 DEF Sources, Replacing, Whole, Midway, Synced, Copying
  <2> QED BY <2>5, <2>6
<1>3. CASE ~Open(r)
  <2>1. InFlight(r) /\ sh[r] = "none" /\ src[r] = "none"
    BY <1>3, Copies DEF PagUpdate, CopyEnds, Check, WriteScript, TmpFull, Launch, InFlight, NotYet, Copying
  <2>2. \A q \in Requests : q # r =>
          /\ pc[q] \notin {"copy", "check", "write", "launch"}
          /\ sh[q] \in {"none", "ended"} /\ src[q] = "none"
          /\ pc'[q] = pc[q] /\ sh'[q] = sh[q]
    <3>1. \A q \in Requests : q # r => pc'[q] = pc[q] /\ sh'[q] = sh[q]
      BY <1>3 DEF PagUpdate, CopyEnds, Check, WriteScript, TmpFull, Launch, Refuses, scriptVars
    <3> QED BY <2>1, <3>1, OthersRest DEF Active
  <2>3. sh'[r] \in {"none", "sleep", "ended"} /\ ~booting
    BY <1>3, <2>1 DEF PagUpdate, CopyEnds, Check, WriteScript, TmpFull, Launch, scriptVars, Forgotten, Active
  <2>4. Alone' /\ Forgotten'
    BY <1>1, <2>2, <2>3 DEF Alone, Forgotten, Active, InFlight, Runs
  <2>5. Sources' /\ Replacing' /\ Whole' /\ Synced'
    BY <1>1, <2>1, <2>2, <2>3 DEF Sources, Replacing, Whole, Midway, Synced, Copying
  <2>6. Stored'
    <3>1. CASE CopyEnds(r)
      <4>1. link[r] = "alone" /\ put[r] # "none" /\ put[r] # "part"
        BY <3>1, Holds DEF CopyEnds, Stored
      <4>2. file'["new"] = put[r] /\ pc'[r] = "check" /\ put' = put /\ sh' = sh
        BY <3>1, <4>1 DEF CopyEnds, scriptVars
      <4> QED BY <2>1, <2>2, <4>1, <4>2 DEF Stored
    <3>2. CASE Check(r)
      <4>1. file["new"] = put[r] /\ put[r] # "part" /\ sh' = sh
        BY <3>2, Holds DEF Check, Stored, scriptVars
      <4> QED BY <2>1, <2>2, <3>2, <4>1 DEF Check, Accepted, Refuses, Stored
    <3>3. CASE WriteScript(r)
      BY <2>1, <2>2, <3>3 DEF WriteScript, Stored, scriptVars
    <3>4. CASE TmpFull(r)
      BY <2>1, <2>2, <3>4 DEF TmpFull, Refuses, Stored, scriptVars
    <3>5. CASE Launch(r)
      BY <2>1, <2>2, <3>5 DEF Launch, Stored
    <3> QED BY <1>3, <3>1, <3>2, <3>3, <3>4, <3>5 DEF PagUpdate
  <2> QED BY <2>4, <2>5, <2>6
<1> QED BY <1>2, <1>3

\* The steps of the script: it is the only one, and no request is in its way.
LEMMA ScriptSafe ==
  ASSUME TypeOK, NotYet, Safe, Survivable, Survivable', NEW r \in Requests, Script(r)
  PROVE  Safe'
<1> USE DEF Safe, TypeOK, RequestType, ScriptType, FileType, DeviceType
<1>1. Runs(r) /\ Active(r) /\ ~booting /\ pc[r] \notin {"idle", "copy", "check", "write", "launch"}
  <2>1. Runs(r)
    BY Copies DEF Script, ScriptRuns, Wakes, Stops, CpBegins, CpEnds, CpFails, Syncs, Starts, Cleans,
                  Runs, Copying
  <2> QED BY <2>1 DEF Runs, Active, Forgotten, NotYet, InFlight
<1>2. \A q \in Requests : q # r =>
        /\ pc[q] \notin {"copy", "check", "write", "launch"}
        /\ sh[q] \in {"none", "ended"} /\ src[q] = "none"
        /\ sh'[q] = sh[q] /\ src'[q] = src[q]
  <2>1. \A q \in Requests : q # r => sh'[q] = sh[q] /\ src'[q] = src[q]
    BY DEF Script, ScriptRuns, Wakes, Stops, CpBegins, CpEnds, CpFails, Syncs, Starts, Cleans, scriptVars
  <2> QED BY <1>1, <2>1, OthersRest
<1>3. pc' = pc /\ put' = put /\ booting' = booting
  <2>1. Killed => pc' = pc
    BY <1>1, <1>2 DEF Killed, InFlight
  <2> QED BY <2>1 DEF Script, ScriptRuns, Wakes, Stops, CpBegins, CpEnds, CpFails, Syncs, Starts, Cleans,
                      requestVars, powerVars
<1>4. Alone' /\ Forgotten'
  BY <1>1, <1>2, <1>3 DEF Alone, Forgotten, Active, InFlight, Runs
<1>5. Stored' <=> (sh'[r] \in {"sleep", "stop", "backup", "install"} => file'["new"] \in Images)
  BY <1>1, <1>2, <1>3 DEF Stored
<1>6. Sources' <=> (src'[r] # "none" => src'[r] = file'[CpFrom[sh'[r]]] /\ src'[r] \in Images)
  BY <1>2 DEF Sources
<1>7. Replacing' <=>
        /\ sh'[r] \in Copying => ~up'
        /\ sh'[r] \in {"install", "restore"} => file'["previous"] \in Images \/ "backup" \in trouble'
        /\ sh'[r] = "restore" => "install" \in trouble'
  BY <1>2 DEF Replacing, Copying
<1>8. Whole' <=> file'["installed"] \in Images \/ Midway(r)'
  BY <1>2 DEF Whole, Midway
<1>9. Synced' <=> ("installed" \in unsynced' =>
                     "install" \in trouble' \/ sh'[r] \in {"install", "restore", "sync"})
  BY <1>2 DEF Synced
<1>10. /\ sh[r] \in {"sleep", "stop", "backup", "install"} => file["new"] \in Images
       /\ src[r] # "none" => src[r] = file[CpFrom[sh[r]]] /\ src[r] \in Images
       /\ sh[r] \in Copying => ~up
       /\ sh[r] \in {"install", "restore"} => file["previous"] \in Images \/ "backup" \in trouble
       /\ sh[r] = "restore" => "install" \in trouble
  BY DEF Stored, Sources, Replacing
<1>11. file["installed"] \in Images \/ Midway(r)
  BY <1>2 DEF Whole, Midway
<1>12. "installed" \in unsynced => "install" \in trouble \/ sh[r] \in {"install", "restore", "sync"}
  BY <1>2 DEF Synced
<1>13. ASSUME Wakes(r) \/ Stops(r) \/ Syncs(r) \/ Starts(r)
      PROVE  Stored' /\ Sources' /\ Replacing' /\ Whole' /\ Synced'
  <2>1. /\ src' = src /\ src[r] = "none" /\ file' = file /\ trouble' = trouble
        /\ sh[r] \notin Copying /\ sh'[r] \in {"ended", "stop", "backup", "start", "clean"}
        /\ sh'[r] \in {"stop", "backup"} => sh[r] \in {"sleep", "stop"}
        /\ sh'[r] = "backup" => ~up'
        /\ sh'[r] = "start" => unsynced' = {}
        /\ sh'[r] # "start" => unsynced' = unsynced /\ sh[r] # "sync"
    BY <1>13, Copies DEF Wakes, Stops, Syncs, Starts, scriptVars, flashVars, Copying
  <2>2. Midway(r) = FALSE /\ file["installed"] \in Images
    BY <1>11, <2>1 DEF Midway, Copying
  <2>3. Stored' /\ Sources'
    BY <1>5, <1>6, <1>10, <2>1
  <2>4. Replacing' /\ Whole' /\ Synced'
    BY <1>7, <1>8, <1>9, <1>12, <2>1, <2>2 DEF Copying
  <2> QED BY <2>3, <2>4
<1>14. ASSUME Cleans(r)
      PROVE  Stored' /\ Sources' /\ Replacing' /\ Whole' /\ Synced'
  <2>1. /\ src' = src /\ src[r] = "none" /\ file'["installed"] = file["installed"] /\ trouble' = trouble
        /\ sh[r] \in {"clean", "clear"} /\ sh'[r] \in {"clear", "ended"} /\ unsynced' = unsynced
    BY <1>14, Copies DEF Cleans, Removes, flashVars, Copying
  <2>2. file["installed"] \in Images
    BY <1>11, <2>1 DEF Midway
  <2> QED BY <1>5, <1>6, <1>7, <1>8, <1>9, <1>12, <2>1, <2>2 DEF Copying
<1>15. ASSUME CpBegins(r)
      PROVE  Stored' /\ Sources' /\ Replacing' /\ Whole' /\ Synced'
  <2>1. sh[r] \in Copying /\ src[r] = "none" /\ trouble' = trouble /\ up' = up /\ ~up
    BY <1>10, <1>15, Copies DEF CpBegins, Copying
  <2>2. file[CpFrom[sh[r]]] \in Images
    <3>1. CASE sh[r] = "backup"
      BY <1>11, <3>1, Copies DEF Midway
    <3>2. CASE sh[r] = "install"
      BY <1>10, <3>2, Copies
    <3>3. CASE sh[r] = "restore"
      BY <1>10, <3>3, Copies DEF Survivable
    <3> QED BY <2>1, <3>1, <3>2, <3>3 DEF Copying
  <2>3. /\ sh' = sh /\ src'[r] = file[CpFrom[sh[r]]] /\ file' = [file EXCEPT ![CpTo[sh[r]]] = "part"]
        /\ unsynced' = unsynced \cup {CpTo[sh[r]]}
    BY <1>15, <2>1, <2>2, Holds DEF CpBegins
  <2>4. CASE sh[r] = "backup"
    <3>1. file["installed"] \in Images /\ file'["installed"] = file["installed"] /\ file'["new"] = file["new"]
          /\ unsynced' = unsynced \cup {"previous"}
      BY <1>11, <2>3, <2>4, Copies DEF Midway
    <3> QED BY <1>5, <1>6, <1>7, <1>8, <1>9, <1>10, <1>12, <2>1, <2>2, <2>3, <2>4, <3>1, Copies DEF Copying
  <2>5. CASE sh[r] \in {"install", "restore"}
    <3>1. file'["previous"] = file["previous"] /\ file'["new"] = file["new"] /\ src'[r] # "none"
          /\ file'[CpFrom[sh[r]]] = file[CpFrom[sh[r]]]
      BY <2>2, <2>3, <2>5, Copies, Holds
    <3> QED BY <1>5, <1>6, <1>7, <1>8, <1>9, <1>10, <2>1, <2>2, <2>3, <2>5, <3>1 DEF Copying, Midway
  <2> QED BY <2>1, <2>4, <2>5 DEF Copying
<1>16. ASSUME CpEnds(r)
      PROVE  Stored' /\ Sources' /\ Replacing' /\ Whole' /\ Synced'
  <2>1. sh[r] \in Copying /\ src[r] \in Images /\ trouble' = trouble /\ up' = up /\ ~up /\ unsynced' = unsynced
    BY <1>10, <1>16, Copies DEF CpEnds
  <2>2. ~Disturbed(r)
    BY <1>2, <1>10, <1>16 DEF CpEnds, Disturbed
  <2>3. file' = [file EXCEPT ![CpTo[sh[r]]] = src[r]] /\ sh'[r] = CpNext[sh[r]] /\ src'[r] = "none"
    BY <1>16, <2>2 DEF CpEnds
  <2>4. CASE sh[r] = "backup"
    <3>1. /\ file'["previous"] \in Images /\ file'["new"] = file["new"] /\ sh'[r] = "install"
          /\ file["installed"] \in Images /\ file'["installed"] = file["installed"]
      BY <1>11, <2>1, <2>3, <2>4, Copies DEF Midway
    <3> QED BY <1>5, <1>6, <1>7, <1>8, <1>9, <1>10, <2>1, <2>3, <2>4, <3>1
  <2>5. CASE sh[r] \in {"install", "restore"}
    <3>1. /\ file'["installed"] \in Images /\ sh'[r] \in {"sync", "restart"}
          /\ sh'[r] = "restart" => sh[r] = "restore"
      BY <2>1, <2>3, <2>5, Copies
    <3> QED BY <1>5, <1>6, <1>7, <1>8, <1>9, <1>10, <2>1, <2>3, <2>5, <3>1 DEF Copying
  <2> QED BY <2>1, <2>4, <2>5 DEF Copying
<1>17. ASSUME CpFails(r)
      PROVE  Stored' /\ Sources' /\ Replacing' /\ Whole' /\ Synced'
  <2>1. /\ sh[r] \in Copying /\ src[r] # "none" /\ trouble' = trouble \cup {sh[r]} /\ up' = up /\ ~up
        /\ unsynced' = unsynced /\ file' = file /\ sh'[r] = CpFailed[sh[r]] /\ src'[r] = "none"
    BY <1>10, <1>17, Copies DEF CpFails, Fault, flashVars
  <2>2. CASE sh[r] = "backup"
    <3>1. sh'[r] = "install" /\ file["installed"] \in Images /\ "backup" \in trouble'
      BY <1>11, <2>1, <2>2, Copies DEF Midway
    <3> QED BY <1>5, <1>6, <1>7, <1>8, <1>9, <1>10, <2>1, <2>2, <3>1
  <2>3. CASE sh[r] = "install"
    <3>1. sh'[r] = "restore" /\ "install" \in trouble'
      BY <2>1, <2>3, Copies
    <3>2. file["previous"] \in Images \/ "backup" \in trouble'
      BY <1>10, <2>1, <2>3
    <3> QED BY <1>5, <1>6, <1>7, <1>8, <1>9, <2>1, <3>1, <3>2 DEF Midway
  <2>4. CASE sh[r] = "restore"
    BY <2>1, <2>4 DEF Survivable
  <2> QED BY <2>1, <2>2, <2>3, <2>4 DEF Copying
<1>18. Stored' /\ Sources' /\ Replacing' /\ Whole' /\ Synced'
  BY <1>13, <1>14, <1>15, <1>16, <1>17 DEF Script, ScriptRuns
<1> QED BY <1>4, <1>18

\* The device.
LEMMA DeviceSafe ==
  ASSUME TypeOK, NotYet, Safe, Survivable', PowerCut \/ Boots \/ NetworkChanges
  PROVE  Safe'
<1> USE DEF Safe, TypeOK, RequestType, ScriptType, FileType, DeviceType
<1>1. CASE PowerCut
  <2>1. /\ \A r \in Requests : sh[r] \notin {"install", "restore", "sync"}
        /\ "install" \notin trouble
    BY <1>1 DEF PowerCut, Fault, Survivable
  <2>2. file["installed"] \in Images /\ "installed" \notin unsynced
    BY <2>1 DEF Whole, Midway, Synced
  <2>3. file'["installed"] = file["installed"] /\ unsynced' = {} /\ up' = FALSE
    BY <1>1, <2>2 DEF PowerCut
  <2>4. \A r \in Requests : pc'[r] \notin {"copy", "check", "write", "launch"}
                         /\ sh'[r] \in {"none", "ended"} /\ src'[r] = "none"
    BY <1>1 DEF PowerCut, Killed, InFlight, Runs
  <2> QED BY <2>2, <2>3, <2>4 DEF Alone, Forgotten, Stored, Sources, Replacing, Whole, Synced,
                                  Active, InFlight, Runs, Copying
<1>2. CASE Boots
  <2>1. UNCHANGED <<requestVars, scriptVars, flashVars, file, trouble>> /\ booting /\ ~booting'
    BY <1>2 DEF Boots
  <2>2. \A r \in Requests : sh[r] \notin Copying
    BY <2>1 DEF Forgotten, Active, Runs, Copying
  <2> QED BY <2>1, <2>2 DEF Alone, Forgotten, Stored, Sources, Replacing, Whole, Midway, Synced,
                            Active, InFlight, Runs, requestVars, scriptVars, flashVars
<1>3. CASE NetworkChanges
  BY <1>3 DEF NetworkChanges, Alone, Forgotten, Stored, Sources, Replacing, Whole, Midway, Synced,
              Active, InFlight, Runs, requestVars, scriptVars, flashVars
<1> QED BY <1>1, <1>2, <1>3

\* Every step keeps the invariant.
LEMMA NextIInv == IInv /\ [Next]_vars => IInv'
<1> SUFFICES ASSUME IInv, [Next]_vars PROVE IInv'
  OBVIOUS
<1>1. TypeOK' /\ NotYet'
  BY NextType, NotYetKept DEF IInv
<1>2. ASSUME Survivable' PROVE Safe'
  <2>1. Survivable /\ Safe
    BY <1>2, SurvivableBefore DEF IInv
  <2>2. CASE UNCHANGED vars
    BY <2>1, <2>2 DEF vars, Safe, Alone, Forgotten, Stored, Sources, Replacing, Whole, Midway, Synced,
                      Active, InFlight, Runs, requestVars, scriptVars, flashVars, powerVars
  <2>3. CASE Next
    BY <1>2, <2>1, <2>3, UploadSafe, ScriptSafe, DeviceSafe DEF Next, IInv
  <2> QED BY <2>2, <2>3
<1> QED BY <1>1, <1>2 DEF IInv

\* The invariant holds in every behaviour.
LEMMA Invariant == Spec => []IInv
  BY InitIInv, NextIInv, PTL DEF Spec

\* The invariant says what the properties say.
LEMMA Consequences == IInv => TypeOK /\ InstalledIsWholeAfter /\ WholeVersionKept
<1> SUFFICES ASSUME IInv PROVE TypeOK /\ InstalledIsWholeAfter /\ WholeVersionKept
  OBVIOUS
<1>1. InstalledIsWholeAfter
  BY Copies DEF IInv, Safe, Whole, Midway, InstalledIsWholeAfter, InstalledIsWhole, Settled, Copying
<1>2. WholeVersionKept
  BY DEF IInv, Safe, Whole, Midway, Replacing, WholeVersionKept
<1> QED BY <1>1, <1>2 DEF IInv

\* Variables keep their types, and there is always some file to start.
THEOREM TypeCorrect == Spec => []TypeOK
  BY Invariant, Consequences, PTL

\* After every update, done or failed, the installed program is whole, unless
\* two updates overlapped or the mishaps were more than the script survives.
THEOREM InstalledIsWholeAlways == Spec => []InstalledIsWholeAfter
  BY Invariant, Consequences, PTL

\* At every moment of an update the flash holds a whole program, unless its
\* backup failed.
THEOREM WholeVersionKeptAlways == Spec => []WholeVersionKept
  BY Invariant, Consequences, PTL
-----------------------------------------------------------------------------
(* An accepted update is installed.                                        *)

\* The commands of the script as long as the upload is not installed.
Ahead == {"sleep", "stop", "backup", "install"}

\* Only failed uploads so far.
Quiet == trouble \subseteq {"upload"}

\* A request is answered once. As long as nothing but uploads fails, what was
\* checked is what was uploaded, its script is there when it is started, and an
\* accepted upload is installed or in the way of its script.
OnItsWay ==
  \A r \in Requests :
    /\ reply[r] = "updating" => pc[r] = "done"
    /\ Quiet =>
         /\ pc[r] \in {"write", "launch"} => file["new"] = put[r]
         /\ pc[r] = "launch" => script
         /\ reply[r] = "updating" =>
              put[r] \in landed \/ (sh[r] \in Ahead /\ file["new"] = put[r])

WayInv == IInv /\ OnItsWay

\* Failed uploads are a mishap that the script survives.
LEMMA QuietIsSafe == IInv /\ Quiet => Safe
  BY DEF IInv, Quiet, Survivable

\* The steps of pagUpdate.
LEMMA UploadOnItsWay ==
  ASSUME WayInv, NEW r \in Requests, PagUpdate(r)
  PROVE  OnItsWay'
<1> USE DEF TypeOK, RequestType, ScriptType, FileType
<1>1. TypeOK /\ NotYet
  BY DEF WayInv, IInv
<1>2. \A q \in Requests : q # r => reply'[q] = reply[q] /\ pc'[q] = pc[q] /\ put'[q] = put[q] /\ sh'[q] = sh[q]
  BY <1>1 DEF PagUpdate, Open, CopyEnds, Check, WriteScript, TmpFull, Launch, Refuses, scriptVars
<1>3. pc[r] # "done" /\ reply[r] # "updating"
  <2>1. pc[r] # "done"
    BY DEF PagUpdate, Open, CopyEnds, Check, WriteScript, TmpFull, Launch
  <2> QED BY <2>1 DEF WayInv, OnItsWay
<1>4. reply'[r] = "updating" => pc'[r] = "done" /\ Launch(r)
  BY <1>1, <1>3 DEF PagUpdate, Open, CopyEnds, Check, WriteScript, TmpFull, Launch, Refuses
<1>5. \A q \in Requests : reply'[q] = "updating" => pc'[q] = "done"
  BY <1>2, <1>4 DEF WayInv, OnItsWay
<1>6. ASSUME Quiet'
      PROVE  \A q \in Requests :
               /\ pc'[q] \in {"write", "launch"} => file'["new"] = put'[q]
               /\ pc'[q] = "launch" => script'
               /\ reply'[q] = "updating" =>
                    put'[q] \in landed' \/ (sh'[q] \in Ahead /\ file'["new"] = put'[q])
  <2>1. Quiet /\ Safe
    <3>1. trouble \subseteq trouble'
      BY TroubleGrows DEF Next
    <3> QED BY <1>6, <3>1, QuietIsSafe DEF Quiet, WayInv
  <2>2. landed' = landed /\ (script => script')
    BY DEF PagUpdate, Open, CopyEnds, Check, WriteScript, TmpFull, Launch, flashVars
  <2>3. ASSUME NEW q \in Requests, q # r PROVE ~Active(q)
    <3>1. CASE Open(r)
      BY <1>6, <3>1 DEF Open, Active, Quiet
    <3>2. CASE ~Open(r)
      <4>1. Active(r)
        BY <3>2 DEF PagUpdate, CopyEnds, Check, WriteScript, TmpFull, Launch, Active, InFlight
      <4> QED BY <2>1, <2>3, <4>1 DEF Safe, Alone
    <3> QED BY <3>1, <3>2
  <2>4. \A q \in Requests : q # r =>
          pc[q] \notin {"write", "launch"} /\ sh[q] \notin Ahead
    BY <2>3 DEF Active, InFlight, Runs, Ahead
  <2>5. pc'[r] \in {"write", "launch"} => file'["new"] = put'[r]
    <3>1. CASE Open(r)
      BY <1>1, <3>1 DEF Open
    <3>2. CASE CopyEnds(r)
      BY <1>1, <3>2 DEF CopyEnds
    <3>3. CASE Check(r)
      BY <1>1, <2>1, <3>3 DEF Check, Safe, Stored, Refuses
    <3>4. CASE WriteScript(r) \/ TmpFull(r) \/ Launch(r)
      BY <1>1, <2>1, <3>4 DEF WayInv, OnItsWay, WriteScript, TmpFull, Launch, Refuses
    <3> QED BY <3>1, <3>2, <3>3, <3>4 DEF PagUpdate
  <2>6. pc'[r] = "launch" => script'
    BY <1>1 DEF PagUpdate, Open, CopyEnds, Check, WriteScript, TmpFull, Launch, Refuses
  <2>7. reply'[r] = "updating" => sh'[r] \in Ahead /\ file'["new"] = put'[r]
    <3>1. Launch(r) => sh'[r] \in Ahead /\ file'["new"] = put'[r]
      BY <1>1, <2>1 DEF Launch, WayInv, OnItsWay, Ahead
    <3> QED BY <1>4, <3>1
  <2> QED BY <1>2, <2>1, <2>2, <2>4, <2>5, <2>6, <2>7 DEF WayInv, OnItsWay
<1> QED BY <1>5, <1>6 DEF OnItsWay, Quiet

\* The steps of the script.
LEMMA ScriptOnItsWay ==
  ASSUME WayInv, NEW r \in Requests, Script(r)
  PROVE  OnItsWay'
<1> USE DEF TypeOK, RequestType, ScriptType, FileType
<1>1. TypeOK /\ NotYet
  BY DEF WayInv, IInv
<1>2. Runs(r) /\ Active(r) /\ pc[r] \notin {"write", "launch"}
  <2>1. Runs(r)
    BY <1>1, Copies DEF Script, ScriptRuns, Wakes, Stops, CpBegins, CpEnds, CpFails, Syncs, Starts, Cleans,
                  Runs, Copying
  <2> QED BY <1>1, <2>1 DEF Runs, Active, NotYet, InFlight
<1>3. reply' = reply /\ put' = put /\ (UNCHANGED pc \/ Killed) /\ landed \subseteq landed'
  BY DEF Script, ScriptRuns, Wakes, Stops, CpBegins, CpEnds, CpFails, Syncs, Starts, Cleans,
         requestVars, flashVars
<1>4. \A q \in Requests : pc'[q] = pc[q] \/ (InFlight(q) /\ pc'[q] = "killed")
  BY <1>1, <1>3 DEF Killed
<1>5. \A q \in Requests : reply'[q] = "updating" => pc'[q] = "done"
  BY <1>3, <1>4 DEF WayInv, OnItsWay, InFlight
<1>6. ASSUME Quiet'
      PROVE  \A q \in Requests :
               /\ pc'[q] \in {"write", "launch"} => file'["new"] = put'[q]
               /\ pc'[q] = "launch" => script'
               /\ reply'[q] = "updating" =>
                    put'[q] \in landed' \/ (sh'[q] \in Ahead /\ file'["new"] = put'[q])
  <2>1. Quiet /\ Safe
    <3>1. trouble \subseteq trouble'
      BY TroubleGrows DEF Next
    <3> QED BY <1>6, <3>1, QuietIsSafe DEF Quiet, WayInv
  <2>2. \A q \in Requests : pc'[q] \notin {"write", "launch"}
    <3>1. \A q \in Requests : pc[q] \notin {"write", "launch"}
      BY <1>1, <1>2, <2>1, OthersRest DEF Safe
    <3> QED BY <1>4, <3>1
  <2>3. ASSUME NEW q \in Requests, q # r, reply'[q] = "updating"
        PROVE  put'[q] \in landed'
    <3>1. sh[q] \notin Ahead
      BY <1>1, <1>2, <2>1, <2>3, OthersRest DEF Safe, Ahead
    <3> QED BY <1>3, <2>1, <2>3, <3>1 DEF WayInv, OnItsWay
  <2>4. ASSUME reply'[r] = "updating"
        PROVE  put'[r] \in landed' \/ (sh'[r] \in Ahead /\ file'["new"] = put'[r])
    <3>1. CASE put[r] \in landed
      BY <1>3, <3>1
    <3>2. CASE sh[r] \in Ahead /\ file["new"] = put[r]
      <4>0. file["new"] \in Images /\ file["new"] # "none" /\ put[r] = file["new"]
        BY <2>1, <3>2, Holds DEF Safe, Stored, Ahead
      <4>1. CASE Wakes(r) \/ Stops(r)
        BY <1>1, <1>3, <3>2, <4>0, <4>1 DEF Wakes, Stops, Ahead
      <4>2. CASE Syncs(r) \/ Starts(r) \/ Cleans(r)
        BY <3>2, <4>2 DEF Syncs, Starts, Cleans, Ahead
      <4>3. CASE CpBegins(r)
        <5>1. sh[r] \in {"backup", "install"}
          BY <3>2, <4>3, Copies DEF CpBegins, Ahead, Copying
        <5>2. sh' \in [Requests -> {"none", "sleep", "stop", "backup", "install", "restore", "sync",
                          "start", "restart", "clean", "clear", "ended"}]
               /\ (sh[r] = "install" => ~up)
          BY <1>1, <2>1, <4>3, ScriptTyped DEF Script, ScriptRuns, Safe, Replacing, Copying
        <5>3. file'["new"] = file["new"] /\ sh'[r] \in {"backup", "install"}
          BY <1>1, <4>0, <4>3, <5>1, <5>2, Copies DEF CpBegins
        <5> QED BY <1>3, <4>0, <5>3 DEF Ahead
      <4>4. CASE CpEnds(r)
        <5>1. sh[r] \in {"backup", "install"} /\ src[r] # "none"
          BY <1>1, <3>2, <4>4, Copies DEF CpEnds, Ahead, Copying
        <5>2. CASE sh[r] = "backup"
          BY <1>1, <1>3, <4>0, <4>4, <5>2, Copies DEF CpEnds, Ahead
        <5>3. CASE sh[r] = "install"
          <6>1. ~Disturbed(r) /\ src[r] = put[r]
            <7>1. src[r] = file[CpFrom[sh[r]]]
              BY <2>1, <5>1 DEF Safe, Sources
            <7>2. \A q \in Requests \ {r} : src[q] = "none"
              BY <1>1, <1>2, <2>1, OthersRest DEF Safe
            <7> QED BY <4>0, <5>3, <7>1, <7>2, Copies DEF Disturbed
          <6>2. landed' = landed \cup {src[r]}
            BY <4>4, <5>3, <6>1 DEF CpEnds
          <6> QED BY <1>3, <6>1, <6>2
        <5> QED BY <5>1, <5>2, <5>3
      <4>5. CASE CpFails(r)
        <5>1. sh[r] \in trouble' /\ sh[r] \in Copying
          BY <1>1, <4>5, Copies DEF CpFails, Fault
        <5> QED BY <1>6, <5>1 DEF Quiet, Copying
      <4> QED BY <4>1, <4>2, <4>3, <4>4, <4>5 DEF Script, ScriptRuns
    <3> QED BY <1>3, <2>1, <2>4, <3>1, <3>2 DEF WayInv, OnItsWay
  <2> QED BY <2>2, <2>3, <2>4
<1> QED BY <1>5, <1>6 DEF OnItsWay, Quiet

\* Every step keeps the invariant.
LEMMA NextWay == WayInv /\ [Next]_vars => WayInv'
<1> SUFFICES ASSUME WayInv, [Next]_vars PROVE OnItsWay'
  BY NextIInv DEF WayInv
<1>1. CASE PowerCut
  <2>1. ~Quiet'
    BY <1>1 DEF PowerCut, Fault, Quiet
  <2>2. \A r \in Requests : reply'[r] = "updating" => pc'[r] = "done"
    BY <1>1 DEF PowerCut, Killed, InFlight, WayInv, OnItsWay
  <2> QED BY <2>1, <2>2 DEF OnItsWay, Quiet
<1>2. CASE Boots \/ NetworkChanges \/ UNCHANGED vars
  BY <1>2 DEF Boots, NetworkChanges, vars, requestVars, scriptVars, flashVars, WayInv, OnItsWay, Quiet
<1> QED BY <1>1, <1>2, UploadOnItsWay, ScriptOnItsWay DEF Next

\* The invariant holds in every behaviour.
LEMMA WayInvariant == Spec => []WayInv
<1>1. Init => WayInv
  BY InitIInv DEF Init, WayInv, OnItsWay
<1> QED BY <1>1, NextWay, PTL DEF Spec

\* While nothing but uploads fails, an upload that was answered with "updating"
\* is installed, or lies complete in the upload directory while its own script
\* has not yet copied it: no later upload replaces it there.
THEOREM AcceptedIsOnItsWay == Spec => []OnItsWay
<1>1. WayInv => OnItsWay
  BY DEF WayInv
<1> QED BY <1>1, WayInvariant, PTL

\* Where a script is: at a command, or in the middle of a copy.
At(r, command) == sh[r] = command /\ src[r] = "none"
In(r, command) == sh[r] = command /\ src[r] # "none"

\* An accepted upload that is not installed, although nothing went wrong.
Pending(r) == reply[r] = "updating" /\ put[r] \notin landed /\ Quiet

\* No script but r's moves while an upload of r is pending.
LEMMA OnlyItsScript ==
  ASSUME WayInv, [Next]_vars, NEW r \in Requests, Pending(r), Pending(r)'
  PROVE  ScriptRuns(r) \/ UNCHANGED <<sh[r], src[r]>>
<1> USE DEF TypeOK, RequestType, ScriptType, FileType
<1>1. TypeOK /\ NotYet /\ Safe /\ sh[r] \in Ahead
  BY QuietIsSafe DEF WayInv, IInv, OnItsWay, Pending
<1>2. CASE \E q \in Requests : PagUpdate(q)
  <2>1. PICK q \in Requests : PagUpdate(q)
    BY <1>2
  <2>2. CASE q = r
    <3>1. pc[r] = "done"
      BY DEF Pending, WayInv, OnItsWay
    <3> QED BY <2>1, <2>2, <3>1 DEF PagUpdate, Open, CopyEnds, Check, WriteScript, TmpFull, Launch
  <2>3. CASE q # r
    BY <1>1, <2>1, <2>3 DEF PagUpdate, Open, CopyEnds, Check, WriteScript, TmpFull, Launch, scriptVars
  <2> QED BY <2>2, <2>3
<1>3. CASE \E q \in Requests : Script(q)
  <2>1. PICK q \in Requests : Script(q)
    BY <1>3
  <2>2. CASE q = r
    <3>1. CASE CpFails(r)
      <4>1. sh[r] \in trouble' /\ sh[r] \in Copying
        BY <1>1, <3>1, Copies DEF CpFails, Fault
      <4> QED BY <4>1 DEF Pending, Quiet, Copying
    <3>2. CASE Starts(r)
      BY <1>1, <3>2 DEF Starts, Ahead
    <3> QED BY <2>1, <2>2, <3>1, <3>2 DEF Script
  <2>3. CASE q # r
    BY <1>1, <2>1, <2>3 DEF Script, ScriptRuns, Wakes, Stops, CpBegins, CpEnds, CpFails, Syncs, Starts,
                            Cleans, scriptVars
  <2> QED BY <2>2, <2>3
<1>4. CASE PowerCut
  BY <1>4 DEF PowerCut, Fault, Pending, Quiet
<1>5. CASE Boots \/ NetworkChanges \/ UNCHANGED vars
  BY <1>5 DEF Boots, NetworkChanges, vars, scriptVars
<1> QED BY <1>2, <1>3, <1>4, <1>5 DEF Next

\* A step of the script brings it to its next command.
LEMMA ScriptMovesOn ==
  ASSUME WayInv, NEW r \in Requests, ScriptRuns(r), Pending(r), Pending(r)'
  PROVE  /\ At(r, "sleep") => At(r, "stop")'
         /\ At(r, "stop") => At(r, "backup")'
         /\ At(r, "backup") => In(r, "backup")'
         /\ In(r, "backup") => At(r, "install")'
         /\ At(r, "install") => In(r, "install")'
         /\ ~In(r, "install")
<1> USE DEF TypeOK, RequestType, ScriptType, FileType, At, In
<1>1. /\ TypeOK /\ Safe /\ sh[r] \in Ahead /\ file["new"] = put[r]
      /\ file["new"] \in Images /\ file["new"] # "none"
  BY QuietIsSafe, Holds DEF WayInv, IInv, OnItsWay, Pending, Safe, Stored, Ahead
<1>2. CASE Wakes(r)
  BY <1>1, <1>2 DEF Wakes
<1>3. CASE Stops(r)
  BY <1>1, <1>3 DEF Stops
<1>4. CASE CpBegins(r)
  <2>1. sh[r] \in {"backup", "install"} /\ src[r] = "none" /\ (sh[r] = "install" => ~up)
    BY <1>1, <1>4, Copies DEF CpBegins, Ahead, Safe, Replacing, Copying
  <2>2. sh' = sh /\ src'[r] = file[CpFrom[sh[r]]] /\ file[CpFrom[sh[r]]] # "none"
    BY <1>1, <1>4, <2>1, Copies DEF CpBegins
  <2> QED BY <2>1, <2>2
<1>5. CASE CpEnds(r)
  <2>1. sh[r] \in {"backup", "install"} /\ src[r] # "none"
    BY <1>1, <1>5, Copies DEF CpEnds, Ahead, Copying
  <2>2. CASE sh[r] = "backup"
    BY <1>1, <1>5, <2>1, <2>2, Copies DEF CpEnds
  <2>3. CASE sh[r] = "install"
    <3>1. ~Disturbed(r) /\ src[r] = put[r]
      <4>1. src[r] = file[CpFrom[sh[r]]]
        BY <1>1, <2>1 DEF Safe, Sources
      <4>2. \A q \in Requests \ {r} : src[q] = "none"
        BY <1>1, <2>1, OthersRest DEF Safe, Active, Runs
      <4> QED BY <1>1, <2>3, <4>1, <4>2, Copies DEF Disturbed
    <3>2. put'[r] \in landed'
      BY <1>5, <2>3, <3>1 DEF CpEnds, requestVars
    <3> QED BY <3>2 DEF Pending
  <2> QED BY <2>1, <2>2, <2>3
<1>6. CASE Syncs(r) \/ Cleans(r)
  BY <1>1, <1>6 DEF Syncs, Cleans, Ahead
<1> QED BY <1>2, <1>3, <1>4, <1>5, <1>6 DEF ScriptRuns

CanRun(r) == Runs(r) /\ sh[r] \notin {"start", "restart"}

\* A pending upload does not wait for ever if its script gets on.
LEMMA PendingEnds ==
  ASSUME NEW r \in Requests
  PROVE  Spec /\ ([]<>~CanRun(r) \/ []<><<ScriptRuns(r)>>_vars) => []<>~Pending(r)
<1>1. WayInv /\ Pending(r) =>
        CanRun(r) /\ (\/ At(r, "sleep") \/ At(r, "stop") \/ At(r, "backup") \/ In(r, "backup")
                      \/ At(r, "install") \/ In(r, "install"))
  BY Copies DEF WayInv, IInv, TypeOK, ScriptType, OnItsWay, Pending, CanRun, Runs, At, In, Ahead, Copying
<1>2. WayInv /\ [Next]_vars /\ Pending(r) /\ Pending(r)' =>
        /\ At(r, "sleep") => At(r, "sleep")' \/ At(r, "stop")'
        /\ At(r, "stop") => At(r, "stop")' \/ At(r, "backup")'
        /\ At(r, "backup") => At(r, "backup")' \/ In(r, "backup")'
        /\ In(r, "backup") => In(r, "backup")' \/ At(r, "install")'
        /\ At(r, "install") => At(r, "install")' \/ In(r, "install")'
        /\ In(r, "install") => In(r, "install")'
  BY OnlyItsScript, ScriptMovesOn DEF At, In
<1>3. WayInv /\ Pending(r) /\ Pending(r)' /\ <<ScriptRuns(r)>>_vars =>
        /\ At(r, "sleep") => At(r, "stop")'
        /\ At(r, "stop") => At(r, "backup")'
        /\ At(r, "backup") => In(r, "backup")'
        /\ In(r, "backup") => At(r, "install")'
        /\ At(r, "install") => In(r, "install")'
        /\ ~In(r, "install")
  BY ScriptMovesOn
<1> QED BY <1>1, <1>2, <1>3, WayInvariant, PTL DEF Spec

\* The guards of the script's commands are true where the script stands.
ScriptCanRun == \A r \in Requests : CanRun(r) => ENABLED <<ScriptRuns(r)>>_vars

\* The fairness of the script, and a guard that lets it go on, are enough: an
\* update that was answered with "updating" is installed at some time, unless
\* something other than an upload fails.
THEOREM UpdateCompletesIfScriptsRun == FairSpec /\ []ScriptCanRun => UpdateCompletes
<1>1. ASSUME NEW r \in Requests
      PROVE  FairSpec /\ []ScriptCanRun =>
               []<>(reply[r] = "updating" => put[r] \in landed \/ ~(trouble \subseteq {"upload"}))
  <2>1. FairSpec => Spec /\ KeepsRunning(r)
    BY DEF FairSpec, Fairness
  <2>2. ScriptCanRun => (CanRun(r) => ENABLED <<ScriptRuns(r)>>_vars)
    BY DEF ScriptCanRun
  <2>3. Spec /\ ([]<>~CanRun(r) \/ []<><<ScriptRuns(r)>>_vars) => []<>~Pending(r)
    BY PendingEnds
  <2>4. ~Pending(r) => (reply[r] = "updating" => put[r] \in landed \/ ~(trouble \subseteq {"upload"}))
    BY DEF Pending, Quiet
  <2> QED BY <2>1, <2>2, <2>3, <2>4, PTL DEF KeepsRunning
<1> QED BY <1>1 DEF UpdateCompletes
-----------------------------------------------------------------------------
(* A stopped service runs again.                                           *)

\* The service is stopped although there is a program to run.
Down == ~up /\ file["installed"] \in Images

\* A script that will start the service.
Starting(r) == sh[r] \in {"start", "restart"}
Bringing(r) == sh[r] \in {"backup", "install", "restore", "sync"} \/ Starting(r)

\* Whoever leaves the service stopped is still there to start it, or the device
\* boots: a script that ends finds a running service, or no program to run.
BroughtBack == Down => booting \/ \E r \in Requests : Bringing(r)

\* Every step keeps that.
LEMMA NextBack == IInv /\ BroughtBack /\ [Next]_vars => BroughtBack'
<1> SUFFICES ASSUME IInv, BroughtBack, [Next]_vars, Down' PROVE booting' \/ \E r \in Requests : Bringing(r)'
  BY DEF BroughtBack
<1> USE DEF TypeOK, RequestType, ScriptType, FileType, Bringing, Starting
<1>1. TypeOK /\ NotYet
  BY DEF IInv
<1>2. CASE \E q \in Requests : PagUpdate(q)
  <2>1. PICK q \in Requests : PagUpdate(q)
    BY <1>2
  <2>2. UNCHANGED <<up, booting>> /\ file'["installed"] = file["installed"]
    BY <1>1, <2>1 DEF PagUpdate, Open, CopyEnds, Check, WriteScript, TmpFull, Launch, Removes, Refuses, powerVars
  <2>3. \A r \in Requests : Bringing(r) => sh'[r] = sh[r]
    BY <1>1, <2>1 DEF PagUpdate, Open, CopyEnds, Check, WriteScript, TmpFull, Launch, scriptVars, NotYet, InFlight
  <2> QED BY <2>2, <2>3 DEF BroughtBack, Down
<1>3. CASE \E q \in Requests : Script(q)
  <2>1. PICK q \in Requests : Script(q)
    BY <1>3
  <2>2. \A r \in Requests : r # q => sh'[r] = sh[r]
    BY <1>1, <2>1 DEF Script, ScriptRuns, Wakes, Stops, CpBegins, CpEnds, CpFails, Syncs, Starts, Cleans, scriptVars
  <2>3. booting' = booting
    BY <2>1 DEF Script, ScriptRuns, Wakes, Stops, CpBegins, CpEnds, CpFails, Syncs, Starts, Cleans, powerVars
  <2>4. CASE CpBegins(q) \/ CpEnds(q) \/ CpFails(q) \/ Syncs(q) \/ Stops(q)
    <3>1. sh'[q] \in {"backup", "install", "restore", "sync", "start", "restart"}
      BY <1>1, <2>4, Copies DEF CpBegins, CpEnds, CpFails, Syncs, Stops, Copying
    <3> QED BY <3>1
  <2>5. CASE Wakes(q) \/ Cleans(q)
    <3>1. up' = up /\ file'["installed"] = file["installed"] /\ ~Bringing(q)
      BY <1>1, <2>5 DEF Wakes, Cleans, Removes
    <3> QED BY <2>2, <2>3, <3>1 DEF BroughtBack, Down
  <2>6. CASE Starts(q)
    BY <2>6 DEF Starts, StartsService, Down
  <2> QED BY <2>1, <2>4, <2>5, <2>6 DEF Script, ScriptRuns
<1>4. CASE PowerCut
  BY <1>4 DEF PowerCut
<1>5. CASE Boots
  BY <1>5 DEF Boots, StartsService, Down
<1>6. CASE NetworkChanges \/ UNCHANGED vars
  BY <1>6 DEF NetworkChanges, vars, scriptVars, powerVars, BroughtBack, Down
<1> QED BY <1>2, <1>3, <1>4, <1>5, <1>6 DEF Next

BackInv == TypeOK /\ BroughtBack

\* A stopped service is always brought back by somebody.
LEMMA BackInvariant == Spec => []BackInv
<1>1. Init => BroughtBack
  BY DEF Init, BroughtBack, Down
<1>2. IInv => TypeOK
  BY DEF IInv
<1> QED BY <1>1, <1>2, NextBack, Invariant, PTL DEF Spec, BackInv

\* A stopped service that has a program to run is never forgotten: a script that
\* stopped it is still on its way to systemctl start or restart, or the device
\* is about to boot.
THEOREM BroughtBackAlways == Spec => []BroughtBack
<1>1. BackInv => BroughtBack
  BY DEF BackInv
<1> QED BY <1>1, BackInvariant, PTL

\* A device that stays down: nobody boots it.
DownForGood == Down /\ ~booting

\* Boots and Starts end it.
LEMMA StartsEndIt ==
  ASSUME Down
  PROVE  /\ <<Boots>>_vars => ~Down'
         /\ \A r \in Requests : <<Starts(r)>>_vars => ~Down'
  BY DEF Boots, Starts, StartsService, Down

\* A device that boots is off until it has booted.
LEMMA BootingLasts == Down /\ booting /\ [Next]_vars => ~Down' \/ booting'
<1> SUFFICES ASSUME Down, booting, [Next]_vars, ~booting' PROVE ~Down'
  OBVIOUS
<1>1. ~UNCHANGED booting
  OBVIOUS
<1>2. Boots
  BY <1>1 DEF Next, PagUpdate, Open, CopyEnds, Check, WriteScript, TmpFull, Launch, Script, ScriptRuns,
     Wakes, Stops, CpBegins, CpEnds, CpFails, Syncs, Starts, Cleans, PowerCut, NetworkChanges, vars, powerVars
<1> QED BY <1>2 DEF Boots, StartsService, Down

\* Where a script that will start the service goes, in its own steps and meanwhile.
LEMMA ScriptGoesOn ==
  ASSUME TypeOK, NotYet, [Next]_vars, ~booting', NEW r \in Requests
  PROVE  /\ At(r, "backup") => \/ ~ScriptRuns(r) /\ At(r, "backup")'
                               \/ In(r, "backup")' \/ At(r, "install")'
         /\ In(r, "backup") => \/ ~ScriptRuns(r) /\ In(r, "backup")'
                               \/ At(r, "install")'
         /\ At(r, "install") => \/ ~ScriptRuns(r) /\ At(r, "install")'
                                \/ In(r, "install")' \/ At(r, "restore")'
         /\ In(r, "install") => \/ ~ScriptRuns(r) /\ In(r, "install")'
                                \/ At(r, "sync")' \/ At(r, "restore")'
         /\ At(r, "restore") => \/ ~ScriptRuns(r) /\ At(r, "restore")'
                                \/ In(r, "restore")' \/ Starting(r)'
         /\ In(r, "restore") => \/ ~ScriptRuns(r) /\ In(r, "restore")'
                                \/ Starting(r)'
         /\ At(r, "sync") => \/ ~ScriptRuns(r) /\ At(r, "sync")'
                             \/ Starting(r)'
         /\ Starting(r) => Starting(r)' \/ Starts(r)
<1> USE DEF TypeOK, RequestType, ScriptType, FileType, At, In, Starting
<1>1. CASE UNCHANGED <<sh[r], src[r]>> /\ ~ScriptRuns(r)
  BY <1>1
<1>2. CASE Script(r)
  <2>1. CASE Wakes(r) \/ Stops(r) \/ Syncs(r) \/ Cleans(r) \/ Starts(r)
    BY <2>1, Copies DEF Wakes, Stops, Syncs, Cleans, Starts, scriptVars, Copying
  <2>2. CASE CpBegins(r)
    BY <2>2, Copies DEF CpBegins, Copying
  <2>3. CASE CpEnds(r) \/ CpFails(r)
    BY <2>3, Copies DEF CpEnds, CpFails, Copying
  <2> QED BY <1>2, <2>1, <2>2, <2>3 DEF Script, ScriptRuns
<1>3. CASE ~Script(r) /\ Bringing(r)
  <2>0. ~ScriptRuns(r)
    BY <1>3 DEF Script
  <2>1. CASE \E q \in Requests : Script(q)
    <3>1. PICK q \in Requests : Script(q)
      BY <2>1
    <3>2. q # r
      BY <1>3, <3>1
    <3>3. UNCHANGED <<sh[r], src[r]>>
      BY <3>1, <3>2 DEF Script, ScriptRuns, Wakes, Stops, CpBegins, CpEnds, CpFails, Syncs, Starts,
                        Cleans, scriptVars
    <3> QED BY <1>1, <2>0, <3>3
  <2>2. CASE \E q \in Requests : PagUpdate(q)
    <3>1. UNCHANGED <<sh[r], src[r]>>
      BY <1>3, <2>2 DEF PagUpdate, Open, CopyEnds, Check, WriteScript, TmpFull, Launch, scriptVars,
                        Bringing, NotYet, InFlight
    <3> QED BY <1>1, <2>0, <3>1
  <2>3. CASE PowerCut
    BY <2>3 DEF PowerCut
  <2>4. CASE Boots \/ NetworkChanges \/ UNCHANGED vars
    BY <1>1, <2>0, <2>4 DEF Boots, NetworkChanges, vars, scriptVars
  <2> QED BY <2>1, <2>2, <2>3, <2>4 DEF Next
<1> QED BY <1>2, <1>3 DEF Bringing

\* The guards of the other steps that have to happen.
DeviceCanRun ==
  /\ \A r \in Requests : Starting(r) /\ ip => ENABLED <<Starts(r)>>_vars
  /\ booting /\ ip => ENABLED <<Boots>>_vars
  /\ ENABLED <<NetworkChanges>>_vars
CanStep == ScriptCanRun /\ DeviceCanRun

\* The network is up again and again.
LEMMA NetworkReturns == []TypeOK /\ DeviceWorks /\ []CanStep => []<>ip
<1>1. CanStep => ENABLED <<NetworkChanges>>_vars
  BY DEF CanStep, DeviceCanRun
<1>2. TypeOK /\ <<NetworkChanges>>_vars => (ip \/ ip')
  BY DEF NetworkChanges, TypeOK, DeviceType
<1> QED BY <1>1, <1>2, PTL DEF DeviceWorks

\* No device stays in its boot.
LEMMA BootEnds ==
  []TypeOK /\ [][Next]_vars /\ DeviceWorks /\ []CanStep => []<>(~Down \/ ~booting)
<1>1. CanStep => (booting /\ ip => ENABLED <<Boots>>_vars)
  BY DEF CanStep, DeviceCanRun
<1>2. Down /\ <<Boots>>_vars => ~Down'
  BY StartsEndIt
<1> QED BY <1>1, <1>2, NetworkReturns, PTL DEF DeviceWorks

\* A script that gets to systemctl start does not leave the service stopped, and
\* nothing keeps it from getting there.
LEMMA NobodyBrings ==
  ASSUME NEW r \in Requests
  PROVE  /\ [](TypeOK /\ NotYet) /\ [][Next]_vars /\ DeviceWorks /\ KeepsRunning(r) /\ []CanStep
         /\ []DownForGood
         => ~Bringing(r)
<1>1. CanStep => /\ CanRun(r) => ENABLED <<ScriptRuns(r)>>_vars
                 /\ Starting(r) /\ ip => ENABLED <<Starts(r)>>_vars
  BY DEF CanStep, ScriptCanRun, DeviceCanRun
<1>2. DownForGood /\ <<Starts(r)>>_vars => ~DownForGood'
  BY StartsEndIt DEF DownForGood
<1>3. TypeOK => 
        /\ Bringing(r) => \/ At(r, "backup") \/ In(r, "backup") \/ At(r, "install") \/ In(r, "install")
                          \/ At(r, "restore") \/ In(r, "restore") \/ At(r, "sync") \/ Starting(r)
        /\ (\/ At(r, "backup") \/ In(r, "backup") \/ At(r, "install") \/ In(r, "install")
            \/ At(r, "restore") \/ In(r, "restore") \/ At(r, "sync")) => CanRun(r)
  BY Copies DEF TypeOK, ScriptType, Bringing, CanRun, Runs, At, In, Starting, Copying
<1>4. TypeOK /\ NotYet /\ [Next]_vars /\ DownForGood' =>
         /\ At(r, "backup") => At(r, "backup")' \/ In(r, "backup")' \/ At(r, "install")'
         /\ In(r, "backup") => In(r, "backup")' \/ At(r, "install")'
         /\ At(r, "install") => At(r, "install")' \/ In(r, "install")' \/ At(r, "restore")'
         /\ In(r, "install") => In(r, "install")' \/ At(r, "sync")' \/ At(r, "restore")'
         /\ At(r, "restore") => At(r, "restore")' \/ In(r, "restore")' \/ Starting(r)'
         /\ In(r, "restore") => In(r, "restore")' \/ Starting(r)'
         /\ At(r, "sync") => At(r, "sync")' \/ Starting(r)'
  BY ScriptGoesOn DEF DownForGood
<1>5. TypeOK /\ NotYet /\ [Next]_vars /\ DownForGood' /\ <<ScriptRuns(r)>>_vars =>
         /\ At(r, "backup") => In(r, "backup")' \/ At(r, "install")'
         /\ In(r, "backup") => At(r, "install")'
         /\ At(r, "install") => In(r, "install")' \/ At(r, "restore")'
         /\ In(r, "install") => At(r, "sync")' \/ At(r, "restore")'
         /\ At(r, "restore") => In(r, "restore")' \/ Starting(r)'
         /\ In(r, "restore") => Starting(r)'
         /\ At(r, "sync") => Starting(r)'
  BY ScriptGoesOn DEF DownForGood
<1>6. TypeOK /\ NotYet /\ [Next]_vars /\ DownForGood /\ DownForGood' /\ Starting(r) => Starting(r)'
  <2>1. Starts(r) /\ DownForGood => ~DownForGood'
    BY DEF Starts, StartsService, Down, DownForGood
  <2> QED BY <2>1, ScriptGoesOn DEF DownForGood
<1> QED BY <1>1, <1>2, <1>3, <1>4, <1>5, <1>6, NetworkReturns, PTL DEF KeepsRunning

\* Where the scripts run on, the device boots and the network comes and goes, a
\* stopped service that has a program to run is started again, whatever files
\* the power cuts and full disks left.
THEOREM ServiceReturnsIfFair == Spec /\ []Fairness /\ []CanStep => ServiceReturns
<1> DEFINE Rest == [](TypeOK /\ NotYet) /\ [][Next]_vars /\ []CanStep /\ []DownForGood
<1>1. ASSUME NEW r \in Requests
      PROVE  Rest /\ Fairness => ~Bringing(r)
  <2>1. Fairness => DeviceWorks /\ KeepsRunning(r)
    BY DEF Fairness
  <2> QED BY <2>1, NobodyBrings, PTL
<1> HIDE DEF Rest
<1>2. Rest /\ Fairness => \A r \in Requests : ~Bringing(r)
  BY <1>1
<1>3. BroughtBack /\ DownForGood => ~ \A r \in Requests : ~Bringing(r)
  BY DEF BroughtBack, DownForGood
<1>5. Down /\ booting /\ [Next]_vars => ~Down' \/ booting'
  BY BootingLasts
<1>6. Fairness => DeviceWorks
  BY DEF Fairness
<1>7. DownForGood <=> Down /\ ~booting
  BY DEF DownForGood
<1>8. ~Down => up \/ file.installed \notin Images
  BY DEF Down
<1>9. IInv => TypeOK /\ NotYet
  BY DEF IInv
<1> QED BY <1>2, <1>3, <1>5, <1>6, <1>7, <1>8, <1>9, BootEnds, BackInvariant, Invariant, PTL
        DEF Spec, Rest, ServiceReturns, BackInv
=============================================================================
