--------------------------- MODULE FirmwareUpdate ---------------------------
(***************************************************************************)
(* The update of the program by itself: POST /print2go/update stores and   *)
(* checks a new binary, then starts a shell script that stops the service, *)
(* keeps the old binary, copies the new one over it and starts the service *)
(* again, on a device that may run out of space or lose its power.         *)
(*                                                                         *)
(* Requests run concurrently, and every accepted one starts a script of    *)
(* its own, which outlives the server. /tmp is lost with the power; what   *)
(* was written to flash since the last sync may be.                        *)
(***************************************************************************)
EXTENDS Naturals

CONSTANTS
  Requests,    \* uploads, each of which is made at most once
  Images,      \* whole MIPS binaries of the program
  Factory,     \* the one installed at first
  Offers,      \* what each request may upload
  MaxFaults    \* bound: full disks and power cuts

ASSUME ImagesAssumption == Factory \in Images /\ Images \cap {"none", "part", "alien"} = {}
ASSUME BoundsAssumption ==
  MaxFaults \in Nat /\ Offers \in [Requests -> SUBSET (Images \cup {"alien"})]

\* What a file holds: nothing, a part or a mix of files, a file that is no
\* MIPS binary, or a whole image.
Held == Images \cup {"none", "part", "alien"}

VARIABLES
  up,         \* the service runs
  booting,    \* the device starts, and will start the service
  ip,         \* wwan has an address
  pc,         \* where each request is
  put,        \* what each request uploads
  link,       \* how a request that copies shares the file it writes
  reply,
  script,     \* /tmp/print2go-update.sh exists
  sh,         \* where the script that each request started is
  src,        \* what its cp reads, "none" when no cp runs
  file,       \* Print2Go.new, Print2Go and Print2Go.previous
  unsynced,   \* files on flash written since the last sync
  faults,
  trouble,    \* history: which mishaps there were
  landed      \* history: what was copied over the program completely

requestVars == <<pc, put, link, reply>>
scriptVars  == <<sh, src>>
flashVars   == <<unsynced, landed>>
powerVars   == <<booting, ip>>
vars == <<requestVars, scriptVars, flashVars, powerVars, up, script, file, faults, trouble>>

InFlight(r) == pc[r] \in {"copy", "check", "write", "launch"}
Runs(r) == sh[r] \notin {"none", "ended"}

\* The three copies of the script: from where, to where, and what follows.
CpFrom   == [backup |-> "installed", install |-> "new", restore |-> "previous"]
CpTo     == [backup |-> "previous", install |-> "installed", restore |-> "installed"]
\* Mutant: the script ends after it put the old binary back.
CpNextEnds == [backup |-> "install", install |-> "sync", restore |-> "ended"]
CpNext   == [backup |-> "install", install |-> "sync", restore |-> "restart"]
\* Only the second cp is looked at.
CpFailed == [backup |-> "install", install |-> "restore", restore |-> "restart"]

Init ==
  /\ up = TRUE /\ booting = FALSE /\ ip = TRUE
  /\ pc = [r \in Requests |-> "idle"] /\ put = [r \in Requests |-> "none"]
  /\ link = [r \in Requests |-> "none"] /\ reply = [r \in Requests |-> "none"]
  /\ script = FALSE
  /\ sh = [r \in Requests |-> "none"] /\ src = [r \in Requests |-> "none"]
  /\ file = [new |-> "none", installed |-> Factory, previous |-> "none"]
  /\ unsynced = {} /\ faults = 0 /\ trouble = {}
  /\ landed = {}

\* os.Remove and rm -f: whoever still writes the file writes to no name.
Removes ==
  /\ file' = [file EXCEPT !.new = "none"]
  /\ link' = [r \in Requests |-> IF pc[r] = "copy" THEN "gone" ELSE link[r]]

\* A request that ends with an error changes nothing more.
Refuses(r) == pc' = [pc EXCEPT ![r] = "done"] /\ reply' = [reply EXCEPT ![r] = "error"]

Fault(kind) ==
  /\ faults < MaxFaults
  /\ faults' = faults + 1
  /\ trouble' = trouble \cup {kind}

-----------------------------------------------------------------------------
(* pagUpdate.                                                              *)

\* O_TRUNC empties the file under everybody who writes or reads it.
Open(r) ==
  LET writers == {q \in Requests : pc[q] = "copy" /\ link[q] # "gone"} IN
  /\ up /\ pc[r] = "idle"
  /\ \E c \in Offers[r] : put' = [put EXCEPT ![r] = c]
  /\ pc' = [pc EXCEPT ![r] = "copy"]
  /\ file' = [file EXCEPT !.new = "part"]
  /\ link' = [q \in Requests |-> IF q = r THEN IF writers = {} THEN "alone" ELSE "shared"
                                 ELSE IF q \in writers THEN "spoilt" ELSE link[q]]
  /\ trouble' = IF \E q \in Requests : InFlight(q) \/ Runs(q)
                THEN trouble \cup {"overlap"} ELSE trouble
  /\ UNCHANGED <<reply, scriptVars, flashVars, powerVars, up, script, faults>>

\* io.Copy ends. Of two writers, the last to truncate may leave its file whole.
CopyEnds(r) ==
  /\ pc[r] = "copy"
  /\ \E c \in {put[r], "part", file.new} :
       /\ (c = put[r]) => link[r] \in {"alone", "shared"}
       /\ (c = "part") => link[r] \in {"shared", "spoilt"}
       /\ (c \notin {put[r], "part"}) => link[r] = "gone"
       /\ file' = [file EXCEPT !.new = IF link[r] = "gone" THEN @ ELSE c]
  /\ pc' = [pc EXCEPT ![r] = "check"]
  /\ UNCHANGED <<put, link, reply, scriptVars, flashVars, powerVars, up, script, faults, trouble>>

\* validateUpdateBinary; a part may have the headers that elf.Open reads.
Accepted(c) == c \in Images \cup {"part"}
Rejected(c) == c \in {"none", "alien", "part"}

\* Mutant: the file is removed whatever the verdict is.
CheckRemoves(r) ==
  /\ pc[r] = "check"
  /\ Removes
  /\ \/ Accepted(file.new) /\ pc' = [pc EXCEPT ![r] = "write"] /\ UNCHANGED reply
     \/ Rejected(file.new) /\ Refuses(r)
  /\ UNCHANGED <<put, scriptVars, flashVars, powerVars, up, script, faults, trouble>>

\* os.Chmod and the validation, by name: the file may be another's now.
Check(r) ==
  /\ pc[r] = "check"
  /\ \/ /\ Accepted(file.new)
        /\ pc' = [pc EXCEPT ![r] = "write"]
        /\ UNCHANGED <<reply, link, file>>
     \/ /\ Rejected(file.new)
        /\ Removes
        /\ Refuses(r)
  /\ UNCHANGED <<put, scriptVars, flashVars, powerVars, up, script, faults, trouble>>

WriteScript(r) ==
  /\ pc[r] = "write"
  /\ script' = TRUE
  /\ pc' = [pc EXCEPT ![r] = "launch"]
  /\ UNCHANGED <<put, link, reply, scriptVars, flashVars, powerVars, up, file, faults, trouble>>

\* /tmp is full: the new binary stays as it is.
TmpFull(r) ==
  /\ pc[r] \in {"copy", "write"}
  /\ Fault("upload")
  /\ Refuses(r)
  /\ UNCHANGED <<put, link, scriptVars, flashVars, powerVars, up, script, file>>

\* Start succeeds whether or not sh will find the script.
Launch(r) ==
  /\ pc[r] = "launch"
  /\ sh' = [sh EXCEPT ![r] = IF script THEN "sleep" ELSE "ended"]
  /\ pc' = [pc EXCEPT ![r] = "done"]
  /\ reply' = [reply EXCEPT ![r] = "updating"]
  /\ UNCHANGED <<put, link, src, flashVars, powerVars, up, script, file, faults, trouble>>

-----------------------------------------------------------------------------
(* The script.                                                             *)

\* if [ ! -f /tmp/Print2Go.new ]; then exit 1
Wakes(r) ==
  /\ sh[r] = "sleep"
  /\ sh' = [sh EXCEPT ![r] = IF file.new = "none" THEN "ended" ELSE "stop"]
  /\ UNCHANGED <<requestVars, src, flashVars, powerVars, up, script, file, faults, trouble>>

\* The requests in progress end with the server.
Killed == pc' = [r \in Requests |-> IF InFlight(r) THEN "killed" ELSE pc[r]]

\* Mutant: the old binary is not kept.
StopsOnly(r) ==
  /\ sh[r] = "stop"
  /\ up' = FALSE /\ Killed
  /\ sh' = [sh EXCEPT ![r] = "install"]
  /\ UNCHANGED <<put, link, reply, src, flashVars, powerVars, script, file, faults, trouble>>

Stops(r) ==
  /\ sh[r] = "stop"
  /\ up' = FALSE /\ Killed
  /\ sh' = [sh EXCEPT ![r] = "backup"]
  /\ UNCHANGED <<put, link, reply, src, flashVars, powerVars, script, file, faults, trouble>>

\* Mutant: the target is removed first.
CpBeginsAnew(r) ==
  /\ sh[r] \in DOMAIN CpTo /\ src[r] = "none" /\ file[CpFrom[sh[r]]] # "none"
  /\ src' = [src EXCEPT ![r] = file[CpFrom[sh[r]]]]
  /\ file' = [file EXCEPT ![CpTo[sh[r]]] = "none"]
  /\ UNCHANGED <<sh, requestVars, flashVars, powerVars, up, script, faults, trouble>>

\* cp opens both files: it fails without a source, or over a running program.
CpBegins(r) ==
  LET from == CpFrom[sh[r]]  to == CpTo[sh[r]] IN
  /\ sh[r] \in DOMAIN CpTo /\ src[r] = "none"
  /\ \/ /\ file[from] = "none" \/ (to = "installed" /\ up)
        /\ sh' = [sh EXCEPT ![r] = CpFailed[@]]
        /\ UNCHANGED <<src, file, unsynced>>
     \/ /\ file[from] # "none" /\ ~(to = "installed" /\ up)
        /\ src' = [src EXCEPT ![r] = file[from]]
        /\ file' = [file EXCEPT ![to] = "part"]
        /\ unsynced' = unsynced \cup {to}
        /\ UNCHANGED sh
  /\ UNCHANGED <<requestVars, landed, powerVars, up, script, faults, trouble>>

\* The source has changed under the copy, or another cp writes the same file.
Disturbed(r) ==
  \/ file[CpFrom[sh[r]]] # src[r]
  \/ \E q \in Requests \ {r} : src[q] # "none" /\ CpTo[sh[q]] = CpTo[sh[r]]

CpEnds(r) ==
  /\ src[r] # "none"
  /\ \E c \in IF Disturbed(r) THEN {src[r], "part"} ELSE {src[r]} :
       /\ file' = [file EXCEPT ![CpTo[sh[r]]] = c]
       /\ landed' = IF sh[r] = "install" THEN landed \cup {c} ELSE landed
  /\ sh' = [sh EXCEPT ![r] = CpNext[@]]
  /\ src' = [src EXCEPT ![r] = "none"]
  /\ UNCHANGED <<requestVars, unsynced, powerVars, up, script, faults, trouble>>

\* The flash is full: the target stays a part.
CpFails(r) ==
  /\ src[r] # "none"
  /\ Fault(sh[r])
  /\ sh' = [sh EXCEPT ![r] = CpFailed[@]]
  /\ src' = [src EXCEPT ![r] = "none"]
  /\ UNCHANGED <<requestVars, flashVars, powerVars, up, script, file>>

\* Mutant: no sync.
SyncsNothing(r) ==
  /\ sh[r] = "sync"
  /\ sh' = [sh EXCEPT ![r] = "start"]
  /\ UNCHANGED <<requestVars, src, flashVars, powerVars, up, script, file, faults, trouble>>

Syncs(r) ==
  /\ sh[r] = "sync"
  /\ unsynced' = {}
  /\ sh' = [sh EXCEPT ![r] = "start"]
  /\ UNCHANGED <<requestVars, src, landed, powerVars, up, script, file, faults, trouble>>

\* wait_for_ip, then procd executes the program, once: nothing respawns it.
StartsService ==
  /\ ip
  /\ up' = (up \/ file.installed \in Images)

Starts(r) ==
  /\ sh[r] \in {"start", "restart"}
  /\ StartsService
  /\ sh' = [sh EXCEPT ![r] = IF @ = "start" THEN "clean" ELSE "ended"]
  /\ UNCHANGED <<requestVars, src, flashVars, powerVars, script, file, faults, trouble>>

\* The two rm -f, after the server is back.
Cleans(r) ==
  /\ \/ /\ sh[r] = "clean"
        /\ script' = FALSE
        /\ sh' = [sh EXCEPT ![r] = "clear"]
        /\ UNCHANGED <<file, link>>
     \/ /\ sh[r] = "clear"
        /\ Removes
        /\ sh' = [sh EXCEPT ![r] = "ended"]
        /\ UNCHANGED script
  /\ UNCHANGED <<pc, put, reply, src, flashVars, powerVars, up, faults, trouble>>

-----------------------------------------------------------------------------
(* The device (external).                                                  *)

\* Power is lost: "midway" if the script was about to replace or sync.
PowerCut ==
  /\ Fault(IF \E r \in Requests : sh[r] \in {"install", "restore", "sync"} THEN "midway" ELSE "cut")
  /\ up' = FALSE /\ booting' = TRUE /\ script' = FALSE
  /\ Killed
  /\ sh' = [r \in Requests |-> IF Runs(r) THEN "ended" ELSE sh[r]]
  /\ src' = [r \in Requests |-> "none"]
  /\ \E ruined \in SUBSET unsynced :
       file' = [f \in DOMAIN file |-> IF f = "new" THEN "none"
                                      ELSE IF f \in ruined THEN "part" ELSE file[f]]
  /\ unsynced' = {}
  /\ UNCHANGED <<put, link, reply, landed, ip>>

\* START=99 of the service script.
Boots ==
  /\ booting /\ booting' = FALSE
  /\ StartsService
  /\ UNCHANGED <<requestVars, scriptVars, flashVars, ip, script, file, faults, trouble>>

NetworkChanges ==
  /\ ip' = ~ip
  /\ UNCHANGED <<requestVars, scriptVars, flashVars, booting, up, script, file, faults, trouble>>

-----------------------------------------------------------------------------

PagUpdate(r) == \/ Open(r) \/ CopyEnds(r) \/ Check(r) \/ WriteScript(r) \/ TmpFull(r) \/ Launch(r)
ScriptRuns(r) == \/ Wakes(r) \/ Stops(r) \/ CpBegins(r) \/ CpEnds(r) \/ Syncs(r) \/ Cleans(r)
Script(r) == ScriptRuns(r) \/ CpFails(r) \/ Starts(r)

Next == \/ \E r \in Requests : PagUpdate(r) \/ Script(r)
        \/ PowerCut \/ Boots \/ NetworkChanges

Spec == Init /\ [][Next]_vars

\* The scripts run on. wait_for_ip finds an address in the end, although it may
\* come and go. Requests need not get on.
KeepsRunning(r) == WF_vars(ScriptRuns(r)) /\ SF_vars(Starts(r))
DeviceWorks == SF_vars(Boots) /\ WF_vars(NetworkChanges)
Fairness == DeviceWorks /\ \A r \in Requests : KeepsRunning(r)

FairSpec == Spec /\ Fairness

-----------------------------------------------------------------------------
(* Properties.                                                             *)

RequestType ==
  /\ pc \in [Requests -> {"idle", "copy", "check", "write", "launch", "done", "killed"}]
  /\ put \in [Requests -> Images \cup {"none", "alien"}]
  /\ link \in [Requests -> {"none", "alone", "shared", "spoilt", "gone"}]
  /\ reply \in [Requests -> {"none", "error", "updating"}]

ScriptType ==
  /\ sh \in [Requests -> {"none", "sleep", "stop", "backup", "install", "restore", "sync",
                          "start", "restart", "clean", "clear", "ended"}]
  /\ src \in [Requests -> Held]
  /\ \A r \in Requests : src[r] # "none" => sh[r] \in DOMAIN CpTo

FileType ==
  /\ file \in [{"new", "installed", "previous"} -> Held] /\ file["installed"] # "none"
  /\ unsynced \subseteq {"installed", "previous"} /\ landed \subseteq Held

DeviceType ==
  /\ up \in BOOLEAN /\ booting \in BOOLEAN /\ ip \in BOOLEAN /\ script \in BOOLEAN
  /\ faults \in 0 .. MaxFaults
  /\ trouble \subseteq {"overlap", "upload", "backup", "install", "restore", "cut", "midway"}

\* Every variable keeps its type, and there is always some file to start.
TypeOK == RequestType /\ ScriptType /\ FileType /\ DeviceType

\* No script is replacing files.
Settled == \A r \in Requests : sh[r] \notin DOMAIN CpTo

\* "automatically uploads, checks, stops, replaces" (readme-run-openwrt.md:94):
\* what a script leaves installed is a whole program for this machine.
InstalledIsWhole == Settled => file.installed \in Images

\* The mishaps the script survives: a failed upload, a failed backup and a cut
\* outside the replacement, or else failed installations.
Survivable == \/ trouble \subseteq {"upload", "backup", "cut"}
              \/ trouble \subseteq {"upload", "install"}

\* The same, as far as the code keeps it: no mishap but an overlap of two
\* updates, a cut midway or a combination leaves anything else installed.
InstalledIsWholeAfter == Survivable => InstalledIsWhole

\* At every moment the flash holds a whole program, the installed one or the
\* one to go back to, unless the backup that nobody looks at failed too.
WholeVersionKept ==
  Survivable /\ "backup" \notin trouble =>
    file.installed \in Images \/ file.previous \in Images

\* A service that was stopped runs again, if there is a program to run.
ServiceReturns == []<>(up \/ file.installed \notin Images)

\* "updating" is true: the uploaded image is installed, if nothing goes wrong.
UpdateCompletes ==
  \A r \in Requests :
    []<>(reply[r] = "updating" => put[r] \in landed \/ ~(trouble \subseteq {"upload"}))
=============================================================================
