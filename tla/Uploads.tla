------------------------------ MODULE Uploads ------------------------------
(***************************************************************************)
(* Files: localUpload stores the file of a request, opens it again, counts *)
(* its lines and starts a print, whose goroutine reads the whole file and  *)
(* goes through its lines. Several requests may use the same file name.    *)
(*                                                                         *)
(* A file is a sequence of blocks of equal size, one line each. A write    *)
(* beyond the end leaves a hole, which reads as zero bytes: they are glued *)
(* to the word that follows. The job manager is reduced to whether a job   *)
(* is active (module JobManager has the rest), and the lines of a print    *)
(* are acknowledged one after the other.                                   *)
(***************************************************************************)
EXTENDS GcodeParser, FiniteSets

CONSTANTS
  Requests,   \* calls of localUpload
  FileName,   \* the path each of them stores to
  Bodies,     \* the files each of them may bring
  Printing,   \* the requests with print=true
  Hole,       \* a block nobody wrote
  MaxFaults   \* bound: files that cannot be created, disks that are full

ASSUME UploadsAssumption ==
  /\ Printing \subseteq Requests
  /\ DOMAIN FileName = Requests
  /\ \A u \in Requests : Bodies[u] \subseteq Seq(Seq(Tokens))
  /\ Hole \notin Seq(Tokens)
  /\ MaxFaults \in Nat

Paths == {FileName[u] : u \in Requests}

VARIABLES
  body,       \* the file of each request
  disk,       \* what each path holds
  upc,        \* where each request is
  woff,       \* blocks its UploadFile has written
  reply,      \* what the client was told
  streams,    \* requests whose read handle is open
  roff,       \* position of that handle
  rpc,        \* where runPrint is
  buf,        \* what io.ReadAll has read; then the lines of it
  line, sent, \* lines the scanner has returned, commands acknowledged
  active,     \* jm.status.Active
  faults,
  rejected,   \* history: requests whose StartPrint was refused
  short,      \* history: requests whose io.Copy failed
  disturbed   \* history: another request wrote the path meanwhile

requestVars == <<body, upc, reply>>
writeVars   == <<disk, woff, faults, short, disturbed>>
readVars    == <<streams, roff>>
runVars     == <<rpc, buf, line, sent, active>>
vars == <<requestVars, writeVars, readVars, runVars, rejected>>

Init ==
  /\ body \in {b \in [Requests -> UNION {Bodies[u] : u \in Requests}] :
                 \A u \in Requests : b[u] \in Bodies[u]}
  /\ disk = [p \in Paths |-> <<>>]
  /\ upc = [u \in Requests |-> "new"]
  /\ woff = [u \in Requests |-> 0]
  /\ reply = [u \in Requests |-> "none"]
  /\ streams = {}
  /\ roff = [u \in Requests |-> 0]
  /\ rpc = [u \in Requests |-> "none"]
  /\ buf = [u \in Requests |-> <<>>]
  /\ line = [u \in Requests |-> 0] /\ sent = [u \in Requests |-> 0]
  /\ active = FALSE
  /\ faults = 0
  /\ rejected = {} /\ short = {}
  /\ disturbed = [u \in Requests |-> FALSE]

Contents(u) == disk[FileName[u]]
Step(u, from, to) == upc[u] = from /\ upc' = [upc EXCEPT ![u] = to]

-----------------------------------------------------------------------------
(* Storing.                                                                *)

\* The form is parsed and the size is checked before anything is stored.
Receives(u) ==
  /\ \/ Step(u, "new", "create") /\ UNCHANGED reply
     \/ Step(u, "new", "left") /\ reply' = [reply EXCEPT ![u] = "error"]
  /\ UNCHANGED <<body, writeVars, readVars, runVars, rejected>>

\* A change of the path of u disturbs the other requests that have created
\* their file and not read it back in full.
Disturbing(u) ==
  disturbed' = [v \in Requests |->
    \/ disturbed[v]
    \/ /\ v # u /\ FileName[v] = FileName[u]
       /\ upc[v] \in {"copy", "reply", "count", "start"} \/ rpc[v] = "read"]

CreatesWith(u, contents) ==
  /\ Step(u, "create", "copy")
  /\ disk' = [disk EXCEPT ![FileName[u]] = contents]
  /\ Disturbing(u)
  /\ UNCHANGED <<body, reply, woff, faults, short, readVars, runVars, rejected>>

\* Mutant: an existing file is not cut to nothing.
CreatesOver(u) == CreatesWith(u, Contents(u))

\* os.Create
Creates(u) == CreatesWith(u, <<>>)

\* Mutant: the handler goes on after the error.
CreateFailsGoesOn(u) ==
  /\ faults < MaxFaults /\ faults' = faults + 1
  /\ Step(u, "create", "count")
  /\ reply' = [reply EXCEPT ![u] = "error"]
  /\ streams' = streams \cup {u}
  /\ UNCHANGED <<body, disk, woff, short, disturbed, roff, runVars, rejected>>

\* "Failed to store file"
CreateFails(u) ==
  /\ faults < MaxFaults /\ faults' = faults + 1
  /\ Step(u, "create", "left")
  /\ reply' = [reply EXCEPT ![u] = "error"]
  /\ UNCHANGED <<body, disk, woff, short, disturbed, readVars, runVars, rejected>>

Written(file, n, block) ==
  [i \in 1 .. (IF n > Len(file) THEN n ELSE Len(file)) |->
     IF i = n THEN block ELSE IF i <= Len(file) THEN file[i] ELSE Hole]

\* io.Copy writes the next block where the handle of this request stands.
Copies(u) ==
  /\ upc[u] = "copy" /\ woff[u] < Len(body[u])
  /\ woff' = [woff EXCEPT ![u] = @ + 1]
  /\ disk' = [disk EXCEPT ![FileName[u]] =
                Written(@, woff[u] + 1, body[u][woff[u] + 1])]
  /\ Disturbing(u)
  /\ UNCHANGED <<requestVars, faults, short, readVars, runVars, rejected>>

\* The copy ends, at the end of the file or with an error nobody looks at.
CopyEnds(u) ==
  /\ Step(u, "copy", "reply")
  /\ \/ woff[u] = Len(body[u]) /\ UNCHANGED <<faults, short>>
     \/ /\ woff[u] < Len(body[u]) /\ faults < MaxFaults
        /\ faults' = faults + 1 /\ short' = short \cup {u}
  /\ UNCHANGED <<body, reply, disk, woff, disturbed, readVars, runVars, rejected>>

-----------------------------------------------------------------------------
(* Reading back, and starting the print.                                   *)

\* The client is told "done"; a print needs the file again.
Replies(u) ==
  /\ Step(u, "reply", IF u \in Printing THEN "count" ELSE "left")
  /\ reply' = [reply EXCEPT ![u] = "done"]
  /\ streams' = IF u \in Printing THEN streams \cup {u} ELSE streams
  /\ UNCHANGED <<body, roff, writeVars, runVars, rejected>>

AtEnd(u) == roff[u] >= Len(Contents(u))
NextBlock(u) == Contents(u)[roff[u] + 1]
TooLong(u) == NextBlock(u) # Hole /\ Position(NextBlock(u), "huge") > 0

\* validLineCounter reads on.
Counts(u) ==
  /\ upc[u] = "count" /\ ~AtEnd(u) /\ ~TooLong(u)
  /\ roff' = [roff EXCEPT ![u] = @ + 1]
  /\ UNCHANGED <<requestVars, writeVars, streams, runVars, rejected>>

\* A line longer than the counter's buffer: "Failed to read file we just uploaded".
CountFails(u) ==
  /\ ~AtEnd(u) /\ TooLong(u)
  /\ Step(u, "count", "left")
  /\ streams' = streams \ {u}
  /\ UNCHANGED <<body, reply, roff, writeVars, runVars, rejected>>

\* Mutant: the file pointer is not reset.
CountEndsThere(u) ==
  /\ AtEnd(u)
  /\ Step(u, "count", "start")
  /\ UNCHANGED <<body, reply, writeVars, readVars, runVars, rejected>>

\* fh.Seek(0, io.SeekStart)
CountEnds(u) ==
  /\ AtEnd(u)
  /\ Step(u, "count", "start")
  /\ roff' = [roff EXCEPT ![u] = 0]
  /\ UNCHANGED <<body, reply, streams, writeVars, runVars, rejected>>

\* StartPrint refuses while a job is active, or while there is no printer;
\* nobody closes the stream then.
Starts(u) ==
  /\ Step(u, "start", "left")
  /\ \/ /\ ~active
        /\ active' = TRUE
        /\ rpc' = [rpc EXCEPT ![u] = "read"]
        /\ UNCHANGED rejected
     \/ /\ rejected' = rejected \cup {u}
        /\ UNCHANGED <<active, rpc>>
  /\ UNCHANGED <<body, reply, writeVars, readVars, buf, line, sent>>

-----------------------------------------------------------------------------
(* The print.                                                              *)

\* The zero bytes of a hole spoil the word after it.
Shown(blocks, i) ==
  IF i > 1 /\ blocks[i - 1] = Hole /\ blocks[i] # <<>> /\ blocks[i][1] = "cmd"
  THEN <<"word">> \o Tail(blocks[i]) ELSE blocks[i]

\* The lines of a buffer; a hole has no end of line.
LinesOf(blocks) ==
  LET lines[i \in 0 .. Len(blocks)] ==
        IF i = 0 THEN <<>>
        ELSE IF blocks[i] = Hole THEN lines[i - 1] ELSE Append(lines[i - 1], Shown(blocks, i))
  IN  lines[Len(blocks)]

\* io.ReadAll; at the end of the file the buffer is split into lines.
Reads(u) ==
  /\ rpc[u] = "read"
  /\ IF AtEnd(u)
     THEN /\ rpc' = [rpc EXCEPT ![u] = "send"]
          /\ buf' = [buf EXCEPT ![u] = LinesOf(@)]
          /\ UNCHANGED roff
     ELSE /\ roff' = [roff EXCEPT ![u] = @ + 1]
          /\ buf' = [buf EXCEPT ![u] = Append(@, NextBlock(u))]
          /\ UNCHANGED rpc
  /\ UNCHANGED <<requestVars, writeVars, streams, line, sent, active, rejected>>

\* The total of a print: lines that are not blank.
Total(u) == Cardinality({i \in DOMAIN buf[u] : buf[u][i] # <<>>})

\* Mutant: every line counts as sent.
SendsEvery(u) ==
  /\ rpc[u] = "send" /\ line[u] < Len(buf[u])
  /\ line' = [line EXCEPT ![u] = @ + 1]
  /\ sent' = [sent EXCEPT ![u] = @ + 1]
  /\ UNCHANGED <<requestVars, writeVars, readVars, rpc, buf, active, rejected>>

\* The scanner returns a line; one with a command is sent and acknowledged.
Sends(u) ==
  /\ rpc[u] = "send" /\ line[u] < Len(buf[u])
  /\ line' = [line EXCEPT ![u] = @ + 1]
  /\ sent' = [sent EXCEPT ![u] = IF HasCommand(buf[u][line[u] + 1]) THEN @ + 1 ELSE @]
  /\ UNCHANGED <<requestVars, writeVars, readVars, rpc, buf, active, rejected>>

\* Mutant: runPrint does not close the stream.
RunEndsOpen(u) ==
  /\ rpc[u] = "send"
  /\ rpc' = [rpc EXCEPT ![u] = "ended"]
  /\ active' = FALSE
  /\ UNCHANGED <<requestVars, writeVars, readVars, buf, line, sent, rejected>>

\* The end of the file, an error or a cancelled context; runPrint closes the stream.
RunEnds(u) ==
  /\ rpc[u] = "send"
  /\ rpc' = [rpc EXCEPT ![u] = "ended"]
  /\ active' = FALSE
  /\ streams' = streams \ {u}
  /\ UNCHANGED <<requestVars, writeVars, roff, buf, line, sent, rejected>>

\* Cancel ends the job before its goroutine has ended.
Cancel ==
  /\ active /\ active' = FALSE
  /\ UNCHANGED <<requestVars, writeVars, readVars, rpc, buf, line, sent, rejected>>

-----------------------------------------------------------------------------

LocalUpload(u) ==
  \/ Creates(u) \/ CreateFails(u) \/ Copies(u) \/ CopyEnds(u) \/ Replies(u)
  \/ Counts(u) \/ CountFails(u) \/ CountEnds(u) \/ Starts(u)

RunPrint(u) == Reads(u) \/ Sends(u) \/ RunEnds(u)

Next ==
  \/ \E u \in Requests : Receives(u) \/ LocalUpload(u) \/ RunPrint(u)
  \/ Cancel

Spec == Init /\ [][Next]_vars

-----------------------------------------------------------------------------
(* Properties.                                                             *)

Blocks == Seq(Tokens) \cup {Hole}

\* Every variable keeps its type; a read handle belongs to a request that asked
\* for a print and was told that its file is stored; lines have no holes.
TypeOK ==
  /\ \A u \in Requests : body[u] \in Bodies[u]
  /\ \A p \in Paths : \A i \in DOMAIN disk[p] : disk[p][i] \in Blocks
  /\ upc \in [Requests -> {"new", "create", "copy", "reply", "count", "start", "left"}]
  /\ woff \in [Requests -> Nat] /\ roff \in [Requests -> Nat]
  /\ reply \in [Requests -> {"none", "error", "done"}]
  /\ streams \subseteq {u \in Printing : reply[u] = "done"}
  /\ rpc \in [Requests -> {"none", "read", "send", "ended"}]
  /\ \A u \in Requests : \A i \in DOMAIN buf[u] : buf[u][i] \in Blocks
  /\ \A u \in Requests : rpc[u] \in {"send", "ended"} => \A i \in DOMAIN buf[u] : buf[u][i] # Hole
  /\ line \in [Requests -> Nat] /\ sent \in [Requests -> Nat]
  /\ active \in BOOLEAN /\ faults \in 0 .. MaxFaults
  /\ rejected \cup short \subseteq Requests /\ disturbed \in [Requests -> BOOLEAN]

Alive(u) == rpc[u] \in {"read", "send"}

\* A print goes through exactly the file that its request brought, unless the
\* disk was full or another request wrote the same path in the meantime; what
\* earlier uploads of that name left behind never shows.
PrintsItsFile ==
  \A u \in Requests \ short :
    rpc[u] \in {"send", "ended"} /\ ~disturbed[u] => buf[u] = body[u]

\* A path whose uploads are over holds one of them whole, unless two of them
\* overlapped or the disk was full: files are replaced, not merged.
FileIsWhole ==
  \A u \in Requests :
    LET same == {v \in Requests : FileName[v] = FileName[u]}
        done == {v \in same : upc[v] \in {"reply", "count", "start", "left"}
                              /\ reply[v] # "error"}
    IN  done # {} /\ same \cap short = {} /\ (\A v \in same : ~disturbed[v])
          /\ (\A v \in same : upc[v] # "copy")
        => \E v \in done : Contents(u) = body[v]

\* The open read handles are those of requests on their way to StartPrint and
\* of prints that run; only a refused StartPrint leaves one behind.
StreamsAccounted ==
  streams = {u \in Printing : upc[u] \in {"count", "start"}}
              \cup {u \in Requests : Alive(u)} \cup rejected

\* A print never acknowledges more commands than its total, so that the
\* percentage stays at or below 100: a line with a command is never blank.
ProgressBounded == \A u \in Requests : Alive(u) => sent[u] <= Total(u)

\* The lines that are sent are those with a command outside their comments: no
\* command next to a comment is ever dropped, and a comment is never printed, in
\* lines without a closing parenthesis that nothing opens.
CommandsFound ==
  \A u \in Requests : rpc[u] = "send" =>
    \A i \in DOMAIN buf[u] :
      /\ CommandOutside(buf[u][i]) => HasCommand(buf[u][i])
      /\ ~HasStray(CutAtSemicolon(buf[u][i])) =>
           (HasCommand(buf[u][i]) => CommandOutside(buf[u][i]))
=============================================================================
