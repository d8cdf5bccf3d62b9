--------------------------- MODULE UploadsProofs ---------------------------
(***************************************************************************)
(* The types of Uploads, its read handles, what its prints read and send,  *)
(* and how far they say they are, for any requests, file names and files.  *)
(***************************************************************************)
EXTENDS Uploads, GcodeParserProofs, FiniteSetTheorems

ProgramCounters ==
  /\ upc \in [Requests -> {"new", "create", "copy", "reply", "count", "start", "left"}]
  /\ rpc \in [Requests -> {"none", "read", "send", "ended"}]
  /\ streams \subseteq Requests /\ rejected \subseteq Requests

\* Only a request that asked for it opens its file again; it has left
\* localUpload before its print runs or is refused, and never both happen.
LeftFirst ==
  \A u \in Requests :
    /\ upc[u] \in {"count", "start"} => u \in Printing
    /\ rpc[u] # "none" \/ u \in rejected => upc[u] = "left"
    /\ u \in rejected => rpc[u] = "none"

IInv == ProgramCounters /\ LeftFirst /\ StreamsAccounted

handleVars == <<upc, rpc, streams, rejected>>

\* The invariant holds at the start.
LEMMA InitHandles == Init => IInv
<1> SUFFICES ASSUME Init PROVE IInv
  OBVIOUS
<1>1. /\ upc = [u \in Requests |-> "new"] /\ rpc = [u \in Requests |-> "none"]
      /\ streams = {} /\ rejected = {}
  BY DEF Init
<1>2. Printing \subseteq Requests
  BY UploadsAssumption
<1> QED BY <1>1, <1>2 DEF IInv, ProgramCounters, LeftFirst, StreamsAccounted, Alive

\* What leaves the program counters and the handles alone keeps the invariant.
LEMMA Unmoved == IInv /\ UNCHANGED handleVars => IInv'
  BY DEF IInv, ProgramCounters, LeftFirst, StreamsAccounted, Alive, handleVars

\* The steps between two program counters that hold no handle.
LEMMA MovesWithoutHandle ==
  ASSUME IInv, NEW u \in Requests, NEW from, NEW to,
         from \in {"new", "create", "copy", "reply"},
         to \in {"create", "copy", "reply", "left"},
         Step(u, from, to), UNCHANGED <<rpc, streams, rejected>>
  PROVE  IInv'
  BY DEF IInv, ProgramCounters, LeftFirst, StreamsAccounted, Alive, Step

\* The steps of storing.
LEMMA StoringKeeps ==
  ASSUME IInv, NEW u \in Requests,
         Receives(u) \/ Creates(u) \/ CreateFails(u) \/ Copies(u) \/ CopyEnds(u)
  PROVE  IInv'
<1>1. CASE Receives(u)
  BY <1>1, MovesWithoutHandle DEF Receives, readVars, runVars
<1>2. CASE Creates(u)
  BY <1>2, MovesWithoutHandle DEF Creates, CreatesWith, readVars, runVars
<1>3. CASE CreateFails(u)
  BY <1>3, MovesWithoutHandle DEF CreateFails, readVars, runVars
<1>4. CASE Copies(u)
  BY <1>4, Unmoved DEF Copies, requestVars, readVars, runVars, handleVars
<1>5. CASE CopyEnds(u)
  BY <1>5, MovesWithoutHandle DEF CopyEnds, readVars, runVars
<1> QED BY <1>1, <1>2, <1>3, <1>4, <1>5

\* The steps of reading back, and StartPrint.
LEMMA ReadingKeeps ==
  ASSUME IInv, NEW u \in Requests,
         Replies(u) \/ Counts(u) \/ CountFails(u) \/ CountEnds(u) \/ Starts(u)
  PROVE  IInv'
<1> USE DEF IInv, ProgramCounters, LeftFirst, StreamsAccounted, Alive
<1>1. CASE Replies(u)
  <2>1. CASE u \in Printing
    BY <1>1, <2>1 DEF Replies, Step, runVars
  <2>2. CASE u \notin Printing
    BY <1>1, <2>2 DEF Replies, Step, runVars
  <2> QED BY <2>1, <2>2
<1>2. CASE Counts(u)
  BY <1>2, Unmoved DEF Counts, requestVars, runVars, handleVars
<1>3. CASE CountFails(u)
  BY <1>3 DEF CountFails, Step, runVars
<1>4. CASE CountEnds(u)
  BY <1>4 DEF CountEnds, Step, runVars
<1>5. CASE Starts(u)
  <2>1. /\ upc[u] = "start" /\ upc' = [upc EXCEPT ![u] = "left"]
        /\ UNCHANGED streams
    BY <1>5 DEF Starts, Step, readVars
  <2>2. CASE rpc' = [rpc EXCEPT ![u] = "read"] /\ UNCHANGED rejected
    BY <2>1, <2>2, UploadsAssumption
  <2>3. CASE rejected' = rejected \cup {u} /\ UNCHANGED rpc
    <3>1. u \in streams
      BY <2>1, <2>3
    <3> QED BY <2>1, <2>3, <3>1, UploadsAssumption
  <2> QED BY <1>5, <2>2, <2>3 DEF Starts
<1> QED BY <1>1, <1>2, <1>3, <1>4, <1>5

\* The steps of a print.
LEMMA PrintKeeps ==
  ASSUME IInv, NEW u \in Requests, RunPrint(u)
  PROVE  IInv'
<1> USE DEF IInv, ProgramCounters, LeftFirst, StreamsAccounted, Alive
<1>1. CASE Reads(u)
  <2>1. /\ rpc[u] = "read" /\ UNCHANGED <<upc, streams, rejected>>
        /\ rpc' = rpc \/ rpc' = [rpc EXCEPT ![u] = "send"]
    BY <1>1 DEF Reads, requestVars
  <2> QED BY <2>1
<1>2. CASE Sends(u)
  BY <1>2, Unmoved DEF Sends, requestVars, readVars, handleVars
<1>3. CASE RunEnds(u)
  <2>1. u \notin rejected /\ upc[u] = "left" /\ rpc[u] = "send"
    BY <1>3 DEF RunEnds
  <2>2. /\ rpc' = [rpc EXCEPT ![u] = "ended"] /\ streams' = streams \ {u}
        /\ UNCHANGED <<upc, rejected>>
    BY <1>3 DEF RunEnds, requestVars
  <2> QED BY <2>1, <2>2
<1> QED BY <1>1, <1>2, <1>3 DEF RunPrint

\* Every step keeps the invariant.
LEMMA NextHandles == IInv /\ [Next]_vars => IInv'
<1> SUFFICES ASSUME IInv, [Next]_vars PROVE IInv'
  OBVIOUS
<1>1. ASSUME NEW u \in Requests, Receives(u) \/ LocalUpload(u) PROVE IInv'
  BY <1>1, StoringKeeps, ReadingKeeps DEF LocalUpload
<1>2. ASSUME NEW u \in Requests, RunPrint(u) PROVE IInv'
  BY <1>2, PrintKeeps
<1>3. CASE Cancel
  BY <1>3, Unmoved DEF Cancel, requestVars, readVars, handleVars
<1>4. CASE UNCHANGED vars
  BY <1>4, Unmoved DEF vars, requestVars, readVars, runVars, handleVars
<1> QED BY <1>1, <1>2, <1>3, <1>4 DEF Next

\* localUpload and runPrint account for every read handle: one that no request
\* and no running print uses was left behind by a refused StartPrint.
THEOREM StreamsAccountedAlways == Spec => []StreamsAccounted
<1>1. IInv => StreamsAccounted
  BY DEF IInv
<1> QED BY InitHandles, NextHandles, <1>1, PTL DEF Spec

-----------------------------------------------------------------------------
(* What a request stored, and what its print reads.                        *)

Variables ==
  /\ body \in [Requests -> Seq(Seq(Tokens))]
  /\ disk \in [Paths -> Seq(Blocks)]
  /\ woff \in [Requests -> Nat] /\ roff \in [Requests -> Nat]
  /\ reply \in [Requests -> {"none", "error", "done"}]
  /\ buf = [u \in Requests |-> buf[u]]
  /\ short \subseteq Requests /\ disturbed \in [Requests -> BOOLEAN]

\* A file is written from its start, and read from its start twice.
FromStart ==
  \A u \in Requests :
    /\ upc[u] \in {"new", "create"} => woff[u] = 0
    /\ upc[u] \in {"new", "create", "copy", "reply"} => reply[u] = "none"
    /\ upc[u] \in {"new", "create", "copy", "reply", "start"} => roff[u] = 0
    /\ rpc[u] = "none" => buf[u] = <<>>

\* The first n blocks of a sequence are those of the file of u.
Begins(u, s, n) == n <= Len(body[u]) /\ \A i \in 1 .. n : s[i] = body[u][i]

\* As long as the disk had room and nobody else wrote the path of u, the path holds
\* what u has written so far, then its whole file, and its print reads just that.
Stored(u) ==
  /\ upc[u] = "copy" => Len(Contents(u)) = woff[u] /\ Begins(u, Contents(u), woff[u])
  /\ upc[u] \in {"reply", "count", "start"} \/ rpc[u] = "read" => Contents(u) = body[u]

ReadBack(u) ==
  /\ rpc[u] = "read" => buf[u] \in Seq(Blocks) /\ Len(buf[u]) = roff[u]
                          /\ Begins(u, buf[u], roff[u])
  /\ rpc[u] \in {"send", "ended"} => buf[u] = body[u]

OwnFile ==
  \A u \in Requests \ short : ~disturbed[u] => Stored(u) /\ ReadBack(u)

FileInv == IInv /\ Variables /\ FromStart /\ OwnFile

Parts == <<disk, woff, roff, buf>>

\* The invariant about files holds at the start.
LEMMA InitFiles == Init => FileInv
<1> SUFFICES ASSUME Init PROVE FileInv
  OBVIOUS
<1>1. body \in [Requests -> Seq(Seq(Tokens))]
  <2>1. /\ body \in [Requests -> UNION {Bodies[u] : u \in Requests}]
        /\ \A u \in Requests : body[u] \in Bodies[u]
    BY DEF Init
  <2>2. \A u \in Requests : body[u] \in Seq(Seq(Tokens))
    BY <2>1, UploadsAssumption
  <2> QED BY <2>1, <2>2
<1>2. disk \in [Paths -> Seq(Blocks)]
  <2>1. <<>> \in Seq(Blocks)
    OBVIOUS
  <2> QED BY <2>1 DEF Init
<1>3. Variables
  BY <1>1, <1>2 DEF Init, Variables
<1>4. FromStart /\ OwnFile
  BY DEF Init, FromStart, OwnFile, Stored, ReadBack
<1> QED BY <1>3, <1>4, InitHandles DEF FileInv

\* A write within a file or behind its end.
LEMMA WrittenIs ==
  ASSUME NEW file \in Seq(Blocks), NEW n \in Nat \ {0}, NEW block \in Blocks
  PROVE  /\ Written(file, n, block) \in Seq(Blocks)
         /\ n = Len(file) + 1 =>
              /\ Len(Written(file, n, block)) = n
              /\ Written(file, n, block)[n] = block
              /\ \A i \in 1 .. n - 1 : Written(file, n, block)[i] = file[i]
<1> DEFINE m == IF n > Len(file) THEN n ELSE Len(file)
           cell(i) == IF i = n THEN block ELSE IF i <= Len(file) THEN file[i] ELSE Hole
<1>1. m \in Nat /\ Written(file, n, block) = [i \in 1 .. m |-> cell(i)]
  BY DEF Written
<1>2. \A i \in 1 .. m : cell(i) \in Blocks
  BY ElementOfSeq DEF Blocks
<1>3. Written(file, n, block) \in Seq(Blocks) /\ Len(Written(file, n, block)) = m
  <2> HIDE DEF m, cell
  <2>1. [i \in 1 .. m |-> cell(i)] \in Seq(Blocks)
    BY <1>1, <1>2, IsASeq
  <2>2. Len([i \in 1 .. m |-> cell(i)]) = m
    BY <1>1
  <2> QED BY <1>1, <2>1, <2>2
<1> QED BY <1>1, <1>3

\* A block of the file of a request is a block.
LEMMA BodyBlock ==
  ASSUME Variables, NEW u \in Requests, NEW i \in 1 .. Len(body[u])
  PROVE  body[u][i] \in Blocks /\ body[u][i] # Hole
<1>1. body[u] \in Seq(Seq(Tokens))
  BY DEF Variables
<1>2. body[u][i] \in Seq(Tokens)
  BY <1>1, ElementOfSeq
<1> QED BY <1>2, UploadsAssumption DEF Blocks

\* A file of a request is a sequence of blocks.
LEMMA BodyBlocks ==
  ASSUME Variables, NEW u \in Requests
  PROVE  body[u] \in Seq(Blocks)
<1>1. body[u] \in Seq(Seq(Tokens)) /\ Seq(Tokens) \subseteq Blocks
  BY DEF Variables, Blocks
<1> QED BY <1>1, SeqMonotonic

\* Whoever is disturbed by a write of u excuses itself.
LEMMA OthersKeep ==
  ASSUME FileInv, NEW u \in Requests, NEW w \in Requests, w # u,
         Disturbing(u), NEW contents, disk' = [disk EXCEPT ![FileName[u]] = contents],
         UNCHANGED <<body, rpc, buf, roff>>, upc'[w] = upc[w], woff'[w] = woff[w],
         w \notin short, ~disturbed'[w]
  PROVE  Stored(w)' /\ ReadBack(w)'
<1>1. FileName[u] \in Paths /\ FileName[w] \in Paths /\ DOMAIN disk = Paths
  BY DEF FileInv, Variables, Paths
<1>2. ~disturbed[w] /\ Stored(w) /\ ReadBack(w)
  BY DEF FileInv, OwnFile, Disturbing
<1>3. ReadBack(w)'
  BY <1>2 DEF ReadBack, Begins
<1>4. CASE FileName[w] # FileName[u]
  <2>1. Contents(w)' = Contents(w)
    BY <1>1, <1>4 DEF Contents
  <2> QED BY <1>2, <1>3, <2>1 DEF Stored, Begins
<1>5. CASE FileName[w] = FileName[u]
  <2>1. upc[w] \notin {"copy", "reply", "count", "start"} /\ rpc[w] # "read"
    BY <1>5 DEF Disturbing
  <2> QED BY <1>3, <2>1 DEF Stored
<1> QED BY <1>4, <1>5

Files == Variables /\ FromStart /\ OwnFile

\* What leaves the files, the positions and the buffers alone.
LEMMA SameFiles ==
  ASSUME FileInv, UNCHANGED <<body, disk, woff, roff, buf, reply, short, disturbed, upc, rpc>>
  PROVE  Files'
<1>1. Variables' /\ FromStart'
  BY DEF FileInv, Variables, FromStart
<1>2. OwnFile'
  BY DEF FileInv, OwnFile, Stored, ReadBack, Begins, Contents
<1> QED BY <1>1, <1>2 DEF Files

\* The steps of storing.
LEMMA StoringFiles ==
  ASSUME FileInv, NEW u \in Requests,
         Receives(u) \/ Creates(u) \/ CreateFails(u) \/ Copies(u) \/ CopyEnds(u)
  PROVE  Files'
<1> USE DEF FileInv, IInv, ProgramCounters
<1>0. /\ FileName[u] \in Paths /\ disk[FileName[u]] \in Seq(Blocks)
      /\ Contents(u) = disk[FileName[u]]
  BY DEF Paths, Variables, Contents
<1>1. CASE Receives(u) \/ CreateFails(u)
  <2>1. /\ UNCHANGED <<body, disk, woff, roff, buf, short, disturbed, rpc>>
        /\ upc[u] \in {"new", "create"}
        /\ \/ upc' = [upc EXCEPT ![u] = "create"] /\ UNCHANGED reply
           \/ upc' = [upc EXCEPT ![u] = "left"] /\ reply' = [reply EXCEPT ![u] = "error"]
    BY <1>1 DEF Receives, CreateFails, Step, writeVars, readVars, runVars
  <2>2. Variables' /\ FromStart'
    BY <2>1 DEF Variables, FromStart
  <2>3. \A w \in Requests : upc'[w] \in {"copy", "reply", "count", "start"} => upc'[w] = upc[w]
    BY <2>1
  <2>4. OwnFile'
    BY <2>1, <2>3 DEF OwnFile, Stored, ReadBack, Begins, Contents
  <2> QED BY <2>2, <2>4 DEF Files
<1>2. CASE Creates(u)
  <2>1. /\ upc[u] = "create" /\ upc' = [upc EXCEPT ![u] = "copy"]
        /\ disk' = [disk EXCEPT ![FileName[u]] = <<>>] /\ Disturbing(u)
        /\ UNCHANGED <<body, reply, woff, short, roff, rpc, buf>>
    BY <1>2 DEF Creates, CreatesWith, Step, readVars, runVars
  <2>2. Variables'
    <3>1. disk' \in [Paths -> Seq(Blocks)]
      <4>1. <<>> \in Seq(Blocks)
        OBVIOUS
      <4> QED BY <2>1, <4>1 DEF Variables
    <3>2. disturbed' \in [Requests -> BOOLEAN]
      BY <2>1 DEF Disturbing, Variables
    <3> QED BY <2>1, <3>1, <3>2 DEF Variables
  <2>3. FromStart'
    BY <2>1 DEF FromStart
  <2>4. Stored(u)' /\ ReadBack(u)'
    <3>1. Contents(u)' = <<>> /\ woff'[u] = 0 /\ upc'[u] = "copy" /\ rpc'[u] = "none"
      BY <1>0, <2>1 DEF Contents, Variables, FromStart, LeftFirst
    <3>2. body'[u] \in Seq(Seq(Tokens))
      BY <2>1 DEF Variables
    <3> QED BY <3>1, <3>2 DEF Stored, ReadBack, Begins
  <2>5. ASSUME NEW w \in Requests \ short', ~disturbed'[w] PROVE Stored(w)' /\ ReadBack(w)'
    BY <2>1, <2>4, <2>5, OthersKeep
  <2> QED BY <2>2, <2>3, <2>5 DEF Files, OwnFile
<1>3. CASE Copies(u)
  <2> DEFINE n == woff[u] + 1
             block == body[u][n]
  <2>1. /\ upc[u] = "copy" /\ woff[u] < Len(body[u]) /\ woff' = [woff EXCEPT ![u] = n]
        /\ disk' = [disk EXCEPT ![FileName[u]] = Written(Contents(u), n, block)]
        /\ Disturbing(u)
        /\ UNCHANGED <<body, reply, short, roff, rpc, buf, upc>>
    BY <1>3 DEF Copies, Contents, requestVars, readVars, runVars
  <2>2. n \in Nat \ {0} /\ n \in 1 .. Len(body[u])
    <3>1. woff[u] \in Nat /\ Len(body[u]) \in Nat
      BY DEF Variables
    <3> QED BY <2>1, <3>1
  <2>3. block \in Blocks
    BY <2>2, BodyBlock
  <2> HIDE DEF n, block
  <2>4. Written(Contents(u), n, block) \in Seq(Blocks)
    BY <1>0, <2>2, <2>3, WrittenIs
  <2>5. Variables'
    <3>1. disk' \in [Paths -> Seq(Blocks)]
      BY <2>1, <2>4 DEF Variables
    <3>2. disturbed' \in [Requests -> BOOLEAN]
      BY <2>1 DEF Disturbing, Variables
    <3> QED BY <2>1, <2>2, <3>1, <3>2 DEF Variables
  <2>6. FromStart'
    BY <2>1 DEF FromStart
  <2>7. ASSUME u \notin short, ~disturbed'[u] PROVE Stored(u)' /\ ReadBack(u)'
    <3>1. ~disturbed[u]
      BY <2>1, <2>7 DEF Disturbing
    <3>2. Len(Contents(u)) = woff[u] /\ \A i \in 1 .. woff[u] : Contents(u)[i] = body[u][i]
      BY <2>1, <2>7, <3>1 DEF OwnFile, Stored, Begins
    <3>3. Contents(u)' = Written(Contents(u), n, block) /\ woff'[u] = n
      BY <1>0, <2>1 DEF Contents, Variables
    <3>4. Len(Contents(u)') = n /\ Contents(u)'[n] = body[u][n]
          /\ \A i \in 1 .. n - 1 : Contents(u)'[i] = Contents(u)[i]
      <4> DEFINE after == Written(Contents(u), n, block)
      <4>1. n = Len(Contents(u)) + 1
        BY <3>2 DEF n
      <4>2. Len(after) = n /\ after[n] = block
            /\ \A i \in 1 .. n - 1 : after[i] = Contents(u)[i]
        <5>1. Contents(u) \in Seq(Blocks) /\ n \in Nat \ {0}
          BY <1>0, <2>2
        <5> HIDE DEF after
        <5>2. n = Len(Contents(u)) + 1 =>
                Len(after) = n /\ after[n] = block
                /\ \A i \in 1 .. n - 1 : after[i] = Contents(u)[i]
          BY ONLY <5>1, <2>3, WrittenIs DEF after
        <5> QED BY <4>1, <5>2
      <4> QED BY <3>3, <4>2 DEF block
    <3>5. \A i \in 1 .. n : Contents(u)'[i] = body[u][i]
      <4>1. \A i \in 1 .. n - 1 : i \in 1 .. woff[u]
        BY <2>2 DEF n, Variables
      <4>2. \A i \in 1 .. n : i = n \/ i \in 1 .. n - 1
        BY <2>2
      <4> QED BY <3>2, <3>4, <4>1, <4>2
    <3>6. rpc[u] = "none" /\ upc'[u] = "copy"
      BY <2>1 DEF LeftFirst
    <3> QED BY <2>1, <2>2, <3>3, <3>4, <3>5, <3>6 DEF Stored, ReadBack, Begins
  <2>8. ASSUME NEW w \in Requests \ short', ~disturbed'[w] PROVE Stored(w)' /\ ReadBack(w)'
    <3>1. CASE w = u
      BY <2>1, <2>7, <2>8, <3>1
    <3>2. CASE w # u
      <4>1. woff'[w] = woff[w]
        BY <2>1, <3>2 DEF Variables
      <4> QED BY <2>1, <2>8, <3>2, <4>1, OthersKeep
    <3> QED BY <3>1, <3>2
  <2> QED BY <2>5, <2>6, <2>8 DEF Files, OwnFile
<1>4. CASE CopyEnds(u)
  <2>1. /\ upc[u] = "copy" /\ upc' = [upc EXCEPT ![u] = "reply"]
        /\ UNCHANGED <<body, reply, disk, woff, disturbed, roff, rpc, buf>>
        /\ \/ woff[u] = Len(body[u]) /\ UNCHANGED short
           \/ short' = short \cup {u}
    BY <1>4 DEF CopyEnds, Step, readVars, runVars
  <2>2. Variables' /\ FromStart'
    BY <2>1 DEF Variables, FromStart
  <2>3. ASSUME u \notin short', ~disturbed[u] PROVE Contents(u) = body[u]
    <3>1. /\ u \notin short /\ woff[u] = Len(body[u]) /\ Len(Contents(u)) = woff[u]
          /\ \A i \in 1 .. woff[u] : Contents(u)[i] = body[u][i]
      BY <2>1, <2>3 DEF OwnFile, Stored, Begins
    <3>2. body[u] \in Seq(Blocks)
      BY BodyBlocks DEF Variables
    <3> QED BY <1>0, <3>1, <3>2, SeqEqual
  <2>4. \A w \in Requests : w # u => upc'[w] = upc[w]
    BY <2>1
  <2>5. upc'[u] = "reply" /\ rpc[u] = "none"
    BY <2>1 DEF LeftFirst
  <2>6. ASSUME NEW w \in Requests \ short', ~disturbed'[w] PROVE Stored(w)' /\ ReadBack(w)'
    <3>1. CASE w = u
      BY <2>1, <2>3, <2>5, <2>6, <3>1 DEF Stored, ReadBack, Contents
    <3>2. CASE w # u
      <4>1. Stored(w) /\ ReadBack(w)
        BY <2>1, <2>6 DEF OwnFile
      <4> QED BY <2>1, <2>4, <3>2, <4>1 DEF Stored, ReadBack, Begins, Contents
    <3> QED BY <3>1, <3>2
  <2> QED BY <2>2, <2>6 DEF Files, OwnFile
<1> QED BY <1>1, <1>2, <1>3, <1>4

\* Reading back: the file was stored whole, and the print starts at its beginning.
LEMMA ReadingFiles ==
  ASSUME FileInv, NEW u \in Requests,
         Replies(u) \/ Counts(u) \/ CountFails(u) \/ CountEnds(u) \/ Starts(u)
  PROVE  Files'
<1> USE DEF FileInv, IInv, ProgramCounters
<1>1. /\ UNCHANGED <<body, disk, woff, short, disturbed, buf>>
      /\ upc[u] \in {"reply", "count", "start"}
      /\ \A w \in Requests : w # u => upc'[w] = upc[w] /\ rpc'[w] = rpc[w] /\ roff'[w] = roff[w]
  BY DEF Replies, Counts, CountFails, CountEnds, Starts, Step, requestVars, writeVars,
         readVars, runVars, Variables
<1>2. Variables' /\ FromStart'
  <2>1. CASE Replies(u)
    BY <2>1 DEF Replies, Step, writeVars, runVars, Variables, FromStart
  <2>2. CASE Counts(u)
    BY <2>2 DEF Counts, requestVars, writeVars, runVars, Variables, FromStart
  <2>3. CASE CountFails(u)
    BY <2>3 DEF CountFails, Step, writeVars, runVars, Variables, FromStart
  <2>4. CASE CountEnds(u)
    BY <2>4 DEF CountEnds, Step, writeVars, runVars, Variables, FromStart
  <2>5. CASE Starts(u)
    BY <2>5 DEF Starts, Step, writeVars, readVars, runVars, Variables, FromStart
  <2> QED BY <2>1, <2>2, <2>3, <2>4, <2>5
<1>3. rpc[u] = "none" /\ buf[u] = <<>>
  BY <1>1 DEF LeftFirst, FromStart
<1>4. /\ upc'[u] # "copy"
      /\ rpc'[u] = "none" \/ (rpc'[u] = "read" /\ roff'[u] = 0)
  <2>1. CASE Starts(u)
    BY <1>3, <2>1 DEF Starts, Step, readVars, FromStart, Variables
  <2>2. CASE ~Starts(u)
    BY <1>1, <1>3, <2>2 DEF Replies, Counts, CountFails, CountEnds, Step, requestVars, runVars
  <2> QED BY <2>1, <2>2
<1>5. ASSUME NEW w \in Requests \ short', ~disturbed'[w] PROVE Stored(w)' /\ ReadBack(w)'
  <2>1. Stored(w) /\ ReadBack(w)
    BY <1>1, <1>5 DEF OwnFile
  <2>2. CASE w = u
    <3>1. Contents(u)' = body'[u]
      BY <1>1, <2>1, <2>2 DEF Stored, Contents
    <3>2. buf'[u] = <<>> /\ <<>> \in Seq(Blocks) /\ Len(<<>>) = 0 /\ Begins(u, <<>>, 0)'
      <4>1. Len(body'[u]) \in Nat
        BY <1>2 DEF Variables
      <4> QED BY <1>1, <1>3, <4>1 DEF Begins
    <3> QED BY <1>4, <2>2, <3>1, <3>2 DEF Stored, ReadBack
  <2>3. CASE w # u
    BY <1>1, <2>1, <2>3 DEF Stored, ReadBack, Begins, Contents
  <2> QED BY <2>2, <2>3
<1> QED BY <1>2, <1>5 DEF Files, OwnFile

-----------------------------------------------------------------------------
(* The lines of a buffer.                                                  *)

\* The lines of the first n blocks.
IsLines(lines, blocks, n) ==
  lines = [k \in 0 .. n |->
             IF k = 0 THEN <<>>
             ELSE IF blocks[k] = Hole THEN lines[k - 1] ELSE Append(lines[k - 1], Shown(blocks, k))]

\* The recursive function of LinesOf exists.
LEMMA LinesExist ==
  ASSUME NEW blocks
  PROVE  \A n \in Nat : \E lines : IsLines(lines, blocks, n)
<1> DEFINE S == {n \in Nat : \E lines : IsLines(lines, blocks, n)}
           Longer(s, k) == IF blocks[k] = Hole THEN s ELSE Append(s, Shown(blocks, k))
<1>1. 0 \in S
  <2>1. IsLines([k \in 0 .. 0 |-> <<>>], blocks, 0)
    BY DEF IsLines
  <2> QED BY <2>1
<1>2. ASSUME NEW n \in Nat, n \in S PROVE n + 1 \in S
  <2>1. PICK lines : IsLines(lines, blocks, n)
    BY <1>2
  <2> DEFINE next == [k \in 0 .. n + 1 |-> IF k = n + 1 THEN Longer(lines[n], k) ELSE lines[k]]
  <2>2. \A k \in 0 .. n : lines[k] = IF k = 0 THEN <<>> ELSE Longer(lines[k - 1], k)
    BY <2>1 DEF IsLines
  <2> HIDE DEF Longer
  <2>3. \A k \in 0 .. n : next[k] = lines[k]
    OBVIOUS
  <2>4. ASSUME NEW k \in 0 .. n + 1
        PROVE  next[k] = IF k = 0 THEN <<>> ELSE Longer(next[k - 1], k)
    <3>1. CASE k = n + 1
      <4>1. next[k] = Longer(lines[n], k) /\ k - 1 = n /\ k # 0 /\ n \in 0 .. n
        BY <3>1
      <4> HIDE DEF next
      <4> QED BY <2>3, <4>1
    <3>2. CASE k \in 1 .. n
      <4>1. k \in 0 .. n /\ k - 1 \in 0 .. n /\ k # 0
        BY <3>2
      <4> HIDE DEF next
      <4> QED BY <2>2, <2>3, <4>1
    <3>3. CASE k = 0
      <4>1. k \in 0 .. n
        BY <3>3
      <4> HIDE DEF next
      <4> QED BY <2>2, <2>3, <3>3, <4>1
    <3> QED BY <3>1, <3>2, <3>3
  <2>5. next = [k \in 0 .. n + 1 |-> next[k]]
    OBVIOUS
  <2> HIDE DEF next
  <2>6. IsLines(next, blocks, n + 1)
    BY <2>4, <2>5 DEF IsLines, Longer
  <2> QED BY <2>6
<1> HIDE DEF S
<1>3. Nat \subseteq S
  BY <1>1, <1>2, SetInduction
<1> QED BY <1>3 DEF S

\* The lines of a buffer, block by block.
LEMMA LinesIs ==
  ASSUME NEW blocks \in Seq(Blocks)
  PROVE  \E lines : /\ LinesOf(blocks) = lines[Len(blocks)] /\ lines[0] = <<>>
                    /\ \A k \in 1 .. Len(blocks) :
                         lines[k] = IF blocks[k] = Hole THEN lines[k - 1]
                                    ELSE Append(lines[k - 1], Shown(blocks, k))
<1>1. Len(blocks) \in Nat
  OBVIOUS
<1>2. \E lines : IsLines(lines, blocks, Len(blocks))
  BY <1>1, LinesExist
<1> DEFINE lines == CHOOSE f : IsLines(f, blocks, Len(blocks))
<1>3. IsLines(lines, blocks, Len(blocks))
  BY <1>2
<1>4. LinesOf(blocks) = lines[Len(blocks)]
  BY DEF LinesOf, IsLines
<1> HIDE DEF lines
<1> DEFINE Longer(s, k) == IF blocks[k] = Hole THEN s ELSE Append(s, Shown(blocks, k))
<1>5. \A k \in 0 .. Len(blocks) : lines[k] = IF k = 0 THEN <<>> ELSE Longer(lines[k - 1], k)
  BY <1>3 DEF IsLines
<1>6. /\ lines[0] = <<>>
      /\ \A k \in 1 .. Len(blocks) : lines[k] = Longer(lines[k - 1], k)
  <2> HIDE DEF Longer
  <2>1. 0 \in 0 .. Len(blocks) /\ \A k \in 1 .. Len(blocks) : k \in 0 .. Len(blocks) /\ k # 0
    BY <1>1
  <2> QED BY <1>5, <2>1
<1> QED BY <1>4, <1>6

\* A line is text: what a hole spoils is a word, and a hole is no line.
LEMMA LinesAreText ==
  ASSUME NEW blocks \in Seq(Blocks)
  PROVE  LinesOf(blocks) \in Seq(Seq(Tokens))
<1>1. PICK lines : /\ LinesOf(blocks) = lines[Len(blocks)] /\ lines[0] = <<>>
                   /\ \A k \in 1 .. Len(blocks) :
                        lines[k] = IF blocks[k] = Hole THEN lines[k - 1]
                                   ELSE Append(lines[k - 1], Shown(blocks, k))
  BY LinesIs
<1>2. Len(blocks) \in Nat
  OBVIOUS
<1>3. ASSUME NEW k \in 1 .. Len(blocks), blocks[k] # Hole
      PROVE  Shown(blocks, k) \in Seq(Tokens)
  <2>1. PICK block : block = blocks[k]
    OBVIOUS
  <2>2. block \in Seq(Tokens)
    BY <1>3, <2>1, ElementOfSeq DEF Blocks
  <2>3. CASE block # <<>>
    <3>1. <<"word">> \in Seq(Tokens) /\ Tail(block) \in Seq(Tokens)
      BY <2>2, <2>3 DEF Tokens
    <3>2. <<"word">> \o Tail(block) \in Seq(Tokens)
      BY <3>1, ConcatProperties
    <3> QED BY <2>1, <2>2, <3>2 DEF Shown
  <2>4. CASE block = <<>>
    BY <2>1, <2>2, <2>4 DEF Shown
  <2> QED BY <2>3, <2>4
<1> DEFINE S == {n \in Nat : n <= Len(blocks) => lines[n] \in Seq(Seq(Tokens))}
<1>4. 0 \in S
  <2>1. \A T : <<>> \in Seq(T)
    OBVIOUS
  <2>2. lines[0] \in Seq(Seq(Tokens))
    BY <1>1, <2>1
  <2> QED BY <2>2
<1>5. ASSUME NEW n \in Nat, n \in S PROVE n + 1 \in S
  <2> SUFFICES ASSUME n + 1 <= Len(blocks) PROVE lines[n + 1] \in Seq(Seq(Tokens))
    OBVIOUS
  <2>1. /\ n + 1 \in 1 .. Len(blocks) /\ (n + 1) - 1 = n
        /\ lines[n] \in Seq(Seq(Tokens))
    BY <1>2, <1>5
  <2>2. lines[n + 1] = IF blocks[n + 1] = Hole THEN lines[n]
                       ELSE Append(lines[n], Shown(blocks, n + 1))
    BY <1>1, <2>1
  <2>3. CASE blocks[n + 1] = Hole
    BY <2>1, <2>2, <2>3
  <2>4. CASE blocks[n + 1] # Hole
    <3>1. Shown(blocks, n + 1) \in Seq(Tokens)
      BY <1>3, <2>1, <2>4
    <3>2. Append(lines[n], Shown(blocks, n + 1)) \in Seq(Seq(Tokens))
      BY <2>1, <3>1, AppendProperties
    <3> QED BY <2>2, <2>4, <3>2
  <2> QED BY <2>3, <2>4
<1> HIDE DEF S
<1>6. Nat \subseteq S
  BY <1>4, <1>5, SetInduction
<1> QED BY <1>1, <1>2, <1>6 DEF S

\* The file of a print has no holes, so its lines are those of its blocks.
LEMMA LinesOfBody ==
  ASSUME Variables, NEW u \in Requests
  PROVE  LinesOf(body[u]) = body[u]
<1>1. PICK blocks : blocks = body[u]
  OBVIOUS
<1>2. /\ blocks \in Seq(Blocks) /\ Len(blocks) \in Nat
      /\ \A k \in 1 .. Len(blocks) : blocks[k] # Hole /\ blocks[k] \in Blocks
  BY <1>1, BodyBlock, BodyBlocks
<1>3. PICK lines : /\ LinesOf(blocks) = lines[Len(blocks)] /\ lines[0] = <<>>
                   /\ \A k \in 1 .. Len(blocks) :
                        lines[k] = IF blocks[k] = Hole THEN lines[k - 1]
                                   ELSE Append(lines[k - 1], Shown(blocks, k))
  BY <1>2, LinesIs
<1>4. ASSUME NEW k \in 1 .. Len(blocks) PROVE Shown(blocks, k) = blocks[k]
  <2>1. k > 1 => blocks[k - 1] # Hole
    <3>1. k > 1 => k - 1 \in 1 .. Len(blocks)
      BY <1>2
    <3> QED BY <1>2, <3>1
  <2> QED BY <2>1 DEF Shown
<1> DEFINE Same0(n) == /\ lines[n] \in Seq(Blocks) /\ Len(lines[n]) = n
                       /\ \A i \in 1 .. n : lines[n][i] = blocks[i]
           S == {n \in Nat : n <= Len(blocks) => Same0(n)}
<1>5. 0 \in S
  <2>1. Same0(0)
    BY <1>3
  <2> QED BY <2>1
<1>6. ASSUME NEW n \in Nat, n \in S PROVE n + 1 \in S
  <2> SUFFICES ASSUME n + 1 <= Len(blocks) PROVE Same0(n + 1)
    <3> HIDE DEF Same0
    <3>1. (n + 1 <= Len(blocks) => Same0(n + 1)) => n + 1 \in S
      OBVIOUS
    <3> QED BY <3>1
  <2>1. Same0(n)
    <3> HIDE DEF Same0
    <3> QED BY <1>2, <1>6
  <2>2. n + 1 \in 1 .. Len(blocks) /\ (n + 1) - 1 = n
    BY <1>2
  <2>3. PICK before, block : before = lines[n] /\ block = blocks[n + 1]
    OBVIOUS
  <2>4. lines[n + 1] = Append(before, block) /\ block \in Blocks
    BY <1>2, <1>3, <1>4, <2>2, <2>3
  <2>5. /\ Append(before, block) \in Seq(Blocks) /\ Len(Append(before, block)) = n + 1
        /\ \A i \in 1 .. n : Append(before, block)[i] = before[i]
        /\ Append(before, block)[n + 1] = block
    BY <2>1, <2>3, <2>4, AppendProperties
  <2> QED BY <2>1, <2>3, <2>4, <2>5
<1> HIDE DEF S
<1>7. Nat \subseteq S
  BY <1>5, <1>6, SetInduction
<1>8. Same0(Len(blocks))
  <2> HIDE DEF Same0
  <2> QED BY <1>2, <1>7 DEF S
<1>9. lines[Len(blocks)] = blocks
  BY <1>2, <1>8, SeqEqual
<1> QED BY <1>1, <1>3, <1>9

\* The steps of a print.
LEMMA PrintFiles ==
  ASSUME FileInv, NEW u \in Requests, RunPrint(u)
  PROVE  Files'
<1> USE DEF FileInv, IInv, ProgramCounters
<1>1. CASE Sends(u)
  BY <1>1, SameFiles DEF Sends, requestVars, writeVars, readVars
<1>2. CASE RunEnds(u)
  <2>1. /\ UNCHANGED <<body, disk, woff, roff, buf, reply, short, disturbed, upc>>
        /\ rpc[u] = "send" /\ rpc' = [rpc EXCEPT ![u] = "ended"]
    BY <1>2 DEF RunEnds, requestVars, writeVars
  <2>2. Variables' /\ FromStart'
    BY <2>1 DEF Variables, FromStart
  <2>3. OwnFile'
    BY <2>1 DEF OwnFile, Stored, ReadBack, Begins, Contents
  <2> QED BY <2>2, <2>3 DEF Files
<1>3. CASE Reads(u)
  <2>1. /\ UNCHANGED <<body, disk, woff, reply, short, disturbed, upc>>
        /\ rpc[u] = "read" /\ upc[u] = "left"
    BY <1>3 DEF Reads, requestVars, writeVars, LeftFirst
  <2>2. \A w \in Requests : w # u => rpc'[w] = rpc[w] /\ roff'[w] = roff[w] /\ buf'[w] = buf[w]
    BY <1>3 DEF Reads, Variables
  <2>3. Variables' /\ FromStart'
    <3>1. roff' \in [Requests -> Nat] /\ buf' = [w \in Requests |-> buf'[w]]
      <4>1. CASE AtEnd(u)
        <5>1. buf' = [buf EXCEPT ![u] = LinesOf(@)] /\ UNCHANGED roff
          BY <1>3, <4>1 DEF Reads
        <5> QED BY <5>1 DEF Variables
      <4>2. CASE ~AtEnd(u)
        <5>1. /\ buf' = [buf EXCEPT ![u] = Append(@, NextBlock(u))]
              /\ roff' = [roff EXCEPT ![u] = @ + 1]
          BY <1>3, <4>2 DEF Reads
        <5>2. roff' \in [Requests -> Nat]
          BY <5>1 DEF Variables
        <5>3. buf' = [w \in Requests |-> buf'[w]]
          BY <5>1 DEF Variables
        <5> QED BY <5>2, <5>3
      <4> QED BY <4>1, <4>2
    <3>2. rpc'[u] # "none"
      BY <1>3 DEF Reads
    <3> QED BY <2>1, <2>2, <3>1, <3>2 DEF Variables, FromStart
  <2>4. ASSUME u \notin short, ~disturbed[u] PROVE Stored(u)' /\ ReadBack(u)'
    <3>1. /\ Contents(u) = body[u] /\ buf[u] \in Seq(Blocks) /\ Len(buf[u]) = roff[u]
          /\ roff[u] <= Len(body[u]) /\ \A i \in 1 .. roff[u] : buf[u][i] = body[u][i]
      BY <2>1, <2>4 DEF OwnFile, Stored, ReadBack, Begins
    <3>2. Contents(u)' = body'[u]
      BY <2>1, <3>1 DEF Contents
    <3>3. body[u] \in Seq(Blocks) /\ roff[u] \in Nat
      BY BodyBlocks DEF Variables
    <3>4. CASE AtEnd(u)
      <4>1. Len(buf[u]) = Len(body[u])
        BY <3>1, <3>3, <3>4 DEF AtEnd
      <4>2. buf[u] = body[u]
        BY <3>1, <3>3, <4>1, SeqEqual
      <4>3. rpc'[u] = "send" /\ buf'[u] = body'[u]
        <5>1. rpc' = [rpc EXCEPT ![u] = "send"] /\ buf' = [buf EXCEPT ![u] = LinesOf(buf[u])]
          BY <1>3, <3>4 DEF Reads
        <5>2. buf'[u] = LinesOf(buf[u])
          BY <5>1 DEF Variables
        <5> QED BY <2>1, <4>2, <5>1, <5>2, LinesOfBody
      <4> QED BY <2>1, <3>2, <4>3 DEF Stored, ReadBack
    <3>5. CASE ~AtEnd(u)
      <4> DEFINE n == roff[u] + 1
      <4>1. n \in 1 .. Len(body[u]) /\ n \in Nat
        BY <3>1, <3>3, <3>5 DEF AtEnd
      <4>2. body[u][n] \in Blocks
        BY <4>1, BodyBlock
      <4>3. rpc'[u] = "read" /\ roff'[u] = n /\ buf'[u] = Append(buf[u], body[u][n])
        BY <1>3, <2>1, <3>1, <3>5 DEF Reads, NextBlock, Variables
      <4>4. /\ buf'[u] \in Seq(Blocks) /\ Len(buf'[u]) = n
            /\ \A i \in 1 .. n : buf'[u][i] = body[u][i]
        BY <3>1, <3>3, <4>2, <4>3
      <4> QED BY <2>1, <3>2, <4>1, <4>3, <4>4 DEF Stored, ReadBack, Begins
    <3> QED BY <3>4, <3>5
  <2>5. ASSUME NEW w \in Requests \ short', ~disturbed'[w] PROVE Stored(w)' /\ ReadBack(w)'
    <3>1. CASE w = u
      BY <2>1, <2>4, <2>5, <3>1
    <3>2. CASE w # u
      <4>1. Stored(w) /\ ReadBack(w)
        BY <2>1, <2>5 DEF OwnFile
      <4> QED BY <2>1, <2>2, <3>2, <4>1 DEF Stored, ReadBack, Begins, Contents
    <3> QED BY <3>1, <3>2
  <2> QED BY <2>3, <2>5 DEF Files, OwnFile
<1> QED BY <1>1, <1>2, <1>3 DEF RunPrint

\* Every step keeps the invariant.
LEMMA NextFiles == FileInv /\ [Next]_vars => FileInv'
<1> SUFFICES ASSUME FileInv, [Next]_vars PROVE Files'
  BY NextHandles DEF FileInv, Files
<1>1. ASSUME NEW u \in Requests, Receives(u) \/ LocalUpload(u) PROVE Files'
  BY <1>1, StoringFiles, ReadingFiles DEF LocalUpload
<1>2. ASSUME NEW u \in Requests, RunPrint(u) PROVE Files'
  BY <1>2, PrintFiles
<1>3. CASE Cancel
  BY <1>3, SameFiles DEF Cancel, requestVars, writeVars, readVars
<1>4. CASE UNCHANGED vars
  BY <1>4, SameFiles DEF vars, requestVars, writeVars, readVars, runVars
<1> QED BY <1>1, <1>2, <1>3, <1>4 DEF Next

\* A print goes through exactly the file its request brought, if the disk had room
\* and no other request wrote the path meanwhile (localUpload, UploadFile, ReadFile,
\* validLineCounter, SendGcodeFileWithContext).
THEOREM PrintsItsFileAlways == Spec => []PrintsItsFile
<1>1. FileInv => PrintsItsFile
  BY DEF FileInv, OwnFile, ReadBack, PrintsItsFile
<1> QED BY InitFiles, NextFiles, <1>1, PTL DEF Spec

-----------------------------------------------------------------------------
(* Files are replaced, not merged.                                         *)

Same(u) == {v \in Requests : FileName[v] = FileName[u]}
Done(v) == upc[v] \in {"reply", "count", "start", "left"} /\ reply[v] # "error"

Quiet(u) == /\ Same(u) \cap short = {}
            /\ \A v \in Same(u) : ~disturbed[v] /\ upc[v] # "copy"

\* FileIsWhole, with names for its parts.
LEMMA WholeParts ==
  FileIsWhole <=>
    \A u \in Requests : Quiet(u) /\ (\E v \in Same(u) : Done(v))
                          => \E v \in Same(u) : Done(v) /\ Contents(u) = body[v]
  BY DEF FileIsWhole, Quiet, Same, Done

\* The same of the next state.
LEMMA WholePartsNext ==
  FileIsWhole' <=>
    \A u \in Requests : Quiet(u)' /\ (\E v \in Same(u) : Done(v)')
                          => \E v \in Same(u) : Done(v)' /\ Contents(u)' = body'[v]
  BY DEF FileIsWhole, Quiet, Same, Done

\* A step that leaves the paths alone, and ends no copy.
LEMMA SameWhole ==
  ASSUME FileInv, FileIsWhole, UNCHANGED <<body, disk>>, NEW u \in Requests,
         \A v \in Requests :
           /\ (upc[v] = "copy" => upc'[v] = "copy") /\ (Done(v) <=> Done(v)')
           /\ (v \notin short' => v \notin short) /\ (~disturbed'[v] => ~disturbed[v])
  PROVE  FileIsWhole'
<1>1. \A w \in Requests : Quiet(w)' => Quiet(w)
  BY DEF Quiet, Same
<1> QED BY <1>1, WholeParts, WholePartsNext DEF Same, Contents

\* At the start no upload is over.
LEMMA InitWhole == Init => FileIsWhole
<1> SUFFICES ASSUME Init PROVE FileIsWhole
  OBVIOUS
<1>1. \A v \in Requests : ~Done(v)
  BY DEF Init, Done
<1> QED BY <1>1, WholeParts DEF Same

\* The steps of storing: while a request copies, nothing is claimed of its path, and
\* the request that ends the copy is one whose file is there.
LEMMA StoringWhole ==
  ASSUME FileInv, FileIsWhole, NEW u \in Requests,
         Receives(u) \/ Creates(u) \/ CreateFails(u) \/ Copies(u) \/ CopyEnds(u)
  PROVE  FileIsWhole'
<1> USE DEF FileInv, IInv, ProgramCounters
<1>1. CASE Receives(u) \/ CreateFails(u)
  <2>1. /\ UNCHANGED <<body, disk, short, disturbed>>
        /\ upc[u] \in {"new", "create"}
        /\ \/ upc' = [upc EXCEPT ![u] = "create"] /\ UNCHANGED reply
           \/ upc' = [upc EXCEPT ![u] = "left"] /\ reply' = [reply EXCEPT ![u] = "error"]
    BY <1>1 DEF Receives, CreateFails, Step, writeVars, readVars, runVars
  <2>2. \A v \in Requests : Done(v) <=> Done(v)'
    BY <2>1 DEF Done, Variables
  <2>3. \A v \in Requests : upc[v] = "copy" => upc'[v] = "copy"
    BY <2>1
  <2> QED BY <2>1, <2>2, <2>3, SameWhole
<1>2. CASE Creates(u) \/ Copies(u)
  <2> DEFINE p == FileName[u]
  <2>1. /\ upc'[u] = "copy" /\ \A v \in Requests : v # u => upc'[v] = upc[v]
        /\ UNCHANGED <<body, reply, short>> /\ Disturbing(u)
        /\ \E contents : disk' = [disk EXCEPT ![p] = contents]
    BY <1>2 DEF Creates, CreatesWith, Copies, Step, requestVars
  <2>2. ASSUME NEW w \in Requests, Quiet(w)'
        PROVE  Quiet(w) /\ FileName[w] # p /\ Contents(w)' = Contents(w)
    <3>1. u \notin Same(w)
      BY <2>1, <2>2 DEF Quiet
    <3>2. FileName[w] # p
      BY <3>1 DEF Same
    <3>3. \A v \in Requests : ~disturbed'[v] => ~disturbed[v]
      BY <2>1 DEF Disturbing
    <3>4. Quiet(w)
      BY <2>1, <2>2, <3>1, <3>3 DEF Quiet, Same
    <3>5. FileName[w] \in Paths
      BY DEF Paths
    <3> QED BY <2>1, <3>2, <3>4, <3>5 DEF Contents, Variables
  <2>3. \A w \in Requests : FileName[w] # p =>
          \A v \in Same(w) : v \in Requests /\ (Done(v) <=> Done(v)')
    BY <2>1 DEF Same, Done
  <2> QED BY <2>1, <2>2, <2>3, WholeParts, WholePartsNext
<1>3. CASE CopyEnds(u)
  <2>1. /\ upc[u] = "copy" /\ upc' = [upc EXCEPT ![u] = "reply"]
        /\ UNCHANGED <<body, reply, disk, disturbed>>
        /\ short \subseteq short'
    BY <1>3 DEF CopyEnds, Step, readVars, runVars
  <2>2. \A w \in Requests : Contents(w)' = Contents(w)
    BY <2>1 DEF Contents
  <2>3. ASSUME NEW w \in Requests, Quiet(w)', u \in Same(w)
        PROVE  Done(u)' /\ Contents(w) = body[u]
    <3>1. Files'
      BY <1>3, StoringFiles
    <3>2. u \in Requests \ short' /\ ~disturbed'[u]
      BY <2>3 DEF Quiet
    <3>3. upc'[u] = "reply" /\ reply'[u] = "none"
      BY <2>1 DEF FromStart
    <3>4. Contents(u)' = body'[u]
      BY <3>1, <3>2, <3>3 DEF Files, OwnFile, Stored
    <3>5. Contents(w) = Contents(u)
      BY <2>3 DEF Same, Contents
    <3> QED BY <2>1, <2>2, <3>3, <3>4, <3>5 DEF Done
  <2>4. ASSUME NEW w \in Requests, Quiet(w)', u \notin Same(w)
        PROVE  Quiet(w) /\ \A v \in Same(w) : Done(v) <=> Done(v)'
    <3>1. \A v \in Same(w) : v \in Requests /\ upc'[v] = upc[v]
      BY <2>1, <2>4 DEF Same
    <3> QED BY <2>1, <2>4, <3>1 DEF Quiet, Done
  <2>5. ASSUME NEW w \in Requests, Quiet(w)', \E v \in Same(w) : Done(v)'
        PROVE  \E v \in Same(w) : Done(v)' /\ Contents(w)' = body'[v]
    <3>1. CASE u \in Same(w)
      BY <2>1, <2>2, <2>3, <2>5, <3>1
    <3>2. CASE u \notin Same(w)
      BY <2>1, <2>2, <2>4, <2>5, <3>2, WholeParts
    <3> QED BY <3>1, <3>2
  <2> QED BY <2>5, WholePartsNext
<1> QED BY <1>1, <1>2, <1>3

\* Every step keeps FileIsWhole.
LEMMA NextWhole == FileInv /\ FileIsWhole /\ [Next]_vars => FileIsWhole'
<1> SUFFICES ASSUME FileInv, FileIsWhole, [Next]_vars PROVE FileIsWhole'
  OBVIOUS
<1> USE DEF FileInv, IInv, ProgramCounters
<1>1. ASSUME NEW u \in Requests,
             Replies(u) \/ Counts(u) \/ CountFails(u) \/ CountEnds(u) \/ Starts(u)
      PROVE  FileIsWhole'
  <2>1. UNCHANGED <<body, disk, short, disturbed>>
    BY <1>1 DEF Replies, Counts, CountFails, CountEnds, Starts, requestVars, writeVars
  <2>2. /\ \A v \in Requests : v # u => upc'[v] = upc[v] /\ reply'[v] = reply[v]
        /\ upc[u] \in {"reply", "count", "start"}
        /\ upc'[u] \in {"count", "start", "left"}
        /\ reply'[u] = reply[u] \/ (upc[u] = "reply" /\ reply'[u] = "done")
    BY <1>1 DEF Replies, Counts, CountFails, CountEnds, Starts, Step, requestVars, Variables
  <2>3. upc[u] = "reply" => reply[u] = "none"
    BY DEF FromStart
  <2>4. \A v \in Requests : Done(v) <=> Done(v)'
    BY <2>2, <2>3 DEF Done
  <2>5. \A v \in Requests : upc[v] = "copy" => upc'[v] = "copy"
    BY <2>2
  <2> QED BY <1>1, <2>1, <2>4, <2>5, SameWhole
<1>2. ASSUME NEW u \in Requests, RunPrint(u) PROVE FileIsWhole'
  <2>1. UNCHANGED <<body, disk, short, disturbed, upc, reply>>
    BY <1>2 DEF RunPrint, Reads, Sends, RunEnds, requestVars, writeVars
  <2> QED BY <1>2, <2>1, SameWhole DEF Done
<1>3. ASSUME NEW u \in Requests, Receives(u) \/ LocalUpload(u) PROVE FileIsWhole'
  BY <1>1, <1>3, StoringWhole DEF LocalUpload
<1>4. CASE Cancel \/ UNCHANGED vars
  <2>1. UNCHANGED <<body, disk, short, disturbed, upc, reply>>
    BY <1>4 DEF Cancel, vars, requestVars, writeVars
  <2> QED BY <2>1, WholeParts, WholePartsNext DEF Quiet, Same, Done, Contents
<1> QED BY <1>2, <1>3, <1>4 DEF Next

\* A path whose uploads are over holds one of them whole, unless two of them
\* overlapped or the disk was full (UploadFile).
THEOREM FileIsWholeAlways == Spec => []FileIsWhole
<1>1. Init => FileInv /\ FileIsWhole
  BY InitFiles, InitWhole
<1>2. (FileInv /\ FileIsWhole) /\ [Next]_vars => (FileInv /\ FileIsWhole)'
  BY NextFiles, NextWhole
<1> QED BY <1>1, <1>2, PTL DEF Spec

-----------------------------------------------------------------------------
(* Types, the count of a print, and the verdicts on its lines.             *)

NotBlank(blocks, n) == {i \in 1 .. n : blocks[i] # <<>>}

Typed ==
  /\ \A u \in Requests : body[u] \in Bodies[u]
  /\ buf \in [Requests -> Seq(Blocks)]
  /\ \A u \in Requests : rpc[u] \in {"send", "ended"} => buf[u] \in Seq(Seq(Tokens))
  /\ streams \subseteq {u \in Printing : reply[u] = "done"}
  /\ line \in [Requests -> Nat] /\ sent \in [Requests -> Nat]
  /\ active \in BOOLEAN /\ faults \in 0 .. MaxFaults

\* A print has acknowledged at most the lines behind it that are not blank.
Counted ==
  \A u \in Requests :
    /\ rpc[u] \in {"none", "read"} => line[u] = 0 /\ sent[u] = 0
    /\ rpc[u] = "send" => /\ line[u] <= Len(buf[u])
                          /\ sent[u] <= Cardinality(NotBlank(buf[u], line[u]))

PrintInv == Typed /\ Counted

\* The invariant about prints holds at the start.
LEMMA InitPrint == Init => PrintInv
<1> SUFFICES ASSUME Init PROVE PrintInv
  OBVIOUS
<1>1. <<>> \in Seq(Blocks)
  OBVIOUS
<1>2. buf \in [Requests -> Seq(Blocks)]
  BY <1>1 DEF Init
<1>3. Typed
  <2>1. /\ \A u \in Requests : body[u] \in Bodies[u] /\ rpc[u] = "none"
        /\ line \in [Requests -> Nat] /\ sent \in [Requests -> Nat]
        /\ streams = {} /\ active \in BOOLEAN /\ faults = 0
    BY DEF Init
  <2>2. 0 \in 0 .. MaxFaults
    BY UploadsAssumption
  <2> QED BY <1>2, <2>1, <2>2 DEF Typed
<1>4. Counted
  BY DEF Init, Counted
<1> QED BY <1>3, <1>4 DEF PrintInv

\* What leaves the prints alone, and takes back no answer to a request that reads.
LEMMA SamePrints ==
  ASSUME PrintInv, UNCHANGED <<body, rpc, buf, line, sent>>,
         active' \in BOOLEAN, faults' \in 0 .. MaxFaults,
         streams' \subseteq {v \in Printing : reply'[v] = "done"}
  PROVE  PrintInv'
<1>1. Typed'
  BY DEF PrintInv, Typed
<1>2. Counted'
  BY DEF PrintInv, Counted, NotBlank
<1> QED BY <1>1, <1>2 DEF PrintInv

\* The steps of storing.
LEMMA StoringPrints ==
  ASSUME FileInv, PrintInv, NEW u \in Requests,
         Receives(u) \/ Creates(u) \/ CreateFails(u) \/ Copies(u) \/ CopyEnds(u)
  PROVE  PrintInv'
<1> USE DEF FileInv, PrintInv
<1>1. UNCHANGED <<body, rpc, buf, line, sent, active, streams>>
  BY DEF Receives, Creates, CreatesWith, CreateFails, Copies, CopyEnds, requestVars, readVars, runVars
<1>2. faults' \in 0 .. MaxFaults
  <2>1. faults' = faults \/ (faults < MaxFaults /\ faults' = faults + 1)
    BY DEF Receives, Creates, CreatesWith, CreateFails, Copies, CopyEnds, writeVars
  <2> QED BY <2>1, UploadsAssumption DEF Typed
<1>3. streams \subseteq {v \in Printing : reply'[v] = "done"}
  <2>1. CASE Receives(u) \/ CreateFails(u)
    <3>1. upc[u] \in {"new", "create"}
      BY <2>1 DEF Receives, CreateFails, Step
    <3>2. u \notin streams
      BY <3>1 DEF FromStart, Typed
    <3>3. reply' = reply \/ reply' = [reply EXCEPT ![u] = "error"]
      BY <2>1 DEF Receives, CreateFails
    <3> QED BY <3>2, <3>3, UploadsAssumption DEF Typed, Variables
  <2>2. CASE Creates(u) \/ Copies(u) \/ CopyEnds(u)
    <3>1. reply' = reply
      BY <2>2 DEF Creates, CreatesWith, Copies, CopyEnds, requestVars
    <3> QED BY <3>1 DEF Typed
  <2> QED BY <2>1, <2>2
<1> QED BY <1>1, <1>2, <1>3, SamePrints DEF Typed

\* The steps of reading back, and StartPrint.
LEMMA ReadingPrints ==
  ASSUME FileInv, PrintInv, NEW u \in Requests,
         Replies(u) \/ Counts(u) \/ CountFails(u) \/ CountEnds(u) \/ Starts(u)
  PROVE  PrintInv'
<1> USE DEF FileInv, PrintInv
<1>1. UNCHANGED <<body, faults>>
  BY DEF Replies, Counts, CountFails, CountEnds, Starts, requestVars, writeVars
<1>2. streams' \subseteq {v \in Printing : reply'[v] = "done"}
  <2>1. CASE Replies(u)
    BY <2>1 DEF Replies, Typed, Variables
  <2>2. CASE Counts(u) \/ CountFails(u) \/ CountEnds(u) \/ Starts(u)
    <3>1. reply' = reply /\ streams' \subseteq streams
      BY <2>2 DEF Counts, CountFails, CountEnds, Starts, requestVars, readVars
    <3> QED BY <3>1 DEF Typed
  <2> QED BY <2>1, <2>2
<1>3. CASE Replies(u) \/ Counts(u) \/ CountFails(u) \/ CountEnds(u)
  <2>1. UNCHANGED <<rpc, buf, line, sent, active>>
    BY <1>3 DEF Replies, Counts, CountFails, CountEnds, runVars
  <2> QED BY <1>1, <1>2, <2>1, SamePrints DEF Typed
<1>4. CASE Starts(u)
  <2>1. /\ upc[u] = "start" /\ UNCHANGED <<buf, line, sent>>
        /\ \/ active' = TRUE /\ rpc' = [rpc EXCEPT ![u] = "read"]
           \/ UNCHANGED <<active, rpc>>
    BY <1>4 DEF Starts, Step
  <2>2. rpc[u] = "none"
    BY <2>1 DEF IInv, LeftFirst
  <2>3. \A v \in Requests : rpc'[v] \in {"send", "ended"} => rpc'[v] = rpc[v]
    BY <2>1 DEF IInv, ProgramCounters
  <2>4. \A v \in Requests : rpc'[v] \in {"none", "read"} => rpc[v] \in {"none", "read"}
    BY <2>1, <2>2 DEF IInv, ProgramCounters
  <2>5. Typed'
    BY <1>1, <1>2, <2>1, <2>3 DEF Typed
  <2>6. Counted'
    BY <2>1, <2>3, <2>4 DEF Counted
  <2> QED BY <2>5, <2>6
<1> QED BY <1>3, <1>4

\* A blank line has no command.
LEMMA BlankHasNoCommand == ~HasCommand(<<>>)
<1>1. <<>> \in Text /\ Len(<<>>) = 0
  BY DEF Text
<1>2. PICK pass : IsPasses(pass, <<>>, 0) /\ StripComments(<<>>) = pass[0]
  BY <1>1, StripIs
<1>3. pass[0] = CutAtSemicolon(<<>>)
  BY <1>2 DEF IsPasses
<1>4. Position(<<>>, "semicolon") = 0
  BY <1>1, PositionIs
<1>5. StripComments(<<>>) = <<>>
  BY <1>2, <1>3, <1>4 DEF CutAtSemicolon
<1> QED BY <1>5 DEF HasCommand

\* One line more, blank or not.
LEMMA OneLineMore ==
  ASSUME NEW blocks, NEW n \in Nat
  PROVE  /\ Cardinality(NotBlank(blocks, n)) \in Nat
         /\ Cardinality(NotBlank(blocks, n)) <= Cardinality(NotBlank(blocks, n + 1))
         /\ blocks[n + 1] # <<>> =>
              Cardinality(NotBlank(blocks, n + 1)) = Cardinality(NotBlank(blocks, n)) + 1
<1>1. IsFiniteSet(1 .. n) /\ IsFiniteSet(1 .. n + 1)
  BY FS_Interval
<1>2. NotBlank(blocks, n) \subseteq 1 .. n /\ NotBlank(blocks, n + 1) \subseteq 1 .. n + 1
  BY DEF NotBlank
<1>3. IsFiniteSet(NotBlank(blocks, n)) /\ IsFiniteSet(NotBlank(blocks, n + 1))
  BY <1>1, <1>2, FS_Subset
<1>4. NotBlank(blocks, n) \subseteq NotBlank(blocks, n + 1)
  BY DEF NotBlank
<1>5. ASSUME blocks[n + 1] # <<>>
      PROVE  NotBlank(blocks, n + 1) = NotBlank(blocks, n) \cup {n + 1} /\ n + 1 \notin NotBlank(blocks, n)
  BY <1>5 DEF NotBlank
<1> QED BY <1>3, <1>4, <1>5, FS_CardinalityType, FS_Subset, FS_AddElement

\* The steps of a print.
LEMMA RunPrints ==
  ASSUME FileInv, PrintInv, NEW u \in Requests, RunPrint(u)
  PROVE  PrintInv'
<1> USE DEF FileInv, PrintInv
<1>1. CASE Reads(u)
  <2>1. /\ rpc[u] = "read" /\ UNCHANGED <<body, faults, active, streams, reply, line, sent>>
        /\ line[u] = 0 /\ sent[u] = 0
    BY <1>1 DEF Reads, Counted, requestVars, writeVars
  <2>2. CASE AtEnd(u)
    <3>1. /\ rpc' = [rpc EXCEPT ![u] = "send"]
          /\ buf' = [buf EXCEPT ![u] = LinesOf(buf[u])]
      BY <1>1, <2>2 DEF Reads
    <3>2. LinesOf(buf[u]) \in Seq(Seq(Tokens)) /\ LinesOf(buf[u]) \in Seq(Blocks)
      <4>1. LinesOf(buf[u]) \in Seq(Seq(Tokens))
        BY LinesAreText DEF Typed
      <4>2. Seq(Tokens) \subseteq Blocks
        BY DEF Blocks
      <4> QED BY <4>1, <4>2, SeqMonotonic
    <3>3. Typed'
      BY <2>1, <3>1, <3>2 DEF Typed, IInv, ProgramCounters
    <3>4. /\ rpc'[u] = "send" /\ buf'[u] \in Seq(Blocks) /\ line'[u] = 0 /\ sent'[u] = 0
          /\ NotBlank(buf'[u], 0) = {}
      BY <2>1, <3>1, <3>2 DEF NotBlank, Typed, IInv, ProgramCounters
    <3>5. \A v \in Requests : v # u => UNCHANGED <<rpc[v], buf[v], line[v], sent[v]>>
      BY <2>1, <3>1 DEF Typed, IInv, ProgramCounters
    <3>6. Cardinality(NotBlank(buf'[u], 0)) = 0
      BY <3>4, FS_EmptySet
    <3>7. line'[u] <= Len(buf'[u]) /\ sent'[u] <= Cardinality(NotBlank(buf'[u], line'[u]))
      <4>1. Len(buf'[u]) \in Nat
        BY <3>4
      <4> QED BY <3>4, <3>6, <4>1
    <3>8. Counted'
      BY <3>4, <3>5, <3>7 DEF Counted
    <3> QED BY <3>3, <3>8
  <2>3. CASE ~AtEnd(u)
    <3>1. /\ rpc' = rpc /\ buf' = [buf EXCEPT ![u] = Append(buf[u], NextBlock(u))]
      BY <1>1, <2>3 DEF Reads
    <3>2. NextBlock(u) \in Blocks
      <4>1. Contents(u) \in Seq(Blocks) /\ roff[u] \in Nat
        BY DEF Contents, Variables, Paths
      <4>2. roff[u] + 1 \in 1 .. Len(Contents(u))
        BY <2>3, <4>1 DEF AtEnd
      <4> QED BY <4>1, <4>2, ElementOfSeq DEF NextBlock
    <3>3. Append(buf[u], NextBlock(u)) \in Seq(Blocks)
      BY <3>2 DEF Typed
    <3>4. Typed'
      BY <2>1, <3>1, <3>3 DEF Typed
    <3>5. Counted'
      <4>1. \A v \in Requests : v # u => buf'[v] = buf[v]
        BY <3>1 DEF Typed
      <4> QED BY <2>1, <3>1, <4>1 DEF Counted
    <3> QED BY <3>4, <3>5
  <2> QED BY <2>2, <2>3
<1>2. CASE Sends(u)
  <2>1. /\ rpc[u] = "send" /\ line[u] < Len(buf[u]) /\ line' = [line EXCEPT ![u] = @ + 1]
        /\ sent' = [sent EXCEPT ![u] = IF HasCommand(buf[u][line[u] + 1]) THEN @ + 1 ELSE @]
        /\ UNCHANGED <<body, faults, active, streams, reply, rpc, buf>>
    BY <1>2 DEF Sends, requestVars, writeVars, readVars
  <2>2. Typed'
    BY <2>1 DEF Typed
  <2>3. line[u] \in Nat /\ sent[u] \in Nat /\ Len(buf[u]) \in Nat
    BY DEF Typed
  <2>4. sent'[u] <= Cardinality(NotBlank(buf[u], line[u] + 1))
    <3>1. /\ sent'[u] = IF HasCommand(buf[u][line[u] + 1]) THEN sent[u] + 1 ELSE sent[u]
          /\ sent[u] <= Cardinality(NotBlank(buf[u], line[u]))
      BY <2>1 DEF Typed, Counted
    <3>2. HasCommand(buf[u][line[u] + 1]) => buf[u][line[u] + 1] # <<>>
      BY BlankHasNoCommand
    <3>3. CASE HasCommand(buf[u][line[u] + 1])
      <4>1. Cardinality(NotBlank(buf[u], line[u] + 1)) = Cardinality(NotBlank(buf[u], line[u])) + 1
            /\ Cardinality(NotBlank(buf[u], line[u])) \in Nat
        BY <2>3, <3>2, <3>3, OneLineMore
      <4> QED BY <2>3, <3>1, <3>3, <4>1
    <3>4. CASE ~HasCommand(buf[u][line[u] + 1])
      <4>1. /\ Cardinality(NotBlank(buf[u], line[u])) <= Cardinality(NotBlank(buf[u], line[u] + 1))
            /\ Cardinality(NotBlank(buf[u], line[u])) \in Nat
            /\ Cardinality(NotBlank(buf[u], line[u] + 1)) \in Nat
        BY <2>3, OneLineMore
      <4> QED BY <2>3, <3>1, <3>4, <4>1
    <3> QED BY <3>3, <3>4
  <2>5. line'[u] = line[u] + 1 /\ line'[u] <= Len(buf'[u])
    BY <2>1, <2>3 DEF Typed
  <2>6. NotBlank(buf'[u], line'[u]) = NotBlank(buf[u], line[u] + 1)
    BY <2>1, <2>5 DEF NotBlank
  <2>7. \A v \in Requests : v # u => UNCHANGED <<line[v], sent[v]>>
    BY <2>1 DEF Typed
  <2>8. Counted'
    <3>1. sent'[u] <= Cardinality(NotBlank(buf'[u], line'[u]))
      BY <2>4, <2>6
    <3> QED BY <2>1, <2>5, <2>7, <3>1 DEF Counted
  <2> QED BY <2>2, <2>8
<1>3. CASE RunEnds(u)
  <2>1. /\ rpc[u] = "send" /\ rpc' = [rpc EXCEPT ![u] = "ended"]
        /\ active' = FALSE /\ streams' = streams \ {u}
        /\ UNCHANGED <<body, faults, reply, buf, line, sent>>
    BY <1>3 DEF RunEnds, requestVars, writeVars
  <2>2. \A v \in Requests : rpc'[v] \in {"none", "read", "send"} => rpc'[v] = rpc[v]
    BY <2>1
  <2>3. Typed'
    <3>1. \A v \in Requests : rpc'[v] \in {"send", "ended"} => rpc[v] \in {"send", "ended"}
      BY <2>1
    <3> QED BY <2>1, <3>1 DEF Typed
  <2>4. Counted'
    BY <2>1, <2>2 DEF Counted
  <2> QED BY <2>3, <2>4
<1> QED BY <1>1, <1>2, <1>3 DEF RunPrint

\* Every step keeps the invariant.
LEMMA NextPrint == FileInv /\ PrintInv /\ [Next]_vars => PrintInv'
<1> SUFFICES ASSUME FileInv, PrintInv, [Next]_vars PROVE PrintInv'
  OBVIOUS
<1>1. ASSUME NEW u \in Requests, Receives(u) \/ LocalUpload(u) PROVE PrintInv'
  BY <1>1, StoringPrints, ReadingPrints DEF LocalUpload
<1>2. ASSUME NEW u \in Requests, RunPrint(u) PROVE PrintInv'
  BY <1>2, RunPrints
<1>3. CASE Cancel \/ UNCHANGED vars
  <2>1. /\ UNCHANGED <<body, reply, faults, streams, rpc, buf, line, sent>>
        /\ active' = FALSE \/ active' = active
    BY <1>3 DEF Cancel, vars, requestVars, writeVars, readVars, runVars
  <2> QED BY <2>1, SamePrints DEF PrintInv, Typed
<1> QED BY <1>1, <1>2, <1>3 DEF Next

\* The invariant holds in every behaviour.
LEMMA PrintInvariant == Spec => [](FileInv /\ PrintInv)
<1>1. Init => FileInv /\ PrintInv
  BY InitFiles, InitPrint
<1>2. (FileInv /\ PrintInv) /\ [Next]_vars => (FileInv /\ PrintInv)'
  BY NextFiles, NextPrint
<1> QED BY <1>1, <1>2, PTL DEF Spec

\* Every variable keeps its type: in particular a read handle belongs to a request
\* that asked for a print and was told that its file is stored, and the lines of a
\* print have no holes (localUpload, SendGcodeFileWithContext).
THEOREM TypeCorrect == Spec => []TypeOK
<1>1. ASSUME FileInv, PrintInv PROVE TypeOK
  <2> USE <1>1 DEF FileInv, PrintInv
  <2>1. \A p \in Paths : \A i \in DOMAIN disk[p] : disk[p][i] \in Blocks
    BY ElementOfSeq DEF Variables
  <2>2. \A u \in Requests : \A i \in DOMAIN buf[u] : buf[u][i] \in Blocks
    BY ElementOfSeq DEF Typed
  <2>3. ASSUME NEW u \in Requests, rpc[u] \in {"send", "ended"}, NEW i \in DOMAIN buf[u]
        PROVE  buf[u][i] # Hole
    <3>1. buf[u] \in Seq(Seq(Tokens))
      BY <2>3 DEF Typed
    <3>2. buf[u][i] \in Seq(Tokens)
      BY <2>3, <3>1, ElementOfSeq
    <3> QED BY <3>2, UploadsAssumption
  <2>4. /\ \A u \in Requests : body[u] \in Bodies[u]
        /\ streams \subseteq {u \in Printing : reply[u] = "done"}
        /\ line \in [Requests -> Nat] /\ sent \in [Requests -> Nat]
        /\ active \in BOOLEAN /\ faults \in 0 .. MaxFaults
    BY DEF Typed
  <2>5. /\ woff \in [Requests -> Nat] /\ roff \in [Requests -> Nat]
        /\ reply \in [Requests -> {"none", "error", "done"}]
        /\ short \subseteq Requests /\ disturbed \in [Requests -> BOOLEAN]
    BY DEF Variables
  <2>6. /\ upc \in [Requests -> {"new", "create", "copy", "reply", "count", "start", "left"}]
        /\ rpc \in [Requests -> {"none", "read", "send", "ended"}]
        /\ rejected \subseteq Requests
    BY DEF IInv, ProgramCounters
  <2> QED BY <2>1, <2>2, <2>3, <2>4, <2>5, <2>6 DEF TypeOK
<1> QED BY <1>1, PrintInvariant, PTL

\* A print of any file acknowledges at most as many commands as it counted lines, so
\* the percentage stays at or below 100 (validLineCounter, runPrint).
THEOREM ProgressBoundedAlways == Spec => []ProgressBounded
<1>1. ASSUME FileInv, PrintInv, NEW u \in Requests, Alive(u) PROVE sent[u] <= Total(u)
  <2> USE <1>1 DEF FileInv, PrintInv
  <2>1. buf[u] \in Seq(Blocks) /\ Len(buf[u]) \in Nat /\ DOMAIN buf[u] = 1 .. Len(buf[u])
    BY DEF Typed
  <2>2. Total(u) = Cardinality(NotBlank(buf[u], Len(buf[u])))
    BY <2>1 DEF Total, NotBlank
  <2>3. line[u] \in Nat /\ sent[u] \in Nat
    BY DEF Typed
  <2>4. CASE rpc[u] = "read"
    <3>1. sent[u] = 0
      BY <2>4 DEF Counted
    <3>2. Cardinality(NotBlank(buf[u], Len(buf[u]))) \in Nat
      BY <2>1, OneLineMore
    <3> QED BY <2>2, <3>1, <3>2
  <2>5. CASE rpc[u] = "send"
    <3>1. line[u] <= Len(buf[u]) /\ sent[u] <= Cardinality(NotBlank(buf[u], line[u]))
      BY <2>5 DEF Counted
    <3>2. NotBlank(buf[u], line[u]) \subseteq NotBlank(buf[u], Len(buf[u]))
      BY <2>1, <2>3, <3>1 DEF NotBlank
    <3>3. IsFiniteSet(NotBlank(buf[u], Len(buf[u])))
      <4>1. IsFiniteSet(1 .. Len(buf[u])) /\ NotBlank(buf[u], Len(buf[u])) \subseteq 1 .. Len(buf[u])
        BY <2>1, FS_Interval DEF NotBlank
      <4> QED BY <4>1, FS_Subset
    <3>4. Cardinality(NotBlank(buf[u], line[u])) <= Cardinality(NotBlank(buf[u], Len(buf[u])))
      BY <3>2, <3>3, FS_Subset
    <3>5. /\ Cardinality(NotBlank(buf[u], line[u])) \in Nat
          /\ Cardinality(NotBlank(buf[u], Len(buf[u]))) \in Nat
      BY <2>1, <2>3, OneLineMore
    <3> QED BY <2>2, <2>3, <3>1, <3>4, <3>5
  <2> QED BY <2>4, <2>5 DEF Alive
<1>2. FileInv /\ PrintInv => ProgressBounded
  BY <1>1 DEF ProgressBounded
<1> QED BY <1>2, PrintInvariant, PTL

\* Of whatever a print reads, also of a file that another upload has damaged, it sends
\* exactly the lines with a command outside their comments (ParseLine, stripComments).
THEOREM CommandsFoundAlways == Spec => []CommandsFound
<1>1. ASSUME FileInv, PrintInv, NEW u \in Requests, rpc[u] = "send", NEW i \in DOMAIN buf[u]
      PROVE  buf[u][i] \in Seq(Tokens)
  <2>1. buf[u] \in Seq(Seq(Tokens))
    BY <1>1 DEF PrintInv, Typed
  <2> QED BY <1>1, <2>1, ElementOfSeq
<1>2. FileInv /\ PrintInv => CommandsFound
  BY <1>1, NoCommandDropped, VerdictIsRight DEF CommandsFound
<1> QED BY <1>2, PrintInvariant, PTL
=============================================================================
