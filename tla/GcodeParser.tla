---------------------------- MODULE GcodeParser ----------------------------
(***************************************************************************)
(* ParseLine of the G-code parser, as far as it decides whether a line is  *)
(* sent to the printer: has it a command outside its comments?             *)
(*                                                                         *)
(* A line is a sequence of tokens with blanks between them: a command word *)
(* (an upper-case letter and a number), any other word, the marks of       *)
(* comments, and "huge", a word that no scanner's buffer holds.            *)
(***************************************************************************)
EXTENDS Naturals, Sequences

SX == INSTANCE SequencesExt

Tokens == {"cmd", "word", "huge", "semicolon", "open", "close"}

Position(line, t) == SX!SelectInSeq(line, LAMBDA u : u = t)

\* if idx := strings.Index(s, ";"); idx >= 0 { s = s[:idx] }
CutAtSemicolon(line) ==
  IF Position(line, "semicolon") = 0 THEN line ELSE SubSeq(line, 1, Position(line, "semicolon") - 1)

\* Mutant: a comment goes as far as the end of the line.
RemoveRest(line) ==
  LET start == Position(line, "open")
      end   == Position(line, "close")
  IN  IF start > 0 /\ end > start THEN SubSeq(line, 1, start - 1) ELSE line

\* One pass of the loop: it stops when the first ")" is not after the first "(".
RemoveComment(line) ==
  LET start == Position(line, "open")
      end   == Position(line, "close")
  IN  IF start > 0 /\ end > start
      THEN SubSeq(line, 1, start - 1) \o SubSeq(line, end + 1, Len(line))
      ELSE line

StripComments(line) ==
  LET pass[n \in 0 .. Len(line)] ==
        IF n = 0 THEN CutAtSemicolon(line) ELSE RemoveComment(pass[n - 1])
  IN  pass[Len(line)]

\* ParseLine(line).HasCommand
HasCommand(line) ==
  \E i \in DOMAIN StripComments(line) : StripComments(line)[i] = "cmd"

-----------------------------------------------------------------------------
(* What a reader of G-code expects.                                        *)

\* Where the parenthesis that decides about position i opens: the last one
\* before i with no other mark in between.
InParentheses(line, i) ==
  \E a \in 1 .. i - 1, b \in i + 1 .. Len(line) :
    /\ line[a] = "open" /\ line[b] = "close"
    /\ \A k \in a .. i : line[k] # "close"

\* A ")" without a "(" since the ")" before it.
HasStray(line) ==
  \E b \in DOMAIN line :
    /\ line[b] = "close"
    /\ \E a \in 0 .. b - 1 :
         /\ a = 0 \/ line[a] = "close"
         /\ \A k \in a + 1 .. b - 1 : line[k] \notin {"open", "close"}

\* There is a command word before the ";" and not between parentheses.
CommandOutside(line) ==
  LET code == CutAtSemicolon(line)
  IN  \E i \in DOMAIN code : code[i] = "cmd" /\ ~InParentheses(code, i)
=============================================================================
