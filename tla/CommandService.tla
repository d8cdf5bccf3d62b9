--------------------------- MODULE CommandService ---------------------------
(***************************************************************************)
(* What the serial manager promises the rest of the program about a G-code *)
(* command, whatever goroutines and queues are used to keep the promise:   *)
(*                                                                         *)
(*   - a command that was submitted is given to the printer at most once;  *)
(*   - it is answered at most once, with the outcome of a write if it was  *)
(*     written and with a failure only if it never reached the printer.    *)
(*                                                                         *)
(* The module is the abstract specification that SerialLink implements.    *)
(***************************************************************************)
EXTENDS Naturals

CONSTANT Commands   \* every command any goroutine may submit

VARIABLES
  issued,   \* commands submitted so far
  pending,  \* commands submitted, neither given to the printer nor dropped
  given,    \* how often each command was written to the port
  answer    \* what the submitter was told, "none" while it was told nothing

vars == <<issued, pending, given, answer>>

Init ==
  /\ issued = {}
  /\ pending = {}
  /\ given = [c \in Commands |-> 0]
  /\ answer = [c \in Commands |-> "none"]

Submit(c) ==
  /\ UNCHANGED <<given, answer>>
  /\ c \notin issued
  /\ issued' = issued \cup {c}
  /\ pending' = pending \cup {c}

Give(c) ==
  /\ given' = [given EXCEPT ![c] = @ + 1]
  /\ c \in pending
  /\ pending' = pending \ {c}
  /\ UNCHANGED <<issued, answer>>

\* A command may be lost before the port: the submitter learns it, or nothing.
Drop(c) ==
  /\ UNCHANGED given
  /\ answer' \in {answer, [answer EXCEPT ![c] = "unwritten"]}
  /\ c \in pending
  /\ pending' = pending \ {c}
  /\ UNCHANGED issued

Reply(c, a) ==
  /\ answer[c] = "none"
  /\ answer' = [answer EXCEPT ![c] = a]
  /\ given[c] > 0
  /\ c \in issued \ pending
  /\ UNCHANGED <<issued, pending, given>>

Next ==
  \E c \in Commands :
    \/ Submit(c)
    \/ Give(c)
    \/ Drop(c)
    \/ \E a \in {"nil", "error", "timeout"} : Reply(c, a)

Spec == Init /\ [][Next]_vars

-----------------------------------------------------------------------------
(* What follows for the submitter.                                         *)

\* A command reaches the port at most once. What is told of it is true: the
\* outcome of a write only if it was written, and "unwritten" only if it was not.
AnswersAreTrue ==
  \A c \in Commands :
    /\ given[c] <= 1
    /\ answer[c] \in {"nil", "error", "timeout"} => given[c] = 1
    /\ answer[c] = "unwritten" => given[c] = 0

\* An answer is the last word about a command: no second answer follows, and
\* the command is not written any more.
AnswersAreFinal ==
  [][\A c \in Commands : answer[c] # "none" => answer'[c] = answer[c] /\ given'[c] = given[c]]_vars
=============================================================================
