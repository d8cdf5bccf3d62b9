------------------------ MODULE CommandServiceProofs ------------------------
(***************************************************************************)
(* What follows from CommandService for whoever submits a command, for any *)
(* set of commands.                                                        *)
(***************************************************************************)
EXTENDS CommandService, TLAPS

\* A command that is pending or was never submitted has no history.
Untouched ==
  /\ pending \subseteq issued
  /\ \A c \in Commands : c \in pending \/ c \notin issued => given[c] = 0 /\ answer[c] = "none"

IInv ==
  /\ given \in [Commands -> Nat]
  /\ answer \in [Commands -> {"none", "nil", "error", "timeout", "unwritten"}]
  /\ Untouched /\ AnswersAreTrue

\* Every step keeps that.
LEMMA NextIInv == IInv /\ [Next]_vars => IInv'
<1> SUFFICES ASSUME IInv, [Next]_vars PROVE IInv'
  OBVIOUS
<1> USE DEF IInv, Untouched, AnswersAreTrue
<1>1. ASSUME NEW c \in Commands, Submit(c) PROVE IInv'
  BY <1>1 DEF Submit
<1>2. ASSUME NEW c \in Commands, Give(c) PROVE IInv'
  BY <1>2 DEF Give
<1>3. ASSUME NEW c \in Commands, Drop(c) PROVE IInv'
  BY <1>3 DEF Drop
<1>4. ASSUME NEW c \in Commands, NEW a \in {"nil", "error", "timeout"}, Reply(c, a) PROVE IInv'
  BY <1>4 DEF Reply
<1>5. CASE UNCHANGED vars
  BY <1>5 DEF vars
<1> QED BY <1>1, <1>2, <1>3, <1>4, <1>5 DEF Next

\* The invariant holds in every behaviour.
LEMMA Invariant == Spec => []IInv
<1>1. Init => IInv
  BY DEF Init, IInv, Untouched, AnswersAreTrue
<1> QED BY <1>1, NextIInv, PTL DEF Spec

\* For any commands, submitters and losses: nobody is told of a write that did not
\* take place, or that a command was not written which was.
THEOREM AnswersAreTrueAlways == Spec => []AnswersAreTrue
<1>1. IInv => AnswersAreTrue
  BY DEF IInv
<1> QED BY <1>1, Invariant, PTL

\* What a submitter was told stays true.
THEOREM AnswersAreFinalAlways == Spec => AnswersAreFinal
<1>1. IInv /\ [Next]_vars =>
        [\A c \in Commands : answer[c] # "none" => answer'[c] = answer[c] /\ given'[c] = given[c]]_vars
  <2> SUFFICES ASSUME IInv, [Next]_vars, NEW c \in Commands, answer[c] # "none"
               PROVE  answer'[c] = answer[c] /\ given'[c] = given[c]
    OBVIOUS
  <2>1. c \notin pending
    BY DEF IInv, Untouched
  <2> QED BY <2>1 DEF IInv, Next, Submit, Give, Drop, Reply, vars
<1> QED BY <1>1, Invariant, PTL DEF Spec, AnswersAreFinal
=============================================================================
