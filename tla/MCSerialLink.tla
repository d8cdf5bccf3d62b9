---------------------------- MODULE MCSerialLink ----------------------------
(* Small instances of SerialLink for TLC. *)
EXTENDS SerialLink, TLC

CONSTANTS s1, p1

OneSender == {s1}
OnePrio == {p1}
TwoEach == [g \in Callers |-> 2]

\* p1 first sends without waiting, like tempLoop, then it waits, like M117.
CastThenWait == {[from |-> p1, n |-> 1]}
=============================================================================
