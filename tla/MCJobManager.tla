---------------------------- MODULE MCJobManager ----------------------------
(* Small instances of JobManager for TLC. *)
EXTENDS JobManager, TLC

CONSTANTS a, b, c, web

TwoJobs == {a, b}
ThreeJobs == {a, b, c}

\* a pauses itself after its first line, b has an unreadable line.
PauseProgram == a :> <<"pause", "comment", "cmd">> @@ b :> <<"resume", "toolong", "cmd">>

\* One line each, for the runs with three jobs.
ShortProgram == [j \in ThreeJobs |-> <<"cmd">>]
PlainProgram == [j \in TwoJobs |-> <<"cmd">>]
=============================================================================
