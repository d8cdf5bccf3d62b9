----------------------------- MODULE MCUploads -----------------------------
(***************************************************************************)
(* A small instance of Uploads for TLC: two requests for one file name. The *)
(* first line of the first file is any line of up to two tokens, a line of  *)
(* three that begins with a comment, or a longer one with several comments. *)
(***************************************************************************)
EXTENDS Uploads

CONSTANTS u1, u2

TwoRequests == {u1, u2}
OnePath == [u \in TwoRequests |-> "benchy.gcode"]

Words == {"cmd", "word"}
Marks == Tokens \ {"huge"}

FirstLines ==
  UNION {[1 .. n -> Marks] : n \in 0 .. 2}
    \cup {<<m, a, b>> : m \in {"open", "semicolon"}, a \in Marks, b \in Marks}
    \cup {<<"open", "open", a, "close", b>> : a \in Words, b \in Words}
    \cup {<<"open", a, "close", b, "open", c, "close">> : a \in Words, b \in Words, c \in Words}

TwoBodies ==
  [u \in TwoRequests |->
     IF u = u1 THEN {<<first, <<"cmd">>>> : first \in FirstLines}
               ELSE {<< <<"cmd", "semicolon", "word">> >>, << <<"huge">> >>}]
=============================================================================
