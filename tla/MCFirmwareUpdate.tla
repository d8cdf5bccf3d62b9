-------------------------- MODULE MCFirmwareUpdate --------------------------
(* Small instances of FirmwareUpdate for TLC. *)
EXTENDS FirmwareUpdate, TLC

CONSTANTS r1, r2, v0, v1, v2

\* One request uploads a version, the other the next one or some other file.
TwoOffers == r1 :> {v1} @@ r2 :> {v2, "alien"}
=============================================================================
