------------------------- MODULE MCSerialConnection -------------------------
(* Small instances of SerialConnection for TLC. *)
EXTENDS SerialConnection, TLC

CONSTANTS usb0, usb1

OnePort == {usb0}
TwoPorts == {usb0, usb1}
PortSymmetry == Permutations(TwoPorts)
=============================================================================
