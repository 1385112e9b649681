--------------------------- MODULE MCPolkitChecks ---------------------------
(* PolkitChecks on a small instance, for TLC. *)
EXTENDS PolkitChecks

CONSTANTS i1, i2, i3

ThreeIds == {i1, i2, i3}
=============================================================================
