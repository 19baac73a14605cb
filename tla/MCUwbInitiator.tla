---------------------------- MODULE MCUwbInitiator ----------------------------
(* Samples and powers for the run of UwbInitiator.                          *)
EXTENDS UwbInitiator, Bitwise

SignedBytes == -8 .. 7
PowersOfTwo == {1, 2, 4, 8}
ExclusiveOr(s, b) == s ^^ b
=============================================================================
