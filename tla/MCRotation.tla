----------------------------- MODULE MCRotation -----------------------------
(* Instances of Rotation for TLC.  The unit of time is 30 seconds.          *)
EXTENDS Rotation
=============================================================================
