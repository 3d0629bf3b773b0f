---------------------------- MODULE MCEventRing ----------------------------
(* Instances of EventRing for TLC. *)
EXTENDS EventRing

CONSTANTS t1, t2
TwoThreads == {t1, t2}
=============================================================================
