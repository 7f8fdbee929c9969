---------------------------- MODULE MCSupervisor ----------------------------
(* Instances of Supervisor for TLC.  One slot meets every fault; the other  *)
(* only the end of its context, so that its crashes must be answered.      *)
EXTENDS Supervisor

CONSTANTS s1, s2

MixedFaults == ({s1} \X {"build", "launch", "ctx"}) \cup {<<s2, "ctx">>}
=============================================================================
