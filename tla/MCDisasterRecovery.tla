------------------------ MODULE MCDisasterRecovery ------------------------
(***************************************************************************)
(* Small instances of DisasterRecovery for TLC.  One device is enough: a   *)
(* write of its own that was under way when a restore began plays the      *)
(* other writer.                                                           *)
(***************************************************************************)
EXTENDS DisasterRecovery

CONSTANTS f1, d1, scheduler, admin
=============================================================================
