---------------------------- MODULE MCSyncLease ----------------------------
(***************************************************************************)
(* SyncLease for TLC.                                                      *)
(***************************************************************************)
EXTENDS SyncLease

CONSTANTS queue, r1, r2
=============================================================================
