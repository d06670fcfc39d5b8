--------------------------- MODULE MCWhisparrSync ---------------------------
(***************************************************************************)
(* WhisparrSync for TLC.                                                   *)
(***************************************************************************)
EXTENDS WhisparrSync

CONSTANTS a, b
=============================================================================
