------------------------ MODULE MCMetadataHydration ------------------------
(***************************************************************************)
(* MetadataHydration for TLC.                                              *)
(***************************************************************************)
EXTENDS MetadataHydration

CONSTANTS backfill, page
=============================================================================
