------------------------- MODULE MCLibraryProjection -------------------------
(***************************************************************************)
(* LibraryProjection for TLC: three scenes; the second has two ids with    *)
(* the same provider, of which only the first is projected.                *)
(***************************************************************************)
EXTENDS LibraryProjection, TLC

CONSTANTS c1, c2, stashdb

MCRefs == 1 :> (stashdb :> <<c1>>) @@ 2 :> (stashdb :> <<c2, c1>>) @@ 3 :> (stashdb :> <<>>)
=============================================================================
