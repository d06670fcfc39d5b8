--------------------------- MODULE SceneIndexStore ---------------------------
(***************************************************************************)
(* What the scene index promises to everything that reads it: rows change  *)
(* a bounded number at a time, and the summary, once it exists, counts the *)
(* rows exactly at every instant.  Feeds take their totals and their       *)
(* hasMore from the summary and their items from the rows.                 *)
(***************************************************************************)
EXTENDS SceneIndexRow, Integers

CONSTANTS
  Scenes,       \* stashIds
  ChunkSize,    \* APPLY_PATCH_CHUNK_SIZE
  NoSummary     \* the SceneIndexSummary row does not exist

VARIABLES rows, summary

Init ==
  /\ rows \in [Scenes -> Row \union {NoRow}]
  /\ summary = NoSummary

\* The summary row is created, or written again, from the rows.
CountAll ==
  /\ summary' = TrueCounts(rows)
  /\ UNCHANGED rows

\* At most ChunkSize rows are written, in one step with their counters.  Rows
\* are never deleted.
WriteChunk ==
  /\ summary # NoSummary
  /\ rows' \in [Scenes -> Row \union {NoRow}]
  /\ Cardinality({s \in Scenes : rows'[s] # rows[s]}) <= ChunkSize
  /\ \A s \in Scenes : rows[s] # NoRow => rows'[s] # NoRow
  /\ summary' = TrueCounts(rows')

Next == CountAll \/ WriteChunk

Spec == Init /\ [][Next]_<<rows, summary>>
=============================================================================
