-------------------------- MODULE MCSceneIndexWrites --------------------------
(***************************************************************************)
(* SceneIndexWrites for TLC: three scenes, two to a chunk, and the kinds   *)
(* of batches whose order matters to a row.                                *)
(***************************************************************************)
EXTENDS SceneIndexWrites

CONSTANTS w1, w2, r1

\* syncRequestRows over every scene: two chunks.
RequestRows == [s \in 1..3 |-> [NoChange EXCEPT !.request = "REQUESTED"]]

\* A scene that Whisparr starts to download, and one whose hydration failed.
QueueAndMetadata ==
  [s \in {1, 3} |->
     IF s = 1 THEN [NoChange EXCEPT !.movie = 7, !.hasFile = FALSE,
                                    !.queueStatus = "downloading"]
              ELSE [NoChange EXCEPT !.metadata = "FAILED_RETRYABLE"]]

MCBatches == {RequestRows, QueueAndMetadata, NoBatch}

\* Rows from before the summary table existed.
OldRow == [EmptyRow EXCEPT !.movie = 7, !.hasFile = TRUE, !.lifecycle = "IMPORT_PENDING"]

MCInitialTables == {[s \in 1..3 |-> NoRow], [s \in 1..3 |-> IF s = 1 THEN OldRow ELSE NoRow]}
=============================================================================
