---------------------------- MODULE SceneIndexRow ----------------------------
(***************************************************************************)
(* A row of the scene index, the patches that change it, and the counters  *)
(* that SceneIndexSummary keeps over all rows.                             *)
(*                                                                         *)
(* A row holds the evidence of each source (request, Whisparr movie and    *)
(* queue, local library), the state of its metadata, and the lifecycle     *)
(* computed from them.  Columns that nothing decides on (titles, images,   *)
(* the sort order, which is a function of the lifecycle) are left out, and *)
(* a boolean column that is null counts as false, as every reader takes it.*)
(***************************************************************************)
EXTENDS SceneStatus, FiniteSets

CONSTANTS
  Movies,       \* Whisparr movie ids
  Undefined,    \* a field that a patch does not mention
  NoRow         \* no row for the scene

MetadataStates == {"PENDING", "HYDRATED", "FAILED_RETRYABLE"}

Row == [request : RequestStatuses \union {Null},
        movie : Movies \union {Null},
        hasFile : BOOLEAN,
        queueStatus : QueueStatuses \union {Null},
        queueState : DownloadStates \union {Null},
        available : BOOLEAN,
        metadata : MetadataStates,
        lifecycle : Lifecycles]

QueueItem == [movie : Movies, status : QueueStatuses \union {Null},
              state : DownloadStates \union {Null}]

\* items is not a column: it is the entry of queueItemsByStashId that the queue
\* sync passes along with the patch.
Patch == [request : RequestStatuses \union {Null, Undefined},
          movie : Movies \union {Null, Undefined},
          hasFile : BOOLEAN \union {Undefined},
          queueStatus : QueueStatuses \union {Null, Undefined},
          queueState : DownloadStates \union {Null, Undefined},
          available : BOOLEAN \union {Undefined},
          metadata : MetadataStates \union {Undefined},
          items : (SUBSET QueueItem) \union {Undefined}]

NoChange == [request |-> Undefined, movie |-> Undefined, hasFile |-> Undefined,
             queueStatus |-> Undefined, queueState |-> Undefined,
             available |-> Undefined, metadata |-> Undefined, items |-> Undefined]

\* What a scene without a row is patched from.
EmptyRow == [request |-> Null, movie |-> Null, hasFile |-> FALSE,
             queueStatus |-> Null, queueState |-> Null, available |-> FALSE,
             metadata |-> "PENDING", lifecycle |-> "NOT_REQUESTED"]

-----------------------------------------------------------------------------
PickValue(new, old) == IF new = Undefined THEN old ELSE new

\* mergePatchesByStashId, for two patches of one scene: the later one wins
\* field by field.  (The code spreads the later object over the earlier, so a key
\* it holds with the value undefined wins too; the only caller that brings such
\* keys, the targeted refresh, brings one patch for a scene.)
MergePatch(first, second) ==
  [field \in DOMAIN first |-> PickValue(second[field], first[field])]

\* computeLifecycle: from the queue items at hand, else from the stored ones.
ComputeLifecycle(row, items) ==
  ResolveSceneStatus(
    row.movie, row.hasFile,
    IF items # Undefined THEN items
    ELSE SynthesizedItems(row.movie, row.queueStatus, row.queueState),
    row.available, row.request)

\* buildSceneIndexUpsertData: the row that replaces the existing one.
BuildRow(existing, patch) ==
  LET old == IF existing = NoRow THEN EmptyRow ELSE existing
      merged == [request |-> PickValue(patch.request, old.request),
                 movie |-> PickValue(patch.movie, old.movie),
                 hasFile |-> PickValue(patch.hasFile, old.hasFile),
                 queueStatus |-> PickValue(patch.queueStatus, old.queueStatus),
                 queueState |-> PickValue(patch.queueState, old.queueState),
                 available |-> PickValue(patch.available, old.available),
                 metadata |-> PickValue(patch.metadata, old.metadata),
                 lifecycle |-> "NOT_REQUESTED"]
  IN [merged EXCEPT !.lifecycle = ComputeLifecycle(merged, patch.items)]

-----------------------------------------------------------------------------
AcquisitionLifecycles == {"REQUESTED", "DOWNLOADING", "IMPORT_PENDING", "FAILED"}

Counters == {"indexedScenes", "acquisitionTrackedScenes", "requestedCount",
             "downloadingCount", "importPendingCount", "failedCount",
             "metadataPendingCount", "metadataRetryableCount"}

\* Whether a counter counts a row.
Counts(counter, row) ==
  /\ row # NoRow
  /\ CASE counter = "indexedScenes" -> TRUE
       [] counter = "acquisitionTrackedScenes" -> row.lifecycle \in AcquisitionLifecycles
       [] counter = "requestedCount" -> row.lifecycle = "REQUESTED"
       [] counter = "downloadingCount" -> row.lifecycle = "DOWNLOADING"
       [] counter = "importPendingCount" -> row.lifecycle = "IMPORT_PENDING"
       [] counter = "failedCount" -> row.lifecycle = "FAILED"
       [] counter = "metadataPendingCount" -> row.metadata = "PENDING"
       [] counter = "metadataRetryableCount" -> row.metadata = "FAILED_RETRYABLE"

\* The number of the given scenes whose rows a counter counts.
Total(counter, scenes, rows) ==
  Cardinality({s \in scenes : Counts(counter, rows[s])})

TrueCounts(rows) == [c \in Counters |-> Total(c, DOMAIN rows, rows)]

\* rebuildSceneIndexSummary counts rows for every counter but one: the tracked
\* scenes are the sum of the four acquisition lifecycles.
RebuiltCounts(rows) ==
  [c \in Counters |->
     IF c = "acquisitionTrackedScenes"
     THEN Total("requestedCount", DOMAIN rows, rows)
            + Total("downloadingCount", DOMAIN rows, rows)
            + Total("importPendingCount", DOMAIN rows, rows)
            + Total("failedCount", DOMAIN rows, rows)
     ELSE Total(c, DOMAIN rows, rows)]

\* Fault: a patched scene is counted again, as if it had had no row.
DeltaOfAdditions(scenes, old, new) ==
  [c \in Counters |-> Total(c, scenes, new)]

\* buildSceneIndexSummaryDelta over a chunk: each counter moves by what the
\* chunk's new rows count minus what the rows they replace counted.
Delta(scenes, old, new) ==
  [c \in Counters |-> Total(c, scenes, new) - Total(c, scenes, old)]
=============================================================================
