------------------------------ MODULE QueueScan ------------------------------
(***************************************************************************)
(* The loop of resolveQueueLifecycleState over one queue snapshot, item by *)
(* item in any order, with its three flags and its early return; and the   *)
(* question whether the item that the scene index stores stands for the    *)
(* snapshot it was chosen from.                                            *)
(***************************************************************************)
EXTENDS SceneStatus, FiniteSets

CONSTANTS
  Movie,        \* the movie whose lifecycle is asked for
  Items,        \* the queue items snapshots are made of
  MaxItems      \* bound: items in a snapshot

ScanAssumption ==
  /\ Null \notin Lifecycles \union QueueStatuses \union {"none"}
  /\ Movie # Null

VARIABLES
  snapshot,     \* queueItems
  unread,       \* the items the loop has not reached
  flags,        \* hasRequestedState, hasDownloadingState, hasImportPendingState
  answer        \* what the function returned; "none" while the loop runs

vars == <<snapshot, unread, flags, answer>>

Own(items) == {i \in items : i.movie = Movie}

Snapshots == {s \in SUBSET Items : Cardinality(s) <= MaxItems}

Init ==
  /\ snapshot \in Snapshots
  /\ unread = snapshot
  /\ flags = {}
  /\ answer = "none"

\* An item of another movie, without a status, or with one the code does not
\* know is passed over.
PassOver(item) ==
  /\ \/ item.movie # Movie
     \/ item.status = Null
     \/ item.status \notin FailedQueueStatuses \union {"completed", "queued", "downloading"}
  /\ UNCHANGED <<flags, answer>>

ReturnFailed(item) ==
  /\ item.movie = Movie /\ item.status \in FailedQueueStatuses
  /\ answer' = "FAILED"
  /\ UNCHANGED flags

RaiseFlag(item) ==
  /\ item.movie = Movie
  /\ \/ /\ item.status = "completed"
        /\ flags' = flags \union {"IMPORT_PENDING"}
     \/ /\ item.status = "queued"
        /\ flags' = flags \union {"REQUESTED"}
     \/ /\ item.status = "downloading"
        /\ flags' = flags \union
             {IF item.state \in ImportStates THEN "IMPORT_PENDING" ELSE "DOWNLOADING"}
  /\ UNCHANGED answer

ReadItem ==
  /\ answer = "none"
  /\ \E item \in unread :
       /\ unread' = unread \ {item}
       /\ PassOver(item) \/ ReturnFailed(item) \/ RaiseFlag(item)
  /\ UNCHANGED snapshot

\* After the loop the flags are asked in this order.
ReturnFlag ==
  /\ answer = "none" /\ unread = {}
  /\ answer' = IF "IMPORT_PENDING" \in flags THEN "IMPORT_PENDING"
               ELSE IF "DOWNLOADING" \in flags THEN "DOWNLOADING"
               ELSE IF "REQUESTED" \in flags THEN "REQUESTED"
               ELSE Null
  /\ UNCHANGED <<snapshot, unread, flags>>

Next == ReadItem \/ ReturnFlag

Spec == Init /\ [][Next]_vars

-----------------------------------------------------------------------------
\* Whatever order Whisparr lists the items in, and wherever the loop of
\* resolveQueueLifecycleState returns, its answer is the one that the other
\* modules of the model use.
ScanMatchesResolver == answer # "none" => answer = QueueLifecycle(Movie, snapshot)

StoredLifecycle(item) ==
  QueueLifecycle(Movie, SynthesizedItems(Movie, item.status, item.state))

\* "Queue status is the primary operational signal" (scene-status.resolver.ts):
\* the one item that summarizeQueueItems stores resolves to the lifecycle of the
\* whole queue, so a row recomputed from its columns keeps its lifecycle.
StoredItemResolvesAlike ==
  \A item \in Selectable(Own(snapshot)) :
    StoredLifecycle(item) = QueueLifecycle(Movie, snapshot)

\* The same, for the queues in which only an item that is downloading, done or
\* failed is in an import state.
HealthyItemResolvesAlike ==
  (\A i \in Own(snapshot) :
     i.state \in ImportStates =>
       i.status \in FailedQueueStatuses \union {"completed", "downloading"})
  => StoredItemResolvesAlike
=============================================================================
