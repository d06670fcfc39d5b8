----------------------------- MODULE SceneStatus -----------------------------
(***************************************************************************)
(* How a scene's lifecycle is computed from evidence                       *)
(* (scene-status.resolver.ts), and how the scene index compresses the      *)
(* items of Whisparr's download queue into the two columns it stores and   *)
(* expands them again (indexing.service.ts).                               *)
(*                                                                         *)
(* A queue item is a record [movie, status, state].  Statuses and tracked  *)
(* download states are the values the code tells apart; "delay" stands for *)
(* every status it does not know, "downloading" for every tracked state    *)
(* that is not an import state.                                            *)
(***************************************************************************)
EXTENDS Integers

CONSTANT Null

Lifecycles == {"NOT_REQUESTED", "REQUESTED", "DOWNLOADING", "IMPORT_PENDING",
               "AVAILABLE", "FAILED"}

RequestStatuses == {"REQUESTED", "PROCESSING", "AVAILABLE", "FAILED"}

FailedQueueStatuses == {"failed", "warning", "paused"}
QueueStatuses == FailedQueueStatuses \union {"completed", "queued", "downloading", "delay"}

ImportStates == {"importPending", "importing"}
DownloadStates == ImportStates \union {"downloading"}

-----------------------------------------------------------------------------
\* What one queue item says about the scene, by its status first; the state
\* only refines a healthy download.
ItemLifecycle(item) ==
  CASE item.status \in FailedQueueStatuses -> "FAILED"
    [] item.status = "completed" -> "IMPORT_PENDING"
    [] item.status = "queued" -> "REQUESTED"
    [] item.status = "downloading" /\ item.state \in ImportStates -> "IMPORT_PENDING"
    [] item.status = "downloading" /\ item.state \notin ImportStates -> "DOWNLOADING"
    [] OTHER -> Null

\* Fault: an active download hides items that wait for import.
DownloadFirstPrecedence == <<"FAILED", "DOWNLOADING", "IMPORT_PENDING", "REQUESTED">>

\* Precedence of the items of one movie, the strongest first.
QueuePrecedence == <<"FAILED", "IMPORT_PENDING", "DOWNLOADING", "REQUESTED">>

\* resolveQueueLifecycleState: the strongest lifecycle of the movie's items,
\* Null when none of them says anything.
QueueLifecycle(movie, items) ==
  LET said == {ItemLifecycle(i) : i \in {i \in items : i.movie = movie}}
      places == {p \in DOMAIN QueuePrecedence : QueuePrecedence[p] \in said}
  IN IF places = {} THEN Null
     ELSE QueuePrecedence[CHOOSE p \in places : \A q \in places : p <= q]

\* resolveSceneStatus.  A local copy outweighs Whisparr, Whisparr outweighs the
\* row of the last request.
ResolveSceneStatus(movie, hasFile, items, available, request) ==
  IF available THEN "AVAILABLE"
  ELSE IF movie # Null
  THEN LET queued == QueueLifecycle(movie, items)
       IN IF queued # Null THEN queued
          ELSE IF hasFile THEN "IMPORT_PENDING" ELSE "REQUESTED"
  ELSE IF request = "FAILED" THEN "FAILED"
  ELSE IF request = Null THEN "NOT_REQUESTED" ELSE "REQUESTED"

-----------------------------------------------------------------------------
\* Fault: only completed items rank as waiting for import.
RankByStatus(item) ==
  CASE item.status \in FailedQueueStatuses -> 0
    [] item.status = "completed" -> 1
    [] item.status = "downloading" -> 2
    [] item.status = "queued" -> 3
    [] OTHER -> 4

\* rankQueueItem: the item that stands for the others has the least rank.
Rank(item) ==
  CASE item.status \in FailedQueueStatuses -> 0
    [] item.status \notin FailedQueueStatuses
         /\ (item.status = "completed" \/ item.state \in ImportStates) -> 1
    [] item.status = "downloading" /\ item.state \notin ImportStates -> 2
    [] item.status = "queued" /\ item.state \notin ImportStates -> 3
    [] OTHER -> 4

\* summarizeQueueItems: the items one of which is stored.  The sort is stable,
\* so which item of least rank it is depends on the order Whisparr sent them in.
Selectable(items) ==
  {i \in items : \A other \in items : Rank(i) <= Rank(other)}

\* synthesizeQueueItems: the queue the stored columns stand for.
SynthesizedItems(movie, status, state) ==
  IF movie = Null \/ status = Null THEN {}
  ELSE {[movie |-> movie, status |-> status, state |-> state]}
=============================================================================
