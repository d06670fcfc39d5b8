------------------------- MODULE SceneStatusQueries -------------------------
(***************************************************************************)
(* The status of a scene as it is shown: from its row in the index, or     *)
(* from the remote evidence that answers in time (SceneStatusService).     *)
(* There are two ways through the service, resolveForScene for one scene   *)
(* and resolveForScenes for a page of them, written separately.            *)
(***************************************************************************)
EXTENDS SceneStatus

CONSTANTS Movie, Rows  \* the id of a movie; lifecycles that rows have

QueriesAssumption == Rows \subseteq Lifecycles

\* What there is to find, and what fails, while one scene is resolved.
Evidence == [
  row : Rows \union {Null},           \* of a row fresh enough to be used
  comprehensive : BOOLEAN,            \* canResolveUnknownScenesAsNotRequested
  request : {"REQUESTED", "FAILED", Null},
  available : {"available", "missing", "failed"},  \* "failed" also without a Stash
  whisparr : BOOLEAN,                 \* Whisparr is configured
  movie : {Movie, Null, "failed"},
  hasFile : BOOLEAN,
  queue : {"empty", "downloading", "completed", "failed"}]

VARIABLES evidence, single, batch

vars == <<evidence, single, batch>>

\* The items of the movie in Whisparr's queue.
ItemsOf(queue) ==
  IF queue \in {"downloading", "completed"}
  THEN {[movie |-> Movie, status |-> queue, state |-> "downloading"]} ELSE {}

-----------------------------------------------------------------------------
Fallback(e) ==
  ResolveSceneStatus(Null, FALSE, {}, e.available = "available", e.request)

\* Fault: the movie is looked up before the local copy counts.
ResolveForSceneRemoteFirst(e) ==
  IF e.row # Null THEN e.row
  ELSE IF e.comprehensive THEN "NOT_REQUESTED"
  ELSE IF ~e.whisparr \/ e.movie = "failed" \/ e.queue = "failed"
  THEN ResolveSceneStatus(Null, FALSE, {}, FALSE, e.request)
  ELSE ResolveSceneStatus(e.movie, e.hasFile, ItemsOf(e.queue), FALSE, e.request)

\* resolveForScene: both calls to Whisparr have to succeed.
ResolveForScene(e) ==
  IF e.row # Null THEN e.row
  ELSE IF e.comprehensive THEN "NOT_REQUESTED"
  ELSE IF e.available = "available" THEN "AVAILABLE"
  ELSE IF ~e.whisparr \/ e.movie = "failed" \/ e.queue = "failed" THEN Fallback(e)
  ELSE ResolveSceneStatus(e.movie, e.hasFile, ItemsOf(e.queue), FALSE, e.request)

\* lookupWhisparrMoviesForScenes: a lookup that fails finds nothing.
MovieFound(e) == IF e.movie = "failed" THEN Null ELSE e.movie

\* resolveForScenesInternal: the fallback for all, then Whisparr for those that are not
\* available, unless its queue cannot be read.
ResolveForScenes(e) ==
  IF e.row # Null THEN e.row
  ELSE IF e.comprehensive THEN "NOT_REQUESTED"
  ELSE IF ~e.whisparr \/ e.available = "available" \/ e.queue = "failed" THEN Fallback(e)
  ELSE ResolveSceneStatus(MovieFound(e), e.hasFile, ItemsOf(e.queue), FALSE, e.request)

-----------------------------------------------------------------------------
Init == evidence \in Evidence /\ single = Null /\ batch = Null

\* The page of the scene asks.
AskSingle ==
  /\ single = Null
  /\ single' = ResolveForScene(evidence)
  /\ UNCHANGED <<evidence, batch>>

\* A list with the scene asks.
AskBatch ==
  /\ batch = Null
  /\ batch' = ResolveForScenes(evidence)
  /\ UNCHANGED <<evidence, single>>

Next == AskSingle \/ AskBatch

TypeOK ==
  /\ evidence \in Evidence
  /\ {single, batch} \subseteq Lifecycles \union {Null}

\* A list and the page of a scene show the same status for the same evidence, whichever
\* of the remote calls fail.
SingleAgreesWithBatch ==
  single # Null /\ batch # Null => single = batch
=============================================================================
