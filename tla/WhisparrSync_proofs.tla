-------------------------- MODULE WhisparrSync_proofs --------------------------
(***************************************************************************)
(* WhisparrSync for every set of scenes and of movie ids, and any number   *)
(* of changes and failures: typing, that a row with a download has a       *)
(* movie, and that a row's movie was given to its scene.                   *)
(*                                                                         *)
(* What makes the last one inductive is that ids are never given twice:    *)
(* whatever a sync or a submission has read, however old, names movies     *)
(* that were given to the scenes it names them for, and Whisparr cannot    *)
(* take that back.                                                         *)
(***************************************************************************)
EXTENDS WhisparrSync, TLAPS

-----------------------------------------------------------------------------
(* Rows. *)

\* resolveQueueLifecycleState answers a lifecycle or null.
LEMMA QueueLifecycleType ==
  ASSUME NEW movie, NEW items
  PROVE  QueueLifecycle(movie, items) \in Lifecycles \union {Null}
<1> DEFINE said == {ItemLifecycle(i) : i \in {i \in items : i.movie = movie}}
           places == {p \in DOMAIN QueuePrecedence : QueuePrecedence[p] \in said}
           first == CHOOSE p \in places : \A q \in places : p <= q
<1>1. QueueLifecycle(movie, items) = IF places = {} THEN Null ELSE QueuePrecedence[first]
  BY DEF QueueLifecycle
<1>2. places \subseteq 1..4
  BY DEF QueuePrecedence
<1>3. places # {} => \E p \in places : \A q \in places : p <= q
  <2> HIDE DEF places
  <2>1. \A p \in places : p = 1 \/ p = 2 \/ p = 3 \/ p = 4
    BY <1>2
  <2>2. CASE 1 \in places
    BY <2>1, <2>2
  <2>3. CASE 1 \notin places /\ 2 \in places
    BY <2>1, <2>3
  <2>4. CASE 1 \notin places /\ 2 \notin places /\ 3 \in places
    BY <2>1, <2>4
  <2>5. CASE 1 \notin places /\ 2 \notin places /\ 3 \notin places
    BY <2>1, <2>5
  <2> QED
    BY <2>2, <2>3, <2>4, <2>5
<1>4. places # {} => first \in 1..4
  <2> HIDE DEF places
  <2> QED
    BY <1>2, <1>3
<1>5. \A p \in 1..4 : QueuePrecedence[p] \in Lifecycles
  BY DEF QueuePrecedence, Lifecycles
<1> HIDE DEF first, places
<1> QED
  BY <1>1, <1>4, <1>5

\* resolveSceneStatus always answers a lifecycle.
LEMMA ResolveType ==
  ASSUME NEW movie, NEW hasFile, NEW items, NEW available, NEW requested
  PROVE  ResolveSceneStatus(movie, hasFile, items, available, requested) \in Lifecycles
<1>1. QueueLifecycle(movie, items) \in Lifecycles \union {Null}
  BY QueueLifecycleType
<1> QED
  BY <1>1 DEF ResolveSceneStatus, Lifecycles

\* buildSceneIndexUpsertData makes a row of a row and a patch, field by field.
LEMMA BuildRowType ==
  ASSUME NEW old \in Row \union {NoRow}, NEW patch \in Patch
  PROVE  LET from == IF old = NoRow THEN EmptyRow ELSE old
         IN /\ BuildRow(old, patch) \in Row
            /\ BuildRow(old, patch).movie = PickValue(patch.movie, from.movie)
            /\ BuildRow(old, patch).queueStatus = PickValue(patch.queueStatus, from.queueStatus)
<1> DEFINE from == IF old = NoRow THEN EmptyRow ELSE old
           merged == [request |-> PickValue(patch.request, from.request),
                      movie |-> PickValue(patch.movie, from.movie),
                      hasFile |-> PickValue(patch.hasFile, from.hasFile),
                      queueStatus |-> PickValue(patch.queueStatus, from.queueStatus),
                      queueState |-> PickValue(patch.queueState, from.queueState),
                      available |-> PickValue(patch.available, from.available),
                      metadata |-> PickValue(patch.metadata, from.metadata),
                      lifecycle |-> "NOT_REQUESTED"]
<1>1. from \in Row
  BY DEF EmptyRow, Row, MetadataStates, Lifecycles
<1>2. merged \in Row
  <2> HIDE DEF from
  <2> QED
    BY <1>1 DEF PickValue, Row, Patch, Lifecycles
<1>3. ComputeLifecycle(merged, patch.items) \in Lifecycles
  BY ResolveType DEF ComputeLifecycle
<1>4. BuildRow(old, patch) = [merged EXCEPT !.lifecycle = ComputeLifecycle(merged, patch.items)]
  BY DEF BuildRow
<1>5. /\ merged.movie = PickValue(patch.movie, from.movie)
      /\ merged.queueStatus = PickValue(patch.queueStatus, from.queueStatus)
  OBVIOUS
<1> HIDE DEF merged
<1> QED
  BY <1>2, <1>3, <1>4, <1>5 DEF Row

-----------------------------------------------------------------------------
(* The inductive invariant. *)

Snapshots == [Scenes -> Movie \union {Nothing}]
Queues == [Movies -> {Null, "downloading"}]

\* The records that the syncs and the submission keep between their steps.
Shapes ==
  /\ library \in Snapshots
  /\ queue \in Queues
  /\ nextMovie \in Nat
  /\ givenTo \in [Movies -> Scenes \union {Nothing}]
  /\ request \in [Scenes -> {Null, "REQUESTED"}]
  /\ rows \in [Scenes -> Row \union {NoRow}]
  /\ movieSync \in [pc : {"idle", "snapshot", "stale", "apply"},
                    snapshot : Snapshots, stale : SUBSET Scenes]
  /\ queueSync \in [pc : {"idle", "snapshot", "existing", "lookup", "cleared", "apply"},
                    snapshot : Queues, found : [Movies -> Found \union {Nothing}],
                    cleared : SUBSET Scenes]
  /\ submit \in [pc : {"idle", "create", "upsert", "seed", "refresh", "find", "refreshed"},
                 scene : Scenes \union {Nothing}, movie : Movie \union {Nothing}]
  /\ submit.pc # "idle" => submit.scene \in Scenes
  /\ submit.pc \in {"upsert", "seed"} => submit.movie \in Movie

\* The movie was given to the scene, and its id will not be given again.
Given(m, s) == m < nextMovie /\ givenTo[m] = s

SnapshotGiven(snapshot) ==
  \A s \in Scenes : snapshot[s] # Nothing => Given(snapshot[s].id, s)

FoundGiven ==
  \A m \in Movies : queueSync.found[m] # Nothing => Given(m, queueSync.found[m].scene)

SubmitGiven == submit.movie # Nothing => Given(submit.movie.id, submit.scene)

RowsGiven == \A s \in Scenes : Stored(s) /\ rows[s].movie # Null => Given(rows[s].movie, s)

AllGiven ==
  /\ SnapshotGiven(library) /\ SnapshotGiven(movieSync.snapshot)
  /\ FoundGiven /\ SubmitGiven /\ RowsGiven

IInv == Shapes /\ QueueNeedsMovie /\ AllGiven

-----------------------------------------------------------------------------
(* Patches. *)

\* A patch for a scene that brings no movie of another scene, and no download
\* without a movie.
GoodPatch(s, patch) ==
  /\ patch \in Patch
  /\ patch.movie \notin {Null, Undefined} => Given(patch.movie, s)
  /\ patch.movie = Null => patch.queueStatus = Null
  /\ patch.queueStatus \notin {Null, Undefined} => patch.movie \notin {Null, Undefined}

GoodPatches(patches) == \A s \in Scenes : s \in DOMAIN patches => GoodPatch(s, patches[s])

\* mergePatchesByStashId keeps patches good.
LEMMA MergeGood ==
  ASSUME NEW s, NEW first, NEW second, GoodPatch(s, first), GoodPatch(s, second)
  PROVE  GoodPatch(s, MergePatch(first, second))
<1> DEFINE merged == MergePatch(first, second)
<1>1. first \in Patch /\ second \in Patch
  BY DEF GoodPatch
<1>2. /\ DOMAIN first = {"request", "movie", "hasFile", "queueStatus", "queueState",
                         "available", "metadata", "items"}
      /\ merged = [field \in DOMAIN first |-> PickValue(second[field], first[field])]
  BY <1>1 DEF Patch, MergePatch
<1>3. merged = [request |-> PickValue(second.request, first.request),
                movie |-> PickValue(second.movie, first.movie),
                hasFile |-> PickValue(second.hasFile, first.hasFile),
                queueStatus |-> PickValue(second.queueStatus, first.queueStatus),
                queueState |-> PickValue(second.queueState, first.queueState),
                available |-> PickValue(second.available, first.available),
                metadata |-> PickValue(second.metadata, first.metadata),
                items |-> PickValue(second.items, first.items)]
  BY <1>2
<1>4. merged \in Patch
  BY <1>1, <1>3 DEF Patch, PickValue
<1>5. /\ merged.movie = PickValue(second.movie, first.movie)
      /\ merged.queueStatus = PickValue(second.queueStatus, first.queueStatus)
  BY <1>3
<1> HIDE DEF merged
<1>6. GoodPatch(s, merged)
  BY <1>4, <1>5, SyncAssumption DEF GoodPatch, PickValue
<1> QED
  BY <1>6 DEF merged

\* So does patching with two lists.
LEMMA BothGood ==
  ASSUME NEW first, NEW second, GoodPatches(first), GoodPatches(second)
  PROVE  GoodPatches(Both(first, second))
<1> SUFFICES ASSUME NEW s \in Scenes, s \in DOMAIN Both(first, second)
             PROVE  GoodPatch(s, Both(first, second)[s])
  BY DEF GoodPatches
<1>1. s \in DOMAIN first => GoodPatch(s, first[s])
  BY DEF GoodPatches
<1>2. s \in DOMAIN second => GoodPatch(s, second[s])
  BY DEF GoodPatches
<1>3. CASE s \notin DOMAIN second
  BY <1>1, <1>3 DEF Both
<1>4. CASE s \in DOMAIN second /\ s \notin DOMAIN first
  BY <1>2, <1>4 DEF Both
<1>5. CASE s \in DOMAIN second /\ s \in DOMAIN first
  BY <1>1, <1>2, <1>5, MergeGood DEF Both
<1> QED
  BY <1>3, <1>4, <1>5

\* Good patches, written while Whisparr stays as it is, keep what is said of rows.
LEMMA ApplyKeeps ==
  ASSUME rows \in [Scenes -> Row \union {NoRow}], QueueNeedsMovie, RowsGiven,
         NEW patches, GoodPatches(patches), Apply(patches), UNCHANGED whisparr
  PROVE  /\ rows' \in [Scenes -> Row \union {NoRow}]
         /\ QueueNeedsMovie' /\ RowsGiven'
<1>1. \A s \in Scenes : s \in DOMAIN patches =>
        LET from == IF rows[s] = NoRow THEN EmptyRow ELSE rows[s]
        IN /\ rows'[s] \in Row
           /\ rows'[s].movie = PickValue(patches[s].movie, from.movie)
           /\ rows'[s].queueStatus = PickValue(patches[s].queueStatus, from.queueStatus)
  BY BuildRowType DEF Apply, GoodPatches, GoodPatch
<1>2. \A s \in Scenes : s \notin DOMAIN patches => rows'[s] = rows[s]
  BY DEF Apply
<1>3. rows' \in [Scenes -> Row \union {NoRow}]
  BY <1>1, <1>2 DEF Apply
<1>4. EmptyRow.movie = Null /\ EmptyRow.queueStatus = Null
  BY DEF EmptyRow
<1>5. QueueNeedsMovie'
  <2> SUFFICES ASSUME NEW s \in Scenes, rows'[s] # NoRow, rows'[s].queueStatus # Null
               PROVE  rows'[s].movie # Null
    BY DEF QueueNeedsMovie, Stored
  <2>1. CASE s \notin DOMAIN patches
    BY <1>2, <2>1 DEF QueueNeedsMovie, Stored
  <2>2. CASE s \in DOMAIN patches
    <3>1. GoodPatch(s, patches[s])
      BY <2>2 DEF GoodPatches
    <3>2. rows[s] # NoRow /\ rows[s].queueStatus # Null => rows[s].movie # Null
      BY DEF QueueNeedsMovie, Stored
    <3> QED
      BY <1>1, <1>4, <2>2, <3>1, <3>2, SyncAssumption DEF GoodPatch, PickValue
  <2> QED
    BY <2>1, <2>2
<1>6. RowsGiven'
  <2> SUFFICES ASSUME NEW s \in Scenes, rows'[s] # NoRow, rows'[s].movie # Null
               PROVE  Given(rows'[s].movie, s)
    BY DEF RowsGiven, Stored, Given, whisparr
  <2>1. CASE s \notin DOMAIN patches
    BY <1>2, <2>1 DEF RowsGiven, Stored
  <2>2. CASE s \in DOMAIN patches
    <3>1. GoodPatch(s, patches[s])
      BY <2>2 DEF GoodPatches
    <3>2. rows[s] # NoRow /\ rows[s].movie # Null => Given(rows[s].movie, s)
      BY DEF RowsGiven, Stored
    <3> QED
      BY <1>1, <1>4, <2>2, <3>1, <3>2 DEF GoodPatch, PickValue
  <2> QED
    BY <2>1, <2>2
<1> QED
  BY <1>3, <1>5, <1>6

\* A patch of nothing but the request.
LEMMA RequestPatchGood ==
  ASSUME NEW s, NEW status \in {Null, "REQUESTED"}
  PROVE  GoodPatch(s, [NoChange EXCEPT !.request = status])
BY SyncAssumption DEF GoodPatch, NoChange, Patch, RequestStatuses

LEMMA RequestPatchesGood ==
  ASSUME Shapes
  PROVE  GoodPatches(RequestPatches)
BY RequestPatchGood DEF GoodPatches, RequestPatches, Shapes

\* What the movie sync writes names the movies of its snapshot, or none.
LEMMA MoviePatchesGood ==
  ASSUME Shapes, SnapshotGiven(movieSync.snapshot)
  PROVE  GoodPatches(MoviePatches)
<1> SUFFICES ASSUME NEW s \in Scenes, movieSync.snapshot[s] # Nothing
             PROVE  GoodPatch(s, [NoChange EXCEPT !.movie = movieSync.snapshot[s].id,
                                                  !.hasFile = movieSync.snapshot[s].hasFile])
  BY DEF GoodPatches, MoviePatches
<1>1. movieSync.snapshot[s] \in Movie /\ Given(movieSync.snapshot[s].id, s)
  BY DEF Shapes, Snapshots, SnapshotGiven
<1>2. movieSync.snapshot[s].id \in Movies /\ movieSync.snapshot[s].hasFile \in BOOLEAN
  BY <1>1 DEF Movie
<1> QED
  BY <1>1, <1>2, SyncAssumption DEF GoodPatch, NoChange, Patch

LEMMA StalePatchesGood == GoodPatches(StalePatches)
BY SyncAssumption DEF GoodPatches, GoodPatch, StalePatches, NoChange, Patch

\* What the queue sync writes names movies for the scenes they were found for.
LEMMA QueuePatchesGood ==
  ASSUME Shapes, FoundGiven, NEW last \in LastListed
  PROVE  GoodPatches(QueuePatches(last))
<1> SUFFICES ASSUME NEW s \in Scenes, last[s] # Nothing
             PROVE  GoodPatch(s, [NoChange EXCEPT
                      !.movie = last[s], !.hasFile = queueSync.found[last[s]].hasFile,
                      !.queueStatus = queueSync.snapshot[last[s]], !.queueState = Null,
                      !.items = QueueItems(last[s])])
  BY DEF GoodPatches, QueuePatches
<1>1. last[s] \in MoviesFound(s)
  BY DEF LastListed
<1>2. /\ last[s] \in Movies
      /\ queueSync.found[last[s]] # Nothing /\ queueSync.found[last[s]].scene = s
      /\ queueSync.snapshot[last[s]] # Null
  BY <1>1 DEF MoviesFound, InQueue
<1>3. queueSync.found[last[s]] \in Found /\ queueSync.snapshot[last[s]] = "downloading"
  BY <1>2 DEF Shapes, Queues
<1>4. queueSync.found[last[s]].hasFile \in BOOLEAN
  BY <1>3 DEF Found
<1>5. QueueItems(last[s]) \in SUBSET QueueItem
  BY <1>2, <1>3 DEF QueueItems, QueueItem, QueueStatuses
<1>6. Given(last[s], s)
  BY <1>2 DEF FoundGiven
<1> QED
  BY <1>2, <1>3, <1>4, <1>5, <1>6, SyncAssumption
  DEF GoodPatch, NoChange, Patch, QueueStatuses

LEMMA ClearPatchesGood == GoodPatches(ClearPatches)
BY SyncAssumption DEF GoodPatches, GoodPatch, ClearPatches, NoChange, Patch

\* seedRequestedScene writes the movie that the submission has found or created ...
LEMMA SeedPatchGood ==
  ASSUME SubmitGiven, submit.movie \in Movie, submit.movie # Nothing,
         NEW status \in {Null, "REQUESTED"}
  PROVE  GoodPatch(submit.scene,
           [NoChange EXCEPT !.request = status, !.metadata = "HYDRATED",
                            !.movie = submit.movie.id, !.hasFile = submit.movie.hasFile])
<1>1. submit.movie.id \in Movies /\ submit.movie.hasFile \in BOOLEAN
  BY DEF Movie
<1>2. Given(submit.movie.id, submit.scene)
  BY DEF SubmitGiven
<1> QED
  BY <1>1, <1>2, SyncAssumption
  DEF GoodPatch, NoChange, Patch, RequestStatuses, MetadataStates

\* ... and the refresh after it the one it has found again.
LEMMA RefreshPatchGood ==
  ASSUME SubmitGiven, submit.movie \in Movie, submit.movie # Nothing,
         NEW cleared \in {Null, Undefined}
  PROVE  GoodPatch(submit.scene,
           [NoChange EXCEPT !.movie = submit.movie.id, !.hasFile = submit.movie.hasFile,
                            !.queueStatus = cleared, !.queueState = cleared])
<1>1. submit.movie.id \in Movies /\ submit.movie.hasFile \in BOOLEAN
  BY DEF Movie
<1>2. Given(submit.movie.id, submit.scene)
  BY DEF SubmitGiven
<1> QED
  BY <1>1, <1>2, SyncAssumption DEF GoodPatch, NoChange, Patch

-----------------------------------------------------------------------------
(* Steps. *)

\* Whisparr gives every id once.
LEMMA GivenKept ==
  ASSUME Shapes, UNCHANGED <<nextMovie, givenTo>> \/ \E t \in Scenes : AddMovie(t),
         NEW m \in Movies, NEW s, Given(m, s)
  PROVE  Given(m, s)'
<1>1. CASE UNCHANGED <<nextMovie, givenTo>>
  BY <1>1 DEF Given
<1>2. ASSUME NEW t \in Scenes, AddMovie(t) PROVE Given(m, s)'
  <2>1. nextMovie \in Nat /\ m \in Nat /\ m < nextMovie
    BY SyncAssumption DEF Shapes, Given
  <2> QED
    BY <1>2, <2>1 DEF AddMovie, Given, Shapes
<1> QED
  BY <1>1, <1>2

\* What is known of Whisparr's ids stays true of everything that a step keeps.
LEMMA AllGivenKept ==
  ASSUME Shapes, AllGiven,
         UNCHANGED <<nextMovie, givenTo>> \/ \E t \in Scenes : AddMovie(t)
  PROVE  /\ movieSync'.snapshot = movieSync.snapshot => SnapshotGiven(movieSync.snapshot)'
         /\ library' = library => SnapshotGiven(library)'
         /\ queueSync'.found = queueSync.found => FoundGiven'
         /\ submit' = submit => SubmitGiven'
         /\ rows' = rows => RowsGiven'
<1>1. ASSUME NEW snapshot \in Snapshots, SnapshotGiven(snapshot), NEW s \in Scenes,
             snapshot[s] # Nothing
      PROVE  Given(snapshot[s].id, s)'
  <2>1. snapshot[s].id \in Movies /\ Given(snapshot[s].id, s)
    BY <1>1 DEF Snapshots, Movie, SnapshotGiven
  <2> QED
    BY <2>1, GivenKept
<1>2. movieSync'.snapshot = movieSync.snapshot => SnapshotGiven(movieSync.snapshot)'
  BY <1>1 DEF SnapshotGiven, AllGiven, Shapes
<1>3. library' = library => SnapshotGiven(library)'
  BY <1>1 DEF SnapshotGiven, AllGiven, Shapes
<1>4. queueSync'.found = queueSync.found => FoundGiven'
  BY GivenKept DEF FoundGiven, AllGiven
<1>5. submit' = submit => SubmitGiven'
  <2>1. submit.movie # Nothing => submit.movie.id \in Movies
    BY DEF Shapes, Movie
  <2> QED
    BY <2>1, GivenKept DEF SubmitGiven, AllGiven
<1>6. rows' = rows => RowsGiven'
  <2>1. \A s \in Scenes : Stored(s) /\ rows[s].movie # Null => rows[s].movie \in Movies
    BY DEF Shapes, Stored, Row
  <2> QED
    BY <2>1, GivenKept DEF RowsGiven, Stored, AllGiven
<1> QED
  BY <1>2, <1>3, <1>4, <1>5, <1>6

LEMMA InitIInv == Init => IInv
BY SyncAssumption
DEF Init, IInv, Shapes, Snapshots, Queues, NoMovies, NoQueue, NoFinds, MovieSyncIdle,
    QueueSyncIdle, SubmitIdle, QueueNeedsMovie, AllGiven, SnapshotGiven, FoundGiven,
    SubmitGiven, RowsGiven, Stored

\* A movie that is added is given its scene.
LEMMA AddMovieKeeps ==
  ASSUME Shapes, SnapshotGiven(library), NEW t \in Scenes, AddMovie(t)
  PROVE  /\ library' \in Snapshots /\ library'[t] \in Movie
         /\ queue' \in Queues
         /\ nextMovie' \in Nat
         /\ givenTo' \in [Movies -> Scenes \union {Nothing}]
         /\ SnapshotGiven(library)'
<1>1. nextMovie \in Movies /\ nextMovie \in Nat
  BY SyncAssumption DEF AddMovie
<1>2. library' = [library EXCEPT ![t] = [id |-> nextMovie, hasFile |-> FALSE]]
  BY DEF AddMovie
<1>3. [id |-> nextMovie, hasFile |-> FALSE] \in Movie
  BY <1>1 DEF Movie
<1>4. library' \in Snapshots /\ library'[t] \in Movie
  BY <1>2, <1>3 DEF Shapes, Snapshots
<1>5. SnapshotGiven(library)'
  <2> SUFFICES ASSUME NEW s \in Scenes, library'[s] # Nothing
               PROVE  Given(library[s].id, s)'
    BY DEF SnapshotGiven
  <2>1. CASE s = t
    BY <1>1, <1>2, <2>1 DEF Given, AddMovie, Shapes, Snapshots
  <2>2. CASE s # t
    <3>1. library'[s] = library[s] /\ library[s] \in Movie
      BY <1>2, <2>2 DEF Shapes, Snapshots
    <3>2. library[s].id \in Movies /\ Given(library[s].id, s)
      BY <3>1 DEF Movie, SnapshotGiven
    <3> QED
      BY <3>1, <3>2, GivenKept
  <2> QED
    BY <2>1, <2>2
<1> QED
  BY <1>1, <1>4, <1>5 DEF AddMovie, Shapes

\* Changes that others make in Whisparr.
LEMMA WhisparrKeeps ==
  ASSUME IInv, WhisparrChanges
  PROVE  IInv'
<1> USE DEF IInv
<1>1. PICK t \in Scenes : AddMovie(t) \/ RemoveMovie(t) \/ StartDownload(t) \/ FinishDownload(t)
  BY DEF WhisparrChanges
<1>2. UNCHANGED <<request, rows, movieSync, queueSync, submit>>
  BY DEF WhisparrChanges
<1>3. /\ library' \in Snapshots /\ queue' \in Queues /\ nextMovie' \in Nat
      /\ givenTo' \in [Movies -> Scenes \union {Nothing}]
      /\ SnapshotGiven(library)'
      /\ UNCHANGED <<nextMovie, givenTo>> \/ \E u \in Scenes : AddMovie(u)
  <2>1. CASE AddMovie(t)
    BY <2>1, AddMovieKeeps DEF AllGiven
  <2>2. CASE RemoveMovie(t)
    <3>1. /\ library' = [library EXCEPT ![t] = Nothing]
          /\ queue' = [queue EXCEPT ![library[t].id] = Null]
          /\ UNCHANGED <<nextMovie, givenTo>>
      BY <2>2 DEF RemoveMovie
    <3>2. library' \in Snapshots /\ queue' \in Queues
      BY <3>1 DEF Shapes, Snapshots, Queues
    <3>3. \A s \in Scenes : library'[s] # Nothing => library'[s] = library[s]
      BY <3>1 DEF Shapes, Snapshots
    <3>4. SnapshotGiven(library)'
      BY <3>1, <3>3 DEF SnapshotGiven, AllGiven, Given
    <3> QED
      BY <3>1, <3>2, <3>4 DEF Shapes
  <2>3. CASE StartDownload(t)
    BY <2>3 DEF StartDownload, Shapes, Queues, AllGiven, SnapshotGiven, Given
  <2>4. CASE FinishDownload(t)
    <3>1. library[t] \in Movie
      BY <2>4 DEF FinishDownload, Shapes, Snapshots
    <3>2. /\ library' = [library EXCEPT ![t] = [library[t] EXCEPT !.hasFile = TRUE]]
          /\ [library[t] EXCEPT !.hasFile = TRUE] \in Movie
          /\ [library[t] EXCEPT !.hasFile = TRUE].id = library[t].id
      <4>1. library' = [library EXCEPT ![t] = [library[t] EXCEPT !.hasFile = TRUE]]
        BY <2>4 DEF FinishDownload
      <4> QED
        BY <3>1, <4>1 DEF Movie
    <3>3. library' \in Snapshots /\ \A s \in Scenes :
            library'[s] # Nothing => library[s] # Nothing /\ library'[s].id = library[s].id
      BY <2>4, <3>2 DEF FinishDownload, Shapes, Snapshots
    <3>4. SnapshotGiven(library)'
      BY <2>4, <3>3 DEF FinishDownload, SnapshotGiven, AllGiven, Given
    <3> QED
      BY <2>4, <3>3, <3>4 DEF FinishDownload, Shapes, Queues
  <2> QED
    BY <1>1, <2>1, <2>2, <2>3, <2>4
<1>4. Shapes'
  BY <1>2, <1>3 DEF Shapes
<1>5. QueueNeedsMovie'
  BY <1>2 DEF QueueNeedsMovie, Stored
<1> QED
  BY <1>2, <1>3, <1>4, <1>5, AllGivenKept DEF AllGiven

\* performWhisparrMovieSync.
LEMMA MovieSyncKeeps ==
  ASSUME IInv, MovieSyncStep
  PROVE  IInv'
<1> USE DEF IInv
<1>1. UNCHANGED <<library, queue, nextMovie, givenTo, request, queueSync, submit>>
  BY DEF MovieSyncStep, MovieSyncStart, MovieSyncSnapshot, MovieSyncStale, MovieSyncApply,
         whisparr
<1>2. CASE MovieSyncSnapshot \/ MovieSyncStale
  <2>1. /\ movieSync' \in [pc : {"idle", "snapshot", "stale", "apply"},
                           snapshot : Snapshots, stale : SUBSET Scenes]
        /\ movieSync'.snapshot \in {movieSync.snapshot, library}
    <3>1. CASE MovieSyncSnapshot
      BY <3>1 DEF MovieSyncSnapshot, Shapes
    <3>2. CASE MovieSyncStale
      BY <3>2 DEF MovieSyncStale, Shapes
    <3> QED
      BY <1>2, <3>1, <3>2
  <2>2. UNCHANGED rows
    BY <1>2 DEF MovieSyncSnapshot, MovieSyncStale
  <2>3. SnapshotGiven(movieSync.snapshot)'
    BY <1>1, <2>1 DEF SnapshotGiven, AllGiven, Given
  <2> QED
    BY <1>1, <2>1, <2>2, <2>3, AllGivenKept DEF Shapes, AllGiven, QueueNeedsMovie, Stored
<1>3. CASE MovieSyncStart \/ MovieSyncApply
  <2>1. PICK patches : GoodPatches(patches) /\ Apply(patches)
    <3>1. CASE MovieSyncStart
      BY <3>1, RequestPatchesGood DEF MovieSyncStart
    <3>2. CASE MovieSyncApply
      BY <3>2, MoviePatchesGood, StalePatchesGood, BothGood DEF MovieSyncApply, AllGiven
    <3> QED
      BY <1>3, <3>1, <3>2
  <2>2. rows' \in [Scenes -> Row \union {NoRow}] /\ QueueNeedsMovie' /\ RowsGiven'
    BY <1>1, <2>1, ApplyKeeps DEF Shapes, AllGiven, whisparr
  <2>3. /\ movieSync' \in [pc : {"idle", "snapshot", "stale", "apply"},
                           snapshot : Snapshots, stale : SUBSET Scenes]
        /\ movieSync'.snapshot \in {movieSync.snapshot, NoMovies}
    BY <1>3 DEF MovieSyncStart, MovieSyncApply, Shapes, MovieSyncIdle, NoMovies, Snapshots
  <2>4. SnapshotGiven(movieSync.snapshot)'
    BY <1>1, <2>3 DEF SnapshotGiven, AllGiven, Given, NoMovies
  <2> QED
    BY <1>1, <2>2, <2>3, <2>4, AllGivenKept DEF Shapes, AllGiven
<1> QED
  BY <1>2, <1>3 DEF MovieSyncStep

\* performWhisparrQueueSync.
LEMMA QueueSyncKeeps ==
  ASSUME IInv, QueueSyncStep
  PROVE  IInv'
<1> USE DEF IInv
<1> DEFINE QueueSyncs == [pc : {"idle", "snapshot", "existing", "lookup", "cleared", "apply"},
                          snapshot : Queues, found : [Movies -> Found \union {Nothing}],
                          cleared : SUBSET Scenes]
<1>1. UNCHANGED <<library, queue, nextMovie, givenTo, request, movieSync, submit>>
  BY DEF QueueSyncStep, QueueSyncStart, QueueSyncSnapshot, QueueSyncExisting,
         QueueSyncLookup, QueueSyncCleared, QueueSyncApply, whisparr
<1>2. queueSync \in QueueSyncs
  BY DEF Shapes
<1>3. CASE UNCHANGED rows /\ queueSync' \in QueueSyncs /\ FoundGiven'
  BY <1>1, <1>3, AllGivenKept DEF Shapes, AllGiven, QueueNeedsMovie, Stored
<1>4. CASE QueueSyncStart \/ QueueSyncApply
  <2>1. PICK patches : GoodPatches(patches) /\ Apply(patches)
    <3>1. CASE QueueSyncStart
      BY <3>1, RequestPatchesGood DEF QueueSyncStart
    <3>2. CASE QueueSyncApply
      BY <3>2, QueuePatchesGood, ClearPatchesGood, BothGood DEF QueueSyncApply, AllGiven
    <3> QED
      BY <1>4, <3>1, <3>2
  <2>2. rows' \in [Scenes -> Row \union {NoRow}] /\ QueueNeedsMovie' /\ RowsGiven'
    BY <1>1, <2>1, ApplyKeeps DEF Shapes, AllGiven, whisparr
  <2>3. queueSync' \in QueueSyncs /\ queueSync'.found \in {queueSync.found, NoFinds}
    BY <1>2, <1>4 DEF QueueSyncStart, QueueSyncApply, QueueSyncIdle, NoQueue, NoFinds, Queues
  <2>4. FoundGiven'
    BY <1>1, <2>3 DEF FoundGiven, AllGiven, Given, NoFinds
  <2> QED
    BY <1>1, <2>2, <2>3, <2>4, AllGivenKept DEF Shapes, AllGiven
<1>5. CASE QueueSyncSnapshot \/ QueueSyncCleared
  <2>1. queueSync' \in QueueSyncs /\ queueSync'.found = queueSync.found /\ UNCHANGED rows
    <3>1. CASE QueueSyncSnapshot
      BY <1>2, <3>1 DEF QueueSyncSnapshot, Shapes
    <3>2. CASE QueueSyncCleared
      BY <1>2, <3>2 DEF QueueSyncCleared, Cleared
    <3> QED
      BY <1>5, <3>1, <3>2
  <2> QED
    BY <1>1, <1>3, <2>1, AllGivenKept
<1>6. CASE QueueSyncExisting
  <2>1. queueSync' = [queueSync EXCEPT !.pc = "lookup", !.found = queueSync'.found]
    BY <1>2, <1>6 DEF QueueSyncExisting
  <2>2. UNCHANGED rows /\ DOMAIN queueSync'.found = Movies
    BY <1>2, <1>6 DEF QueueSyncExisting
  <2>3. ASSUME NEW m \in Movies, queueSync'.found[m] # Nothing
        PROVE  queueSync'.found[m] \in Found /\ Given(m, queueSync'.found[m].scene)
    <3> DEFINE s == CHOOSE s \in RowOf(m) : TRUE
    <3>1. RowOf(m) # {} /\ queueSync'.found[m] = [scene |-> s, hasFile |-> rows[s].hasFile]
      BY <1>2, <1>6, <2>3 DEF QueueSyncExisting
    <3>2. s \in RowOf(m)
      BY <3>1
    <3>3. s \in Scenes /\ Stored(s) /\ rows[s].movie = m /\ rows[s] \in Row
      BY <3>2 DEF RowOf, Stored, Shapes
    <3>4. rows[s].hasFile \in BOOLEAN /\ Given(m, s)
      BY <3>3, SyncAssumption DEF Row, AllGiven, RowsGiven
    <3> QED
      BY <3>1, <3>3, <3>4 DEF Found
  <2>4. queueSync'.found \in [Movies -> Found \union {Nothing}]
    <3>1. queueSync'.found = [m \in Movies |-> queueSync'.found[m]]
      BY <1>2, <1>6 DEF QueueSyncExisting
    <3> QED
      BY <2>3, <3>1
  <2>5. queueSync' \in QueueSyncs
    BY <1>2, <2>1, <2>4
  <2>6. FoundGiven'
    BY <1>1, <2>3 DEF FoundGiven, Given
  <2> QED
    BY <1>3, <2>2, <2>5, <2>6
<1>7. CASE QueueSyncLookup
  <2>1. queueSync' = [queueSync EXCEPT !.pc = "cleared", !.found = queueSync'.found]
    BY <1>2, <1>7 DEF QueueSyncLookup
  <2>2. UNCHANGED rows
    BY <1>7 DEF QueueSyncLookup
  <2>3. ASSUME NEW m \in Movies, queueSync'.found[m] # queueSync.found[m]
        PROVE  queueSync'.found[m] \in Found /\ Given(m, queueSync'.found[m].scene)
    <3> DEFINE s == CHOOSE s \in SceneOf(m) : TRUE
    <3>1. /\ SceneOf(m) # {}
          /\ queueSync'.found[m] = [scene |-> s, hasFile |-> library[s].hasFile]
      BY <1>2, <1>7, <2>3 DEF QueueSyncLookup
    <3>2. s \in SceneOf(m)
      BY <3>1
    <3>3. s \in Scenes /\ library[s] # Nothing /\ library[s].id = m /\ library[s] \in Movie
      BY <3>2 DEF SceneOf, Shapes, Snapshots
    <3>4. library[s].hasFile \in BOOLEAN /\ Given(m, s)
      BY <3>3 DEF Movie, AllGiven, SnapshotGiven
    <3> QED
      BY <3>1, <3>3, <3>4 DEF Found
  <2>4. queueSync'.found \in [Movies -> Found \union {Nothing}]
    <3>1. queueSync'.found = [m \in Movies |-> queueSync'.found[m]]
      BY <1>2, <1>7 DEF QueueSyncLookup
    <3> QED
      BY <1>2, <2>3, <3>1
  <2>5. queueSync' \in QueueSyncs
    BY <1>2, <2>1, <2>4
  <2>6. FoundGiven'
    BY <1>1, <2>3 DEF FoundGiven, Given, AllGiven
  <2> QED
    BY <1>3, <2>2, <2>5, <2>6
<1> QED
  BY <1>4, <1>5, <1>6, <1>7 DEF QueueSyncStep

\* submitSceneRequest and requestImmediateRefresh.
LEMMA SubmitKeeps ==
  ASSUME IInv, SubmitStep \/ \E s \in Scenes : SubmitFind(s)
  PROVE  IInv'
<1> USE DEF IInv
<1> DEFINE Submits ==
      [pc : {"idle", "create", "upsert", "seed", "refresh", "find", "refreshed"},
       scene : Scenes \union {Nothing}, movie : Movie \union {Nothing}]
<1> DEFINE SubmitShape ==
      /\ submit \in Submits
      /\ submit.pc # "idle" => submit.scene \in Scenes
      /\ submit.pc \in {"upsert", "seed"} => submit.movie \in Movie
<1>1. UNCHANGED <<movieSync, queueSync>>
  BY DEF SubmitStep, SubmitFind, SubmitCreate, SubmitRefused, SubmitUpsertRequest, SubmitSeed,
         RefreshRequest, RefreshFind, RefreshApply
<1>2. SubmitShape
  BY DEF Shapes
<1>3. ASSUME UNCHANGED <<library, queue, nextMovie, givenTo>>, UNCHANGED rows,
             request' \in [Scenes -> {Null, "REQUESTED"}], SubmitShape', SubmitGiven'
      PROVE  IInv'
  BY <1>1, <1>3, AllGivenKept DEF Shapes, AllGiven, QueueNeedsMovie, Stored
<1>4. ASSUME NEW patches, GoodPatches(patches), Apply(patches),
             UNCHANGED <<library, queue, nextMovie, givenTo, request>>,
             SubmitShape', SubmitGiven'
      PROVE  IInv'
  <2>1. rows' \in [Scenes -> Row \union {NoRow}] /\ QueueNeedsMovie' /\ RowsGiven'
    BY <1>4, ApplyKeeps DEF Shapes, AllGiven, whisparr
  <2> QED
    BY <1>1, <1>4, <2>1, AllGivenKept DEF Shapes, AllGiven
<1>5. ASSUME NEW s \in Scenes, SubmitFind(s) PROVE IInv'
  <2>1. submit' = [pc |-> IF library[s] = Nothing THEN "create" ELSE "upsert",
                   scene |-> s, movie |-> library[s]]
    BY <1>5 DEF SubmitFind
  <2>2. library[s] \in Movie \union {Nothing}
    BY DEF Shapes, Snapshots
  <2>3. SubmitShape'
    BY <2>1, <2>2
  <2>4. library[s] # Nothing => Given(library[s].id, s)
    BY DEF AllGiven, SnapshotGiven
  <2>5. SubmitGiven'
    BY <1>5, <2>1, <2>4 DEF SubmitFind, whisparr, SubmitGiven, Given
  <2> QED
    BY <1>3, <1>5, <2>3, <2>5 DEF SubmitFind, whisparr, Shapes
<1>6. CASE SubmitCreate
  <2>1. submit.scene \in Scenes /\ AddMovie(submit.scene)
    BY <1>2, <1>6 DEF SubmitCreate
  <2>2. /\ library' \in Snapshots /\ library'[submit.scene] \in Movie /\ queue' \in Queues
        /\ nextMovie' \in Nat /\ givenTo' \in [Movies -> Scenes \union {Nothing}]
        /\ SnapshotGiven(library)'
    BY <2>1, AddMovieKeeps DEF AllGiven
  <2>3. /\ submit' = [submit EXCEPT !.pc = "upsert", !.movie = library'[submit.scene]]
        /\ UNCHANGED <<request, rows>>
    BY <1>6 DEF SubmitCreate
  <2>4. SubmitShape' /\ submit'.scene = submit.scene /\ submit'.movie = library'[submit.scene]
    BY <1>2, <2>1, <2>2, <2>3
  <2>5. SubmitGiven'
    BY <2>1, <2>2, <2>4 DEF SubmitGiven, SnapshotGiven
  <2> QED
    BY <1>1, <2>1, <2>2, <2>3, <2>4, <2>5, AllGivenKept
    DEF Shapes, AllGiven, QueueNeedsMovie, Stored
<1>7. CASE SubmitRefused
  <2>1. SubmitShape' /\ SubmitGiven'
    BY <1>7 DEF SubmitRefused, SubmitIdle, SubmitGiven
  <2> QED
    BY <1>3, <1>7, <2>1 DEF SubmitRefused, whisparr, Shapes
<1>8. CASE SubmitUpsertRequest
  <2>1. request' \in [Scenes -> {Null, "REQUESTED"}]
    BY <1>2, <1>8 DEF SubmitUpsertRequest, Shapes
  <2>2. SubmitShape' /\ submit'.movie = submit.movie /\ submit'.scene = submit.scene
    BY <1>2, <1>8 DEF SubmitUpsertRequest
  <2>3. SubmitGiven'
    BY <1>8, <2>2 DEF SubmitUpsertRequest, whisparr, SubmitGiven, AllGiven, Given
  <2> QED
    BY <1>3, <1>8, <2>1, <2>2, <2>3 DEF SubmitUpsertRequest, whisparr
<1>9. CASE SubmitSeed
  <2> DEFINE patches == [s \in {submit.scene} |->
              [NoChange EXCEPT !.request = request[s], !.metadata = "HYDRATED",
                               !.movie = submit.movie.id,
                               !.hasFile = submit.movie.hasFile]]
  <2>1. submit.scene \in Scenes /\ submit.movie \in Movie /\ submit.movie # Nothing
    BY <1>2, <1>9, SyncAssumption DEF SubmitSeed, Movie
  <2>2. GoodPatch(submit.scene, patches[submit.scene])
    <3>1. request[submit.scene] \in {Null, "REQUESTED"}
      BY <2>1 DEF Shapes
    <3> QED
      BY <2>1, <3>1, SeedPatchGood DEF AllGiven
  <2>3. GoodPatches(patches) /\ Apply(patches)
    BY <1>9, <2>2 DEF SubmitSeed, GoodPatches
  <2>4. SubmitShape' /\ submit'.movie = submit.movie /\ submit'.scene = submit.scene
    BY <1>2, <1>9 DEF SubmitSeed
  <2>5. SubmitGiven'
    BY <1>9, <2>4 DEF SubmitSeed, whisparr, SubmitGiven, AllGiven, Given
  <2> HIDE DEF patches
  <2> QED
    BY <1>4, <1>9, <2>3, <2>4, <2>5 DEF SubmitSeed, whisparr
<1>10. CASE RefreshRequest
  <2> DEFINE patches == [s \in {submit.scene} |-> [NoChange EXCEPT !.request = request[s]]]
  <2>1. submit.scene \in Scenes /\ request[submit.scene] \in {Null, "REQUESTED"}
    BY <1>2, <1>10 DEF RefreshRequest, Shapes
  <2>2. GoodPatches(patches) /\ Apply(patches)
    BY <1>10, <2>1, RequestPatchGood DEF RefreshRequest, GoodPatches
  <2>3. SubmitShape' /\ submit'.movie = submit.movie /\ submit'.scene = submit.scene
    BY <1>2, <1>10 DEF RefreshRequest
  <2>4. SubmitGiven'
    BY <1>10, <2>3 DEF RefreshRequest, whisparr, SubmitGiven, AllGiven, Given
  <2> HIDE DEF patches
  <2> QED
    BY <1>4, <1>10, <2>2, <2>3, <2>4 DEF RefreshRequest, whisparr
<1>11. CASE RefreshFind
  <2>1. submit.scene \in Scenes /\ submit' = [submit EXCEPT !.pc = "refreshed", !.movie = submit'.movie]
        /\ submit'.movie \in {library[submit.scene], Nothing}
    BY <1>2, <1>11 DEF RefreshFind
  <2>2. library[submit.scene] \in Movie \union {Nothing}
    BY <2>1 DEF Shapes, Snapshots
  <2>3. SubmitShape' /\ submit'.scene = submit.scene
    BY <1>2, <2>1, <2>2
  <2>4. SubmitGiven'
    BY <1>11, <2>1, <2>3
    DEF RefreshFind, whisparr, SubmitGiven, AllGiven, SnapshotGiven, Given
  <2> QED
    BY <1>3, <1>11, <2>3, <2>4 DEF RefreshFind, whisparr, Shapes
<1>12. CASE RefreshApply
  <2>1. SubmitShape' /\ SubmitGiven'
    BY <1>12 DEF RefreshApply, SubmitIdle, SubmitGiven
  <2>2. CASE submit.movie = Nothing
    BY <1>3, <1>12, <2>1, <2>2 DEF RefreshApply, whisparr, Shapes
  <2>3. CASE submit.movie # Nothing
    <3> DEFINE cleared == IF submit.movie.hasFile THEN Null ELSE Undefined
               patches == [s \in {submit.scene} |->
                      [NoChange EXCEPT !.movie = submit.movie.id,
                                       !.hasFile = submit.movie.hasFile,
                                       !.queueStatus = cleared, !.queueState = cleared]]
    <3>1. submit.movie \in Movie
      BY <1>2, <2>3
    <3>2. Apply(patches)
      BY <1>12, <2>3 DEF RefreshApply
    <3>3. cleared \in {Null, Undefined}
      OBVIOUS
    <3> HIDE DEF cleared
    <3>4. GoodPatch(submit.scene, patches[submit.scene])
      BY <2>3, <3>1, <3>3, RefreshPatchGood DEF AllGiven
    <3>5. GoodPatches(patches)
      BY <3>4 DEF GoodPatches
    <3> HIDE DEF patches
    <3> QED
      BY <1>4, <1>12, <2>1, <3>2, <3>5 DEF RefreshApply, whisparr
  <2> QED
    BY <2>2, <2>3
<1> QED
  BY <1>5, <1>6, <1>7, <1>8, <1>9, <1>10, <1>11, <1>12 DEF SubmitStep

\* A run that fails forgets what it has read.
LEMMA FailsKeeps ==
  ASSUME IInv, Fails
  PROVE  IInv'
<1> USE DEF IInv
<1>1. UNCHANGED <<library, queue, nextMovie, givenTo, request, rows>>
  BY DEF Fails, whisparr
<1>2. /\ movieSync' \in {movieSync, MovieSyncIdle} /\ queueSync' \in {queueSync, QueueSyncIdle}
      /\ submit' \in {submit, SubmitIdle}
  BY DEF Fails
<1>3. Shapes'
  BY <1>1, <1>2 DEF Shapes, MovieSyncIdle, NoMovies, Snapshots, QueueSyncIdle, NoQueue, NoFinds,
                    Queues, SubmitIdle
<1>4. SnapshotGiven(movieSync.snapshot)'
  BY <1>1, <1>2 DEF SnapshotGiven, AllGiven, Given, MovieSyncIdle, NoMovies
<1>5. FoundGiven'
  BY <1>1, <1>2 DEF FoundGiven, AllGiven, Given, QueueSyncIdle, NoFinds
<1>6. SubmitGiven'
  BY <1>1, <1>2 DEF SubmitGiven, AllGiven, Given, SubmitIdle
<1> QED
  BY <1>1, <1>3, <1>4, <1>5, <1>6, AllGivenKept DEF AllGiven, QueueNeedsMovie, Stored

LEMMA NextIInv == IInv /\ [Next]_vars => IInv'
<1> SUFFICES ASSUME IInv, [Next]_vars PROVE IInv'
  OBVIOUS
<1>1. CASE UNCHANGED vars
  BY <1>1, AllGivenKept
  DEF vars, whisparr, IInv, Shapes, QueueNeedsMovie, AllGiven, Stored, SnapshotGiven,
      FoundGiven, SubmitGiven, RowsGiven, Given
<1> QED
  BY <1>1, WhisparrKeeps, MovieSyncKeeps, QueueSyncKeeps, SubmitKeeps, FailsKeeps DEF Next

LEMMA Invariant == Safe => []IInv
BY InitIInv, NextIInv, PTL DEF Safe

-----------------------------------------------------------------------------
\* Every reachable state of the syncs, the submission and the index is well typed.
THEOREM Typing == Safe => []TypeOK
<1>1. IInv => TypeOK
  BY DEF IInv, Shapes, Snapshots, Queues, TypeOK
<1> QED
  BY <1>1, Invariant, PTL

\* No order in which old snapshots are written leaves a download in a row without a
\* movie, where the NOT IN of performWhisparrQueueSync would never find it.
THEOREM DownloadsHaveMovies == Safe => []QueueNeedsMovie
<1>1. IInv => QueueNeedsMovie
  BY DEF IInv
<1> QED
  BY <1>1, Invariant, PTL

\* No order in which old snapshots are written gives a row another scene's movie.
THEOREM RowsNameTheirMovies == Safe => []MovieProvenance
<1>1. IInv => MovieProvenance
  BY DEF IInv, AllGiven, RowsGiven, Given, MovieProvenance
<1> QED
  BY <1>1, Invariant, PTL
================================================================================
