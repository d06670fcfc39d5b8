---------------------------- MODULE WhisparrSync ----------------------------
(***************************************************************************)
(* The scene index against Whisparr: the periodic movie and queue syncs,   *)
(* the submission of a request with the targeted refresh it starts, and    *)
(* Whisparr itself, which users and the download client change at any      *)
(* time.                                                                   *)
(*                                                                         *)
(* Every one of them reads Whisparr and the table at some moment, and      *)
(* writes patches computed from what it read later.  Writing is one step:  *)
(* SceneIndexWrites shows that patches are applied to the present rows,    *)
(* one call after the other.  At most one run of each sync is in flight,   *)
(* as SyncLease shows while no run outlives its lease.                     *)
(***************************************************************************)
EXTENDS SceneIndexRow

CONSTANTS
  Scenes,       \* stashIds
  MaxChanges,   \* bound: changes made in Whisparr by others, and submissions
  MaxFailures,  \* bound: calls that fail, and failures of the process
  Nothing       \* no such movie, or no scene found for one

ASSUME SyncAssumption ==
  /\ Movies \subseteq Nat
  /\ Null \notin Movies
  /\ Undefined \notin Movies \union {Null}
  /\ MaxChanges \in Nat
  /\ MaxFailures \in Nat
  /\ NoRow \notin Row
  /\ Nothing \notin Scenes \union [id : Movies, hasFile : BOOLEAN]

VARIABLES
  library,      \* Whisparr: the movie of each scene
  queue,        \* Whisparr: the status of each movie's download
  nextMovie,    \* Whisparr: the id the next movie gets
  givenTo,      \* history: the scene each movie id was given to
  request,      \* the Request table
  rows,         \* the SceneIndex table
  movieSync,    \* performWhisparrMovieSync: where it stands, what it has read
  queueSync,    \* performWhisparrQueueSync
  submit,       \* submitSceneRequest, then requestImmediateRefresh
  changes, failures

whisparr == <<library, queue, nextMovie, givenTo>>
vars == <<whisparr, request, rows, movieSync, queueSync, submit, changes, failures>>

-----------------------------------------------------------------------------
Movie == [id : Movies, hasFile : BOOLEAN]
Found == [scene : Scenes, hasFile : BOOLEAN]
NoMovies == [s \in Scenes |-> Nothing]
NoFinds == [m \in Movies |-> Nothing]
NoQueue == [m \in Movies |-> Null]

MovieSyncIdle == [pc |-> "idle", snapshot |-> NoMovies, stale |-> {}]
QueueSyncIdle == [pc |-> "idle", snapshot |-> NoQueue, found |-> NoFinds, cleared |-> {}]
SubmitIdle == [pc |-> "idle", scene |-> Nothing, movie |-> Nothing]

Init ==
  /\ library = NoMovies
  /\ queue = NoQueue
  /\ nextMovie = 1
  /\ givenTo = [m \in Movies |-> Nothing]
  /\ request = [s \in Scenes |-> Null]
  /\ rows = [s \in Scenes |-> NoRow]
  /\ movieSync = MovieSyncIdle
  /\ queueSync = QueueSyncIdle
  /\ submit = SubmitIdle
  /\ changes = 0
  /\ failures = 0

-----------------------------------------------------------------------------
(* Whisparr and its users. *)

AddMovie(s) ==
  /\ library[s] = Nothing
  /\ nextMovie \in Movies
  /\ library' = [library EXCEPT ![s] = [id |-> nextMovie, hasFile |-> FALSE]]
  /\ nextMovie' = nextMovie + 1
  /\ givenTo' = [givenTo EXCEPT ![nextMovie] = s]
  /\ UNCHANGED queue

\* A movie that is removed leaves the queue; added again it has another id.
RemoveMovie(s) ==
  /\ library[s] # Nothing
  /\ library' = [library EXCEPT ![s] = Nothing]
  /\ queue' = [queue EXCEPT ![library[s].id] = Null]
  /\ UNCHANGED <<nextMovie, givenTo>>

\* A movie that has its file may be downloaded again in better quality.
StartDownload(s) ==
  /\ library[s] # Nothing
  /\ queue[library[s].id] = Null
  /\ queue' = [queue EXCEPT ![library[s].id] = "downloading"]
  /\ UNCHANGED <<library, nextMovie, givenTo>>

FinishDownload(s) ==
  /\ library[s] # Nothing
  /\ queue[library[s].id] # Null
  /\ queue' = [queue EXCEPT ![library[s].id] = Null]
  /\ library' = [library EXCEPT ![s].hasFile = TRUE]
  /\ UNCHANGED <<nextMovie, givenTo>>

WhisparrChanges ==
  /\ changes < MaxChanges
  /\ changes' = changes + 1
  /\ \E s \in Scenes :
       AddMovie(s) \/ RemoveMovie(s) \/ StartDownload(s) \/ FinishDownload(s)
  /\ UNCHANGED <<request, rows, movieSync, queueSync, submit, failures>>

-----------------------------------------------------------------------------
\* applySceneIndexPatches: patches is a function from the scenes it patches.
Apply(patches) ==
  rows' = [s \in Scenes |-> IF s \in DOMAIN patches THEN BuildRow(rows[s], patches[s])
                                                   ELSE rows[s]]

Stored(s) == rows[s] # NoRow

\* Patches of two lists, the second list's after the first's: where both patch a
\* scene they are merged in that order.
Both(first, second) ==
  [s \in DOMAIN first \union DOMAIN second |->
     IF s \notin DOMAIN second THEN first[s]
     ELSE IF s \notin DOMAIN first THEN second[s]
     ELSE MergePatch(first[s], second[s])]

\* syncRequestRows: with it both periodic syncs begin.
RequestPatches ==
  [s \in {s \in Scenes : request[s] # Null} |-> [NoChange EXCEPT !.request = request[s]]]

-----------------------------------------------------------------------------
(* performWhisparrMovieSync *)

MovieSyncStart ==
  /\ movieSync.pc = "idle"
  /\ Apply(RequestPatches)
  /\ movieSync' = [movieSync EXCEPT !.pc = "snapshot"]
  /\ UNCHANGED <<whisparr, request, queueSync, submit, changes, failures>>

MovieSyncSnapshot ==
  /\ movieSync.pc = "snapshot"
  /\ movieSync' = [movieSync EXCEPT !.pc = "stale", !.snapshot = library]
  /\ UNCHANGED <<whisparr, request, rows, queueSync, submit, changes, failures>>

SnapshotIds == {movieSync.snapshot[s].id : s \in {s \in Scenes : movieSync.snapshot[s] # Nothing}}

\* The rows whose movie the snapshot does not have.
MovieSyncStale ==
  /\ movieSync.pc = "stale"
  /\ movieSync' = [movieSync EXCEPT !.pc = "apply", !.stale =
       {s \in Scenes : Stored(s) /\ rows[s].movie # Null /\ rows[s].movie \notin SnapshotIds}]
  /\ UNCHANGED <<whisparr, request, rows, queueSync, submit, changes, failures>>

MoviePatches ==
  [s \in {s \in Scenes : movieSync.snapshot[s] # Nothing} |->
     [NoChange EXCEPT !.movie = movieSync.snapshot[s].id,
                      !.hasFile = movieSync.snapshot[s].hasFile]]

\* Fault: a movie that is gone leaves its download behind in the row.
StalePatchesKeepingQueue ==
  [s \in movieSync.stale |-> [NoChange EXCEPT !.movie = Null, !.hasFile = FALSE]]

\* Fault: rows whose movie is gone are left alone.
NoStalePatches == [s \in {} |-> NoChange]

StalePatches ==
  [s \in movieSync.stale |->
     [NoChange EXCEPT !.movie = Null, !.hasFile = FALSE,
                      !.queueStatus = Null, !.queueState = Null]]

MovieSyncApply ==
  /\ movieSync.pc = "apply"
  /\ Apply(Both(MoviePatches, StalePatches))
  /\ movieSync' = MovieSyncIdle
  /\ UNCHANGED <<whisparr, request, queueSync, submit, changes, failures>>

-----------------------------------------------------------------------------
(* performWhisparrQueueSync *)

InQueue == {m \in Movies : queueSync.snapshot[m] # Null}

QueueSyncStart ==
  /\ queueSync.pc = "idle"
  /\ Apply(RequestPatches)
  /\ queueSync' = [queueSync EXCEPT !.pc = "snapshot"]
  /\ UNCHANGED <<whisparr, request, movieSync, submit, changes, failures>>

QueueSyncSnapshot ==
  /\ queueSync.pc = "snapshot"
  /\ queueSync' = [queueSync EXCEPT !.pc = "existing", !.snapshot = queue]
  /\ UNCHANGED <<whisparr, request, rows, movieSync, submit, changes, failures>>

\* The scene of a movie is that of the row that names it ...
RowOf(m) == {s \in Scenes : Stored(s) /\ rows[s].movie = m}

QueueSyncExisting ==
  /\ queueSync.pc = "existing"
  /\ queueSync' = [queueSync EXCEPT !.pc = "lookup", !.found =
       [m \in Movies |->
          IF m \notin InQueue \/ RowOf(m) = {} THEN Nothing
          ELSE LET s == CHOOSE s \in RowOf(m) : TRUE
               IN [scene |-> s, hasFile |-> rows[s].hasFile]]]
  /\ UNCHANGED <<whisparr, request, rows, movieSync, submit, changes, failures>>

\* Fault: the answers of the lookups are not matched with the ids asked for.
SceneOfAnyAnswer(m) == {s \in Scenes : library[s] # Nothing}

\* ... and where no row does, the one Whisparr gives when asked by id.  A lookup
\* that fails, or finds nothing, leaves the movie out.
SceneOf(m) == {s \in Scenes : library[s] # Nothing /\ library[s].id = m}

QueueSyncLookup ==
  /\ queueSync.pc = "lookup"
  /\ \E failed \in SUBSET {m \in InQueue : queueSync.found[m] = Nothing} :
       queueSync' = [queueSync EXCEPT !.pc = "cleared", !.found =
         [m \in Movies |->
            IF \/ m \notin InQueue \ failed
               \/ queueSync.found[m] # Nothing
               \/ SceneOf(m) = {}
            THEN queueSync.found[m]
            ELSE LET s == CHOOSE s \in SceneOf(m) : TRUE
                 IN [scene |-> s, hasFile |-> library[s].hasFile]]]
  /\ UNCHANGED <<whisparr, request, rows, movieSync, submit, changes, failures>>

\* Fault: an empty queue clears nothing.
ClearedUnlessEmpty ==
  {s \in Scenes : /\ Stored(s)
                  /\ rows[s].queueStatus # Null
                  /\ InQueue # {}
                  /\ rows[s].movie \notin InQueue \union {Null}}

\* Rows that are in the queue no longer.  NOT IN is never true of a null movie id.
Cleared ==
  {s \in Scenes : /\ Stored(s)
                  /\ rows[s].queueStatus # Null
                  /\ InQueue # {} => rows[s].movie \notin InQueue \union {Null}}

QueueSyncCleared ==
  /\ queueSync.pc = "cleared"
  /\ queueSync' = [queueSync EXCEPT !.pc = "apply", !.cleared = Cleared]
  /\ UNCHANGED <<whisparr, request, rows, movieSync, submit, changes, failures>>

QueueItems(m) == {[movie |-> m, status |-> queueSync.snapshot[m], state |-> Null]}

MoviesFound(s) == {m \in InQueue : queueSync.found[m] # Nothing /\ queueSync.found[m].scene = s}

\* Where the queue has several movies of a scene, the last one Whisparr lists is
\* the scene's.
LastListed == {last \in [Scenes -> Movies \union {Nothing}] :
                 \A s \in Scenes : IF MoviesFound(s) = {} THEN last[s] = Nothing
                                                         ELSE last[s] \in MoviesFound(s)}

QueuePatches(last) ==
  [s \in {s \in Scenes : last[s] # Nothing} |->
     [NoChange EXCEPT !.movie = last[s], !.hasFile = queueSync.found[last[s]].hasFile,
                      !.queueStatus = queueSync.snapshot[last[s]], !.queueState = Null,
                      !.items = QueueItems(last[s])]]

ClearPatches ==
  [s \in queueSync.cleared |-> [NoChange EXCEPT !.queueStatus = Null, !.queueState = Null]]

QueueSyncApply ==
  /\ queueSync.pc = "apply"
  /\ \E last \in LastListed : Apply(Both(QueuePatches(last), ClearPatches))
  /\ queueSync' = QueueSyncIdle
  /\ UNCHANGED <<whisparr, request, movieSync, submit, changes, failures>>

-----------------------------------------------------------------------------
(* submitSceneRequest *)

\* Fault: a movie that is not there is not created.
SubmitFindOnly(s) ==
  /\ submit.pc = "idle"
  /\ changes < MaxChanges
  /\ changes' = changes + 1
  /\ submit' = [pc |-> "upsert", scene |-> s, movie |-> library[s]]
  /\ UNCHANGED <<whisparr, request, rows, movieSync, queueSync, failures>>

SubmitFind(s) ==
  /\ submit.pc = "idle"
  /\ changes < MaxChanges
  /\ changes' = changes + 1
  /\ submit' = [pc |-> IF library[s] = Nothing THEN "create" ELSE "upsert",
                scene |-> s, movie |-> library[s]]
  /\ UNCHANGED <<whisparr, request, rows, movieSync, queueSync, failures>>

\* createMovie.
SubmitCreate ==
  /\ submit.pc = "create"
  /\ AddMovie(submit.scene)
  /\ submit' = [submit EXCEPT !.pc = "upsert", !.movie = library'[submit.scene]]
  /\ UNCHANGED <<request, rows, movieSync, queueSync, changes, failures>>

\* Someone has added the movie since it was looked for: Whisparr refuses, and the
\* submission ends with that error before it has written anything.
SubmitRefused ==
  /\ submit.pc = "create"
  /\ library[submit.scene] # Nothing
  /\ submit' = SubmitIdle
  /\ UNCHANGED <<whisparr, request, rows, movieSync, queueSync, changes, failures>>

SubmitUpsertRequest ==
  /\ submit.pc = "upsert"
  /\ request' = [request EXCEPT ![submit.scene] = "REQUESTED"]
  /\ submit' = [submit EXCEPT !.pc = "seed"]
  /\ UNCHANGED <<whisparr, rows, movieSync, queueSync, changes, failures>>

\* seedRequestedScene
SubmitSeed ==
  /\ submit.pc = "seed"
  /\ Apply([s \in {submit.scene} |->
              [NoChange EXCEPT !.request = request[s], !.metadata = "HYDRATED",
                               !.movie = submit.movie.id,
                               !.hasFile = submit.movie.hasFile]])
  /\ submit' = [submit EXCEPT !.pc = "refresh"]
  /\ UNCHANGED <<whisparr, request, movieSync, queueSync, changes, failures>>

\* requestImmediateRefresh begins with the scene's request.
RefreshRequest ==
  /\ submit.pc = "refresh"
  /\ Apply([s \in {submit.scene} |-> [NoChange EXCEPT !.request = request[s]]])
  /\ submit' = [submit EXCEPT !.pc = "find"]
  /\ UNCHANGED <<whisparr, request, movieSync, queueSync, changes, failures>>

\* refreshWhisparrMoviesForStashIds asks for the movie again; a lookup that fails
\* is one that finds nothing ...
RefreshFind ==
  /\ submit.pc = "find"
  /\ \E movie \in {library[submit.scene], Nothing} :
       submit' = [submit EXCEPT !.pc = "refreshed", !.movie = movie]
  /\ UNCHANGED <<whisparr, request, rows, movieSync, queueSync, changes, failures>>

\* ... and a movie with its file has left the queue.
RefreshApply ==
  /\ submit.pc = "refreshed"
  /\ IF submit.movie = Nothing
     THEN UNCHANGED rows
     ELSE LET cleared == IF submit.movie.hasFile THEN Null ELSE Undefined
          IN Apply([s \in {submit.scene} |->
                      [NoChange EXCEPT !.movie = submit.movie.id,
                                       !.hasFile = submit.movie.hasFile,
                                       !.queueStatus = cleared, !.queueState = cleared]])
  /\ submit' = SubmitIdle
  /\ UNCHANGED <<whisparr, request, movieSync, queueSync, changes, failures>>

-----------------------------------------------------------------------------
\* A call to Whisparr or to the database fails, and the run or the submission
\* ends; or the process dies and starts again, and all of them do.
Fails ==
  /\ failures < MaxFailures
  /\ failures' = failures + 1
  /\ movieSync' \in {movieSync, MovieSyncIdle}
  /\ queueSync' \in {queueSync, QueueSyncIdle}
  /\ submit' \in {submit, SubmitIdle}
  /\ UNCHANGED <<whisparr, request, rows, changes>>

MovieSyncStep == MovieSyncStart \/ MovieSyncSnapshot \/ MovieSyncStale \/ MovieSyncApply

QueueSyncStep ==
  \/ QueueSyncStart \/ QueueSyncSnapshot \/ QueueSyncExisting
  \/ QueueSyncLookup \/ QueueSyncCleared \/ QueueSyncApply

SubmitStep ==
  \/ SubmitCreate \/ SubmitRefused \/ SubmitUpsertRequest \/ SubmitSeed
  \/ RefreshRequest \/ RefreshFind \/ RefreshApply

Next ==
  \/ WhisparrChanges
  \/ MovieSyncStep
  \/ QueueSyncStep
  \/ (\E s \in Scenes : SubmitFind(s)) \/ SubmitStep
  \/ Fails

Safe == Init /\ [][Next]_vars

\* The scheduler's timers start both syncs again and again, and every call they
\* make ends (fetchWithTimeout, and answers that have begun come to an end).
\* Nothing makes anybody submit a request.
Spec == Safe /\ WF_vars(MovieSyncStep) /\ WF_vars(QueueSyncStep)

-----------------------------------------------------------------------------
\* Every variable has its type, and a submission past its search has a movie.
TypeOK ==
  /\ library \in [Scenes -> Movie \union {Nothing}]
  /\ queue \in [Movies -> {Null, "downloading"}]
  /\ request \in [Scenes -> {Null, "REQUESTED"}]
  /\ rows \in [Scenes -> Row \union {NoRow}]
  /\ movieSync.snapshot \in [Scenes -> Movie \union {Nothing}]
  /\ movieSync.stale \subseteq Scenes
  /\ queueSync.snapshot \in [Movies -> {Null, "downloading"}]
  /\ queueSync.found \in [Movies -> Found \union {Nothing}]
  /\ queueSync.cleared \subseteq Scenes
  /\ submit.scene \in Scenes \union {Nothing}
  /\ submit.pc \in {"upsert", "seed"} => submit.movie \in Movie

\* A row with a download has a movie.  performWhisparrQueueSync relies on it: its
\* NOT IN never finds a row without a movie id, whose download would stay in the
\* row for as long as anything at all is in the queue.
QueueNeedsMovie ==
  \A s \in Scenes : Stored(s) /\ rows[s].queueStatus # Null => rows[s].movie # Null

\* A row's movie is one that Whisparr has at some time given to that scene, in
\* whatever order what was read is written.  So no two rows name one movie, and
\* the map from movies to rows of the queue sync is never ambiguous.
MovieProvenance ==
  \A s \in Scenes : Stored(s) /\ rows[s].movie # Null => givenTo[rows[s].movie] = s

\* The movie and the download in the row are those that Whisparr has.
AgreesOnMovie(s) ==
  IF library[s] = Nothing
  THEN Stored(s) => rows[s].movie = Null /\ rows[s].queueStatus = Null
  ELSE Stored(s) /\ rows[s].movie = library[s].id
                 /\ rows[s].queueStatus = queue[library[s].id]

AgreesOnFile(s) ==
  Stored(s) => (rows[s].hasFile <=> library[s] # Nothing /\ library[s].hasFile)

\* Whisparr changes, and requests are submitted, a bounded number of times.  Once
\* all is quiet the rows come to name Whisparr's movies and their downloads, and
\* keep naming them, whatever old snapshot a sync still held.
MoviesConverge == <>[](\A s \in Scenes : AgreesOnMovie(s))

\* Each row agrees with Whisparr in full again and again.  Not for ever after: the
\* queue sync writes back the hasFile it read from the row, after a movie sync may
\* have corrected it.
RowsConverge == \A s \in Scenes : []<>(AgreesOnMovie(s) /\ AgreesOnFile(s))

\* "syncs Whisparr movie snapshot into durable movie fields"
\* (indexing.service.spec.ts): once the snapshot is applied, every row names the
\* movie the snapshot gave its scene.
SnapshotStored ==
  [][MovieSyncApply =>
       \A s \in Scenes : movieSync.snapshot[s] # Nothing =>
                            rows'[s].movie = movieSync.snapshot[s].id]_vars
=============================================================================
