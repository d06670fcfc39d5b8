# Verification of stasharr-portal

Stasharr (apps/sp-api, apps/sp-web) discovers scenes through a catalog provider,
sends acquisitions to Whisparr and checks them against a local Stash library. Its
API keeps a *scene index*: one row per scene that gathers what every source says of
it. Background jobs, requests of users and targeted refreshes all write that index
while the sources change; the web application pages through what comes of it. This
directory models that machinery in TLA+, checks it with TLC, and proves with TLAPS the
safety properties of everything that writes the index, of the services around it, of
the sessions of its users and of the home page with its rails.

Paths below are relative to `src/apps/sp-api/src` unless they begin with `src/`.

## The system

| Component | State | Operations | Interacts with | What is hard | What makes it correct |
|---|---|---|---|---|---|
| Sync leases (`indexing/sync-state.service.ts`) and scheduler (`indexing/indexing.scheduler.ts`) | `SyncState` rows, `runningJobs` | acquire, markSuccess, markFailure; timers, manual sync, bootstrap | every indexing job | runs that outlive their lease, crashes, failed marks, clocks read early | runs of a job exclude each other; every job comes back |
| Lifecycle resolver (`scene-status/scene-status.resolver.ts`) | none | resolveSceneStatus, resolveQueueLifecycleState | index writes, status queries | order of queue items, early return; the stored summary of a queue | the answer depends on the set of items only |
| Scene index writes (`indexing/indexing.service.ts`) | `SceneIndex`, `SceneIndexSummary`, the write barrier | applySceneIndexPatches, summary rebuild | all writers; feeds read the result | callers interleave at every await, chunks fail, deadlocks retry | present rows are patched, counters are exact |
| Whisparr syncs and targeted refresh (same file) | what each run has read | movie sync, queue sync, refresh | Whisparr, index writes, requests | everything read is old when written | rows name their own movies and come to agree with Whisparr |
| Requests (`requests/requests.service.ts`) | `Request` rows | submitSceneRequest | Whisparr, seed, refresh | failure between creating the movie and the rows | no request and no movie is lost |
| Library projection and availability (same indexing file) | `LibrarySceneIndex`, `stashAvailable` | paged upsert, delete the unseen, availability patches | Stash, index writes | the library changes while it is paged | rows and flags agree with the library |
| Metadata hydration (same file) | claims in flight, retry times, cursor, cached check time | hydrate, backfill | catalog provider, index writes | two hydrations of a scene, starvation behind the cursor | each scene once, every pending row at last |
| Bootstrap, manual sync, freshness (same file) | none of their own | nested jobs, canResolveUnknownScenesAsNotRequested | leases, status queries | a nested job whose lease is held is skipped silently; scenes appear while a sync reads | a scene is shown as not requested only when no source has it, but for slow syncs |
| Runtime health (`runtime-health/`) | health rows, cache | recordFailure, recordSuccess, clear | all adapters | cache read before an await | a lone failure never degrades a service |
| Integrations (`integrations/`, `providers/catalog/`) | `IntegrationConfig` | save, test, reset, probe | runtime health | check then act, tests that overlap saves, rows inserted side by side | one catalog provider at most, but for first saves (finding 4); what is used has answered a test |
| Scene status queries (`scene-status/scene-status.service.ts`) | cache, lookups in flight | resolveForScene(s) | Stash, Whisparr, resolver | shared lookups, expiry, eviction; two ways to one answer | no answer older than the cache allows; both ways agree |
| Authentication (`auth/`) | `AdminUser`, `AdminSession`, attempts | bootstrap, login, logout, change of password | every request | the session version is read before awaits | one administrator, old sessions end |
| Home rails (`home/`) | `HomeRail` | create, update, order, delete | home page | concurrent edits of the order | an arrangement outlives what comes after it |
| Feeds (hybrid, acquisition, library, catalog browsing) | none | paging, scanning, counting | summary, index rows, providers | lists that change while they are paged, totals against rows | each scene once, in order, up to where one scrolled |
| Adapters (`providers/`) | none | HTTP, parsing, paging | outside services, runtime health | paging while the other side changes | what stays is read |
| Web pages (`src/apps/sp-web`) | signals of a component | filters, scrolling, favorites, the rail editor | feeds, the address bar, timers | answers that come after what they were asked for has changed | the page shows what is selected |
| Setup, container start | none, or one file | — | API | — | — |

`PROJECT.json` lists every component with its status, and every hazard with its line
and the properties that watch it.

## Modules

| Module | Role |
|---|---|
| `SyncLease` | leases and scheduler: calls of runWithLease step by step, clock, failed queries, restart |
| `SyncLease_proofs` | its theorems |
| `SceneStatus` | pure operators: the resolver, and how the index compresses a queue into two columns |
| `QueueScan` | the resolver's loop over one snapshot, against those operators |
| `SceneIndexRow` | pure operators: rows, patches, building a row, counters and deltas |
| `SceneIndexStore` | abstract specification: rows change a chunk at a time, the summary counts them at every instant |
| `SceneIndexWrites` | applySceneIndexPatches in full; implements the store |
| `SceneIndexWrites_proofs` | its theorems, and the refinement of the store |
| `WhisparrSync` | Whisparr, the two syncs, submission and refresh over `SceneIndexRow` |
| `WhisparrSync_proofs` | its theorems |
| `MetadataHydration` | the backfill, hydration on demand, a provider that is switched |
| `MetadataHydration_proofs` | its theorems |
| `LibraryProjection` | the paged pass over Stash, the rows and flags it writes, the targeted refresh |
| `LibraryProjection_proofs` | its theorems |
| `IndexFreshness` | bootstrap and syncs as far as their age lets unknown scenes be answered for |
| `AvailabilityCache` | the cache and the shared lookups of scene status queries |
| `SceneStatusQueries` | the two ways from evidence to a status, over `SceneStatus` |
| `Integrations` | saved connections, tests, resets, the choice of the catalog provider |
| `ProviderHealth` | failures and successes of a service, its row and its cached copy |
| `QueuePaging` | Whisparr's queue, read page by page while it changes |
| `Authentication` | the administrator's password, sessions and login cooldown |
| `HomeRails` | the order of the rails under overlapping requests |
| `HybridRail` | the scan that fills a hybrid rail |
| `FeedControl` | pure operators: the list of a page that loads more as one scrolls |
| `ScenesPage`, `LibraryPage`, `PerformersPage`, `PerformerPage`, `AcquisitionPage` | pages over `FeedControl`, each with what is its own |
| `HomePage` | loading, drafting, saving, creating, deleting and requesting on the home page |
| `Services` | six services that share no state, and the resolver's loop; a behaviour runs one of the seven |
| `Services_proofs` | the theorems of all seven |
| `Pages` | sessions, rails and pages, likewise |
| `Pages_proofs` | the theorems of all its parts |
| `MC…` | values of constants for TLC |

`WhisparrSync` composes the others by what they establish: a write is one atomic step
on the present rows (`CacheCoherent`, `BarrierIsFair` of `SceneIndexWrites`), and each
sync has one run at a time (`ExclusiveUnlessOverrun` of `SyncLease`). Where that
premise fails, in a run that outlives its lease, `WhisparrSync` says nothing.
`MetadataHydration`, `LibraryProjection` and `IndexFreshness` rest on the same two
premises; `QueuePaging` says when the one-step snapshot of `WhisparrSync` is a fair
picture (no download left or moved while it was read), `AcquisitionPage` takes the
summary as `SceneIndexStore` promises it, and `HomePage` takes the requests of
`HomeRails` as single steps.

### SyncLease

One slot of `run` is one call of runWithLease; its `pc` names the next query of
tryAcquireLease, the handler, or the mark it ends with. `lease[j]` is `leaseUntil`
relative to the present. `age` is how long ago the call read its clock: the upsert
comes between reading it and using it. `runningJobs` is the scheduler's set, which
only calls by timers enter. `overran` is a history variable: since the job was last
quiet, a run was in flight beyond its lease. A failed query ends the call where the
code has no handler for it, and turns markSuccess into markFailure where it has one.

Time is measured in ticks. A lease that ran out `MaxDelay` ticks ago counts as
expired for every clock reading still in use, so remaining times are cut off there.

### SceneStatus and QueueScan

The statuses are those the code distinguishes; `delay` stands for every other one,
and the tracked state `downloading` for every state that is not an import state.
`QueueScan` reads items in any order with the three flags and the early return of the
code.

### SceneIndexRow, SceneIndexStore, SceneIndexWrites

Columns on which nothing decides are left out: titles and images, timestamps, and the
sort order, which is a function of the lifecycle. The queue position is set and
cleared together with the queue status, which stands for both. A null boolean column
counts as false, as every reader takes it.

A writer's steps are the awaits of the code: the barrier, the search for the summary,
the rebuild's two transactions, the query for existing rows, and each chunk's
transaction. A transaction is one step that may commit, be rolled back as a deadlock's
victim, or fail. Readers are callers of getSceneIndexSummary and bootstrapIndex, which
run the same rebuild outside the barrier; their queries before and after it are not
told apart. `raced` is a history variable: counts that a chunk had overtaken were
stored. That is possible (a reader's rebuild on a fresh install, while the first
writer goes on), and nothing counts again afterwards; `SummaryExact` and the
refinement are stated up to it.

### WhisparrSync

A sync's steps are again its awaits. Whisparr's library gives each scene at most one
movie and never gives an id twice; its users add and remove movies, releases are
downloaded and imported at any moment. A snapshot (of all movies; of the queue) is one
step. A lookup by id may fail, for any subset of the ids. A scene that the queue
mentions under several movies takes the last one listed. Submission goes on from the
search for the movie to the end of the refresh it starts, one submission at a time; a
submission may stop for good at any point. Queues hold the status `downloading` only:
other statuses change lifecycles, which `QueueScan` covers, not what is written when.
Whisparr answers a creation with the new id.

### MetadataHydration

A hydration is the backfill's or one that a page or a request starts. Its steps are
claiming (which the code does without an await), each batch's request, one call of
applySceneIndexPatches for all answers, and giving the claims back. Rows carry the age
of the answer they hold; `metadataLastSyncedAt` and `metadataRetryAfterAt` both follow
from it. The backfill's cursor wraps once, and `nextMetadataBackfillCheckAt` holds off
the timer unless a row that is due invalidates it. The provider may be taken away and
come back; in-flight hydrations go on with the one they read.

### LibraryProjection

Stash lists its scenes by the time of their last update, so an edit moves a scene to
the front and shifts the rest. A page is read in one step and written in another, the
unseen rows are deleted in a third, and availability is found and applied in two more,
which fail apart from each other; a deletion whose query was lost may have been carried out
all the same (`DeletionLeft`). `since` remembers what happened to the library during
the pass. The refresh of single scenes asks Stash and writes later, at any moment. A
pass that a crash or a timeout leaves behind ends as a straggler. Passes that overlap
are excluded (the lease is 20 minutes). Of several ids that a scene has with one provider
a pass takes the first and the refresh any: the two disagree about the others, so a pass
that a refresh disturbed is not claimed to be exact.

### The services

`IndexFreshness`: each sync is a step that reads its source and one that writes; ages
are ticks. A row takes the time at which its writer *began* (`indexing.service.ts:1754`),
so a sync that began earlier may make a row older that another has just written. Nothing
in the code limits how long a sync takes, and nothing does here. A success is trusted for 20
minutes from its end, a row is usable for 30 from when it was stamped
(`indexing.service.ts:146`), so the rows of a sync that takes more than ten go stale first,
and unknown scenes are answered for wrongly until its next run begins.
`UnknownAbsentUnlessSlow` says where they are not: `stamped` is how old a row's time was when
it was written, by whichever sync wrote it last, `waited` how long after its rows a success
was stored, and if both together leave what the success is trusted for (ten minutes or less,
by the code's limits), no scene is answered for wrongly.

`AvailabilityCache`: a key is the configured Stash and a scene; a caller
waits for every lookup it started or joined. `SceneStatusQueries`: both ways over all
combinations of what the index, Whisparr and Stash answer or fail to answer.
`Integrations`: a connection is address and key together; each query is a step. The
transaction of a save or a test is two: `ResetOthers`, the updateMany of the other
provider's row, and the upsert with the commit. No isolation level is chosen, so that
PostgreSQL's READ COMMITTED applies: the updateMany waits for a row that another transaction
holds (`locked`), and holds what it resets until the commit, but does not see a row that is
not `present` or is just being inserted. A deadlock ends with one of the two told of an
error. `missed` is a history variable: the last transaction to commit an address left out
the other provider's row, which had been inserted after it began.
`ProviderHealth`: `record` is the row, `cached` the copy; `since` counts failures since
the last recovery, and a recovery that another recording overlapped does not count.
Names, and whether Whisparr's connection is `enabled`, are left out. Both catalog
providers may be *selected* at once by a race, or by a test without an address that
locks the other until a reset; `OneCatalogProvider` is about addresses. It is violated on
a fresh database (finding 4), and `OneProviderUnlessMissed` is what remains of it.

### Authentication, HomeRails, HybridRail

Reading the administrator, hashing and writing are steps apart. Two changes of the
password that overlap write the same version and leave each other's sessions alive;
`overlapped` exempts them. The two counters of failed logins are one, and the cookie's
signature is left out.

`HomeRails` keeps the places of rails only: a missing default is created at its fixed
place and may tie with a custom rail, hybrid rails keep places without being listed. A
payload may name the rails in any order. `arranged` is a history variable, the pairs of
rails that the last arrangement put one before the other. A deletion reads the rails and
renumbers them later (`home.service.ts:517`); when another request gives rails their places
in between, the two numberings mix, and `crossed` exempts this. An arrangement saved there
shows it at once. Two deletions that overlap need more: a rail created at a last place that
was read before a deletion and is taken twice, so that ties are listed in either order;
seven requests together, which the proof of `ArrangementKept` brought to light and TLC
confirmed in a larger instance.

`HybridRail` is reached only when a rail of an earlier release is
enabled between its being disabled and read; scenes beyond the scan's cap are not found.
The first page of the catalog is always asked for, since only its answer tells how many
scenes there are. What a page keeps is given by the places of the scenes in it (`Kept`),
so that a catalog which repeats a scene keeps the repetition.

### The pages

A component's signals are its state; a handler, an answer, a timer, an emission of the
router and an intersection of the sentinel are its steps. `FeedControl` maps a list to
the list after a step: one request in flight, `feedVersion` as a flag on it, the reload
that a reset leaves to `finalize`, which also goes on while the sentinel is in view (a
list that fails is retried at once there). The pages add the address bar, whose
navigations end later, the debounced text, favorites that the catalog keeps, the
router's reuse of the performer page, and rows and summary read side by side. What the
code does not promise is exempted by a history variable, named in the module:

- a choice taken back while the page still navigates is reverted (`overruled`);
- a text typed again after another way changed it is not searched for (`owed`);
- pages read before a favorite was set, lost answers, and a switch to favorites while
  one is being set (`astray`); an older performer's details or favorite (`mixed`);
- rows that change between the readings of rows and summary (`shifted`); the server
  orders FAILED, DOWNLOADING, IMPORT_PENDING, REQUESTED, the sections differ;
- loads that cross a save on the home page, lost answers, requests that were lost or
  abandoned, with the page or by a second deletion, and take effect later (`tangled`).

A request that fails in transit may still reach the catalog or the server: the home page has
it in `abandoned`, the performer pages in `late`, from where it takes effect at any time.

A list in its order (`Ordered`) is given by how many elements stand before each: the n-th
is the one with n - 1 before it. It is a definition without recursion, about which proofs
can speak; for the same reason the pages take little of the library of sequences.

The library is static in `LibraryPage`: paging by offset over a list that changes
repeats and skips rows, which no code promises otherwise. On the home page a draft that
is edited while a rail is created or deleted is replaced by the load that follows.

## Runs

| Run | Shows |
|---|---|
| `SyncLease.cfg` | exclusion, exact scheduler set, stranded leases claimed again, scheduler slots freed |
| `SyncLeaseOverlap.cfg` (violated) | two runs with live leases overlap after a third one outlived its own |
| `SceneIndexWrites.cfg` | fair lock, no stale patch, exact counters, every call ends, implements `SceneIndexStore` |
| `WhisparrSync.cfg` | movie provenance and downloads only with a movie, over two scenes, with failures |
| `WhisparrSyncLiveness.cfg` | convergence once Whisparr is quiet, over one scene |
| `WhisparrSyncSnapshot.cfg` (violated) | an applied movie snapshot may leave a row without the movie it brought |
| `MetadataHydration.cfg` | claims are exact, young answers stay, every pending row is hydrated once a provider stays |
| `LibraryProjection.cfg` | quiet passes are exact, only shifted rows vanish, the copies converge |
| `Services.cfg` | unknown scenes are absent unless a sync was slow, the resolver's loop = the operator, the stored item resolves like its queue when import states belong to items that download, cached answers are recent, single and batch agree, one catalog provider unless a first insertion was missed, tested connections, lone failures never degrade, staying downloads are read |
| `ServicesFirstSaves.cfg` (violated) | two first saves side by side give two catalog providers |
| `QueueScanStored.cfg` (violated) | without that condition on import states the stored item does not resolve like its queue |
| `Pages.cfg` | old passwords are out, arrangements are kept, the home page shows the server's rails, hybrid rails show the first matches, every list shows its selection |

A run over several parts chooses one of them in its initial state and takes only its
steps: the parts share no variable, so their products would repeat the same states.

### Bounds

- `SyncLease`: one job, two calls, leases of two ticks, a clock at most one tick old,
  one restart. Jobs share nothing, and every property relates at most two calls; the
  overlap needs two slots only, since a call that ended frees its slot for the next.
  The theorems hold for any number of jobs and calls.
- `QueueScan`, in the run of `Services`: all snapshots of up to three items of the movie's
  eighteen kinds and a foreign one. Precedence and rank compare items pairwise; the third item is the one
  that hides a difference of two.
- `SceneIndexWrites`: three scenes in chunks of two, so that calls have one or two
  chunks; two writers and a reader; two calls for a process, one restart (a second
  life with leftovers of the first), two attempts per chunk; a table that is empty or
  holds an old row. Batches: request rows of all scenes, a download and a failed
  hydration, and no patches at all.
- `WhisparrSync`: two scenes, two movie ids, three changes and one failure; four
  changes for one scene without failures in the liveness run (removal, return with a
  new id, download and import fit). A submission counts as a change.

- `MetadataHydration`: two scenes, batches of one (a hydration has two), the backfill and
  one page, one outside event (a new row, a failure, a switch, a restart). Claims relate
  two hydrations; the cursor needs one scene before and one behind it.
- `LibraryProjection`: three scenes of which two refer to the catalog, pages of one, three
  edits, failures or refreshes: one to shift a page, one to come late, one to fail.
- `Services`: one scene, two callers, lookups or calls, one cached entry, a threshold of two
  failures, a queue of three downloads in pages of one; between two and five outside events
  for each service, enough for two operations to overlap and one to fail. A second scene or
  key shares nothing with the first. Connections have both catalog providers, two clients and
  three requests or failures: two first saves, and one that comes after them. The theorems
  hold for any number of all of these.
- `IndexFreshness`, in the run of `Services`: one scene, two events (a source is configured, the
  scene appears, a sync fails), three sources whose syncs overlap. A tick is the life of a
  success, so that rows and successes live one tick: a sync that begins and ends within one is
  in time, one that takes a tick is too slow. Successes that are too old to be trusted are not
  told apart (`Untrusted`).
- `Pages`: two passwords, sessions and requests; two custom rails and three requests on
  rails; five catalog scenes
  for a rail of one; lists of two or three pages; two to six events of the user for each
  part, which suffice for a request to be overtaken by a change of what it asked for.
  The home page was also checked with three events, in a run too long to keep.

### Fairness

- `SyncLease`: time passes and timers fire (strongly fair, the code cannot stop
  them); a call in flight goes on (fetchWithTimeout ends the wait for an answer after
  30 s; that an answer that has begun comes to an end is assumed); the two first
  queries do not fail for ever. Nobody has to call runManualSync.
- `SceneIndexWrites`: a writer that can go on does. Transactions have a maximal wait
  and a timeout, so each ends one way or the other. Readers owe nothing.
- `WhisparrSync`: both syncs go on and are started again (the scheduler's intervals).
  Whisparr, its users and submissions owe nothing.
- `MetadataHydration`: a hydration in flight goes on, the scheduler's timer fires and
  time passes; a scene that the backfill asks for again and again is answered once, its
  answer written once, and the success of a run recorded once (strong fairness).
  `PendingRowsHydrated` assumes that a provider is configured from some time on; nobody
  has to open a page.
- `LibraryProjection`: passes are started again by the timer and go on; a refresh that
  has asked Stash writes. Failures are outside events, of which there are finitely many.
  Stash and its users owe nothing;
  `ProjectionConverges` assumes that they stop.

`CHECK_DEADLOCK FALSE` stands in the runs of `LibraryProjection`, `Services` and `Pages`,
where a system that is given no more outside events may come to rest, and the resolver's
loop ends with its answer.

### Findings

1. **A run that lost its lease ends its successor's** (`sync-state.service.ts:163`,
   `:154`). The marks do not name the owner. The queue sync's lease (25 s) is shorter
   than the timeout of one request (30 s).
2. **The stored queue item may contradict the queue** (`indexing.service.ts:2219`). A
   queued item in an import state is stored as the strongest, while the resolver
   counts it as merely requested.
3. **The movie sync erases the movie it brings** (`indexing.service.ts:993`). A scene
   whose movie was removed and added again is patched with the new id and then, as
   stale by its old id, with none. The next sync repairs it (`MoviesConverge`).
4. **Two first saves give two catalog providers** (`integrations.service.ts:122`, `:457`).
   Each transaction resets the other provider by an updateMany that cannot see the row the
   other is inserting; the check before it (`:329`) sees no row either. The tests say that a
   second provider is refused (`integrations.service.spec.ts:279`) or resets the first
   (`:133`). Once both rows are in the table, row locks leave one address.

### Hazards that a property exempts

Some hazards are what the code does, without a word in it that promises otherwise. The
models take these steps; a history variable marks them, the property says nothing of the
states after, and `PROJECT.json` lists the hazard without it or with a note:

- rows that go stale under a success (`indexing.service.ts:694`): the rows of a run are usable
  for 30 minutes from its start, its success is trusted for 20 from its end. A job that runs
  is not trusted, and the timers start the next run at their next beat (15 minutes for
  movies, 5 for the library), so with timers alone it takes a run of over 30 minutes, and one
  of over ten where beats are missed, as in a restart. Scenes that a source has are then
  answered as not requested. The condition of `UnknownAbsentUnlessSlow` leaves such runs out,
  and without it TLC finds them;
- counters overtaken by a rebuild outside the barrier, `raced` in `SceneIndexWrites`;
- downloads that move while the queue is paged, or lie beyond the last page
  (`StayingDownloadsRead` is about those that stay);
- rows that change between the readings of rows and summary, `shifted` in `AcquisitionPage`;
- pages read before a performer was marked, `astray` in `PerformersPage`;
- details and favorites of the performer before, `mixed` in `PerformerPage`;
- loads that cross a save, `tangled` in `HomePage`.

Answers of a catalog provider that was switched meanwhile are written by
`MetadataHydration` like others; no column tells them apart, and no property does.

`RowsConverge` is stated as *again and again*, not *for ever*: the queue sync writes
back the `hasFile` it read before (`indexing.service.ts:1084`) over the value a movie
sync may have stored since, so a row of a movie that is being upgraded can lose its
file until the next movie sync.

## Proofs

All proofs are checked by TLAPS without further assumptions than the `ASSUME` of each
module, all of which TLC evaluates on the values of its runs: bounds and ages are numbers,
null values are no values (and no rows, requests or texts), scenes, downloads, rails, tags and the like are finite sets;
`SceneIndexWrites`: batches are functions from scenes to patches, writers and readers are
different callers; `SceneStatusQueries`: a row says one of the lifecycles that the resolver
knows; `HybridRail`: the catalog is a
sequence; `PerformersPage` and `AcquisitionPage`: performers and scenes are numbered in the
order that breaks ties; the links to a page are addresses of it. Nothing is bounded but by
these: not the number of jobs, calls, scenes, movies, writers, hydrations, clients or
pages, nor sizes of chunks, batches, caches and pages, nor thresholds.

`SyncLease_proofs`: `Typing` is inductive with the equivalence of RUNNING and a lease
in it. `SchedulerSetExact` goes by the only two ways in and out of the set, `Start`
with a guard on it and `Leave`. `Exclusion` needs a strengthening: while no run of the
job has outlived its lease, a run in flight has time left, no more of it than the row
says (`LeaseCoversHolder`), and it is alone; so nobody can claim, and no mark but its
own can clear the row. The lemmas treat the claim, the mark and the tick, the three
steps that disturb it; every other step leaves holders and leases alone or ends one.

`SceneIndexWrites_proofs`: `FirstComeFirstServed` rests on `PromiseOrder`: promises
are resolved in the order of their numbers, each writer waits for the number before
its own, and numbers in flight differ. From it, only one writer is past the barrier,
so nobody else writes rows: `PatchesMeetPresentRows`. `BarrierRebuildFresh`
follows likewise. `SummaryCountsExactly` adds arithmetic of sets: a total splits over
a chunk and its complement (`TotalSplit`), so a delta of remembered rows is the change
of the true counts when these are the present rows (`DeltaExact`), and the rebuilt
counts are the true ones although one of them is a sum of four (`RebuiltExact`).
`WritesImplementStore` is the refinement, step by step: a committed chunk is the store's
write of at most `ChunkSize` rows (`ChunkBounded`, by an injection of the chunk into the
numbers below its size), a rebuild is its count, every other step a stutter; exact
counters are what the mapping rests on.

`WhisparrSync_proofs`: everything a sync or a submission holds was true of its scene when it
was read, and stays *given*: an id that Whisparr has given to a scene is never given again
(`Given`, kept by all steps). So the invariant says of each snapshot in flight, of what
lookups found, of a submission's movie and of the rows that their ids were given to their
scenes (`AllGiven`). The lemmas on patches (`GoodPatches`) show that each kind of patch
brings no foreign movie, and no download where no movie is or comes; merging such a
patch keeps both properties of a row, whatever the row has become since.

`MetadataHydration_proofs`: `ClaimsAreExact` is inductive with the phases of a hydration: it
has answers only for what it has claimed, in its request's phases its rest is part of its
claim (`Owned`). Two hydrations never hold one scene, so an answer that is still to be
written is no older than the one in the row (`AnswersYounger`), which makes
`YoungestStays`, an action property, a look at the one step that writes answers.

`LibraryProjection_proofs`: the invariant follows a pass. While it reads, everything that
stands before its next page and was not updated has its row or is on the page in hand
(`ReadSeen`, `PageSeen`); an update moves a scene to the front, and what it pushes over
the page's border has been read. After the last page nothing that was not updated is without
its row (`AllSeen`), after the deletion there are no other rows (`UnseenGone`); links and
flags follow the rows (`PassLinks`, `SnapshotLinks`). `OnlyShiftedVanish`, an action
property, is `AllSeen` at the deletion.

`Services_proofs`, one invariant for each part; a part's invariant is kept by the
steps of the others because these leave its variables alone:

- freshness: what a sync has read, then written, then succeeded with is all of its source
  that has not appeared since it began (`ReadCovers`, `WrittenCovers`, `SuccessCovers`). A
  row is never older than its time was when it was written, and the time since added: so
  much as its sync has waited, or as its success has and is old;
- the resolver's loop: its flags are the lifecycles of the items it has read, none of which
  failed; so with nothing unread the flags give the answer, and an early return is right
  because a failed item is strongest (`LifecycleIsStrongest`). `StoredItemStandsForQueue`
  orders items by the rank of their lifecycle: what selects the stored item selects the
  strongest one;
- the cache: an entry's age and the time its lookup took together bound how long ago its
  answer was true (`EntriesOK`), entries stand in the order of their expiry, which is what
  pruning relies on (`PruneProperties`), and a key that is looked up has no live entry
  (`LookupsOK`);
- the two ways to a status: by cases over the evidence and the failures (`SameStatus`);
- connections: what a client would save as configured has answered a test (`Trusts`), and
  an address that is committed without a miss comes with a reset of every other catalog
  provider's row that is there, since the transaction holds them all (`PutOK`); one that is
  not there has no address. No check before the transaction would ensure that;
- health: each count in the row, the cache or a call leaves room for the failures in flight
  below the failures since the last recovery (`CountsHaveRoom`), as far as recordings were
  alone (`AloneSees`, `CacheAgrees`);
- paging: full pages fix where a page begins (`FullPages`), and what stayed and stands
  before it was read (`StayersRead`).

`Pages_proofs`, one invariant for each part:

- sessions: what a request has read of the administrator is in force or of an earlier
  version (`Seen`), so a session that it starts is too (`Owned`); a change that nobody
  overlapped writes the next version, and all that was read before is of an earlier one;
- rails: not only do the places stand in the order of the arrangement, so do those that an
  interrupted deletion would leave if it wrote now (`RenumberingsFit`); that is what
  every step has to keep while no listing is overtaken. A rail that was listed and is
  not renumbered had its index already; a sequence that names each listed rail once gives
  distinct places (`OrderNamesEach`, `IndexOf`);
- home page: unless tangled (`HomeSettled`), the page has the server's rails or a load that
  carries them is in flight or about to be sent (`RailsCurrent`); what is shown is of the
  rails that the page has (`ItemsComplete`); no answer in flight would offer a scene that
  was requested (`RequestSeen`). Its types (`HomeTypes`) rest on what the server may answer:
  whatever is asked of it, it lists no rail twice, since an arrangement names each once, a
  deletion takes out the one place of its rail, and a creation brings an id that was free;
- hybrid rail (`HybridInv`): between two pages, what has matched is what belongs among the
  first `inspected` scenes of the catalog. A page appends to it what belongs on the page
  (`KeptFurther`), as the places kept of two parts, one behind the other, are those of the
  first, then those of the second, counted on (`Joined`, `Nth`). A scan that ends because it
  has enough has the first of all that may be inspected, since what comes later only extends
  it (`TakeOfAppend`). The answers of the lookups say whether a scene belongs, each at its own
  place, in whatever order they come (`LookupsOK`);
- lists: `ListOf` says of a list of `FeedControl` that its items are the first pages of what
  its query selects, that it knows whether there is more, and that a request in flight which
  is not stale asks for the next page under the present query. Each operation of `FeedControl`
  keeps this for a query that stays, or starts it anew for another one; an answer extends the
  items by the next page (`NextPage`). The page's own invariant says which query that is: the
  one of the filters selected (`ScenesList`, `PerformerListInv`, `AcquisitionList`), and on
  the library and performers pages one that is answered alike (`Alike`, `CatalogAlike`), since
  a text is trimmed before it is searched for. An address that no navigation is about to replace is that of the filters
  (`ScenesAddress`); a text that is owed a search waits in the timer, or was searched for last
  (`TextWaits`);
- details: unless mixed, at most one request for details or a favorite is in flight, it is of
  the performer in the address, and what is shown is too (`DetailsCurrent`);
- favorites: unless astray, the list is a first part of what the catalog would answer now,
  each performer marked as the catalog has it, but for favorites that are set and not shown
  yet (`Pending`, `Marked`);
- sections: the rows in the order of lifecycle and id split by lifecycle, so that the numbers
  of a section's rows add up to the summary's once nothing is left to load, unless rows have
  shifted between the two readings (`ReadInv`).

Least elements of finite sets, on which three proofs rely, come from the well-foundedness
of strict inclusion (`MaxOfFinite`, `MinOfFinite`).

Only model-checked are the liveness properties (`StrandedLeaseReclaimed`,
`SchedulerSlotFreed`, `EveryWriterLeaves`, `MoviesConverge`, `RowsConverge`,
`PendingRowsHydrated`, `ProjectionConverges`): they rest on fairness, which the prover does
not reach. Every invariant, every action property and the refinement that a passing run
checks is a theorem.

## Not modelled

HTTP, GraphQL text and parsing in the adapters; the studio pages, whose control repeats
that of the performer pages; the scene, settings and setup pages, forms over single
requests; option searches of filter boxes and of the rail form; the cookie's signature;
texts and filters of rails; container start, migrations, memory diagnostics, and the path
of a sync without a Whisparr configuration. Two hazards have no property: a rejection that
nothing catches after a submission, whose effect is the runtime's policy, and a body that
stalls after its answer began, which the fairness of leases and syncs assumes away.

## Plan

What the runs check is proved, but for liveness. What could be added are parts of the system
that are not modelled yet: the pages of studios, settings and setup, and the option searches
of the filter boxes, each a list or a single request in the manner of `FeedControl`.
