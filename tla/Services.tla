-------------------------------- MODULE Services --------------------------------
(***************************************************************************)
(* Services that share no state, and the loop of the resolver that two of  *)
(* them call, put together: a behaviour chooses one of them and takes its steps only, while the variables of the others     *)
(* keep their initial values.                                              *)
(***************************************************************************)
EXTENDS Integers

CONSTANTS
  \* IndexFreshness
  Scenes, NoRow, IndexMaxAge, SnapshotMaxAge, RequestMaxAge, FreshnessEvents,
  \* AvailabilityCache
  Instances, Callers, TTL, MaxEntries, MaxLookup, AvailabilityEvents,
  \* SceneStatusQueries
  Movie, Rows, Null,
  \* QueueScan
  Items, MaxItems,
  \* Integrations
  Others, Urls, NoUrl, Clients, NoType, ConnectionsEvents,
  \* ProviderHealth
  Calls, FAILURE_THRESHOLD, NoRecord, HealthEvents,
  \* QueuePaging
  Downloads, Unusable, QueuePageSize, MaxQueuePages, PagingEvents

VARIABLES
  part, events,
  source, configured, rowAge, stamped, job, sync, bootstrap, appeared, appearedNow,
  instance, has, cache, lookups, callers,
  evidence, single, batch,
  snapshot, unread, flags, returned,
  rows, present, health, clients, tested, missed,
  record, cached, loadedAll, calls, since, torn,
  queue, shape, read, shifted, stayed

Freshness == INSTANCE IndexFreshness WITH MaxEvents <- FreshnessEvents
Availability == INSTANCE AvailabilityCache WITH MaxEvents <- AvailabilityEvents
Queries == INSTANCE SceneStatusQueries
Scan == INSTANCE QueueScan WITH answer <- returned
Connections == INSTANCE Integrations WITH MaxEvents <- ConnectionsEvents
Health == INSTANCE ProviderHealth WITH MaxEvents <- HealthEvents
Paging == INSTANCE QueuePaging WITH MaxEvents <- PagingEvents

ASSUME ServicesAssumption ==
  /\ Freshness!FreshnessAssumption
  /\ Availability!CacheAssumption
  /\ Queries!QueriesAssumption
  /\ Scan!ScanAssumption
  /\ Connections!IntegrationsAssumption
  /\ Health!HealthAssumption
  /\ Paging!PagingAssumption

Parts == {"freshness", "availability", "queries", "scan", "connections", "health", "paging"}

Init ==
  /\ part \in Parts
  /\ instance \in IF part = "availability" THEN Instances ELSE {CHOOSE i \in Instances : TRUE}
  /\ evidence \in IF part = "queries" THEN Queries!Evidence
                  ELSE {CHOOSE v \in Queries!Evidence : TRUE}
  /\ snapshot \in IF part = "scan" THEN Scan!Snapshots ELSE {{}}
  /\ shape \in IF part = "paging" THEN Paging!Shapes ELSE {CHOOSE h \in Paging!Shapes : TRUE}
  /\ Freshness!Init /\ Availability!Init /\ Queries!Init /\ Scan!Init
  /\ Connections!Init /\ Health!Init /\ Paging!Init

KeepFreshness ==
  UNCHANGED <<source, configured, rowAge, stamped, job, sync, bootstrap, appeared, appearedNow>>
KeepAvailability == UNCHANGED <<instance, has, cache, lookups, callers>>
KeepQueries == UNCHANGED <<evidence, single, batch>>
KeepScan == UNCHANGED <<snapshot, unread, flags, returned>>
KeepConnections == UNCHANGED <<rows, present, health, clients, tested, missed>>
KeepHealth == UNCHANGED <<record, cached, loadedAll, calls, since, torn>>
KeepPaging == UNCHANGED <<queue, shape, read, shifted, stayed>>

FreshnessStep ==
  /\ part = "freshness" /\ Freshness!Next
  /\ KeepAvailability /\ KeepQueries /\ KeepConnections /\ KeepHealth /\ KeepScan /\ KeepPaging

AvailabilityStep ==
  /\ part = "availability" /\ Availability!Next
  /\ KeepFreshness /\ KeepQueries /\ KeepConnections /\ KeepHealth /\ KeepScan /\ KeepPaging

QueriesStep ==
  /\ part = "queries" /\ Queries!Next /\ UNCHANGED events
  /\ KeepFreshness /\ KeepAvailability /\ KeepConnections /\ KeepHealth /\ KeepScan /\ KeepPaging

ScanStep ==
  /\ part = "scan" /\ Scan!Next /\ UNCHANGED events
  /\ KeepFreshness /\ KeepAvailability /\ KeepQueries /\ KeepConnections /\ KeepHealth /\ KeepPaging

ConnectionsStep ==
  /\ part = "connections" /\ Connections!Next
  /\ KeepFreshness /\ KeepAvailability /\ KeepQueries /\ KeepHealth /\ KeepScan /\ KeepPaging

HealthStep ==
  /\ part = "health" /\ Health!Next
  /\ KeepFreshness /\ KeepAvailability /\ KeepQueries /\ KeepConnections /\ KeepScan /\ KeepPaging

PagingStep ==
  /\ part = "paging" /\ Paging!Next
  /\ KeepFreshness /\ KeepAvailability /\ KeepQueries /\ KeepConnections /\ KeepScan /\ KeepHealth

Next ==
  /\ \/ FreshnessStep \/ AvailabilityStep \/ QueriesStep \/ ScanStep
     \/ ConnectionsStep \/ HealthStep \/ PagingStep
  /\ UNCHANGED part

Spec == Init /\ [][Next]_<<part, events, source, configured, rowAge, stamped, job, sync,
  bootstrap, appeared, appearedNow, instance, has, cache, lookups, callers, evidence, single,
  batch, snapshot, unread, flags, returned, rows, present, health, clients, tested, missed, record, cached, loadedAll, calls, since, torn,
  queue, shape, read, shifted, stayed>>

-----------------------------------------------------------------------------
\* The state of each service stays in its range.
TypeOK ==
  /\ part \in Parts
  /\ Freshness!TypeOK /\ Availability!TypeOK /\ Queries!TypeOK
  /\ Connections!TypeOK /\ Health!TypeOK /\ Paging!TypeOK

\* No requested, tracked or available scene counts as not requested while the scene
\* index answers for unknown scenes (canResolveUnknownScenesAsNotRequested), but for
\* rows whose syncs took so long that they go stale before the success does.
UnknownAbsentUnlessSlow == Freshness!UnknownAbsentUnlessSlow

\* What the availability cache tells was so recently, in the Stash that was configured
\* when the caller asked (resolveStashAvailability).
AnswersRecent == Availability!AnswersRecent

\* A scene's page and a list show the same status for the same evidence
\* (resolveForScene, resolveForScenes).
SingleAgreesWithBatch == Queries!SingleAgreesWithBatch

\* The loop of resolveQueueLifecycleState answers what the other modules take for it.
ScanMatchesResolver == Scan!ScanMatchesResolver

\* The one item that summarizeQueueItems stores resolves like the queue it was chosen
\* from, where no item that waits is in an import state...
HealthyItemResolvesAlike == Scan!HealthyItemResolvesAlike

\* ...and elsewhere (violated).
StoredItemResolvesAlike == Scan!StoredItemResolvesAlike

\* At most one catalog provider has an address (IntegrationsService), but for a
\* transaction that missed the first insertion of the other's row.
OneProviderUnlessMissed == Connections!OneProviderUnlessMissed

\* The same in every case (violated: the first saves of two providers overlap).
OneCatalogProvider == Connections!OneCatalogProvider

\* A connection that is called configured or used has answered a test.
ConfiguredWasTested == Connections!ConfiguredWasTested

\* A single failure never degrades a service (RuntimeHealthService).
LoneFailureNeverDegrades == Health!LoneFailureNeverDegrades

\* A download that stays in the queue is in its snapshot (getQueueSnapshot).
StayingDownloadsRead == Paging!StayingDownloadsRead
=============================================================================
