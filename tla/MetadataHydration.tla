-------------------------- MODULE MetadataHydration --------------------------
(***************************************************************************)
(* Metadata of scenes is fetched from the catalog provider: by the         *)
(* metadata-backfill job, which goes round the scene index in batches      *)
(* behind a cursor, and on demand, for the scenes a page shows or a        *)
(* request has just touched.                                               *)
(*                                                                         *)
(* performMetadataHydration claims its scenes in metadataHydrationInFlight *)
(* (no await between test and insertion), asks the provider batch by       *)
(* batch, writes all answers with one call of applySceneIndexPatches and   *)
(* gives the claims back in a finally block.  The timer of the backfill    *)
(* remembers in nextMetadataBackfillCheckAt when looking again is worth    *)
(* the queries.                                                            *)
(*                                                                         *)
(* Time is relative: a row has the age of the answer it holds, from which  *)
(* metadataLastSyncedAt and metadataRetryAfterAt (answer + backoff) both   *)
(* follow.  A tick is long against one request of the provider.            *)
(***************************************************************************)
EXTENDS Integers, FiniteSets, FiniteSetsExt

CONSTANTS
  Scenes,        \* stash ids, numbers in the order the database sorts them
  OnDemand,      \* slots for hydrations that no job runs
  Backfill,      \* the slot of the metadata-backfill job, which holds its lease
  BatchSize,     \* METADATA_BATCH_SIZE: rows of one backfill
  QueryBatch,    \* METADATA_QUERY_BATCH_SIZE: scenes of one request
  Accelerated,   \* METADATA_ACCELERATED_INTERVAL_MS, in ticks
  RetryBackoff,  \* METADATA_RETRY_BACKOFF_MS
  Steady,        \* METADATA_STEADY_INTERVAL_MS
  CheckCache,    \* METADATA_SCHEDULED_CHECK_CACHE_MS
  RefreshAge,    \* METADATA_REFRESH_MAX_AGE_MS
  MaxEvents,     \* bound: hydrations on demand, manual runs, requests and restarts
  NoRow, NoScene

ASSUME HydrationAssumption ==
  /\ Scenes \subseteq Nat /\ IsFiniteSet(Scenes)
  /\ NoScene \notin Scenes /\ NoScene \in Int
  /\ Backfill \notin OnDemand
  /\ BatchSize \in Nat \ {0} /\ QueryBatch \in Nat \ {0}
  /\ Accelerated \in Nat /\ CheckCache \in Nat \ {0}
  /\ RetryBackoff \in Accelerated..Steady
  /\ Steady \in Nat /\ RefreshAge \in Nat /\ RetryBackoff <= RefreshAge
  /\ MaxEvents \in Nat

VARIABLES
  rows,         \* the metadata columns of SceneIndex
  inFlight,     \* metadataHydrationInFlight
  hydration,    \* the hydrations in flight
  cursor,       \* SyncState.cursor of the job
  sinceSuccess, \* now - lastSuccessAt of the job; Steady when longer ago or never
  nextCheck,    \* nextMetadataBackfillCheckAt - now; 0 when null or passed
  configured,   \* a catalog provider is configured
  events        \* how many of MaxEvents have happened

vars == <<rows, inFlight, hydration, cursor, sinceSuccess, nextCheck, configured, events>>

-----------------------------------------------------------------------------
Slots == OnDemand \union {Backfill}

\* seeded: the columns were last written by seedRequestedScene, not by an answer.
Row == [state : {"PENDING", "HYDRATED", "FAILED_RETRYABLE"},
        age : 0..RefreshAge, seeded : BOOLEAN]

ASSUME NoRowAssumption == NoRow \notin Row

PendingRow == [state |-> "PENDING", age |-> 0, seeded |-> FALSE]
Answer(state) == [state |-> state, age |-> 0, seeded |-> FALSE]

Steps == {"idle", "checked", "targets", "wrap", "config", "fetch", "apply",
          "release", "mark"}

\* ids: the scenes asked for, from the claim on the scenes claimed; rest: those the
\* provider has not been asked for; patches: the answers.  until: what
\* shouldRunScheduledMetadataBackfill found.  reached: the cursor of a
\* success.
Hydration == [pc : Steps, ids : SUBSET Scenes, rest : SUBSET Scenes,
              patches : [Scenes -> Row \union {NoRow}], forced : BOOLEAN,
              until : 0..CheckCache,
              reached : Scenes \union {NoScene}, failed : BOOLEAN]

NoPatches == [s \in Scenes |-> NoRow]

Idle == [pc |-> "idle", ids |-> {}, rest |-> {}, patches |-> NoPatches,
         forced |-> FALSE, until |-> 0, reached |-> NoScene,
         failed |-> FALSE]

Known(state) == {s \in Scenes : rows[s] # NoRow /\ rows[s].state = state}

\* shouldHydrateMetadataNow, and the same test in AcquisitionService.
ShouldHydrateNow(row) ==
  row # NoRow =>
    row.state = "PENDING" \/ (row.state = "FAILED_RETRYABLE" /\ row.age >= RetryBackoff)

\* buildMetadataBackfillWhere.
BackfillWhere(forced) ==
  Known("PENDING")
    \union {s \in Known("FAILED_RETRYABLE") : forced \/ rows[s].age >= RetryBackoff}
    \union {s \in Known("HYDRATED") : ~forced /\ rows[s].age >= RefreshAge}

\* orderBy stashId, take n.
FirstOf(ids, n) == {s \in ids : Cardinality({t \in ids : t < s}) < n}

\* targetIntervalMs: pending rows, else any row that failed, else steady.
TargetInterval ==
  IF Known("PENDING") # {} THEN Accelerated
  ELSE IF Known("FAILED_RETRYABLE") # {} THEN RetryBackoff
  ELSE Steady

Happens == events < MaxEvents /\ events' = events + 1

Least(m, n) == IF m < n THEN m ELSE n

GoTo(h, step) == hydration' = [hydration EXCEPT ![h].pc = step]

-----------------------------------------------------------------------------
Init ==
  /\ rows = [s \in Scenes |-> NoRow]
  /\ inFlight = {}
  /\ hydration = [h \in Slots |-> Idle]
  /\ cursor = NoScene
  /\ sinceSuccess = Steady
  /\ nextCheck = 0
  /\ configured \in BOOLEAN
  /\ events = 0

\* handleMetadataBackfill, every ten seconds unless the last one still runs; the
\* queries of shouldRunScheduledMetadataBackfill.
CheckBackfill ==
  /\ hydration[Backfill].pc = "idle"
  /\ nextCheck = 0
  /\ LET left == TargetInterval - sinceSuccess
     IN hydration' = [hydration EXCEPT
          ![Backfill] = [Idle EXCEPT !.pc = IF left <= 0 THEN "targets" ELSE "checked",
                                     !.until = IF left <= 0 THEN 0
                                               ELSE Least(left, CheckCache)]]
  /\ UNCHANGED <<rows, inFlight, cursor, sinceSuccess, nextCheck, configured, events>>

\* Nothing to do yet: the time of the next check, computed from counts that may be
\* old by now, is remembered.
PostponeBackfill ==
  /\ hydration[Backfill].pc = "checked"
  /\ nextCheck' = hydration[Backfill].until
  /\ hydration' = [hydration EXCEPT ![Backfill] = Idle]
  /\ UNCHANGED <<rows, inFlight, cursor, sinceSuccess, configured, events>>

\* syncMetadataBackfill from a manual sync, or from bootstrapIndex (forced).
StartBackfill(forced) ==
  /\ hydration[Backfill].pc = "idle"
  /\ Happens
  /\ hydration' = [hydration EXCEPT
       ![Backfill] = [Idle EXCEPT !.pc = "targets", !.forced = forced]]
  /\ UNCHANGED <<rows, inFlight, cursor, sinceSuccess, nextCheck, configured>>

\* The backfill has its rows; without any it succeeds with the cursor null.
TakeTargets(ids) ==
  hydration' = [hydration EXCEPT
    ![Backfill] = [@ EXCEPT !.pc = IF ids = {} THEN "mark" ELSE "config",
                            !.ids = ids, !.forced = FALSE,
                            !.reached = IF ids = {} THEN NoScene ELSE Max(ids)]]

\* getMetadataBackfillTargets: the rows behind the cursor...
GetTargets ==
  LET wanted == BackfillWhere(hydration[Backfill].forced)
      beyond == {s \in wanted : cursor = NoScene \/ s > cursor}
  IN /\ hydration[Backfill].pc = "targets"
     /\ IF beyond = {} /\ cursor # NoScene
        THEN GoTo(Backfill, "wrap")
        ELSE TakeTargets(FirstOf(beyond, BatchSize))
     /\ UNCHANGED <<rows, inFlight, cursor, sinceSuccess, nextCheck, configured, events>>

\* ...or, when there are none, from the beginning again.
WrapTargets ==
  /\ hydration[Backfill].pc = "wrap"
  /\ TakeTargets(FirstOf(BackfillWhere(hydration[Backfill].forced), BatchSize))
  /\ UNCHANGED <<rows, inFlight, cursor, sinceSuccess, nextCheck, configured, events>>

\* requestMetadataHydrationForStashIds, for rows its callers found due, some time
\* before; it drops those in flight.
RequestHydration(h, ids) ==
  /\ hydration[h].pc = "idle"
  /\ Happens
  /\ \A s \in ids : ShouldHydrateNow(rows[s])
  /\ ids \ inFlight # {}
  /\ hydration' = [hydration EXCEPT
       ![h] = [Idle EXCEPT !.pc = "config", !.ids = ids \ inFlight]]
  /\ UNCHANGED <<rows, inFlight, cursor, sinceSuccess, nextCheck, configured>>

\* Fault: a hydration on demand marks the job's success too, and moves its cursor.
EndHydrationAsJob(h, failed) ==
  hydration' = [hydration EXCEPT
    ![h] = [Idle EXCEPT !.pc = "mark", !.failed = failed,
                        !.reached = hydration[h].reached]]

\* A hydration ends: the job goes on to its mark, any other is forgotten.
EndHydration(h, failed) ==
  hydration' = [hydration EXCEPT
    ![h] = IF h = Backfill
           THEN [Idle EXCEPT !.pc = "mark", !.failed = failed,
                                !.reached = hydration[h].reached]
           ELSE Idle]

\* Fault: scenes in flight are not filtered out.
ClaimAll(h) ==
  /\ hydration[h].pc = "config"
  /\ inFlight' = inFlight \union hydration[h].ids
  /\ hydration' = [hydration EXCEPT ![h].pc = "fetch", ![h].rest = hydration[h].ids]
  /\ UNCHANGED <<rows, cursor, sinceSuccess, nextCheck, configured, events>>

\* performMetadataHydration: the configuration is here, and the claims are taken
\* in the same turn of the event loop.
Claim(h) ==
  LET claimed == hydration[h].ids \ inFlight
  IN /\ hydration[h].pc = "config"
     /\ IF ~configured \/ claimed = {}
        THEN /\ EndHydration(h, FALSE)
             /\ UNCHANGED inFlight
        ELSE /\ inFlight' = inFlight \union claimed
             /\ hydration' = [hydration EXCEPT
                  ![h] = [@ EXCEPT !.pc = "fetch", !.ids = claimed, !.rest = claimed]]
     /\ UNCHANGED <<rows, cursor, sinceSuccess, nextCheck, configured, events>>

\* One request for the next scenes.  Scenes the provider does not know count as
\* hydrated too.
Fetch(h, answer) ==
  LET batch == FirstOf(hydration[h].rest, QueryBatch)
      rest == hydration[h].rest \ batch
  IN /\ hydration[h].pc = "fetch"
     /\ hydration' = [hydration EXCEPT
          ![h] = [@ EXCEPT !.patches = [s \in Scenes |->
                             IF s \in batch THEN answer ELSE hydration[h].patches[s]],
                           !.rest = rest,
                           !.pc = IF rest = {} THEN "apply" ELSE "fetch"]]
     /\ UNCHANGED <<rows, inFlight, cursor, sinceSuccess, nextCheck, configured, events>>

AskedFor(h, s) == s \in FirstOf(hydration[h].rest, QueryBatch)

BatchAnswered(h) == Fetch(h, Answer("HYDRATED"))
BatchFails(h) == Fetch(h, Answer("FAILED_RETRYABLE"))

\* invalidateScheduledMetadataBackfillCheckIfNeeded after a write of these rows.
Invalidate(written) ==
  nextCheck' = IF \E s \in written : ShouldHydrateNow(rows'[s]) THEN 0 ELSE nextCheck

\* applySceneIndexPatches commits the answers.
Apply(h) ==
  /\ hydration[h].pc = "apply"
  /\ rows' = [s \in Scenes |-> IF hydration[h].patches[s] = NoRow THEN rows[s]
                               ELSE hydration[h].patches[s]]
  /\ Invalidate(hydration[h].ids)
  /\ GoTo(h, "release")
  /\ UNCHANGED <<inFlight, cursor, sinceSuccess, configured, events>>

HasMetadata(h, s) ==
  hydration[h].patches[s] # NoRow /\ hydration[h].patches[s].state = "HYDRATED"

\* It throws: the answers are lost.
ApplyFails(h) ==
  /\ hydration[h].pc = "apply"
  /\ hydration' = [hydration EXCEPT ![h].pc = "release", ![h].failed = TRUE]
  /\ UNCHANGED <<rows, inFlight, cursor, sinceSuccess, nextCheck, configured, events>>

\* Fault: the claims are given back at the end of the try block, not in finally.
ReleaseUnlessFailed(h) ==
  /\ hydration[h].pc = "release"
  /\ inFlight' = IF hydration[h].failed THEN inFlight ELSE inFlight \ hydration[h].ids
  /\ EndHydration(h, hydration[h].failed)
  /\ UNCHANGED <<rows, cursor, sinceSuccess, nextCheck, configured, events>>

\* The finally block.
Release(h) ==
  /\ hydration[h].pc = "release"
  /\ inFlight' = inFlight \ hydration[h].ids
  /\ EndHydration(h, hydration[h].failed)
  /\ UNCHANGED <<rows, cursor, sinceSuccess, nextCheck, configured, events>>

\* markSuccess stores the cursor.
MarkSuccess ==
  /\ hydration[Backfill].pc = "mark"
  /\ ~hydration[Backfill].failed
  /\ cursor' = hydration[Backfill].reached
  /\ sinceSuccess' = 0
  /\ hydration' = [hydration EXCEPT ![Backfill] = Idle]
  /\ UNCHANGED <<rows, inFlight, nextCheck, configured, events>>

\* markFailure, after a failed hydration or a failed markSuccess, stores nothing here.
MarkFailure ==
  /\ hydration[Backfill].pc = "mark"
  /\ hydration' = [hydration EXCEPT ![Backfill] = Idle]
  /\ UNCHANGED <<rows, inFlight, cursor, sinceSuccess, nextCheck, configured, events>>

\* Another writer creates a row, or patches one without touching its metadata.
WriteRow(s) ==
  /\ rows' = [rows EXCEPT ![s] = IF @ = NoRow THEN PendingRow ELSE @]
  /\ Invalidate({s})
  /\ UNCHANGED <<inFlight, hydration, cursor, sinceSuccess, configured, events>>

\* seedRequestedScene brings metadata of its own.
SeedRow(s) ==
  /\ Happens
  /\ rows' = [rows EXCEPT ![s] = [state |-> "HYDRATED", age |-> 0, seeded |-> TRUE]]
  /\ UNCHANGED <<inFlight, hydration, cursor, sinceSuccess, nextCheck, configured>>

\* An administrator saves, or removes, the catalog provider.
SwitchProvider ==
  /\ Happens
  /\ configured' = ~configured
  /\ UNCHANGED <<rows, inFlight, hydration, cursor, sinceSuccess, nextCheck>>

\* The process stops and starts: what is in memory is gone.
Restart ==
  /\ Happens
  /\ inFlight' = {}
  /\ hydration' = [h \in Slots |-> Idle]
  /\ nextCheck' = 0
  /\ UNCHANGED <<rows, cursor, sinceSuccess, configured>>

Older(row) ==
  IF row = NoRow \/ row.state = "PENDING" THEN row
  ELSE [row EXCEPT !.age = Least(@ + 1, RefreshAge)]

Tick ==
  /\ rows' = [s \in Scenes |-> Older(rows[s])]
  /\ hydration' = [h \in Slots |->
       [hydration[h] EXCEPT !.patches = [s \in Scenes |-> Older(@[s])],
                            !.until = IF @ = 0 THEN 0 ELSE @ - 1]]
  /\ sinceSuccess' = Least(sinceSuccess + 1, Steady)
  /\ nextCheck' = IF nextCheck = 0 THEN 0 ELSE nextCheck - 1
  /\ UNCHANGED <<inFlight, cursor, configured, events>>

HydrationStep(h) ==
  Claim(h) \/ BatchAnswered(h) \/ BatchFails(h) \/ Apply(h) \/ ApplyFails(h) \/ Release(h)

BackfillStep ==
  PostponeBackfill \/ GetTargets \/ WrapTargets \/ HydrationStep(Backfill)
    \/ MarkSuccess \/ MarkFailure

Next ==
  \/ CheckBackfill
  \/ \E forced \in BOOLEAN : StartBackfill(forced)
  \/ BackfillStep
  \/ \E h \in OnDemand : \/ HydrationStep(h)
                         \/ \E ids \in SUBSET Scenes : RequestHydration(h, ids)
  \/ \E s \in Scenes : WriteRow(s) \/ SeedRow(s)
  \/ SwitchProvider
  \/ Restart
  \/ Tick

\* The timer fires, calls go on (a request of the provider ends by its timeout, a
\* transaction by its own), and the database does not fail for ever, nor the provider on the same scene.
Fairness ==
  /\ WF_vars(Tick)
  /\ WF_vars(CheckBackfill)
  /\ WF_vars(BackfillStep)
  /\ \A h \in OnDemand : WF_vars(HydrationStep(h))
  /\ SF_vars(MarkSuccess)
  /\ \A s \in Scenes : /\ SF_vars(AskedFor(Backfill, s) /\ BatchAnswered(Backfill))
                       /\ SF_vars(HasMetadata(Backfill, s) /\ Apply(Backfill))

Spec == Init /\ [][Next]_vars /\ Fairness

-----------------------------------------------------------------------------
TypeOK ==
  /\ rows \in [Scenes -> Row \union {NoRow}]
  /\ inFlight \subseteq Scenes
  /\ hydration \in [Slots -> Hydration]
  /\ \A h \in OnDemand : hydration[h].pc \in {"idle", "config", "fetch", "apply", "release"}
  /\ cursor \in Scenes \union {NoScene}
  /\ sinceSuccess \in 0..Steady
  /\ nextCheck \in 0..CheckCache
  /\ configured \in BOOLEAN
  /\ events \in 0..MaxEvents

\* The scenes a hydration has claimed and not given back.
Claimed(h) == IF hydration[h].pc \in {"fetch", "apply", "release"}
              THEN hydration[h].ids ELSE {}

\* metadataHydrationInFlight holds exactly the scenes of the hydrations in flight,
\* and no scene is in two of them: no claim is taken twice, given back by the wrong
\* call, or left behind by one that failed.
ClaimsExact ==
  /\ inFlight = UNION {Claimed(h) : h \in Slots}
  /\ \A g, h \in Slots : g # h => Claimed(g) \intersect Claimed(h) = {}

\* The answer of a hydration never replaces the answer of a younger request: while
\* the backfill and the pages hydrate the same scenes, what was asked last stays.
\* (The metadata that a request brings along may be replaced.)
YoungestAnswerStays ==
  [][\A s \in Scenes :
       (rows[s] # NoRow /\ rows[s].state # "PENDING" /\ ~rows[s].seeded) =>
         \/ rows'[s] = Older(rows[s])
         \/ rows'[s].age <= rows[s].age]_vars

\* A row that waits for its metadata gets it, once a provider stays configured: the
\* cursor, the cached time of the next check, the claims of other hydrations, failed
\* requests and lost answers may only delay it.
PendingRowsHydrated ==
  <>[]configured =>
    \A s \in Scenes : rows[s] = PendingRow ~> rows[s] # NoRow /\ rows[s].state = "HYDRATED"
=============================================================================
