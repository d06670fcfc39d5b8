--------------------------- MODULE IndexFreshness ---------------------------
(***************************************************************************)
(* When may a scene without a usable row in the scene index be shown as    *)
(* not requested, without asking Whisparr and Stash?                       *)
(* canResolveUnknownScenesAsNotRequested says: while the last syncs of the *)
(* request rows, of Whisparr's movies and of the library are fresh         *)
(* successes.                                                              *)
(*                                                                         *)
(* The sources the index is filled from are sets of scenes here; each sync *)
(* reads its source and writes its rows in one step each (their details    *)
(* are WhisparrSync and LibraryProjection).  Ages are counted in ticks.    *)
(* A row gets the time at which its writer began: a sync that began        *)
(* earlier and writes later makes a row older again.  A sync may take any  *)
(* time.  Writers that stamp a row with the present (a request, an import) *)
(* are left out.                                                           *)
(***************************************************************************)
EXTENDS Integers, FiniteSets

CONSTANTS
  Scenes,
  IndexMaxAge,     \* INDEX_STATUS_MAX_AGE_MS, of a row
  SnapshotMaxAge,  \* SNAPSHOT_FRESHNESS_MAX_AGE_MS, of a success
  RequestMaxAge,   \* REQUEST_ROWS_FRESHNESS_MAX_AGE_MS
  MaxEvents, NoRow

FreshnessAssumption ==
  /\ {IndexMaxAge, SnapshotMaxAge, RequestMaxAge, MaxEvents} \subseteq Nat
  /\ NoRow \notin Nat

VARIABLES
  source,       \* the scenes in the request table, in Whisparr and in Stash
  configured,   \* the integrations that are configured
  rowAge,       \* the age of a row's lastSyncedAt
  stamped,      \* history: how old that was when it was written
  job,          \* SyncState: status, and (which only a success needs) the age of
                \* lastSuccessAt; history: how long the success waited after the rows
  sync,         \* the running syncs; their age, from the time their rows are stamped
                \* with, is counted anew once the rows are written
  bootstrap,    \* the step bootstrapIndex has reached
  appeared,     \* history: what appeared since the last success of a sync began
  appearedNow,  \* the same, since its present run began
  events

vars == <<source, configured, rowAge, stamped, job, sync, bootstrap, appeared, appearedNow, events>>

Leased == {"movies", "library"}
Sources == Leased \union {"requests"}

-----------------------------------------------------------------------------
NoSync == [pc |-> "idle", seen |-> {}, age |-> 0]

\* The age of a success, a row or a sync, no older than what makes a row stale.
TooOld == IndexMaxAge + 1
Older(n) == IF n < TooOld THEN n + 1 ELSE TooOld

Happens == events < MaxEvents /\ events' = events + 1

\* isIndexedStatusUsable.
Usable(s) == rowAge[s] # NoRow /\ rowAge[s] <= IndexMaxAge

\* isSuccessfulSyncFresh.
SuccessfulSyncFresh(k, maxAge) ==
  job[k].status = "SUCCEEDED" /\ job[k].age <= maxAge

MaxAge(k) == IF k = "requests" THEN RequestMaxAge ELSE SnapshotMaxAge

Consulted == configured \union {"requests"}

CanResolveUnknownScenesAsNotRequested ==
  \A k \in Consulted : SuccessfulSyncFresh(k, MaxAge(k))

\* The order of bootstrapIndex.  The queue sync and the metadata backfill, which
\* neither read a source nor mark one of these jobs, are left out.
AfterStep == [off |-> "requests", requests |-> "movies", movies |-> "library", library |-> "off"]

\* A job without a success, or with one too old to be trusted.
Untrusted(status) == [status |-> status, age |-> TooOld, waited |-> 0]

Requested == source["requests"]
Indexed == {s \in Scenes : rowAge[s] # NoRow}

-----------------------------------------------------------------------------
Init ==
  /\ source = [k \in Sources |-> {}]
  /\ configured = {}
  /\ rowAge = [s \in Scenes |-> NoRow]
  /\ stamped = [s \in Scenes |-> 0]
  /\ job = [k \in Sources |-> Untrusted("IDLE")]
  /\ sync = [k \in Sources |-> NoSync]
  /\ bootstrap = "off"
  /\ appeared = [k \in Sources |-> {}]
  /\ appearedNow = [k \in Sources |-> {}]
  /\ events = 0

\* A lease is acquired, or syncRequestRows begins, which has none.
Begin(k) ==
  /\ sync[k].pc = "idle"
  /\ sync' = [sync EXCEPT ![k] = [NoSync EXCEPT !.pc = "read"]]
  /\ job' = [job EXCEPT ![k] = IF k \in Leased THEN Untrusted("RUNNING") ELSE @]
  /\ appearedNow' = [appearedNow EXCEPT ![k] = {}]
  /\ UNCHANGED <<source, configured, rowAge, stamped, appeared>>

\* The timers, and a manual sync.
StartSync(k) == Begin(k) /\ UNCHANGED <<bootstrap, events>>

\* shouldBootstrap: when more scenes are requested than the index has rows; for an
\* empty index, when there is a source.  (Rows that no sync has stamped yet count
\* too; the model has none.)
ShouldBootstrap ==
  \/ Cardinality(Requested) > Cardinality(Indexed)
  \/ Indexed = {} /\ (Requested # {} \/ configured # {})

\* bootstrapIndex, when the application starts or by hand.
StartBootstrap ==
  /\ bootstrap = "off"
  /\ ShouldBootstrap
  /\ Happens
  /\ Begin("requests")
  /\ bootstrap' = "requests"

\* It goes on when the sync it waits for has ended; a sync whose lease someone
\* else holds counts as done.
ContinueBootstrap ==
  /\ bootstrap # "off"
  /\ sync[bootstrap].pc = "idle"
  /\ bootstrap' = AfterStep[bootstrap]
  /\ \/ bootstrap' \in Leased /\ Begin(bootstrap')
     \/ /\ bootstrap' \in Leased => sync[bootstrap'].pc # "idle"
        /\ UNCHANGED <<source, configured, rowAge, stamped, job, sync, appeared, appearedNow>>
  /\ UNCHANGED events

\* The source is read; one that is not configured ends the sync with success.  The
\* request rows get the time after the query, the others that before it.
ReadSource(k) ==
  /\ sync[k].pc = "read"
  /\ sync' = [sync EXCEPT ![k] =
       IF k \in Leased \ configured THEN [NoSync EXCEPT !.pc = "mark"]
       ELSE [@ EXCEPT !.pc = "write", !.seen = source[k]]]
  /\ UNCHANGED <<source, configured, rowAge, stamped, job, bootstrap, appeared, appearedNow, events>>

\* Fault: the success is stored before the rows are.
WriteRowsLater(k) ==
  /\ sync[k].pc = "write"
  /\ job' = [job EXCEPT ![k] = [status |-> "SUCCEEDED", age |-> 0, waited |-> 0]]
  /\ appeared' = [appeared EXCEPT ![k] = appearedNow[k]]
  /\ sync' = [sync EXCEPT ![k] = [NoSync EXCEPT !.pc = "mark"]]
  /\ UNCHANGED <<source, configured, rowAge, stamped, bootstrap, appearedNow, events>>

\* applySceneIndexPatches, each with lastSyncedAt.
WriteRows(k) ==
  /\ sync[k].pc = "write"
  /\ rowAge' = [s \in Scenes |-> IF s \in sync[k].seen THEN sync[k].age ELSE rowAge[s]]
  /\ stamped' = [s \in Scenes |-> IF s \in sync[k].seen THEN sync[k].age ELSE stamped[s]]
  /\ sync' = [sync EXCEPT ![k] = [NoSync EXCEPT !.pc = "mark"]]
  /\ UNCHANGED <<source, configured, job, bootstrap, appeared, appearedNow, events>>

\* markSuccess, or recordSuccess for the request rows.
MarkSuccess(k) ==
  /\ sync[k].pc = "mark"
  /\ job' = [job EXCEPT ![k] = [status |-> "SUCCEEDED", age |-> 0, waited |-> sync[k].age]]
  /\ appeared' = [appeared EXCEPT ![k] = appearedNow[k]]
  /\ sync' = [sync EXCEPT ![k] = NoSync]
  /\ UNCHANGED <<source, configured, rowAge, stamped, bootstrap, appearedNow, events>>

\* The sync throws, and a bootstrap that waits for it with it.  The request rows
\* keep their last success.
SyncFails(k) ==
  /\ Happens
  /\ sync[k].pc # "idle"
  /\ sync' = [sync EXCEPT ![k] = NoSync]
  /\ job' = [job EXCEPT ![k] = IF k \in Leased THEN Untrusted("FAILED") ELSE @]
  /\ bootstrap' = IF bootstrap = k THEN "off" ELSE bootstrap
  /\ UNCHANGED <<source, configured, rowAge, stamped, appeared, appearedNow>>

\* A request is made, a movie added, a scene scanned; or they go.
Appears(k, s) ==
  /\ Happens
  /\ s \notin source[k]
  /\ source' = [source EXCEPT ![k] = @ \union {s}]
  /\ appeared' = [appeared EXCEPT ![k] = @ \union {s}]
  /\ appearedNow' = [appearedNow EXCEPT ![k] = @ \union {s}]
  /\ UNCHANGED <<configured, rowAge, stamped, job, sync, bootstrap>>

Disappears(k, s) ==
  /\ Happens
  /\ s \in source[k]
  /\ source' = [source EXCEPT ![k] = @ \ {s}]
  /\ UNCHANGED <<configured, rowAge, stamped, job, sync, bootstrap, appeared, appearedNow>>

\* An integration is configured, and everything in it appears at once; or removed.
Configure(k) ==
  /\ Happens
  /\ k \in Leased
  /\ configured' = (configured \ {k}) \union ({k} \ configured)
  /\ appeared' = [appeared EXCEPT ![k] = @ \union source[k]]
  /\ appearedNow' = [appearedNow EXCEPT ![k] = @ \union source[k]]
  /\ UNCHANGED <<source, rowAge, stamped, job, sync, bootstrap>>

\* Does the sync have the time that its rows get?
Stamping(k) == sync[k].pc \notin IF k \in Leased THEN {"idle"} ELSE {"idle", "read"}

Tick ==
  /\ rowAge' = [s \in Scenes |-> IF rowAge[s] = NoRow THEN NoRow ELSE Older(rowAge[s])]
  /\ job' = [k \in Sources |->
       IF job[k].age >= MaxAge(k) THEN Untrusted(job[k].status)
       ELSE [job[k] EXCEPT !.age = Older(@)]]
  /\ sync' = [k \in Sources |-> IF Stamping(k) THEN [sync[k] EXCEPT !.age = Older(@)]
                                ELSE sync[k]]
  /\ UNCHANGED <<source, configured, stamped, bootstrap, appeared, appearedNow, events>>

Next ==
  \/ \E k \in Sources :
       \/ StartSync(k) \/ ReadSource(k) \/ WriteRows(k) \/ MarkSuccess(k) \/ SyncFails(k)
       \/ Configure(k)
       \/ \E s \in Scenes : Appears(k, s) \/ Disappears(k, s)
  \/ StartBootstrap
  \/ ContinueBootstrap
  \/ Tick

Spec == Init /\ [][Next]_vars

-----------------------------------------------------------------------------
TypeOK ==
  /\ source \in [Sources -> SUBSET Scenes]
  /\ configured \subseteq Leased
  /\ rowAge \in [Scenes -> 0..TooOld \union {NoRow}]
  /\ stamped \in [Scenes -> 0..TooOld]
  /\ job \in [Sources -> [status : {"IDLE", "RUNNING", "SUCCEEDED", "FAILED"}, age : 0..TooOld,
                          waited : 0..TooOld]]
  /\ sync \in [Sources -> [pc : {"idle", "read", "write", "mark"}, seen : SUBSET Scenes,
                           age : 0..TooOld]]
  /\ \A k \in Leased : sync[k].pc # "idle" <=> job[k].status = "RUNNING"
  /\ bootstrap \in Sources \union {"off"}

\* Whenever unknown scenes count as not requested, every scene that was requested, or that
\* a configured integration has, and was there when the last successful sync of its source
\* began, has a usable row, provided that the row, by whichever sync it was written last,
\* was stamped so shortly before, and the source's success stored so soon after, that the
\* row outlives the success: by the code's limits of 30 and 20 minutes, if both together
\* take no more than ten.  (Rows of slower syncs go stale under the success.)
UnknownAbsentUnlessSlow ==
  CanResolveUnknownScenesAsNotRequested =>
    \A k \in Consulted : \A s \in source[k] \ appeared[k] :
      stamped[s] + job[k].waited + MaxAge(k) <= IndexMaxAge => Usable(s)
=============================================================================
