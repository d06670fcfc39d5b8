-------------------------- MODULE SceneIndexWrites --------------------------
(***************************************************************************)
(* The write path of the scene index: applySceneIndexPatches.              *)
(*                                                                         *)
(* Writers (syncs, seeds, refreshes, hydrations) queue on a chain of       *)
(* promises (withSceneIndexWriteBarrier).  The one let through makes sure  *)
(* the summary row exists, reads the rows it will patch, and writes them   *)
(* in chunks; each chunk is one transaction with the change of the         *)
(* summary's counters, computed from the rows read before.  Deadlocks are  *)
(* retried, any other failure ends the call with the earlier chunks done.  *)
(*                                                                         *)
(* Readers (getSceneIndexSummary, bootstrapIndex) run the same check for   *)
(* the summary row, and the same rebuild, outside the barrier.             *)
(*                                                                         *)
(* Scenes are numbered in the order in which the code sorts them.          *)
(***************************************************************************)
EXTENDS SceneIndexRow

CONSTANTS
  Scenes,       \* stashIds
  Writers,      \* calls of applySceneIndexPatches that can be in flight
  Readers,      \* callers that check for the summary outside the barrier
  Batches,      \* the merged patches a call can bring: functions from scenes
  InitialTables,\* what the table can hold when the process first starts
  ChunkSize,    \* APPLY_PATCH_CHUNK_SIZE
  MaxAttempts,  \* UPSERT_DEADLOCK_RETRY_ATTEMPTS
  MaxPromises,  \* bound: calls of a process
  MaxRestarts,  \* bound: restarts of the process
  NoSummary     \* the SceneIndexSummary row does not exist

ASSUME WritesAssumption ==
  /\ Scenes \subseteq Int
  /\ IsFiniteSet(Scenes)
  /\ Writers \intersect Readers = {}
  /\ \A b \in Batches : /\ DOMAIN b \subseteq Scenes
                        /\ \A s \in DOMAIN b : b[s] \in Patch
  /\ InitialTables \subseteq [Scenes -> Row \union {NoRow}]
  /\ ChunkSize \in Nat \ {0}
  /\ MaxAttempts \in Nat \ {0}
  /\ MaxPromises \in Nat
  /\ MaxRestarts \in Nat
  /\ NoRow \notin Row
  /\ NoSummary \notin [Counters -> Int]

VARIABLES
  rows,         \* the SceneIndex table
  summary,      \* the SceneIndexSummary row
  tail,         \* sceneIndexWriteBarrier: the number of the promise it holds
  resolved,     \* the promises released so far; 0 is Promise.resolve()
  pc,           \* where each caller stands
  own, prev,    \* a writer's own promise, and the one it waits for
  batch,        \* a writer's merged patches
  todo,         \* the scenes it has not written
  existing,     \* existingByStashId
  attempt,      \* attempts at the present chunk
  counted,      \* a rebuild's counts, between reading and storing them
  stale,        \* history: rows were written since the counts were read
  raced,        \* history: stale counts were stored
  restarts

barrier == <<tail, resolved, own, prev>>
work == <<batch, todo, existing, attempt>>
rebuild == <<counted, stale, raced>>
vars == <<rows, summary, barrier, pc, work, rebuild, restarts>>

-----------------------------------------------------------------------------
Callers == Writers \union Readers

WriterSteps == {"idle", "waiting", "ensure", "count", "store", "read", "chunk", "leaving"}
ReaderSteps == {"idle", "ensure", "count", "store"}

\* A writer that the barrier has let through and that has not let the next one
\* through.
InBarrier(w) == pc[w] \in WriterSteps \ {"idle", "waiting"}

MaybeRow == Row \union {NoRow}
NoRows == [s \in Scenes |-> NoRow]
NoBatch == [s \in {} |-> NoChange]
ZeroCounts == [c \in Counters |-> 0]

GoTo(p, step) == pc' = [pc EXCEPT ![p] = step]

\* What ends a call with an error: a writer still runs its finally block.
Abandon(p) == GoTo(p, IF p \in Writers THEN "leaving" ELSE "idle")

Init ==
  /\ rows \in InitialTables
  /\ summary = NoSummary
  /\ tail = 0
  /\ resolved = {0}
  /\ pc = [p \in Callers |-> "idle"]
  /\ own = [w \in Writers |-> 0]
  /\ prev = [w \in Writers |-> 0]
  /\ batch = [w \in Writers |-> NoBatch]
  /\ todo = [w \in Writers |-> {}]
  /\ existing = [w \in Writers |-> NoRows]
  /\ attempt = [w \in Writers |-> 1]
  /\ counted = [p \in Callers |-> ZeroCounts]
  /\ stale = [p \in Callers |-> FALSE]
  /\ raced = FALSE
  /\ restarts = 0

-----------------------------------------------------------------------------
\* Fault: the barrier is awaited but not replaced.
CallWithoutNewPromise(w) ==
  /\ pc[w] = "idle"
  /\ tail < MaxPromises
  /\ prev' = [prev EXCEPT ![w] = tail]
  /\ \E b \in Batches : /\ batch' = [batch EXCEPT ![w] = b]
                        /\ todo' = [todo EXCEPT ![w] = DOMAIN b]
  /\ GoTo(w, "waiting")
  /\ UNCHANGED <<rows, summary, tail, own, resolved, existing, attempt, rebuild, restarts>>

\* withSceneIndexWriteBarrier, up to its await: take the promise in the barrier
\* as the one to wait for, put a new one in its place.
Call(w) ==
  /\ pc[w] = "idle"
  /\ tail < MaxPromises
  /\ prev' = [prev EXCEPT ![w] = tail]
  /\ own' = [own EXCEPT ![w] = tail + 1]
  /\ tail' = tail + 1
  /\ \E b \in Batches : /\ batch' = [batch EXCEPT ![w] = b]
                        /\ todo' = [todo EXCEPT ![w] = DOMAIN b]
  /\ GoTo(w, "waiting")
  /\ UNCHANGED <<rows, summary, resolved, existing, attempt, rebuild, restarts>>

\* Fault: the previous writer is not awaited.
EnterAtOnce(w) ==
  /\ pc[w] = "waiting"
  /\ GoTo(w, IF todo[w] = {} THEN "leaving" ELSE "ensure")
  /\ UNCHANGED <<rows, summary, barrier, work, rebuild, restarts>>

\* The await is over; a call without patches returns at once.
Enter(w) ==
  /\ pc[w] = "waiting"
  /\ prev[w] \in resolved
  /\ GoTo(w, IF todo[w] = {} THEN "leaving" ELSE "ensure")
  /\ UNCHANGED <<rows, summary, barrier, work, rebuild, restarts>>

\* getSceneIndexSummary, or the first step of bootstrapIndex.
Ask(r) ==
  /\ pc[r] = "idle"
  /\ GoTo(r, "ensure")
  /\ UNCHANGED <<rows, summary, barrier, work, rebuild, restarts>>

AfterEnsure(p) == IF p \in Writers THEN "read" ELSE "idle"

\* ensureSceneIndexSummary looks for the summary row.
FindSummary(p) ==
  /\ pc[p] = "ensure"
  /\ GoTo(p, IF summary = NoSummary THEN "count" ELSE AfterEnsure(p))
  /\ UNCHANGED <<rows, summary, barrier, work, rebuild, restarts>>

\* rebuildSceneIndexSummary counts in one transaction ...
CountRows(p) ==
  /\ pc[p] = "count"
  /\ counted' = [counted EXCEPT ![p] = RebuiltCounts(rows)]
  /\ stale' = [stale EXCEPT ![p] = FALSE]
  /\ GoTo(p, "store")
  /\ UNCHANGED <<rows, summary, barrier, work, raced, restarts>>

\* ... and stores the counts in another, over whatever is there by then.
StoreSummary(p) ==
  /\ pc[p] = "store"
  /\ summary' = counted[p]
  /\ raced' = (raced \/ stale[p])
  /\ counted' = [counted EXCEPT ![p] = ZeroCounts]
  /\ stale' = [stale EXCEPT ![p] = FALSE]
  /\ GoTo(p, AfterEnsure(p))
  /\ UNCHANGED <<rows, barrier, work, restarts>>

ReadExisting(w) ==
  /\ pc[w] = "read"
  /\ existing' = [existing EXCEPT ![w] =
                    [s \in Scenes |-> IF s \in DOMAIN batch[w] THEN rows[s] ELSE NoRow]]
  /\ GoTo(w, "chunk")
  /\ UNCHANGED <<rows, summary, barrier, batch, todo, attempt, rebuild, restarts>>

\* Fault: all patches are written in one transaction.
WholeBatch(w) == todo[w]

\* The first ChunkSize scenes still to be written, in sorted order.
NextChunk(w) ==
  {s \in todo[w] : Cardinality({t \in todo[w] : t < s}) < ChunkSize}

\* The rows the call remembers once the chunk is written: the chunk's as
\* buildSceneIndexUpsertData makes them, the others as they were.
NextRows(w) ==
  [s \in Scenes |-> IF s \in NextChunk(w) THEN BuildRow(existing[w][s], batch[w][s])
                                          ELSE existing[w][s]]

\* executePatchChunk's transaction commits: the rows of the chunk, and the
\* change of the counters between the rows remembered before and after.
CommitChunk(w) ==
  /\ pc[w] = "chunk"
  /\ summary # NoSummary
  /\ existing' = [existing EXCEPT ![w] = NextRows(w)]
  /\ rows' = [s \in Scenes |-> IF s \in NextChunk(w) THEN existing'[w][s] ELSE rows[s]]
  /\ LET delta == Delta(NextChunk(w), existing[w], existing'[w])
     IN summary' = [c \in Counters |-> summary[c] + delta[c]]
  /\ todo' = [todo EXCEPT ![w] = @ \ NextChunk(w)]
  /\ attempt' = [attempt EXCEPT ![w] = 1]
  /\ stale' = [p \in Callers |-> stale[p] \/ pc[p] = "store"]
  /\ GoTo(w, IF todo'[w] = {} THEN "leaving" ELSE "chunk")
  /\ UNCHANGED <<barrier, batch, counted, raced, restarts>>

\* Fault: one attempt too many.
DeadlockOffByOne(w) ==
  /\ pc[w] = "chunk"
  /\ IF attempt[w] <= MaxAttempts
     THEN /\ attempt' = [attempt EXCEPT ![w] = @ + 1]
          /\ UNCHANGED pc
     ELSE /\ Abandon(w)
          /\ UNCHANGED attempt
  /\ UNCHANGED <<rows, summary, barrier, batch, todo, existing, rebuild, restarts>>

\* The transaction is chosen as a deadlock's victim and rolled back.
Deadlock(w) ==
  /\ pc[w] = "chunk"
  /\ IF attempt[w] < MaxAttempts
     THEN /\ attempt' = [attempt EXCEPT ![w] = @ + 1]
          /\ UNCHANGED pc
     ELSE /\ Abandon(w)
          /\ UNCHANGED attempt
  /\ UNCHANGED <<rows, summary, barrier, batch, todo, existing, rebuild, restarts>>

\* Fault: the barrier is released only when the task returns.
QueryFailsForGood(p) ==
  /\ pc[p] \in {"ensure", "count", "store", "read", "chunk"}
  /\ GoTo(p, "idle")
  /\ UNCHANGED <<rows, summary, barrier, work, rebuild, restarts>>

\* Any other error of any query.
QueryFails(p) ==
  /\ pc[p] \in {"ensure", "count", "store", "read", "chunk"}
  /\ Abandon(p)
  /\ counted' = [counted EXCEPT ![p] = ZeroCounts]
  /\ stale' = [stale EXCEPT ![p] = FALSE]
  /\ UNCHANGED <<rows, summary, barrier, work, raced, restarts>>

\* The finally block releases the barrier and the call is over.
Leave(w) ==
  /\ pc[w] = "leaving"
  /\ resolved' = resolved \union {own[w]}
  /\ GoTo(w, "idle")
  /\ batch' = [batch EXCEPT ![w] = NoBatch]
  /\ todo' = [todo EXCEPT ![w] = {}]
  /\ existing' = [existing EXCEPT ![w] = NoRows]
  /\ attempt' = [attempt EXCEPT ![w] = 1]
  /\ UNCHANGED <<rows, summary, tail, own, prev, rebuild, restarts>>

\* The process dies and starts again.  A transaction cut off is rolled back.
Restart ==
  /\ restarts < MaxRestarts
  /\ restarts' = restarts + 1
  /\ tail' = 0
  /\ resolved' = {0}
  /\ pc' = [p \in Callers |-> "idle"]
  /\ own' = [w \in Writers |-> 0]
  /\ prev' = [w \in Writers |-> 0]
  /\ batch' = [w \in Writers |-> NoBatch]
  /\ todo' = [w \in Writers |-> {}]
  /\ existing' = [w \in Writers |-> NoRows]
  /\ attempt' = [w \in Writers |-> 1]
  /\ counted' = [p \in Callers |-> ZeroCounts]
  /\ stale' = [p \in Callers |-> FALSE]
  /\ UNCHANGED <<rows, summary, raced>>

WriterStep(w) ==
  \/ Enter(w) \/ FindSummary(w) \/ CountRows(w) \/ StoreSummary(w)
  \/ ReadExisting(w) \/ CommitChunk(w) \/ Deadlock(w) \/ QueryFails(w) \/ Leave(w)

ReaderStep(r) ==
  \/ Ask(r) \/ FindSummary(r) \/ CountRows(r) \/ StoreSummary(r) \/ QueryFails(r)

Next ==
  \/ \E w \in Writers : Call(w) \/ WriterStep(w)
  \/ \E r \in Readers : ReaderStep(r)
  \/ Restart

Safe == Init /\ [][Next]_vars

\* A promise that is resolved wakes its waiter, and every query and every
\* transaction ends, one way or the other (maxWait and timeout bound the latter).
Spec == Safe /\ \A w \in Writers : WF_vars(WriterStep(w))

-----------------------------------------------------------------------------
TypeOK ==
  /\ rows \in [Scenes -> MaybeRow]
  /\ summary \in [Counters -> Int] \union {NoSummary}
  /\ tail \in 0..MaxPromises
  /\ resolved \subseteq 0..tail
  /\ pc \in [Callers -> WriterSteps]
  /\ \A r \in Readers : pc[r] \in ReaderSteps
  /\ own \in [Writers -> 0..tail]
  /\ prev \in [Writers -> 0..tail]
  /\ batch \in [Writers -> Batches \union {NoBatch}]
  /\ todo \in [Writers -> SUBSET Scenes]
  /\ existing \in [Writers -> [Scenes -> MaybeRow]]
  /\ attempt \in [Writers -> 1..MaxAttempts]
  /\ counted \in [Callers -> [Counters -> Int]]
  /\ stale \in [Callers -> BOOLEAN]
  /\ raced \in BOOLEAN
  /\ restarts \in 0..MaxRestarts

\* One writer at a time is past the barrier, and none is let through ahead of
\* one that called before it: a request's seed is applied before the refresh
\* that the same submission starts afterwards.
BarrierIsFair ==
  \A w, v \in Writers :
    InBarrier(w) /\ v # w => ~InBarrier(v) /\ (pc[v] = "waiting" => own[w] < own[v])

\* While a writer is writing chunks, the rows it read are the rows in the table:
\* a patch is always applied to the present row, never to an old copy of it.
CacheCoherent ==
  \A w \in Writers : pc[w] = "chunk" =>
    \A s \in DOMAIN batch[w] : existing[w][s] = rows[s]

CountersTrue == summary # NoSummary /\ ~raced => summary = TrueCounts(rows)
BarrierRebuildFresh == \A w \in Writers : ~stale[w]

\* The summary's counters are the true counts of the rows after every chunk,
\* every failure between chunks, every retry and every restart, unless a rebuild
\* stored counts that a chunk had overtaken; and only a rebuild outside the barrier
\* can be overtaken: ensureSceneIndexSummary called by a writer counts rows that
\* nobody changes until the counts are stored.
SummaryExact == CountersTrue /\ BarrierRebuildFresh

\* Every call of applySceneIndexPatches comes to an end, so that a failed one
\* does not shut the barrier for good.
EveryWriterLeaves == \A w \in Writers : pc[w] = "waiting" ~> pc[w] = "idle"

\* The write path implements the store its readers rely on, as long as no stale
\* rebuild has been stored; from then on only its rows are the store's.
Store == INSTANCE SceneIndexStore
           WITH summary <- IF raced THEN TrueCounts(rows) ELSE summary

ImplementsStore == Store!Spec
=============================================================================
