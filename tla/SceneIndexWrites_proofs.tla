----------------------- MODULE SceneIndexWrites_proofs -----------------------
(***************************************************************************)
(* SceneIndexWrites for every table, every batch, every number of writers  *)
(* and readers and every chunk size: typing, the order the barrier keeps,  *)
(* the coherence of the rows a writer remembers, and the exactness of the  *)
(* summary's counters.                                                     *)
(***************************************************************************)
EXTENDS SceneIndexWrites, FiniteSetTheorems, TLAPS

-----------------------------------------------------------------------------
(* Rows. *)

\* resolveQueueLifecycleState answers a lifecycle or null.
LEMMA QueueLifecycleType ==
  ASSUME NEW movie, NEW items
  PROVE  QueueLifecycle(movie, items) \in Lifecycles \union {Null}
<1> DEFINE said == {ItemLifecycle(i) : i \in {i \in items : i.movie = movie}}
           places == {p \in DOMAIN QueuePrecedence : QueuePrecedence[p] \in said}
           first == CHOOSE p \in places : \A q \in places : p <= q
<1>1. QueueLifecycle(movie, items) = IF places = {} THEN Null ELSE QueuePrecedence[first]
  BY DEF QueueLifecycle
<1>2. places \subseteq 1..4
  BY DEF QueuePrecedence
<1>3. places # {} => \E p \in places : \A q \in places : p <= q
  <2> HIDE DEF places
  <2>1. \A p \in places : p = 1 \/ p = 2 \/ p = 3 \/ p = 4
    BY <1>2
  <2>2. CASE 1 \in places
    BY <2>1, <2>2
  <2>3. CASE 1 \notin places /\ 2 \in places
    BY <2>1, <2>3
  <2>4. CASE 1 \notin places /\ 2 \notin places /\ 3 \in places
    BY <2>1, <2>4
  <2>5. CASE 1 \notin places /\ 2 \notin places /\ 3 \notin places
    BY <2>1, <2>5
  <2> QED
    BY <2>2, <2>3, <2>4, <2>5
<1>4. places # {} => first \in 1..4
  <2> HIDE DEF places
  <2> QED
    BY <1>2, <1>3
<1>5. \A p \in 1..4 : QueuePrecedence[p] \in Lifecycles
  BY DEF QueuePrecedence, Lifecycles
<1> HIDE DEF first, places
<1> QED
  BY <1>1, <1>4, <1>5

\* resolveSceneStatus always answers a lifecycle.
LEMMA ResolveType ==
  ASSUME NEW movie, NEW hasFile, NEW items, NEW available, NEW request
  PROVE  ResolveSceneStatus(movie, hasFile, items, available, request) \in Lifecycles
<1>1. QueueLifecycle(movie, items) \in Lifecycles \union {Null}
  BY QueueLifecycleType
<1> QED
  BY <1>1 DEF ResolveSceneStatus, Lifecycles

\* buildSceneIndexUpsertData makes a row of a row and a patch.
LEMMA BuildRowType ==
  ASSUME NEW old \in MaybeRow, NEW patch \in Patch
  PROVE  BuildRow(old, patch) \in Row
<1> DEFINE from == IF old = NoRow THEN EmptyRow ELSE old
           merged == [request |-> PickValue(patch.request, from.request),
                      movie |-> PickValue(patch.movie, from.movie),
                      hasFile |-> PickValue(patch.hasFile, from.hasFile),
                      queueStatus |-> PickValue(patch.queueStatus, from.queueStatus),
                      queueState |-> PickValue(patch.queueState, from.queueState),
                      available |-> PickValue(patch.available, from.available),
                      metadata |-> PickValue(patch.metadata, from.metadata),
                      lifecycle |-> "NOT_REQUESTED"]
<1>1. from \in Row
  BY DEF MaybeRow, EmptyRow, Row, MetadataStates, Lifecycles
<1>2. merged \in Row
  <2> HIDE DEF from
  <2> QED
    BY <1>1 DEF PickValue, Row, Patch, Lifecycles
<1>3. ComputeLifecycle(merged, patch.items) \in Lifecycles
  BY ResolveType DEF ComputeLifecycle
<1>4. BuildRow(old, patch) = [merged EXCEPT !.lifecycle = ComputeLifecycle(merged, patch.items)]
  BY DEF BuildRow
<1> HIDE DEF merged
<1> QED
  BY <1>2, <1>3, <1>4 DEF Row

-----------------------------------------------------------------------------
(* Counters. *)

\* The rows a counter counts are finitely many.
LEMMA TotalType ==
  ASSUME NEW c, NEW S, IsFiniteSet(S), NEW table
  PROVE  Total(c, S, table) \in Nat
BY FS_Subset, FS_CardinalityType DEF Total

\* A count over a set is the count over a part of it and over the rest.
LEMMA TotalSplit ==
  ASSUME NEW c, NEW S, IsFiniteSet(S), NEW T \in SUBSET S, NEW table
  PROVE  Total(c, S, table) = Total(c, T, table) + Total(c, S \ T, table)
<1> DEFINE Counted(U) == {s \in U : Counts(c, table[s])}
<1>1. IsFiniteSet(Counted(T)) /\ IsFiniteSet(Counted(S \ T))
  BY FS_Subset
<1>2. Counted(S) = Counted(T) \union Counted(S \ T)
  OBVIOUS
<1>3. Counted(T) \intersect Counted(S \ T) = {}
  OBVIOUS
<1>4. /\ Cardinality(Counted(T)) \in Nat /\ Cardinality(Counted(S \ T)) \in Nat
      /\ Cardinality({}) = 0
  BY <1>1, FS_CardinalityType, FS_EmptySet
<1>5. Cardinality(Counted(S)) = Cardinality(Counted(T)) + Cardinality(Counted(S \ T))
                                  - Cardinality(Counted(T) \intersect Counted(S \ T))
  <2> HIDE DEF Counted
  <2> QED
    BY <1>1, <1>2, FS_Union
<1>6. Cardinality(Counted(T) \intersect Counted(S \ T)) = 0
  BY <1>3, <1>4
<1>7. Cardinality(Counted(S)) = Cardinality(Counted(T)) + Cardinality(Counted(S \ T))
  <2> HIDE DEF Counted
  <2> QED
    BY <1>4, <1>5, <1>6
<1> QED
  BY <1>7 DEF Total

\* Two tables hold the same rows for the scenes of a set.
Alike(S, old, new) == \A s \in S : old[s] = new[s]

\* Two tables that agree on a set count alike over it.
LEMMA TotalAgree ==
  ASSUME NEW c, NEW S, NEW old, NEW new, Alike(S, old, new)
  PROVE  Total(c, S, old) = Total(c, S, new)
<1>1. {s \in S : Counts(c, old[s])} = {s \in S : Counts(c, new[s])}
  BY DEF Alike
<1> QED
  BY <1>1 DEF Total

\* The table new is the table old with the rows of the chunk T replaced; before and
\* after are what a writer remembers of them.
Replaces(S, T, old, new, before, after) ==
  /\ IsFiniteSet(S) /\ T \in SUBSET S
  /\ Alike(S \ T, new, old) /\ Alike(T, before, old) /\ Alike(T, after, new)

\* buildSceneIndexSummaryDelta: what the counters must move by when the rows of a
\* chunk are replaced is the difference of the counts over the chunk alone.
LEMMA DeltaExact ==
  ASSUME NEW S, NEW T, NEW old, NEW new, NEW before, NEW after,
         Replaces(S, T, old, new, before, after), NEW c \in Counters
  PROVE  Total(c, S, new) = Total(c, S, old) + Delta(T, before, after)[c]
<1> USE DEF Replaces
<1>0. IsFiniteSet(T) /\ IsFiniteSet(S \ T)
  BY FS_Subset
<1>1. Total(c, S, new) = Total(c, T, new) + Total(c, S \ T, new)
  BY TotalSplit
<1>2. Total(c, S, old) = Total(c, T, old) + Total(c, S \ T, old)
  BY TotalSplit
<1>3. Total(c, S \ T, new) = Total(c, S \ T, old)
  BY TotalAgree
<1>4. Total(c, T, before) = Total(c, T, old) /\ Total(c, T, after) = Total(c, T, new)
  BY TotalAgree
<1>5. /\ Total(c, T, new) \in Nat /\ Total(c, T, old) \in Nat
      /\ Total(c, S \ T, old) \in Nat
  BY <1>0, TotalType
<1>6. Delta(T, before, after)[c] = Total(c, T, after) - Total(c, T, before)
  BY DEF Delta
<1> QED
  BY <1>1, <1>2, <1>3, <1>4, <1>5, <1>6

LEMMA DisjointCardinality ==
  ASSUME NEW A, NEW B, IsFiniteSet(A), IsFiniteSet(B), A \intersect B = {}
  PROVE  /\ IsFiniteSet(A \union B)
         /\ Cardinality(A \union B) = Cardinality(A) + Cardinality(B)
<1>1. IsFiniteSet(A \union B)
  BY FS_Union
<1>2. Cardinality(A \union B)
        = Cardinality(A) + Cardinality(B) - Cardinality(A \intersect B)
  BY FS_Union
<1>3. Cardinality(A \intersect B) = 0
  BY FS_EmptySet
<1>4. Cardinality(A) \in Nat /\ Cardinality(B) \in Nat
  BY FS_CardinalityType
<1> QED
  BY <1>1, <1>2, <1>3, <1>4

\* rebuildSceneIndexSummary adds four counts up for the tracked scenes; that is the
\* count of the tracked scenes, because a row has one lifecycle.
LEMMA RebuiltExact ==
  ASSUME NEW S, IsFiniteSet(S), NEW table, DOMAIN table = S
  PROVE  RebuiltCounts(table) = TrueCounts(table)
<1> DEFINE In(l) == {s \in S : table[s] # NoRow /\ table[s].lifecycle = l}
           Tracked == {s \in S : table[s] # NoRow /\ table[s].lifecycle \in AcquisitionLifecycles}
           two == In("REQUESTED") \union In("DOWNLOADING")
           three == two \union In("IMPORT_PENDING")
<1>1. \A l : IsFiniteSet(In(l))
  BY FS_Subset
<1>2. /\ Total("requestedCount", S, table) = Cardinality(In("REQUESTED"))
      /\ Total("downloadingCount", S, table) = Cardinality(In("DOWNLOADING"))
      /\ Total("importPendingCount", S, table) = Cardinality(In("IMPORT_PENDING"))
      /\ Total("failedCount", S, table) = Cardinality(In("FAILED"))
      /\ Total("acquisitionTrackedScenes", S, table) = Cardinality(Tracked)
  BY DEF Total, Counts
<1>3. /\ IsFiniteSet(two)
      /\ Cardinality(two) = Cardinality(In("REQUESTED")) + Cardinality(In("DOWNLOADING"))
  <2>1. In("REQUESTED") \intersect In("DOWNLOADING") = {}
    OBVIOUS
  <2> HIDE DEF In
  <2> QED
    BY <1>1, <2>1, DisjointCardinality
<1>4. /\ IsFiniteSet(three)
      /\ Cardinality(three) = Cardinality(two) + Cardinality(In("IMPORT_PENDING"))
  <2>1. two \intersect In("IMPORT_PENDING") = {}
    OBVIOUS
  <2> HIDE DEF In, two
  <2> QED
    BY <1>1, <1>3, <2>1, DisjointCardinality
<1>5. Cardinality(three \union In("FAILED")) = Cardinality(three) + Cardinality(In("FAILED"))
  <2>1. three \intersect In("FAILED") = {}
    OBVIOUS
  <2> HIDE DEF In, three
  <2> QED
    BY <1>1, <1>4, <2>1, DisjointCardinality
<1>6. Tracked = three \union In("FAILED")
  BY DEF AcquisitionLifecycles
<1>7. Total("acquisitionTrackedScenes", S, table)
        = Total("requestedCount", S, table) + Total("downloadingCount", S, table)
            + Total("importPendingCount", S, table) + Total("failedCount", S, table)
  <2> HIDE DEF In, two, three, Tracked
  <2> QED
    BY <1>2, <1>3, <1>4, <1>5, <1>6
<1> QED
  BY <1>7 DEF RebuiltCounts, TrueCounts

LEMMA CountsType ==
  ASSUME NEW S, IsFiniteSet(S), NEW table, DOMAIN table = S
  PROVE  TrueCounts(table) \in [Counters -> Int]
BY TotalType DEF TrueCounts

LEMMA DeltaType ==
  ASSUME NEW T, IsFiniteSet(T), NEW before, NEW after
  PROVE  Delta(T, before, after) \in [Counters -> Int]
<1>1. \A c \in Counters : Total(c, T, after) - Total(c, T, before) \in Int
  BY TotalType
<1> QED
  BY <1>1 DEF Delta

-----------------------------------------------------------------------------
(* Types. *)

\* The barrier's promises are known numbers.
LEMMA TypeInit == Init => TypeOK
<1> SUFFICES ASSUME Init PROVE TypeOK
  OBVIOUS
<1>1. rows \in [Scenes -> MaybeRow]
  BY WritesAssumption DEF Init, MaybeRow
<1>2. /\ \A w \in Writers : NoRows \in [Scenes -> MaybeRow]
      /\ ZeroCounts \in [Counters -> Int]
  BY DEF NoRows, MaybeRow, ZeroCounts
<1>3. /\ summary \in [Counters -> Int] \union {NoSummary}
      /\ tail \in 0..MaxPromises /\ resolved \subseteq 0..tail /\ tail = 0
      /\ raced \in BOOLEAN /\ restarts \in 0..MaxRestarts
  <2>1. MaxPromises \in Nat /\ MaxRestarts \in Nat
    BY WritesAssumption
  <2>2. tail = 0 /\ resolved = {0} /\ restarts = 0 /\ summary = NoSummary /\ raced = FALSE
    BY DEF Init
  <2>3. summary \in [Counters -> Int] \union {NoSummary} /\ raced \in BOOLEAN
    BY <2>2
  <2>4. tail \in 0..MaxPromises /\ restarts \in 0..MaxRestarts
    BY <2>1, <2>2
  <2>5. resolved \subseteq 0..tail
    BY <2>2
  <2> QED
    BY <2>2, <2>3, <2>4, <2>5
<1>4. /\ pc \in [Callers -> WriterSteps]
      /\ \A r \in Readers : pc[r] \in ReaderSteps
  BY DEF Init, Callers, WriterSteps, ReaderSteps
<1>5. /\ own \in [Writers -> 0..tail] /\ prev \in [Writers -> 0..tail]
      /\ batch \in [Writers -> Batches \union {NoBatch}]
      /\ todo \in [Writers -> SUBSET Scenes]
      /\ existing \in [Writers -> [Scenes -> MaybeRow]]
      /\ attempt \in [Writers -> 1..MaxAttempts]
  BY <1>2, <1>3, WritesAssumption DEF Init
<1>6. /\ counted \in [Callers -> [Counters -> Int]]
      /\ stale \in [Callers -> BOOLEAN]
  BY <1>2 DEF Init
<1> QED
  BY <1>1, <1>3, <1>4, <1>5, <1>6 DEF TypeOK

\* A step that moves one caller and nothing else.
LEMMA MoveType ==
  ASSUME TypeOK, NEW p \in Callers, NEW step \in WriterSteps,
         p \in Readers => step \in ReaderSteps, GoTo(p, step)
  PROVE  /\ pc' \in [Callers -> WriterSteps]
         /\ \A r \in Readers : pc'[r] \in ReaderSteps
BY DEF TypeOK, GoTo, Callers

\* The steps a caller goes to are steps of its kind.
LEMMA StepTypes ==
  ASSUME NEW p \in Callers
  PROVE  /\ AfterEnsure(p) \in WriterSteps
         /\ p \in Readers => AfterEnsure(p) \in ReaderSteps
         /\ (IF p \in Writers THEN "leaving" ELSE "idle") \in WriterSteps
         /\ p \in Readers => (IF p \in Writers THEN "leaving" ELSE "idle") \in ReaderSteps
BY WritesAssumption DEF AfterEnsure, WriterSteps, ReaderSteps, Callers

LEMMA CommitType ==
  ASSUME TypeOK, NEW w \in Writers, pc[w] = "chunk",
         \A s \in todo[w] : s \in DOMAIN batch[w]
  PROVE  /\ NextRows(w) \in [Scenes -> MaybeRow]
         /\ NextChunk(w) \subseteq Scenes
<1>1. NextChunk(w) \subseteq todo[w] /\ todo[w] \subseteq Scenes
  BY DEF NextChunk, TypeOK
<1>2. \A s \in NextChunk(w) : batch[w][s] \in Patch
  <2>1. batch[w] \in Batches \union {NoBatch}
    BY DEF TypeOK
  <2>2. CASE batch[w] \in Batches
    BY <1>1, <2>2, WritesAssumption
  <2>3. CASE batch[w] = NoBatch
    BY <1>1, <2>3 DEF NoBatch
  <2> QED
    BY <2>1, <2>2, <2>3
<1>3. \A s \in NextChunk(w) : BuildRow(existing[w][s], batch[w][s]) \in MaybeRow
  BY <1>1, <1>2, BuildRowType DEF TypeOK, MaybeRow
<1> QED
  BY <1>1, <1>3 DEF NextRows, TypeOK

\* A writer has patches for all it has still to write.
TodoPatched == \A w \in Writers : todo[w] \subseteq DOMAIN batch[w]

LEMMA TodoNext == TypeOK /\ TodoPatched /\ [Next]_vars => TodoPatched'
<1> SUFFICES ASSUME TypeOK, TodoPatched, [Next]_vars PROVE TodoPatched'
  OBVIOUS
<1> USE DEF TypeOK, TodoPatched
<1>1. ASSUME NEW w \in Writers, Call(w) PROVE TodoPatched'
  <2>1. PICK b \in Batches : /\ batch' = [batch EXCEPT ![w] = b]
                            /\ todo' = [todo EXCEPT ![w] = DOMAIN b]
    BY <1>1 DEF Call
  <2> QED
    BY <2>1
<1>2. ASSUME NEW w \in Writers, CommitChunk(w) PROVE TodoPatched'
  BY <1>2 DEF CommitChunk
<1>3. ASSUME NEW w \in Writers, Leave(w) PROVE TodoPatched'
  BY <1>3 DEF Leave
<1>4. CASE Restart
  BY <1>4 DEF Restart
<1>5. CASE UNCHANGED <<batch, todo>>
  BY <1>5
<1> QED
  BY <1>1, <1>2, <1>3, <1>4, <1>5
  DEF Next, WriterStep, ReaderStep, Enter, Ask, FindSummary, CountRows, StoreSummary,
      ReadExisting, Deadlock, QueryFails, work, vars

LEMMA TypeNext == TypeOK /\ TodoPatched /\ [Next]_vars => TypeOK'
<1> SUFFICES ASSUME TypeOK, TodoPatched, [Next]_vars PROVE TypeOK'
  OBVIOUS
<1> USE DEF TypeOK
<1>1. ASSUME NEW w \in Writers, Call(w) PROVE TypeOK'
  <2>1. PICK b \in Batches : /\ batch' = [batch EXCEPT ![w] = b]
                            /\ todo' = [todo EXCEPT ![w] = DOMAIN b]
    BY <1>1 DEF Call
  <2>2. /\ batch' \in [Writers -> Batches \union {NoBatch}]
        /\ todo' \in [Writers -> SUBSET Scenes]
    BY <2>1, WritesAssumption
  <2>3. /\ tail \in Nat /\ tail < MaxPromises /\ tail' = tail + 1
        /\ own' = [own EXCEPT ![w] = tail + 1]
        /\ prev' = [prev EXCEPT ![w] = tail] /\ resolved' = resolved
    BY <1>1 DEF Call
  <2>4. /\ tail' \in 0..MaxPromises /\ resolved' \subseteq 0..tail'
        /\ own' \in [Writers -> 0..tail'] /\ prev' \in [Writers -> 0..tail']
    BY <2>3, WritesAssumption
  <2>5. w \in Callers /\ w \notin Readers /\ "waiting" \in WriterSteps
    BY WritesAssumption DEF Callers, WriterSteps
  <2>6. pc' \in [Callers -> WriterSteps] /\ \A r \in Readers : pc'[r] \in ReaderSteps
    BY <1>1, <2>5, MoveType DEF Call
  <2> QED
    BY <1>1, <2>2, <2>4, <2>6 DEF Call, rebuild
<1>2. ASSUME NEW w \in Writers, Enter(w) PROVE TypeOK'
  <2>1. /\ w \in Callers /\ w \notin Readers
        /\ (IF todo[w] = {} THEN "leaving" ELSE "ensure") \in WriterSteps
    BY WritesAssumption DEF Callers, WriterSteps
  <2>2. pc' \in [Callers -> WriterSteps] /\ \A r \in Readers : pc'[r] \in ReaderSteps
    BY <1>2, <2>1, MoveType DEF Enter
  <2> QED
    BY <1>2, <2>2 DEF Enter, barrier, work, rebuild
<1>3. ASSUME NEW r \in Readers, Ask(r) PROVE TypeOK'
  <2>1. r \in Callers /\ "ensure" \in WriterSteps /\ "ensure" \in ReaderSteps
    BY DEF Callers, WriterSteps, ReaderSteps
  <2>2. pc' \in [Callers -> WriterSteps] /\ \A s \in Readers : pc'[s] \in ReaderSteps
    BY <1>3, <2>1, MoveType DEF Ask
  <2> QED
    BY <1>3, <2>2 DEF Ask, barrier, work, rebuild
<1>4. ASSUME NEW p \in Callers, FindSummary(p) PROVE TypeOK'
  <2>1. "count" \in WriterSteps /\ "count" \in ReaderSteps
    BY DEF WriterSteps, ReaderSteps
  <2>2. pc' \in [Callers -> WriterSteps] /\ \A s \in Readers : pc'[s] \in ReaderSteps
    BY <1>4, <2>1, MoveType, StepTypes DEF FindSummary
  <2> QED
    BY <1>4, <2>2 DEF FindSummary, barrier, work, rebuild
<1>5. ASSUME NEW p \in Callers, CountRows(p) PROVE TypeOK'
  <2>1. "store" \in WriterSteps /\ "store" \in ReaderSteps
    BY DEF WriterSteps, ReaderSteps
  <2>2. pc' \in [Callers -> WriterSteps] /\ \A s \in Readers : pc'[s] \in ReaderSteps
    BY <1>5, <2>1, MoveType DEF CountRows
  <2>3. DOMAIN rows = Scenes
    OBVIOUS
  <2>4. RebuiltCounts(rows) \in [Counters -> Int]
    BY <2>3, RebuiltExact, CountsType, WritesAssumption
  <2> QED
    BY <1>5, <2>2, <2>4 DEF CountRows, barrier, work
<1>6. ASSUME NEW p \in Callers, StoreSummary(p) PROVE TypeOK'
  <2>1. pc' \in [Callers -> WriterSteps] /\ \A s \in Readers : pc'[s] \in ReaderSteps
    BY <1>6, MoveType, StepTypes DEF StoreSummary
  <2>2. /\ summary' \in [Counters -> Int] /\ raced' \in BOOLEAN
        /\ counted' \in [Callers -> [Counters -> Int]] /\ stale' \in [Callers -> BOOLEAN]
    BY <1>6 DEF StoreSummary, ZeroCounts
  <2> QED
    BY <1>6, <2>1, <2>2 DEF StoreSummary, barrier, work
<1>7. ASSUME NEW w \in Writers, ReadExisting(w) PROVE TypeOK'
  <2>1. w \in Callers /\ w \notin Readers /\ "chunk" \in WriterSteps
    BY WritesAssumption DEF Callers, WriterSteps
  <2>2. pc' \in [Callers -> WriterSteps] /\ \A r \in Readers : pc'[r] \in ReaderSteps
    BY <1>7, <2>1, MoveType DEF ReadExisting
  <2>3. existing' \in [Writers -> [Scenes -> MaybeRow]]
    BY <1>7 DEF ReadExisting, MaybeRow
  <2> QED
    BY <1>7, <2>2, <2>3 DEF ReadExisting, barrier, rebuild
<1>8. ASSUME NEW w \in Writers, CommitChunk(w) PROVE TypeOK'
  <2>1. /\ w \in Callers /\ w \notin Readers
        /\ (IF todo'[w] = {} THEN "leaving" ELSE "chunk") \in WriterSteps
    BY WritesAssumption DEF Callers, WriterSteps
  <2>2. pc' \in [Callers -> WriterSteps] /\ \A r \in Readers : pc'[r] \in ReaderSteps
    BY <1>8, <2>1, MoveType DEF CommitChunk
  <2>3. NextRows(w) \in [Scenes -> MaybeRow] /\ NextChunk(w) \subseteq Scenes
    BY <1>8, CommitType DEF CommitChunk, TodoPatched
  <2>4. existing' \in [Writers -> [Scenes -> MaybeRow]] /\ existing'[w] = NextRows(w)
    BY <1>8, <2>3 DEF CommitChunk
  <2>5. rows' \in [Scenes -> MaybeRow]
    BY <1>8, <2>4 DEF CommitChunk
  <2>6. Delta(NextChunk(w), existing[w], existing'[w]) \in [Counters -> Int]
    BY <2>3, FS_Subset, DeltaType, WritesAssumption
  <2>7. summary' \in [Counters -> Int]
    <3>1. summary \in [Counters -> Int]
      BY <1>8 DEF CommitChunk
    <3>2. summary' = [c \in Counters |->
                        summary[c] + Delta(NextChunk(w), existing[w], existing'[w])[c]]
      BY <1>8 DEF CommitChunk
    <3> QED
      BY <2>6, <3>1, <3>2
  <2>8. /\ todo' \in [Writers -> SUBSET Scenes] /\ attempt' \in [Writers -> 1..MaxAttempts]
        /\ stale' \in [Callers -> BOOLEAN]
    BY <1>8, WritesAssumption DEF CommitChunk
  <2> QED
    BY <1>8, <2>2, <2>4, <2>5, <2>7, <2>8 DEF CommitChunk, barrier
<1>9. ASSUME NEW w \in Writers, Deadlock(w) PROVE TypeOK'
  <2>1. w \in Callers
    BY DEF Callers
  <2>2. CASE attempt[w] < MaxAttempts
    <3>1. attempt' \in [Writers -> 1..MaxAttempts]
      BY <1>9, <2>2, WritesAssumption DEF Deadlock
    <3> QED
      BY <1>9, <2>2, <3>1 DEF Deadlock, barrier, rebuild
  <2>3. CASE ~(attempt[w] < MaxAttempts)
    <3>1. pc' \in [Callers -> WriterSteps] /\ \A r \in Readers : pc'[r] \in ReaderSteps
      BY <1>9, <2>1, <2>3, MoveType, StepTypes DEF Deadlock, Abandon
    <3> QED
      BY <1>9, <2>3, <3>1 DEF Deadlock, barrier, rebuild
  <2> QED
    BY <2>2, <2>3
<1>10. ASSUME NEW p \in Callers, QueryFails(p) PROVE TypeOK'
  <2>1. pc' \in [Callers -> WriterSteps] /\ \A r \in Readers : pc'[r] \in ReaderSteps
    BY <1>10, MoveType, StepTypes DEF QueryFails, Abandon
  <2>2. counted' \in [Callers -> [Counters -> Int]] /\ stale' \in [Callers -> BOOLEAN]
    BY <1>10 DEF QueryFails, ZeroCounts
  <2> QED
    BY <1>10, <2>1, <2>2 DEF QueryFails, barrier, work
<1>11. ASSUME NEW w \in Writers, Leave(w) PROVE TypeOK'
  <2>1. w \in Callers /\ w \notin Readers /\ "idle" \in WriterSteps
    BY WritesAssumption DEF Callers, WriterSteps
  <2>2. pc' \in [Callers -> WriterSteps] /\ \A r \in Readers : pc'[r] \in ReaderSteps
    BY <1>11, <2>1, MoveType DEF Leave
  <2>3. NoRows \in [Scenes -> MaybeRow]
    BY DEF NoRows, MaybeRow
  <2>4. resolved' \subseteq 0..tail
    <3>1. own[w] \in 0..tail /\ resolved' = resolved \union {own[w]}
      BY <1>11 DEF Leave
    <3> QED
      BY <3>1
  <2>5. /\ batch' \in [Writers -> Batches \union {NoBatch}]
        /\ todo' \in [Writers -> SUBSET Scenes]
        /\ existing' \in [Writers -> [Scenes -> MaybeRow]]
        /\ attempt' \in [Writers -> 1..MaxAttempts]
    <3>1. 1 \in 1..MaxAttempts
      BY WritesAssumption
    <3> QED
      BY <1>11, <2>3, <3>1 DEF Leave
  <2> QED
    BY <1>11, <2>2, <2>4, <2>5 DEF Leave, rebuild
<1>12. CASE Restart
  <2>1. NoRows \in [Scenes -> MaybeRow] /\ ZeroCounts \in [Counters -> Int]
    BY DEF NoRows, MaybeRow, ZeroCounts
  <2>2. /\ pc' \in [Callers -> WriterSteps]
        /\ \A r \in Readers : pc'[r] \in ReaderSteps
    BY <1>12 DEF Restart, Callers, WriterSteps, ReaderSteps
  <2>3. /\ tail' = 0 /\ resolved' = {0} /\ 0 \in 0..MaxPromises /\ 0 \in 0..0 /\ 1 \in 1..MaxAttempts
        /\ restarts' \in 0..MaxRestarts
    BY <1>12, WritesAssumption DEF Restart
  <2>4. resolved' \subseteq 0..tail'
    BY <2>3
  <2>5. /\ own' \in [Writers -> 0..tail'] /\ prev' \in [Writers -> 0..tail']
        /\ attempt' \in [Writers -> 1..MaxAttempts]
    BY <1>12, <2>3 DEF Restart
  <2>6. /\ batch' \in [Writers -> Batches \union {NoBatch}]
        /\ todo' \in [Writers -> SUBSET Scenes]
        /\ existing' \in [Writers -> [Scenes -> MaybeRow]]
        /\ counted' \in [Callers -> [Counters -> Int]]
        /\ stale' \in [Callers -> BOOLEAN]
    BY <1>12, <2>1 DEF Restart
  <2> QED
    BY <1>12, <2>2, <2>3, <2>4, <2>5, <2>6 DEF Restart
<1>13. CASE UNCHANGED vars
  BY <1>13 DEF vars, barrier, work, rebuild
<1> QED
  BY <1>1, <1>2, <1>3, <1>4, <1>5, <1>6, <1>7, <1>8, <1>9, <1>10, <1>11, <1>12, <1>13
  DEF Next, WriterStep, ReaderStep, Callers

LEMMA TodoInvariant == Safe => [](TypeOK /\ TodoPatched)
<1>1. Init => TodoPatched
  BY DEF Init, TodoPatched
<1> QED
  BY <1>1, TypeInit, TypeNext, TodoNext, PTL DEF Safe

\* Every reachable state of the write path is well typed: the patches of any call
\* turn rows into rows, and the counters stay counters.
THEOREM Typing == Safe => []TypeOK
BY TodoInvariant, PTL

-----------------------------------------------------------------------------
(***************************************************************************)
(* The barrier.  Promises are resolved in the order of their numbers: the  *)
(* resolved ones are a prefix, a call in flight owns one that is not, the  *)
(* next one after the promise it awaits, and no two calls own the same.    *)
(***************************************************************************)
ResolvedPrefix == \A n \in resolved : \A m \in 0..n : m \in resolved

Busy(w) == pc[w] # "idle"

PromiseOrder ==
  /\ ResolvedPrefix
  /\ \A w \in Writers : Busy(w) => own[w] \notin resolved /\ own[w] = prev[w] + 1
  /\ \A w \in Writers : InBarrier(w) => prev[w] \in resolved
  /\ \A w, v \in Writers : Busy(w) /\ Busy(v) /\ own[w] = own[v] => w = v

\* A step that resolves nothing and lets nobody in.
LEMMA OrderKept ==
  ASSUME PromiseOrder, UNCHANGED barrier,
         \A w \in Writers : Busy(w)' => Busy(w),
         \A w \in Writers : InBarrier(w)' => InBarrier(w)
  PROVE  PromiseOrder'
BY DEF PromiseOrder, ResolvedPrefix, barrier

\* A caller that is already past the barrier, or a reader, moves.
LEMMA MoveInside ==
  ASSUME TypeOK, NEW p \in Callers, NEW step, GoTo(p, step),
         p \in Writers => InBarrier(p)
  PROVE  \A w \in Writers : /\ Busy(w)' => Busy(w)
                            /\ InBarrier(w)' => InBarrier(w)
<1> SUFFICES ASSUME NEW w \in Writers
             PROVE  /\ Busy(w)' => Busy(w)
                    /\ InBarrier(w)' => InBarrier(w)
  OBVIOUS
<1>1. CASE w = p
  BY <1>1 DEF InBarrier, Busy
<1>2. CASE w # p
  <2>1. pc'[w] = pc[w]
    BY <1>2 DEF GoTo, TypeOK, Callers
  <2> QED
    BY <2>1 DEF InBarrier, Busy
<1> QED
  BY <1>1, <1>2

LEMMA OrderNext == TypeOK /\ PromiseOrder /\ [Next]_vars => PromiseOrder'
<1> SUFFICES ASSUME TypeOK, PromiseOrder, [Next]_vars PROVE PromiseOrder'
  OBVIOUS
<1>1. ASSUME NEW w \in Writers, Call(w) PROVE PromiseOrder'
  <2>1. /\ pc[w] = "idle" /\ tail \in Nat /\ resolved' = resolved
        /\ own' = [own EXCEPT ![w] = tail + 1] /\ prev' = [prev EXCEPT ![w] = tail]
        /\ pc' = [pc EXCEPT ![w] = "waiting"]
    BY <1>1, WritesAssumption DEF Call, GoTo, TypeOK
  <2>2. \A v \in Writers : own[v] \in 0..tail
    BY DEF TypeOK
  <2>3. /\ own'[w] = tail + 1 /\ prev'[w] = tail /\ pc'[w] = "waiting"
        /\ \A v \in Writers \ {w} : own'[v] = own[v] /\ prev'[v] = prev[v] /\ pc'[v] = pc[v]
    BY <2>1 DEF TypeOK, Callers
  <2>4. tail + 1 \notin resolved
    BY <2>1 DEF TypeOK
  <2>5. ResolvedPrefix'
    BY <2>1 DEF PromiseOrder, ResolvedPrefix
  <2>6. \A v \in Writers : Busy(v)' => own'[v] \notin resolved' /\ own'[v] = prev'[v] + 1
    BY <2>1, <2>3, <2>4 DEF PromiseOrder, Busy
  <2>7. \A v \in Writers : InBarrier(v)' => prev'[v] \in resolved'
    BY <2>1, <2>3 DEF PromiseOrder, InBarrier
  <2>8. \A u, v \in Writers : Busy(u)' /\ Busy(v)' /\ own'[u] = own'[v] => u = v
    BY <2>1, <2>2, <2>3 DEF PromiseOrder, Busy
  <2> QED
    BY <2>5, <2>6, <2>7, <2>8 DEF PromiseOrder
<1>2. ASSUME NEW w \in Writers, Enter(w) PROVE PromiseOrder'
  <2>1. /\ pc[w] = "waiting" /\ prev[w] \in resolved
        /\ own' = own /\ prev' = prev /\ resolved' = resolved
        /\ \A v \in Writers \ {w} : pc'[v] = pc[v]
    BY <1>2 DEF Enter, GoTo, barrier, TypeOK, Callers
  <2>2. Busy(w)
    BY <2>1 DEF Busy
  <2>3. ResolvedPrefix'
    BY <2>1 DEF PromiseOrder, ResolvedPrefix
  <2>4. \A v \in Writers : Busy(v)' => Busy(v)
    BY <2>1, <2>2 DEF Busy
  <2>5. \A v \in Writers : InBarrier(v)' => prev[v] \in resolved
    BY <2>1 DEF PromiseOrder, InBarrier
  <2> QED
    BY <2>1, <2>3, <2>4, <2>5 DEF PromiseOrder
<1>3. ASSUME NEW r \in Readers, Ask(r) PROVE PromiseOrder'
  <2>1. r \in Callers /\ r \notin Writers
    BY WritesAssumption DEF Callers
  <2> QED
    BY <1>3, <2>1, MoveInside, OrderKept DEF Ask
<1>4. ASSUME NEW p \in Callers, FindSummary(p) PROVE PromiseOrder'
  <2>1. p \in Writers => InBarrier(p)
    BY <1>4 DEF FindSummary, InBarrier, WriterSteps
  <2> QED
    BY <1>4, <2>1, MoveInside, OrderKept DEF FindSummary
<1>5. ASSUME NEW p \in Callers, CountRows(p) PROVE PromiseOrder'
  <2>1. p \in Writers => InBarrier(p)
    BY <1>5 DEF CountRows, InBarrier, WriterSteps
  <2> QED
    BY <1>5, <2>1, MoveInside, OrderKept DEF CountRows
<1>6. ASSUME NEW p \in Callers, StoreSummary(p) PROVE PromiseOrder'
  <2>1. p \in Writers => InBarrier(p)
    BY <1>6 DEF StoreSummary, InBarrier, WriterSteps
  <2> QED
    BY <1>6, <2>1, MoveInside, OrderKept DEF StoreSummary
<1>7. ASSUME NEW w \in Writers, ReadExisting(w) PROVE PromiseOrder'
  <2>1. InBarrier(w) /\ w \in Callers
    BY <1>7 DEF ReadExisting, InBarrier, WriterSteps, Callers
  <2> QED
    BY <1>7, <2>1, MoveInside, OrderKept DEF ReadExisting
<1>8. ASSUME NEW w \in Writers, CommitChunk(w) PROVE PromiseOrder'
  <2>1. InBarrier(w) /\ w \in Callers
    BY <1>8 DEF CommitChunk, InBarrier, WriterSteps, Callers
  <2> QED
    BY <1>8, <2>1, MoveInside, OrderKept DEF CommitChunk
<1>9. ASSUME NEW w \in Writers, Deadlock(w) PROVE PromiseOrder'
  <2>1. InBarrier(w) /\ w \in Callers
    BY <1>9 DEF Deadlock, InBarrier, WriterSteps, Callers
  <2>2. UNCHANGED barrier
    BY <1>9 DEF Deadlock
  <2>3. CASE UNCHANGED pc
    BY <2>2, <2>3, OrderKept DEF Busy, InBarrier
  <2>4. CASE Abandon(w)
    BY <2>1, <2>2, <2>4, MoveInside, OrderKept DEF Abandon
  <2> QED
    BY <1>9, <2>3, <2>4 DEF Deadlock
<1>10. ASSUME NEW p \in Callers, QueryFails(p) PROVE PromiseOrder'
  <2>1. p \in Writers => InBarrier(p)
    BY <1>10 DEF QueryFails, InBarrier, WriterSteps
  <2> QED
    BY <1>10, <2>1, MoveInside, OrderKept DEF QueryFails, Abandon
<1>11. ASSUME NEW w \in Writers, Leave(w) PROVE PromiseOrder'
  <2>1. /\ InBarrier(w) /\ Busy(w) /\ resolved' = resolved \union {own[w]}
        /\ own' = own /\ prev' = prev
    BY <1>11 DEF Leave, InBarrier, WriterSteps, Busy
  <2>2. /\ pc'[w] = "idle"
        /\ \A v \in Writers \ {w} : pc'[v] = pc[v]
    BY <1>11 DEF Leave, GoTo, TypeOK, Callers
  <2>3. own[w] = prev[w] + 1 /\ prev[w] \in resolved /\ prev[w] \in Nat /\ own[w] \in Nat
    BY <2>1 DEF PromiseOrder, TypeOK
  <2>4. \A m \in 0..own[w] : m \in resolved'
    <3>1. \A m \in 0..own[w] : m = own[w] \/ m \in 0..prev[w]
      BY <2>3
    <3> QED
      BY <2>1, <2>3, <3>1 DEF PromiseOrder, ResolvedPrefix
  <2>5. ResolvedPrefix'
    BY <2>1, <2>4 DEF PromiseOrder, ResolvedPrefix
  <2>6. \A v \in Writers : Busy(v)' => v # w /\ Busy(v) /\ own[v] # own[w]
    BY <2>1, <2>2 DEF PromiseOrder, Busy
  <2>7. \A v \in Writers : InBarrier(v)' => InBarrier(v)
    BY <2>1, <2>2 DEF InBarrier
  <2> QED
    BY <2>1, <2>5, <2>6, <2>7 DEF PromiseOrder
<1>12. CASE Restart
  <2>1. /\ resolved' = {0}
        /\ \A w \in Writers : pc'[w] = "idle"
    BY <1>12 DEF Restart, Callers
  <2> QED
    BY <2>1 DEF PromiseOrder, ResolvedPrefix, Busy, InBarrier
<1>13. CASE UNCHANGED vars
  BY <1>13, OrderKept DEF vars, Busy, InBarrier
<1> QED
  BY <1>1, <1>2, <1>3, <1>4, <1>5, <1>6, <1>7, <1>8, <1>9, <1>10, <1>11, <1>12, <1>13
  DEF Next, WriterStep, ReaderStep, Callers

LEMMA OrderInit == Init => PromiseOrder
BY DEF Init, PromiseOrder, ResolvedPrefix, Busy, InBarrier, Callers

LEMMA OrderFair == TypeOK /\ PromiseOrder => BarrierIsFair
<1> SUFFICES ASSUME TypeOK, PromiseOrder, NEW w \in Writers, NEW v \in Writers,
                    InBarrier(w), v # w, Busy(v)
             PROVE  own[w] < own[v] /\ ~InBarrier(v)
  BY DEF BarrierIsFair, InBarrier, Busy
<1>1. /\ Busy(w) /\ prev[w] \in resolved /\ own[w] = prev[w] + 1
      /\ own[v] \notin resolved /\ own[v] # own[w] /\ own[v] = prev[v] + 1
  BY DEF PromiseOrder, InBarrier, Busy
<1>2. own[w] \in Nat /\ own[v] \in Nat /\ prev[w] \in Nat /\ prev[v] \in Nat
  BY DEF TypeOK
<1>3. own[v] \notin 0..prev[w]
  BY <1>1 DEF PromiseOrder, ResolvedPrefix
<1>4. own[w] < own[v]
  BY <1>1, <1>2, <1>3
<1>5. ~InBarrier(v)
  <2> SUFFICES ASSUME InBarrier(v) PROVE FALSE
    OBVIOUS
  <2>1. prev[v] \in resolved
    BY DEF PromiseOrder
  <2>2. own[w] \in 0..prev[v]
    BY <1>1, <1>2, <1>4
  <2> QED
    BY <1>1, <2>1, <2>2 DEF PromiseOrder, ResolvedPrefix
<1> QED
  BY <1>4, <1>5

LEMMA OrderInvariant == Safe => [](TypeOK /\ TodoPatched /\ PromiseOrder)
BY TodoInvariant, OrderInit, OrderNext, PTL DEF Safe

\* withSceneIndexWriteBarrier lets one call in at a time, in the order of the
\* calls, whatever fails inside and however many calls are queued.
THEOREM FirstComeFirstServed == Safe => []BarrierIsFair
BY OrderInvariant, OrderFair, PTL

-----------------------------------------------------------------------------
(* What a writer remembers. *)

\* A step that writes no row and changes nobody's memory, and after which nobody is
\* writing chunks who was not.
LEMMA MemoryKept ==
  ASSUME CacheCoherent, UNCHANGED <<rows, batch, existing>>,
         \A w \in Writers : pc'[w] = "chunk" => pc[w] = "chunk"
  PROVE  CacheCoherent'
BY DEF CacheCoherent

LEMMA CacheNext ==
  TypeOK /\ TodoPatched /\ BarrierIsFair /\ CacheCoherent /\ [Next]_vars => CacheCoherent'
<1> SUFFICES ASSUME TypeOK, TodoPatched, BarrierIsFair, CacheCoherent, [Next]_vars
             PROVE  CacheCoherent'
  OBVIOUS
<1>1. ASSUME NEW w \in Writers, Call(w) PROVE CacheCoherent'
  <2>1. PICK b \in Batches : batch' = [batch EXCEPT ![w] = b]
    BY <1>1 DEF Call
  <2>2. /\ rows' = rows /\ existing' = existing /\ pc'[w] = "waiting"
        /\ \A v \in Writers \ {w} : pc'[v] = pc[v] /\ batch'[v] = batch[v]
    BY <1>1, <2>1 DEF Call, GoTo, TypeOK, Callers
  <2> QED
    BY <2>2 DEF CacheCoherent
<1>2. ASSUME NEW w \in Writers, Enter(w) PROVE CacheCoherent'
  BY <1>2, MemoryKept DEF Enter, GoTo, work, TypeOK, Callers
<1>3. ASSUME NEW r \in Readers, Ask(r) PROVE CacheCoherent'
  BY <1>3, MemoryKept DEF Ask, GoTo, work, TypeOK, Callers
<1>4. ASSUME NEW p \in Callers, FindSummary(p) PROVE CacheCoherent'
  BY <1>4, MemoryKept DEF FindSummary, AfterEnsure, GoTo, work, TypeOK, Callers
<1>5. ASSUME NEW p \in Callers, CountRows(p) PROVE CacheCoherent'
  BY <1>5, MemoryKept DEF CountRows, GoTo, work, TypeOK, Callers
<1>6. ASSUME NEW p \in Callers, StoreSummary(p) PROVE CacheCoherent'
  BY <1>6, MemoryKept DEF StoreSummary, AfterEnsure, GoTo, work, TypeOK, Callers
<1>7. ASSUME NEW w \in Writers, ReadExisting(w) PROVE CacheCoherent'
  <2>1. /\ rows' = rows /\ batch' = batch
        /\ \A v \in Writers \ {w} : pc'[v] = pc[v] /\ existing'[v] = existing[v]
        /\ existing'[w] = [s \in Scenes |-> IF s \in DOMAIN batch[w] THEN rows[s] ELSE NoRow]
    BY <1>7 DEF ReadExisting, GoTo, TypeOK, Callers
  <2>2. DOMAIN batch[w] \subseteq Scenes
    <3>1. batch[w] \in Batches \union {NoBatch}
      BY DEF TypeOK
    <3> QED
      BY <3>1, WritesAssumption DEF NoBatch
  <2> QED
    BY <2>1, <2>2 DEF CacheCoherent
<1>8. ASSUME NEW w \in Writers, CommitChunk(w) PROVE CacheCoherent'
  <2>1. /\ pc[w] = "chunk" /\ batch' = batch
        /\ existing' = [existing EXCEPT ![w] = NextRows(w)]
        /\ rows' = [s \in Scenes |-> IF s \in NextChunk(w) THEN existing'[w][s] ELSE rows[s]]
        /\ \A v \in Writers \ {w} : pc'[v] = pc[v]
    BY <1>8 DEF CommitChunk, GoTo, TypeOK, Callers
  <2>2. \A v \in Writers : pc'[v] = "chunk" => v = w
    BY <2>1 DEF BarrierIsFair, InBarrier, WriterSteps
  <2>3. existing'[w] = NextRows(w)
    BY <2>1 DEF TypeOK
  <2>4. \A s \in Scenes : s \in DOMAIN batch[w] => existing'[w][s] = rows'[s]
    <3> SUFFICES ASSUME NEW s \in Scenes, s \in DOMAIN batch[w]
                 PROVE  existing'[w][s] = rows'[s]
      OBVIOUS
    <3>1. existing[w][s] = rows[s]
      BY <2>1 DEF CacheCoherent
    <3>2. CASE s \in NextChunk(w)
      BY <2>1, <3>2
    <3>3. CASE s \notin NextChunk(w)
      BY <2>1, <2>3, <3>1, <3>3 DEF NextRows
    <3> QED
      BY <3>2, <3>3
  <2>5. DOMAIN batch[w] \subseteq Scenes
    <3>1. batch[w] \in Batches \union {NoBatch}
      BY DEF TypeOK
    <3> QED
      BY <3>1, WritesAssumption DEF NoBatch
  <2> QED
    BY <2>1, <2>2, <2>4, <2>5 DEF CacheCoherent
<1>9. ASSUME NEW w \in Writers, Deadlock(w) PROVE CacheCoherent'
  BY <1>9, MemoryKept DEF Deadlock, Abandon, GoTo, TypeOK, Callers
<1>10. ASSUME NEW p \in Callers, QueryFails(p) PROVE CacheCoherent'
  BY <1>10, MemoryKept DEF QueryFails, Abandon, GoTo, work, TypeOK, Callers
<1>11. ASSUME NEW w \in Writers, Leave(w) PROVE CacheCoherent'
  <2>1. /\ rows' = rows /\ pc'[w] = "idle"
        /\ \A v \in Writers \ {w} : /\ pc'[v] = pc[v] /\ batch'[v] = batch[v]
                                    /\ existing'[v] = existing[v]
    BY <1>11 DEF Leave, GoTo, TypeOK, Callers
  <2> QED
    BY <2>1 DEF CacheCoherent
<1>12. CASE Restart
  BY <1>12 DEF Restart, CacheCoherent, Callers
<1>13. CASE UNCHANGED vars
  BY <1>13, MemoryKept DEF vars, work
<1> QED
  BY <1>1, <1>2, <1>3, <1>4, <1>5, <1>6, <1>7, <1>8, <1>9, <1>10, <1>11, <1>12, <1>13
  DEF Next, WriterStep, ReaderStep, Callers

LEMMA CacheInvariant ==
  Safe => [](TypeOK /\ TodoPatched /\ BarrierIsFair /\ CacheCoherent)
<1>1. Init => CacheCoherent
  BY DEF Init, CacheCoherent, Callers
<1> QED
  BY <1>1, CacheNext, OrderInvariant, OrderFair, PTL DEF Safe

\* applySceneIndexPatches applies its patches to the rows in the table: what it read
\* before its first chunk is never out of date at a later one.
THEOREM PatchesMeetPresentRows == Safe => []CacheCoherent
BY CacheInvariant, PTL

-----------------------------------------------------------------------------
(***************************************************************************)
(* The summary.  Counts that are waiting to be stored are the true counts, *)
(* unless rows were written meanwhile; a writer's own are never overtaken. *)
(***************************************************************************)
CountsFresh == \A p \in Callers : pc[p] = "store" /\ ~stale[p] => counted[p] = TrueCounts(rows)

LEMMA CommitExact ==
  ASSUME TypeOK, TodoPatched, CacheCoherent, NEW w \in Writers, CommitChunk(w),
         summary = TrueCounts(rows)
  PROVE  summary' = TrueCounts(rows')
<1>1. /\ pc[w] = "chunk"
      /\ existing' = [existing EXCEPT ![w] = NextRows(w)]
      /\ rows' = [s \in Scenes |-> IF s \in NextChunk(w) THEN existing'[w][s] ELSE rows[s]]
      /\ summary' = [c \in Counters |->
                       summary[c] + Delta(NextChunk(w), existing[w], existing'[w])[c]]
  BY DEF CommitChunk
<1>2. NextChunk(w) \subseteq Scenes /\ NextChunk(w) \subseteq DOMAIN batch[w]
  BY DEF NextChunk, TypeOK, TodoPatched
<1>3. DOMAIN rows = Scenes /\ DOMAIN rows' = Scenes /\ IsFiniteSet(Scenes)
  BY <1>1, WritesAssumption DEF TypeOK
<1>4. Alike(Scenes \ NextChunk(w), rows', rows)
  BY <1>1 DEF Alike
<1>5. Alike(NextChunk(w), existing[w], rows) /\ Alike(NextChunk(w), existing'[w], rows')
  BY <1>1, <1>2 DEF CacheCoherent, Alike
<1>6. \A c \in Counters :
        Total(c, Scenes, rows') = Total(c, Scenes, rows)
                                    + Delta(NextChunk(w), existing[w], existing'[w])[c]
  <2>1. Replaces(Scenes, NextChunk(w), rows, rows', existing[w], existing'[w])
    BY <1>2, <1>3, <1>4, <1>5 DEF Replaces
  <2> QED
    BY <2>1, DeltaExact
<1>7. \A c \in Counters : summary[c] = Total(c, Scenes, rows)
  BY <1>3 DEF TrueCounts
<1> QED
  BY <1>1, <1>3, <1>6, <1>7 DEF TrueCounts

LEMMA FreshNext ==
  TypeOK /\ BarrierIsFair /\ CountsFresh /\ BarrierRebuildFresh /\ [Next]_vars
    => CountsFresh' /\ BarrierRebuildFresh'
<1> SUFFICES ASSUME TypeOK, BarrierIsFair, CountsFresh, BarrierRebuildFresh, [Next]_vars
             PROVE  CountsFresh' /\ BarrierRebuildFresh'
  OBVIOUS
<1>1. ASSUME UNCHANGED <<rows, counted, stale>>,
             \A p \in Callers : pc'[p] = "store" => pc[p] = "store"
      PROVE  CountsFresh' /\ BarrierRebuildFresh'
  BY <1>1 DEF CountsFresh, BarrierRebuildFresh
<1>2. ASSUME NEW p \in Callers, CountRows(p) PROVE CountsFresh' /\ BarrierRebuildFresh'
  <2>1. RebuiltCounts(rows) = TrueCounts(rows)
    BY RebuiltExact, WritesAssumption DEF TypeOK
  <2>2. /\ counted'[p] = TrueCounts(rows) /\ stale'[p] = FALSE /\ rows' = rows
        /\ \A q \in Callers \ {p} : /\ pc'[q] = pc[q] /\ counted'[q] = counted[q]
                                    /\ stale'[q] = stale[q]
    BY <1>2, <2>1 DEF CountRows, GoTo, TypeOK
  <2> QED
    BY <2>2 DEF CountsFresh, BarrierRebuildFresh, Callers
<1>3. ASSUME NEW p \in Callers, StoreSummary(p) \/ QueryFails(p)
      PROVE  CountsFresh' /\ BarrierRebuildFresh'
  <2>1. /\ stale'[p] = FALSE /\ rows' = rows
        /\ \A q \in Callers \ {p} : /\ pc'[q] = pc[q] /\ counted'[q] = counted[q]
                                    /\ stale'[q] = stale[q]
    BY <1>3 DEF StoreSummary, QueryFails, Abandon, GoTo, TypeOK
  <2>2. pc'[p] # "store"
    BY <1>3 DEF StoreSummary, QueryFails, Abandon, AfterEnsure, GoTo, TypeOK
  <2> QED
    BY <2>1, <2>2 DEF CountsFresh, BarrierRebuildFresh, Callers
<1>4. ASSUME NEW w \in Writers, CommitChunk(w) PROVE CountsFresh' /\ BarrierRebuildFresh'
  <2>1. /\ pc[w] = "chunk" /\ counted' = counted
        /\ stale' = [p \in Callers |-> stale[p] \/ pc[p] = "store"]
        /\ pc'[w] # "store"
        /\ \A q \in Callers \ {w} : pc'[q] = pc[q]
    BY <1>4 DEF CommitChunk, GoTo, TypeOK, Callers
  <2>2. \A p \in Callers : pc'[p] = "store" => stale'[p]
    BY <2>1
  <2>3. \A v \in Writers : pc[v] # "store"
    BY <2>1 DEF BarrierIsFair, InBarrier, WriterSteps
  <2>4. \A v \in Writers : ~stale'[v]
    BY <2>1, <2>3 DEF BarrierRebuildFresh, Callers
  <2> QED
    BY <2>2, <2>4 DEF CountsFresh, BarrierRebuildFresh
<1>5. CASE Restart
  BY <1>5 DEF Restart, CountsFresh, BarrierRebuildFresh, Callers
<1>6. ASSUME NEW w \in Writers, Call(w) \/ Enter(w) \/ ReadExisting(w) \/ Deadlock(w) \/ Leave(w)
      PROVE  CountsFresh' /\ BarrierRebuildFresh'
  <2>1. UNCHANGED <<rows, counted, stale>>
    BY <1>6 DEF Call, Enter, ReadExisting, Deadlock, Leave, rebuild
  <2>2. UNCHANGED pc \/ \E step \in WriterSteps \ {"store"} : GoTo(w, step)
    BY <1>6 DEF Call, Enter, ReadExisting, Deadlock, Abandon, Leave, WriterSteps
  <2>3. \A p \in Callers : pc'[p] = "store" => pc[p] = "store"
    BY <2>2 DEF GoTo, TypeOK
  <2> QED
    BY <1>1, <2>1, <2>3
<1>7. ASSUME NEW p \in Callers, FindSummary(p) PROVE CountsFresh' /\ BarrierRebuildFresh'
  BY <1>1, <1>7 DEF FindSummary, AfterEnsure, GoTo, rebuild, TypeOK
<1>8. ASSUME NEW r \in Readers, Ask(r) PROVE CountsFresh' /\ BarrierRebuildFresh'
  BY <1>1, <1>8 DEF Ask, GoTo, rebuild, TypeOK, Callers
<1>9. CASE UNCHANGED vars
  BY <1>1, <1>9 DEF vars, rebuild
<1> QED
  BY <1>2, <1>3, <1>4, <1>5, <1>6, <1>7, <1>8, <1>9
  DEF Next, WriterStep, ReaderStep, Callers

LEMMA ExactNext ==
  TypeOK /\ TodoPatched /\ CacheCoherent /\ CountsFresh /\ CountersTrue /\ [Next]_vars
    => CountersTrue'
<1> SUFFICES ASSUME TypeOK, TodoPatched, CacheCoherent, CountsFresh, CountersTrue, [Next]_vars
             PROVE  CountersTrue'
  OBVIOUS
<1>1. CASE UNCHANGED <<rows, summary, raced>>
  BY <1>1 DEF CountersTrue
<1>2. ASSUME NEW p \in Callers, StoreSummary(p) PROVE CountersTrue'
  BY <1>2 DEF StoreSummary, CountersTrue, CountsFresh
<1>3. ASSUME NEW w \in Writers, CommitChunk(w) PROVE CountersTrue'
  <2>1. summary # NoSummary /\ raced' = raced
    BY <1>3 DEF CommitChunk
  <2> QED
    BY <1>3, <2>1, CommitExact DEF CountersTrue
<1> QED
  BY <1>1, <1>2, <1>3
  DEF Next, WriterStep, ReaderStep, Callers, Call, Enter, Ask, FindSummary, CountRows,
      ReadExisting, Deadlock, QueryFails, Leave, Restart, rebuild, vars

LEMMA SummaryInvariant ==
  Safe => [](TypeOK /\ TodoPatched /\ BarrierIsFair /\ CacheCoherent
               /\ CountsFresh /\ BarrierRebuildFresh /\ CountersTrue)
<1>1. Init => CountsFresh /\ BarrierRebuildFresh /\ CountersTrue
  BY DEF Init, CountsFresh, BarrierRebuildFresh, CountersTrue, Callers
<1> QED
  BY <1>1, CacheInvariant, FreshNext, ExactNext, PTL DEF Safe

\* As long as no rebuild from outside the barrier has stored counts that a chunk had
\* overtaken, SceneIndexSummary counts the rows exactly after every transaction; a rebuild
\* inside the barrier always stores the true counts, since no chunk is written between its
\* counting and its storing.
THEOREM SummaryCountsExactly == Safe => []SummaryExact
BY SummaryInvariant, PTL DEF SummaryExact

-----------------------------------------------------------------------------
(***************************************************************************)
(* The store that readers see.  A chunk is no larger than it may be: each  *)
(* of its scenes has fewer than ChunkSize scenes before it, and no two     *)
(* have equally many.                                                      *)
(***************************************************************************)
LEMMA ChunkBounded ==
  ASSUME TypeOK, NEW w \in Writers
  PROVE  IsFiniteSet(NextChunk(w)) /\ Cardinality(NextChunk(w)) <= ChunkSize
<1> DEFINE T == todo[w]
           Ahead(s) == {t \in T : t < s}
           chunk == NextChunk(w)
           place == [s \in chunk |-> Cardinality(Ahead(s))]
<1>1. /\ T \subseteq Int /\ IsFiniteSet(T) /\ ChunkSize \in Nat \ {0}
  <2>1. T \subseteq Scenes
    BY DEF TypeOK
  <2> QED
    BY <2>1, WritesAssumption, FS_Subset
<1>2. chunk \subseteq T /\ \A s \in chunk : Cardinality(Ahead(s)) < ChunkSize
  BY DEF NextChunk
<1> HIDE DEF T, chunk
<1>3. \A s \in T : IsFiniteSet(Ahead(s)) /\ Cardinality(Ahead(s)) \in Nat
  BY <1>1, FS_Subset, FS_CardinalityType
<1>4. ASSUME NEW r \in T, NEW s \in T, r < s PROVE Cardinality(Ahead(r)) < Cardinality(Ahead(s))
  <2>1. Ahead(r) \union {r} \subseteq Ahead(s) /\ r \notin Ahead(r)
    <3>1. r \in Int /\ s \in Int
      BY <1>1
    <3>2. \A t \in T : t \in Int /\ (t < r => t < s)
      BY <1>1, <1>4, <3>1
    <3>3. ~ (r < r)
      BY <3>1
    <3> QED
      BY <1>4, <3>2, <3>3
  <2>2. Cardinality(Ahead(r) \union {r}) = Cardinality(Ahead(r)) + 1
    <3> HIDE DEF Ahead
    <3> QED
      BY <1>3, <2>1, FS_AddElement
  <2>3. Cardinality(Ahead(r) \union {r}) <= Cardinality(Ahead(s))
    <3> HIDE DEF Ahead
    <3> QED
      BY <1>3, <2>1, FS_Subset
  <2> HIDE DEF Ahead
  <2> QED
    BY <1>3, <2>2, <2>3
<1>5. place \in Injection(chunk, 0..(ChunkSize - 1))
  <2> HIDE DEF Ahead
  <2>1. \A s \in chunk : Cardinality(Ahead(s)) \in 0..(ChunkSize - 1)
    BY <1>1, <1>2, <1>3
  <2>2. ASSUME NEW r \in chunk, NEW s \in chunk, place[r] = place[s] PROVE r = s
    <3>1. r \in T /\ s \in T /\ r \in Int /\ s \in Int
      BY <1>1, <1>2
    <3>2. Cardinality(Ahead(r)) = Cardinality(Ahead(s)) /\ Cardinality(Ahead(r)) \in Nat
      BY <1>3, <2>2, <3>1
    <3>3. ~ (r < s) /\ ~ (s < r)
      BY <1>3, <1>4, <3>1, <3>2
    <3> QED
      BY <3>1, <3>3
  <2> QED
    BY <2>1, <2>2 DEF Injection, IsInjective
<1>6. /\ IsFiniteSet(0..(ChunkSize - 1))
      /\ Cardinality(0..(ChunkSize - 1)) = ChunkSize
  <2>1. 0 \in Int /\ ChunkSize - 1 \in Int /\ ~ (0 > ChunkSize - 1)
        /\ (ChunkSize - 1) - 0 + 1 = ChunkSize
    BY <1>1
  <2> QED
    BY <2>1, FS_Interval
<1>7. IsFiniteSet(chunk) /\ Cardinality(chunk) <= Cardinality(0..(ChunkSize - 1))
  <2> HIDE DEF place
  <2> QED
    BY <1>5, <1>6, FS_Injection
<1> QED
  BY <1>6, <1>7 DEF chunk

\* The store counts as the write path does.
LEMMA StoreCounts ==
  /\ Store!Row = Row
  /\ \A S : Store!Cardinality(S) = Cardinality(S)
  /\ \A table : Store!TrueCounts(table) = TrueCounts(table)
<1>1. Store!Row = Row
  <2>1. /\ Store!RequestStatuses = RequestStatuses /\ Store!MetadataStates = MetadataStates
        /\ Store!Lifecycles = Lifecycles
    BY DEF Store!RequestStatuses, RequestStatuses, Store!MetadataStates, MetadataStates,
           Store!Lifecycles, Lifecycles
  <2>2. Store!QueueStatuses = QueueStatuses
    BY DEF Store!QueueStatuses, QueueStatuses, Store!FailedQueueStatuses, FailedQueueStatuses
  <2>3. Store!DownloadStates = DownloadStates
    BY DEF Store!DownloadStates, DownloadStates, Store!ImportStates, ImportStates
  <2> QED
    BY <2>1, <2>2, <2>3, Zenon DEF Store!Row, Row
<1>2. \A c, row : Store!Counts(c, row) = Counts(c, row)
  BY DEF Store!Counts, Counts, Store!AcquisitionLifecycles, AcquisitionLifecycles
<1>3. \A S : Store!Cardinality(S) = Cardinality(S)
  BY DEF Store!Cardinality, Cardinality
<1>4. \A c, S, table : Store!Total(c, S, table) = Total(c, S, table)
  <2> SUFFICES ASSUME NEW c, NEW S, NEW table PROVE Store!Total(c, S, table) = Total(c, S, table)
    OBVIOUS
  <2>1. {s \in S : Store!Counts(c, table[s])} = {s \in S : Counts(c, table[s])}
    BY <1>2
  <2> QED
    BY <1>3, <2>1 DEF Store!Total, Total
<1>5. \A table : Store!TrueCounts(table) = TrueCounts(table)
  BY <1>4 DEF Store!TrueCounts, TrueCounts, Store!Counters, Counters
<1> QED
  BY <1>1, <1>3, <1>5

LEMMA TrueCountsType ==
  ASSUME NEW table \in [Scenes -> MaybeRow]
  PROVE  TrueCounts(table) # NoSummary
<1>1. \A c \in Counters : Total(c, DOMAIN table, table) \in Int
  <2>1. \A c \in Counters : Total(c, DOMAIN table, table) \in Nat
    BY TotalType, WritesAssumption
  <2> QED
    BY <2>1
<1>2. TrueCounts(table) \in [Counters -> Int]
  BY <1>1 DEF TrueCounts
<1> QED
  BY <1>2, WritesAssumption

\* What the summary column of the store stands for.
Shown == IF raced THEN TrueCounts(rows) ELSE summary

LEMMA StoreInit == Init => Store!Init
<1> SUFFICES ASSUME Init PROVE Store!Init
  OBVIOUS
<1>1. rows \in [Scenes -> Row \union {NoRow}] /\ ~raced /\ summary = NoSummary
  BY WritesAssumption DEF Init
<1> QED
  BY <1>1, StoreCounts DEF Store!Init

LEMMA StoreStep ==
  ASSUME TypeOK, TypeOK', TodoPatched, CacheCoherent, CountsFresh, CountersTrue, [Next]_vars
  PROVE  [Store!Next]_<<rows, Shown>>
<1>1. CASE UNCHANGED <<rows, summary, raced>>
  BY <1>1 DEF Shown
<1>2. ASSUME NEW p \in Callers, StoreSummary(p) PROVE Store!CountAll
  <2>1. /\ pc[p] = "store" /\ summary' = counted[p] /\ raced' = (raced \/ stale[p]) /\ rows' = rows
    BY <1>2 DEF StoreSummary
  <2>2. ~raced' => summary' = TrueCounts(rows)
    BY <2>1 DEF CountsFresh
  <2>3. Shown' = TrueCounts(rows)
    BY <2>1, <2>2 DEF Shown
  <2> QED
    BY <2>1, <2>3, StoreCounts DEF Store!CountAll, Shown
<1>3. ASSUME NEW w \in Writers, CommitChunk(w) PROVE Store!WriteChunk
  <2>1. /\ summary # NoSummary /\ raced' = raced /\ pc[w] = "chunk"
        /\ existing' = [existing EXCEPT ![w] = NextRows(w)]
        /\ rows' = [s \in Scenes |-> IF s \in NextChunk(w) THEN existing'[w][s] ELSE rows[s]]
    BY <1>3 DEF CommitChunk
  <2>2. rows \in [Scenes -> MaybeRow] /\ rows' \in [Scenes -> MaybeRow]
    BY DEF TypeOK
  <2>3. Shown # NoSummary
    BY <2>1, <2>2, TrueCountsType DEF Shown
  <2>4. Shown' = TrueCounts(rows')
    <3>1. CASE raced
      BY <2>1, <3>1 DEF Shown
    <3>2. CASE ~raced
      <4>1. summary = TrueCounts(rows)
        BY <2>1, <3>2 DEF CountersTrue
      <4>2. summary' = TrueCounts(rows')
        BY <1>3, <4>1, CommitExact
      <4> QED
        BY <2>1, <3>2, <4>2 DEF Shown
    <3> QED
      BY <3>1, <3>2
  <2>5. Cardinality({s \in Scenes : rows'[s] # rows[s]}) <= ChunkSize
    <3> DEFINE changed == {s \in Scenes : rows'[s] # rows[s]}
    <3>1. changed \subseteq NextChunk(w)
      BY <2>1
    <3> HIDE DEF changed
    <3>2. IsFiniteSet(NextChunk(w)) /\ Cardinality(NextChunk(w)) <= ChunkSize
      BY ChunkBounded
    <3>3. Cardinality(changed) <= Cardinality(NextChunk(w)) /\ IsFiniteSet(changed)
      BY <3>1, <3>2, FS_Subset
    <3>4. Cardinality(changed) \in Nat /\ Cardinality(NextChunk(w)) \in Nat /\ ChunkSize \in Nat
      BY <3>2, <3>3, FS_CardinalityType, WritesAssumption
    <3>5. Cardinality(changed) <= ChunkSize
      BY <3>2, <3>3, <3>4
    <3> QED
      BY <3>5 DEF changed
  <2>6. ASSUME NEW s \in Scenes, rows[s] # NoRow PROVE rows'[s] # NoRow
    <3>1. CASE s \in NextChunk(w)
      <4>1. rows'[s] = BuildRow(existing[w][s], batch[w][s])
        BY <2>1, <3>1 DEF TypeOK, NextRows
      <4>2. existing[w][s] \in MaybeRow
        BY DEF TypeOK
      <4>3. batch[w][s] \in Patch
        <5>1. s \in DOMAIN batch[w]
          BY <3>1 DEF NextChunk, TodoPatched
        <5>2. batch[w] \in Batches \union {NoBatch}
          BY DEF TypeOK
        <5> QED
          BY <5>1, <5>2, WritesAssumption DEF NoBatch
      <4> QED
        BY <4>1, <4>2, <4>3, BuildRowType, WritesAssumption
    <3>2. CASE s \notin NextChunk(w)
      BY <2>1, <2>6, <3>2
    <3> QED
      BY <3>1, <3>2
  <2> QED
    BY <2>2, <2>3, <2>4, <2>5, <2>6, StoreCounts DEF Store!WriteChunk, Shown, MaybeRow
<1> QED
  BY <1>1, <1>2, <1>3
  DEF Next, WriterStep, ReaderStep, Callers, Call, Enter, Ask, FindSummary, CountRows,
      ReadExisting, Deadlock, QueryFails, Leave, Restart, rebuild, vars, Store!Next

\* The write path implements SceneIndexStore: to whoever reads rows and summary, the
\* awaits, chunks, failures, retries and restarts of applySceneIndexPatches are steps that
\* change ChunkSize rows at most together with their counts.
THEOREM WritesImplementStore == Safe => ImplementsStore
<1>1. TypeOK /\ TypeOK' /\ TodoPatched /\ CacheCoherent /\ CountsFresh /\ CountersTrue
        /\ [Next]_vars => [Store!Next]_<<rows, Shown>>
  BY StoreStep
<1> QED
  BY <1>1, StoreInit, SummaryInvariant, PTL DEF Safe, Shown, ImplementsStore, Store!Spec

=============================================================================
