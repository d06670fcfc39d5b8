------------------------ MODULE MetadataHydration_proofs ------------------------
(***************************************************************************)
(* MetadataHydration for every set of scenes, any number of hydrations on  *)
(* demand, all sizes of batches and all intervals: typing, the exactness   *)
(* of the claims, and that an answer never replaces a younger one.         *)
(***************************************************************************)
EXTENDS MetadataHydration, FiniteSetTheorems, WellFoundedInduction, TLAPS

-----------------------------------------------------------------------------
(* The inductive invariant. *)

Claiming == {"fetch", "apply", "release"}

\* A hydration has answers only for scenes it has claimed.
Owned(call) ==
  /\ call.pc \notin Claiming => call.patches = NoPatches
  /\ call.pc = "fetch" => call.rest \subseteq call.ids
  /\ \A s \in Scenes : call.patches[s] # NoRow =>
       s \in call.ids /\ call.patches[s].state # "PENDING"

PatchesOwned == \A h \in Slots : Owned(hydration[h])

\* The row holds the answer of a hydration.
Answered(row) == row # NoRow /\ row.state # "PENDING" /\ ~row.seeded

\* An answer that is still to be written is no older than the one in the row.
Younger(call) ==
  call.pc \in {"fetch", "apply"} =>
    \A s \in Scenes : (call.patches[s] # NoRow /\ Answered(rows[s]))
                        => call.patches[s].age <= rows[s].age

AnswersYounger == \A h \in Slots : Younger(hydration[h])

Exclusive == ClaimsExact /\ PatchesOwned /\ AnswersYounger

IInv == TypeOK /\ Exclusive

-----------------------------------------------------------------------------
(* Operators. *)

\* A finite set of numbers has a greatest element, which Max finds.
LEMMA MaxOfFinite ==
  ASSUME NEW S \in SUBSET Nat, IsFiniteSet(S), S # {}
  PROVE  Max(S) \in S
<1> DEFINE Above(x) == {y \in S : y > x}
           T == {Above(x) : x \in S}
<1>1. T \subseteq FiniteSubsetsOf(S) /\ T # {}
  <2>1. \A x \in S : Above(x) \in SUBSET S /\ IsFiniteSet(Above(x))
    BY FS_Subset
  <2> QED
    BY <2>1 DEF FiniteSubsetsOf
<1>2. PICK U \in T : \A V \in T : ~ (<<V, U>> \in StrictSubsetOrdering(S))
  <2>1. IsWellFoundedOn(StrictSubsetOrdering(S), FiniteSubsetsOf(S))
    BY FS_StrictSubsetOrderingWellFounded
  <2> HIDE DEF T
  <2> QED
    BY <1>1, <2>1, WFMin
<1>3. PICK x \in S : U = Above(x)
  OBVIOUS
<1>4. ASSUME NEW y \in S, y > x PROVE FALSE
  <2>1. Above(y) \subseteq Above(x) /\ y \in Above(x) /\ y \notin Above(y)
    <3>1. x \in Nat /\ y \in Nat /\ \A z \in S : z \in Nat
      OBVIOUS
    <3>2. \A z \in S : z > y => z > x
      BY <1>4, <3>1
    <3>3. ~ (y > y)
      BY <3>1
    <3> QED
      BY <1>4, <3>2, <3>3
  <2>2. Above(y) \in SUBSET S /\ Above(x) \in SUBSET S /\ Above(y) \in T
    OBVIOUS
  <2> HIDE DEF Above, T
  <2>3. <<Above(y), Above(x)>> \in StrictSubsetOrdering(S)
    BY <2>1, <2>2 DEF StrictSubsetOrdering
  <2> QED
    BY <1>2, <1>3, <2>2, <2>3
<1>5. \A y \in S : x >= y
  BY <1>4
<1> QED
  BY <1>5 DEF Max

LEMMA LeastInRange ==
  ASSUME NEW m \in Nat, NEW n \in Nat
  PROVE  Least(m, n) \in 0..n /\ Least(m, n) <= m
BY DEF Least

\* Growing older keeps the kind of a row, and keeps rows in the order of their ages.
LEMMA OlderType ==
  ASSUME NEW row \in Row \union {NoRow}
  PROVE  /\ Older(row) \in Row \union {NoRow}
         /\ Older(row) = NoRow <=> row = NoRow
         /\ row # NoRow => /\ Older(row).state = row.state
                            /\ Older(row).seeded = row.seeded
<1>1. CASE row = NoRow \/ row.state = "PENDING"
  BY <1>1 DEF Older, Row
<1>2. CASE row # NoRow /\ row.state # "PENDING"
  <2>1. row \in Row /\ row.age \in Nat /\ RefreshAge \in Nat
    BY <1>2, HydrationAssumption DEF Row
  <2>2. Older(row) = [row EXCEPT !.age = Least(row.age + 1, RefreshAge)]
    BY <1>2 DEF Older
  <2>3. Least(row.age + 1, RefreshAge) \in 0..RefreshAge
    BY <2>1, LeastInRange
  <2> QED
    BY <1>2, <2>1, <2>2, <2>3, NoRowAssumption DEF Row
<1> QED
  BY <1>1, <1>2

LEMMA OlderOrder ==
  ASSUME NEW new \in Row, NEW old \in Row, new.state # "PENDING", old.state # "PENDING",
         new # NoRow, old # NoRow, new.age <= old.age
  PROVE  Older(new).age <= Older(old).age
<1>1. new.age \in Nat /\ old.age \in Nat /\ RefreshAge \in Nat
  BY HydrationAssumption DEF Row
<1>2. /\ Older(new).age = Least(new.age + 1, RefreshAge)
      /\ Older(old).age = Least(old.age + 1, RefreshAge)
  BY DEF Older, Row
<1> QED
  BY <1>1, <1>2 DEF Least

LEMMA IdleType == Idle \in Hydration
BY HydrationAssumption DEF Idle, Hydration, Steps, NoPatches

\* What a backfill looks for are scenes, and what it takes of them too.
LEMMA FirstOfSubset ==
  ASSUME NEW ids \in SUBSET Scenes, NEW n
  PROVE  FirstOf(ids, n) \in SUBSET ids
BY DEF FirstOf

LEMMA WhereSubset == \A forced : BackfillWhere(forced) \in SUBSET Scenes
BY DEF BackfillWhere, Known

-----------------------------------------------------------------------------
(* Types. *)

\* A call in its new state, in its slot.
LEMMA SlotType ==
  ASSUME TypeOK, NEW h \in Slots, NEW new \in Hydration,
         h # Backfill => new.pc \in {"idle", "config", "fetch", "apply", "release"},
         hydration' = [hydration EXCEPT ![h] = new]
  PROVE  /\ hydration' \in [Slots -> Hydration]
         /\ \A g \in OnDemand :
              hydration'[g].pc \in {"idle", "config", "fetch", "apply", "release"}
<1>1. hydration \in [Slots -> Hydration] /\ Backfill \notin OnDemand
      /\ OnDemand \subseteq Slots
  BY HydrationAssumption DEF TypeOK, Slots
<1>2. hydration' \in [Slots -> Hydration]
  BY <1>1
<1>3. \A g \in OnDemand : hydration'[g] = IF g = h THEN new ELSE hydration[g]
  BY <1>1
<1> QED
  BY <1>1, <1>2, <1>3 DEF TypeOK

LEMMA TypeInit == Init => TypeOK
BY IdleType, HydrationAssumption
DEF Init, TypeOK, Idle, Slots

\* The rows of a backfill are scenes, and the last of them becomes its cursor.
LEMMA TakeTargetsType ==
  ASSUME TypeOK, NEW ids \in SUBSET Scenes, TakeTargets(ids)
  PROVE  /\ hydration' \in [Slots -> Hydration]
         /\ \A g \in OnDemand :
              hydration'[g].pc \in {"idle", "config", "fetch", "apply", "release"}
<1> DEFINE old == hydration[Backfill]
           reached == IF ids = {} THEN NoScene ELSE Max(ids)
           new == [old EXCEPT !.pc = IF ids = {} THEN "mark" ELSE "config",
                              !.ids = ids, !.forced = FALSE, !.reached = reached]
<1>1. reached \in Scenes \union {NoScene}
  BY MaxOfFinite, FS_Subset, HydrationAssumption
<1>2. old \in Hydration /\ Backfill \in Slots
  BY DEF TypeOK, Slots
<1>3. new \in Hydration
  <2> HIDE DEF reached, old
  <2> QED
    BY <1>1, <1>2 DEF Hydration, Steps
<1>4. hydration' = [hydration EXCEPT ![Backfill] = new]
  BY <1>2 DEF TakeTargets
<1> HIDE DEF new
<1> QED
  BY <1>2, <1>3, <1>4, SlotType

LEMMA EndHydrationType ==
  ASSUME TypeOK, NEW h \in Slots, NEW failed \in BOOLEAN, EndHydration(h, failed)
  PROVE  /\ hydration' \in [Slots -> Hydration]
         /\ \A g \in OnDemand :
              hydration'[g].pc \in {"idle", "config", "fetch", "apply", "release"}
<1> DEFINE new == IF h = Backfill
                  THEN [Idle EXCEPT !.pc = "mark", !.failed = failed,
                                    !.reached = hydration[h].reached]
                  ELSE Idle
<1>1. hydration[h].reached \in Scenes \union {NoScene}
  BY DEF TypeOK, Hydration
<1>2. new \in Hydration
  BY <1>1, IdleType DEF Hydration, Steps
<1>3. h # Backfill => new.pc = "idle"
  BY DEF Idle
<1>4. hydration' = [hydration EXCEPT ![h] = new]
  BY DEF EndHydration
<1> HIDE DEF new
<1> QED
  BY <1>2, <1>3, <1>4, SlotType

\* performMetadataHydration.
LEMMA HydrationStepType ==
  ASSUME TypeOK, NEW h \in Slots, HydrationStep(h)
  PROVE  TypeOK'
<1> DEFINE Typed == /\ hydration' \in [Slots -> Hydration]
                    /\ \A g \in OnDemand :
                         hydration'[g].pc \in {"idle", "config", "fetch", "apply", "release"}
<1>1. hydration[h] \in Hydration
  BY DEF TypeOK
<1>2. CASE Claim(h)
  <2> DEFINE claimed == hydration[h].ids \ inFlight
             new == [hydration[h] EXCEPT !.pc = "fetch", !.ids = claimed, !.rest = claimed]
  <2>1. CASE ~configured \/ claimed = {}
    BY <1>2, <2>1, EndHydrationType DEF Claim, TypeOK
  <2>2. CASE ~(~configured \/ claimed = {})
    <3>1. new \in Hydration /\ new.pc = "fetch" /\ inFlight \union claimed \subseteq Scenes
      BY <1>1 DEF Hydration, Steps, TypeOK
    <3>2. hydration' = [hydration EXCEPT ![h] = new] /\ inFlight' = inFlight \union claimed
      BY <1>2, <2>2 DEF Claim
    <3> HIDE DEF new, claimed
    <3>3. Typed
      BY <3>1, <3>2, SlotType
    <3> QED
      BY <1>2, <3>1, <3>2, <3>3 DEF Claim, TypeOK
  <2> QED
    BY <2>1, <2>2
<1>3. CASE BatchAnswered(h) \/ BatchFails(h)
  <2>1. PICK answer \in {Answer("HYDRATED"), Answer("FAILED_RETRYABLE")} : Fetch(h, answer)
    BY <1>3 DEF BatchAnswered, BatchFails
  <2> DEFINE batch == FirstOf(hydration[h].rest, QueryBatch)
             rest == hydration[h].rest \ batch
             patches == [s \in Scenes |-> IF s \in batch THEN answer
                                          ELSE hydration[h].patches[s]]
             new == [hydration[h] EXCEPT !.patches = patches, !.rest = rest,
                                         !.pc = IF rest = {} THEN "apply" ELSE "fetch"]
  <2>2. answer \in Row
    <3>1. 0 \in 0..RefreshAge
      BY HydrationAssumption
    <3>2. Answer("HYDRATED") \in Row /\ Answer("FAILED_RETRYABLE") \in Row
      BY <3>1 DEF Answer, Row
    <3> QED
      BY <3>2
  <2>3. patches \in [Scenes -> Row \union {NoRow}] /\ rest \subseteq Scenes
    <3> HIDE DEF batch
    <3> QED
      BY <1>1, <2>2 DEF Hydration
  <2>4. hydration' = [hydration EXCEPT ![h] = new]
    BY <2>1 DEF Fetch
  <2> HIDE DEF patches, rest
  <2>5. new \in Hydration /\ new.pc \in {"fetch", "apply"}
    BY <1>1, <2>3 DEF Hydration, Steps
  <2> HIDE DEF new
  <2>6. Typed
    BY <2>4, <2>5, SlotType
  <2> QED
    BY <2>1, <2>6 DEF Fetch, TypeOK
<1>4. CASE Apply(h)
  <2>1. rows' \in [Scenes -> Row \union {NoRow}]
    BY <1>1, <1>4 DEF Apply, Hydration, TypeOK
  <2>2. nextCheck' \in 0..CheckCache
    BY <1>4, HydrationAssumption DEF Apply, Invalidate, TypeOK
  <2>3. [hydration[h] EXCEPT !.pc = "release"] \in Hydration
    BY <1>1 DEF Hydration, Steps
  <2>4. Typed
    BY <1>4, <2>3, SlotType DEF Apply, GoTo, Hydration
  <2> QED
    BY <1>4, <2>1, <2>2, <2>4 DEF Apply, TypeOK
<1>5. CASE ApplyFails(h)
  <2>1. [hydration[h] EXCEPT !.pc = "release", !.failed = TRUE] \in Hydration
    BY <1>1 DEF Hydration, Steps
  <2>2. hydration' = [hydration EXCEPT
                        ![h] = [hydration[h] EXCEPT !.pc = "release", !.failed = TRUE]]
    BY <1>5 DEF ApplyFails, TypeOK
  <2>3. Typed
    BY <2>1, <2>2, SlotType DEF Hydration
  <2> QED
    BY <1>5, <2>3 DEF ApplyFails, TypeOK
<1>6. CASE Release(h)
  <2>1. Typed
    BY <1>1, <1>6, EndHydrationType DEF Release, Hydration
  <2> QED
    BY <1>6, <2>1 DEF Release, TypeOK
<1> QED
  BY <1>2, <1>3, <1>4, <1>5, <1>6 DEF HydrationStep

\* The job before and after its hydration.
LEMMA JobStepType ==
  ASSUME TypeOK,
         \/ CheckBackfill \/ PostponeBackfill \/ GetTargets \/ WrapTargets
         \/ MarkSuccess \/ MarkFailure \/ \E forced \in BOOLEAN : StartBackfill(forced)
  PROVE  TypeOK'
<1> DEFINE Typed == /\ hydration' \in [Slots -> Hydration]
                    /\ \A g \in OnDemand :
                         hydration'[g].pc \in {"idle", "config", "fetch", "apply", "release"}
<1>1. Backfill \in Slots /\ hydration[Backfill] \in Hydration /\ Idle \in Hydration
  BY IdleType DEF TypeOK, Slots
<1>2. ASSUME NEW new \in Hydration, hydration' = [hydration EXCEPT ![Backfill] = new]
      PROVE  Typed
  BY <1>1, <1>2, SlotType
<1>3. CASE CheckBackfill
  <2> DEFINE left == TargetInterval - sinceSuccess
             until == IF left <= 0 THEN 0 ELSE Least(left, CheckCache)
             new == [Idle EXCEPT !.pc = IF left <= 0 THEN "targets" ELSE "checked",
                                 !.until = until]
  <2>1. left \in Int
    BY HydrationAssumption DEF TargetInterval, TypeOK
  <2>2. until \in 0..CheckCache
    BY <2>1, LeastInRange, HydrationAssumption
  <2>3. hydration' = [hydration EXCEPT ![Backfill] = new]
    BY <1>3 DEF CheckBackfill
  <2> HIDE DEF left, until
  <2>4. new \in Hydration
    BY <1>1, <2>2 DEF Hydration, Steps
  <2> HIDE DEF new
  <2> QED
    BY <1>2, <1>3, <2>3, <2>4 DEF CheckBackfill, TypeOK
<1>4. CASE PostponeBackfill
  <2>1. hydration[Backfill].until \in 0..CheckCache
    BY <1>1 DEF Hydration
  <2> QED
    BY <1>1, <1>2, <1>4, <2>1 DEF PostponeBackfill, TypeOK
<1>5. CASE GetTargets
  <2> DEFINE wanted == BackfillWhere(hydration[Backfill].forced)
             beyond == {s \in wanted : cursor = NoScene \/ s > cursor}
  <2>1. beyond \in SUBSET Scenes
    BY WhereSubset
  <2>2. FirstOf(beyond, BatchSize) \in SUBSET Scenes
    <3> HIDE DEF beyond
    <3> QED
      BY <2>1, FirstOfSubset
  <2>3. GoTo(Backfill, "wrap") \/ TakeTargets(FirstOf(beyond, BatchSize))
    BY <1>5 DEF GetTargets
  <2> HIDE DEF wanted, beyond
  <2>4. CASE GoTo(Backfill, "wrap")
    <3>1. [hydration[Backfill] EXCEPT !.pc = "wrap"] \in Hydration
      BY <1>1 DEF Hydration, Steps
    <3> QED
      BY <1>2, <1>5, <2>4, <3>1 DEF GetTargets, GoTo, TypeOK
  <2>5. CASE TakeTargets(FirstOf(beyond, BatchSize))
    BY <1>5, <2>2, <2>5, TakeTargetsType DEF GetTargets, TypeOK
  <2> QED
    BY <2>3, <2>4, <2>5
<1>6. CASE WrapTargets
  <2> DEFINE ids == FirstOf(BackfillWhere(hydration[Backfill].forced), BatchSize)
  <2>1. ids \in SUBSET Scenes
    BY WhereSubset, FirstOfSubset
  <2>2. TakeTargets(ids)
    BY <1>6 DEF WrapTargets
  <2> HIDE DEF ids
  <2>3. Typed
    BY <2>1, <2>2, TakeTargetsType
  <2> QED
    BY <1>6, <2>3 DEF WrapTargets, TypeOK
<1>7. CASE MarkSuccess
  <2>1. hydration[Backfill].reached \in Scenes \union {NoScene}
    BY <1>1 DEF Hydration
  <2> QED
    BY <1>1, <1>2, <1>7, <2>1, HydrationAssumption DEF MarkSuccess, TypeOK
<1>8. CASE MarkFailure
  BY <1>1, <1>2, <1>8 DEF MarkFailure, TypeOK
<1>9. ASSUME NEW forced \in BOOLEAN, StartBackfill(forced) PROVE TypeOK'
  <2>1. [Idle EXCEPT !.pc = "targets", !.forced = forced] \in Hydration
    BY <1>1 DEF Hydration, Steps
  <2>2. events' \in 0..MaxEvents
    <3>1. events \in 0..MaxEvents /\ MaxEvents \in Nat
      BY HydrationAssumption DEF TypeOK
    <3>2. events < MaxEvents /\ events' = events + 1
      BY <1>9 DEF StartBackfill, Happens
    <3> QED
      BY <3>1, <3>2
  <2>3. Typed
    BY <1>2, <1>9, <2>1 DEF StartBackfill
  <2> QED
    BY <1>9, <2>2, <2>3 DEF StartBackfill, TypeOK
<1> QED
  BY <1>3, <1>4, <1>5, <1>6, <1>7, <1>8, <1>9

LEMMA HappensType ==
  ASSUME TypeOK, Happens
  PROVE  events' \in 0..MaxEvents
<1>1. events \in 0..MaxEvents /\ MaxEvents \in Nat
  BY HydrationAssumption DEF TypeOK
<1>2. events < MaxEvents /\ events' = events + 1
  BY DEF Happens
<1> QED
  BY <1>1, <1>2

\* Hydrations on demand and the writers of rows.
LEMMA OthersType ==
  ASSUME TypeOK,
         \/ \E h \in OnDemand : \E ids \in SUBSET Scenes : RequestHydration(h, ids)
         \/ \E s \in Scenes : WriteRow(s) \/ SeedRow(s)
         \/ SwitchProvider
  PROVE  TypeOK'
<1>1. CASE \E h \in OnDemand : \E ids \in SUBSET Scenes : RequestHydration(h, ids)
  <2>1. PICK h \in OnDemand, ids \in SUBSET Scenes : RequestHydration(h, ids)
    BY <1>1
  <2> DEFINE new == [Idle EXCEPT !.pc = "config", !.ids = ids \ inFlight]
  <2>2. new \in Hydration /\ new.pc = "config" /\ h \in Slots
    BY IdleType DEF Hydration, Steps, Slots
  <2>3. hydration' = [hydration EXCEPT ![h] = new]
    BY <2>1 DEF RequestHydration
  <2> HIDE DEF new
  <2>4. /\ hydration' \in [Slots -> Hydration]
        /\ \A g \in OnDemand :
             hydration'[g].pc \in {"idle", "config", "fetch", "apply", "release"}
    BY <2>2, <2>3, SlotType
  <2>5. events' \in 0..MaxEvents
    BY <2>1, HappensType DEF RequestHydration
  <2> QED
    BY <2>1, <2>4, <2>5 DEF RequestHydration, TypeOK
<1>2. ASSUME NEW s \in Scenes, WriteRow(s) PROVE TypeOK'
  <2>1. PendingRow \in Row
    BY HydrationAssumption DEF PendingRow, Row
  <2>2. rows' \in [Scenes -> Row \union {NoRow}]
    BY <1>2, <2>1 DEF WriteRow, TypeOK
  <2>3. nextCheck' \in 0..CheckCache
    BY <1>2, HydrationAssumption DEF WriteRow, Invalidate, TypeOK
  <2> QED
    BY <1>2, <2>2, <2>3 DEF WriteRow, TypeOK
<1>3. ASSUME NEW s \in Scenes, SeedRow(s) PROVE TypeOK'
  <2>1. [state |-> "HYDRATED", age |-> 0, seeded |-> TRUE] \in Row
    BY HydrationAssumption DEF Row
  <2>2. rows' \in [Scenes -> Row \union {NoRow}]
    BY <1>3, <2>1 DEF SeedRow, TypeOK
  <2>3. events' \in 0..MaxEvents
    BY <1>3, HappensType DEF SeedRow
  <2> QED
    BY <1>3, <2>2, <2>3 DEF SeedRow, TypeOK
<1>4. CASE SwitchProvider
  <2>1. events' \in 0..MaxEvents
    BY <1>4, HappensType DEF SwitchProvider
  <2> QED
    BY <1>4, <2>1 DEF SwitchProvider, TypeOK
<1> QED
  BY <1>1, <1>2, <1>3, <1>4

LEMMA RestartType ==
  ASSUME TypeOK, Restart
  PROVE  TypeOK'
<1>1. hydration' \in [Slots -> Hydration] /\ \A g \in Slots : hydration'[g].pc = "idle"
  BY IdleType DEF Restart, Idle
<1>2. events' \in 0..MaxEvents
  BY HappensType DEF Restart
<1>3. nextCheck' \in 0..CheckCache
  BY HydrationAssumption DEF Restart
<1> QED
  BY <1>1, <1>2, <1>3 DEF Restart, TypeOK, Slots

LEMMA TickType ==
  ASSUME TypeOK, Tick
  PROVE  TypeOK'
<1>1. rows' \in [Scenes -> Row \union {NoRow}]
  <2>1. \A s \in Scenes : Older(rows[s]) \in Row \union {NoRow}
    BY OlderType DEF TypeOK
  <2> QED
    BY <2>1 DEF Tick
<1>2. ASSUME NEW h \in Slots
      PROVE  hydration'[h] \in Hydration /\ hydration'[h].pc = hydration[h].pc
  <2> DEFINE old == hydration[h]
             patches == [s \in Scenes |-> Older(old.patches[s])]
             until == IF old.until = 0 THEN 0 ELSE old.until - 1
             new == [old EXCEPT !.patches = patches, !.until = until]
  <2>1. old \in Hydration
    BY DEF TypeOK
  <2>2. patches \in [Scenes -> Row \union {NoRow}]
    <3>1. \A s \in Scenes : old.patches[s] \in Row \union {NoRow}
      BY <2>1 DEF Hydration
    <3>2. \A s \in Scenes : Older(old.patches[s]) \in Row \union {NoRow}
      BY <3>1, OlderType
    <3> QED
      BY <3>2
  <2>3. until \in 0..CheckCache
    BY <2>1, HydrationAssumption DEF Hydration
  <2>4. hydration'[h] = new
    BY DEF Tick
  <2> HIDE DEF old, patches, until
  <2>5. new \in Hydration /\ new.pc = old.pc
    BY <2>1, <2>2, <2>3 DEF Hydration
  <2> QED
    BY <2>4, <2>5 DEF old
<1>3. hydration' \in [Slots -> Hydration]
  <2>1. \A h \in Slots : hydration'[h] \in Hydration
    BY <1>2
  <2>2. hydration' = [h \in Slots |-> hydration'[h]]
    BY DEF Tick
  <2> QED
    BY <2>1, <2>2
<1>4. \A h \in OnDemand :
        hydration'[h].pc \in {"idle", "config", "fetch", "apply", "release"}
  BY <1>2 DEF TypeOK, Slots
<1>5. sinceSuccess' \in 0..Steady
  <2>1. sinceSuccess \in Nat /\ Steady \in Nat
    BY HydrationAssumption DEF TypeOK
  <2>2. sinceSuccess' = Least(sinceSuccess + 1, Steady)
    BY DEF Tick
  <2> QED
    BY <2>1, <2>2, LeastInRange
<1>6. nextCheck' \in 0..CheckCache
  <2>1. nextCheck \in 0..CheckCache /\ CheckCache \in Nat
    BY HydrationAssumption DEF TypeOK
  <2>2. nextCheck' = IF nextCheck = 0 THEN 0 ELSE nextCheck - 1
    BY DEF Tick
  <2> QED
    BY <2>1, <2>2
<1> QED
  BY <1>1, <1>3, <1>4, <1>5, <1>6 DEF Tick, TypeOK

LEMMA TypeNext == TypeOK /\ [Next]_vars => TypeOK'
<1> SUFFICES ASSUME TypeOK, [Next]_vars PROVE TypeOK'
  OBVIOUS
<1>1. CASE UNCHANGED vars
  BY <1>1 DEF TypeOK, vars
<1>2. CASE Next
  BY <1>2, HydrationStepType, JobStepType, OthersType, RestartType, TickType
  DEF Next, BackfillStep, Slots
<1> QED
  BY <1>1, <1>2

-----------------------------------------------------------------------------
(* Claims and answers. *)

\* The scenes a call in this state holds.
Holds(call) == IF call.pc \in Claiming THEN call.ids ELSE {}

\* A step of one call that neither takes nor gives back claims.
LEMMA SlotExclusive ==
  ASSUME TypeOK, Exclusive, NEW h \in Slots, NEW new,
         hydration' = [hydration EXCEPT ![h] = new],
         UNCHANGED <<rows, inFlight>>,
         Holds(new) = Holds(hydration[h]), Owned(new), Younger(new)
  PROVE  Exclusive'
<1>1. \A g \in Slots : hydration'[g] = IF g = h THEN new ELSE hydration[g]
  BY DEF TypeOK
<1>2. \A g \in Slots : Claimed(g)' = Claimed(g)
  BY <1>1 DEF Claimed, Holds, Claiming
<1>3. ClaimsExact'
  <2>1. UNION {Claimed(g)' : g \in Slots} = UNION {Claimed(g) : g \in Slots}
    BY <1>2
  <2> QED
    BY <1>2, <2>1 DEF Exclusive, ClaimsExact
<1>4. PatchesOwned'
  BY <1>1 DEF Exclusive, PatchesOwned, Owned
<1>5. AnswersYounger'
  BY <1>1 DEF Exclusive, AnswersYounger, Younger
<1> QED
  BY <1>3, <1>4, <1>5 DEF Exclusive

\* In particular a step of a call that holds nothing before and after.
LEMMA OutsideExclusive ==
  ASSUME TypeOK, Exclusive, NEW h \in Slots, NEW new,
         hydration' = [hydration EXCEPT ![h] = new],
         UNCHANGED <<rows, inFlight>>,
         hydration[h].pc \notin Claiming, new.pc \notin Claiming,
         new.patches = NoPatches
  PROVE  Exclusive'
<1>1. Holds(new) = Holds(hydration[h])
  BY DEF Holds
<1>2. Owned(new) /\ Younger(new)
  BY DEF Owned, Younger, NoPatches, Claiming
<1> QED
  BY <1>1, <1>2, SlotExclusive

LEMMA ExclusiveInit == Init => Exclusive
<1> SUFFICES ASSUME Init PROVE Exclusive
  OBVIOUS
<1>1. \A h \in Slots : hydration[h] = Idle
  BY DEF Init
<1>2. \A h \in Slots : Claimed(h) = {}
  BY <1>1 DEF Claimed, Idle
<1>3. ClaimsExact
  BY <1>2 DEF ClaimsExact, Init
<1>4. Owned(Idle) /\ Younger(Idle)
  BY DEF Owned, Younger, Idle, NoPatches, Claiming
<1> QED
  BY <1>1, <1>3, <1>4 DEF Exclusive, PatchesOwned, AnswersYounger

LEMMA EndHydrationOutside ==
  ASSUME NEW h \in Slots, NEW failed, EndHydration(h, failed)
  PROVE  \E new : /\ hydration' = [hydration EXCEPT ![h] = new]
                  /\ new.pc \notin Claiming /\ new.patches = NoPatches
<1> DEFINE new == IF h = Backfill
                  THEN [Idle EXCEPT !.pc = "mark", !.failed = failed,
                                    !.reached = hydration[h].reached]
                  ELSE Idle
<1>1. hydration' = [hydration EXCEPT ![h] = new]
  BY DEF EndHydration
<1>2. new.pc \notin Claiming /\ new.patches = NoPatches
  BY DEF Idle, Claiming
<1> HIDE DEF new
<1> QED
  BY <1>1, <1>2

LEMMA ClaimExclusive ==
  ASSUME TypeOK, Exclusive, NEW h \in Slots, Claim(h)
  PROVE  Exclusive'
<1> DEFINE claimed == hydration[h].ids \ inFlight
           new == [hydration[h] EXCEPT !.pc = "fetch", !.ids = claimed, !.rest = claimed]
<1>1. hydration[h] \in Hydration /\ hydration[h].pc = "config" /\ UNCHANGED rows
  BY DEF TypeOK, Claim
<1>2. CASE ~configured \/ claimed = {}
  <2>1. EndHydration(h, FALSE) /\ UNCHANGED inFlight
    BY <1>2 DEF Claim
  <2>2. PICK ended : /\ hydration' = [hydration EXCEPT ![h] = ended]
                     /\ ended.pc \notin Claiming /\ ended.patches = NoPatches
    BY <2>1, EndHydrationOutside
  <2> QED
    BY <1>1, <2>1, <2>2, OutsideExclusive DEF Claiming
<1>3. CASE ~(~configured \/ claimed = {})
  <2>1. hydration' = [hydration EXCEPT ![h] = new] /\ inFlight' = inFlight \union claimed
    BY <1>3 DEF Claim
  <2>2. /\ new.pc = "fetch" /\ new.ids = claimed /\ new.rest = claimed
        /\ new.patches = hydration[h].patches
    BY <1>1 DEF Hydration
  <2>3. hydration[h].patches = NoPatches
    BY <1>1 DEF Exclusive, PatchesOwned, Owned, Claiming
  <2>4. \A g \in Slots : hydration'[g] = IF g = h THEN new ELSE hydration[g]
    BY <2>1 DEF TypeOK
  <2> HIDE DEF new, claimed
  <2>5. /\ Claimed(h) = {} /\ Claimed(h)' = claimed
        /\ \A g \in Slots : g # h => Claimed(g)' = Claimed(g)
    BY <1>1, <2>2, <2>4 DEF Claimed
  <2>6. \A g \in Slots : Claimed(g) \intersect claimed = {}
    BY DEF Exclusive, ClaimsExact, claimed
  <2>7. ClaimsExact'
    <3>1. inFlight' = UNION {Claimed(g)' : g \in Slots}
      BY <2>1, <2>5 DEF Exclusive, ClaimsExact
    <3>2. \A f, g \in Slots : f # g => Claimed(f)' \intersect Claimed(g)' = {}
      BY <2>5, <2>6 DEF Exclusive, ClaimsExact
    <3> QED
      BY <3>1, <3>2 DEF ClaimsExact
  <2>8. Owned(new)
    BY <2>2, <2>3 DEF Owned, NoPatches, Claiming
  <2>9. PatchesOwned'
    BY <2>4, <2>8 DEF Exclusive, PatchesOwned, Owned
  <2>10. AnswersYounger'
    BY <1>1, <2>2, <2>3, <2>4 DEF Exclusive, AnswersYounger, Younger, NoPatches
  <2> QED
    BY <2>7, <2>9, <2>10 DEF Exclusive
<1> QED
  BY <1>2, <1>3

LEMMA FetchExclusive ==
  ASSUME TypeOK, Exclusive, NEW h \in Slots, BatchAnswered(h) \/ BatchFails(h)
  PROVE  Exclusive'
<1>1. PICK answer \in {Answer("HYDRATED"), Answer("FAILED_RETRYABLE")} : Fetch(h, answer)
  BY DEF BatchAnswered, BatchFails
<1> DEFINE call == hydration[h]
           batch == FirstOf(call.rest, QueryBatch)
           rest == call.rest \ batch
           patches == [s \in Scenes |-> IF s \in batch THEN answer ELSE call.patches[s]]
           new == [call EXCEPT !.patches = patches, !.rest = rest,
                               !.pc = IF rest = {} THEN "apply" ELSE "fetch"]
<1>2. call \in Hydration /\ call.pc = "fetch" /\ UNCHANGED <<rows, inFlight>>
  BY <1>1 DEF TypeOK, Fetch
<1>3. hydration' = [hydration EXCEPT ![h] = new]
  BY <1>1 DEF Fetch
<1>4. /\ new.pc \in {"fetch", "apply"} /\ new.ids = call.ids
      /\ new.rest = rest /\ new.patches = patches
  <2> HIDE DEF patches, rest, call
  <2> QED
    BY <1>2 DEF Hydration
<1>5. answer.age = 0 /\ answer.state # "PENDING"
  BY DEF Answer
<1>6. batch \subseteq call.rest /\ call.rest \subseteq call.ids
  BY <1>2, FirstOfSubset DEF Exclusive, PatchesOwned, Owned, Hydration
<1>7. \A s \in Scenes : \/ patches[s] = answer /\ s \in call.ids
                      \/ patches[s] = call.patches[s]
  BY <1>6
<1>8. Owned(new)
  <2>1. rest \subseteq call.ids
    BY <1>6
  <2>2. \A s \in Scenes : call.patches[s] # NoRow =>
          s \in call.ids /\ call.patches[s].state # "PENDING"
    BY DEF Exclusive, PatchesOwned, Owned
  <2> HIDE DEF new, patches, rest, batch, call
  <2> QED
    BY <1>4, <1>5, <1>7, <2>1, <2>2 DEF Owned, Claiming
<1>9. Younger(new)
  <2>1. \A s \in Scenes : (call.patches[s] # NoRow /\ Answered(rows[s]))
                            => call.patches[s].age <= rows[s].age
    BY <1>2 DEF Exclusive, AnswersYounger, Younger
  <2>2. \A s \in Scenes : rows[s] # NoRow => rows[s].age \in Nat
    BY HydrationAssumption DEF TypeOK, Row
  <2> HIDE DEF new, patches, rest, batch, call
  <2> QED
    BY <1>4, <1>5, <1>7, <2>1, <2>2 DEF Younger, Answered
<1>10. Holds(new) = Holds(call)
  BY <1>2, <1>4 DEF Holds, Claiming
<1> HIDE DEF new
<1> QED
  BY <1>2, <1>3, <1>8, <1>9, <1>10, SlotExclusive

\* The rows that a hydration writes are no other hydration's.
LEMMA ApplyExclusive ==
  ASSUME TypeOK, Exclusive, NEW h \in Slots, Apply(h)
  PROVE  Exclusive'
<1> DEFINE new == [hydration[h] EXCEPT !.pc = "release"]
<1>1. hydration[h] \in Hydration /\ hydration[h].pc = "apply" /\ UNCHANGED inFlight
  BY DEF TypeOK, Apply
<1>2. \A g \in Slots : hydration'[g] = IF g = h THEN new ELSE hydration[g]
  BY DEF TypeOK, Apply, GoTo
<1>3. /\ new.pc = "release" /\ new.ids = hydration[h].ids
      /\ new.patches = hydration[h].patches
  BY <1>1 DEF Hydration
<1> HIDE DEF new
<1>4. ClaimsExact'
  <2>1. \A g \in Slots : Claimed(g)' = Claimed(g)
    BY <1>1, <1>2, <1>3 DEF Claimed
  <2>2. UNION {Claimed(g)' : g \in Slots} = UNION {Claimed(g) : g \in Slots}
    BY <2>1
  <2> QED
    BY <1>1, <2>1, <2>2 DEF Exclusive, ClaimsExact
<1>5. PatchesOwned'
  <2>1. Owned(new)
    BY <1>1, <1>3 DEF Exclusive, PatchesOwned, Owned, Claiming
  <2> QED
    BY <1>2, <2>1 DEF Exclusive, PatchesOwned, Owned
<1>6. ASSUME NEW g \in Slots, NEW s \in Scenes, hydration'[g].pc \in {"fetch", "apply"},
             hydration'[g].patches[s] # NoRow
      PROVE  rows'[s] = rows[s]
  <2>1. g # h /\ hydration'[g] = hydration[g]
    BY <1>2, <1>3, <1>6
  <2>2. s \in Claimed(g)
    BY <1>6, <2>1 DEF Exclusive, PatchesOwned, Owned, Claimed
  <2>3. s \notin Claimed(h)
    BY <2>1, <2>2 DEF Exclusive, ClaimsExact
  <2>4. hydration[h].patches[s] = NoRow
    BY <1>1, <2>3 DEF Exclusive, PatchesOwned, Owned, Claimed
  <2> QED
    BY <2>4 DEF Apply
<1>7. AnswersYounger'
  <2>1. SUFFICES ASSUME NEW g \in Slots, NEW s \in Scenes,
                        hydration'[g].pc \in {"fetch", "apply"},
                        hydration'[g].patches[s] # NoRow, Answered(rows'[s])
                 PROVE  hydration'[g].patches[s].age <= rows'[s].age
    BY DEF AnswersYounger, Younger, Answered
  <2>2. rows'[s] = rows[s]
    BY <1>6, <2>1
  <2>3. hydration'[g] = hydration[g]
    BY <1>2, <1>3, <2>1
  <2> QED
    BY <2>1, <2>2, <2>3 DEF Exclusive, AnswersYounger, Younger
<1> QED
  BY <1>4, <1>5, <1>7 DEF Exclusive

LEMMA ApplyFailsExclusive ==
  ASSUME TypeOK, Exclusive, NEW h \in Slots, ApplyFails(h)
  PROVE  Exclusive'
<1> DEFINE new == [hydration[h] EXCEPT !.pc = "release", !.failed = TRUE]
<1>1. hydration[h] \in Hydration /\ hydration[h].pc = "apply" /\ UNCHANGED <<rows, inFlight>>
  BY DEF TypeOK, ApplyFails
<1>2. hydration' = [hydration EXCEPT ![h] = new]
  BY DEF TypeOK, ApplyFails
<1>3. /\ new.pc = "release" /\ new.ids = hydration[h].ids
      /\ new.patches = hydration[h].patches
  BY <1>1 DEF Hydration
<1> HIDE DEF new
<1>4. Owned(new) /\ Younger(new) /\ Holds(new) = Holds(hydration[h])
  BY <1>1, <1>3 DEF Exclusive, PatchesOwned, Owned, Younger, Holds, Claiming
<1> QED
  BY <1>1, <1>2, <1>4, SlotExclusive

LEMMA ReleaseExclusive ==
  ASSUME TypeOK, Exclusive, NEW h \in Slots, Release(h)
  PROVE  Exclusive'
<1>1. /\ hydration[h].pc = "release" /\ UNCHANGED rows
      /\ inFlight' = inFlight \ hydration[h].ids
  BY DEF Release
<1>2. PICK ended : /\ hydration' = [hydration EXCEPT ![h] = ended]
                   /\ ended.pc \notin Claiming /\ ended.patches = NoPatches
  BY EndHydrationOutside DEF Release
<1>3. \A g \in Slots : hydration'[g] = IF g = h THEN ended ELSE hydration[g]
  BY <1>2 DEF TypeOK
<1>4. /\ Claimed(h) = hydration[h].ids /\ Claimed(h)' = {}
      /\ \A g \in Slots : g # h => Claimed(g)' = Claimed(g)
  BY <1>1, <1>2, <1>3 DEF Claimed, Claiming
<1>5. ClaimsExact'
  <2>1. inFlight' = UNION {Claimed(g)' : g \in Slots}
    BY <1>1, <1>4 DEF Exclusive, ClaimsExact
  <2>2. \A f, g \in Slots : f # g => Claimed(f)' \intersect Claimed(g)' = {}
    BY <1>4 DEF Exclusive, ClaimsExact
  <2> QED
    BY <2>1, <2>2 DEF ClaimsExact
<1>6. Owned(ended)
  BY <1>2 DEF Owned, NoPatches, Claiming
<1>7. PatchesOwned'
  BY <1>3, <1>6 DEF Exclusive, PatchesOwned, Owned
<1>8. AnswersYounger'
  BY <1>1, <1>2, <1>3 DEF Exclusive, AnswersYounger, Younger, Claiming
<1> QED
  BY <1>5, <1>7, <1>8 DEF Exclusive

\* The job outside of its hydration, and a new hydration, hold nothing.
LEMMA OutsideSteps ==
  ASSUME TypeOK, Exclusive,
         \/ CheckBackfill \/ PostponeBackfill \/ GetTargets \/ WrapTargets
         \/ MarkSuccess \/ MarkFailure \/ \E forced \in BOOLEAN : StartBackfill(forced)
         \/ \E h \in OnDemand : \E ids \in SUBSET Scenes : RequestHydration(h, ids)
  PROVE  Exclusive'
<1>1. Backfill \in Slots /\ hydration[Backfill] \in Hydration /\ Idle.patches = NoPatches
  BY DEF TypeOK, Slots, Idle
<1>2. ASSUME hydration[Backfill].pc \notin Claiming, NEW new,
             hydration' = [hydration EXCEPT ![Backfill] = new], UNCHANGED <<rows, inFlight>>,
             new.pc \notin Claiming, new.patches = NoPatches
      PROVE  Exclusive'
  BY <1>1, <1>2, OutsideExclusive
<1>3. ASSUME hydration[Backfill].pc \in {"targets", "wrap"}, NEW ids \in SUBSET Scenes,
             TakeTargets(ids), UNCHANGED <<rows, inFlight>>
      PROVE  Exclusive'
  <2> DEFINE reached == IF ids = {} THEN NoScene ELSE Max(ids)
             new == [hydration[Backfill] EXCEPT
                       !.pc = IF ids = {} THEN "mark" ELSE "config",
                       !.ids = ids, !.forced = FALSE, !.reached = reached]
  <2>1. hydration' = [hydration EXCEPT ![Backfill] = new]
    BY <1>1, <1>3 DEF TakeTargets
  <2>2. hydration[Backfill].patches = NoPatches
    BY <1>1, <1>3 DEF Exclusive, PatchesOwned, Owned, Claiming
  <2> HIDE DEF reached
  <2>3. new.pc \notin Claiming /\ new.patches = NoPatches
    BY <1>1, <2>2 DEF Hydration, Claiming
  <2> HIDE DEF new
  <2> QED
    BY <1>2, <1>3, <2>1, <2>3 DEF Claiming
<1>4. CASE CheckBackfill
  <2> DEFINE left == TargetInterval - sinceSuccess
             until == IF left <= 0 THEN 0 ELSE Least(left, CheckCache)
             new == [Idle EXCEPT !.pc = IF left <= 0 THEN "targets" ELSE "checked",
                                 !.until = until]
  <2>1. /\ hydration' = [hydration EXCEPT ![Backfill] = new]
        /\ UNCHANGED <<rows, inFlight>> /\ hydration[Backfill].pc = "idle"
    BY <1>4 DEF CheckBackfill
  <2> HIDE DEF left, until
  <2>2. new.pc \notin Claiming /\ new.patches = NoPatches
    BY DEF Idle, Claiming
  <2> HIDE DEF new
  <2> QED
    BY <1>2, <2>1, <2>2 DEF Claiming
<1>5. CASE PostponeBackfill \/ MarkSuccess \/ MarkFailure
  <2>1. /\ hydration' = [hydration EXCEPT ![Backfill] = Idle]
        /\ UNCHANGED <<rows, inFlight>> /\ hydration[Backfill].pc \notin Claiming
    BY <1>5 DEF PostponeBackfill, MarkSuccess, MarkFailure, Claiming
  <2>2. Idle.pc \notin Claiming
    BY DEF Idle, Claiming
  <2> QED
    BY <1>1, <1>2, <2>1, <2>2
<1>6. CASE GetTargets
  <2> DEFINE wanted == BackfillWhere(hydration[Backfill].forced)
             beyond == {s \in wanted : cursor = NoScene \/ s > cursor}
  <2>1. FirstOf(beyond, BatchSize) \in SUBSET Scenes
    <3>1. beyond \in SUBSET Scenes
      BY WhereSubset
    <3> HIDE DEF beyond
    <3> QED
      BY <3>1, FirstOfSubset
  <2>2. /\ GoTo(Backfill, "wrap") \/ TakeTargets(FirstOf(beyond, BatchSize))
        /\ UNCHANGED <<rows, inFlight>> /\ hydration[Backfill].pc = "targets"
    BY <1>6 DEF GetTargets
  <2> HIDE DEF beyond, wanted
  <2>3. CASE GoTo(Backfill, "wrap")
    <3> DEFINE new == [hydration[Backfill] EXCEPT !.pc = "wrap"]
    <3>1. hydration' = [hydration EXCEPT ![Backfill] = new]
      BY <2>3 DEF GoTo
    <3>2. new.pc = "wrap" /\ new.patches = NoPatches
      BY <1>1, <2>2 DEF Exclusive, PatchesOwned, Owned, Hydration, Claiming
    <3> HIDE DEF new
    <3> QED
      BY <1>2, <2>2, <3>1, <3>2 DEF Claiming
  <2> QED
    BY <1>3, <2>1, <2>2, <2>3
<1>7. CASE WrapTargets
  <2> DEFINE ids == FirstOf(BackfillWhere(hydration[Backfill].forced), BatchSize)
  <2>1. ids \in SUBSET Scenes
    BY WhereSubset, FirstOfSubset
  <2>2. TakeTargets(ids) /\ UNCHANGED <<rows, inFlight>> /\ hydration[Backfill].pc = "wrap"
    BY <1>7 DEF WrapTargets
  <2> HIDE DEF ids
  <2> QED
    BY <1>3, <2>1, <2>2
<1>8. ASSUME NEW forced \in BOOLEAN, StartBackfill(forced) PROVE Exclusive'
  <2> DEFINE new == [Idle EXCEPT !.pc = "targets", !.forced = forced]
  <2>1. new.pc \notin Claiming /\ new.patches = NoPatches
    BY DEF Idle, Claiming
  <2>2. /\ hydration' = [hydration EXCEPT ![Backfill] = new]
        /\ UNCHANGED <<rows, inFlight>> /\ hydration[Backfill].pc = "idle"
    BY <1>8 DEF StartBackfill
  <2> HIDE DEF new
  <2> QED
    BY <1>2, <2>1, <2>2 DEF Claiming
<1>9. ASSUME NEW h \in OnDemand, NEW ids \in SUBSET Scenes, RequestHydration(h, ids)
      PROVE  Exclusive'
  <2> DEFINE new == [Idle EXCEPT !.pc = "config", !.ids = ids \ inFlight]
  <2>1. new.pc \notin Claiming /\ new.patches = NoPatches
    BY DEF Idle, Claiming
  <2>2. /\ hydration' = [hydration EXCEPT ![h] = new]
        /\ UNCHANGED <<rows, inFlight>> /\ hydration[h].pc = "idle" /\ h \in Slots
    BY <1>9 DEF RequestHydration, Slots
  <2> HIDE DEF new
  <2> QED
    BY <2>1, <2>2, OutsideExclusive DEF Claiming
<1> QED
  BY <1>4, <1>5, <1>6, <1>7, <1>8, <1>9

\* Other writers replace no answer, except by metadata of their own.
LEMMA WritersExclusive ==
  ASSUME TypeOK, Exclusive,
         (\E s \in Scenes : WriteRow(s) \/ SeedRow(s)) \/ SwitchProvider \/ UNCHANGED vars
  PROVE  Exclusive'
<1>1. UNCHANGED <<hydration, inFlight>>
  BY DEF WriteRow, SeedRow, SwitchProvider, vars
<1>2. \A s \in Scenes : Answered(rows'[s]) => rows'[s] = rows[s]
  <2>1. ASSUME NEW t \in Scenes, WriteRow(t), NEW s \in Scenes, Answered(rows'[s])
        PROVE  rows'[s] = rows[s]
    BY <2>1 DEF WriteRow, Answered, PendingRow, TypeOK
  <2>2. ASSUME NEW t \in Scenes, SeedRow(t), NEW s \in Scenes, Answered(rows'[s])
        PROVE  rows'[s] = rows[s]
    BY <2>2 DEF SeedRow, Answered, TypeOK
  <2>3. CASE SwitchProvider \/ UNCHANGED vars
    BY <2>3 DEF SwitchProvider, vars
  <2> QED
    BY <2>1, <2>2, <2>3
<1>3. ClaimsExact'
  BY <1>1 DEF Exclusive, ClaimsExact, Claimed
<1>4. PatchesOwned'
  BY <1>1 DEF Exclusive, PatchesOwned, Owned
<1>5. AnswersYounger'
  BY <1>1, <1>2 DEF Exclusive, AnswersYounger, Younger, Answered
<1> QED
  BY <1>3, <1>4, <1>5 DEF Exclusive

LEMMA RestartExclusive ==
  ASSUME TypeOK, Exclusive, Restart
  PROVE  Exclusive'
<1>1. inFlight' = {} /\ \A h \in Slots : hydration'[h] = Idle
  BY DEF Restart
<1>2. \A h \in Slots : Claimed(h)' = {}
  BY <1>1 DEF Claimed, Idle
<1>3. ClaimsExact'
  BY <1>1, <1>2 DEF ClaimsExact
<1>4. PatchesOwned'
  BY <1>1 DEF PatchesOwned, Owned, Idle, NoPatches, Claiming
<1>5. AnswersYounger'
  BY <1>1 DEF AnswersYounger, Younger, Idle
<1> QED
  BY <1>3, <1>4, <1>5 DEF Exclusive

\* Answers on their way and answers in the rows grow older together.
LEMMA TickExclusive ==
  ASSUME TypeOK, Exclusive, Tick
  PROVE  Exclusive'
<1>1. ASSUME NEW h \in Slots
      PROVE  /\ hydration'[h].pc = hydration[h].pc /\ hydration'[h].ids = hydration[h].ids
             /\ hydration'[h].rest = hydration[h].rest
             /\ hydration'[h].patches = [s \in Scenes |-> Older(hydration[h].patches[s])]
  <2>1. hydration[h] \in Hydration
    BY DEF TypeOK
  <2> DEFINE patches == [s \in Scenes |-> Older(hydration[h].patches[s])]
             until == IF hydration[h].until = 0 THEN 0 ELSE hydration[h].until - 1
  <2>2. hydration'[h] = [hydration[h] EXCEPT !.patches = patches, !.until = until]
    BY DEF Tick
  <2> HIDE DEF patches, until
  <2>3. /\ hydration'[h].pc = hydration[h].pc /\ hydration'[h].ids = hydration[h].ids
        /\ hydration'[h].rest = hydration[h].rest /\ hydration'[h].patches = patches
    BY <2>1, <2>2 DEF Hydration
  <2> QED
    BY <2>3 DEF patches
<1>2. \A h \in Slots, s \in Scenes : hydration[h].patches[s] \in Row \union {NoRow}
  BY DEF TypeOK, Hydration
<1>3. \A h \in Slots : Claimed(h)' = Claimed(h)
  BY <1>1 DEF Claimed
<1>4. ClaimsExact'
  <2>1. UNION {Claimed(h)' : h \in Slots} = UNION {Claimed(h) : h \in Slots}
    BY <1>3
  <2> QED
    BY <1>3, <2>1 DEF Exclusive, ClaimsExact, Tick
<1>5. PatchesOwned'
  <2>1. SUFFICES ASSUME NEW h \in Slots PROVE Owned(hydration'[h])
    BY DEF PatchesOwned, Owned
  <2>2. \A s \in Scenes : hydration'[h].patches[s] = Older(hydration[h].patches[s])
    BY <1>1
  <2>3. hydration[h].pc \notin Claiming => hydration'[h].patches = NoPatches
    <3>1. Older(NoRow) = NoRow
      BY DEF Older
    <3>2. ASSUME hydration[h].patches = NoPatches
          PROVE  [s \in Scenes |-> Older(hydration[h].patches[s])] = NoPatches
      BY <3>1, <3>2 DEF NoPatches
    <3> QED
      BY <1>1, <3>2 DEF Exclusive, PatchesOwned, Owned
  <2>4. ASSUME NEW s \in Scenes, hydration'[h].patches[s] # NoRow
        PROVE  s \in hydration'[h].ids /\ hydration'[h].patches[s].state # "PENDING"
    <3> DEFINE old == hydration[h].patches[s]
    <3>1. old \in Row \union {NoRow} /\ hydration'[h].patches[s] = Older(old)
      BY <1>2, <2>2
    <3>2. old # NoRow => s \in hydration[h].ids /\ old.state # "PENDING"
      BY DEF Exclusive, PatchesOwned, Owned
    <3> HIDE DEF old
    <3> QED
      BY <1>1, <2>4, <3>1, <3>2, OlderType
  <2>5. hydration'[h].pc = "fetch" => hydration'[h].rest \subseteq hydration'[h].ids
    BY <1>1 DEF Exclusive, PatchesOwned, Owned
  <2> QED
    BY <1>1, <2>3, <2>4, <2>5 DEF Owned
<1>6. AnswersYounger'
  <2>1. SUFFICES ASSUME NEW h \in Slots, NEW s \in Scenes,
                        hydration'[h].pc \in {"fetch", "apply"},
                        hydration'[h].patches[s] # NoRow, Answered(rows'[s])
                 PROVE  hydration'[h].patches[s].age <= rows'[s].age
    BY DEF AnswersYounger, Younger, Answered
  <2> DEFINE new == hydration[h].patches[s]
             old == rows[s]
  <2>2. hydration'[h].patches[s] = Older(new) /\ rows'[s] = Older(old)
    <3>1. hydration'[h].patches[s] = Older(new)
      BY <1>1
    <3>2. rows'[s] = Older(old)
      BY DEF Tick
    <3> QED
      BY <3>1, <3>2
  <2>3. new \in Row \union {NoRow} /\ old \in Row \union {NoRow}
    BY <1>2 DEF TypeOK
  <2>4. new # NoRow /\ Answered(old)
    BY <2>1, <2>2, <2>3, OlderType DEF Answered
  <2>5. new.state # "PENDING" /\ new.age <= old.age
    BY <1>1, <2>1, <2>4 DEF Exclusive, PatchesOwned, Owned, AnswersYounger, Younger
  <2> HIDE DEF new, old
  <2> QED
    BY <2>2, <2>3, <2>4, <2>5, OlderOrder DEF Answered
<1> QED
  BY <1>4, <1>5, <1>6 DEF Exclusive

LEMMA ExclusiveNext == TypeOK /\ Exclusive /\ [Next]_vars => Exclusive'
<1> SUFFICES ASSUME TypeOK, Exclusive, [Next]_vars PROVE Exclusive'
  OBVIOUS
<1>1. ASSUME NEW h \in Slots, HydrationStep(h) PROVE Exclusive'
  BY <1>1, ClaimExclusive, FetchExclusive, ApplyExclusive, ApplyFailsExclusive,
     ReleaseExclusive
  DEF HydrationStep
<1>2. CASE UNCHANGED vars
  BY <1>2, WritersExclusive
<1>3. CASE Next
  BY <1>1, <1>3, OutsideSteps, WritersExclusive, RestartExclusive, TickExclusive
  DEF Next, BackfillStep, Slots
<1> QED
  BY <1>2, <1>3

-----------------------------------------------------------------------------
(* Theorems. *)

\* The inductive invariant holds in every run, also where the system may stop.
LEMMA Invariant == Spec => []IInv
<1>1. Init => IInv
  BY TypeInit, ExclusiveInit DEF IInv
<1>2. IInv /\ [Next]_vars => IInv'
  BY TypeNext, ExclusiveNext DEF IInv
<1> QED
  BY <1>1, <1>2, PTL DEF Spec

\* Rows, calls, cursor and times keep their types: no interval is overrun, no
\* cursor names a scene that is not there, no hydration on demand marks the job.
THEOREM Typing == Spec => []TypeOK
<1>1. IInv => TypeOK
  BY DEF IInv
<1> QED
  BY <1>1, Invariant, PTL

\* performMetadataHydration: however many hydrations overlap, fail or are cut off,
\* metadataHydrationInFlight holds exactly their scenes, each for one of them.
THEOREM ClaimsAreExact == Spec => []ClaimsExact
<1>1. IInv => ClaimsExact
  BY DEF IInv, Exclusive
<1> QED
  BY <1>1, Invariant, PTL

\* What an Apply writes is no older than the answer it replaces; the other steps
\* replace none.
LEMMA StepKeepsYoungest ==
  ASSUME IInv, [Next]_vars, NEW s \in Scenes, Answered(rows[s])
  PROVE  rows'[s] = Older(rows[s]) \/ rows'[s].age <= rows[s].age
<1>1. rows[s] \in Row /\ rows[s].age \in Nat
  BY HydrationAssumption DEF IInv, TypeOK, Answered, Row
<1>2. CASE rows' = rows
  BY <1>1, <1>2
<1>3. ASSUME NEW h \in Slots, Apply(h)
      PROVE  rows'[s].age <= rows[s].age
  <2>1. rows'[s] = IF hydration[h].patches[s] = NoRow THEN rows[s]
                   ELSE hydration[h].patches[s]
    BY <1>3 DEF Apply
  <2>2. hydration[h].patches[s] # NoRow => hydration[h].patches[s].age <= rows[s].age
    BY <1>3 DEF IInv, Exclusive, AnswersYounger, Younger, Apply
  <2> QED
    BY <1>1, <2>1, <2>2
<1>4. ASSUME NEW t \in Scenes, WriteRow(t)
      PROVE  rows'[s] = rows[s]
  BY <1>4 DEF WriteRow, Answered, IInv, TypeOK
<1>5. ASSUME NEW t \in Scenes, SeedRow(t)
      PROVE  rows'[s] = rows[s] \/ rows'[s].age = 0
  BY <1>5 DEF SeedRow, IInv, TypeOK
<1>6. CASE Tick
  BY <1>6 DEF Tick
<1>7. ASSUME NEW h \in Slots, HydrationStep(h)
      PROVE  rows' = rows \/ Apply(h)
  BY <1>7 DEF HydrationStep, Claim, BatchAnswered, BatchFails, Fetch, ApplyFails, Release
<1>8. CASE UNCHANGED vars
  BY <1>2, <1>8 DEF vars
<1>9. CASE CheckBackfill \/ PostponeBackfill \/ GetTargets \/ WrapTargets
             \/ MarkSuccess \/ MarkFailure \/ SwitchProvider \/ Restart
  BY <1>2, <1>9 DEF CheckBackfill, PostponeBackfill, GetTargets, WrapTargets, MarkSuccess,
                    MarkFailure, SwitchProvider, Restart
<1>10. ASSUME NEW forced \in BOOLEAN, StartBackfill(forced) PROVE rows' = rows
  BY <1>10 DEF StartBackfill
<1>11. ASSUME NEW h \in OnDemand, NEW ids \in SUBSET Scenes, RequestHydration(h, ids)
       PROVE  rows' = rows
  BY <1>11 DEF RequestHydration
<1>12. CASE Next
  BY <1>1, <1>2, <1>3, <1>4, <1>5, <1>6, <1>7, <1>9, <1>10, <1>11, <1>12
  DEF Next, BackfillStep, Slots
<1> QED
  BY <1>8, <1>12

\* applySceneIndexPatches never lets the answer of an earlier request replace the
\* answer of a later one, whichever hydrations overlap.
THEOREM YoungestStays == Spec => YoungestAnswerStays
<1> DEFINE Keeps == \A s \in Scenes :
             (rows[s] # NoRow /\ rows[s].state # "PENDING" /\ ~rows[s].seeded) =>
               \/ rows'[s] = Older(rows[s])
               \/ rows'[s].age <= rows[s].age
<1>1. IInv /\ [Next]_vars => [Keeps]_vars
  BY StepKeepsYoungest DEF Answered
<1> QED
  BY <1>1, Invariant, PTL DEF Spec, YoungestAnswerStays
================================================================================
