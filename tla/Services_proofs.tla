---------------------------- MODULE Services_proofs ----------------------------
(***************************************************************************)
(* Services for every value of its constants: the freshness of the index,  *)
(* the cache of availability, the two ways to a scene's status, the loop   *)
(* of the resolver, the saved connections, the health of a provider and    *)
(* the paging of the queue, each proved by an invariant of its own.  What  *)
(* a service's invariant says is kept by its own steps and, for want of    *)
(* shared state, by all others.                                            *)
(***************************************************************************)
EXTENDS Services, FiniteSets, Sequences, FiniteSetTheorems, SequenceTheorems,
        WellFoundedInduction, TLAPS

-----------------------------------------------------------------------------
(* Freshness of the index. *)

FreshnessTyped ==
  /\ Freshness!TypeOK
  /\ appeared \in [Freshness!Sources -> SUBSET Scenes]
  /\ appearedNow \in [Freshness!Sources -> SUBSET Scenes]

Watched == Freshness!Consulted

\* What a sync has read is all that did not appear since it began...
ReadCovers == \A k \in Freshness!Sources :
  k \in Watched /\ sync[k].pc = "write" => source[k] \ appearedNow[k] \subseteq sync[k].seen

\* ...what it has written is no older than the time it was stamped with, by this sync or
\* by one that wrote it since, and the time that has passed since this one wrote...
WrittenCovers == \A k \in Freshness!Sources :
  k \in Watched /\ sync[k].pc = "mark" =>
    \A s \in source[k] \ appearedNow[k] :
      rowAge[s] # NoRow /\ rowAge[s] <= stamped[s] + sync[k].age

\* ...which at its success is remembered, and grows with the age of the success.
SuccessCovers == \A k \in Freshness!Sources :
  k \in Watched /\ job[k].status = "SUCCEEDED" =>
    \A s \in source[k] \ appeared[k] :
      rowAge[s] # NoRow /\ rowAge[s] <= stamped[s] + job[k].waited + job[k].age

FreshnessInv == FreshnessTyped /\ ReadCovers /\ WrittenCovers /\ SuccessCovers

LEMMA FreshnessConstants ==
  /\ IndexMaxAge \in Nat /\ SnapshotMaxAge \in Nat /\ RequestMaxAge \in Nat
  /\ NoRow \notin Nat
BY ServicesAssumption DEF Freshness!FreshnessAssumption

\* A covered row that was stamped and marked soon enough is usable.
LEMMA FreshnessImplies == FreshnessInv => Freshness!TypeOK /\ Freshness!UnknownAbsentUnlessSlow
<1> SUFFICES ASSUME FreshnessInv PROVE Freshness!TypeOK /\ Freshness!UnknownAbsentUnlessSlow
  OBVIOUS
<1>1. Freshness!TypeOK
  BY DEF FreshnessInv, FreshnessTyped
<1>2. ASSUME Freshness!CanResolveUnknownScenesAsNotRequested,
             NEW k \in Freshness!Consulted, NEW s \in source[k] \ appeared[k],
             stamped[s] + job[k].waited + Freshness!MaxAge(k) <= IndexMaxAge
      PROVE  Freshness!Usable(s)
  <2>1. k \in Freshness!Sources
    BY <1>1 DEF Freshness!TypeOK, Freshness!Sources, Freshness!Leased, Freshness!Consulted
  <2>2. /\ job[k].status = "SUCCEEDED" /\ job[k].age <= Freshness!MaxAge(k)
        /\ job[k].age \in Nat /\ job[k].waited \in Nat /\ Freshness!MaxAge(k) \in Nat
    BY <1>1, <1>2, <2>1, FreshnessConstants
    DEF Freshness!TypeOK, Freshness!CanResolveUnknownScenesAsNotRequested,
        Freshness!SuccessfulSyncFresh, Freshness!TooOld, Freshness!MaxAge
  <2>3. s \in Scenes /\ stamped[s] \in Nat
    BY <1>1, <2>1, FreshnessConstants DEF Freshness!TypeOK, Freshness!TooOld
  <2>4. rowAge[s] # NoRow /\ rowAge[s] <= stamped[s] + job[k].waited + job[k].age
    BY <2>1, <2>2 DEF FreshnessInv, SuccessCovers, Watched
  <2>5. rowAge[s] \in Nat
    BY <1>1, <2>3, <2>4, FreshnessConstants DEF Freshness!TypeOK, Freshness!TooOld
  <2> QED
    BY <1>2, <2>2, <2>3, <2>4, <2>5, FreshnessConstants DEF Freshness!Usable
<1> QED
  BY <1>1, <1>2 DEF Freshness!UnknownAbsentUnlessSlow

LEMMA FreshnessInit == Freshness!Init => FreshnessInv
BY FreshnessConstants
DEF Freshness!Init, FreshnessInv, FreshnessTyped, Freshness!TypeOK, Freshness!Sources,
    Freshness!Leased, Freshness!NoSync, Freshness!TooOld, Freshness!Untrusted, ReadCovers,
    WrittenCovers, SuccessCovers

LEMMA FreshnessKept == FreshnessInv /\ KeepFreshness => FreshnessInv'
BY DEF KeepFreshness, FreshnessInv, FreshnessTyped, Freshness!TypeOK, ReadCovers,
       WrittenCovers, SuccessCovers, Watched, Freshness!Consulted

\* Beginning keeps what the successes cover, and asks nothing of the new sync yet.
LEMMA FreshnessBegin ==
  ASSUME FreshnessInv, NEW k \in Freshness!Sources, Freshness!Begin(k),
         bootstrap' \in Freshness!Sources \union {"off"}
  PROVE  FreshnessInv'
<1> USE FreshnessConstants DEF Freshness!Begin, Freshness!Untrusted
<1>1. FreshnessTyped'
  BY DEF FreshnessInv, FreshnessTyped, Freshness!TypeOK, Freshness!Sources,
         Freshness!Leased, Freshness!NoSync, Freshness!TooOld
<1>2. ReadCovers'
  BY DEF FreshnessInv, FreshnessTyped, Freshness!TypeOK, Freshness!NoSync, ReadCovers, Watched, Freshness!Consulted
<1>3. WrittenCovers'
  BY DEF FreshnessInv, FreshnessTyped, Freshness!TypeOK, Freshness!NoSync, WrittenCovers, Watched, Freshness!Consulted
<1>4. SuccessCovers'
  BY DEF FreshnessInv, FreshnessTyped, Freshness!TypeOK, Freshness!NoSync, SuccessCovers, Watched, Freshness!Consulted
<1> QED
  BY <1>1, <1>2, <1>3, <1>4 DEF FreshnessInv

LEMMA FreshnessRead ==
  ASSUME FreshnessInv, NEW k \in Freshness!Sources, Freshness!ReadSource(k)
  PROVE  FreshnessInv'
<1> USE FreshnessConstants DEF Freshness!ReadSource
<1>0. /\ sync'[k] \in [pc : {"idle", "read", "write", "mark"}, seen : SUBSET Scenes,
                       age : 0..Freshness!TooOld]
      /\ sync'[k].pc # "idle"
  <2>1. /\ sync[k] \in [pc : {"idle", "read", "write", "mark"}, seen : SUBSET Scenes,
                         age : 0..Freshness!TooOld]
        /\ source[k] \in SUBSET Scenes
    BY DEF FreshnessInv, FreshnessTyped, Freshness!TypeOK
  <2>2. \/ sync'[k] = [pc |-> "mark", seen |-> {}, age |-> 0]
        \/ sync'[k] = [sync[k] EXCEPT !.pc = "write", !.seen = source[k]]
    BY DEF FreshnessInv, FreshnessTyped, Freshness!TypeOK, Freshness!NoSync
  <2> HIDE DEF Freshness!ReadSource
  <2>3. CASE sync'[k] = [pc |-> "mark", seen |-> {}, age |-> 0]
    BY <2>3 DEF Freshness!TooOld
  <2>4. CASE sync'[k] = [sync[k] EXCEPT !.pc = "write", !.seen = source[k]]
    BY <2>1, <2>4
  <2> QED
    BY <2>2, <2>3, <2>4
<1>1. FreshnessTyped'
  BY <1>0 DEF FreshnessInv, FreshnessTyped, Freshness!TypeOK, Freshness!Sources, Freshness!Leased
<1>2. ReadCovers'
  BY DEF FreshnessInv, FreshnessTyped, Freshness!TypeOK, ReadCovers, Watched, Freshness!Consulted
<1>3. WrittenCovers'
  BY DEF FreshnessInv, FreshnessTyped, Freshness!TypeOK, Freshness!Sources, Freshness!Leased,
         WrittenCovers, Watched, Freshness!Consulted
<1>4. SuccessCovers'
  BY DEF FreshnessInv, SuccessCovers, Watched, Freshness!Consulted
<1> QED
  BY <1>1, <1>2, <1>3, <1>4 DEF FreshnessInv

LEMMA FreshnessWrite ==
  ASSUME FreshnessInv, NEW k \in Freshness!Sources, Freshness!WriteRows(k)
  PROVE  FreshnessInv'
<1> USE FreshnessConstants DEF Freshness!WriteRows
<1>0. /\ sync[k].age \in 0..Freshness!TooOld /\ sync[k].pc = "write"
      /\ sync'[k].pc = "mark" /\ sync'[k].age = 0
      /\ \A j \in Freshness!Sources \ {k} : sync'[j] = sync[j]
  BY DEF FreshnessInv, FreshnessTyped, Freshness!TypeOK, Freshness!TooOld, Freshness!NoSync
<1>a. \A s \in Scenes :
        IF s \in sync[k].seen THEN rowAge'[s] = sync[k].age /\ stamped'[s] = sync[k].age
                             ELSE rowAge'[s] = rowAge[s] /\ stamped'[s] = stamped[s]
  OBVIOUS
<1>b. \A j \in Freshness!Sources : /\ job[j].age \in Nat /\ job[j].waited \in Nat
                                   /\ sync'[j].age \in Nat
  BY <1>0 DEF FreshnessInv, FreshnessTyped, Freshness!TypeOK, Freshness!TooOld
<1>1. FreshnessTyped'
  BY <1>0 DEF FreshnessInv, FreshnessTyped, Freshness!TypeOK, Freshness!NoSync, Freshness!TooOld
<1>2. ReadCovers'
  BY DEF FreshnessInv, FreshnessTyped, Freshness!TypeOK, Freshness!NoSync, ReadCovers, Watched,
         Freshness!Consulted
<1>3. WrittenCovers'
  <2> SUFFICES ASSUME NEW j \in Freshness!Sources, j \in Watched', sync'[j].pc = "mark",
                      NEW s \in source'[j] \ appearedNow'[j]
               PROVE  rowAge'[s] # NoRow /\ rowAge'[s] <= stamped'[s] + sync'[j].age
    BY DEF WrittenCovers
  <2>1. s \in Scenes /\ j \in Watched
    BY DEF FreshnessInv, FreshnessTyped, Freshness!TypeOK, Watched, Freshness!Consulted
  <2>2. CASE s \in sync[k].seen
    <3>1. rowAge'[s] = sync[k].age /\ stamped'[s] = sync[k].age
      BY <1>a, <2>1, <2>2
    <3> QED
      BY <1>0, <1>b, <3>1 DEF Freshness!TooOld
  <2>3. CASE s \notin sync[k].seen
    <3>1. j # k
      BY <1>0, <2>1, <2>3 DEF FreshnessInv, ReadCovers
    <3> QED
      BY <1>0, <1>a, <2>1, <2>3, <3>1 DEF FreshnessInv, WrittenCovers
  <2> QED
    BY <2>2, <2>3
<1>4. SuccessCovers'
  <2> SUFFICES ASSUME NEW j \in Freshness!Sources, j \in Watched', job'[j].status = "SUCCEEDED",
                      NEW s \in source'[j] \ appeared'[j]
               PROVE  rowAge'[s] # NoRow /\ rowAge'[s] <= stamped'[s] + job'[j].waited + job'[j].age
    BY DEF SuccessCovers
  <2>1. s \in Scenes /\ j \in Watched
    BY DEF FreshnessInv, FreshnessTyped, Freshness!TypeOK, Watched, Freshness!Consulted
  <2>2. CASE s \in sync[k].seen
    <3>1. rowAge'[s] = sync[k].age /\ stamped'[s] = sync[k].age
      BY <1>a, <2>1, <2>2
    <3> QED
      BY <1>0, <1>b, <3>1 DEF Freshness!TooOld
  <2>3. CASE s \notin sync[k].seen
    BY <1>a, <2>1, <2>3 DEF FreshnessInv, SuccessCovers
  <2> QED
    BY <2>2, <2>3
<1> QED
  BY <1>1, <1>2, <1>3, <1>4 DEF FreshnessInv

LEMMA FreshnessMark ==
  ASSUME FreshnessInv, NEW k \in Freshness!Sources, Freshness!MarkSuccess(k)
  PROVE  FreshnessInv'
<1> USE FreshnessConstants DEF Freshness!MarkSuccess
<1>1. FreshnessTyped'
  BY DEF FreshnessInv, FreshnessTyped, Freshness!TypeOK, Freshness!NoSync, Freshness!TooOld
<1>2. ReadCovers'
  BY DEF FreshnessInv, FreshnessTyped, Freshness!TypeOK, Freshness!NoSync, ReadCovers, Watched, Freshness!Consulted
<1>3. WrittenCovers'
  BY DEF FreshnessInv, FreshnessTyped, Freshness!TypeOK, Freshness!NoSync, WrittenCovers, Watched, Freshness!Consulted
<1>4. SuccessCovers'
  <2> SUFFICES ASSUME NEW j \in Freshness!Sources, j \in Watched', job'[j].status = "SUCCEEDED",
                      NEW s \in source'[j] \ appeared'[j]
               PROVE  rowAge'[s] # NoRow /\ rowAge'[s] <= stamped'[s] + job'[j].waited + job'[j].age
    BY DEF SuccessCovers
  <2>1. CASE j # k
    <3>1. job'[j] = job[j] /\ appeared'[j] = appeared[j]
      BY <2>1 DEF FreshnessInv, FreshnessTyped, Freshness!TypeOK
    <3> QED
      BY <3>1 DEF FreshnessInv, SuccessCovers, Watched, Freshness!Consulted
  <2>2. CASE j = k
    <3>1. /\ job'[k].age = 0 /\ job'[k].waited = sync[k].age
          /\ appeared'[k] = appearedNow[k] /\ s \in Scenes
      BY <2>2 DEF FreshnessInv, FreshnessTyped, Freshness!TypeOK
    <3>2. rowAge[s] # NoRow /\ rowAge[s] <= stamped[s] + sync[k].age
      BY <2>2, <3>1 DEF FreshnessInv, WrittenCovers, Watched, Freshness!Consulted
    <3>3. rowAge[s] \in Nat /\ sync[k].age \in Nat /\ stamped[s] \in Nat
      BY <3>1, <3>2 DEF FreshnessInv, FreshnessTyped, Freshness!TypeOK, Freshness!TooOld
    <3> QED
      BY <2>2, <3>1, <3>2, <3>3
  <2> QED
    BY <2>1, <2>2
<1> QED
  BY <1>1, <1>2, <1>3, <1>4 DEF FreshnessInv

LEMMA FreshnessFails ==
  ASSUME FreshnessInv, NEW k \in Freshness!Sources, Freshness!SyncFails(k)
  PROVE  FreshnessInv'
<1> USE FreshnessConstants DEF Freshness!SyncFails, Freshness!Untrusted
<1>1. FreshnessTyped'
  BY DEF FreshnessInv, FreshnessTyped, Freshness!TypeOK, Freshness!NoSync, Freshness!TooOld
<1>2. ReadCovers'
  BY DEF FreshnessInv, FreshnessTyped, Freshness!TypeOK, Freshness!NoSync, ReadCovers, Watched, Freshness!Consulted
<1>3. WrittenCovers'
  BY DEF FreshnessInv, FreshnessTyped, Freshness!TypeOK, Freshness!NoSync, WrittenCovers, Watched, Freshness!Consulted
<1>4. SuccessCovers'
  BY DEF FreshnessInv, FreshnessTyped, Freshness!TypeOK, SuccessCovers, Watched, Freshness!Consulted
<1> QED
  BY <1>1, <1>2, <1>3, <1>4 DEF FreshnessInv

\* What appears, or comes with a new configuration, is excepted from all three.
LEMMA FreshnessSource ==
  ASSUME FreshnessInv, NEW k \in Freshness!Sources,
         \/ Freshness!Configure(k)
         \/ \E s \in Scenes : Freshness!Appears(k, s) \/ Freshness!Disappears(k, s)
  PROVE  FreshnessInv'
<1> USE FreshnessConstants
<1>1. CASE Freshness!Configure(k)
  <2> USE <1>1 DEF Freshness!Configure
  <2>1. FreshnessTyped'
    BY DEF FreshnessInv, FreshnessTyped, Freshness!TypeOK
  <2>2. \A j \in Freshness!Sources :
          (j \in Watched' /\ j \notin Watched) => source'[j] \subseteq appeared'[j] \cap appearedNow'[j]
    BY DEF FreshnessInv, FreshnessTyped, Freshness!TypeOK, Watched, Freshness!Consulted
  <2>3. \A j \in Freshness!Sources :
          /\ appeared[j] \subseteq appeared'[j] /\ appearedNow[j] \subseteq appearedNow'[j]
          /\ source'[j] = source[j]
    BY DEF FreshnessInv, FreshnessTyped, Freshness!TypeOK
  <2>4. ReadCovers' /\ WrittenCovers' /\ SuccessCovers'
    BY <2>2, <2>3 DEF FreshnessInv, ReadCovers, WrittenCovers, SuccessCovers
  <2> QED
    BY <2>1, <2>4 DEF FreshnessInv
<1>2. ASSUME NEW s \in Scenes, Freshness!Appears(k, s) PROVE FreshnessInv'
  <2> USE <1>2 DEF Freshness!Appears
  <2>1. FreshnessTyped'
    BY DEF FreshnessInv, FreshnessTyped, Freshness!TypeOK
  <2>2. \A j \in Freshness!Sources :
          /\ source'[j] \ appeared'[j] \subseteq source[j] \ appeared[j]
          /\ source'[j] \ appearedNow'[j] \subseteq source[j] \ appearedNow[j]
    BY DEF FreshnessInv, FreshnessTyped, Freshness!TypeOK
  <2>3. ReadCovers' /\ WrittenCovers' /\ SuccessCovers'
    BY <2>2 DEF FreshnessInv, ReadCovers, WrittenCovers, SuccessCovers, Watched, Freshness!Consulted
  <2> QED
    BY <2>1, <2>3 DEF FreshnessInv
<1>3. ASSUME NEW s \in Scenes, Freshness!Disappears(k, s) PROVE FreshnessInv'
  <2> USE <1>3 DEF Freshness!Disappears
  <2>1. FreshnessTyped'
    BY DEF FreshnessInv, FreshnessTyped, Freshness!TypeOK
  <2>2. \A j \in Freshness!Sources : source'[j] \subseteq source[j]
    BY DEF FreshnessInv, FreshnessTyped, Freshness!TypeOK
  <2>3. ReadCovers' /\ WrittenCovers' /\ SuccessCovers'
    BY <2>2 DEF FreshnessInv, ReadCovers, WrittenCovers, SuccessCovers, Watched, Freshness!Consulted
  <2> QED
    BY <2>1, <2>3 DEF FreshnessInv
<1> QED
  BY <1>1, <1>2, <1>3

\* Rows, successes and syncs grow older together.
LEMMA FreshnessTick == FreshnessInv /\ Freshness!Tick => FreshnessInv'
<1> SUFFICES ASSUME FreshnessInv, Freshness!Tick PROVE FreshnessInv'
  OBVIOUS
<1> USE FreshnessConstants
<1>0. \A n \in 0..Freshness!TooOld :
        /\ Freshness!Older(n) \in 0..Freshness!TooOld
        /\ Freshness!Older(n) <= n + 1
        /\ \A m \in 0..Freshness!TooOld, d \in Nat :
             n <= d + m => Freshness!Older(n) <= d + Freshness!Older(m)
  BY DEF Freshness!Older, Freshness!TooOld
<1>1. /\ rowAge' \in [Scenes -> (0..Freshness!TooOld) \union {NoRow}]
      /\ \A s \in Scenes :
           /\ rowAge[s] \in 0..Freshness!TooOld \/ rowAge[s] = NoRow
           /\ rowAge'[s] = IF rowAge[s] = NoRow THEN NoRow ELSE Freshness!Older(rowAge[s])
  BY <1>0 DEF FreshnessInv, FreshnessTyped, Freshness!TypeOK, Freshness!Tick
<1>7. \A k \in Freshness!Sources :
        /\ job[k].age \in 0..Freshness!TooOld
        /\ job[k].waited \in 0..Freshness!TooOld
        /\ job'[k].status = job[k].status
        /\ \/ job'[k].age = Freshness!Older(job[k].age) /\ job'[k].waited = job[k].waited
           \/ job'[k].age = Freshness!TooOld /\ job'[k].waited = 0
  <2> SUFFICES ASSUME NEW k \in Freshness!Sources
               PROVE  /\ job[k].age \in 0..Freshness!TooOld
                      /\ job[k].waited \in 0..Freshness!TooOld
                      /\ job'[k].status = job[k].status
                      /\ \/ /\ job'[k].age = Freshness!Older(job[k].age)
                            /\ job'[k].waited = job[k].waited
                         \/ job'[k].age = Freshness!TooOld /\ job'[k].waited = 0
    OBVIOUS
  <2>1. job[k] \in [status : {"IDLE", "RUNNING", "SUCCEEDED", "FAILED"},
                    age : 0..Freshness!TooOld, waited : 0..Freshness!TooOld]
    BY DEF FreshnessInv, FreshnessTyped, Freshness!TypeOK
  <2>2. CASE job[k].age >= Freshness!MaxAge(k)
    <3>1. job'[k] = Freshness!Untrusted(job[k].status)
      BY <2>2 DEF Freshness!Tick
    <3> QED
      BY <2>1, <3>1 DEF Freshness!Untrusted
  <2>3. CASE ~(job[k].age >= Freshness!MaxAge(k))
    <3>1. job'[k] = [job[k] EXCEPT !.age = Freshness!Older(job[k].age)]
      BY <2>3 DEF Freshness!Tick
    <3> QED
      BY <2>1, <3>1
  <2> QED
    BY <2>2, <2>3
<1>8. ASSUME NEW k \in Freshness!Sources
      PROVE  /\ sync[k].age \in 0..Freshness!TooOld
             /\ sync'[k] \in [pc : {"idle", "read", "write", "mark"}, seen : SUBSET Scenes,
                              age : 0..Freshness!TooOld]
             /\ sync'[k].pc = sync[k].pc /\ sync'[k].seen = sync[k].seen
             /\ sync[k].pc = "mark" => sync'[k].age = Freshness!Older(sync[k].age)
  <2>1. sync[k] \in [pc : {"idle", "read", "write", "mark"}, seen : SUBSET Scenes,
                     age : 0..Freshness!TooOld]
    BY DEF FreshnessInv, FreshnessTyped, Freshness!TypeOK
  <2>2. CASE ~Freshness!Stamping(k)
    <3>1. sync'[k] = sync[k] /\ sync[k].pc # "mark"
      BY <2>2 DEF Freshness!Tick, Freshness!Stamping
    <3> QED
      BY <2>1, <3>1
  <2>3. CASE Freshness!Stamping(k)
    <3>1. sync'[k] = [sync[k] EXCEPT !.age = Freshness!Older(sync[k].age)]
      BY <2>3 DEF Freshness!Tick
    <3> DEFINE older == Freshness!Older(sync[k].age)
    <3>2. older \in 0..Freshness!TooOld
      BY <1>0, <2>1
    <3> HIDE DEF older
    <3>3. sync'[k] = [sync[k] EXCEPT !.age = older]
      BY <3>1 DEF older
    <3>4. /\ sync'[k].pc = sync[k].pc /\ sync'[k].seen = sync[k].seen /\ sync'[k].age = older
          /\ sync'[k] \in [pc : {"idle", "read", "write", "mark"}, seen : SUBSET Scenes,
                           age : 0..Freshness!TooOld]
      BY <2>1, <3>2, <3>3
    <3> QED
      BY <2>1, <3>4 DEF older
  <2> QED
    BY <2>2, <2>3
<1>2. FreshnessTyped'
  <2>1. job' \in [Freshness!Sources -> [status : {"IDLE", "RUNNING", "SUCCEEDED", "FAILED"},
                                        age : 0..Freshness!TooOld, waited : 0..Freshness!TooOld]]
    <3>1. ASSUME NEW k \in Freshness!Sources
          PROVE  job'[k] \in [status : {"IDLE", "RUNNING", "SUCCEEDED", "FAILED"},
                              age : 0..Freshness!TooOld, waited : 0..Freshness!TooOld]
      <4> DEFINE older == Freshness!Older(job[k].age)
      <4>1. job[k] \in [status : {"IDLE", "RUNNING", "SUCCEEDED", "FAILED"},
                        age : 0..Freshness!TooOld, waited : 0..Freshness!TooOld]
        BY DEF FreshnessInv, FreshnessTyped, Freshness!TypeOK
      <4>2. \/ job'[k] = [job[k] EXCEPT !.age = older]
            \/ job'[k] = [status |-> job[k].status, age |-> Freshness!TooOld, waited |-> 0]
        BY DEF Freshness!Tick, Freshness!Untrusted
      <4>3. older \in 0..Freshness!TooOld
        BY <1>0, <1>7
      <4>4. Freshness!TooOld \in 0..Freshness!TooOld /\ 0 \in 0..Freshness!TooOld
        BY DEF Freshness!TooOld
      <4> HIDE DEF older
      <4> QED
        BY <4>1, <4>2, <4>3, <4>4
    <3>2. job' = [k \in Freshness!Sources |-> job'[k]]
      BY DEF Freshness!Tick
    <3> QED
      BY <3>1, <3>2
  <2>2. sync' = [k \in Freshness!Sources |-> sync'[k]]
    BY DEF Freshness!Tick
  <2>3. sync' \in [Freshness!Sources -> [pc : {"idle", "read", "write", "mark"},
                                         seen : SUBSET Scenes, age : 0..Freshness!TooOld]]
    BY <1>8, <2>2
  <2>4. \A k \in Freshness!Leased : sync'[k].pc # "idle" <=> job'[k].status = "RUNNING"
    <3>1. \A k \in Freshness!Leased : k \in Freshness!Sources
      BY DEF Freshness!Sources
    <3> QED
      BY <1>7, <1>8, <3>1 DEF FreshnessInv, FreshnessTyped, Freshness!TypeOK
  <2> QED
    BY <1>1, <2>1, <2>3, <2>4
    DEF FreshnessInv, FreshnessTyped, Freshness!TypeOK, Freshness!Tick
<1>3. \A s \in Scenes : stamped'[s] = stamped[s] /\ stamped[s] \in Nat
  BY DEF FreshnessInv, FreshnessTyped, Freshness!TypeOK, Freshness!TooOld, Freshness!Tick
<1>4. ReadCovers'
  BY <1>8 DEF FreshnessInv, ReadCovers, Watched, Freshness!Consulted, Freshness!Tick
<1>5. WrittenCovers'
  <2> SUFFICES ASSUME NEW k \in Freshness!Sources, k \in Watched', sync'[k].pc = "mark",
                      NEW s \in source'[k] \ appearedNow'[k]
               PROVE  rowAge'[s] # NoRow /\ rowAge'[s] <= stamped'[s] + sync'[k].age
    BY DEF WrittenCovers
  <2>1. s \in Scenes /\ rowAge[s] # NoRow /\ rowAge[s] <= stamped[s] + sync[k].age
    BY <1>8 DEF FreshnessInv, FreshnessTyped, Freshness!TypeOK, WrittenCovers, Watched,
                Freshness!Consulted, Freshness!Tick
  <2>2. /\ rowAge[s] \in 0..Freshness!TooOld /\ rowAge'[s] = Freshness!Older(rowAge[s])
        /\ sync[k].age \in 0..Freshness!TooOld /\ sync'[k].age = Freshness!Older(sync[k].age)
    BY <1>1, <1>8, <2>1
  <2>3. rowAge'[s] \in Nat
    BY <1>0, <2>2 DEF Freshness!TooOld
  <2> QED
    BY <1>0, <1>3, <2>1, <2>2, <2>3
<1>6. SuccessCovers'
  <2> SUFFICES ASSUME NEW k \in Freshness!Sources, k \in Watched', job'[k].status = "SUCCEEDED",
                      NEW s \in source'[k] \ appeared'[k]
               PROVE  rowAge'[s] # NoRow /\ rowAge'[s] <= stamped'[s] + job'[k].waited + job'[k].age
    BY DEF SuccessCovers
  <2>1. s \in Scenes /\ rowAge[s] # NoRow /\ rowAge[s] <= stamped[s] + job[k].waited + job[k].age
    BY <1>7 DEF FreshnessInv, FreshnessTyped, Freshness!TypeOK, SuccessCovers, Watched, Freshness!Consulted, Freshness!Tick
  <2>2. /\ rowAge[s] \in 0..Freshness!TooOld /\ rowAge'[s] = Freshness!Older(rowAge[s])
        /\ job[k].age \in 0..Freshness!TooOld
        /\ stamped[s] + job[k].waited \in Nat /\ stamped'[s] = stamped[s] /\ stamped[s] \in Nat
    BY <1>1, <1>3, <1>7, <2>1 DEF Freshness!TooOld
  <2>3. rowAge'[s] \in Nat /\ rowAge'[s] <= Freshness!TooOld /\ rowAge'[s] # NoRow
    BY <1>0, <2>2 DEF Freshness!TooOld
  <2>4. CASE job'[k].age = Freshness!Older(job[k].age) /\ job'[k].waited = job[k].waited
    BY <1>0, <2>1, <2>2, <2>3, <2>4
  <2>5. CASE job'[k].age = Freshness!TooOld /\ job'[k].waited = 0
    BY <2>2, <2>3, <2>5 DEF Freshness!TooOld
  <2> QED
    BY <1>7, <2>4, <2>5
<1> QED
  BY <1>2, <1>4, <1>5, <1>6 DEF FreshnessInv

LEMMA FreshnessNext == FreshnessInv /\ Freshness!Next => FreshnessInv'
<1> SUFFICES ASSUME FreshnessInv, Freshness!Next PROVE FreshnessInv'
  OBVIOUS
<1>0. bootstrap \in Freshness!Sources \union {"off"}
  BY DEF FreshnessInv, FreshnessTyped, Freshness!TypeOK
<1>1. ASSUME NEW k \in Freshness!Sources, Freshness!StartSync(k) PROVE FreshnessInv'
  BY <1>0, <1>1, FreshnessBegin DEF Freshness!StartSync
<1>2. CASE Freshness!StartBootstrap
  BY <1>2, FreshnessBegin DEF Freshness!StartBootstrap, Freshness!Sources
<1>3. CASE Freshness!ContinueBootstrap
  <2>1. bootstrap' \in Freshness!Sources \union {"off"}
    BY <1>0, <1>3 DEF Freshness!ContinueBootstrap, Freshness!AfterStep, Freshness!Sources, Freshness!Leased
  <2>2. CASE bootstrap' \in Freshness!Leased /\ Freshness!Begin(bootstrap')
    BY <2>1, <2>2, FreshnessBegin DEF Freshness!Sources
  <2>3. CASE UNCHANGED <<source, configured, rowAge, stamped, job, sync, appeared, appearedNow>>
    BY <2>1, <2>3 DEF FreshnessInv, FreshnessTyped, Freshness!TypeOK, ReadCovers,
                      WrittenCovers, SuccessCovers, Watched, Freshness!Consulted
  <2> QED
    BY <1>3, <2>2, <2>3 DEF Freshness!ContinueBootstrap
<1>4. CASE Freshness!Tick
  BY <1>4, FreshnessTick
<1> QED
  BY <1>1, <1>2, <1>3, <1>4, FreshnessRead, FreshnessWrite, FreshnessMark, FreshnessFails,
     FreshnessSource DEF Freshness!Next

-----------------------------------------------------------------------------
(* The two ways to a scene's status. *)

\* resolveQueueLifecycleState answers a lifecycle or null.
LEMMA QueueLifecycleType ==
  ASSUME NEW movie, NEW items
  PROVE  Queries!QueueLifecycle(movie, items) \in Queries!Lifecycles \union {Null}
<1> DEFINE said == {Queries!ItemLifecycle(i) : i \in {i \in items : i.movie = movie}}
           places == {p \in DOMAIN Queries!QueuePrecedence : Queries!QueuePrecedence[p] \in said}
           first == CHOOSE p \in places : \A q \in places : p <= q
<1>1. Queries!QueueLifecycle(movie, items) = IF places = {} THEN Null ELSE Queries!QueuePrecedence[first]
  BY DEF Queries!QueueLifecycle
<1>2. \A p \in places : p = 1 \/ p = 2 \/ p = 3 \/ p = 4
  BY DEF Queries!QueuePrecedence
<1>3. places # {} => first \in places
  <2> HIDE DEF places
  <2>1. CASE 1 \in places
    BY <1>2, <2>1
  <2>2. CASE 1 \notin places /\ 2 \in places
    BY <1>2, <2>2
  <2>3. CASE 1 \notin places /\ 2 \notin places /\ 3 \in places
    BY <1>2, <2>3
  <2>4. CASE 1 \notin places /\ 2 \notin places /\ 3 \notin places
    BY <1>2, <2>4
  <2> QED
    BY <2>1, <2>2, <2>3, <2>4
<1>4. \A p \in 1..4 : Queries!QueuePrecedence[p] \in Queries!Lifecycles
  BY DEF Queries!QueuePrecedence, Queries!Lifecycles
<1> HIDE DEF first, places
<1> QED
  BY <1>1, <1>2, <1>3, <1>4

LEMMA ResolveType ==
  ASSUME NEW movie, NEW hasFile, NEW items, NEW available, NEW request
  PROVE  Queries!ResolveSceneStatus(movie, hasFile, items, available, request) \in Queries!Lifecycles
<1>1. Queries!QueueLifecycle(movie, items) \in Queries!Lifecycles \union {Null}
  BY QueueLifecycleType
<1> QED
  BY <1>1 DEF Queries!ResolveSceneStatus, Queries!Lifecycles

\* Where resolveForScene falls back because a call failed, resolveForScenes has found no
\* movie or falls back too.
LEMMA SameStatus ==
  ASSUME NEW e \in Queries!Evidence
  PROVE  /\ Queries!ResolveForScene(e) = Queries!ResolveForScenes(e)
         /\ Queries!ResolveForScene(e) \in Queries!Lifecycles
<1>1. Queries!ResolveForScene(e) = Queries!ResolveForScenes(e)
  <2>1. \A hasFile, items :
          Queries!ResolveSceneStatus(Null, hasFile, items, FALSE, e.request)
            = Queries!ResolveSceneStatus(Null, FALSE, {}, FALSE, e.request)
    BY DEF Queries!ResolveSceneStatus
  <2>2. Queries!ResolveSceneStatus(Null, FALSE, {}, TRUE, e.request) = "AVAILABLE"
    BY DEF Queries!ResolveSceneStatus
  <2>3. CASE e.available = "available"
    BY <2>2, <2>3 DEF Queries!ResolveForScene, Queries!ResolveForScenes, Queries!Fallback
  <2>4. CASE e.available # "available"
    <3>1. Queries!Fallback(e) = Queries!ResolveSceneStatus(Null, FALSE, {}, FALSE, e.request)
      BY <2>4 DEF Queries!Fallback
    <3> QED
      BY <2>1, <2>4, <3>1 DEF Queries!ResolveForScene, Queries!ResolveForScenes, Queries!MovieFound
  <2> QED
    BY <2>3, <2>4
<1>2. Queries!ResolveForScene(e) \in Queries!Lifecycles
  <2>1. e.row # Null => e.row \in Queries!Lifecycles
    BY ServicesAssumption DEF Queries!Evidence, Queries!QueriesAssumption
  <2>2. {"NOT_REQUESTED", "AVAILABLE"} \subseteq Queries!Lifecycles
    BY DEF Queries!Lifecycles
  <2> QED
    BY <2>1, <2>2, ResolveType DEF Queries!ResolveForScene, Queries!Fallback
<1> QED
  BY <1>1, <1>2

QueriesInv ==
  /\ evidence \in Queries!Evidence
  /\ single \in {Null, Queries!ResolveForScene(evidence)}
  /\ batch \in {Null, Queries!ResolveForScenes(evidence)}

LEMMA QueriesImplies == QueriesInv => Queries!TypeOK /\ Queries!SingleAgreesWithBatch
BY SameStatus DEF QueriesInv, Queries!TypeOK, Queries!SingleAgreesWithBatch

LEMMA QueriesInit == Queries!Init => QueriesInv
BY DEF Queries!Init, QueriesInv

LEMMA QueriesKept == QueriesInv /\ KeepQueries => QueriesInv'
BY DEF KeepQueries, QueriesInv

LEMMA QueriesNext == QueriesInv /\ Queries!Next => QueriesInv'
BY DEF QueriesInv, Queries!Next, Queries!AskSingle, Queries!AskBatch

-----------------------------------------------------------------------------
(* The loop of the resolver, and the item that is stored. *)

LEMMA ScanConstants ==
  /\ Null \notin Scan!Lifecycles \union Scan!QueueStatuses \union {"none"}
  /\ Movie # Null
BY ServicesAssumption DEF Scan!ScanAssumption

Said(movie, items) == {Scan!ItemLifecycle(i) : i \in {i \in items : i.movie = movie}}

\* QueueLifecycle is the strongest lifecycle that an item of the movie has.
LEMMA LifecycleIsStrongest ==
  ASSUME NEW movie, NEW items
  PROVE  Scan!QueueLifecycle(movie, items) =
           IF "FAILED" \in Said(movie, items) THEN "FAILED"
           ELSE IF "IMPORT_PENDING" \in Said(movie, items) THEN "IMPORT_PENDING"
           ELSE IF "DOWNLOADING" \in Said(movie, items) THEN "DOWNLOADING"
           ELSE IF "REQUESTED" \in Said(movie, items) THEN "REQUESTED"
           ELSE Null
<1> DEFINE said == Said(movie, items)
           places == {p \in DOMAIN Scan!QueuePrecedence : Scan!QueuePrecedence[p] \in said}
           first == CHOOSE p \in places : \A q \in places : p <= q
<1>1. Scan!QueueLifecycle(movie, items) = IF places = {} THEN Null ELSE Scan!QueuePrecedence[first]
  BY DEF Scan!QueueLifecycle, Said
<1>2. /\ 1 \in places <=> "FAILED" \in said
      /\ 2 \in places <=> "IMPORT_PENDING" \in said
      /\ 3 \in places <=> "DOWNLOADING" \in said
      /\ 4 \in places <=> "REQUESTED" \in said
      /\ \A p \in places : p \in {1, 2, 3, 4}
  <2> HIDE DEF said
  <2> QED
    BY DEF Scan!QueuePrecedence
<1>3. /\ Scan!QueuePrecedence[1] = "FAILED" /\ Scan!QueuePrecedence[2] = "IMPORT_PENDING"
      /\ Scan!QueuePrecedence[3] = "DOWNLOADING" /\ Scan!QueuePrecedence[4] = "REQUESTED"
  BY DEF Scan!QueuePrecedence
<1> HIDE DEF places, said
<1>4. places # {} => first \in places /\ \A q \in places : first <= q
  <2>1. places # {} => \E p \in places : \A q \in places : p <= q
    BY <1>2
  <2> QED
    BY <2>1
<1> HIDE DEF first
<1> QED
  BY <1>1, <1>2, <1>3, <1>4 DEF said

\* While the loop runs its flags are the lifecycles of the items it has read, none
\* of which failed.
Scanning ==
  /\ unread \subseteq snapshot
  /\ flags = Said(Movie, snapshot \ unread) \ {Null}
  /\ "FAILED" \notin flags

ScanInv ==
  /\ returned = "none" => Scanning
  /\ Scan!ScanMatchesResolver

LEMMA ScanInit == Scan!Init => ScanInv
BY DEF Scan!Init, ScanInv, Scanning, Said, Scan!ScanMatchesResolver

LEMMA SaidOfOneMore ==
  ASSUME NEW items, NEW item, item.movie = Movie
  PROVE  Said(Movie, items \union {item}) = Said(Movie, items) \union {Scan!ItemLifecycle(item)}
BY DEF Said

LEMMA ReadItemKeeps ==
  ASSUME ScanInv, Scan!ReadItem
  PROVE  ScanInv'
<1>1. PICK item \in unread : /\ unread' = unread \ {item}
                             /\ Scan!PassOver(item) \/ Scan!ReturnFailed(item) \/ Scan!RaiseFlag(item)
  BY DEF Scan!ReadItem
<1>2. returned = "none" /\ Scanning /\ snapshot' = snapshot
  BY DEF ScanInv, Scan!ReadItem
<1> DEFINE before == snapshot \ unread
<1>3. snapshot \ unread' = before \union {item} /\ item \in snapshot
  BY <1>1, <1>2 DEF Scanning
<1>4. unread' \subseteq snapshot'
  BY <1>1, <1>2 DEF Scanning
<1>5. item.movie # Movie => Said(Movie, before \union {item}) = Said(Movie, before)
  BY DEF Said
<1> HIDE DEF before
<1>6. CASE Scan!PassOver(item)
  <2>1. item.movie = Movie => Scan!ItemLifecycle(item) = Null
    BY <1>6, ScanConstants DEF Scan!PassOver, Scan!ItemLifecycle, Scan!FailedQueueStatuses, Scan!QueueStatuses
  <2>2. Said(Movie, before \union {item}) \ {Null} = Said(Movie, before) \ {Null}
    BY <1>5, <2>1, SaidOfOneMore
  <2> QED
    BY <1>2, <1>3, <1>4, <1>6, <2>2
    DEF ScanInv, Scan!PassOver, Scanning, Scan!ScanMatchesResolver, before
<1>7. CASE Scan!ReturnFailed(item)
  <2>1. Scan!ItemLifecycle(item) = "FAILED" /\ item.movie = Movie /\ returned' = "FAILED"
    BY <1>7 DEF Scan!ReturnFailed, Scan!ItemLifecycle, Scan!FailedQueueStatuses
  <2>2. "FAILED" \in Said(Movie, snapshot)
    BY <1>3, <2>1 DEF Said
  <2>3. Scan!QueueLifecycle(Movie, snapshot) = "FAILED"
    BY <2>2, LifecycleIsStrongest
  <2> QED
    BY <1>2, <2>1, <2>3 DEF ScanInv, Scan!ScanMatchesResolver
<1>8. CASE Scan!RaiseFlag(item)
  <2>1. /\ item.movie = Movie /\ UNCHANGED returned
        /\ flags' = flags \union {Scan!ItemLifecycle(item)}
        /\ Scan!ItemLifecycle(item) \in {"IMPORT_PENDING", "REQUESTED", "DOWNLOADING"}
    BY <1>8 DEF Scan!RaiseFlag, Scan!ItemLifecycle, Scan!FailedQueueStatuses
  <2>2. Null \notin {"IMPORT_PENDING", "REQUESTED", "DOWNLOADING"}
    BY ScanConstants DEF Scan!Lifecycles
  <2>3. flags' = Said(Movie, before \union {item}) \ {Null}
    BY <1>2, <2>1, <2>2, SaidOfOneMore DEF Scanning, before
  <2> QED
    BY <1>2, <1>3, <1>4, <2>1, <2>3 DEF ScanInv, Scanning, Scan!ScanMatchesResolver
<1> QED
  BY <1>1, <1>6, <1>7, <1>8

LEMMA ReturnFlagKeeps ==
  ASSUME ScanInv, Scan!ReturnFlag
  PROVE  ScanInv'
<1>1. flags = Said(Movie, snapshot) \ {Null} /\ "FAILED" \notin flags
  <2>1. Scanning /\ unread = {} /\ snapshot \ {} = snapshot
    BY DEF ScanInv, Scan!ReturnFlag
  <2> QED
    BY <2>1 DEF Scanning
<1>2. \A lifecycle \in Scan!Lifecycles :
        lifecycle \in flags <=> lifecycle \in Said(Movie, snapshot)
  BY <1>1, ScanConstants
<1>3. returned' = Scan!QueueLifecycle(Movie, snapshot)
  BY <1>1, <1>2, LifecycleIsStrongest DEF Scan!ReturnFlag, Scan!Lifecycles
<1>4. returned' # "none" /\ snapshot' = snapshot
  BY ScanConstants DEF Scan!ReturnFlag
<1> QED
  BY <1>3, <1>4 DEF ScanInv, Scan!ScanMatchesResolver

\* A lifecycle as rankQueueItem would number it.
PlaceOf(lifecycle) ==
  CASE lifecycle = "FAILED" -> 0
    [] lifecycle = "IMPORT_PENDING" -> 1
    [] lifecycle = "DOWNLOADING" -> 2
    [] lifecycle = "REQUESTED" -> 3
    [] OTHER -> 4

\* rankQueueItem and the resolver agree on an item, unless one that is neither
\* downloading nor over is in an import state.
LEMMA RankIsPlace ==
  ASSUME NEW item,
         item.state \in Scan!ImportStates =>
           item.status \in Scan!FailedQueueStatuses \union {"completed", "downloading"}
  PROVE  Scan!Rank(item) = PlaceOf(Scan!ItemLifecycle(item))
<1>1. Null \notin {"FAILED", "IMPORT_PENDING", "DOWNLOADING", "REQUESTED"}
  BY ScanConstants DEF Scan!Lifecycles
<1>2. CASE item.status \in Scan!FailedQueueStatuses
  <2>1. Scan!ItemLifecycle(item) = "FAILED" /\ Scan!Rank(item) = 0
    BY <1>2 DEF Scan!ItemLifecycle, Scan!Rank, Scan!FailedQueueStatuses
  <2>2. PlaceOf("FAILED") = 0
    BY DEF PlaceOf
  <2> QED
    BY <2>1, <2>2
<1>3. CASE item.status = "completed"
  BY <1>3 DEF Scan!Rank, PlaceOf, Scan!ItemLifecycle, Scan!FailedQueueStatuses
<1>4. CASE item.status = "downloading" /\ item.state \in Scan!ImportStates
  BY <1>4 DEF Scan!Rank, PlaceOf, Scan!ItemLifecycle, Scan!FailedQueueStatuses
<1>5. CASE item.status = "downloading" /\ item.state \notin Scan!ImportStates
  BY <1>5 DEF Scan!Rank, PlaceOf, Scan!ItemLifecycle, Scan!FailedQueueStatuses
<1>6. CASE item.status = "queued"
  BY <1>6 DEF Scan!Rank, PlaceOf, Scan!ItemLifecycle, Scan!FailedQueueStatuses
<1>7. CASE item.status \notin Scan!FailedQueueStatuses \union {"completed", "downloading", "queued"}
  <2>1. item.state \notin Scan!ImportStates
    BY <1>7
  <2>2. Scan!ItemLifecycle(item) = Null
    BY <1>7 DEF Scan!ItemLifecycle
  <2>3. Scan!Rank(item) = 4
    BY <1>7, <2>1 DEF Scan!Rank
  <2>4. PlaceOf(Null) = 4
    BY <1>1 DEF PlaceOf
  <2> QED
    BY <2>2, <2>3, <2>4
<1> QED
  BY <1>2, <1>3, <1>4, <1>5, <1>6, <1>7

LEMMA ItemLifecycleType ==
  ASSUME NEW item
  PROVE  Scan!ItemLifecycle(item) \in {"FAILED", "IMPORT_PENDING", "DOWNLOADING", "REQUESTED", Null}
BY DEF Scan!ItemLifecycle

\* The item stored stands alone for its own lifecycle.
LEMMA StoredLifecycleOfItem ==
  ASSUME NEW item
  PROVE  Scan!StoredLifecycle(item) = Scan!ItemLifecycle(item)
<1> DEFINE items == Scan!SynthesizedItems(Movie, item.status, item.state)
<1>1. CASE item.status = Null
  <2>1. Said(Movie, items) = {} /\ Scan!ItemLifecycle(item) = Null
    BY <1>1, ScanConstants
    DEF Scan!SynthesizedItems, Said, Scan!ItemLifecycle, Scan!QueueStatuses, Scan!FailedQueueStatuses
  <2> QED
    BY <2>1, LifecycleIsStrongest DEF Scan!StoredLifecycle
<1>2. CASE item.status # Null
  <2> DEFINE stored == [movie |-> Movie, status |-> item.status, state |-> item.state]
  <2>1. items = {stored} /\ stored.movie = Movie
    BY <1>2, ScanConstants DEF Scan!SynthesizedItems
  <2>2. Scan!ItemLifecycle(stored) = Scan!ItemLifecycle(item)
    BY DEF Scan!ItemLifecycle
  <2>3. Said(Movie, items) = {Scan!ItemLifecycle(item)}
    BY <2>1, <2>2 DEF Said
  <2> HIDE DEF items, stored
  <2>4. Scan!QueueLifecycle(Movie, items) = Scan!ItemLifecycle(item)
    BY <2>3, LifecycleIsStrongest, ItemLifecycleType
  <2> QED
    BY <2>4 DEF Scan!StoredLifecycle, items
<1> QED
  BY <1>1, <1>2

LEMMA SelectedResolvesAlike == Scan!HealthyItemResolvesAlike
<1> SUFFICES ASSUME \A i \in Scan!Own(snapshot) :
                      i.state \in Scan!ImportStates =>
                        i.status \in Scan!FailedQueueStatuses \union {"completed", "downloading"},
                    NEW item \in Scan!Selectable(Scan!Own(snapshot))
             PROVE  Scan!StoredLifecycle(item) = Scan!QueueLifecycle(Movie, snapshot)
  BY DEF Scan!HealthyItemResolvesAlike, Scan!StoredItemResolvesAlike
<1>1. item \in Scan!Own(snapshot) /\ \A i \in Scan!Own(snapshot) : Scan!Rank(item) <= Scan!Rank(i)
  BY DEF Scan!Selectable
<1>2. \A i \in Scan!Own(snapshot) : Scan!Rank(i) = PlaceOf(Scan!ItemLifecycle(i))
  BY RankIsPlace
<1>3. Said(Movie, snapshot) = {Scan!ItemLifecycle(i) : i \in Scan!Own(snapshot)}
  BY DEF Said, Scan!Own
<1>4. Scan!ItemLifecycle(item) \in Said(Movie, snapshot)
  BY <1>1, <1>3
<1>5. \A said \in Said(Movie, snapshot) : PlaceOf(Scan!ItemLifecycle(item)) <= PlaceOf(said)
  BY <1>1, <1>2, <1>3
<1>6. Null \notin {"FAILED", "IMPORT_PENDING", "DOWNLOADING", "REQUESTED"}
  BY ScanConstants DEF Scan!Lifecycles
<1>7. Scan!ItemLifecycle(item) = Scan!QueueLifecycle(Movie, snapshot)
  BY <1>4, <1>5, <1>6, LifecycleIsStrongest, ItemLifecycleType DEF PlaceOf
<1> QED
  BY <1>7, StoredLifecycleOfItem

LEMMA ScanKept == ScanInv /\ KeepScan => ScanInv'
BY DEF KeepScan, ScanInv, Scanning, Said, Scan!ScanMatchesResolver

LEMMA ScanNext == ScanInv /\ Scan!Next => ScanInv'
BY ReadItemKeeps, ReturnFlagKeeps DEF Scan!Next

-----------------------------------------------------------------------------
(* The saved connections. *)

LEMMA ConnectionsConstants ==
  /\ NoUrl \notin Urls
  /\ NoType \notin Connections!Types
  /\ Connections!CatalogTypes = {"STASHDB", "FANSDB"}
  /\ Connections!CatalogTypes \subseteq Connections!Types
<1>1. Connections!CatalogTypes = {"STASHDB", "FANSDB"}
  BY DEF Connections!CatalogTypes, Connections!CATALOG_PROVIDER_KEYS, Connections!ToSet
<1> QED
  BY <1>1, ServicesAssumption DEF Connections!IntegrationsAssumption, Connections!Types

ClientType ==
  [op : {"none", "save", "test", "reset", "reset all", "lookup", "probe"},
   pc : {"idle", "check", "write", "upsert", "clear", "read", "asked", "persist", "recover",
         "found"},
   type : Connections!Types \cup {NoType}, given : Urls \cup {NoUrl},
   existing : Connections!RowType, ok : BOOLEAN, locked : SUBSET Connections!CatalogTypes]

\* The connection that a client would save or test.
Target(k) == IF k.given # NoUrl THEN k.given ELSE k.existing.url

\* A client that remembers a connection as configured or tested, or that uses one,
\* remembers one that has answered a test.
Trusts(k, told) ==
  /\ k \in ClientType
  /\ k.op \in {"save", "test", "lookup", "probe"} => k.type \in Connections!Types
  /\ k.op = "save" /\ k.existing.status = "CONFIGURED" => <<k.type, k.existing.url>> \in told
  /\ k.op = "test" /\ k.pc \in {"read", "asked"} => ~k.ok
  /\ k.pc = "asked" => k.op = "test" /\ Target(k) # NoUrl
  /\ k.op = "test" /\ k.ok => <<k.type, Target(k)>> \in told
  /\ k.pc = "found" => <<k.type, k.existing.url>> \in told

ClientsTrust ==
  /\ clients \in [Clients -> ClientType]
  /\ \A c \in Clients : Trusts(clients[c], tested)

\* An absent row has no address; unless one was missed, one of the two has none.
RowsTested ==
  /\ rows \in [Connections!Types -> Connections!RowType]
  /\ present \subseteq Connections!Types
  /\ \A t \in Connections!Types \ present : rows[t] = Connections!ResetRow
  /\ missed \in BOOLEAN
  /\ missed \/ rows["STASHDB"].url = NoUrl \/ rows["FANSDB"].url = NoUrl
  /\ \A t \in Connections!Types :
       rows[t].status = "CONFIGURED" => <<t, rows[t].url>> \in tested

ConnectionsInv ==
  /\ RowsTested
  /\ ClientsTrust
  /\ health \in [Connections!Types -> Urls \cup {NoUrl}]
  /\ tested \subseteq Connections!Types \X Urls

LEMMA ConnectionsImplies ==
  ConnectionsInv => /\ Connections!TypeOK
                    /\ Connections!OneProviderUnlessMissed
                    /\ Connections!ConfiguredWasTested
<1> SUFFICES ASSUME ConnectionsInv
             PROVE  /\ Connections!TypeOK
                    /\ Connections!OneProviderUnlessMissed
                    /\ Connections!ConfiguredWasTested
  OBVIOUS
<1>1. Connections!TypeOK
  BY DEF ConnectionsInv, RowsTested, ClientsTrust, ClientType, Connections!TypeOK
<1>2. Connections!OneProviderUnlessMissed
  <2> SUFFICES ASSUME ~missed PROVE Connections!OneCatalogProvider
    BY DEF Connections!OneProviderUnlessMissed
  <2> DEFINE S == {t \in Connections!CatalogTypes : rows[t].url # NoUrl}
  <2>1. S = {} \/ S = {"STASHDB"} \/ S = {"FANSDB"}
    BY ConnectionsConstants DEF ConnectionsInv, RowsTested
  <2>2. Cardinality(S) \in {0, 1}
    BY <2>1, FS_EmptySet, FS_Singleton
  <2>3. Connections!Cardinality(S) = Cardinality(S)
    BY DEF Connections!Cardinality, Cardinality
  <2> HIDE DEF S
  <2>4. Connections!Cardinality(S) <= 1
    BY <2>2, <2>3
  <2> QED
    BY <2>4 DEF S, Connections!OneCatalogProvider
<1>3. Connections!ConfiguredWasTested
  BY DEF ConnectionsInv, RowsTested, ClientsTrust, Trusts, Connections!ConfiguredWasTested
<1> QED
  BY <1>1, <1>2, <1>3

\* instanceCatalogProviderTypeFromIntegrations answers a catalog provider or none.
LEMMA InstanceTypeOK ==
  ASSUME NEW ready
  PROVE  Connections!InstanceType(ready) \in Connections!Types \cup {NoType}
<1>1. ASSUME NEW types \in SUBSET Connections!CatalogTypes, types # {}
      PROVE  Connections!First(types) \in Connections!CatalogTypes
  <2> DEFINE N == {n \in DOMAIN Connections!CATALOG_PROVIDER_KEYS :
                     Connections!CATALOG_PROVIDER_KEYS[n] \in types}
  <2>1. (1 \in N \/ 2 \in N) /\ \A n \in N : n = 1 \/ n = 2
    <3>1. "STASHDB" \in types \/ "FANSDB" \in types
      BY <1>1, ConnectionsConstants
    <3> QED
      BY <3>1 DEF Connections!CATALOG_PROVIDER_KEYS
  <2>2. Connections!Min(N) \in N
    <3> HIDE DEF N
    <3>1. CASE 1 \in N
      BY <2>1, <3>1 DEF Connections!Min
    <3>2. CASE 1 \notin N
      BY <2>1, <3>2 DEF Connections!Min
    <3> QED
      BY <3>1, <3>2
  <2>3. Connections!First(types) = Connections!CATALOG_PROVIDER_KEYS[Connections!Min(N)]
    BY DEF Connections!First
  <2>4. \A n \in N : Connections!CATALOG_PROVIDER_KEYS[n] \in types
    OBVIOUS
  <2> HIDE DEF N
  <2> QED
    BY <2>2, <2>3, <2>4
<1>2. ASSUME NEW candidates \in SUBSET Connections!CatalogTypes
      PROVE  Connections!Pick(candidates, ready) \in Connections!CatalogTypes \cup {NoType}
  <2>1. CASE candidates = {}
    BY <2>1 DEF Connections!Pick
  <2>2. CASE candidates # {} /\ Connections!Cardinality(candidates \cap ready) = 1
    <3>1. Cardinality(candidates \cap ready) = 1
      BY <2>2 DEF Connections!Cardinality, Cardinality
    <3>2. candidates \cap ready # {}
      BY <3>1, FS_EmptySet
    <3>3. (CHOOSE t \in candidates \cap ready : TRUE) \in candidates
      BY <3>2
    <3> QED
      BY <2>2, <3>3 DEF Connections!Pick
  <2>3. CASE candidates # {} /\ Connections!Cardinality(candidates \cap ready) # 1
    BY <1>1, <2>3 DEF Connections!Pick
  <2> QED
    BY <2>1, <2>2, <2>3
<1> QED
  BY <1>2, ConnectionsConstants DEF Connections!InstanceType

LEMMA ConnectionsInit == Connections!Init => ConnectionsInv
<1> SUFFICES ASSUME Connections!Init PROVE ConnectionsInv
  OBVIOUS
<1> USE ConnectionsConstants DEF Connections!Init
<1>1. Connections!ResetRow \in Connections!RowType
  BY DEF Connections!ResetRow, Connections!RowType, Connections!Statuses
<1>2. Trusts(Connections!Idle, {})
  BY <1>1 DEF Trusts, ClientType, Connections!Idle
<1>3. RowsTested
  BY <1>1 DEF RowsTested, Connections!ResetRow
<1>4. ClientsTrust
  BY <1>2 DEF ClientsTrust, Trusts
<1> QED
  BY <1>3, <1>4 DEF ConnectionsInv

LEMMA ConnectionsKept == ConnectionsInv /\ KeepConnections => ConnectionsInv'
BY DEF KeepConnections, ConnectionsInv, RowsTested, ClientsTrust, Trusts

\* A step of one client keeps what the others trust.
LEMMA ClientMoves ==
  ASSUME ConnectionsInv, NEW c \in Clients, NEW k,
         clients' = [clients EXCEPT ![c] = k],
         Trusts(k, tested'), tested \subseteq tested'
  PROVE  ClientsTrust'
<1>1. clients' \in [Clients -> ClientType]
  BY DEF ConnectionsInv, ClientsTrust, Trusts
<1>2. ASSUME NEW d \in Clients PROVE Trusts(clients'[d], tested')
  <2>1. CASE d = c
    BY <2>1 DEF ConnectionsInv, ClientsTrust
  <2>2. CASE d # c
    <3>1. clients'[d] = clients[d]
      BY <2>2 DEF ConnectionsInv, ClientsTrust
    <3> QED
      BY <3>1 DEF ConnectionsInv, ClientsTrust, Trusts
  <2> QED
    BY <2>1, <2>2
<1> QED
  BY <1>1, <1>2 DEF ClientsTrust, ClientType

LEMMA IdleTrusts == \A told : Trusts(Connections!Idle, told)
<1>1. Connections!ResetRow \in Connections!RowType
  BY ConnectionsConstants DEF Connections!ResetRow, Connections!RowType, Connections!Statuses
<1> QED
  BY <1>1, ConnectionsConstants DEF Trusts, ClientType, Connections!Idle

\* A client that has only gone on, and may hold other rows now, trusts what it trusted.
LEMMA GoneOn ==
  ASSUME NEW told, NEW k, Trusts(k, told),
         NEW pc \in {"check", "write", "upsert", "clear", "read", "persist", "recover"},
         pc = "read" => k.op = "lookup",
         NEW locked \in SUBSET Connections!CatalogTypes
  PROVE  /\ Trusts([k EXCEPT !.pc = pc], told)
         /\ Trusts([k EXCEPT !.pc = pc, !.locked = locked], told)
<1>1. ASSUME NEW new \in ClientType,
             new.op = k.op, new.pc = pc, new.type = k.type, new.given = k.given,
             new.existing = k.existing, new.ok = k.ok
      PROVE  Trusts(new, told)
  BY <1>1 DEF Trusts, Target
<1>2. Trusts([k EXCEPT !.pc = pc], told)
  <2> DEFINE new == [k EXCEPT !.pc = pc]
  <2>1. /\ new \in ClientType
        /\ new.op = k.op /\ new.pc = pc /\ new.type = k.type /\ new.given = k.given
        /\ new.existing = k.existing /\ new.ok = k.ok
    BY DEF Trusts, ClientType
  <2> HIDE DEF new
  <2>2. Trusts(new, told)
    BY <1>1, <2>1
  <2> QED
    BY <2>2 DEF new
<1>3. Trusts([k EXCEPT !.pc = pc, !.locked = locked], told)
  <2> DEFINE new == [k EXCEPT !.pc = pc, !.locked = locked]
  <2>1. /\ new \in ClientType
        /\ new.op = k.op /\ new.pc = pc /\ new.type = k.type /\ new.given = k.given
        /\ new.existing = k.existing /\ new.ok = k.ok
    BY DEF Trusts, ClientType
  <2> HIDE DEF new
  <2>2. Trusts(new, told)
    BY <1>1, <2>1
  <2> QED
    BY <2>2 DEF new
<1> QED
  BY <1>2, <1>3

\* A row put with an address replaces the other, which is held or absent, or it is missed.
LEMMA PutOK ==
  ASSUME ConnectionsInv, NEW c \in Clients, NEW t \in Connections!Types,
         t = clients[c].type, NEW row \in Connections!RowType,
         row.status = "CONFIGURED" => <<t, row.url>> \in tested,
         Connections!Put(c, row), UNCHANGED tested
  PROVE  RowsTested'
<1> USE ConnectionsConstants
<1> DEFINE locked == clients[c].locked
<1>0. RowsTested /\ locked \subseteq Connections!CatalogTypes
  BY DEF ConnectionsInv, ClientsTrust, ClientType
<1>1. Connections!ResetRow \in Connections!RowType /\ Connections!ResetRow.url = NoUrl
      /\ Connections!ResetRow.status # "CONFIGURED"
  BY DEF Connections!ResetRow, Connections!RowType, Connections!Statuses
<1>2. /\ rows' = [x \in Connections!Types |->
                   IF x = t THEN row ELSE IF x \in locked THEN Connections!ResetRow ELSE rows[x]]
      /\ present' = present \cup {t}
      /\ missed' = IF t \in Connections!CatalogTypes /\ row.url # NoUrl
                   THEN ~(((Connections!CatalogTypes \ {t}) \cap present) \subseteq locked)
                   ELSE missed
  BY DEF Connections!Put, Connections!Replaces, Connections!OtherTypes
<1> HIDE DEF locked
<1>3. rows' \in [Connections!Types -> Connections!RowType]
  BY <1>0, <1>1, <1>2 DEF RowsTested
<1>4. \A x \in Connections!Types :
        rows'[x] = IF x = t THEN row ELSE IF x \in locked THEN Connections!ResetRow ELSE rows[x]
  BY <1>2
<1>5. /\ present' \subseteq Connections!Types
      /\ \A x \in Connections!Types \ present' : rows'[x] = Connections!ResetRow
      /\ missed' \in BOOLEAN
  BY <1>0, <1>2, <1>4 DEF RowsTested
<1>6. missed' \/ rows'["STASHDB"].url = NoUrl \/ rows'["FANSDB"].url = NoUrl
  <2>1. CASE t \notin {"STASHDB", "FANSDB"}
    BY <1>0, <1>1, <1>2, <1>4, <2>1 DEF RowsTested
  <2>2. CASE t \in {"STASHDB", "FANSDB"} /\ row.url = NoUrl
    BY <1>4, <2>2
  <2>3. CASE t \in {"STASHDB", "FANSDB"} /\ row.url # NoUrl
    <3> SUFFICES ASSUME ~missed', NEW x \in {"STASHDB", "FANSDB"} \ {t}
                 PROVE  rows'[x].url = NoUrl
      BY <2>3
    <3>1. x \in present => x \in locked
      BY <1>2, <2>3
    <3>2. x \notin present => rows[x] = Connections!ResetRow
      BY <1>0 DEF RowsTested
    <3> QED
      BY <1>1, <1>4, <3>1, <3>2
  <2> QED
    BY <2>1, <2>2, <2>3
<1>7. \A x \in Connections!Types : rows'[x].status = "CONFIGURED" => <<x, rows'[x].url>> \in tested'
  BY <1>0, <1>1, <1>4 DEF RowsTested
<1> QED
  BY <1>3, <1>5, <1>6, <1>7 DEF RowsTested

\* What keeps the rows, the health and the history while a client moves.
LEMMA OnlyClientMoves ==
  ASSUME ConnectionsInv, NEW c \in Clients, NEW k, Trusts(k, tested),
         clients' = [clients EXCEPT ![c] = k],
         UNCHANGED <<rows, present, tested, missed>>,
         health' \in [Connections!Types -> Urls \cup {NoUrl}]
  PROVE  ConnectionsInv'
<1>1. ClientsTrust'
  BY ClientMoves
<1> QED
  BY <1>1 DEF ConnectionsInv, RowsTested

\* upsert.
LEMMA SaveOK ==
  ASSUME ConnectionsInv, NEW c \in Clients,
         \/ \E t \in Connections!Types, u \in Urls \cup {NoUrl} : Connections!StartSave(c, t, u)
         \/ Connections!CheckSave(c)
         \/ Connections!ResetOthers(c)
         \/ Connections!WriteSaved(c)
  PROVE  ConnectionsInv'
<1> USE ConnectionsConstants
<1> DEFINE k == clients[c]
<1>0. Trusts(k, tested) /\ Trusts(Connections!Idle, tested)
      /\ health \in [Connections!Types -> Urls \cup {NoUrl}]
  BY IdleTrusts DEF ConnectionsInv, ClientsTrust
<1>1. ASSUME NEW t \in Connections!Types, NEW u \in Urls \cup {NoUrl}, Connections!StartSave(c, t, u)
      PROVE  ConnectionsInv'
  <2> DEFINE pc == IF t \in Connections!CatalogTypes THEN "check" ELSE "write"
             row == rows[t]
             new == [Connections!Idle EXCEPT !.op = "save", !.pc = pc, !.type = t, !.given = u,
                                             !.existing = row]
  <2>1. row \in Connections!RowType /\ (row.status = "CONFIGURED" => <<t, row.url>> \in tested)
        /\ pc \in {"check", "write"}
    BY DEF ConnectionsInv, RowsTested
  <2>2. clients' = [clients EXCEPT ![c] = new] /\ UNCHANGED <<rows, present, health, tested, missed>>
    BY <1>1 DEF Connections!StartSave
  <2> HIDE DEF pc, row
  <2>3. Trusts(new, tested)
    BY <2>1 DEF Trusts, ClientType, Connections!Idle
  <2> HIDE DEF new
  <2> QED
    BY <1>0, <2>2, <2>3, OnlyClientMoves
<1>2. CASE Connections!CheckSave(c)
  <2>1. \/ clients' = [clients EXCEPT ![c] = Connections!Idle]
        \/ clients' = [clients EXCEPT ![c] = [k EXCEPT !.pc = "write"]]
    BY <1>2 DEF Connections!CheckSave, Connections!Answered, Connections!Goto
  <2>2. UNCHANGED <<rows, present, health, tested, missed>>
    BY <1>2 DEF Connections!CheckSave
  <2>3. Trusts([k EXCEPT !.pc = "write"], tested)
    BY <1>0, GoneOn
  <2> QED
    BY <1>0, <2>1, <2>2, <2>3, OnlyClientMoves
<1>4. CASE Connections!ResetOthers(c)
  <2> DEFINE held == IF k.type \in Connections!CatalogTypes /\ Connections!Merged(c) # NoUrl
                     THEN Connections!OtherTypes(k.type) \cap present ELSE {}
             new == [k EXCEPT !.pc = "upsert", !.locked = held]
  <2>1. held \in SUBSET Connections!CatalogTypes
    BY DEF Connections!OtherTypes
  <2>2. clients' = [clients EXCEPT ![c] = new] /\ UNCHANGED <<rows, present, health, tested, missed>>
    BY <1>4 DEF Connections!ResetOthers
  <2> HIDE DEF held
  <2>3. Trusts(new, tested)
    BY <1>0, <2>1, GoneOn
  <2> HIDE DEF new
  <2> QED
    BY <1>0, <2>2, <2>3, OnlyClientMoves
<1>3. CASE Connections!WriteSaved(c)
  <2> DEFINE row == [url |-> Connections!Merged(c), status |-> Connections!SavedStatus(c),
                     selected |-> rows[k.type].selected
                       \/ (k.type \in Connections!CatalogTypes /\ Connections!Merged(c) # NoUrl)]
  <2>1. k.op = "save" /\ k.type \in Connections!Types /\ k \in ClientType
    BY <1>0, <1>3 DEF Connections!WriteSaved, Connections!At, Trusts
  <2>2. row \in Connections!RowType
    <3>1. row.url \in Urls \cup {NoUrl}
      BY <2>1 DEF ClientType, Connections!RowType, Connections!Merged
    <3>2. row.status \in Connections!Statuses
      BY <2>1 DEF ClientType, Connections!RowType, Connections!Statuses, Connections!SavedStatus
    <3>3. row.selected \in BOOLEAN
      BY <2>1 DEF ConnectionsInv, RowsTested, Connections!RowType
    <3> QED
      BY <3>1, <3>2, <3>3 DEF Connections!RowType
  <2>3. row.status = "CONFIGURED" => <<k.type, row.url>> \in tested
    BY <1>0, <2>1 DEF Trusts, Connections!SavedStatus, Connections!Changed
  <2>4. Connections!Put(c, row) /\ UNCHANGED <<health, tested>>
    BY <1>3 DEF Connections!WriteSaved
  <2>5. RowsTested'
    <3> HIDE DEF row
    <3> QED
      BY <2>1, <2>2, <2>3, <2>4, PutOK
  <2>6. \/ clients' = [clients EXCEPT ![c] = Connections!Idle]
        \/ clients' = [clients EXCEPT ![c] = [k EXCEPT !.pc = "clear", !.locked = {}]]
    BY <1>3 DEF Connections!WriteSaved, Connections!Answered, Connections!Committed
  <2>7. Trusts([k EXCEPT !.pc = "clear", !.locked = {}], tested)
    BY <1>0, GoneOn
  <2>8. ClientsTrust'
    BY <1>0, <2>4, <2>6, <2>7, ClientMoves
  <2> QED
    BY <2>4, <2>5, <2>8 DEF ConnectionsInv
<1> QED
  BY <1>1, <1>2, <1>3, <1>4

\* testIntegration.
LEMMA TestOK ==
  ASSUME ConnectionsInv, NEW c \in Clients,
         \/ \E t \in Connections!Types, u \in Urls \cup {NoUrl} : Connections!StartTest(c, t, u)
         \/ Connections!ReadTested(c)
         \/ \E ok \in BOOLEAN : Connections!ProviderAnswers(c, ok)
         \/ Connections!PersistTested(c)
  PROVE  ConnectionsInv'
<1> USE ConnectionsConstants
<1> DEFINE k == clients[c]
<1>0. Trusts(k, tested) /\ Trusts(Connections!Idle, tested)
      /\ health \in [Connections!Types -> Urls \cup {NoUrl}]
  BY IdleTrusts DEF ConnectionsInv, ClientsTrust
<1>1. ASSUME NEW t \in Connections!Types, NEW u \in Urls \cup {NoUrl}, Connections!StartTest(c, t, u)
      PROVE  ConnectionsInv'
  <2> DEFINE new == [Connections!Idle EXCEPT !.op = "test", !.pc = "read", !.type = t, !.given = u]
  <2>1. Connections!ResetRow \in Connections!RowType
    BY DEF Connections!ResetRow, Connections!RowType, Connections!Statuses
  <2>2. Trusts(new, tested)
    BY <2>1 DEF Trusts, ClientType, Connections!Idle
  <2>3. clients' = [clients EXCEPT ![c] = new] /\ UNCHANGED <<rows, present, health, tested, missed>>
    BY <1>1 DEF Connections!StartTest
  <2> HIDE DEF new
  <2> QED
    BY <1>0, <2>2, <2>3, OnlyClientMoves
<1>2. CASE Connections!ReadTested(c)
  <2> DEFINE existing == rows[k.type]
             pc == IF k.given = NoUrl /\ existing.url = NoUrl THEN "persist" ELSE "asked"
             new == [k EXCEPT !.existing = existing, !.pc = pc]
  <2>1. k.op = "test" /\ k.pc = "read" /\ k.type \in Connections!Types /\ ~k.ok
    BY <1>0, <1>2 DEF Connections!ReadTested, Connections!At, Trusts
  <2>2. existing \in Connections!RowType
    BY <2>1 DEF ConnectionsInv, RowsTested
  <2>3. /\ new \in ClientType
        /\ new.op = k.op /\ new.pc = pc /\ new.type = k.type /\ new.given = k.given
        /\ new.existing = existing /\ new.ok = k.ok
    <3> HIDE DEF existing, k
    <3> QED
      BY <1>0, <2>2 DEF Trusts, ClientType
  <2>4. clients' = [clients EXCEPT ![c] = new] /\ UNCHANGED <<rows, present, health, tested, missed>>
    BY <1>2 DEF Connections!ReadTested
  <2>5. Trusts(new, tested)
    <3>1. pc \in {"persist", "asked"} /\ (pc = "asked" => k.given # NoUrl \/ existing.url # NoUrl)
      OBVIOUS
    <3> HIDE DEF new, pc, existing
    <3> QED
      BY <2>1, <2>3, <3>1 DEF Trusts, Target
  <2> HIDE DEF new
  <2> QED
    BY <1>0, <2>4, <2>5, OnlyClientMoves
<1>3. ASSUME NEW ok \in BOOLEAN, Connections!ProviderAnswers(c, ok) PROVE ConnectionsInv'
  <2> DEFINE new == [k EXCEPT !.pc = "persist", !.ok = ok]
  <2>1. k.op = "test" /\ k.pc = "asked" /\ k.type \in Connections!Types
        /\ Target(k) # NoUrl /\ Target(k) \in Urls
    BY <1>0, <1>3
    DEF Connections!ProviderAnswers, Connections!At, Trusts, Target, ClientType, Connections!RowType
  <2>2. /\ new \in ClientType
        /\ new.op = k.op /\ new.pc = "persist" /\ new.type = k.type /\ new.given = k.given
        /\ new.existing = k.existing /\ new.ok = ok
    BY <1>0 DEF Trusts, ClientType
  <2>3. clients' = [clients EXCEPT ![c] = new] /\ UNCHANGED <<rows, present, health, missed>>
    BY <1>3 DEF Connections!ProviderAnswers
  <2>4. tested' = IF ok THEN tested \cup {<<k.type, Target(k)>>} ELSE tested
    BY <1>3 DEF Connections!ProviderAnswers, Connections!Merged, Target
  <2>5. tested \subseteq tested' /\ tested' \subseteq Connections!Types \X Urls
    BY <2>1, <2>4 DEF ConnectionsInv
  <2>6. Trusts(new, tested')
    <3> HIDE DEF new
    <3> QED
      BY <2>1, <2>2, <2>4 DEF Trusts, Target
  <2>7. ClientsTrust'
    <3> HIDE DEF new
    <3> QED
      BY <2>3, <2>5, <2>6, ClientMoves
  <2>8. RowsTested'
    BY <2>3, <2>5 DEF ConnectionsInv, RowsTested
  <2> QED
    BY <1>0, <2>3, <2>5, <2>7, <2>8 DEF ConnectionsInv
<1>4. CASE Connections!PersistTested(c)
  <2> DEFINE row == [url |-> Connections!Merged(c), status |-> IF k.ok THEN "CONFIGURED" ELSE "ERROR",
                     selected |-> k.type \in Connections!CatalogTypes]
  <2>1. k.op = "test" /\ k.type \in Connections!Types /\ k \in ClientType
    BY <1>0, <1>4 DEF Connections!PersistTested, Connections!At, Trusts
  <2>2. row \in Connections!RowType
    <3>1. row.url \in Urls \cup {NoUrl}
      BY <2>1 DEF ClientType, Connections!RowType, Connections!Merged
    <3> QED
      BY <3>1 DEF Connections!RowType, Connections!Statuses
  <2>3. row.status = "CONFIGURED" => <<k.type, row.url>> \in tested
    BY <1>0, <2>1 DEF Trusts, Target, Connections!Merged
  <2>4. Connections!Put(c, row) /\ UNCHANGED <<health, tested>>
    BY <1>4 DEF Connections!PersistTested
  <2>5. RowsTested'
    <3> HIDE DEF row
    <3> QED
      BY <2>1, <2>2, <2>3, <2>4, PutOK
  <2>6. \/ clients' = [clients EXCEPT ![c] = Connections!Idle]
        \/ clients' = [clients EXCEPT ![c] = [k EXCEPT !.pc = "clear", !.locked = {}]]
        \/ clients' = [clients EXCEPT ![c] = [k EXCEPT !.pc = "recover", !.locked = {}]]
    BY <1>4 DEF Connections!PersistTested, Connections!Answered, Connections!Committed
  <2>7. /\ Trusts([k EXCEPT !.pc = "clear", !.locked = {}], tested)
        /\ Trusts([k EXCEPT !.pc = "recover", !.locked = {}], tested)
    BY <1>0, GoneOn
  <2>8. ClientsTrust'
    BY <1>0, <2>4, <2>6, <2>7, ClientMoves
  <2> QED
    BY <2>4, <2>5, <2>8 DEF ConnectionsInv
<1> QED
  BY <1>1, <1>2, <1>3, <1>4

\* Resetting rows leaves nothing configured that was not tested.
LEMMA ResetOK ==
  ASSUME ConnectionsInv, NEW c \in Clients,
         \/ \E t \in Connections!Types : Connections!ResetIntegration(c, t)
         \/ Connections!ResetAll(c)
  PROVE  ConnectionsInv'
<1> USE ConnectionsConstants
<1>1. Connections!ResetRow \in Connections!RowType /\ Connections!ResetRow.url = NoUrl
      /\ Connections!ResetRow.status # "CONFIGURED"
  BY DEF Connections!ResetRow, Connections!RowType, Connections!Statuses
<1>2. ASSUME NEW R \in SUBSET Connections!Types, Connections!Reset(c, R), UNCHANGED tested
      PROVE  RowsTested'
  <2>1. \A x \in Connections!Types :
          rows'[x] = IF x \in R THEN Connections!ResetRow ELSE rows[x]
    BY <1>2 DEF Connections!Reset
  <2>2. missed' = (missed /\ ~({"STASHDB", "FANSDB"} \subseteq R))
    BY <1>2 DEF Connections!Reset
  <2>3. missed' \/ rows'["STASHDB"].url = NoUrl \/ rows'["FANSDB"].url = NoUrl
    <3>1. CASE {"STASHDB", "FANSDB"} \subseteq R
      BY <1>1, <2>1, <3>1
    <3>2. CASE ~({"STASHDB", "FANSDB"} \subseteq R)
      BY <1>1, <2>1, <2>2, <3>2 DEF ConnectionsInv, RowsTested
    <3> QED
      BY <3>1, <3>2
  <2>4. rows' \in [Connections!Types -> Connections!RowType] /\ missed' \in BOOLEAN
        /\ present' \subseteq Connections!Types
    BY <1>1, <1>2, <2>2 DEF Connections!Reset, ConnectionsInv, RowsTested
  <2>5. \A x \in Connections!Types \ present' : rows'[x] = Connections!ResetRow
    BY <1>2, <2>1 DEF Connections!Reset, ConnectionsInv, RowsTested
  <2>6. \A x \in Connections!Types :
          rows'[x].status = "CONFIGURED" => <<x, rows'[x].url>> \in tested'
    BY <1>1, <1>2, <2>1 DEF ConnectionsInv, RowsTested
  <2> QED
    BY <2>3, <2>4, <2>5, <2>6 DEF RowsTested
<1>3. ASSUME NEW t \in Connections!Types, Connections!ResetIntegration(c, t) PROVE ConnectionsInv'
  <2> DEFINE R == IF t \in Connections!CatalogTypes THEN Connections!CatalogTypes ELSE {t}
             new == [Connections!Idle EXCEPT !.op = "reset", !.pc = "clear", !.type = t]
  <2>1. /\ Connections!Reset(c, R) /\ UNCHANGED <<health, tested>>
        /\ clients' = [clients EXCEPT ![c] = new]
    BY <1>3 DEF Connections!ResetIntegration
  <2>2. RowsTested'
    <3>1. R \in SUBSET Connections!Types
      OBVIOUS
    <3> HIDE DEF R
    <3> QED
      BY <1>2, <2>1, <3>1
  <2>3. Trusts(new, tested)
    BY <1>1 DEF Trusts, ClientType, Connections!Idle
  <2> HIDE DEF new
  <2>4. ClientsTrust'
    BY <2>1, <2>3, ClientMoves
  <2> QED
    BY <2>1, <2>2, <2>4 DEF ConnectionsInv
<1>4. CASE Connections!ResetAll(c)
  <2> DEFINE new == [Connections!Idle EXCEPT !.op = "reset all", !.pc = "clear"]
  <2>1. /\ Connections!Reset(c, Connections!Types) /\ UNCHANGED <<health, tested>>
        /\ clients' = [clients EXCEPT ![c] = new]
    BY <1>4 DEF Connections!ResetAll
  <2>2. RowsTested'
    BY <1>2, <2>1
  <2>3. Trusts(new, tested)
    BY <1>1 DEF Trusts, ClientType, Connections!Idle
  <2> HIDE DEF new
  <2>4. ClientsTrust'
    BY <2>1, <2>3, ClientMoves
  <2> QED
    BY <2>1, <2>2, <2>4 DEF ConnectionsInv
<1> QED
  BY <1>3, <1>4

\* The end of a save, of a reset and of a test.
LEMMA EndingOK ==
  ASSUME ConnectionsInv, NEW c \in Clients,
         \/ Connections!ClearHealth(c) \/ Connections!Recover(c)
         \/ Connections!RecoveryFails(c) \/ Connections!RequestFails(c)
  PROVE  ConnectionsInv'
<1> USE ConnectionsConstants
<1> DEFINE k == clients[c]
<1>0. Trusts(k, tested) /\ Trusts(Connections!Idle, tested)
      /\ health \in [Connections!Types -> Urls \cup {NoUrl}]
  BY IdleTrusts DEF ConnectionsInv, ClientsTrust
<1>1. CASE Connections!ClearHealth(c)
  BY <1>0, <1>1, OnlyClientMoves DEF Connections!ClearHealth, Connections!Answered
<1>2. CASE Connections!Recover(c)
  <2>1. Connections!Merged(c) \in Urls \cup {NoUrl}
    BY <1>0 DEF Trusts, ClientType, Connections!RowType, Connections!Merged
  <2> QED
    BY <1>0, <1>2, <2>1, OnlyClientMoves DEF Connections!Recover, Connections!Answered
<1>3. CASE Connections!RecoveryFails(c)
  <2> DEFINE new == [k EXCEPT !.pc = "persist", !.ok = FALSE, !.locked = {}]
  <2>1. /\ new \in ClientType
        /\ new.op = k.op /\ new.pc = "persist" /\ new.type = k.type /\ new.given = k.given
        /\ new.existing = k.existing /\ new.ok = FALSE
    BY <1>0 DEF Trusts, ClientType
  <2>2. clients' = [clients EXCEPT ![c] = new] /\ UNCHANGED <<rows, present, health, tested, missed>>
    BY <1>3 DEF Connections!RecoveryFails
  <2> HIDE DEF new
  <2>3. Trusts(new, tested)
    BY <1>0, <2>1 DEF Trusts
  <2> QED
    BY <1>0, <2>2, <2>3, OnlyClientMoves
<1>4. CASE Connections!RequestFails(c)
  BY <1>0, <1>4, OnlyClientMoves DEF Connections!RequestFails, Connections!Answered
<1> QED
  BY <1>1, <1>2, <1>3, <1>4

\* A connection is used only as it was read from a row that is configured.
LEMMA UseOK ==
  ASSUME ConnectionsInv, NEW c \in Clients,
         \/ Connections!ChooseProvider(c) \/ Connections!CheckProvider(c)
         \/ Connections!ReadProvider(c) \/ Connections!UseConnection(c)
         \/ \E t \in Connections!Types : Connections!StartProbe(c, t)
  PROVE  ConnectionsInv'
<1> USE ConnectionsConstants
<1> DEFINE k == clients[c]
<1>0. Trusts(k, tested) /\ Trusts(Connections!Idle, tested)
      /\ health \in [Connections!Types -> Urls \cup {NoUrl}]
  BY IdleTrusts DEF ConnectionsInv, ClientsTrust
<1>r. Connections!ResetRow \in Connections!RowType
  BY DEF Connections!ResetRow, Connections!RowType, Connections!Statuses
<1>1. CASE Connections!ChooseProvider(c)
  <2> DEFINE t == Connections!InstanceType({})
             new == [Connections!Idle EXCEPT !.op = "lookup", !.pc = "check", !.type = t]
  <2>1. t \in Connections!Types
    BY <1>1, InstanceTypeOK DEF Connections!ChooseProvider
  <2>2. clients' = [clients EXCEPT ![c] = new] /\ UNCHANGED <<rows, present, health, tested, missed>>
    BY <1>1 DEF Connections!ChooseProvider
  <2> HIDE DEF t
  <2>3. Trusts(new, tested)
    BY <1>r, <2>1 DEF Trusts, ClientType, Connections!Idle
  <2> HIDE DEF new
  <2> QED
    BY <1>0, <2>2, <2>3, OnlyClientMoves
<1>2. CASE Connections!CheckProvider(c)
  <2>1. \/ clients' = [clients EXCEPT ![c] = Connections!Idle]
        \/ clients' = [clients EXCEPT ![c] = [k EXCEPT !.pc = "read"]]
    BY <1>2 DEF Connections!CheckProvider, Connections!Answered, Connections!Goto
  <2>2. UNCHANGED <<rows, present, health, tested, missed>> /\ k.op = "lookup"
    BY <1>2 DEF Connections!CheckProvider, Connections!At
  <2>3. Trusts([k EXCEPT !.pc = "read"], tested)
    BY <1>0, <2>2, GoneOn
  <2> QED
    BY <1>0, <2>1, <2>2, <2>3, OnlyClientMoves
<1>3. CASE Connections!ReadProvider(c)
  <2> DEFINE row == rows[k.type]
             new == [k EXCEPT !.existing = row, !.pc = "found"]
  <2>1. k.op = "lookup" /\ k.type \in Connections!Types /\ UNCHANGED <<rows, present, health, tested, missed>>
    BY <1>0, <1>3 DEF Connections!ReadProvider, Connections!At, Trusts
  <2>2. CASE ~Connections!Ready(row)
    BY <1>0, <1>3, <2>1, <2>2, OnlyClientMoves DEF Connections!ReadProvider, Connections!Answered
  <2>3. CASE Connections!Ready(row)
    <3>1. row \in Connections!RowType /\ <<k.type, row.url>> \in tested
      BY <2>1, <2>3 DEF ConnectionsInv, RowsTested, Connections!Ready
    <3>2. clients' = [clients EXCEPT ![c] = new]
      BY <1>3, <2>3 DEF Connections!ReadProvider
    <3>3. /\ new \in ClientType
          /\ new.op = k.op /\ new.pc = "found" /\ new.type = k.type /\ new.existing = row
      <4> HIDE DEF row, k
      <4> QED
        BY <1>0, <3>1 DEF Trusts, ClientType
    <3>4. Trusts(new, tested)
      <4> HIDE DEF new, row
      <4> QED
        BY <2>1, <3>1, <3>3 DEF Trusts
    <3> HIDE DEF new
    <3> QED
      BY <1>0, <2>1, <3>2, <3>4, OnlyClientMoves
  <2> QED
    BY <2>2, <2>3
<1>4. CASE Connections!UseConnection(c)
  <2>1. k.existing.url \in Urls \cup {NoUrl}
    BY <1>0 DEF Trusts, ClientType, Connections!RowType
  <2> QED
    BY <1>0, <1>4, <2>1, OnlyClientMoves DEF Connections!UseConnection, Connections!Answered
<1>5. ASSUME NEW t \in Connections!Types, Connections!StartProbe(c, t) PROVE ConnectionsInv'
  <2> DEFINE row == rows[t]
             new == [Connections!Idle EXCEPT !.op = "probe", !.pc = "found", !.type = t, !.existing = row]
  <2>1. row \in Connections!RowType /\ <<t, row.url>> \in tested
    BY <1>5 DEF ConnectionsInv, RowsTested, Connections!StartProbe, Connections!Ready
  <2>2. clients' = [clients EXCEPT ![c] = new] /\ UNCHANGED <<rows, present, health, tested, missed>>
    BY <1>5 DEF Connections!StartProbe
  <2> HIDE DEF row
  <2>3. Trusts(new, tested)
    BY <2>1 DEF Trusts, ClientType, Connections!Idle
  <2> HIDE DEF new
  <2> QED
    BY <1>0, <2>2, <2>3, OnlyClientMoves
<1> QED
  BY <1>1, <1>2, <1>3, <1>4, <1>5

LEMMA ConnectionsNext == ConnectionsInv /\ Connections!Next => ConnectionsInv'
BY SaveOK, TestOK, ResetOK, EndingOK, UseOK DEF Connections!Next

-----------------------------------------------------------------------------
(* The health of a provider. *)

LEMMA HealthConstants ==
  /\ FAILURE_THRESHOLD \in Nat \ {0, 1}
  /\ NoRecord \notin Nat
  /\ NoRecord \notin Health!Counts
  /\ 0 \in Health!Counts
  /\ \A n \in Health!Counts : n \in Nat /\ n <= FAILURE_THRESHOLD
BY ServicesAssumption DEF Health!HealthAssumption, Health!Counts

CallType ==
  [pc : {"idle", "asked", "load", "loaded", "decide", "write", "cache",
         "delete", "uncache", "read", "read all"},
   op : {"none", "success", "failure", "recovery", "clear", "summary"},
   seen : Health!Counts \cup {NoRecord}, alone : BOOLEAN]

HealthTyped ==
  /\ record \in Health!Counts \cup {NoRecord} /\ cached \in Health!Counts \cup {NoRecord}
  /\ loadedAll \in BOOLEAN
  /\ calls \in [Calls -> CallType]
  /\ since \in Health!Counts /\ torn \in BOOLEAN

\* The failures that are counted already but have not been recorded yet.
Undecided ==
  {c \in Calls : calls[c].op = "failure" /\ calls[c].pc \in {"load", "loaded", "decide"}}

\* The counts that are stored, cached, or about to be.
Known == ({0, record, cached} \cup {calls[c].seen : c \in Calls}) \ {NoRecord}

\* A count leaves room for every failure that may still be added to it.
Room(v, open, n) == v + Cardinality(open) <= n \/ n = FAILURE_THRESHOLD

CountsHaveRoom ==
  /\ IsFiniteSet(Undecided)
  /\ \A v \in Known : Room(v, Undecided, since)

\* A recording is undisturbed exactly when no other has overlapped it, and where
\* recordings overlap, the cache and the row may differ.
AloneIsAlone ==
  \A c \in Calls : Health!Recording(c) =>
    /\ ~calls[c].alone => torn
    /\ calls[c].alone => \A d \in Calls \ {c} : ~Health!Recording(d)

\* What a recording has read or written is still so while no other overlaps it.
Sees(k, stored, copy, apart) ==
  /\ k.pc \in {"idle", "asked"} => k.seen = NoRecord
  /\ k.pc \in {"write", "cache"} /\ k.op # "failure" => k.seen = 0
  /\ k.alone /\ k.pc \in {"loaded", "read all", "cache"} => k.seen = stored
  /\ k.alone /\ k.pc = "uncache" => stored = NoRecord
  /\ k.pc = "decide" /\ ~apart /\ copy = NoRecord => stored = NoRecord

AloneSees == \A c \in Calls : Sees(calls[c], record, cached, torn)

\* Otherwise the cache agrees with the row.
CacheAgrees ==
  ~torn /\ (\A c \in Calls : calls[c].pc \notin {"cache", "uncache"}) =>
    /\ cached # NoRecord => cached = record
    /\ cached = NoRecord /\ loadedAll => record = NoRecord

HealthInv == HealthTyped /\ CountsHaveRoom /\ AloneIsAlone /\ AloneSees /\ CacheAgrees

LEMMA HealthImplies == HealthInv => Health!TypeOK /\ Health!LoneFailureNeverDegrades
<1> SUFFICES ASSUME HealthInv PROVE Health!TypeOK /\ Health!LoneFailureNeverDegrades
  OBVIOUS
<1>1. Health!TypeOK
  BY DEF HealthInv, HealthTyped, CallType, Health!TypeOK
<1>2. ASSUME NEW v \in {record, cached} \ {NoRecord} PROVE v <= since
  <2>1. Room(v, Undecided, since) /\ IsFiniteSet(Undecided)
    BY DEF HealthInv, CountsHaveRoom, Known
  <2>2. Cardinality(Undecided) \in Nat
    BY <2>1, FS_CardinalityType
  <2>3. v \in Nat /\ v <= FAILURE_THRESHOLD /\ since \in Nat
    BY HealthConstants DEF HealthInv, HealthTyped
  <2> QED
    BY <2>1, <2>2, <2>3 DEF Room
<1> QED
  BY <1>1, <1>2 DEF Health!LoneFailureNeverDegrades

LEMMA HealthInit == Health!Init => HealthInv
<1> SUFFICES ASSUME Health!Init PROVE HealthInv
  OBVIOUS
<1> USE HealthConstants DEF Health!Init
<1>1. Health!Idle \in CallType
  BY DEF Health!Idle, CallType
<1>2. HealthTyped
  BY <1>1 DEF HealthTyped
<1>3. CountsHaveRoom
  <2>1. Undecided = {}
    BY DEF Undecided, Health!Idle
  <2>2. Known = {0}
    BY DEF Known, Health!Idle
  <2>3. Cardinality({}) = 0 /\ IsFiniteSet({})
    BY FS_EmptySet
  <2> QED
    BY <2>1, <2>2, <2>3 DEF CountsHaveRoom, Room
<1>4. AloneIsAlone /\ AloneSees /\ CacheAgrees
  BY DEF AloneIsAlone, AloneSees, Sees, CacheAgrees, Health!Recording, Health!Idle
<1> QED
  BY <1>2, <1>3, <1>4 DEF HealthInv

LEMMA HealthKept == HealthInv /\ KeepHealth => HealthInv'
<1> SUFFICES ASSUME HealthInv, KeepHealth PROVE HealthInv'
  OBVIOUS
<1> USE DEF KeepHealth
<1>1. Undecided' = Undecided /\ Known' = Known
  BY DEF Undecided, Known
<1> QED
  BY <1>1 DEF HealthInv, HealthTyped, CountsHaveRoom, AloneIsAlone, AloneSees, CacheAgrees,
              Health!Recording

LEMMA KnownType == HealthInv => Known \subseteq Health!Counts
<1> SUFFICES ASSUME HealthInv, NEW v \in Known PROVE v \in Health!Counts
  OBVIOUS
<1>1. \A c \in Calls : calls[c].seen \in Health!Counts \cup {NoRecord}
  BY DEF HealthInv, HealthTyped, CallType
<1> QED
  BY <1>1, HealthConstants DEF HealthInv, HealthTyped, Known

\* A step that decides and learns nothing new leaves the room there was.
LEMMA RoomStays ==
  ASSUME HealthInv, Undecided' \subseteq Undecided, Known' \subseteq Known, since' = since
  PROVE  CountsHaveRoom'
<1>1. IsFiniteSet(Undecided') /\ Cardinality(Undecided') <= Cardinality(Undecided)
  BY FS_Subset DEF HealthInv, CountsHaveRoom
<1>2. Cardinality(Undecided) \in Nat /\ Cardinality(Undecided') \in Nat
  BY <1>1, FS_CardinalityType DEF HealthInv, CountsHaveRoom
<1>3. ASSUME NEW v \in Known' PROVE Room(v, Undecided', since')
  <2>1. v \in Nat /\ since \in Nat
    BY KnownType, HealthConstants DEF HealthInv, HealthTyped
  <2>2. Room(v, Undecided, since)
    BY DEF HealthInv, CountsHaveRoom
  <2> QED
    BY <1>1, <1>2, <2>1, <2>2 DEF Room
<1> QED
  BY <1>1, <1>3 DEF CountsHaveRoom

\* A new failure makes room for itself.
LEMMA RoomGrows ==
  ASSUME HealthInv, NEW c, Undecided' \subseteq Undecided \cup {c}, Known' \subseteq Known,
         since' = Health!OneMore(since)
  PROVE  CountsHaveRoom'
<1>1. /\ IsFiniteSet(Undecided \cup {c})
      /\ Cardinality(Undecided \cup {c}) <= Cardinality(Undecided) + 1
  <2>1. IsFiniteSet(Undecided)
    BY DEF HealthInv, CountsHaveRoom
  <2>2. Cardinality(Undecided) \in Nat
    BY <2>1, FS_CardinalityType
  <2>3. /\ IsFiniteSet(Undecided \cup {c})
        /\ \/ Cardinality(Undecided \cup {c}) = Cardinality(Undecided)
           \/ Cardinality(Undecided \cup {c}) = Cardinality(Undecided) + 1
    BY <2>1, FS_AddElement
  <2> QED
    BY <2>2, <2>3
<1>2. IsFiniteSet(Undecided') /\ Cardinality(Undecided') <= Cardinality(Undecided \cup {c})
  BY <1>1, FS_Subset
<1>3. Cardinality(Undecided) \in Nat /\ Cardinality(Undecided') \in Nat
      /\ Cardinality(Undecided \cup {c}) \in Nat
  BY <1>1, <1>2, FS_CardinalityType DEF HealthInv, CountsHaveRoom
<1>4. ASSUME NEW v \in Known' PROVE Room(v, Undecided', since')
  <2>1. v \in Nat /\ since \in Nat /\ since <= FAILURE_THRESHOLD
    BY KnownType, HealthConstants DEF HealthInv, HealthTyped
  <2>2. Room(v, Undecided, since)
    BY DEF HealthInv, CountsHaveRoom
  <2> QED
    BY <1>1, <1>2, <1>3, <2>1, <2>2, HealthConstants DEF Room, Health!OneMore
<1> QED
  BY <1>2, <1>4 DEF CountsHaveRoom

\* A failure that is decided takes the room it was left.
LEMMA RoomTaken ==
  ASSUME HealthInv, NEW c \in Undecided, NEW before \in Known,
         Undecided' = Undecided \ {c}, Known' \subseteq Known \cup {Health!OneMore(before)},
         since' = since
  PROVE  CountsHaveRoom'
<1>1. /\ IsFiniteSet(Undecided') /\ Cardinality(Undecided') = Cardinality(Undecided) - 1
      /\ Cardinality(Undecided) \in Nat /\ Cardinality(Undecided') \in Nat
  BY FS_RemoveElement, FS_CardinalityType DEF HealthInv, CountsHaveRoom
<1>2. ASSUME NEW v \in Known' PROVE Room(v, Undecided', since')
  <2>1. before \in Nat /\ since \in Nat
    BY KnownType, HealthConstants DEF HealthInv, HealthTyped
  <2>2. CASE v \in Known
    <3>1. v \in Nat
      BY <2>2, KnownType, HealthConstants
    <3> QED
      BY <1>1, <2>1, <2>2, <3>1 DEF HealthInv, CountsHaveRoom, Room
  <2>3. CASE v = Health!OneMore(before)
    <3>1. Room(before, Undecided, since)
      BY DEF HealthInv, CountsHaveRoom
    <3>2. v \in Nat /\ v <= before + 1
      BY <2>1, <2>3, HealthConstants DEF Health!OneMore
    <3> QED
      BY <1>1, <2>1, <3>1, <3>2 DEF Room
  <2> QED
    BY <2>2, <2>3
<1> QED
  BY <1>1, <1>2 DEF CountsHaveRoom

LEMMA RoomStartsOver ==
  ASSUME Undecided' = {}, Known' = {0}, since' \in Nat
  PROVE  CountsHaveRoom'
BY FS_EmptySet DEF CountsHaveRoom, Room

LEMMA HealthIdle == Health!Idle \in CallType /\ \A v, w, t : Sees(Health!Idle, v, w, t)
BY HealthConstants DEF Health!Idle, CallType, Sees

\* While one call goes on with its recording, others that overlap it are disturbed
\* already, and nothing is asked of what they see.
LEMMA RecorderMoves ==
  ASSUME HealthInv, NEW c \in Calls, Health!Recording(c), NEW k \in CallType,
         calls' = [calls EXCEPT ![c] = k],
         \/ k = Health!Idle
         \/ k.pc \notin {"idle", "asked"} /\ k.alone = calls[c].alone,
         \/ torn' = torn
         \/ k = Health!Idle /\ torn' = (torn /\ ~calls[c].alone),
         Sees(k, record', cached', torn')
  PROVE  /\ calls' \in [Calls -> CallType] /\ calls'[c] = k
         /\ \A d \in Calls \ {c} : calls'[d] = calls[d]
         /\ torn' \in BOOLEAN
         /\ AloneIsAlone' /\ AloneSees'
<1>1. /\ calls' \in [Calls -> CallType] /\ calls'[c] = k
      /\ \A d \in Calls \ {c} : calls'[d] = calls[d]
  BY DEF HealthInv, HealthTyped
<1>2. torn \in BOOLEAN /\ torn' \in BOOLEAN
      /\ \A d \in Calls : calls[d].alone \in BOOLEAN
  BY DEF HealthInv, HealthTyped, CallType
<1>3. \A d \in Calls \ {c} : Health!Recording(d) => ~calls[d].alone /\ ~calls[c].alone /\ torn /\ torn'
  BY <1>2 DEF HealthInv, AloneIsAlone
<1>4. \A d \in Calls \ {c} : Health!Recording(d)' <=> Health!Recording(d)
  BY <1>1 DEF Health!Recording
<1>5. Health!Recording(c)' => k.alone = calls[c].alone /\ torn' = torn
  BY <1>1 DEF Health!Recording, Health!Idle
<1>6. AloneIsAlone'
  <2> SUFFICES ASSUME NEW d \in Calls, Health!Recording(d)'
               PROVE  /\ ~calls'[d].alone => torn'
                      /\ calls'[d].alone => \A e \in Calls \ {d} : ~Health!Recording(e)'
    BY DEF AloneIsAlone
  <2>1. CASE d = c
    <3>1. calls'[d].alone = calls[c].alone /\ torn' = torn
      BY <1>1, <1>5, <2>1
    <3> QED
      BY <1>4, <2>1, <3>1 DEF HealthInv, AloneIsAlone
  <2>2. CASE d # c
    <3>1. ~calls'[d].alone /\ torn'
      BY <1>1, <1>3, <1>4, <2>2
    <3> QED
      BY <3>1
  <2> QED
    BY <2>1, <2>2
<1>7. ASSUME NEW d \in Calls PROVE Sees(calls'[d], record', cached', torn')
  <2>1. CASE d = c
    BY <1>1, <2>1
  <2>2. CASE d # c /\ ~Health!Recording(d)
    BY <1>1, <2>2 DEF HealthInv, AloneSees, Sees, Health!Recording
  <2>3. CASE d # c /\ Health!Recording(d)
    BY <1>1, <1>3, <2>3 DEF HealthInv, AloneSees, Sees
  <2> QED
    BY <2>1, <2>2, <2>3
<1> QED
  BY <1>1, <1>2, <1>6, <1>7 DEF AloneSees

\* Which counts are known and which failures undecided, after such a step.
LEMMA KnownMoves ==
  ASSUME NEW c \in Calls, NEW k, calls'[c] = k, \A d \in Calls \ {c} : calls'[d] = calls[d]
  PROVE  /\ Known' \subseteq Known \cup ({record', cached', k.seen} \ {NoRecord})
         /\ Undecided' \subseteq Undecided \cup {c}
         /\ ~(k.op = "failure" /\ k.pc \in {"load", "loaded", "decide"}) => Undecided' = Undecided \ {c}
         /\ (k.op = calls[c].op /\ calls[c].pc \in {"load", "loaded", "decide"}) => Undecided' \subseteq Undecided
<1>1. ASSUME NEW v \in Known' PROVE v \in Known \cup ({record', cached', k.seen} \ {NoRecord})
  <2>1. CASE v \in {0, record', cached'}
    BY <2>1 DEF Known
  <2>2. ASSUME NEW d \in Calls, v = calls'[d].seen
        PROVE  v \in Known \cup ({record', cached', k.seen} \ {NoRecord})
    BY <2>2 DEF Known
  <2> QED
    BY <2>1, <2>2 DEF Known
<1> QED
  BY <1>1 DEF Undecided

LEMMA SeenKnown ==
  \A c \in Calls : calls[c].seen # NoRecord => calls[c].seen \in Known
BY DEF Known

\* A recording may rely on what no other has disturbed.
LEMMA RecorderKnows ==
  ASSUME HealthInv, NEW c \in Calls, Health!Recording(c)
  PROVE  /\ calls[c] \in CallType /\ Sees(calls[c], record, cached, torn)
         /\ ~torn => calls[c].alone
         /\ ~torn \/ calls[c].alone => \A d \in Calls \ {c} : ~Health!Recording(d)
         /\ ~torn /\ calls[c].pc \notin {"cache", "uncache"} =>
              /\ cached # NoRecord => cached = record
              /\ cached = NoRecord /\ loadedAll => record = NoRecord
<1>1. calls[c] \in CallType /\ Sees(calls[c], record, cached, torn)
  BY DEF HealthInv, HealthTyped, AloneSees
<1>2. /\ ~torn => calls[c].alone
      /\ ~torn \/ calls[c].alone => \A d \in Calls \ {c} : ~Health!Recording(d)
  BY <1>1 DEF HealthInv, AloneIsAlone, CallType
<1>3. ~torn => \A d \in Calls \ {c} : calls[d].pc \notin {"cache", "uncache"}
  BY <1>2 DEF Health!Recording
<1> QED
  BY <1>1, <1>2, <1>3 DEF HealthInv, CacheAgrees

\* ensureLoaded.
LEMMA EnsureLoadedOK ==
  ASSUME HealthInv, NEW c \in Calls, Health!EnsureLoaded(c) \/ Health!CacheLoaded(c)
  PROVE  HealthInv'
<1> USE HealthConstants
<1> DEFINE was == calls[c]
<1>0. Health!Recording(c)
  BY DEF Health!Recording, Health!EnsureLoaded, Health!CacheLoaded
<1>1. /\ was \in CallType /\ Sees(was, record, cached, torn)
      /\ ~torn => was.alone /\ \A d \in Calls \ {c} : ~Health!Recording(d)
  BY <1>0, RecorderKnows
<1>2. ~torn /\ was.pc \notin {"cache", "uncache"} =>
        /\ cached # NoRecord => cached = record
        /\ cached = NoRecord /\ loadedAll => record = NoRecord
  BY <1>0, RecorderKnows
<1>3. CASE Health!EnsureLoaded(c)
  <2> DEFINE k == IF cached # NoRecord \/ loadedAll THEN [was EXCEPT !.pc = "decide"]
                  ELSE [was EXCEPT !.pc = "loaded", !.seen = record]
  <2>1. was.pc = "load" /\ UNCHANGED <<record, cached, loadedAll, since, torn>>
        /\ calls' = [calls EXCEPT ![c] = k]
    BY <1>3 DEF Health!EnsureLoaded
  <2>2. /\ k \in CallType /\ k.alone = was.alone /\ k.op = was.op
        /\ k.pc = IF cached # NoRecord \/ loadedAll THEN "decide" ELSE "loaded"
        /\ k.seen = IF cached # NoRecord \/ loadedAll THEN was.seen ELSE record
    <3> HIDE DEF was
    <3> QED
      BY <1>1 DEF HealthInv, HealthTyped, CallType
  <2> HIDE DEF k
  <2>3. Sees(k, record, cached, torn)
    BY <1>1, <1>2, <2>1, <2>2 DEF Sees
  <2>4. /\ calls' \in [Calls -> CallType] /\ calls'[c] = k
        /\ \A d \in Calls \ {c} : calls'[d] = calls[d]
        /\ AloneIsAlone' /\ AloneSees'
    BY <1>0, <2>1, <2>2, <2>3, RecorderMoves
  <2>5. CountsHaveRoom'
    <3>1. Known' \subseteq Known /\ Undecided' \subseteq Undecided
      BY <2>1, <2>2, <2>4, KnownMoves, SeenKnown DEF Known
    <3> QED
      BY <2>1, <3>1, RoomStays
  <2>6. CacheAgrees'
    BY <1>2, <2>1 DEF CacheAgrees
  <2> QED
    BY <2>1, <2>4, <2>5, <2>6 DEF HealthInv, HealthTyped
<1>4. CASE Health!CacheLoaded(c)
  <2> DEFINE k == [was EXCEPT !.pc = "decide"]
  <2>1. was.pc = "loaded" /\ UNCHANGED <<record, loadedAll, since, torn>>
        /\ calls' = [calls EXCEPT ![c] = k]
        /\ cached' = IF was.seen # NoRecord THEN was.seen ELSE cached
    BY <1>4 DEF Health!CacheLoaded, Health!Goto
  <2>2. /\ k \in CallType /\ k.alone = was.alone /\ k.op = was.op /\ k.pc = "decide"
        /\ k.seen = was.seen
    <3> HIDE DEF was
    <3> QED
      BY <1>1 DEF CallType
  <2> HIDE DEF k
  <2>3. Sees(k, record', cached', torn')
    BY <1>1, <2>1, <2>2 DEF Sees
  <2>4. /\ calls' \in [Calls -> CallType] /\ calls'[c] = k
        /\ \A d \in Calls \ {c} : calls'[d] = calls[d]
        /\ AloneIsAlone' /\ AloneSees'
    BY <1>0, <2>1, <2>2, <2>3, RecorderMoves
  <2>5. CountsHaveRoom'
    <3>1. Known' \subseteq Known /\ Undecided' \subseteq Undecided
      BY <2>1, <2>2, <2>4, KnownMoves, SeenKnown DEF Known
    <3> QED
      BY <2>1, <3>1, RoomStays
  <2>6. CacheAgrees'
    BY <1>1, <1>2, <2>1 DEF CacheAgrees, Sees
  <2>7. cached' \in Health!Counts \cup {NoRecord}
    BY <1>1, <2>1 DEF HealthInv, HealthTyped, CallType
  <2> QED
    BY <2>1, <2>4, <2>5, <2>6, <2>7 DEF HealthInv, HealthTyped
<1> QED
  BY <1>3, <1>4

\* A recording that ends without having changed anything, or has yet to.
LEMMA PauseOK ==
  ASSUME HealthInv, NEW c \in Calls, Health!Recording(c), NEW k \in CallType,
         calls' = [calls EXCEPT ![c] = k],
         calls[c].pc \notin {"cache", "uncache"},
         UNCHANGED <<record, cached, loadedAll, torn, since>>,
         k.pc \notin {"load", "loaded", "decide"},
         k = Health!Idle \/ (k.pc \notin {"idle", "asked"} /\ k.alone = calls[c].alone),
         k.seen \in Known \cup {NoRecord}, Sees(k, record, cached, torn)
  PROVE  HealthInv'
<1>1. /\ calls' \in [Calls -> CallType] /\ calls'[c] = k
      /\ \A d \in Calls \ {c} : calls'[d] = calls[d]
      /\ AloneIsAlone' /\ AloneSees'
  BY RecorderMoves
<1>2. Known' \subseteq Known /\ Undecided' \subseteq Undecided
  BY <1>1, KnownMoves DEF Known
<1>3. CacheAgrees'
  BY RecorderKnows DEF CacheAgrees
<1> QED
  BY <1>1, <1>2, <1>3, RoomStays DEF HealthInv, HealthTyped

LEMMA DecideOK ==
  ASSUME HealthInv, NEW c \in Calls, NEW throttled \in BOOLEAN, Health!Decide(c, throttled)
  PROVE  HealthInv'
<1> USE HealthConstants
<1> DEFINE was == calls[c]
           before == IF cached = NoRecord THEN 0 ELSE cached
           next == IF was.op = "failure" THEN Health!OneMore(before) ELSE 0
           k == [was EXCEPT !.pc = "write", !.seen = next]
<1>0. was.pc = "decide" /\ Health!Recording(c) /\ UNCHANGED <<record, cached, loadedAll, torn>>
  BY DEF Health!Decide, Health!Recording
<1>1. /\ was \in CallType /\ Sees(was, record, cached, torn)
      /\ ~torn \/ was.alone => \A d \in Calls \ {c} : ~Health!Recording(d)
      /\ ~torn => (cached # NoRecord => cached = record)
  BY <1>0, RecorderKnows
<1>2. CASE calls' = [calls EXCEPT ![c] = Health!Idle] /\ since' = since
  <2>1. Health!Idle.seen \in Known \cup {NoRecord} /\ Health!Idle.pc = "idle"
    BY DEF Health!Idle
  <2> QED
    BY <1>0, <1>2, <2>1, HealthIdle, PauseOK
<1>3. CASE /\ calls' = [calls EXCEPT ![c] = Health!Idle]
           /\ was.op = "success" /\ cached \in {NoRecord, 0} /\ was.alone /\ ~torn /\ since' = 0
  <2>1. /\ calls' \in [Calls -> CallType] /\ calls'[c] = Health!Idle
        /\ \A d \in Calls \ {c} : calls'[d] = calls[d]
        /\ AloneIsAlone' /\ AloneSees'
    BY <1>0, <1>3, HealthIdle, RecorderMoves
  <2>2. record \in {NoRecord, 0}
    BY <1>0, <1>1, <1>3 DEF Sees
  <2>3. \A d \in Calls : calls'[d].seen = NoRecord /\ calls'[d].pc \in {"idle", "asked"}
    <3>1. \A d \in Calls \ {c} : calls[d].pc \in {"idle", "asked"}
      BY <1>1, <1>3 DEF Health!Recording
    <3>2. \A d \in Calls \ {c} : calls[d].seen = NoRecord
      BY <3>1 DEF HealthInv, AloneSees, Sees
    <3>3. Health!Idle.seen = NoRecord /\ Health!Idle.pc = "idle"
      BY DEF Health!Idle
    <3> QED
      BY <2>1, <3>1, <3>2, <3>3
  <2>4. Known' = {0} /\ Undecided' = {}
    BY <1>0, <1>3, <2>2, <2>3 DEF Known, Undecided
  <2>5. CountsHaveRoom'
    BY <1>3, <2>4, RoomStartsOver
  <2>6. CacheAgrees'
    BY <1>0, <1>1, <1>3 DEF CacheAgrees, Sees
  <2> QED
    BY <1>0, <1>3, <2>1, <2>5, <2>6 DEF HealthInv, HealthTyped
<1>4. CASE calls' = [calls EXCEPT ![c] = k] /\ since' = since
  <2>1. before \in Known /\ before \in Health!Counts
    BY DEF Known, HealthInv, HealthTyped
  <2>2. next \in Health!Counts
    BY <2>1 DEF Health!OneMore, Health!Counts
  <2>3. /\ k \in CallType /\ k.alone = was.alone /\ k.op = was.op /\ k.pc = "write"
        /\ k.seen = next
    <3> HIDE DEF was, next
    <3> QED
      BY <1>1, <2>2 DEF CallType
  <2> HIDE DEF k
  <2>4. Sees(k, record, cached, torn)
    BY <2>3 DEF Sees
  <2>5. CASE was.op # "failure"
    <3>1. k.seen \in Known \cup {NoRecord}
      BY <2>3, <2>5 DEF Known
    <3> QED
      BY <1>0, <1>4, <2>3, <2>4, <3>1, PauseOK
  <2>6. CASE was.op = "failure"
    <3>1. /\ calls' \in [Calls -> CallType] /\ calls'[c] = k
          /\ \A d \in Calls \ {c} : calls'[d] = calls[d]
          /\ AloneIsAlone' /\ AloneSees'
      BY <1>0, <1>4, <2>3, <2>4, RecorderMoves
    <3>2. c \in Undecided /\ Undecided' = Undecided \ {c}
      BY <1>0, <2>3, <2>6, <3>1, KnownMoves DEF Undecided
    <3>3. Known' \subseteq Known \cup {Health!OneMore(before)}
      BY <1>0, <2>3, <2>6, <3>1, KnownMoves DEF Known
    <3>4. CountsHaveRoom'
      BY <1>4, <2>1, <3>2, <3>3, RoomTaken
    <3>5. CacheAgrees'
      BY <1>0, RecorderKnows DEF CacheAgrees
    <3> QED
      BY <1>0, <1>4, <3>1, <3>4, <3>5 DEF HealthInv, HealthTyped
  <2> QED
    BY <2>5, <2>6
<1> QED
  <2>1. Health!SuccessIdle => cached \in {NoRecord, 0}
    BY DEF Health!SuccessIdle
  <2> QED
    BY <1>0, <1>2, <1>3, <1>4, <2>1 DEF Health!Decide, Health!Ends, Health!Recovered

\* The row is written.
LEMMA WriteRecordOK ==
  ASSUME HealthInv, NEW c \in Calls, Health!WriteRecord(c) \/ Health!DeleteRecord(c)
  PROVE  HealthInv'
<1> USE HealthConstants
<1> DEFINE was == calls[c]
<1>0. Health!Recording(c) /\ was.pc \in {"write", "delete"}
  BY DEF Health!Recording, Health!WriteRecord, Health!DeleteRecord
<1>1. was \in CallType /\ Sees(was, record, cached, torn)
  BY <1>0, RecorderKnows
<1>2. CASE Health!WriteRecord(c) /\ was.op = "success" /\ record = NoRecord
  <2>1. Health!Idle.seen \in Known \cup {NoRecord} /\ Health!Idle.pc = "idle"
    BY DEF Health!Idle
  <2> QED
    BY <1>0, <1>2, <2>1, HealthIdle, PauseOK DEF Health!WriteRecord, Health!Ends
<1>3. CASE \/ Health!WriteRecord(c) /\ ~(was.op = "success" /\ record = NoRecord)
           \/ Health!DeleteRecord(c)
  <2> DEFINE pc == IF was.pc = "write" THEN "cache" ELSE "uncache"
             k == [was EXCEPT !.pc = pc]
  <2>1. /\ UNCHANGED <<cached, loadedAll, since, torn>> /\ calls' = [calls EXCEPT ![c] = k]
        /\ record' = IF was.pc = "write" THEN was.seen ELSE NoRecord
    BY <1>3 DEF Health!WriteRecord, Health!DeleteRecord, Health!Goto
  <2>2. pc = (IF was.pc = "write" THEN "cache" ELSE "uncache") /\ pc \in {"cache", "uncache"}
    OBVIOUS
  <2>3. /\ k \in CallType /\ k.alone = was.alone /\ k.op = was.op /\ k.pc = pc /\ k.seen = was.seen
    <3> HIDE DEF was, pc
    <3> QED
      BY <1>1, <2>2 DEF CallType
  <2> HIDE DEF k, pc
  <2>4. Sees(k, record', cached', torn')
    BY <1>0, <1>1, <2>1, <2>2, <2>3 DEF Sees
  <2>5. /\ calls' \in [Calls -> CallType] /\ calls'[c] = k
        /\ \A d \in Calls \ {c} : calls'[d] = calls[d]
        /\ AloneIsAlone' /\ AloneSees'
    BY <1>0, <2>1, <2>2, <2>3, <2>4, RecorderMoves
  <2>6. Known' \subseteq Known
    BY <2>1, <2>3, <2>5, KnownMoves, SeenKnown DEF Known
  <2>7. Undecided' \subseteq Undecided
    BY <2>2, <2>3, <2>5, KnownMoves
  <2>8. CacheAgrees'
    BY <2>2, <2>3, <2>5 DEF CacheAgrees
  <2>9. record' \in Health!Counts \cup {NoRecord}
    BY <1>1, <2>1 DEF CallType
  <2> QED
    BY <2>1, <2>5, <2>6, <2>7, <2>8, <2>9, RoomStays DEF HealthInv, HealthTyped
<1> QED
  BY <1>2, <1>3

\* What was written is cached; an undisturbed recovery has nothing left to make room for.
LEMMA CacheWrittenOK ==
  ASSUME HealthInv, NEW c \in Calls, Health!CacheWritten(c) \/ Health!Uncache(c)
  PROVE  HealthInv'
<1> USE HealthConstants
<1> DEFINE was == calls[c]
<1>0. /\ Health!Recording(c) /\ was.pc \in {"cache", "uncache"}
      /\ UNCHANGED <<record, loadedAll>> /\ torn' = (torn /\ ~was.alone)
      /\ calls' = [calls EXCEPT ![c] = Health!Idle]
      /\ cached' = IF was.pc = "cache" THEN was.seen ELSE NoRecord
  BY DEF Health!Recording, Health!CacheWritten, Health!Uncache, Health!Ends
<1>1. /\ was \in CallType /\ Sees(was, record, cached, torn)
      /\ ~torn => was.alone
      /\ ~torn \/ was.alone => \A d \in Calls \ {c} : ~Health!Recording(d)
  BY <1>0, RecorderKnows
<1>2. /\ calls' \in [Calls -> CallType] /\ calls'[c] = Health!Idle
      /\ \A d \in Calls \ {c} : calls'[d] = calls[d]
      /\ torn' \in BOOLEAN /\ AloneIsAlone' /\ AloneSees'
  BY <1>0, HealthIdle, RecorderMoves
<1>3. cached' \in Health!Counts \cup {NoRecord}
  BY <1>0, <1>1 DEF CallType
<1>4. CacheAgrees'
  BY <1>0, <1>1 DEF CacheAgrees, Sees
<1>5. Health!Idle.seen = NoRecord /\ Health!Idle.pc = "idle"
  BY DEF Health!Idle
<1>6. CASE since' = since
  <2>1. Known' \subseteq Known
    BY <1>0, <1>2, <1>5, KnownMoves, SeenKnown DEF Known
  <2>2. Undecided' \subseteq Undecided
    BY <1>2, <1>5, KnownMoves
  <2>3. CountsHaveRoom'
    BY <1>6, <2>1, <2>2, RoomStays
  <2> QED
    BY <1>0, <1>2, <1>3, <1>4, <1>6, <2>3 DEF HealthInv, HealthTyped
<1>7. CASE since' = 0 /\ was.alone /\ (was.pc = "cache" => was.op # "failure")
  <2>1. \A d \in Calls : calls'[d].seen = NoRecord /\ calls'[d].pc \in {"idle", "asked"}
    <3>1. \A d \in Calls \ {c} : calls[d].pc \in {"idle", "asked"}
      BY <1>1, <1>7 DEF Health!Recording
    <3>2. \A d \in Calls \ {c} : calls[d].seen = NoRecord
      BY <3>1 DEF HealthInv, AloneSees, Sees
    <3> QED
      BY <1>2, <1>5, <3>1, <3>2
  <2>2. record \in {0, NoRecord} /\ cached' \in {0, NoRecord}
    BY <1>0, <1>1, <1>7 DEF Sees
  <2>3. Known' = {0} /\ Undecided' = {}
    BY <1>0, <2>1, <2>2 DEF Known, Undecided
  <2>4. CountsHaveRoom'
    BY <1>7, <2>3, RoomStartsOver
  <2> QED
    BY <1>0, <1>2, <1>3, <1>4, <1>7, <2>4 DEF HealthInv, HealthTyped
<1> QED
  BY <1>0, <1>6, <1>7 DEF Health!CacheWritten, Health!Uncache, Health!Recovered

\* getSummary.
LEMMA SummaryOK ==
  ASSUME HealthInv, NEW c \in Calls, Health!ReadAll(c) \/ Health!CacheAll(c)
  PROVE  HealthInv'
<1> USE HealthConstants
<1> DEFINE was == calls[c]
<1>0. Health!Recording(c) /\ was.pc \in {"read", "read all"}
  BY DEF Health!Recording, Health!ReadAll, Health!CacheAll
<1>1. /\ was \in CallType /\ Sees(was, record, cached, torn)
      /\ ~torn => was.alone
      /\ ~torn => (cached # NoRecord => cached = record)
      /\ ~torn /\ cached = NoRecord /\ loadedAll => record = NoRecord
  BY <1>0, RecorderKnows
<1>2. Health!Idle.seen \in Known \cup {NoRecord} /\ Health!Idle.seen = NoRecord
      /\ Health!Idle.pc = "idle"
  BY DEF Health!Idle
<1>3. CASE Health!ReadAll(c) /\ loadedAll
  BY <1>0, <1>2, <1>3, HealthIdle, PauseOK DEF Health!ReadAll, Health!Ends
<1>4. CASE Health!ReadAll(c) /\ ~loadedAll
  <2> DEFINE k == [was EXCEPT !.pc = "read all", !.seen = record]
  <2>1. calls' = [calls EXCEPT ![c] = k] /\ UNCHANGED <<record, cached, loadedAll, since, torn>>
    BY <1>4 DEF Health!ReadAll
  <2>2. /\ k \in CallType /\ k.alone = was.alone /\ k.pc = "read all" /\ k.seen = record
    <3> HIDE DEF was
    <3> QED
      BY <1>1 DEF CallType, HealthInv, HealthTyped
  <2> HIDE DEF k
  <2>3. k.seen \in Known \cup {NoRecord} /\ Sees(k, record, cached, torn)
    BY <2>2 DEF Known, Sees
  <2> QED
    BY <1>0, <2>1, <2>2, <2>3, PauseOK
<1>5. CASE Health!CacheAll(c)
  <2>1. /\ was.pc = "read all" /\ loadedAll' = TRUE /\ UNCHANGED <<record, since, torn>>
        /\ calls' = [calls EXCEPT ![c] = Health!Idle]
        /\ cached' = IF was.seen # NoRecord THEN was.seen ELSE cached
    BY <1>5 DEF Health!CacheAll, Health!Ends
  <2>2. /\ calls' \in [Calls -> CallType] /\ calls'[c] = Health!Idle
        /\ \A d \in Calls \ {c} : calls'[d] = calls[d]
        /\ AloneIsAlone' /\ AloneSees'
    BY <1>0, <2>1, HealthIdle, RecorderMoves
  <2>3. Known' \subseteq Known
    <3>1. ({record', cached'} \ {NoRecord}) \subseteq Known
      BY <2>1, SeenKnown DEF Known
    <3>2. Known' \subseteq Known \cup ({record', cached', Health!Idle.seen} \ {NoRecord})
      BY <2>2, KnownMoves
    <3> QED
      BY <1>2, <3>1, <3>2
  <2>4. Undecided' \subseteq Undecided
    BY <1>2, <2>2, KnownMoves
  <2>5. CacheAgrees'
    BY <1>1, <2>1 DEF CacheAgrees, Sees
  <2>6. cached' \in Health!Counts \cup {NoRecord}
    BY <1>1, <2>1 DEF HealthInv, HealthTyped, CallType
  <2> QED
    BY <2>1, <2>2, <2>3, <2>4, <2>5, <2>6, RoomStays DEF HealthInv, HealthTyped
<1> QED
  BY <1>3, <1>4, <1>5

LEMMA QueryFailsOK ==
  ASSUME HealthInv, NEW c \in Calls, Health!QueryFails(c)
  PROVE  HealthInv'
<1>1. Health!Idle.seen \in Known \cup {NoRecord} /\ Health!Idle.pc = "idle"
  BY DEF Health!Idle
<1> QED
  BY <1>1, HealthIdle, PauseOK DEF Health!QueryFails, Health!Ends, Health!Recording

\* A call that is not recording changes nothing that others rely on.
LEMMA CallProviderOK ==
  ASSUME HealthInv, NEW c \in Calls, NEW k \in CallType, ~Health!Recording(c),
         calls' = [calls EXCEPT ![c] = k],
         k.pc \in {"idle", "asked"}, k.seen = NoRecord,
         UNCHANGED <<record, cached, loadedAll, torn, since>>
  PROVE  HealthInv'
<1>1. /\ calls' \in [Calls -> CallType] /\ calls'[c] = k
      /\ \A d \in Calls \ {c} : calls'[d] = calls[d]
  BY DEF HealthInv, HealthTyped
<1>2. \A d \in Calls : Health!Recording(d)' <=> Health!Recording(d)
  BY <1>1 DEF Health!Recording
<1>3. AloneIsAlone'
  BY <1>1, <1>2 DEF HealthInv, AloneIsAlone, Health!Recording
<1>4. AloneSees'
  BY <1>1 DEF HealthInv, AloneSees, Sees
<1>5. CacheAgrees'
  BY <1>1 DEF HealthInv, CacheAgrees, Health!Recording
<1>6. Known' \subseteq Known /\ Undecided' \subseteq Undecided
  BY <1>1, KnownMoves DEF Known, Undecided
<1> QED
  BY <1>1, <1>3, <1>4, <1>5, <1>6, RoomStays DEF HealthInv, HealthTyped

\* Where a recording begins while others have not ended, all of them are disturbed.
LEMMA BeginOK ==
  ASSUME HealthInv, NEW c \in Calls, ~Health!Recording(c),
         NEW op \in {"success", "failure", "recovery", "clear", "summary"},
         NEW pc \in {"load", "delete", "read"},
         Health!Begin(c, op, pc), UNCHANGED <<record, cached, loadedAll>>,
         since' = IF op = "failure" THEN Health!OneMore(since) ELSE since
  PROVE  HealthInv'
<1> USE HealthConstants
<1> DEFINE others == {d \in Calls \ {c} : Health!Recording(d)}
           k == [pc |-> pc, op |-> op, seen |-> NoRecord, alone |-> others = {}]
<1>1. /\ calls' = [d \in Calls |-> IF d = c THEN k
                      ELSE [calls[d] EXCEPT !.alone = calls[d].alone /\ d \notin others]]
      /\ torn' = (torn \/ others # {})
  BY DEF Health!Begin
<1>2. k \in CallType /\ k.pc = pc /\ k.op = op /\ k.seen = NoRecord /\ (k.alone <=> others = {})
  BY DEF CallType
<1> HIDE DEF k
<1>3. ASSUME NEW d \in Calls \ {c}
      PROVE  /\ calls'[d] \in CallType
             /\ calls'[d].pc = calls[d].pc /\ calls'[d].op = calls[d].op
             /\ calls'[d].seen = calls[d].seen
             /\ calls'[d].alone <=> calls[d].alone /\ d \notin others
  <2>1. calls[d] \in CallType
    BY DEF HealthInv, HealthTyped
  <2>2. calls'[d] = [calls[d] EXCEPT !.alone = calls[d].alone /\ d \notin others]
    BY <1>1
  <2>3. (calls[d].alone /\ d \notin others) \in BOOLEAN
    OBVIOUS
  <2> HIDE DEF others
  <2> QED
    BY <2>1, <2>2, <2>3 DEF CallType
<1>4. calls'[c] = k /\ torn \in BOOLEAN /\ torn' \in BOOLEAN
  BY <1>1 DEF HealthInv, HealthTyped
<1>5. calls' \in [Calls -> CallType]
  BY <1>1, <1>2, <1>3, <1>4
<1>6. \A d \in Calls \ {c} : Health!Recording(d)' <=> d \in others
  BY <1>3 DEF Health!Recording
<1>7. AloneIsAlone'
  <2> SUFFICES ASSUME NEW d \in Calls, Health!Recording(d)'
               PROVE  /\ ~calls'[d].alone => torn'
                      /\ calls'[d].alone => \A e \in Calls \ {d} : ~Health!Recording(e)'
    BY DEF AloneIsAlone
  <2>1. CASE d = c
    BY <1>1, <1>2, <1>4, <1>6, <2>1
  <2>2. CASE d # c
    BY <1>1, <1>3, <1>6, <2>2
  <2> QED
    BY <2>1, <2>2
<1>8. ASSUME NEW d \in Calls PROVE Sees(calls'[d], record', cached', torn')
  <2>1. CASE d = c
    BY <1>2, <1>4, <2>1 DEF Sees
  <2>2. CASE d # c
    <3>1. Sees(calls[d], record, cached, torn) /\ (~torn' => ~torn)
      BY <1>1 DEF HealthInv, AloneSees
    <3> QED
      BY <1>3, <2>2, <3>1 DEF Sees
  <2> QED
    BY <2>1, <2>2
<1>9. CacheAgrees'
  <2>1. ~torn' => ~torn
    BY <1>1
  <2>2. (\A d \in Calls : calls'[d].pc \notin {"cache", "uncache"}) =>
          \A d \in Calls : calls[d].pc \notin {"cache", "uncache"}
    BY <1>3 DEF Health!Recording
  <2> QED
    BY <2>1, <2>2 DEF HealthInv, CacheAgrees
<1>10. Known' \subseteq Known
  BY <1>2, <1>3, <1>4 DEF Known
<1>11. CountsHaveRoom'
  <2>1. CASE op = "failure"
    <3>1. Undecided' \subseteq Undecided \cup {c}
      BY <1>3 DEF Undecided
    <3> QED
      BY <1>10, <2>1, <3>1, RoomGrows
  <2>2. CASE op # "failure"
    <3>1. Undecided' \subseteq Undecided
      BY <1>2, <1>3, <1>4, <2>2 DEF Undecided
    <3> QED
      BY <1>10, <2>2, <3>1, RoomStays
  <2> QED
    BY <2>1, <2>2
<1>12. since' \in Health!Counts
  BY DEF HealthInv, HealthTyped, Health!OneMore, Health!Counts
<1> QED
  BY <1>4, <1>5, <1>7, <1>8, <1>9, <1>11, <1>12 DEF HealthInv, HealthTyped, AloneSees

\* The cache and what was going on are lost, the row stays.
LEMMA RestartOK == HealthInv /\ Health!Restart => HealthInv'
<1> SUFFICES ASSUME HealthInv, Health!Restart PROVE HealthInv'
  OBVIOUS
<1> USE HealthConstants DEF Health!Restart
<1>1. Health!Idle \in CallType /\ Health!Idle.pc = "idle" /\ Health!Idle.seen = NoRecord
  BY HealthIdle DEF Health!Idle
<1>2. \A c \in Calls : calls'[c] = Health!Idle
  OBVIOUS
<1>3. Known' \subseteq Known /\ Undecided' \subseteq Undecided
  BY <1>1, <1>2 DEF Known, Undecided
<1>4. AloneIsAlone' /\ CacheAgrees'
  BY <1>1, <1>2 DEF AloneIsAlone, CacheAgrees, Health!Recording
<1>5. AloneSees'
  BY <1>2, HealthIdle DEF AloneSees
<1>6. HealthTyped'
  BY <1>1 DEF HealthInv, HealthTyped
<1> QED
  BY <1>3, <1>4, <1>5, <1>6, RoomStays DEF HealthInv

LEMMA HealthNext == HealthInv /\ Health!Next => HealthInv'
<1> SUFFICES ASSUME HealthInv, Health!Next PROVE HealthInv'
  OBVIOUS
<1>1. ASSUME NEW c \in Calls, Health!CallProvider(c) PROVE HealthInv'
  <2> DEFINE k == [calls[c] EXCEPT !.pc = "asked"]
  <2>1. calls[c] \in CallType /\ calls[c].pc = "idle" /\ calls[c].seen = NoRecord
    BY <1>1 DEF HealthInv, HealthTyped, AloneSees, Sees, Health!CallProvider
  <2>2. k \in CallType /\ k.pc = "asked" /\ k.seen = NoRecord
    BY <2>1 DEF CallType
  <2>3. calls' = [calls EXCEPT ![c] = k] /\ UNCHANGED <<record, cached, loadedAll, torn, since>>
    BY <1>1 DEF Health!CallProvider
  <2> HIDE DEF k
  <2> QED
    BY <2>1, <2>2, <2>3, CallProviderOK DEF Health!Recording
<1>2. ASSUME NEW c \in Calls, NEW kind \in Health!Kinds, NEW answer \in Health!Answers,
             Health!ProviderAnswers(c, kind, answer)
      PROVE  HealthInv'
  <2> DEFINE outcome == Health!Outcome(kind, answer)
  <2>1. calls[c].pc = "asked" /\ ~Health!Recording(c)
    BY <1>2 DEF Health!ProviderAnswers, Health!Recording
  <2>2. outcome \in {"untold", "success", "failure"}
    BY DEF Health!Outcome, Health!Answers
  <2>3. CASE outcome = "untold"
    <3>1. calls' = [calls EXCEPT ![c] = Health!Idle] /\ UNCHANGED <<record, cached, loadedAll, torn, since>>
      BY <1>2, <2>3 DEF Health!ProviderAnswers, Health!Ends
    <3>2. Health!Idle.pc = "idle" /\ Health!Idle.seen = NoRecord
      BY DEF Health!Idle
    <3> QED
      BY <2>1, <3>1, <3>2, HealthIdle, CallProviderOK
  <2>4. CASE outcome # "untold"
    <3>1. /\ Health!Begin(c, outcome, "load") /\ UNCHANGED <<record, cached, loadedAll>>
          /\ since' = IF outcome = "failure" THEN Health!OneMore(since) ELSE since
      BY <1>2, <2>4 DEF Health!ProviderAnswers
    <3> HIDE DEF outcome
    <3> QED
      BY <2>1, <2>2, <2>4, <3>1, BeginOK
  <2> QED
    BY <2>3, <2>4
<1>3. ASSUME NEW c \in Calls, NEW op \in {"recovery", "clear", "summary"}, Health!StartManually(c, op)
      PROVE  HealthInv'
  <2>1. \E pc \in {"load", "delete", "read"} : Health!Begin(c, op, pc)
    BY <1>3 DEF Health!StartManually
  <2>2. ~Health!Recording(c) /\ UNCHANGED <<record, cached, loadedAll, since>>
    BY <1>3 DEF Health!StartManually, Health!Recording
  <2> QED
    BY <2>1, <2>2, BeginOK
<1> QED
  BY <1>1, <1>2, <1>3, EnsureLoadedOK, DecideOK, WriteRecordOK, CacheWrittenOK, SummaryOK,
     QueryFailsOK, RestartOK DEF Health!Next

-----------------------------------------------------------------------------
(* The cache of availability. *)

LEMMA AvailabilityConstants ==
  /\ TTL \in Nat \ {0} /\ MaxEntries \in Nat \ {0} /\ MaxLookup \in Nat
  /\ Availability!Long = TTL + MaxLookup + 1 /\ Availability!Long \in Nat
BY ServicesAssumption DEF Availability!CacheAssumption, Availability!Long

\* A finite set of numbers has a least element, which Min finds.
LEMMA MinOfFinite ==
  ASSUME NEW S \in SUBSET Nat, IsFiniteSet(S), S # {}
  PROVE  Availability!Min(S) \in S /\ \A y \in S : Availability!Min(S) <= y
<1> DEFINE Below(x) == {y \in S : y < x}
           T == {Below(x) : x \in S}
<1>1. T \subseteq FiniteSubsetsOf(S) /\ T # {}
  <2>1. \A x \in S : Below(x) \in SUBSET S /\ IsFiniteSet(Below(x))
    BY FS_Subset
  <2> QED
    BY <2>1 DEF FiniteSubsetsOf
<1>2. PICK U \in T : \A V \in T : ~ (<<V, U>> \in StrictSubsetOrdering(S))
  <2>1. IsWellFoundedOn(StrictSubsetOrdering(S), FiniteSubsetsOf(S))
    BY FS_StrictSubsetOrderingWellFounded
  <2> HIDE DEF T
  <2> QED
    BY <1>1, <2>1, WFMin
<1>3. PICK x \in S : U = Below(x)
  OBVIOUS
<1>4. ASSUME NEW y \in S, y < x PROVE FALSE
  <2>1. Below(y) \subseteq Below(x) /\ y \in Below(x) /\ y \notin Below(y)
    <3>1. x \in Nat /\ y \in Nat /\ \A z \in S : z \in Nat
      OBVIOUS
    <3>2. \A z \in S : z < y => z < x
      BY <1>4, <3>1
    <3>3. ~ (y < y)
      BY <3>1
    <3> QED
      BY <1>4, <3>2, <3>3
  <2>2. Below(y) \in SUBSET S /\ Below(x) \in SUBSET S /\ Below(y) \in T
    OBVIOUS
  <2> HIDE DEF Below, T
  <2>3. <<Below(y), Below(x)>> \in StrictSubsetOrdering(S)
    BY <2>1, <2>2 DEF StrictSubsetOrdering
  <2> QED
    BY <1>2, <1>3, <2>2, <2>3
<1>5. \A y \in S : x <= y
  BY <1>4
<1> QED
  BY <1>5 DEF Availability!Min

Entry == [key : Availability!Keys, available : Availability!Answers, left : 0..TTL]

\* The positions of a sequence, and any of them, are finitely many numbers.
LEMMA PrefixFinite ==
  ASSUME NEW n \in Nat, NEW S \in SUBSET (1..n)
  PROVE  IsFiniteSet(S) /\ S \in SUBSET Nat
<1>1. IsFiniteSet(1..n)
  BY FS_Interval
<1>2. IsFiniteSet(S)
  BY <1>1, FS_Subset
<1> QED
  BY <1>2

\* What is left after pruning is the end of what was there, live, and no more than fits.
LEMMA PruneProperties ==
  ASSUME NEW entries \in Seq(Entry),
         \A m, n \in DOMAIN entries : m <= n => entries[m].left <= entries[n].left
  PROVE  LET pruned == Availability!Prune(entries)
         IN /\ pruned \in Seq(Entry)
            /\ Len(pruned) <= MaxEntries
            /\ \E shift \in Nat : \A n \in DOMAIN pruned :
                 n + shift \in DOMAIN entries /\ pruned[n] = entries[n + shift]
            /\ \A n \in DOMAIN pruned : pruned[n].left > 0
<1> USE AvailabilityConstants
<1> DEFINE stay == {n \in DOMAIN entries : Availability!Unexpired(entries[n])
                                            /\ n > Len(entries) - MaxEntries}
           pruned == Availability!Prune(entries)
<1>1. pruned = IF stay = {} THEN <<>> ELSE SubSeq(entries, Availability!Min(stay), Len(entries))
  BY DEF Availability!Prune, Availability!From
<1>2. Len(entries) \in Nat /\ DOMAIN entries = 1..Len(entries)
  OBVIOUS
<1>3. CASE stay = {}
  <2>1. pruned = <<>>
    BY <1>1, <1>3
  <2> HIDE DEF pruned
  <2>2. DOMAIN pruned = {} /\ Len(pruned) = 0 /\ pruned \in Seq(Entry)
    BY <2>1
  <2> QED
    BY <2>2 DEF pruned
<1>4. CASE stay # {}
  <2> DEFINE first == Availability!Min(stay)
  <2>1. first \in stay
    <3>1. IsFiniteSet(stay) /\ stay \in SUBSET Nat
      <4>1. stay \subseteq 1..Len(entries)
        BY <1>2
      <4> HIDE DEF stay
      <4> QED
        BY <1>2, <4>1, PrefixFinite
    <3> HIDE DEF stay
    <3> QED
      BY <1>4, <3>1, MinOfFinite
  <2>2. first \in 1..Len(entries) /\ entries[first].left > 0 /\ first > Len(entries) - MaxEntries
    BY <1>2, <2>1 DEF Availability!Unexpired
  <2>3. pruned = SubSeq(entries, first, Len(entries))
    BY <1>1, <1>4
  <2> HIDE DEF pruned, first, stay
  <2>4. /\ pruned \in Seq(Entry)
        /\ Len(pruned) = Len(entries) - first + 1
        /\ \A n \in 1..(Len(entries) - first + 1) : pruned[n] = entries[first + n - 1]
    <3>1. \A n \in first..Len(entries) : entries[n] \in Entry
      BY <1>2, <2>2
    <3> QED
      BY <1>2, <2>2, <2>3, <3>1, SubSeqProperties
  <2>5. DOMAIN pruned = 1..(Len(entries) - first + 1)
    BY <2>4
  <2>6. Len(pruned) <= MaxEntries
    BY <1>2, <2>2, <2>4
  <2>7. first - 1 \in Nat
        /\ \A n \in DOMAIN pruned : n + (first - 1) \in DOMAIN entries
                                    /\ pruned[n] = entries[n + (first - 1)]
    <3>1. first - 1 \in Nat
      BY <2>2
    <3>2. ASSUME NEW n \in DOMAIN pruned
          PROVE  n + (first - 1) \in DOMAIN entries /\ pruned[n] = entries[n + (first - 1)]
      <4>1. n \in 1..(Len(entries) - first + 1) /\ n \in Nat /\ first \in Nat
        BY <2>2, <2>5
      <4>2. first + n - 1 = n + (first - 1)
        BY <4>1
      <4>3. n + (first - 1) \in 1..Len(entries)
        BY <1>2, <2>2, <4>1
      <4> QED
        BY <1>2, <2>4, <4>1, <4>2, <4>3
    <3> QED
      BY <3>1, <3>2
  <2>8. \A n \in DOMAIN pruned : pruned[n].left > 0
    <3> SUFFICES ASSUME NEW n \in DOMAIN pruned PROVE pruned[n].left > 0
      OBVIOUS
    <3>1. n \in 1..(Len(entries) - first + 1)
      BY <2>5
    <3>2. first <= n + (first - 1) /\ first \in DOMAIN entries /\ n + (first - 1) \in DOMAIN entries
      BY <1>2, <2>2, <2>7, <3>1
    <3>3. entries[first].left <= entries[n + (first - 1)].left
      BY <3>2
    <3>4. entries[first].left \in Nat /\ entries[n + (first - 1)].left \in Nat
      <4>1. entries[first] \in Entry /\ entries[n + (first - 1)] \in Entry
        BY <3>2
      <4> QED
        BY <4>1 DEF Entry
    <3> QED
      BY <2>2, <2>7, <3>3, <3>4
  <2> QED
    BY <2>4, <2>6, <2>7, <2>8 DEF pruned
<1> QED
  BY <1>3, <1>4

\* When a Stash had, and lacked, a scene.
Changes(key) == has[key[1]][key[2]]

CallersOK == \A c \in Callers :
  /\ callers[c].pc = "idle" => callers[c].answer = "none"
  /\ callers[c].pc = "waiting" =>
       /\ callers[c].key \in Availability!Keys /\ callers[c].answer = "none"
       /\ lookups[callers[c].key].pc # "none"
  /\ callers[c].answer \in Availability!Answers =>
       /\ callers[c].pc = "answered" /\ callers[c].key \in Availability!Keys
       /\ Changes(callers[c].key)[callers[c].answer] < Availability!Long

\* What Stash answered was so when the lookup was that young, and what is cached is not
\* looked up.
LookupsOK == \A k \in Availability!Keys :
  /\ lookups[k].pc = "answered" => Changes(k)[lookups[k].found] <= lookups[k].age + 1
  /\ lookups[k].pc # "none" => \A n \in DOMAIN cache : cache[n].key = k => cache[n].left = 0

\* What an entry tells was so no longer ago than it has lived and its lookup took.
EntriesOK ==
  /\ \A n \in DOMAIN cache : cache[n].left > 0 =>
       Changes(cache[n].key)[cache[n].available] + cache[n].left <= Availability!Long
  /\ \A m, n \in DOMAIN cache : cache[m].key = cache[n].key => m = n

AvailabilityTyped ==
  /\ instance \in Instances
  /\ has \in [Instances -> [Scenes -> [Availability!Answers -> 0..Availability!Long]]]
  /\ \A k \in Availability!Keys : \E a \in Availability!Answers : Changes(k)[a] = 0
  /\ cache \in Seq(Entry) /\ Len(cache) <= MaxEntries
  /\ \A m, n \in DOMAIN cache : m <= n => cache[m].left <= cache[n].left
  /\ lookups \in [Availability!Keys -> [pc : {"none", "asked", "answered"},
                                        found : Availability!Answers, age : 0..MaxLookup]]
  /\ callers \in [Callers -> [pc : {"idle", "waiting", "answered"},
                              key : Availability!Keys \cup {<<>>},
                              answer : Availability!Answers \cup {"none", "failed"}]]

AvailabilityInv == AvailabilityTyped /\ CallersOK /\ LookupsOK /\ EntriesOK

LEMMA AvailabilityImplies ==
  AvailabilityInv => Availability!TypeOK /\ Availability!AnswersRecent
<1> SUFFICES ASSUME AvailabilityInv PROVE Availability!TypeOK /\ Availability!AnswersRecent
  OBVIOUS
<1>1. ASSUME NEW k \in Availability!Keys
      PROVE  Availability!Cardinality(Availability!Cached(k)) <= 1
  <2> DEFINE S == Availability!Cached(k)
  <2>1. S = {} \/ \E n \in S : S = {n}
    BY DEF AvailabilityInv, EntriesOK, Availability!Cached
  <2>2. Cardinality(S) \in {0, 1}
    <3> HIDE DEF S
    <3> QED
      BY <2>1, FS_EmptySet, FS_Singleton
  <2>3. Availability!Cardinality(S) = Cardinality(S)
    BY Zenon DEF Availability!Cardinality, Cardinality
  <2> HIDE DEF S
  <2>4. Availability!Cardinality(S) <= 1
    BY <2>2, <2>3
  <2> QED
    BY <2>4 DEF S
<1>2. Availability!TypeOK
  BY <1>1 DEF AvailabilityInv, AvailabilityTyped, CallersOK, Entry, Availability!TypeOK
<1>3. Availability!AnswersRecent
  BY DEF AvailabilityInv, CallersOK, Changes, Availability!AnswersRecent
<1> QED
  BY <1>2, <1>3

LEMMA AvailabilityInit == Availability!Init => AvailabilityInv
<1> SUFFICES ASSUME Availability!Init PROVE AvailabilityInv
  OBVIOUS
<1> USE AvailabilityConstants DEF Availability!Init
<1>1. has \in [Instances -> [Scenes -> [Availability!Answers -> 0..Availability!Long]]]
  OBVIOUS
<1>2. \A k \in Availability!Keys : Changes(k)["missing"] = 0
  BY DEF Changes, Availability!Keys, Availability!Answers
<1>3. lookups \in [Availability!Keys -> [pc : {"none", "asked", "answered"},
                                         found : Availability!Answers, age : 0..MaxLookup]]
  BY DEF Availability!NoLookup, Availability!Answers
<1>4. callers \in [Callers -> [pc : {"idle", "waiting", "answered"},
                               key : Availability!Keys \cup {<<>>},
                               answer : Availability!Answers \cup {"none", "failed"}]]
  BY DEF Availability!NoCall
<1>5. cache \in Seq(Entry) /\ Len(cache) = 0 /\ DOMAIN cache = {}
  OBVIOUS
<1>6. AvailabilityTyped
  BY <1>1, <1>2, <1>3, <1>4, <1>5 DEF AvailabilityTyped, Availability!Answers
<1>7. CallersOK
  BY DEF CallersOK, Availability!NoCall, Availability!Answers
<1>8. LookupsOK
  BY DEF LookupsOK, Availability!NoLookup
<1>9. EntriesOK
  BY <1>5 DEF EntriesOK
<1> QED
  BY <1>6, <1>7, <1>8, <1>9 DEF AvailabilityInv

LEMMA AvailabilityKept == AvailabilityInv /\ KeepAvailability => AvailabilityInv'
BY DEF KeepAvailability, AvailabilityInv, AvailabilityTyped, CallersOK, LookupsOK, EntriesOK,
       Changes

\* The entries that pruning leaves are as good as those that were there.
LEMMA PruneOK ==
  ASSUME NEW entries \in Seq(Entry),
         \A m, n \in DOMAIN entries : m <= n => entries[m].left <= entries[n].left
  PROVE  LET pruned == Availability!Prune(entries)
         IN /\ pruned \in Seq(Entry) /\ Len(pruned) <= MaxEntries
            /\ \A m, n \in DOMAIN pruned : m <= n => pruned[m].left <= pruned[n].left
            /\ \A m, n \in DOMAIN pruned : pruned[m].key = pruned[n].key =>
                 m = n \/ \E i, j \in DOMAIN entries :
                            /\ i # j /\ entries[i].key = entries[j].key
                            /\ entries[i].left > 0 /\ entries[j].left > 0
            /\ \A n \in DOMAIN pruned : pruned[n].left > 0
                                        /\ \E i \in DOMAIN entries : pruned[n] = entries[i]
<1> DEFINE pruned == Availability!Prune(entries)
<1>1. /\ pruned \in Seq(Entry) /\ Len(pruned) <= MaxEntries
      /\ \E shift \in Nat : \A n \in DOMAIN pruned :
                 n + shift \in DOMAIN entries /\ pruned[n] = entries[n + shift]
      /\ \A n \in DOMAIN pruned : pruned[n].left > 0
  BY PruneProperties
<1> HIDE DEF pruned
<1>2. PICK shift \in Nat : \A n \in DOMAIN pruned :
                 n + shift \in DOMAIN entries /\ pruned[n] = entries[n + shift]
  BY <1>1
<1>3. DOMAIN pruned \subseteq Nat
  BY <1>1
<1>4. ASSUME NEW m \in DOMAIN pruned, NEW n \in DOMAIN pruned, m <= n
      PROVE  pruned[m].left <= pruned[n].left
  <2>1. m + shift <= n + shift
    BY <1>3, <1>4
  <2> QED
    BY <1>2, <2>1
<1>5. ASSUME NEW m \in DOMAIN pruned, NEW n \in DOMAIN pruned, pruned[m].key = pruned[n].key, m # n
      PROVE  \E i, j \in DOMAIN entries :
                            /\ i # j /\ entries[i].key = entries[j].key
                            /\ entries[i].left > 0 /\ entries[j].left > 0
  <2>1. m + shift # n + shift
    BY <1>3, <1>5
  <2>2. /\ m + shift \in DOMAIN entries /\ pruned[m] = entries[m + shift] /\ pruned[m].left > 0
        /\ n + shift \in DOMAIN entries /\ pruned[n] = entries[n + shift] /\ pruned[n].left > 0
    BY <1>1, <1>2
  <2>3. /\ entries[m + shift].key = entries[n + shift].key
        /\ entries[m + shift].left > 0 /\ entries[n + shift].left > 0
    BY <1>5, <2>2
  <2> QED
    BY <2>1, <2>2, <2>3
<1> QED
  BY <1>1, <1>2, <1>4, <1>5 DEF pruned

\* A cache that is pruned first is as good for the invariant, when nothing else changes
\* but the lookups and the callers.
LEMMA PrunedCache ==
  ASSUME AvailabilityInv
  PROVE  LET pruned == Availability!Prune(cache)
         IN /\ pruned \in Seq(Entry) /\ Len(pruned) <= MaxEntries
            /\ \A m, n \in DOMAIN pruned : m <= n => pruned[m].left <= pruned[n].left
            /\ \A m, n \in DOMAIN pruned : pruned[m].key = pruned[n].key => m = n
            /\ \A n \in DOMAIN pruned :
                 /\ pruned[n] \in Entry /\ pruned[n].left > 0
                 /\ Changes(pruned[n].key)[pruned[n].available] + pruned[n].left
                      <= Availability!Long
                 /\ lookups[pruned[n].key].pc = "none"
<1> DEFINE pruned == Availability!Prune(cache)
<1>1. /\ cache \in Seq(Entry)
      /\ \A m, n \in DOMAIN cache : m <= n => cache[m].left <= cache[n].left
  BY DEF AvailabilityInv, AvailabilityTyped
<1>2. /\ pruned \in Seq(Entry) /\ Len(pruned) <= MaxEntries
      /\ \A m, n \in DOMAIN pruned : m <= n => pruned[m].left <= pruned[n].left
      /\ \A m, n \in DOMAIN pruned : pruned[m].key = pruned[n].key =>
           m = n \/ \E i, j \in DOMAIN cache :
                      /\ i # j /\ cache[i].key = cache[j].key
                      /\ cache[i].left > 0 /\ cache[j].left > 0
      /\ \A n \in DOMAIN pruned : pruned[n].left > 0
                                  /\ \E i \in DOMAIN cache : pruned[n] = cache[i]
  BY <1>1, PruneOK
<1> HIDE DEF pruned
<1>3. \A m, n \in DOMAIN cache : cache[m].key = cache[n].key => m = n
  BY DEF AvailabilityInv, EntriesOK
<1>4. ASSUME NEW n \in DOMAIN pruned
      PROVE  /\ pruned[n] \in Entry
             /\ Changes(pruned[n].key)[pruned[n].available] + pruned[n].left <= Availability!Long
             /\ lookups[pruned[n].key].pc = "none"
  <2>1. PICK i \in DOMAIN cache : pruned[n] = cache[i]
    BY <1>2
  <2>2. pruned[n] \in Entry /\ cache[i].left > 0 /\ cache[i].key \in Availability!Keys
    <3>1. cache[i] \in Entry
      BY <1>1
    <3>2. cache[i].left > 0
      BY <1>2, <2>1
    <3> QED
      BY <2>1, <3>1, <3>2 DEF Entry
  <2>3. Changes(cache[i].key)[cache[i].available] + cache[i].left <= Availability!Long
    BY <2>2 DEF AvailabilityInv, EntriesOK
  <2>4. lookups[cache[i].key].pc = "none"
    <3>1. cache[i].left # 0
      BY <2>2
    <3> QED
      BY <2>2, <3>1 DEF AvailabilityInv, LookupsOK
  <2> QED
    BY <2>1, <2>2, <2>3, <2>4
<1> QED
  BY <1>2, <1>3, <1>4 DEF pruned

\* Asking: the cache answers, or the caller waits for a lookup.
LEMMA AskOK ==
  ASSUME AvailabilityInv, NEW c \in Callers, NEW s \in Scenes, Availability!Ask(c, s)
  PROVE  AvailabilityInv'
<1> DEFINE key == <<instance, s>>
           pruned == Availability!Prune(cache)
           hits == {n \in DOMAIN pruned : pruned[n].key = key}
           hit == CHOOSE n \in hits : TRUE
<1>1. /\ callers[c].pc = "idle" /\ cache' = pruned /\ UNCHANGED <<instance, has>>
      /\ \/ /\ hits # {} /\ UNCHANGED lookups
            /\ callers' = [callers EXCEPT ![c] =
                             [pc |-> "answered", key |-> key, answer |-> pruned[hit].available]]
         \/ /\ hits = {}
            /\ callers' = [callers EXCEPT ![c] = [pc |-> "waiting", key |-> key, answer |-> "none"]]
            /\ lookups' = [lookups EXCEPT ![key] =
                 IF lookups[key].pc = "none" THEN [lookups[key] EXCEPT !.pc = "asked"]
                 ELSE lookups[key]]
  BY DEF Availability!Ask, Availability!NoCall
<1>2. /\ pruned \in Seq(Entry) /\ Len(pruned) <= MaxEntries
      /\ \A m, n \in DOMAIN pruned : m <= n => pruned[m].left <= pruned[n].left
      /\ \A m, n \in DOMAIN pruned : pruned[m].key = pruned[n].key => m = n
      /\ \A n \in DOMAIN pruned :
           /\ pruned[n] \in Entry /\ pruned[n].left > 0
           /\ Changes(pruned[n].key)[pruned[n].available] + pruned[n].left <= Availability!Long
           /\ lookups[pruned[n].key].pc = "none"
  BY PrunedCache
<1>3. key \in Availability!Keys /\ key[1] = instance /\ key[2] = s
  BY DEF AvailabilityInv, AvailabilityTyped, Availability!Keys
<1> HIDE DEF pruned, key
<1>4. CASE hits # {}
  <2>1. hit \in DOMAIN pruned /\ pruned[hit].key = key
    BY <1>4
  <2> HIDE DEF hit, hits
  <2>2. /\ UNCHANGED lookups
        /\ callers' = [callers EXCEPT ![c] =
                         [pc |-> "answered", key |-> key, answer |-> pruned[hit].available]]
    BY <1>1, <1>4
  <2>3. pruned[hit].available \in Availability!Answers /\ pruned[hit].left \in Nat
    BY <1>2, <2>1 DEF Entry
  <2>4. Changes(key)[pruned[hit].available] < Availability!Long
    <3>1. Changes(key)[pruned[hit].available] \in 0..Availability!Long
      BY <1>3, <2>3 DEF AvailabilityInv, AvailabilityTyped, Changes, Availability!Keys
    <3> QED
      BY <1>2, <2>1, <2>3, <3>1, AvailabilityConstants
  <2>5. AvailabilityTyped'
    BY <1>1, <1>2, <1>3, <2>2, <2>3 DEF AvailabilityInv, AvailabilityTyped, Changes
  <2>6. CallersOK'
    BY <1>1, <1>3, <2>2, <2>3, <2>4
    DEF AvailabilityInv, AvailabilityTyped, CallersOK, Changes, Availability!Answers
  <2>7. LookupsOK'
    BY <1>1, <1>2, <2>2 DEF AvailabilityInv, LookupsOK, Changes
  <2>8. EntriesOK'
    BY <1>1, <1>2 DEF EntriesOK, Changes
  <2> QED
    BY <2>5, <2>6, <2>7, <2>8 DEF AvailabilityInv
<1>5. CASE hits = {}
  <2>1. \A n \in DOMAIN pruned : pruned[n].key # key
    BY <1>5
  <2>2. /\ callers' = [callers EXCEPT ![c] = [pc |-> "waiting", key |-> key, answer |-> "none"]]
        /\ lookups' = [lookups EXCEPT ![key] =
             IF lookups[key].pc = "none" THEN [lookups[key] EXCEPT !.pc = "asked"]
             ELSE lookups[key]]
    BY <1>1, <1>5
  <2> HIDE DEF hits, hit
  <2>3. lookups \in [Availability!Keys -> [pc : {"none", "asked", "answered"},
                                           found : Availability!Answers, age : 0..MaxLookup]]
    BY DEF AvailabilityInv, AvailabilityTyped
  <2>4. /\ lookups' \in [Availability!Keys -> [pc : {"none", "asked", "answered"},
                                               found : Availability!Answers, age : 0..MaxLookup]]
        /\ lookups'[key].pc # "none"
        /\ \A k \in Availability!Keys :
             \/ lookups'[k] = lookups[k]
             \/ k = key /\ lookups[k].pc = "none" /\ lookups'[k].pc = "asked"
    <3> DEFINE Lookup == [pc : {"none", "asked", "answered"},
                          found : Availability!Answers, age : 0..MaxLookup]
               asked == [lookups[key] EXCEPT !.pc = "asked"]
    <3>1. lookups[key] \in Lookup
      BY <1>3, <2>3
    <3>2. asked \in Lookup /\ asked.pc = "asked"
      BY <3>1
    <3>3. lookups' = [lookups EXCEPT ![key] = IF lookups[key].pc = "none" THEN asked ELSE @]
      BY <2>2
    <3>4. lookups \in [Availability!Keys -> Lookup]
      BY <2>3
    <3> HIDE DEF asked, Lookup
    <3>5. CASE lookups[key].pc = "none"
      <4>1. /\ lookups' \in [Availability!Keys -> Lookup] /\ lookups'[key] = asked
            /\ \A k \in Availability!Keys : k # key => lookups'[k] = lookups[k]
        BY <1>3, <3>2, <3>3, <3>4, <3>5
      <4> QED
        BY <3>2, <3>5, <4>1 DEF Lookup
    <3>6. CASE lookups[key].pc # "none"
      <4>1. lookups' = lookups
        BY <1>3, <3>3, <3>4, <3>6
      <4> QED
        BY <2>3, <3>6, <4>1
    <3> QED
      BY <3>5, <3>6
  <2>5. AvailabilityTyped'
    BY <1>1, <1>2, <1>3, <2>2, <2>4 DEF AvailabilityInv, AvailabilityTyped, Changes
  <2>6. CallersOK'
    BY <1>1, <1>3, <2>2, <2>4
    DEF AvailabilityInv, AvailabilityTyped, CallersOK, Changes, Availability!Answers
  <2>7. LookupsOK'
    BY <1>1, <1>2, <2>1, <2>4 DEF AvailabilityInv, LookupsOK, Changes
  <2>8. EntriesOK'
    BY <1>1, <1>2 DEF EntriesOK, Changes
  <2> QED
    BY <2>5, <2>6, <2>7, <2>8 DEF AvailabilityInv
<1> QED
  BY <1>4, <1>5

\* The Stash that is configured changes: its cache, its lookups and its callers stay.
LEMMA SwitchOK ==
  ASSUME AvailabilityInv, NEW i \in Instances, Availability!Switch(i)
  PROVE  AvailabilityInv'
BY DEF Availability!Switch, AvailabilityInv, AvailabilityTyped, CallersOK, LookupsOK, EntriesOK,
       Changes

\* A status is shown.
LEMMA ShowOK ==
  ASSUME AvailabilityInv, NEW c \in Callers, Availability!Show(c)
  PROVE  AvailabilityInv'
<1>1. /\ callers' = [callers EXCEPT ![c] = [pc |-> "idle", key |-> <<>>, answer |-> "none"]]
      /\ UNCHANGED <<instance, has, cache, lookups>>
  BY DEF Availability!Show, Availability!NoCall
<1>2. AvailabilityTyped'
  BY <1>1 DEF AvailabilityInv, AvailabilityTyped, Changes
<1>3. CallersOK'
  BY <1>1 DEF AvailabilityInv, AvailabilityTyped, CallersOK, Changes, Availability!Answers
<1>4. LookupsOK' /\ EntriesOK'
  BY <1>1 DEF AvailabilityInv, LookupsOK, EntriesOK, Changes
<1> QED
  BY <1>2, <1>3, <1>4 DEF AvailabilityInv

\* Since when a Stash has had, or lacked, a scene is a number of ticks.
LEMMA ChangesTyped ==
  ASSUME AvailabilityTyped, NEW k \in Availability!Keys, NEW a \in Availability!Answers
  PROVE  Changes(k)[a] \in 0..Availability!Long /\ Changes(k)[a] \in Nat
<1>1. k[1] \in Instances /\ k[2] \in Scenes
  BY DEF Availability!Keys
<1>2. has \in [Instances -> [Scenes -> [Availability!Answers -> 0..Availability!Long]]]
  BY DEF AvailabilityTyped
<1> QED
  BY <1>1, <1>2, AvailabilityConstants DEF Changes

\* What a Stash answers is so.
LEMMA NowIsSo ==
  ASSUME AvailabilityTyped, NEW k \in Availability!Keys
  PROVE  Availability!Now(k) \in Availability!Answers /\ Changes(k)[Availability!Now(k)] = 0
<1>1. \E a \in Availability!Answers : has[k[1]][k[2]][a] = 0
  BY DEF AvailabilityTyped, Changes
<1> QED
  BY <1>1 DEF Availability!Now, Changes

\* Stash answers a lookup.
LEMMA StashAnswersOK ==
  ASSUME AvailabilityInv, NEW key \in Availability!Keys, Availability!StashAnswers(key)
  PROVE  AvailabilityInv'
<1> DEFINE now == Availability!Now(key)
           Lookup == [pc : {"none", "asked", "answered"},
                      found : Availability!Answers, age : 0..MaxLookup]
           next == [lookups[key] EXCEPT !.pc = "answered", !.found = now]
<1>1. /\ lookups[key].pc = "asked" /\ lookups' = [lookups EXCEPT ![key] = next]
      /\ UNCHANGED <<instance, has, cache, callers>>
  BY DEF Availability!StashAnswers
<1>2. now \in Availability!Answers /\ Changes(key)[now] = 0
  BY NowIsSo DEF AvailabilityInv
<1>3. lookups \in [Availability!Keys -> Lookup]
  BY DEF AvailabilityInv, AvailabilityTyped
<1> HIDE DEF now
<1>4. next \in Lookup /\ next.pc = "answered" /\ next.found = now /\ next.age \in Nat
  <2>1. lookups[key] \in Lookup
    BY <1>3
  <2>2. next \in Lookup /\ next.pc = "answered" /\ next.found = now /\ next.age = lookups[key].age
    BY <1>2, <2>1
  <2>3. lookups[key].age \in 0..MaxLookup
    BY <2>1
  <2> QED
    BY <2>2, <2>3
<1> HIDE DEF next
<1>5. /\ lookups' \in [Availability!Keys -> Lookup] /\ lookups'[key] = next
      /\ \A k \in Availability!Keys : k # key => lookups'[k] = lookups[k]
  BY <1>1, <1>3, <1>4
<1>6. AvailabilityTyped'
  BY <1>1, <1>5 DEF AvailabilityInv, AvailabilityTyped, Changes
<1>7. CallersOK'
  BY <1>1, <1>4, <1>5 DEF AvailabilityInv, CallersOK, Changes
<1>8. LookupsOK'
  <2>1. ASSUME NEW k \in Availability!Keys, lookups'[k].pc = "answered"
        PROVE  Changes(k)[lookups'[k].found] <= lookups'[k].age + 1
    BY <1>2, <1>4, <1>5, <2>1 DEF AvailabilityInv, LookupsOK
  <2>2. ASSUME NEW k \in Availability!Keys, lookups'[k].pc # "none"
        PROVE  \A n \in DOMAIN cache : cache[n].key = k => cache[n].left = 0
    BY <1>1, <1>4, <1>5, <2>2 DEF AvailabilityInv, LookupsOK
  <2> QED
    BY <1>1, <2>1, <2>2 DEF LookupsOK, Changes
<1>9. EntriesOK'
  BY <1>1 DEF AvailabilityInv, EntriesOK, Changes
<1> QED
  BY <1>6, <1>7, <1>8, <1>9 DEF AvailabilityInv

\* The callers that wait for a lookup are told its answer, if it is recent.
LEMMA DeliverOK ==
  ASSUME AvailabilityInv, NEW key \in Availability!Keys,
         NEW answer \in Availability!Answers \cup {"failed"}, Availability!Deliver(key, answer),
         lookups' = [lookups EXCEPT ![key] = Availability!NoLookup], UNCHANGED has,
         answer \in Availability!Answers => Changes(key)[answer] < Availability!Long
  PROVE  /\ callers' \in [Callers -> [pc : {"idle", "waiting", "answered"},
                                      key : Availability!Keys \cup {<<>>},
                                      answer : Availability!Answers \cup {"none", "failed"}]]
         /\ CallersOK'
<1>1. callers \in [Callers -> [pc : {"idle", "waiting", "answered"},
                               key : Availability!Keys \cup {<<>>},
                               answer : Availability!Answers \cup {"none", "failed"}]]
  BY DEF AvailabilityInv, AvailabilityTyped
<1>2. \A k \in Availability!Keys : k # key => lookups'[k] = lookups[k]
  BY DEF AvailabilityInv, AvailabilityTyped
<1>3. ASSUME NEW c \in Callers
      PROVE  \/ callers'[c] = [pc |-> "answered", key |-> key, answer |-> answer]
             \/ /\ callers'[c] = callers[c]
                /\ ~ (callers[c].pc = "waiting" /\ callers[c].key = key)
  BY DEF Availability!Deliver
<1>4. callers' \in [Callers -> [pc : {"idle", "waiting", "answered"},
                                key : Availability!Keys \cup {<<>>},
                                answer : Availability!Answers \cup {"none", "failed"}]]
  <2>1. \A c \in Callers : callers'[c] \in [pc : {"idle", "waiting", "answered"},
                                key : Availability!Keys \cup {<<>>},
                                answer : Availability!Answers \cup {"none", "failed"}]
    BY <1>1, <1>3
  <2>2. \E f : callers' = [c \in Callers |-> f[c]]
    BY DEF Availability!Deliver
  <2> QED
    BY <2>1, <2>2
<1>5. CallersOK'
  <2> SUFFICES ASSUME NEW c \in Callers
               PROVE
      /\ callers'[c].pc = "idle" => callers'[c].answer = "none"
      /\ callers'[c].pc = "waiting" =>
           /\ callers'[c].key \in Availability!Keys /\ callers'[c].answer = "none"
           /\ lookups'[callers'[c].key].pc # "none"
      /\ callers'[c].answer \in Availability!Answers =>
           /\ callers'[c].pc = "answered" /\ callers'[c].key \in Availability!Keys
           /\ Changes(callers'[c].key)[callers'[c].answer] < Availability!Long
    BY DEF CallersOK, Changes
  <2>1. CASE callers'[c] = [pc |-> "answered", key |-> key, answer |-> answer]
    BY <2>1
  <2>2. CASE /\ callers'[c] = callers[c]
             /\ ~ (callers[c].pc = "waiting" /\ callers[c].key = key)
    BY <1>2, <2>2 DEF AvailabilityInv, CallersOK
  <2> QED
    BY <1>3, <2>1, <2>2
<1> QED
  BY <1>4, <1>5

\* A lookup fails: nothing is cached.
LEMMA LookupFailsOK ==
  ASSUME AvailabilityInv, NEW key \in Availability!Keys, Availability!LookupFails(key)
  PROVE  AvailabilityInv'
<1>1. /\ lookups' = [lookups EXCEPT ![key] = Availability!NoLookup]
      /\ Availability!Deliver(key, "failed") /\ UNCHANGED <<instance, has, cache>>
  BY DEF Availability!LookupFails
<1>2. /\ callers' \in [Callers -> [pc : {"idle", "waiting", "answered"},
                                   key : Availability!Keys \cup {<<>>},
                                   answer : Availability!Answers \cup {"none", "failed"}]]
      /\ CallersOK'
  <2>1. "failed" \notin Availability!Answers
    BY DEF Availability!Answers
  <2> QED
    BY <1>1, <2>1, DeliverOK
<1>3. Availability!NoLookup \in [pc : {"none", "asked", "answered"},
                                 found : Availability!Answers, age : 0..MaxLookup]
      /\ Availability!NoLookup.pc = "none"
  BY AvailabilityConstants DEF Availability!NoLookup, Availability!Answers
<1>4. /\ lookups' \in [Availability!Keys -> [pc : {"none", "asked", "answered"},
                                             found : Availability!Answers, age : 0..MaxLookup]]
      /\ \A k \in Availability!Keys : lookups'[k].pc = "none" \/ lookups'[k] = lookups[k]
  BY <1>1, <1>3 DEF AvailabilityInv, AvailabilityTyped
<1>5. AvailabilityTyped'
  BY <1>1, <1>2, <1>4 DEF AvailabilityInv, AvailabilityTyped, Changes
<1>6. LookupsOK'
  BY <1>1, <1>4 DEF AvailabilityInv, LookupsOK, Changes
<1>7. EntriesOK'
  BY <1>1 DEF AvailabilityInv, EntriesOK, Changes
<1> QED
  BY <1>2, <1>5, <1>6, <1>7 DEF AvailabilityInv

\* A lookup returns: its answer is cached and told to the callers that wait for it.
LEMMA LookupReturnsOK ==
  ASSUME AvailabilityInv, NEW key \in Availability!Keys, Availability!LookupReturns(key)
  PROVE  AvailabilityInv'
<1> DEFINE found == lookups[key].found
           entry == [key |-> key, available |-> found, left |-> TTL]
           appended == Append(cache, entry)
           pruned == Availability!Prune(appended)
<1>1. /\ lookups[key].pc = "answered" /\ cache' = pruned
      /\ lookups' = [lookups EXCEPT ![key] = Availability!NoLookup]
      /\ Availability!Deliver(key, found) /\ UNCHANGED <<instance, has>>
  BY DEF Availability!LookupReturns
<1>2. /\ lookups \in [Availability!Keys -> [pc : {"none", "asked", "answered"},
                                            found : Availability!Answers, age : 0..MaxLookup]]
      /\ cache \in Seq(Entry) /\ Len(cache) \in Nat /\ DOMAIN cache = 1..Len(cache)
      /\ \A m, n \in DOMAIN cache : m <= n => cache[m].left <= cache[n].left
  BY DEF AvailabilityInv, AvailabilityTyped
<1>3. found \in Availability!Answers /\ lookups[key].age \in 0..MaxLookup
  BY <1>2
<1>4. Changes(key)[found] <= MaxLookup + 1 /\ Changes(key)[found] \in Nat
  <2>1. Changes(key)[found] <= lookups[key].age + 1
    BY <1>1 DEF AvailabilityInv, LookupsOK
  <2>2. Changes(key)[found] \in Nat
    BY <1>3, ChangesTyped DEF AvailabilityInv
  <2> QED
    BY <1>3, <2>1, <2>2, AvailabilityConstants
<1>5. \A n \in DOMAIN cache : cache[n].key = key => cache[n].left = 0
  BY <1>1 DEF AvailabilityInv, LookupsOK
<1> HIDE DEF found
<1>6. entry \in Entry /\ entry.key = key /\ entry.available = found /\ entry.left = TTL
  BY <1>3, AvailabilityConstants DEF Entry
<1> HIDE DEF entry
<1>7. /\ appended \in Seq(Entry) /\ DOMAIN appended = 1..(Len(cache) + 1)
      /\ appended[Len(cache) + 1] = entry
      /\ \A n \in 1..Len(cache) : appended[n] = cache[n]
  BY <1>2, <1>6, AppendProperties
<1> HIDE DEF appended
<1>8. ASSUME NEW n \in DOMAIN appended
      PROVE  \/ n \in DOMAIN cache /\ appended[n] = cache[n] /\ n # Len(cache) + 1
             \/ n = Len(cache) + 1 /\ appended[n] = entry
  BY <1>2, <1>7
<1>9. \A n \in DOMAIN cache : cache[n] \in Entry /\ cache[n].left \in 0..TTL
  <2>1. \A n \in DOMAIN cache : cache[n] \in Entry
    BY <1>2
  <2> QED
    BY <2>1 DEF Entry
<1>10. ASSUME NEW m \in DOMAIN appended, NEW n \in DOMAIN appended, m <= n
       PROVE  appended[m].left <= appended[n].left
  <2>1. CASE n = Len(cache) + 1
    <3>1. appended[m].left \in 0..TTL /\ appended[n].left = TTL
      BY <1>6, <1>8, <1>9, <2>1, AvailabilityConstants
    <3> QED
      BY <3>1, AvailabilityConstants
  <2>2. CASE n # Len(cache) + 1
    <3>1. m \in DOMAIN cache /\ n \in DOMAIN cache
      BY <1>2, <1>7, <1>10, <2>2
    <3> QED
      BY <1>2, <1>7, <1>10, <3>1
  <2> QED
    BY <2>1, <2>2
<1>11. ASSUME NEW i \in DOMAIN appended, NEW j \in DOMAIN appended,
              i # j, appended[i].key = appended[j].key,
              appended[i].left > 0, appended[j].left > 0
       PROVE  FALSE
  <2>1. \A m, n \in DOMAIN cache : cache[m].key = cache[n].key => m = n
    BY DEF AvailabilityInv, EntriesOK
  <2>2. \A n \in DOMAIN cache : cache[n].key = key => ~ (cache[n].left > 0)
    BY <1>5
  <2>3. CASE i \in DOMAIN cache /\ appended[i] = cache[i]
    <3>1. CASE j \in DOMAIN cache /\ appended[j] = cache[j]
      BY <1>11, <2>1, <2>3, <3>1
    <3>2. CASE appended[j] = entry
      BY <1>6, <1>11, <2>2, <2>3, <3>2
    <3> QED
      BY <1>8, <3>1, <3>2
  <2>4. CASE i = Len(cache) + 1 /\ appended[i] = entry
    <3>1. j \in DOMAIN cache /\ appended[j] = cache[j]
      BY <1>8, <1>11, <2>4
    <3> QED
      BY <1>6, <1>11, <2>2, <2>4, <3>1
  <2> QED
    BY <1>8, <2>3, <2>4
<1>12. /\ pruned \in Seq(Entry) /\ Len(pruned) <= MaxEntries
       /\ \A m, n \in DOMAIN pruned : m <= n => pruned[m].left <= pruned[n].left
       /\ \A m, n \in DOMAIN pruned : pruned[m].key = pruned[n].key =>
            m = n \/ \E i, j \in DOMAIN appended :
                       /\ i # j /\ appended[i].key = appended[j].key
                       /\ appended[i].left > 0 /\ appended[j].left > 0
       /\ \A n \in DOMAIN pruned : pruned[n].left > 0
                                   /\ \E i \in DOMAIN appended : pruned[n] = appended[i]
  BY <1>7, <1>10, PruneOK
<1> HIDE DEF pruned
<1>13. \A m, n \in DOMAIN pruned : pruned[m].key = pruned[n].key => m = n
  BY <1>11, <1>12
<1>14. ASSUME NEW n \in DOMAIN pruned
       PROVE  /\ Changes(pruned[n].key)[pruned[n].available] + pruned[n].left <= Availability!Long
              /\ pruned[n].key # key => lookups[pruned[n].key].pc = "none"
              /\ pruned[n].key \in Availability!Keys
  <2>1. PICK i \in DOMAIN appended : pruned[n] = appended[i] /\ appended[i].left > 0
    BY <1>12
  <2>2. CASE i = Len(cache) + 1 /\ appended[i] = entry
    <3>1. Changes(key)[found] + TTL <= Availability!Long
      BY <1>4, AvailabilityConstants
    <3> QED
      BY <1>6, <2>1, <2>2, <3>1
  <2>3. CASE i \in DOMAIN cache /\ appended[i] = cache[i]
    <3>1. cache[i].left > 0 /\ cache[i].left # 0
      BY <1>9, <2>1, <2>3
    <3>2. cache[i].key \in Availability!Keys
      BY <1>9, <2>3 DEF Entry
    <3>3. Changes(cache[i].key)[cache[i].available] + cache[i].left <= Availability!Long
      BY <2>3, <3>1 DEF AvailabilityInv, EntriesOK
    <3>4. lookups[cache[i].key].pc = "none"
      BY <2>3, <3>1, <3>2 DEF AvailabilityInv, LookupsOK
    <3> QED
      BY <2>1, <2>3, <3>2, <3>3, <3>4
  <2> QED
    BY <1>8, <2>1, <2>2, <2>3
<1>15. /\ callers' \in [Callers -> [pc : {"idle", "waiting", "answered"},
                                    key : Availability!Keys \cup {<<>>},
                                    answer : Availability!Answers \cup {"none", "failed"}]]
       /\ CallersOK'
  <2>1. Changes(key)[found] < Availability!Long
    BY <1>4, AvailabilityConstants
  <2> QED
    BY <1>1, <1>3, <2>1, DeliverOK
<1>16. Availability!NoLookup \in [pc : {"none", "asked", "answered"},
                                  found : Availability!Answers, age : 0..MaxLookup]
       /\ Availability!NoLookup.pc = "none"
  BY AvailabilityConstants DEF Availability!NoLookup, Availability!Answers
<1>17. /\ lookups' \in [Availability!Keys -> [pc : {"none", "asked", "answered"},
                                              found : Availability!Answers, age : 0..MaxLookup]]
       /\ lookups'[key].pc = "none"
       /\ \A k \in Availability!Keys : k # key => lookups'[k] = lookups[k]
  BY <1>1, <1>2, <1>16
<1>18. AvailabilityTyped'
  BY <1>1, <1>12, <1>15, <1>17 DEF AvailabilityInv, AvailabilityTyped, Changes
<1>19. LookupsOK'
  <2>1. ASSUME NEW k \in Availability!Keys, lookups'[k].pc = "answered"
        PROVE  Changes(k)[lookups'[k].found] <= lookups'[k].age + 1
    BY <1>17, <2>1 DEF AvailabilityInv, LookupsOK
  <2>2. ASSUME NEW k \in Availability!Keys, lookups'[k].pc # "none"
        PROVE  \A n \in DOMAIN pruned : pruned[n].key = k => pruned[n].left = 0
    BY <1>14, <1>17, <2>2
  <2> QED
    BY <1>1, <2>1, <2>2 DEF LookupsOK, Changes
<1>20. EntriesOK'
  BY <1>1, <1>13, <1>14 DEF EntriesOK, Changes
<1> QED
  BY <1>15, <1>18, <1>19, <1>20 DEF AvailabilityInv

\* A copy of a scene comes or goes: what was so until then was so a tick ago.
LEMMA CopyChangesOK ==
  ASSUME AvailabilityInv, NEW i \in Instances, NEW s \in Scenes, Availability!CopyChanges(i, s)
  PROVE  AvailabilityInv'
<1> DEFINE key == <<i, s>>
           old == Availability!Now(key)
           new == Availability!Opposite(old)
<1>1. /\ has' = [has EXCEPT ![i][s][new] = 0, ![i][s][Availability!Opposite(new)] = 1]
      /\ UNCHANGED <<instance, cache, lookups, callers>>
  BY DEF Availability!CopyChanges
<1>2. key \in Availability!Keys /\ key[1] = i /\ key[2] = s
  BY DEF Availability!Keys
<1>3. old \in Availability!Answers /\ Changes(key)[old] = 0
  BY <1>2, NowIsSo DEF AvailabilityInv
<1> HIDE DEF old
<1>4. new \in Availability!Answers /\ new # old /\ Availability!Opposite(new) = old
      /\ \A a \in Availability!Answers : a = old \/ a = new
  BY <1>3 DEF Availability!Opposite, Availability!Answers
<1> HIDE DEF new
<1>5. has' = [has EXCEPT ![i][s][new] = 0, ![i][s][old] = 1]
  BY <1>1, <1>4
<1>6. has \in [Instances -> [Scenes -> [Availability!Answers -> 0..Availability!Long]]]
  BY DEF AvailabilityInv, AvailabilityTyped
<1>7. 0 \in 0..Availability!Long /\ 1 \in 0..Availability!Long
  BY AvailabilityConstants
<1>8. has' \in [Instances -> [Scenes -> [Availability!Answers -> 0..Availability!Long]]]
  BY <1>3, <1>4, <1>5, <1>6, <1>7
<1>9. /\ has'[i][s][new] = 0 /\ has'[i][s][old] = 1
      /\ \A j \in Instances, t \in Scenes : <<j, t>> # <<i, s>> => has'[j][t] = has[j][t]
  BY <1>3, <1>4, <1>5, <1>6
<1>10. \A k \in Availability!Keys, a \in Availability!Answers :
         \/ Changes(k)'[a] = Changes(k)[a]
         \/ Changes(k)'[a] = 0
         \/ k = key /\ a = old /\ Changes(k)[a] = 0 /\ Changes(k)'[a] = 1
  <2> SUFFICES ASSUME NEW k \in Availability!Keys, NEW a \in Availability!Answers
               PROVE  \/ has'[k[1]][k[2]][a] = Changes(k)[a]
                      \/ has'[k[1]][k[2]][a] = 0
                      \/ k = key /\ a = old /\ Changes(k)[a] = 0 /\ has'[k[1]][k[2]][a] = 1
    BY DEF Changes
  <2>1. k = <<k[1], k[2]>> /\ k[1] \in Instances /\ k[2] \in Scenes
    BY DEF Availability!Keys
  <2>2. CASE k = key
    BY <1>2, <1>3, <1>4, <1>9, <2>2
  <2>3. CASE k # key
    BY <1>9, <2>1, <2>3 DEF Changes
  <2> QED
    BY <2>2, <2>3
<1>11. AvailabilityTyped'
  <2>1. ASSUME NEW k \in Availability!Keys
        PROVE  \E a \in Availability!Answers : has'[k[1]][k[2]][a] = 0
    <3>1. CASE k = key
      BY <1>2, <1>4, <1>9, <3>1
    <3>2. CASE k # key
      <4>1. k = <<k[1], k[2]>> /\ k[1] \in Instances /\ k[2] \in Scenes
        BY DEF Availability!Keys
      <4>2. has'[k[1]][k[2]] = has[k[1]][k[2]]
        BY <1>9, <3>2, <4>1
      <4> QED
        BY <4>2 DEF AvailabilityInv, AvailabilityTyped, Changes
    <3> QED
      BY <3>1, <3>2
  <2> QED
    BY <1>1, <1>8, <2>1 DEF AvailabilityInv, AvailabilityTyped, Changes
<1>12. CallersOK'
  <2> SUFFICES ASSUME NEW c \in Callers
               PROVE
      /\ callers[c].pc = "idle" => callers[c].answer = "none"
      /\ callers[c].pc = "waiting" =>
           /\ callers[c].key \in Availability!Keys /\ callers[c].answer = "none"
           /\ lookups[callers[c].key].pc # "none"
      /\ callers[c].answer \in Availability!Answers =>
           /\ callers[c].pc = "answered" /\ callers[c].key \in Availability!Keys
           /\ has'[callers[c].key[1]][callers[c].key[2]][callers[c].answer] < Availability!Long
    BY <1>1 DEF CallersOK, Changes
  <2>1. ASSUME callers[c].answer \in Availability!Answers, callers[c].key \in Availability!Keys,
               Changes(callers[c].key)[callers[c].answer] < Availability!Long
        PROVE  has'[callers[c].key[1]][callers[c].key[2]][callers[c].answer] < Availability!Long
    BY <1>10, <2>1, AvailabilityConstants DEF Changes
  <2> QED
    BY <2>1 DEF AvailabilityInv, CallersOK
<1>13. LookupsOK'
  <2>1. ASSUME NEW k \in Availability!Keys, lookups[k].pc = "answered"
        PROVE  has'[k[1]][k[2]][lookups[k].found] <= lookups[k].age + 1
    <3>1. lookups[k] \in [pc : {"none", "asked", "answered"},
                           found : Availability!Answers, age : 0..MaxLookup]
      BY DEF AvailabilityInv, AvailabilityTyped
    <3>2. lookups[k].found \in Availability!Answers /\ lookups[k].age \in 0..MaxLookup
      BY <3>1
    <3>3. Changes(k)[lookups[k].found] <= lookups[k].age + 1
      BY <2>1 DEF AvailabilityInv, LookupsOK
    <3> QED
      BY <1>10, <3>2, <3>3 DEF Changes
  <2> QED
    BY <1>1, <2>1 DEF AvailabilityInv, LookupsOK, Changes
<1>14. EntriesOK'
  <2>1. ASSUME NEW n \in DOMAIN cache, cache[n].left > 0
        PROVE  has'[cache[n].key[1]][cache[n].key[2]][cache[n].available] + cache[n].left
                 <= Availability!Long
    <3>1. cache[n] \in Entry
      BY DEF AvailabilityInv, AvailabilityTyped
    <3>2. /\ cache[n].key \in Availability!Keys /\ cache[n].available \in Availability!Answers
          /\ cache[n].left \in 0..TTL
      BY <3>1 DEF Entry
    <3>3. Changes(cache[n].key)[cache[n].available] + cache[n].left <= Availability!Long
      BY <2>1 DEF AvailabilityInv, EntriesOK
    <3> QED
      BY <1>10, <3>2, <3>3, AvailabilityConstants DEF Changes
  <2> QED
    BY <1>1, <2>1 DEF AvailabilityInv, EntriesOK, Changes
<1> QED
  BY <1>11, <1>12, <1>13, <1>14 DEF AvailabilityInv

\* Time passes for the copies, the entries and the lookups alike.
LEMMA TickOK ==
  ASSUME AvailabilityInv, Availability!Tick PROVE AvailabilityInv'
<1> USE AvailabilityConstants
<1>1. /\ \A c \in Callers : callers[c].pc # "answered"
      /\ \A k \in Availability!Keys : lookups[k].pc # "none" => lookups[k].age < MaxLookup
      /\ has' = [i \in Instances |-> [s \in Scenes |-> [a \in Availability!Answers |->
           IF has[i][s][a] = 0 THEN 0 ELSE Availability!Older(has[i][s][a])]]]
      /\ cache' = [n \in DOMAIN cache |->
           [cache[n] EXCEPT !.left = IF cache[n].left = 0 THEN 0 ELSE cache[n].left - 1]]
      /\ lookups' = [k \in Availability!Keys |->
           IF lookups[k].pc = "none" THEN Availability!NoLookup
           ELSE [lookups[k] EXCEPT !.age = lookups[k].age + 1]]
      /\ UNCHANGED <<instance, callers>>
  BY DEF Availability!Tick
<1>2. ASSUME NEW k \in Availability!Keys, NEW a \in Availability!Answers
      PROVE  /\ has'[k[1]][k[2]][a] \in 0..Availability!Long
             /\ has'[k[1]][k[2]][a] <= Changes(k)[a] + 1
             /\ Changes(k)[a] = 0 => has'[k[1]][k[2]][a] = 0
  <2>1. k[1] \in Instances /\ k[2] \in Scenes
    BY DEF Availability!Keys
  <2>2. Changes(k)[a] \in 0..Availability!Long
    BY ChangesTyped DEF AvailabilityInv
  <2>3. has'[k[1]][k[2]][a] = IF Changes(k)[a] = 0 THEN 0 ELSE Availability!Older(Changes(k)[a])
    BY <1>1, <2>1 DEF Changes
  <2> QED
    BY <2>2, <2>3 DEF Availability!Older
<1>3. has' \in [Instances -> [Scenes -> [Availability!Answers -> 0..Availability!Long]]]
  <2>1. ASSUME NEW i \in Instances, NEW s \in Scenes, NEW a \in Availability!Answers
        PROVE  (IF has[i][s][a] = 0 THEN 0 ELSE Availability!Older(has[i][s][a]))
                 \in 0..Availability!Long
    <3>1. has[i][s][a] \in 0..Availability!Long
      BY DEF AvailabilityInv, AvailabilityTyped
    <3> QED
      BY <3>1 DEF Availability!Older
  <2> QED
    BY <1>1, <2>1
<1>4. ASSUME NEW n \in DOMAIN cache
      PROVE  /\ cache'[n] \in Entry /\ cache'[n].key = cache[n].key
             /\ cache'[n].available = cache[n].available /\ cache[n] \in Entry
             /\ cache[n].left \in 0..TTL
             /\ cache'[n].left = IF cache[n].left = 0 THEN 0 ELSE cache[n].left - 1
  <2>1. cache[n] \in Entry
    BY DEF AvailabilityInv, AvailabilityTyped
  <2>2. cache[n].left \in 0..TTL
    BY <2>1 DEF Entry
  <2> DEFINE left == IF cache[n].left = 0 THEN 0 ELSE cache[n].left - 1
  <2>3. left \in 0..TTL
    BY <2>2
  <2>4. cache'[n] = [cache[n] EXCEPT !.left = left]
    BY <1>1
  <2> HIDE DEF left
  <2>5. /\ cache'[n] \in Entry /\ cache'[n].key = cache[n].key
        /\ cache'[n].available = cache[n].available /\ cache'[n].left = left
    BY <2>1, <2>3, <2>4 DEF Entry
  <2> QED
    BY <2>1, <2>2, <2>5 DEF left
<1>5. DOMAIN cache' = DOMAIN cache /\ cache' \in Seq(Entry) /\ Len(cache') = Len(cache)
  <2>1. cache \in Seq(Entry) /\ Len(cache) \in Nat /\ DOMAIN cache = 1..Len(cache)
    BY DEF AvailabilityInv, AvailabilityTyped
  <2>2. DOMAIN cache' = DOMAIN cache
    BY <1>1
  <2>3. cache' \in [1..Len(cache) -> Entry]
    BY <1>1, <1>4, <2>1, <2>2
  <2> QED
    BY <2>1, <2>3
<1>6. ASSUME NEW m \in DOMAIN cache, NEW n \in DOMAIN cache, m <= n
      PROVE  cache'[m].left <= cache'[n].left
  <2>1. cache[m].left <= cache[n].left
    BY <1>6 DEF AvailabilityInv, AvailabilityTyped
  <2> QED
    BY <1>4, <2>1
<1>7. ASSUME NEW k \in Availability!Keys
      PROVE  /\ lookups[k] \in [pc : {"none", "asked", "answered"},
                                 found : Availability!Answers, age : 0..MaxLookup]
             /\ lookups'[k] \in [pc : {"none", "asked", "answered"},
                                  found : Availability!Answers, age : 0..MaxLookup]
             /\ lookups'[k].pc = lookups[k].pc
             /\ lookups[k].pc # "none" => /\ lookups'[k].age = lookups[k].age + 1
                                           /\ lookups'[k].found = lookups[k].found
  <2>1. lookups[k] \in [pc : {"none", "asked", "answered"},
                        found : Availability!Answers, age : 0..MaxLookup]
    BY DEF AvailabilityInv, AvailabilityTyped
  <2>2. CASE lookups[k].pc = "none"
    <3>1. lookups'[k] = Availability!NoLookup
      BY <1>1, <2>2
    <3> QED
      BY <2>1, <2>2, <3>1 DEF Availability!NoLookup, Availability!Answers
  <2>3. CASE lookups[k].pc # "none"
    <3>1. lookups'[k] = [lookups[k] EXCEPT !.age = lookups[k].age + 1]
      BY <1>1, <2>3
    <3>2. lookups[k].age + 1 \in 0..MaxLookup
      BY <1>1, <2>1, <2>3
    <3> QED
      BY <2>1, <3>1, <3>2
  <2> QED
    BY <2>2, <2>3
<1>8. AvailabilityTyped'
  <2>1. lookups' \in [Availability!Keys -> [pc : {"none", "asked", "answered"},
                                            found : Availability!Answers, age : 0..MaxLookup]]
    BY <1>1, <1>7
  <2>2. ASSUME NEW k \in Availability!Keys
        PROVE  \E a \in Availability!Answers : has'[k[1]][k[2]][a] = 0
    BY <1>2 DEF AvailabilityInv, AvailabilityTyped
  <2> QED
    BY <1>1, <1>3, <1>5, <1>6, <2>1, <2>2 DEF AvailabilityInv, AvailabilityTyped, Changes
<1>9. CallersOK'
  <2>1. ASSUME NEW c \in Callers PROVE callers[c].answer \notin Availability!Answers
    BY <1>1 DEF AvailabilityInv, CallersOK
  <2>2. ASSUME NEW c \in Callers, callers[c].pc = "waiting"
        PROVE  /\ callers[c].key \in Availability!Keys /\ callers[c].answer = "none"
               /\ lookups'[callers[c].key].pc # "none"
    BY <1>7, <2>2 DEF AvailabilityInv, CallersOK
  <2>3. \A c \in Callers : callers[c].pc = "idle" => callers[c].answer = "none"
    BY DEF AvailabilityInv, CallersOK
  <2> QED
    BY <1>1, <2>1, <2>2, <2>3 DEF CallersOK
<1>10. LookupsOK'
  <2>1. ASSUME NEW k \in Availability!Keys, lookups'[k].pc = "answered"
        PROVE  has'[k[1]][k[2]][lookups'[k].found] <= lookups'[k].age + 1
    <3>1. lookups[k].pc = "answered" /\ lookups'[k].age = lookups[k].age + 1
          /\ lookups'[k].found = lookups[k].found
      BY <1>7, <2>1
    <3>2. lookups[k].found \in Availability!Answers /\ lookups[k].age \in Nat
      BY <1>7
    <3>3. Changes(k)[lookups[k].found] <= lookups[k].age + 1
      BY <3>1 DEF AvailabilityInv, LookupsOK
    <3>4. Changes(k)[lookups[k].found] \in Nat
      BY <3>2, ChangesTyped DEF AvailabilityInv
    <3>5. has'[k[1]][k[2]][lookups[k].found] \in 0..Availability!Long
          /\ has'[k[1]][k[2]][lookups[k].found] <= Changes(k)[lookups[k].found] + 1
      BY <1>2, <3>2
    <3> QED
      BY <3>1, <3>2, <3>3, <3>4, <3>5
  <2>2. ASSUME NEW k \in Availability!Keys, lookups'[k].pc # "none",
               NEW n \in DOMAIN cache, cache'[n].key = k
        PROVE  cache'[n].left = 0
    <3>1. cache[n].left = 0
      BY <1>4, <1>7, <2>2 DEF AvailabilityInv, LookupsOK
    <3> QED
      BY <1>4, <3>1
  <2> QED
    BY <1>5, <2>1, <2>2 DEF LookupsOK, Changes
<1>11. EntriesOK'
  <2>1. ASSUME NEW n \in DOMAIN cache, cache'[n].left > 0
        PROVE  has'[cache'[n].key[1]][cache'[n].key[2]][cache'[n].available] + cache'[n].left
                 <= Availability!Long
    <3>1. /\ cache[n].left > 0 /\ cache[n].left \in Nat /\ cache'[n].left = cache[n].left - 1
      BY <1>4, <2>1
    <3>2. cache[n].key \in Availability!Keys /\ cache[n].available \in Availability!Answers
      BY <1>4 DEF Entry
    <3>3. Changes(cache[n].key)[cache[n].available] + cache[n].left <= Availability!Long
      BY <3>1 DEF AvailabilityInv, EntriesOK
    <3>4. Changes(cache[n].key)[cache[n].available] \in Nat
      BY <3>2, ChangesTyped DEF AvailabilityInv
    <3>5. has'[cache[n].key[1]][cache[n].key[2]][cache[n].available] \in 0..Availability!Long
          /\ has'[cache[n].key[1]][cache[n].key[2]][cache[n].available]
               <= Changes(cache[n].key)[cache[n].available] + 1
      BY <1>2, <3>2
    <3>6. cache'[n].key = cache[n].key /\ cache'[n].available = cache[n].available
      BY <1>4
    <3> QED
      BY <3>1, <3>3, <3>4, <3>5, <3>6
  <2>2. ASSUME NEW m \in DOMAIN cache, NEW n \in DOMAIN cache, cache'[m].key = cache'[n].key
        PROVE  m = n
    BY <1>4, <2>2 DEF AvailabilityInv, EntriesOK
  <2> QED
    BY <1>5, <2>1, <2>2 DEF EntriesOK, Changes
<1> QED
  BY <1>8, <1>9, <1>10, <1>11 DEF AvailabilityInv

\* Every step of the cache keeps its invariant.
LEMMA AvailabilityNext == AvailabilityInv /\ Availability!Next => AvailabilityInv'
BY AskOK, StashAnswersOK, LookupReturnsOK, LookupFailsOK, ShowOK, CopyChangesOK, SwitchOK, TickOK
DEF Availability!Next

-----------------------------------------------------------------------------
(* The download queue, read page by page. *)

LEMMA PagingConstants ==
  /\ IsFiniteSet(Downloads) /\ Unusable \subseteq Downloads
  /\ QueuePageSize \in Nat \ {0} /\ MaxQueuePages \in Nat \ {0} /\ Null \notin Nat
<1>1. Paging!IsFiniteSet(Downloads) = IsFiniteSet(Downloads)
  BY DEF Paging!IsFiniteSet, IsFiniteSet
<1> QED
  BY <1>1, ServicesAssumption DEF Paging!PagingAssumption

\* A sequence with an element put in has the earlier elements where they were, the later
\* ones one place on.
LEMMA InsertAtProperties ==
  ASSUME NEW S, NEW s \in Seq(S), NEW e \in S, NEW n \in 1..(Len(s) + 1)
  PROVE  LET t == Paging!InsertAt(s, n, e)
         IN /\ t \in Seq(S) /\ Len(t) = Len(s) + 1
            /\ \A m \in 1..(Len(s) + 1) :
                 t[m] = IF m < n THEN s[m] ELSE IF m = n THEN e ELSE s[m - 1]
<1> DEFINE left == SubSeq(s, 1, n - 1)
           right == SubSeq(s, n, Len(s))
           start == left \o <<e>>
           t == Paging!InsertAt(s, n, e)
<1>1. Len(s) \in Nat /\ DOMAIN s = 1..Len(s) /\ \A m \in 1..Len(s) : s[m] \in S
  OBVIOUS
<1>2. left \in Seq(S) /\ Len(left) = n - 1 /\ \A m \in 1..(n - 1) : left[m] = s[m]
  <2>1. n - 1 \in Int /\ \A i \in 1..(n - 1) : s[i] \in S
    BY <1>1
  <2>2. /\ left \in Seq(S) /\ Len(left) = IF 1 <= n - 1 THEN (n - 1) - 1 + 1 ELSE 0
        /\ \A m \in 1..((n - 1) - 1 + 1) : left[m] = s[1 + m - 1]
    BY <2>1, SubSeqProperties
  <2> HIDE DEF left
  <2>3. Len(left) = n - 1 /\ (n - 1) - 1 + 1 = n - 1
    BY <1>1, <2>2
  <2>4. \A m \in 1..(n - 1) : 1 + m - 1 = m
    BY <1>1
  <2> QED
    BY <2>2, <2>3, <2>4
<1>3. /\ right \in Seq(S) /\ Len(right) = Len(s) - n + 1
      /\ \A m \in 1..(Len(s) - n + 1) : right[m] = s[n + m - 1]
  <2>1. n \in Int /\ Len(s) \in Int /\ \A i \in n..Len(s) : s[i] \in S
    BY <1>1
  <2>2. /\ right \in Seq(S) /\ Len(right) = IF n <= Len(s) THEN Len(s) - n + 1 ELSE 0
        /\ \A m \in 1..(Len(s) - n + 1) : right[m] = s[n + m - 1]
    BY <2>1, SubSeqProperties
  <2> HIDE DEF right
  <2> QED
    BY <1>1, <2>2
<1>4. <<e>> \in Seq(S) /\ Len(<<e>>) = 1 /\ <<e>>[1] = e
  OBVIOUS
<1> HIDE DEF left, right
<1>5. /\ start \in Seq(S) /\ Len(start) = n
      /\ \A m \in 1..n : start[m] = IF m < n THEN s[m] ELSE e
  <2>1. /\ start \in Seq(S) /\ Len(start) = Len(left) + Len(<<e>>)
        /\ \A m \in 1..(Len(left) + Len(<<e>>)) :
             start[m] = IF m <= Len(left) THEN left[m] ELSE <<e>>[m - Len(left)]
    BY <1>2, <1>4, ConcatProperties
  <2> HIDE DEF start
  <2>2. Len(start) = n
    BY <1>1, <1>2, <1>4, <2>1
  <2>3. ASSUME NEW m \in 1..n PROVE start[m] = IF m < n THEN s[m] ELSE e
    <3>1. start[m] = IF m <= n - 1 THEN left[m] ELSE <<e>>[m - (n - 1)]
      <4>1. Len(left) = n - 1 /\ m \in 1..(Len(left) + Len(<<e>>))
        BY <1>1, <1>2, <1>4
      <4> QED
        BY <2>1, <4>1
    <3>2. CASE m < n
      BY <1>1, <1>2, <3>1, <3>2
    <3>3. CASE m = n
      <4>1. m - (n - 1) = 1 /\ ~ (m <= n - 1)
        BY <1>1, <3>3
      <4> QED
        BY <1>4, <3>1, <3>3, <4>1
    <3> QED
      BY <1>1, <3>2, <3>3
  <2> QED
    BY <2>1, <2>2, <2>3
<1>6. t = start \o right
  BY DEF Paging!InsertAt, left, right
<1> HIDE DEF start, t
<1>7. /\ t \in Seq(S) /\ Len(t) = Len(start) + Len(right)
      /\ \A m \in 1..(Len(start) + Len(right)) :
           t[m] = IF m <= Len(start) THEN start[m] ELSE right[m - Len(start)]
  BY <1>3, <1>5, <1>6, ConcatProperties
<1>8. Len(start) + Len(right) = Len(s) + 1
  BY <1>1, <1>3, <1>5
<1>9. ASSUME NEW m \in 1..(Len(s) + 1)
      PROVE  t[m] = IF m < n THEN s[m] ELSE IF m = n THEN e ELSE s[m - 1]
  <2>1. t[m] = IF m <= n THEN start[m] ELSE right[m - n]
    BY <1>5, <1>7, <1>8
  <2>2. CASE m <= n
    BY <1>1, <1>5, <2>1, <2>2
  <2>3. CASE m > n
    <3>1. m - n \in 1..(Len(s) - n + 1) /\ n + (m - n) - 1 = m - 1 /\ ~ (m <= n)
      BY <1>1, <2>3
    <3>2. right[m - n] = s[m - 1]
      BY <1>3, <3>1
    <3> QED
      BY <1>1, <2>1, <2>3, <3>1, <3>2
  <2> QED
    BY <1>1, <2>2, <2>3
<1> QED
  BY <1>7, <1>8, <1>9 DEF t

\* A sequence with an element taken out has the earlier elements where they were, the
\* later ones one place ahead.
LEMMA RemoveAtProperties ==
  ASSUME NEW S, NEW s \in Seq(S), NEW n \in 1..Len(s)
  PROVE  LET t == Paging!RemoveAt(s, n)
         IN /\ t \in Seq(S) /\ Len(t) = Len(s) - 1
            /\ \A m \in 1..(Len(s) - 1) : t[m] = IF m < n THEN s[m] ELSE s[m + 1]
<1> DEFINE left == SubSeq(s, 1, n - 1)
           right == SubSeq(s, n + 1, Len(s))
           t == Paging!RemoveAt(s, n)
<1>1. Len(s) \in Nat /\ DOMAIN s = 1..Len(s) /\ \A m \in 1..Len(s) : s[m] \in S
  OBVIOUS
<1>2. left \in Seq(S) /\ Len(left) = n - 1 /\ \A m \in 1..(n - 1) : left[m] = s[m]
  <2>1. n - 1 \in Int /\ \A i \in 1..(n - 1) : s[i] \in S
    BY <1>1
  <2>2. /\ left \in Seq(S) /\ Len(left) = IF 1 <= n - 1 THEN (n - 1) - 1 + 1 ELSE 0
        /\ \A m \in 1..((n - 1) - 1 + 1) : left[m] = s[1 + m - 1]
    BY <2>1, SubSeqProperties
  <2> HIDE DEF left
  <2>3. Len(left) = n - 1 /\ (n - 1) - 1 + 1 = n - 1
    BY <1>1, <2>2
  <2>4. \A m \in 1..(n - 1) : 1 + m - 1 = m
    BY <1>1
  <2> QED
    BY <2>2, <2>3, <2>4
<1>3. /\ right \in Seq(S) /\ Len(right) = Len(s) - n
      /\ \A m \in 1..(Len(s) - n) : right[m] = s[n + m]
  <2>1. n + 1 \in Int /\ Len(s) \in Int /\ \A i \in (n + 1)..Len(s) : s[i] \in S
    BY <1>1
  <2>2. /\ right \in Seq(S) /\ Len(right) = IF n + 1 <= Len(s) THEN Len(s) - (n + 1) + 1 ELSE 0
        /\ \A m \in 1..(Len(s) - (n + 1) + 1) : right[m] = s[(n + 1) + m - 1]
    BY <2>1, SubSeqProperties
  <2> HIDE DEF right
  <2>3. Len(right) = Len(s) - n /\ Len(s) - (n + 1) + 1 = Len(s) - n
    <3>1. Len(s) \in Nat /\ n \in Nat /\ n <= Len(s)
      BY <1>1
    <3>2. Len(right) = IF n + 1 <= Len(s) THEN Len(s) - (n + 1) + 1 ELSE 0
      BY <2>2
    <3> QED
      BY <3>1, <3>2
  <2>4. \A m \in 1..(Len(s) - n) : (n + 1) + m - 1 = n + m
    BY <1>1
  <2> QED
    BY <2>2, <2>3, <2>4
<1> HIDE DEF left, right
<1>4. t = left \o right
  BY DEF Paging!RemoveAt, left, right
<1> HIDE DEF t
<1>5. /\ t \in Seq(S) /\ Len(t) = Len(left) + Len(right)
      /\ \A m \in 1..(Len(left) + Len(right)) :
           t[m] = IF m <= Len(left) THEN left[m] ELSE right[m - Len(left)]
  BY <1>2, <1>3, <1>4, ConcatProperties
<1>6. Len(left) + Len(right) = Len(s) - 1
  BY <1>1, <1>2, <1>3
<1>7. ASSUME NEW m \in 1..(Len(s) - 1) PROVE t[m] = IF m < n THEN s[m] ELSE s[m + 1]
  <2>1. t[m] = IF m <= n - 1 THEN left[m] ELSE right[m - (n - 1)]
    BY <1>2, <1>5, <1>6
  <2>2. CASE m < n
    BY <1>1, <1>2, <2>1, <2>2
  <2>3. CASE m >= n
    <3>1. m - (n - 1) \in 1..(Len(s) - n) /\ n + (m - (n - 1)) = m + 1 /\ ~ (m <= n - 1)
      BY <1>1, <2>3
    <3>2. right[m - (n - 1)] = s[m + 1]
      BY <1>3, <3>1
    <3> QED
      BY <1>1, <2>1, <2>3, <3>1, <3>2
  <2> QED
    BY <1>1, <2>2, <2>3
<1> QED
  BY <1>5, <1>6, <1>7 DEF t

\* How many downloads stand before a page.
Before(page) == (page - 1) * QueuePageSize

PagingTyped ==
  /\ queue \in Seq(Downloads) /\ \A m, n \in DOMAIN queue : queue[m] = queue[n] => m = n
  /\ shape \in Paging!Shapes
  /\ read.pc \in {"idle", "page", "complete", "cut off"}
  /\ read.page \in 1..MaxQueuePages /\ read.records \in Seq(Downloads)
  /\ shifted \in BOOLEAN /\ stayed \subseteq Downloads

StayersQueued == \A d \in stayed : \E n \in DOMAIN queue : queue[n] = d

\* The pages that have been read were full.
FullPages == read.pc = "page" => Len(read.records) = Before(read.page)

\* Downloads that stayed, with none having moved up, were read if they stand on an earlier
\* page, and all were read at the end.
StayersRead ==
  ~shifted =>
    /\ read.pc = "page" => \A n \in DOMAIN queue :
         n <= Before(read.page) /\ queue[n] \in stayed => queue[n] \in Paging!ToSet(read.records)
    /\ read.pc = "complete" => stayed \subseteq Paging!ToSet(read.records)

PagingInv == PagingTyped /\ StayersQueued /\ FullPages /\ StayersRead

LEMMA BeforeProperties ==
  ASSUME NEW page \in 1..MaxQueuePages
  PROVE  /\ Before(page) \in Nat /\ Before(page + 1) = Before(page) + QueuePageSize
         /\ page * QueuePageSize = Before(page) + QueuePageSize /\ Before(1) = 0
<1>1. QueuePageSize \in Nat /\ page \in Nat /\ page - 1 \in Nat
  BY PagingConstants
<1>2. ASSUME NEW q \in Nat, NEW p \in Nat
      PROVE  p * q \in Nat /\ (p + 1) * q = p * q + q /\ 0 * q = 0
  OBVIOUS
<1>3. Before(page) \in Nat /\ (page - 1 + 1) * QueuePageSize = Before(page) + QueuePageSize
      /\ 0 * QueuePageSize = 0
  BY <1>1, <1>2 DEF Before
<1>4. page - 1 + 1 = page /\ page + 1 - 1 = page /\ 1 - 1 = 0
  BY <1>1
<1> QED
  BY <1>3, <1>4 DEF Before

LEMMA PagingTypes ==
  ASSUME PagingTyped
  PROVE  /\ queue \in Seq(Downloads) /\ Len(queue) \in Nat /\ DOMAIN queue = 1..Len(queue)
         /\ \A n \in 1..Len(queue) : queue[n] \in Downloads
         /\ read.page \in 1..MaxQueuePages /\ read.page \in Nat /\ MaxQueuePages \in Nat
         /\ read.records \in Seq(Downloads) /\ Len(read.records) \in Nat
         /\ DOMAIN read.records = 1..Len(read.records)
<1>1. queue \in Seq(Downloads) /\ read.page \in 1..MaxQueuePages
      /\ read.records \in Seq(Downloads)
  BY DEF PagingTyped
<1>2. /\ Len(queue) \in Nat /\ DOMAIN queue = 1..Len(queue)
      /\ \A n \in 1..Len(queue) : queue[n] \in Downloads
  BY <1>1
<1>3. Len(read.records) \in Nat /\ DOMAIN read.records = 1..Len(read.records)
  BY <1>1
<1>4. read.page \in Nat /\ MaxQueuePages \in Nat
  BY <1>1, PagingConstants
<1> QED
  BY <1>1, <1>2, <1>3, <1>4

LEMMA PagingImplies == PagingInv => Paging!TypeOK /\ Paging!StayingDownloadsRead
<1> SUFFICES ASSUME PagingInv PROVE Paging!TypeOK /\ Paging!StayingDownloadsRead
  OBVIOUS
<1> USE PagingConstants
<1>1. queue \in Paging!SeqOf(Downloads, Paging!Cardinality(Downloads))
  <2>1. queue \in [1..Len(queue) -> Downloads] /\ Len(queue) \in Nat
    BY PagingTypes DEF PagingInv
  <2>2. queue \in Injection(1..Len(queue), Downloads)
    <3>1. \A m, n \in DOMAIN queue : queue[m] = queue[n] => m = n
      BY DEF PagingInv, PagingTyped
    <3>2. DOMAIN queue = 1..Len(queue)
      BY <2>1
    <3> QED
      BY <2>1, <3>1, <3>2 DEF Injection, IsInjective
  <2>3. Len(queue) <= Cardinality(Downloads) /\ Cardinality(Downloads) \in Nat
    <3>1. Cardinality(1..Len(queue)) = Len(queue)
      <4>1. /\ 0 \in Int /\ 1 \in Int /\ Len(queue) \in Int
            /\ ~ (1 > Len(queue)) \/ Len(queue) = 0
        BY <2>1
      <4>2. Cardinality(1..Len(queue)) = IF 1 > Len(queue) THEN 0 ELSE Len(queue) - 1 + 1
        BY <2>1, FS_Interval
      <4> QED
        BY <2>1, <4>2
    <3> QED
      BY <2>2, <3>1, FS_Injection, FS_CardinalityType
  <2>4. Paging!Cardinality(Downloads) = Cardinality(Downloads)
    BY Zenon DEF Paging!Cardinality, Cardinality
  <2>5. Len(queue) \in 0..Paging!Cardinality(Downloads)
    BY <2>1, <2>3, <2>4
  <2> QED
    BY <2>1, <2>5 DEF Paging!SeqOf
<1>2. Paging!IsInjective(queue)
  BY DEF PagingInv, PagingTyped, Paging!IsInjective
<1>3. Paging!TypeOK
  BY <1>1, <1>2 DEF PagingInv, PagingTyped, Paging!TypeOK
<1>4. Paging!StayingDownloadsRead
  BY DEF PagingInv, StayersRead, Paging!StayingDownloadsRead, Paging!Snapshot
<1> QED
  BY <1>3, <1>4

LEMMA PagingInit == Paging!Init => PagingInv
<1> SUFFICES ASSUME Paging!Init PROVE PagingInv
  OBVIOUS
<1>1. queue = <<>> /\ DOMAIN queue = {} /\ shape \in Paging!Shapes /\ stayed = {} /\ shifted = FALSE
      /\ read = [pc |-> "idle", page |-> 1, records |-> <<>>]
  BY DEF Paging!Init, Paging!NoRead
<1>2. 1 \in 1..MaxQueuePages
  BY PagingConstants
<1>3. queue \in Seq(Downloads) /\ read.records \in Seq(Downloads)
  BY <1>1
<1>4. PagingTyped
  BY <1>1, <1>2, <1>3 DEF PagingTyped
<1>5. StayersQueued /\ FullPages /\ StayersRead
  BY <1>1 DEF StayersQueued, FullPages, StayersRead
<1> QED
  BY <1>4, <1>5 DEF PagingInv

LEMMA PagingKept == PagingInv /\ KeepPaging => PagingInv'
<1> SUFFICES ASSUME PagingInv, KeepPaging PROVE PagingInv'
  OBVIOUS
<1> USE DEF KeepPaging
<1>1. PagingTyped'
  BY DEF PagingInv, PagingTyped
<1>2. StayersQueued' /\ FullPages' /\ StayersRead'
  BY DEF PagingInv, StayersQueued, FullPages, StayersRead, Before, Paging!ToSet
<1> QED
  BY <1>1, <1>2 DEF PagingInv

\* A call begins: no page has been read.
LEMMA GetQueueSnapshotOK ==
  ASSUME PagingInv, Paging!GetQueueSnapshot PROVE PagingInv'
<1>1. /\ read' = [pc |-> "page", page |-> 1, records |-> <<>>] /\ shifted' = FALSE
      /\ stayed' = Paging!ToSet(queue) /\ UNCHANGED <<queue, shape>>
  BY DEF Paging!GetQueueSnapshot, Paging!NoRead
<1>2. 1 \in 1..MaxQueuePages /\ Before(1) = 0
  BY PagingConstants, BeforeProperties
<1>3. PagingTyped'
  <2>1. read'.records \in Seq(Downloads)
    BY <1>1
  <2>2. stayed' \subseteq Downloads
    BY <1>1, PagingTypes DEF PagingInv, Paging!ToSet
  <2> QED
    BY <1>1, <1>2, <2>1, <2>2 DEF PagingInv, PagingTyped
<1>4. StayersQueued'
  BY <1>1 DEF StayersQueued, Paging!ToSet
<1>5. FullPages'
  <2>1. Len(read'.records) = 0 /\ Before(read'.page) = 0
    BY <1>1, <1>2
  <2> QED
    BY <2>1 DEF FullPages, Before
<1>6. StayersRead'
  <2>1. ASSUME NEW n \in DOMAIN queue PROVE ~ (n <= Before(1))
    BY <1>2, PagingTypes DEF PagingInv
  <2> QED
    BY <1>1, <2>1 DEF StayersRead, Before
<1> QED
  BY <1>3, <1>4, <1>5, <1>6 DEF PagingInv

\* No call: nothing is read.
LEMMA NoReadOK ==
  ASSUME PagingInv, read' = Paging!NoRead, UNCHANGED <<queue, shape, shifted, stayed>>
  PROVE  PagingInv'
<1>1. 1 \in 1..MaxQueuePages
  BY PagingConstants
<1>2. read'.pc = "idle" /\ read'.page = 1 /\ read'.records = <<>>
  BY DEF Paging!NoRead
<1>3. read'.records \in Seq(Downloads)
  BY <1>2
<1>4. PagingTyped'
  BY <1>1, <1>2, <1>3 DEF PagingInv, PagingTyped
<1>5. StayersQueued' /\ FullPages' /\ StayersRead'
  BY <1>2 DEF PagingInv, StayersQueued, FullPages, StayersRead
<1> QED
  BY <1>4, <1>5 DEF PagingInv

\* A page is read: it continues where the last one ended, and it is full unless it is the
\* last one.
LEMMA ReadQueuePageOK ==
  ASSUME PagingInv, Paging!ReadQueuePage PROVE PagingInv'
<1> DEFINE page == read.page
           before == Before(page)
           records == Paging!PageOf(page)
           end == IF page * QueuePageSize < Len(queue) THEN page * QueuePageSize ELSE Len(queue)
           all == read.records \o records
           over == Paging!LastPage(records, all, Paging!TotalRecords)
           limit == page = MaxQueuePages
<1>1. /\ read.pc = "page" /\ UNCHANGED <<queue, shape, shifted, stayed>>
      /\ read' = [pc |-> IF over THEN "complete" ELSE IF limit THEN "cut off" ELSE "page",
                  page |-> IF over \/ limit THEN page ELSE page + 1, records |-> all]
  BY DEF Paging!ReadQueuePage
<1>2. /\ page \in 1..MaxQueuePages /\ MaxQueuePages \in Nat /\ read.records \in Seq(Downloads)
      /\ queue \in Seq(Downloads) /\ Len(queue) \in Nat /\ DOMAIN queue = 1..Len(queue)
      /\ QueuePageSize \in Nat \ {0}
  BY PagingConstants, PagingTypes DEF PagingInv
<1>3. /\ before \in Nat /\ Before(page + 1) = before + QueuePageSize
      /\ page * QueuePageSize = before + QueuePageSize
  BY <1>2, BeforeProperties
<1>4. Len(read.records) = before
  BY <1>1 DEF PagingInv, FullPages
<1>5. records = SubSeq(queue, before + 1, end)
  BY DEF Paging!PageOf, Before
<1> HIDE DEF before
<1> DEFINE length == Len(queue)
           size == QueuePageSize
           count == Len(records)
           total == Len(all)
<1>6. /\ end \in Nat /\ end <= length /\ end <= before + size
      /\ end = before + size \/ end = length
      /\ length \in Nat /\ size \in Nat /\ size > 0 /\ before \in Nat
  <2>1. length \in Nat /\ size \in Nat /\ size > 0 /\ before \in Nat
    BY <1>2, <1>3
  <2>2. end = IF before + size < length THEN before + size ELSE length
    BY <1>3
  <2> HIDE DEF end, length, size
  <2> QED
    BY <2>1, <2>2
<1> HIDE DEF end, records, page
<1>7. /\ records \in Seq(Downloads) /\ Len(records) = IF before + 1 <= end THEN end - before ELSE 0
      /\ \A n \in 1..(end - before) : records[n] = queue[before + n]
  <2>1. \A n \in (before + 1)..end : queue[n] \in Downloads
    <3> SUFFICES ASSUME NEW n \in (before + 1)..end PROVE queue[n] \in Downloads
      OBVIOUS
    <3>1. n \in 1..length
      BY <1>6
    <3> QED
      BY <1>2, <3>1 DEF length
  <2>2. before + 1 \in Int /\ end \in Int
    BY <1>3, <1>6
  <2>3. /\ records \in Seq(Downloads)
        /\ Len(records) = IF before + 1 <= end THEN end - (before + 1) + 1 ELSE 0
        /\ \A n \in 1..(end - (before + 1) + 1) : records[n] = queue[(before + 1) + n - 1]
    BY <1>5, <2>1, <2>2, SubSeqProperties
  <2>4. end - (before + 1) + 1 = end - before
        /\ \A n \in 1..(end - before) : (before + 1) + n - 1 = before + n
    BY <1>3, <1>6
  <2> QED
    BY <2>3, <2>4
<1>8. /\ all \in Seq(Downloads) /\ Len(all) = before + Len(records)
      /\ \A n \in 1..(before + Len(records)) :
           all[n] = IF n <= before THEN read.records[n] ELSE records[n - before]
  <2> HIDE DEF records
  <2>1. read.records \in Seq(Downloads) /\ records \in Seq(Downloads)
    BY <1>2, <1>7
  <2>2. /\ all \in Seq(Downloads) /\ Len(all) = Len(read.records) + Len(records)
        /\ \A n \in 1..(Len(read.records) + Len(records)) :
             all[n] = IF n <= Len(read.records) THEN read.records[n]
                      ELSE records[n - Len(read.records)]
    BY <2>1, ConcatProperties
  <2> QED
    BY <1>4, <2>2
<1> HIDE DEF all
<1>80. /\ count \in Nat /\ count = IF before + 1 <= end THEN end - before ELSE 0
      /\ total = before + count
  BY <1>7, <1>8
<1> HIDE DEF length, size, count, total
<1>9. ASSUME ~shifted, NEW n \in DOMAIN queue, n <= end, queue[n] \in stayed
      PROVE  queue[n] \in Paging!ToSet(all)
  <2>1. CASE n <= before
    <3>1. queue[n] \in Paging!ToSet(read.records)
      BY <1>1, <1>9, <2>1 DEF PagingInv, StayersRead, before, page
    <3>2. PICK m \in DOMAIN read.records : read.records[m] = queue[n]
      BY <3>1 DEF Paging!ToSet
    <3>3. m \in 1..(before + Len(records)) /\ m <= before /\ m \in DOMAIN all
      BY <1>2, <1>3, <1>4, <1>7, <1>8, <3>2
    <3>4. all[m] = queue[n]
      BY <1>8, <3>2, <3>3
    <3> QED
      BY <3>3, <3>4 DEF Paging!ToSet
  <2>2. CASE n > before
    <3>1. n - before \in 1..(end - before) /\ before + (n - before) = n /\ before + 1 <= end
          /\ ~ (n <= before) /\ n \in 1..end
      <4>1. n \in Nat
        BY <1>2
      <4> QED
        BY <1>6, <1>9, <2>2, <4>1
    <3>2. Len(records) = end - before /\ before + Len(records) = end
      BY <1>6, <1>80, <3>1 DEF count
    <3>3. n \in DOMAIN all
      BY <1>8, <3>1, <3>2
    <3>4. all[n] = queue[n]
      BY <1>7, <1>8, <3>1, <3>2
    <3> QED
      BY <3>3, <3>4 DEF Paging!ToSet
  <2> QED
    BY <1>2, <1>3, <2>1, <2>2
<1>10. ASSUME over PROVE end = Len(queue) \/ Len(queue) <= before
  <2>1. CASE records = <<>>
    <3>1. count = 0
      BY <2>1 DEF count
    <3> QED
      BY <1>6, <1>80, <3>1 DEF length
  <2>2. CASE Paging!TotalRecords # Null /\ Len(all) >= Paging!TotalRecords
    <3>1. total >= length
      BY <2>2 DEF Paging!TotalRecords, total, length
    <3> QED
      BY <1>6, <1>80, <3>1 DEF length
  <2>3. CASE Len(records) < QueuePageSize
    <3>1. count < size
      BY <2>3 DEF count, size
    <3> QED
      BY <1>6, <1>80, <3>1 DEF length
  <2> QED
    BY <1>10, <2>1, <2>2, <2>3 DEF Paging!LastPage
<1>11. ASSUME ~over PROVE Len(all) = before + QueuePageSize /\ end = before + QueuePageSize
  <2>1. records # <<>>
    BY <1>11 DEF Paging!LastPage
  <2>2. count # 0
    BY <1>7, <2>1 DEF count
  <2>3. count = end - before /\ total = end
    BY <1>6, <1>80, <2>2
  <2>4. CASE Paging!TotalRecords = Null
    <3>1. ~ (count < size)
      BY <1>11, <2>4 DEF Paging!LastPage, count, size
    <3> QED
      BY <1>6, <2>3, <3>1 DEF total, size
  <2>5. CASE Paging!TotalRecords # Null
    <3>1. Paging!TotalRecords = length
      BY <2>5 DEF Paging!TotalRecords, length
    <3>2. ~ (total >= length)
      BY <1>11, <2>5, <3>1 DEF Paging!LastPage, total
    <3> QED
      BY <1>6, <2>3, <3>2 DEF total, size
  <2> QED
    BY <2>4, <2>5
<1> HIDE DEF over
<1>12. PagingTyped'
  <2>1. limit \/ page + 1 \in 1..MaxQueuePages
    BY <1>2
  <2> QED
    BY <1>1, <1>2, <1>8, <2>1 DEF PagingInv, PagingTyped
<1>13. StayersQueued'
  BY <1>1 DEF PagingInv, StayersQueued
<1>14. FullPages'
  <2>1. ASSUME read'.pc = "page" PROVE Len(read'.records) = Before(read'.page)
    <3>1. ~over /\ read'.page = page + 1 /\ read'.records = all
      BY <1>1, <2>1
    <3> QED
      BY <1>3, <1>11, <3>1
  <2> QED
    BY <2>1 DEF FullPages, Before
<1>15. StayersRead'
  <2>1. ASSUME ~shifted, read'.pc = "page", NEW n \in DOMAIN queue,
               n <= Before(read'.page), queue[n] \in stayed
        PROVE  queue[n] \in Paging!ToSet(read'.records)
    <3>1. ~over /\ read'.page = page + 1 /\ read'.records = all
      BY <1>1, <2>1
    <3>2. n <= end
      BY <1>3, <1>11, <2>1, <3>1
    <3> QED
      BY <1>9, <2>1, <3>1, <3>2
  <2>2. ASSUME ~shifted, read'.pc = "complete", NEW d \in stayed
        PROVE  d \in Paging!ToSet(read'.records)
    <3>1. over /\ read'.records = all
      BY <1>1, <2>2
    <3>2. PICK n \in DOMAIN queue : queue[n] = d
      BY DEF PagingInv, StayersQueued
    <3>3. CASE n <= end
      BY <1>9, <2>2, <3>1, <3>2, <3>3
    <3>4. CASE ~ (n <= end)
      <4>1. n \in Nat /\ n <= length
        BY <1>2, <3>2 DEF length
      <4>2. end # length
        BY <1>6, <3>4, <4>1
      <4>3. length <= before
        BY <1>10, <3>1, <4>2 DEF length
      <4> QED
        BY <1>6, <3>4, <4>1, <4>3
    <3> QED
      BY <3>3, <3>4
  <2> QED
    BY <1>1, <2>1, <2>2 DEF StayersRead, Before, Paging!ToSet
<1> QED
  BY <1>12, <1>13, <1>14, <1>15 DEF PagingInv

\* A download is queued: the others keep their order, and none moves up.
LEMMA EnqueueOK ==
  ASSUME PagingInv, NEW d \in Downloads, NEW i \in 1..(Len(queue) + 1), Paging!Enqueue(d, i)
  PROVE  PagingInv'
<1>1. /\ \A n \in DOMAIN queue : queue[n] # d
      /\ queue' = Paging!InsertAt(queue, i, d) /\ UNCHANGED <<shape, read, shifted, stayed>>
  BY DEF Paging!Enqueue, Paging!ToSet
<1>2. /\ queue \in Seq(Downloads) /\ Len(queue) \in Nat /\ DOMAIN queue = 1..Len(queue)
      /\ i \in Nat
  BY PagingTypes DEF PagingInv
<1>3. /\ queue' \in Seq(Downloads) /\ Len(queue') = Len(queue) + 1
      /\ \A m \in 1..(Len(queue) + 1) :
           queue'[m] = IF m < i THEN queue[m] ELSE IF m = i THEN d ELSE queue[m - 1]
  <2> DEFINE inserted == Paging!InsertAt(queue, i, d)
  <2>1. /\ inserted \in Seq(Downloads) /\ Len(inserted) = Len(queue) + 1
        /\ \A m \in 1..(Len(queue) + 1) :
             inserted[m] = IF m < i THEN queue[m] ELSE IF m = i THEN d ELSE queue[m - 1]
    BY <1>2, InsertAtProperties
  <2> HIDE DEF inserted
  <2>2. queue' = inserted
    BY <1>1 DEF inserted
  <2> QED
    BY <2>1, <2>2
<1>4. DOMAIN queue' = 1..(Len(queue) + 1)
  BY <1>3
<1>5. ASSUME NEW m \in DOMAIN queue'
      PROVE  \/ m = i /\ queue'[m] = d
             \/ m < i /\ m \in DOMAIN queue /\ queue'[m] = queue[m]
             \/ m > i /\ m - 1 \in DOMAIN queue /\ queue'[m] = queue[m - 1]
  <2> DEFINE length == Len(queue)
  <2>1. m \in 1..(length + 1) /\ i \in 1..(length + 1) /\ length \in Nat
    BY <1>2, <1>4
  <2>2. queue'[m] = IF m < i THEN queue[m] ELSE IF m = i THEN d ELSE queue[m - 1]
    BY <1>3, <1>4
  <2>3. DOMAIN queue = 1..length
    BY <1>2
  <2> HIDE DEF length
  <2>4. CASE m < i
    <3>1. m \in 1..length
      BY <2>1, <2>4
    <3> QED
      BY <2>2, <2>3, <2>4, <3>1
  <2>5. CASE m = i
    <3>1. ~ (m < i)
      BY <2>1, <2>5
    <3> QED
      BY <2>2, <2>5, <3>1
  <2>6. CASE m > i
    <3>1. m - 1 \in 1..length /\ ~ (m < i) /\ m # i
      BY <2>1, <2>6
    <3> QED
      BY <2>2, <2>3, <2>6, <3>1
  <2> QED
    BY <2>1, <2>4, <2>5, <2>6
<1>6. \A m, n \in DOMAIN queue : queue[m] = queue[n] => m = n
  BY DEF PagingInv, PagingTyped
<1>7. ASSUME NEW m \in DOMAIN queue', NEW n \in DOMAIN queue', queue'[m] = queue'[n]
      PROVE  m = n
  <2>1. m \in Nat /\ n \in Nat
    BY <1>2, <1>4
  <2>2. CASE m = i /\ queue'[m] = d
    BY <1>1, <1>5, <1>7, <2>2
  <2>3. CASE m < i /\ m \in DOMAIN queue /\ queue'[m] = queue[m]
    <3>1. CASE n > i /\ n - 1 \in DOMAIN queue /\ queue'[n] = queue[n - 1]
      <4>1. m = n - 1
        BY <1>6, <1>7, <2>3, <3>1
      <4> QED
        BY <1>2, <2>1, <2>3, <3>1, <4>1
    <3> QED
      BY <1>1, <1>5, <1>6, <1>7, <2>3, <3>1
  <2>4. CASE m > i /\ m - 1 \in DOMAIN queue /\ queue'[m] = queue[m - 1]
    <3>1. CASE n > i /\ n - 1 \in DOMAIN queue /\ queue'[n] = queue[n - 1]
      <4>1. m - 1 = n - 1
        BY <1>6, <1>7, <2>4, <3>1
      <4> QED
        BY <2>1, <4>1
    <3>2. CASE n < i /\ n \in DOMAIN queue /\ queue'[n] = queue[n]
      <4>1. m - 1 = n
        BY <1>6, <1>7, <2>4, <3>2
      <4> QED
        BY <1>2, <2>1, <2>4, <3>2, <4>1
    <3> QED
      BY <1>1, <1>5, <1>7, <2>4, <3>1, <3>2
  <2> QED
    BY <1>5, <2>2, <2>3, <2>4
<1>8. PagingTyped'
  BY <1>1, <1>3, <1>7 DEF PagingInv, PagingTyped
<1>9. StayersQueued'
  <2>1. ASSUME NEW e \in stayed PROVE \E n \in DOMAIN queue' : queue'[n] = e
    <3>1. PICK n \in DOMAIN queue : queue[n] = e
      BY DEF PagingInv, StayersQueued
    <3> DEFINE length == Len(queue)
    <3>2. n \in 1..length /\ length \in Nat /\ i \in 1..(length + 1)
      BY <1>2
    <3>3. DOMAIN queue' = 1..(length + 1)
      BY <1>4
    <3>4. \A m \in 1..(length + 1) :
            queue'[m] = IF m < i THEN queue[m] ELSE IF m = i THEN d ELSE queue[m - 1]
      BY <1>3
    <3> HIDE DEF length
    <3>5. CASE n < i
      <4>1. n \in 1..(length + 1)
        BY <3>2
      <4> QED
        BY <3>1, <3>3, <3>4, <3>5, <4>1
    <3>6. CASE ~ (n < i)
      <4>1. n + 1 \in 1..(length + 1) /\ ~ (n + 1 < i) /\ n + 1 # i /\ n + 1 - 1 = n
        BY <3>2, <3>6
      <4> QED
        BY <3>1, <3>3, <3>4, <4>1
    <3> QED
      BY <3>5, <3>6
  <2> QED
    BY <1>1, <2>1 DEF StayersQueued
<1>10. FullPages'
  BY <1>1 DEF PagingInv, FullPages, Before
<1>11. StayersRead'
  <2>1. ASSUME ~shifted, read.pc = "page", NEW m \in DOMAIN queue',
               m <= Before(read.page), queue'[m] \in stayed
        PROVE  queue'[m] \in Paging!ToSet(read.records)
    <3>1. \A n \in DOMAIN queue : n <= Before(read.page) /\ queue[n] \in stayed =>
            queue[n] \in Paging!ToSet(read.records)
      BY <2>1 DEF PagingInv, StayersRead
    <3>2. queue'[m] # d
      BY <1>1, <2>1 DEF PagingInv, StayersQueued
    <3>3. CASE m < i /\ m \in DOMAIN queue /\ queue'[m] = queue[m]
      BY <2>1, <3>1, <3>3
    <3>4. CASE m > i /\ m - 1 \in DOMAIN queue /\ queue'[m] = queue[m - 1]
      <4>1. m \in Nat /\ Before(read.page) \in Nat
        BY <1>2, <1>4, PagingTypes, BeforeProperties DEF PagingInv
      <4>2. m - 1 <= Before(read.page)
        BY <2>1, <4>1
      <4> QED
        BY <2>1, <3>1, <3>4, <4>2
    <3> QED
      BY <1>5, <3>2, <3>3, <3>4
  <2>2. ~shifted /\ read.pc = "complete" => stayed \subseteq Paging!ToSet(read.records)
    BY DEF PagingInv, StayersRead
  <2> QED
    BY <1>1, <2>1, <2>2 DEF StayersRead, Before, Paging!ToSet
<1> QED
  BY <1>8, <1>9, <1>10, <1>11 DEF PagingInv

\* A download ends: those behind it move up.
LEMMA DequeueOK ==
  ASSUME PagingInv, NEW i \in DOMAIN queue, Paging!Dequeue(i) PROVE PagingInv'
<1> DEFINE length == Len(queue)
<1>1. /\ queue' = Paging!RemoveAt(queue, i) /\ shifted' = TRUE /\ stayed' = stayed \ {queue[i]}
      /\ UNCHANGED <<shape, read>>
  BY DEF Paging!Dequeue
<1>2. /\ queue \in Seq(Downloads) /\ length \in Nat /\ DOMAIN queue = 1..length
      /\ i \in 1..length
  BY PagingTypes DEF PagingInv
<1>3. /\ queue' \in Seq(Downloads) /\ Len(queue') = length - 1
      /\ \A m \in 1..(length - 1) : queue'[m] = IF m < i THEN queue[m] ELSE queue[m + 1]
  <2> DEFINE removed == Paging!RemoveAt(queue, i)
  <2>1. /\ removed \in Seq(Downloads) /\ Len(removed) = length - 1
        /\ \A m \in 1..(length - 1) : removed[m] = IF m < i THEN queue[m] ELSE queue[m + 1]
    BY <1>2, RemoveAtProperties
  <2> HIDE DEF removed, length
  <2>2. queue' = removed
    BY <1>1 DEF removed
  <2> QED
    BY <2>1, <2>2
<1>4. DOMAIN queue' = 1..(length - 1)
  BY <1>3
<1> HIDE DEF length
<1>5. \A m, n \in DOMAIN queue : queue[m] = queue[n] => m = n
  BY DEF PagingInv, PagingTyped
<1>6. ASSUME NEW m \in DOMAIN queue', NEW n \in DOMAIN queue', queue'[m] = queue'[n]
      PROVE  m = n
  <2> DEFINE old(k) == IF k < i THEN k ELSE k + 1
  <2>1. m \in 1..(length - 1) /\ n \in 1..(length - 1)
    BY <1>4
  <2>2. old(m) \in 1..length /\ old(n) \in 1..length
    BY <1>2, <2>1
  <2>3. queue'[m] = queue[old(m)] /\ queue'[n] = queue[old(n)]
    BY <1>3, <2>1
  <2>4. old(m) = old(n)
    <3> HIDE DEF old
    <3> QED
      BY <1>2, <1>5, <1>6, <2>2, <2>3
  <2> QED
    BY <1>2, <2>1, <2>4
<1>7. PagingTyped'
  BY <1>1, <1>3, <1>6 DEF PagingInv, PagingTyped
<1>8. StayersQueued'
  <2>1. ASSUME NEW e \in stayed, e # queue[i] PROVE \E n \in DOMAIN queue' : queue'[n] = e
    <3>1. PICK n \in DOMAIN queue : queue[n] = e
      BY DEF PagingInv, StayersQueued
    <3>2. n \in 1..length /\ n # i
      BY <1>2, <2>1, <3>1
    <3>3. CASE n < i
      <4>1. n \in 1..(length - 1)
        BY <1>2, <3>2, <3>3
      <4> QED
        BY <1>3, <1>4, <3>1, <3>3, <4>1
    <3>4. CASE n > i
      <4>1. n - 1 \in 1..(length - 1) /\ ~ (n - 1 < i) /\ n - 1 + 1 = n
        BY <1>2, <3>2, <3>4
      <4> QED
        BY <1>3, <1>4, <3>1, <4>1
    <3> QED
      BY <1>2, <3>2, <3>3, <3>4
  <2> QED
    BY <1>1, <2>1 DEF StayersQueued
<1>9. FullPages' /\ StayersRead'
  BY <1>1 DEF PagingInv, FullPages, StayersRead, Before
<1> QED
  BY <1>7, <1>8, <1>9 DEF PagingInv

\* Two neighbours change places.
LEMMA OvertakeOK ==
  ASSUME PagingInv, NEW i \in DOMAIN queue, Paging!Overtake(i) PROVE PagingInv'
<1>1. /\ i + 1 \in DOMAIN queue
      /\ queue' = [queue EXCEPT ![i] = queue[i + 1], ![i + 1] = queue[i]]
      /\ shifted' = TRUE /\ UNCHANGED <<shape, read, stayed>>
  BY DEF Paging!Overtake
<1>2. /\ queue \in Seq(Downloads) /\ Len(queue) \in Nat /\ DOMAIN queue = 1..Len(queue)
      /\ \A n \in 1..Len(queue) : queue[n] \in Downloads
  BY PagingTypes DEF PagingInv
<1>3. i \in Nat /\ i # i + 1
  BY <1>2
<1>4. /\ DOMAIN queue' = DOMAIN queue /\ queue'[i] = queue[i + 1] /\ queue'[i + 1] = queue[i]
      /\ \A n \in DOMAIN queue : n # i /\ n # i + 1 => queue'[n] = queue[n]
  BY <1>1, <1>2, <1>3
<1>5. queue' \in Seq(Downloads)
  <2> DEFINE length == Len(queue)
  <2>1. /\ queue \in [1..length -> Downloads] /\ i \in 1..length /\ i + 1 \in 1..length
        /\ length \in Nat
    BY <1>1, <1>2
  <2>2. queue[i] \in Downloads /\ queue[i + 1] \in Downloads
    BY <2>1
  <2> HIDE DEF length
  <2>3. queue' \in [1..length -> Downloads]
    BY <1>1, <2>1, <2>2
  <2> QED
    BY <2>1, <2>3
<1>6. \A m, n \in DOMAIN queue : queue[m] = queue[n] => m = n
  BY DEF PagingInv, PagingTyped
<1>7. \A m, n \in DOMAIN queue' : queue'[m] = queue'[n] => m = n
  <2> DEFINE old(n) == IF n = i THEN i + 1 ELSE IF n = i + 1 THEN i ELSE n
  <2>1. \A n \in DOMAIN queue : old(n) \in DOMAIN queue /\ queue'[n] = queue[old(n)]
    BY <1>1, <1>3, <1>4
  <2>2. \A m, n \in DOMAIN queue : old(m) = old(n) => m = n
    BY <1>3
  <2> HIDE DEF old
  <2> QED
    BY <1>4, <1>6, <2>1, <2>2
<1>8. PagingTyped'
  BY <1>1, <1>5, <1>7 DEF PagingInv, PagingTyped
<1>9. StayersQueued'
  <2>1. ASSUME NEW e \in stayed PROVE \E n \in DOMAIN queue' : queue'[n] = e
    <3>1. PICK n \in DOMAIN queue : queue[n] = e
      BY DEF PagingInv, StayersQueued
    <3> QED
      BY <1>1, <1>4, <3>1
  <2> QED
    BY <1>1, <2>1 DEF StayersQueued
<1>10. FullPages' /\ StayersRead'
  BY <1>1 DEF PagingInv, FullPages, StayersRead, Before
<1> QED
  BY <1>8, <1>9, <1>10 DEF PagingInv

\* Every step of the queue and of its reader keeps their invariant.
LEMMA PagingNext == PagingInv /\ Paging!Next => PagingInv'
<1>1. PagingInv /\ Paging!ReadFails => PagingInv'
  BY NoReadOK DEF Paging!ReadFails
<1>2. PagingInv /\ Paging!ReturnSnapshot => PagingInv'
  BY NoReadOK DEF Paging!ReturnSnapshot
<1> QED
  BY <1>1, <1>2, GetQueueSnapshotOK, ReadQueuePageOK, EnqueueOK, DequeueOK, OvertakeOK
  DEF Paging!Next

-----------------------------------------------------------------------------
(* The services together. *)

Inv ==
  /\ part \in Parts
  /\ FreshnessInv /\ AvailabilityInv /\ QueriesInv /\ ScanInv /\ ConnectionsInv /\ HealthInv
  /\ PagingInv

LEMMA InitInv == Init => Inv
BY FreshnessInit, AvailabilityInit, QueriesInit, ScanInit, ConnectionsInit, HealthInit, PagingInit
DEF Init, Inv

vars == <<part, events, source, configured, rowAge, stamped, job, sync, bootstrap,
  appeared, appearedNow, instance, has, cache, lookups, callers, evidence, single, batch,
  snapshot, unread, flags, returned, rows, present, health, clients, tested, missed, record, cached, loadedAll, calls, since, torn,
  queue, shape, read, shifted, stayed>>

\* A step of one service keeps what the invariants of the others say.
LEMMA NextInv == Inv /\ [Next]_vars => Inv'
<1> SUFFICES ASSUME Inv, [Next]_vars PROVE Inv'
  OBVIOUS
<1> USE FreshnessKept, AvailabilityKept, QueriesKept, ScanKept, ConnectionsKept, HealthKept, PagingKept
        DEF Inv
<1>1. CASE UNCHANGED part /\ FreshnessStep
  BY <1>1, FreshnessNext DEF FreshnessStep
<1>2. CASE UNCHANGED part /\ AvailabilityStep
  BY <1>2, AvailabilityNext DEF AvailabilityStep
<1>3. CASE UNCHANGED part /\ QueriesStep
  BY <1>3, QueriesNext DEF QueriesStep
<1>4. CASE UNCHANGED part /\ ConnectionsStep
  BY <1>4, ConnectionsNext DEF ConnectionsStep
<1>5. CASE UNCHANGED part /\ HealthStep
  BY <1>5, HealthNext DEF HealthStep
<1>6. CASE UNCHANGED part /\ PagingStep
  BY <1>6, PagingNext DEF PagingStep
<1>8. CASE UNCHANGED part /\ ScanStep
  BY <1>8, ScanNext DEF ScanStep
<1>7. CASE UNCHANGED vars
  <2>1. /\ KeepFreshness /\ KeepAvailability /\ KeepQueries /\ KeepScan /\ KeepConnections /\ KeepHealth
        /\ KeepPaging /\ UNCHANGED part
    BY <1>7 DEF vars, KeepFreshness, KeepAvailability, KeepQueries, KeepScan, KeepConnections,
                KeepHealth, KeepPaging
  <2> QED
    BY <2>1
<1> QED
  BY <1>1, <1>2, <1>3, <1>4, <1>5, <1>6, <1>7, <1>8 DEF Next

LEMMA Invariant == Spec => []Inv
BY InitInv, NextInv, PTL DEF Spec, vars

-----------------------------------------------------------------------------
\* Every reachable state of the services is well typed: a cache never holds more than
\* it may, nor a key twice, and the health record's streaks never count beyond a failure
\* threshold.
THEOREM Typing == Spec => []TypeOK
<1>1. Inv => TypeOK
  BY FreshnessImplies, AvailabilityImplies, QueriesImplies, ConnectionsImplies, HealthImplies,
     PagingImplies
  DEF Inv, TypeOK
<1> QED
  BY <1>1, Invariant, PTL

\* Whatever the age limits of the index are and however long syncs take: while it answers
\* for unknown scenes (canResolveUnknownScenesAsNotRequested), it knows every requested,
\* tracked or available scene whose row was stamped, and whose source's success was
\* stored, soon enough around its writing for the row to outlive the success.
THEOREM UnknownScenesAbsent == Spec => []UnknownAbsentUnlessSlow
<1>1. Inv => UnknownAbsentUnlessSlow
  BY FreshnessImplies DEF Inv, UnknownAbsentUnlessSlow
<1> QED
  BY <1>1, Invariant, PTL

\* What a caller is told of a scene in Stash, from the cache, from a lookup that it shares
\* or from its own, was so no longer ago than an entry lives and a lookup takes, in the
\* Stash that was configured when it asked (resolveStashAvailability).
THEOREM AnswersAreRecent == Spec => []AnswersRecent
<1>1. Inv => AnswersRecent
  BY AvailabilityImplies DEF Inv, AnswersRecent
<1> QED
  BY <1>1, Invariant, PTL

\* resolveForScene and resolveForScenes show the same status for the same evidence.
THEOREM SameAnswer == Spec => []SingleAgreesWithBatch
<1>1. Inv => SingleAgreesWithBatch
  BY QueriesImplies DEF Inv, SingleAgreesWithBatch
<1> QED
  BY <1>1, Invariant, PTL

\* resolveQueueLifecycleState: however many items there are, in whatever order the loop
\* reads them and wherever it returns, it answers the strongest lifecycle.
THEOREM ScanIsResolver == Spec => []ScanMatchesResolver
<1>1. Inv => ScanMatchesResolver
  BY DEF Inv, ScanInv, ScanMatchesResolver
<1> QED
  BY <1>1, Invariant, PTL

\* summarizeQueueItems and synthesizeQueueItems: for every queue in which no item that
\* waits is in an import state, the one stored item stands for all.
THEOREM StoredItemStandsForQueue == Spec => []HealthyItemResolvesAlike
<1>1. HealthyItemResolvesAlike
  BY SelectedResolvesAlike DEF HealthyItemResolvesAlike
<1> QED
  BY <1>1, PTL

\* However saves, tests and resets overlap, one catalog provider at most has an address,
\* but for a save or a test that missed the first insertion of the other's row: a
\* transaction replaces every row that was there when it began.
THEOREM OneCatalog == Spec => []OneProviderUnlessMissed
<1>1. Inv => OneProviderUnlessMissed
  BY ConnectionsImplies DEF Inv, OneProviderUnlessMissed
<1> QED
  BY <1>1, Invariant, PTL

\* However saves, tests and resets overlap, a connection that counts as configured, or is
\* in use, has answered a test.
THEOREM OnlyTestedUsed == Spec => []ConfiguredWasTested
<1>1. Inv => ConfiguredWasTested
  BY ConnectionsImplies DEF Inv, ConfiguredWasTested
<1> QED
  BY <1>1, Invariant, PTL

\* Whatever the threshold and however the calls' reads, writes and cache updates overlap,
\* a failure that follows a success alone does not degrade a service.
THEOREM LoneFailureHarmless == Spec => []LoneFailureNeverDegrades
<1>1. Inv => LoneFailureNeverDegrades
  BY HealthImplies DEF Inv, LoneFailureNeverDegrades
<1> QED
  BY <1>1, Invariant, PTL

\* Whatever the page size and the shape of the answers: a download that is in the queue
\* throughout a complete call is in its snapshot, when none left the queue or changed
\* places meanwhile, though others are queued before it (fetchAllQueueRecords).
THEOREM StayingAreRead == Spec => []StayingDownloadsRead
<1>1. Inv => StayingDownloadsRead
  BY PagingImplies DEF Inv, StayingDownloadsRead
<1> QED
  BY <1>1, Invariant, PTL

================================================================================
