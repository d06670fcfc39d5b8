-------------------------- MODULE SyncLease_proofs --------------------------
(***************************************************************************)
(* SyncLease for every set of jobs, every number of runs in flight, every  *)
(* lease and every delay: typing, the scheduler's set, and exclusion up to *)
(* overruns.                                                               *)
(***************************************************************************)
EXTENDS SyncLease, TLAPS

-----------------------------------------------------------------------------
\* One tick keeps what is left of a lease within its range.
LEMMA TickInRange == \A t \in Remaining : OneTickLess(t) \in Remaining
BY LeaseAssumption DEF OneTickLess, Remaining

\* A lease claimed with a clock that is old is in range.
LEMMA ClaimInRange == \A age \in 0..MaxDelay : LeaseTicks - age \in Remaining
BY LeaseAssumption DEF Remaining

\* The free slot is a run.
LEMMA IdleIsRun == Idle \in Run /\ 0 \in Remaining
BY LeaseAssumption DEF Idle, Run, Steps, Remaining

LEMMA RecordType == RecordOverruns => overran' \in [Jobs -> BOOLEAN]
<1> SUFFICES ASSUME RecordOverruns PROVE overran' \in [Jobs -> BOOLEAN]
  OBVIOUS
<1>1. \A j \in Jobs : Overran(j) \in BOOLEAN
  BY DEF Overran
<1> QED
  BY <1>1 DEF RecordOverruns

-----------------------------------------------------------------------------
\* Type correctness: every state of SyncLease is well typed, and a row carries a
\* lease exactly while it says RUNNING (tryAcquireLease, markSuccess, markFailure).
LEMMA TypeInit == Init => TypeOK
BY LeaseAssumption, IdleIsRun DEF Init, TypeOK, Statuses, Idle

LEMMA TypeNext == TypeOK /\ [Next]_vars => TypeOK'
<1> SUFFICES ASSUME TypeOK, [Next]_vars PROVE TypeOK'
  OBVIOUS
<1> USE DEF TypeOK
<1>1. ASSUME NEW r \in Runs, NEW j \in Jobs, RunInBackground(r, j) PROVE TypeOK'
  BY <1>1, LeaseAssumption, RecordType, IdleIsRun
  DEF RunInBackground, Start, Run, Steps
<1>2. ASSUME NEW r \in Runs, NEW j \in Jobs, RunDirectly(r, j) PROVE TypeOK'
  BY <1>2, LeaseAssumption, RecordType, IdleIsRun DEF RunDirectly, Start, Run, Steps
<1>3. ASSUME NEW r \in Runs, UpsertRow(r) PROVE TypeOK'
  BY <1>3, RecordType DEF UpsertRow, GoTo, Run, Steps, Statuses
<1>4. ASSUME NEW r \in Runs, Claim(r) PROVE TypeOK'
  <2>1. run[r].job \in Jobs /\ run[r].age \in 0..MaxDelay /\ run[r].pc = "claim"
    BY <1>4 DEF Claim, Run
  <2>2. LeaseTicks - run[r].age \in Remaining /\ LeaseTicks - run[r].age # NoLease
    BY <2>1, ClaimInRange, LeaseAssumption DEF Remaining
  <2>3. run' = [run EXCEPT ![r].pc = "reread", ![r].left = LeaseTicks - run[r].age]
    BY <1>4 DEF Claim
  <2>4. run' \in [Runs -> Run] /\ \A s \in Runs : run'[s].pc # "idle" => run'[s].job \in Jobs
    BY <2>1, <2>2, <2>3 DEF Run, Steps
  <2>5. /\ status' = [status EXCEPT ![run[r].job] = "RUNNING"]
        /\ lease' = [lease EXCEPT ![run[r].job] = LeaseTicks - run[r].age]
    BY <1>4 DEF Claim
  <2>6. /\ status' \in [Jobs -> Statuses]
        /\ lease' \in [Jobs -> Remaining \union {NoLease}]
        /\ \A j \in Jobs : status'[j] = "RUNNING" <=> lease'[j] # NoLease
    BY <2>1, <2>2, <2>5 DEF Statuses
  <2> QED
    BY <1>4, <2>4, <2>6, RecordType DEF Claim
<1>5. ASSUME NEW r \in Runs, SkipOverlapping(r) PROVE TypeOK'
  BY <1>5, RecordType, IdleIsRun DEF SkipOverlapping, Leave, Idle
<1>6. ASSUME NEW r \in Runs, Reread(r) PROVE TypeOK'
  BY <1>6, RecordType DEF Reread, GoTo, Run, Steps
<1>7. ASSUME NEW r \in Runs, HandlerReturns(r) PROVE TypeOK'
  BY <1>7, RecordType DEF HandlerReturns, GoTo, Run, Steps
<1>8. ASSUME NEW r \in Runs, HandlerThrows(r) PROVE TypeOK'
  BY <1>8, RecordType DEF HandlerThrows, GoTo, Run, Steps
<1>9. ASSUME NEW r \in Runs, NEW step \in {"markSuccess", "markFailure"},
             NEW result \in {"SUCCEEDED", "FAILED"}, Mark(r, step, result)
      PROVE TypeOK'
  <2>1. run' \in [Runs -> Run] /\ \A s \in Runs : run'[s].pc # "idle" => run'[s].job \in Jobs
    BY <1>9, IdleIsRun DEF Mark, Leave, Idle
  <2>2. /\ status' \in [Jobs -> Statuses]
        /\ lease' \in [Jobs -> Remaining \union {NoLease}]
        /\ \A j \in Jobs : status'[j] = "RUNNING" <=> lease'[j] # NoLease
    BY <1>9 DEF Mark, Statuses
  <2> QED
    BY <1>9, <2>1, <2>2, RecordType DEF Mark, Leave
<1>10. ASSUME NEW r \in Runs, DatabaseError(r) PROVE TypeOK'
  <2>1. CASE Leave(r)
    BY <1>10, <2>1, RecordType, IdleIsRun DEF DatabaseError, Leave, Idle
  <2>2. CASE run[r].pc = "markSuccess" /\ GoTo(r, "markFailure") /\ UNCHANGED runningJobs
    BY <1>10, <2>2, RecordType DEF DatabaseError, GoTo, Run, Steps
  <2> QED
    BY <1>10, <2>1, <2>2 DEF DatabaseError
<1>11. CASE Tick
  <2>1. \A r \in Runs : run'[r] \in Run /\ run'[r].pc = run[r].pc /\ run'[r].job = run[r].job
    <3> SUFFICES ASSUME NEW r \in Runs
                 PROVE  run'[r] \in Run /\ run'[r].pc = run[r].pc /\ run'[r].job = run[r].job
      OBVIOUS
    <3>1. CASE Waiting(r)
      <4>1. run'[r] = [run[r] EXCEPT !.age = @ + 1] /\ run[r].age < MaxDelay
        BY <1>11, <3>1 DEF Tick, Waiting, HoldingSteps
      <4>2. run[r].age + 1 \in 0..MaxDelay
        BY <4>1, LeaseAssumption DEF Run
      <4> QED
        BY <4>1, <4>2 DEF Run
    <3>2. CASE ~Waiting(r) /\ run[r].pc \in HoldingSteps
      <4>1. run'[r] = [run[r] EXCEPT !.left = OneTickLess(@)]
        BY <1>11, <3>2 DEF Tick, Waiting, HoldingSteps
      <4> QED
        BY <4>1, TickInRange DEF Run
    <3>3. CASE ~Waiting(r) /\ run[r].pc \notin HoldingSteps
      BY <1>11, <3>3 DEF Tick
    <3> QED
      BY <3>1, <3>2, <3>3
  <2>2. run' \in [Runs -> Run]
    BY <1>11, <2>1 DEF Tick
  <2>3. \A j \in Jobs : /\ lease'[j] \in Remaining \union {NoLease}
                        /\ lease'[j] = NoLease <=> lease[j] = NoLease
    BY <1>11, TickInRange, LeaseAssumption DEF Tick, Remaining
  <2>4. lease' \in [Jobs -> Remaining \union {NoLease}]
    BY <1>11, <2>3 DEF Tick
  <2> QED
    BY <1>11, <2>1, <2>2, <2>3, <2>4, RecordType DEF Tick
<1>12. CASE Restart
  BY <1>12, LeaseAssumption, RecordType, IdleIsRun DEF Restart, Idle
<1>13. CASE UNCHANGED vars
  BY <1>13 DEF vars
<1> QED
  BY <1>1, <1>2, <1>3, <1>4, <1>5, <1>6, <1>7, <1>8, <1>9, <1>10, <1>11, <1>12, <1>13
  DEF Next, RunStep, MarkSuccess, MarkFailure

\* Every reachable state of the leases and of the scheduler is well typed.
THEOREM Typing == Safe => []TypeOK
BY TypeInit, TypeNext, PTL DEF Safe

-----------------------------------------------------------------------------
(***************************************************************************)
(* RunningJobsExact is inductive once the types are known: only a start    *)
(* guarded by runningJobs adds a scheduled run, and every way out that     *)
(* frees its slot takes its job out of the set.                            *)
(***************************************************************************)
\* A step that keeps the calls in flight, their jobs and the set keeps exactness.
LEMMA SameCalls ==
  ASSUME RunningJobsExact, UNCHANGED runningJobs,
         \A r \in Runs : /\ run'[r].pc = "idle" <=> run[r].pc = "idle"
                         /\ run'[r].job = run[r].job
                         /\ run'[r].scheduled = run[r].scheduled
  PROVE  RunningJobsExact'
BY DEF RunningJobsExact

\* So does a call that leaves.
LEMMA LeaveExact ==
  ASSUME TypeOK, RunningJobsExact, NEW r \in Runs, run[r].pc # "idle", Leave(r)
  PROVE  RunningJobsExact'
<1>1. /\ run'[r].pc = "idle"
      /\ \A s \in Runs \ {r} : run'[s] = run[s]
  BY DEF Leave, Idle, TypeOK
<1>2. CASE run[r].scheduled
  <2>1. runningJobs' = runningJobs \ {run[r].job}
    BY <1>2 DEF Leave
  <2> QED
    BY <1>1, <1>2, <2>1 DEF RunningJobsExact
<1>3. CASE ~run[r].scheduled
  <2>1. runningJobs' = runningJobs
    BY <1>3 DEF Leave
  <2> QED
    BY <1>1, <1>3, <2>1 DEF RunningJobsExact
<1> QED
  BY <1>2, <1>3

LEMMA ExactNext == TypeOK /\ RunningJobsExact /\ [Next]_vars => RunningJobsExact'
<1> SUFFICES ASSUME TypeOK, RunningJobsExact, [Next]_vars PROVE RunningJobsExact'
  OBVIOUS
<1>1. ASSUME NEW r \in Runs, NEW j \in Jobs, RunInBackground(r, j) PROVE RunningJobsExact'
  <2>1. /\ run[r].pc = "idle" /\ j \notin runningJobs
        /\ runningJobs' = runningJobs \union {j}
        /\ run'[r].pc = "upsert" /\ run'[r].scheduled /\ run'[r].job = j
        /\ \A s \in Runs \ {r} : run'[s] = run[s]
    BY <1>1 DEF RunInBackground, Start, TypeOK
  <2> QED
    BY <2>1 DEF RunningJobsExact
<1>2. ASSUME NEW r \in Runs, NEW j \in Jobs, RunDirectly(r, j) PROVE RunningJobsExact'
  <2>1. /\ run[r].pc = "idle"
        /\ runningJobs' = runningJobs
        /\ run'[r].scheduled = FALSE
        /\ \A s \in Runs \ {r} : run'[s] = run[s]
    BY <1>2 DEF RunDirectly, Start, TypeOK
  <2> QED
    BY <2>1 DEF RunningJobsExact
<1>3. ASSUME NEW r \in Runs, UpsertRow(r) PROVE RunningJobsExact'
  BY <1>3, SameCalls DEF UpsertRow, GoTo, TypeOK, Run
<1>4. ASSUME NEW r \in Runs, Claim(r) PROVE RunningJobsExact'
  <2>1. run' = [run EXCEPT ![r].pc = "reread", ![r].left = LeaseTicks - run[r].age]
        /\ run[r].pc = "claim" /\ runningJobs' = runningJobs
    BY <1>4 DEF Claim
  <2>2. \A s \in Runs : /\ run'[s].pc = "idle" <=> run[s].pc = "idle"
                        /\ run'[s].job = run[s].job
                        /\ run'[s].scheduled = run[s].scheduled
    BY <2>1 DEF TypeOK, Run
  <2> QED
    BY <2>1, <2>2, SameCalls
<1>5. ASSUME NEW r \in Runs, SkipOverlapping(r) PROVE RunningJobsExact'
  BY <1>5, LeaveExact DEF SkipOverlapping
<1>6. ASSUME NEW r \in Runs, Reread(r) PROVE RunningJobsExact'
  BY <1>6, SameCalls DEF Reread, GoTo, TypeOK, Run
<1>7. ASSUME NEW r \in Runs, HandlerReturns(r) PROVE RunningJobsExact'
  BY <1>7, SameCalls DEF HandlerReturns, GoTo, TypeOK, Run
<1>8. ASSUME NEW r \in Runs, HandlerThrows(r) PROVE RunningJobsExact'
  BY <1>8, SameCalls DEF HandlerThrows, GoTo, TypeOK, Run
<1>9. ASSUME NEW r \in Runs, MarkSuccess(r) PROVE RunningJobsExact'
  BY <1>9, LeaveExact DEF MarkSuccess, Mark
<1>10. ASSUME NEW r \in Runs, MarkFailure(r) PROVE RunningJobsExact'
  BY <1>10, LeaveExact DEF MarkFailure, Mark
<1>11. ASSUME NEW r \in Runs, DatabaseError(r) PROVE RunningJobsExact'
  <2>1. CASE run[r].pc \in {"upsert", "claim", "reread", "markFailure"} /\ Leave(r)
    BY <2>1, LeaveExact
  <2>2. CASE run[r].pc = "markSuccess" /\ GoTo(r, "markFailure") /\ UNCHANGED runningJobs
    BY <2>2, SameCalls DEF GoTo, TypeOK, Run
  <2> QED
    BY <1>11, <2>1, <2>2 DEF DatabaseError
<1>12. CASE Tick
  <2>1. \A r \in Runs : /\ run'[r].pc = run[r].pc /\ run'[r].job = run[r].job
                        /\ run'[r].scheduled = run[r].scheduled
    <3> SUFFICES ASSUME NEW r \in Runs
                 PROVE  /\ run'[r].pc = run[r].pc /\ run'[r].job = run[r].job
                        /\ run'[r].scheduled = run[r].scheduled
      OBVIOUS
    <3>1. run[r] \in Run
      BY DEF TypeOK
    <3>2. \/ run'[r] = [run[r] EXCEPT !.age = @ + 1]
          \/ run'[r] = [run[r] EXCEPT !.left = OneTickLess(@)]
          \/ run'[r] = run[r]
      BY <1>12 DEF Tick
    <3> QED
      BY <3>1, <3>2 DEF Run
  <2> QED
    BY <1>12, <2>1, SameCalls DEF Tick
<1>13. CASE Restart
  BY <1>13 DEF Restart, RunningJobsExact, Idle
<1>14. CASE UNCHANGED vars
  BY <1>14, SameCalls DEF vars
<1> QED
  BY <1>1, <1>2, <1>3, <1>4, <1>5, <1>6, <1>7, <1>8, <1>9, <1>10, <1>11, <1>12, <1>13, <1>14
  DEF Next, RunStep

\* IndexingScheduler.runningJobs names a job exactly while one call that the
\* scheduler started is in flight for it.
THEOREM SchedulerSetExact == Safe => []RunningJobsExact
<1>1. Init => RunningJobsExact
  BY DEF Init, RunningJobsExact, Idle
<1> QED
  BY <1>1, ExactNext, Typing, PTL DEF Safe

-----------------------------------------------------------------------------
(***************************************************************************)
(* Exclusion.  That no two runs are in flight is not inductive: the claim  *)
(* looks at the lease in the row, so the invariant must say that as long   *)
(* as nobody overran, the row's lease is the holder's own and still runs.  *)
(***************************************************************************)
Covered(j) ==
  ~overran[j] =>
    \A r \in Runs : Holds(r, j) =>
      /\ run[r].left > 0 /\ lease[j] = run[r].left
      /\ \A s \in Runs : Holds(s, j) => s = r

LeaseCoversHolder == \A j \in Jobs : Covered(j)

\* If a holder is left and the job has not overrun after a step, it had not before
\* and the holder's lease still runs.
LEMMA NotOverran ==
  ASSUME RecordOverruns, NEW j \in Jobs, ~overran'[j], NEW r \in Runs, Holds(r, j)',
         run'[r].left \in Int
  PROVE  ~overran[j] /\ run'[r].left > 0
<1>1. ~Overran(j)
  BY DEF RecordOverruns
<1> QED
  BY <1>1 DEF Overran

\* A step that claims nothing, writes no lease and keeps what is left of the leases
\* preserves the invariant, whoever it lets go.
LEMMA NoNewHolder ==
  ASSUME TypeOK, TypeOK', LeaseCoversHolder, RecordOverruns, NEW j \in Jobs,
         lease'[j] = lease[j],
         \A r \in Runs : Holds(r, j)' => Holds(r, j) /\ run'[r].left = run[r].left
  PROVE  Covered(j)'
<1> SUFFICES ASSUME ~overran'[j], NEW r \in Runs, Holds(r, j)'
             PROVE  /\ run'[r].left > 0 /\ lease'[j] = run'[r].left
                    /\ \A s \in Runs : Holds(s, j)' => s = r
  BY DEF Covered
<1>1. run'[r].left \in Int
  BY DEF TypeOK, Run, Remaining
<1>2. ~overran[j] /\ run'[r].left > 0
  BY <1>1, NotOverran
<1> QED
  BY <1>2 DEF LeaseCoversHolder, Covered

LEMMA CoveredClaim ==
  ASSUME TypeOK, TypeOK', LeaseCoversHolder, NEW r \in Runs, Claim(r), NEW j \in Jobs
  PROVE  Covered(j)'
<1>0. /\ run[r] \in Run /\ run[r].pc = "claim" /\ RecordOverruns
      /\ run' = [run EXCEPT ![r].pc = "reread", ![r].left = LeaseTicks - run[r].age]
      /\ lease' = [lease EXCEPT ![run[r].job] = LeaseTicks - run[r].age]
      /\ Claimable(r, run[r].job)
  BY DEF Claim, TypeOK
<1>1. CASE run[r].job # j
  <2>1. lease'[j] = lease[j]
    BY <1>0, <1>1 DEF TypeOK
  <2>2. \A s \in Runs : Holds(s, j)' => Holds(s, j) /\ run'[s].left = run[s].left
    BY <1>0, <1>1 DEF Holds, TypeOK, Run
  <2> QED
    BY <1>0, <2>1, <2>2, NoNewHolder
<1>2. CASE run[r].job = j
  <2> SUFFICES ASSUME ~overran'[j], NEW s \in Runs, Holds(s, j)'
               PROVE  /\ run'[s].left > 0 /\ lease'[j] = run'[s].left
                      /\ \A q \in Runs : Holds(q, j)' => q = s
    BY DEF Covered
  <2>1. run'[s].left \in Int
    BY DEF TypeOK, Run, Remaining
  <2>2. ~overran[j] /\ run'[s].left > 0
    BY <1>0, <2>1, NotOverran
  <2>3. \A q \in Runs : ~Holds(q, j)
    <3> SUFFICES ASSUME NEW q \in Runs, Holds(q, j) PROVE FALSE
      OBVIOUS
    <3>1. run[q].left > 0 /\ lease[j] = run[q].left /\ run[q].left \in Int
      BY <2>2 DEF LeaseCoversHolder, Covered, TypeOK, Run, Remaining
    <3>2. lease[j] # NoLease /\ run[r].age \in Nat
      BY <1>0, <3>1, LeaseAssumption DEF Run
    <3>3. lease[j] + run[r].age <= 0
      BY <1>0, <1>2, <3>2 DEF Claimable
    <3> QED
      BY <3>1, <3>2, <3>3
  <2>4. \A q \in Runs : Holds(q, j)' => q = r
    BY <1>0, <2>3 DEF Holds, TypeOK
  <2>5. s = r /\ run'[r].left = lease'[j]
    BY <1>0, <1>2, <2>4 DEF TypeOK, Run
  <2> QED
    BY <2>2, <2>4, <2>5
<1> QED
  BY <1>1, <1>2

LEMMA CoveredMark ==
  ASSUME TypeOK, TypeOK', LeaseCoversHolder, NEW r \in Runs,
         NEW step \in {"markSuccess", "markFailure"}, NEW result,
         Mark(r, step, result), NEW j \in Jobs
  PROVE  Covered(j)'
<1>0. /\ run[r] \in Run /\ run[r].pc = step /\ RecordOverruns
      /\ run' = [run EXCEPT ![r] = Idle]
      /\ lease' = [lease EXCEPT ![run[r].job] = NoLease]
  BY DEF Mark, Leave, TypeOK
<1>1. CASE run[r].job # j
  <2>1. lease'[j] = lease[j]
    BY <1>0, <1>1 DEF TypeOK
  <2>2. \A s \in Runs : Holds(s, j)' => Holds(s, j) /\ run'[s].left = run[s].left
    BY <1>0, <1>1 DEF Holds, TypeOK, Idle, HoldingSteps
  <2> QED
    BY <1>0, <2>1, <2>2, NoNewHolder
<1>2. CASE run[r].job = j
  <2> SUFFICES ASSUME ~overran'[j], NEW s \in Runs, Holds(s, j)' PROVE FALSE
    BY DEF Covered
  <2>1. run'[s].left \in Int
    BY DEF TypeOK, Run, Remaining
  <2>2. ~overran[j]
    BY <1>0, <2>1, NotOverran
  <2>3. Holds(r, j)
    BY <1>0, <1>2 DEF Holds, HoldingSteps
  <2>4. s # r /\ Holds(s, j)
    BY <1>0 DEF Holds, TypeOK, Idle, HoldingSteps
  <2> QED
    BY <2>2, <2>3, <2>4 DEF LeaseCoversHolder, Covered
<1> QED
  BY <1>1, <1>2

LEMMA CoveredTick ==
  ASSUME TypeOK, TypeOK', LeaseCoversHolder, Tick, NEW j \in Jobs
  PROVE  Covered(j)'
<1> SUFFICES ASSUME ~overran'[j], NEW r \in Runs, Holds(r, j)'
             PROVE  /\ run'[r].left > 0 /\ lease'[j] = run'[r].left
                    /\ \A s \in Runs : Holds(s, j)' => s = r
  BY DEF Covered
<1>1. \A s \in Runs : /\ Holds(s, j)' => Holds(s, j)
                      /\ Holds(s, j) => run'[s].left = OneTickLess(run[s].left)
  <2> SUFFICES ASSUME NEW s \in Runs
               PROVE  /\ Holds(s, j)' => Holds(s, j)
                      /\ Holds(s, j) => run'[s].left = OneTickLess(run[s].left)
    OBVIOUS
  <2>0. run[s] \in Run
    BY DEF TypeOK
  <2>1. CASE Waiting(s)
    <3>1. run'[s] = [run[s] EXCEPT !.age = @ + 1]
      BY <2>1 DEF Tick, Waiting, HoldingSteps
    <3> QED
      BY <2>0, <2>1, <3>1 DEF Holds, Waiting, HoldingSteps, Run
  <2>2. CASE ~Waiting(s) /\ run[s].pc \in HoldingSteps
    <3>1. run'[s] = [run[s] EXCEPT !.left = OneTickLess(@)]
      BY <2>2 DEF Tick, Waiting, HoldingSteps
    <3> QED
      BY <2>0, <3>1 DEF Holds, Run
  <2>3. CASE ~Waiting(s) /\ run[s].pc \notin HoldingSteps
    <3>1. run'[s] = run[s]
      BY <2>3 DEF Tick
    <3> QED
      BY <2>3, <3>1 DEF Holds
  <2> QED
    BY <2>1, <2>2, <2>3
<1>2. run'[r].left \in Int
  BY DEF TypeOK, Run, Remaining
<1>3. ~overran[j] /\ run'[r].left > 0
  BY <1>2, NotOverran DEF Tick
<1>4. lease[j] = run[r].left /\ lease[j] # NoLease
  <2>1. run[r].left \in Int
    BY DEF TypeOK, Run, Remaining
  <2>2. lease[j] = run[r].left
    BY <1>1, <1>3 DEF LeaseCoversHolder, Covered
  <2> QED
    BY <2>1, <2>2, LeaseAssumption
<1>5. lease'[j] = OneTickLess(lease[j])
  BY <1>4 DEF Tick
<1> QED
  BY <1>1, <1>3, <1>4, <1>5 DEF LeaseCoversHolder, Covered

LEMMA CoversNext == TypeOK /\ TypeOK' /\ LeaseCoversHolder /\ [Next]_vars => LeaseCoversHolder'
<1> SUFFICES ASSUME TypeOK, TypeOK', LeaseCoversHolder, [Next]_vars, NEW j \in Jobs
             PROVE  Covered(j)'
  BY DEF LeaseCoversHolder
<1>1. ASSUME NEW r \in Runs, NEW k \in Jobs, RunInBackground(r, k) \/ RunDirectly(r, k)
      PROVE  Covered(j)'
  BY <1>1, NoNewHolder
  DEF RunInBackground, RunDirectly, Start, Holds, HoldingSteps, TypeOK
<1>2. ASSUME NEW r \in Runs, UpsertRow(r) PROVE Covered(j)'
  BY <1>2, NoNewHolder DEF UpsertRow, GoTo, Holds, HoldingSteps, TypeOK, Run
<1>3. ASSUME NEW r \in Runs, Claim(r) PROVE Covered(j)'
  BY <1>3, CoveredClaim
<1>4. ASSUME NEW r \in Runs, SkipOverlapping(r) PROVE Covered(j)'
  BY <1>4, NoNewHolder DEF SkipOverlapping, Leave, Idle, Holds, HoldingSteps, TypeOK
<1>5. ASSUME NEW r \in Runs, Reread(r) \/ HandlerReturns(r) \/ HandlerThrows(r)
      PROVE  Covered(j)'
  <2>1. RecordOverruns /\ lease' = lease /\ run[r].pc \in HoldingSteps
    BY <1>5 DEF Reread, HandlerReturns, HandlerThrows, HoldingSteps
  <2>2. \E step \in Steps : run' = [run EXCEPT ![r].pc = step]
    BY <1>5 DEF Reread, HandlerReturns, HandlerThrows, GoTo, Steps
  <2>3. \A s \in Runs : Holds(s, j)' => Holds(s, j) /\ run'[s].left = run[s].left
    BY <2>1, <2>2 DEF Holds, TypeOK, Run
  <2> QED
    BY <2>1, <2>3, NoNewHolder
<1>6. ASSUME NEW r \in Runs, MarkSuccess(r) \/ MarkFailure(r) PROVE Covered(j)'
  BY <1>6, CoveredMark DEF MarkSuccess, MarkFailure
<1>7. ASSUME NEW r \in Runs, DatabaseError(r) PROVE Covered(j)'
  <2>1. CASE Leave(r)
    BY <1>7, <2>1, NoNewHolder DEF DatabaseError, Leave, Idle, Holds, HoldingSteps, TypeOK
  <2>2. CASE run[r].pc = "markSuccess" /\ GoTo(r, "markFailure")
    BY <1>7, <2>2, NoNewHolder DEF DatabaseError, GoTo, Holds, HoldingSteps, TypeOK, Run
  <2> QED
    BY <1>7, <2>1, <2>2 DEF DatabaseError
<1>8. CASE Tick
  BY <1>8, CoveredTick
<1>9. CASE Restart
  BY <1>9, NoNewHolder DEF Restart, Idle, Holds, HoldingSteps, TypeOK
<1>10. CASE UNCHANGED vars
  BY <1>10 DEF vars, LeaseCoversHolder, Covered, Holds
<1> QED
  BY <1>1, <1>2, <1>3, <1>4, <1>5, <1>6, <1>7, <1>8, <1>9, <1>10 DEF Next, RunStep

\* The claim of tryAcquireLease keeps the runs of a job apart, whatever queries
\* fail and whenever the process restarts, until one run outlives its lease.
THEOREM Exclusion == Safe => []ExclusiveUnlessOverrun
<1>1. Init => LeaseCoversHolder
  BY DEF Init, LeaseCoversHolder, Covered, Holds, Idle, HoldingSteps
<1>2. LeaseCoversHolder => ExclusiveUnlessOverrun
  BY DEF LeaseCoversHolder, Covered, ExclusiveUnlessOverrun
<1> QED
  BY <1>1, <1>2, CoversNext, Typing, PTL DEF Safe
=============================================================================
