------------------------------ MODULE SyncLease ------------------------------
(***************************************************************************)
(* The job leases of the indexing subsystem.                               *)
(*                                                                         *)
(* Every indexing job runs inside SyncStateService.runWithLease: it claims *)
(* the job's SyncState row with one conditional update, runs a handler,    *)
(* and writes SUCCEEDED or FAILED back, clearing leaseUntil.  The          *)
(* scheduler starts jobs from its timers behind an in-process set          *)
(* (runningJobs); the indexing controller and the bootstrap job call the   *)
(* same functions without it.  Neither write at the end of a run asks      *)
(* whether the run still owns the lease.                                   *)
(*                                                                         *)
(* Time is relative: lease[j] is leaseUntil minus the present, and a run   *)
(* remembers how long ago it read its own clock (age), because             *)
(* tryAcquireLease reads the clock before its first query and uses it in   *)
(* its second.                                                             *)
(***************************************************************************)
EXTENDS Integers

CONSTANTS
  Jobs,         \* the job names (INDEXING_JOB_NAMES)
  Runs,         \* slots for calls of runWithLease that are in flight
  LeaseTicks,   \* leaseMs, in ticks
  MaxDelay,     \* bound: ticks between reading the clock and the claim
  MaxRestarts,  \* bound: restarts of the process
  NoLease,      \* leaseUntil = null
  NoJob         \* the job of a slot that is free

ASSUME LeaseAssumption ==
  /\ LeaseTicks \in Nat \ {0}
  /\ MaxDelay \in Nat
  /\ MaxRestarts \in Nat
  /\ NoLease \notin Int
  /\ NoJob \notin Jobs

VARIABLES
  status,       \* SyncState.status of each job; "ABSENT" when it has no row
  lease,        \* SyncState.leaseUntil - now
  run,          \* the calls of runWithLease in flight
  runningJobs,  \* IndexingScheduler.runningJobs
  overran,      \* history: some run now in flight for the job lost its lease
  restarts

vars == <<status, lease, run, runningJobs, overran, restarts>>

-----------------------------------------------------------------------------
Statuses == {"ABSENT", "IDLE", "RUNNING", "SUCCEEDED", "FAILED"}

\* Where a call stands: "upsert", "claim" and "reread" are the three queries of
\* tryAcquireLease.
Steps == {"idle", "upsert", "claim", "reread", "handler",
          "markSuccess", "markFailure"}

\* The steps of a run that holds a claim it has not written back.
HoldingSteps == {"reread", "handler", "markSuccess", "markFailure"}

\* A lease that ran out MaxDelay ticks ago is out for every clock still in use.
Remaining == {t \in Int : -MaxDelay <= t /\ t <= LeaseTicks}

Run == [pc : Steps, job : Jobs \union {NoJob}, scheduled : BOOLEAN,
        age : 0..MaxDelay, left : Remaining]

Idle == [pc |-> "idle", job |-> NoJob, scheduled |-> FALSE, age |-> 0, left |-> 0]

Holds(r, j) == run[r].job = j /\ run[r].pc \in HoldingSteps

\* The history variable after a step: set while a run of the job is in flight
\* that was, or another that met it in flight was, past the end of its lease.
Overran(j) ==
  \E r \in Runs : /\ Holds(r, j)'
                  /\ \/ overran[j]
                     \/ run'[r].left <= 0

RecordOverruns == overran' = [j \in Jobs |-> Overran(j)]

\* The call leaves runWithLease; the scheduler's finally forgets its job.
Leave(r) ==
  /\ run' = [run EXCEPT ![r] = Idle]
  /\ runningJobs' = IF run[r].scheduled THEN runningJobs \ {run[r].job}
                                        ELSE runningJobs

GoTo(r, step) == run' = [run EXCEPT ![r].pc = step]

-----------------------------------------------------------------------------
Init ==
  /\ status = [j \in Jobs |-> "ABSENT"]
  /\ lease = [j \in Jobs |-> NoLease]
  /\ run = [r \in Runs |-> Idle]
  /\ runningJobs = {}
  /\ overran = [j \in Jobs |-> FALSE]
  /\ restarts = 0

Start(r, j, byScheduler) ==
  /\ run[r].pc = "idle"
  /\ run' = [run EXCEPT ![r] = [pc |-> "upsert", job |-> j,
                                scheduled |-> byScheduler, age |-> 0, left |-> 0]]
  /\ RecordOverruns
  /\ UNCHANGED <<status, lease, restarts>>

\* Fault: the timers do not look at runningJobs.
RunInBackgroundUnguarded(r, j) ==
  /\ runningJobs' = runningJobs \union {j}
  /\ Start(r, j, TRUE)

\* A timer, or onApplicationBootstrap: skipped while the scheduler's last run
\* of the job is in flight.
RunInBackground(r, j) ==
  /\ j \notin runningJobs
  /\ runningJobs' = runningJobs \union {j}
  /\ Start(r, j, TRUE)

\* runManualSync, and the jobs that bootstrapIndex calls.
RunDirectly(r, j) ==
  /\ Start(r, j, FALSE)
  /\ UNCHANGED runningJobs

\* tryAcquireLease: the upsert that creates a missing row.
UpsertRow(r) ==
  /\ run[r].pc = "upsert"
  /\ status' = [status EXCEPT ![run[r].job] = IF @ = "ABSENT" THEN "IDLE" ELSE @]
  /\ GoTo(r, "claim")
  /\ RecordOverruns
  /\ UNCHANGED <<lease, runningJobs, restarts>>

\* Fault: the lease is compared with the new lease's end instead of with `now`.
ClaimableBeforeNewEnd(r, j) ==
  lease[j] # NoLease => lease[j] + run[r].age <= LeaseTicks

\* Fault: only a cleared lease can be claimed, an expired one cannot.
ClaimableIfCleared(r, j) == lease[j] = NoLease

\* The condition of the conditional update, read with the clock of the caller:
\* leaseUntil is null or not after `now`.
Claimable(r, j) == lease[j] # NoLease => lease[j] + run[r].age <= 0

Claim(r) ==
  LET j == run[r].job
      until == LeaseTicks - run[r].age
  IN /\ run[r].pc = "claim"
     /\ Claimable(r, j)
     /\ status' = [status EXCEPT ![j] = "RUNNING"]
     /\ lease' = [lease EXCEPT ![j] = until]
     /\ run' = [run EXCEPT ![r].pc = "reread", ![r].left = until]
     /\ RecordOverruns
     /\ UNCHANGED <<runningJobs, restarts>>

\* The update matched no row: runWithLease returns null.
SkipOverlapping(r) ==
  /\ run[r].pc = "claim"
  /\ ~Claimable(r, run[r].job)
  /\ Leave(r)
  /\ RecordOverruns
  /\ UNCHANGED <<status, lease, restarts>>

\* The claimed row is read back and the handler starts.
Reread(r) ==
  /\ run[r].pc = "reread"
  /\ GoTo(r, "handler")
  /\ RecordOverruns
  /\ UNCHANGED <<status, lease, runningJobs, restarts>>

HandlerReturns(r) ==
  /\ run[r].pc = "handler"
  /\ GoTo(r, "markSuccess")
  /\ RecordOverruns
  /\ UNCHANGED <<status, lease, runningJobs, restarts>>

HandlerThrows(r) ==
  /\ run[r].pc = "handler"
  /\ GoTo(r, "markFailure")
  /\ RecordOverruns
  /\ UNCHANGED <<status, lease, runningJobs, restarts>>

\* Fault: the mark leaves leaseUntil as it is.
MarkKeepingLease(r, step, result) ==
  /\ run[r].pc = step
  /\ status' = [status EXCEPT ![run[r].job] = result]
  /\ Leave(r)
  /\ RecordOverruns
  /\ UNCHANGED <<lease, restarts>>

\* Both marks write whatever row they find: nothing names the run that owns it.
Mark(r, step, result) ==
  /\ run[r].pc = step
  /\ status' = [status EXCEPT ![run[r].job] = result]
  /\ lease' = [lease EXCEPT ![run[r].job] = NoLease]
  /\ Leave(r)
  /\ RecordOverruns
  /\ UNCHANGED restarts

MarkSuccess(r) == Mark(r, "markSuccess", "SUCCEEDED")

MarkFailure(r) == Mark(r, "markFailure", "FAILED")

\* Fault: the scheduler forgets its job only when the run succeeded.
DatabaseErrorKeepingSlot(r) ==
  /\ run[r].pc \in {"upsert", "claim", "reread", "markFailure"}
  /\ run' = [run EXCEPT ![r] = Idle]
  /\ RecordOverruns
  /\ UNCHANGED <<status, lease, runningJobs, restarts>>

\* A query fails.  Only markSuccess is inside the try block that ends in
\* markFailure; every other failure leaves runWithLease with the row as it is.
DatabaseError(r) ==
  /\ \/ /\ run[r].pc \in {"upsert", "claim", "reread", "markFailure"}
        /\ Leave(r)
     \/ /\ run[r].pc = "markSuccess"
        /\ GoTo(r, "markFailure")
        /\ UNCHANGED runningJobs
  /\ RecordOverruns
  /\ UNCHANGED <<status, lease, restarts>>

-----------------------------------------------------------------------------
OneTickLess(t) == IF t > -MaxDelay THEN t - 1 ELSE t

Waiting(r) == run[r].pc \in {"upsert", "claim"}

\* Time passes.  The bound MaxDelay holds back a tick that would make the clock
\* reading of a call about to claim older than that.
Tick ==
  /\ \A r \in Runs : Waiting(r) => run[r].age < MaxDelay
  /\ lease' = [j \in Jobs |-> IF lease[j] = NoLease THEN NoLease
                                                    ELSE OneTickLess(lease[j])]
  /\ run' = [r \in Runs |->
               CASE Waiting(r) -> [run[r] EXCEPT !.age = @ + 1]
                 [] run[r].pc \in HoldingSteps ->
                      [run[r] EXCEPT !.left = OneTickLess(@)]
                 [] OTHER -> run[r]]
  /\ RecordOverruns
  /\ UNCHANGED <<status, runningJobs, restarts>>

\* The process dies and starts again: what it kept in memory is gone, the rows
\* are as it left them.
Restart ==
  /\ restarts < MaxRestarts
  /\ restarts' = restarts + 1
  /\ run' = [r \in Runs |-> Idle]
  /\ runningJobs' = {}
  /\ RecordOverruns
  /\ UNCHANGED <<status, lease>>

RunStep(r) ==
  \/ UpsertRow(r) \/ Claim(r) \/ SkipOverlapping(r) \/ Reread(r)
  \/ HandlerReturns(r) \/ HandlerThrows(r) \/ MarkSuccess(r) \/ MarkFailure(r)

Next ==
  \/ \E r \in Runs :
       \/ \E j \in Jobs : RunInBackground(r, j) \/ RunDirectly(r, j)
       \/ RunStep(r)
       \/ DatabaseError(r)
  \/ Tick
  \/ Restart

\* Time and the timers never stop; a call in flight goes on (fetchWithTimeout ends
\* the wait for every answer, and an answer that has begun comes to an end); and a
\* query that keeps being tried does not fail for ever.
Fairness ==
  /\ SF_vars(Tick)
  /\ \A j \in Jobs : SF_vars(\E r \in Runs : RunInBackground(r, j))
  /\ \A r \in Runs : /\ WF_vars(RunStep(r))
                     /\ SF_vars(UpsertRow(r))
                     /\ SF_vars(Claim(r))

Safe == Init /\ [][Next]_vars
Spec == Safe /\ Fairness

-----------------------------------------------------------------------------
\* Every variable has its type, and a row carries a lease exactly while it says
\* RUNNING: claim, markSuccess and markFailure each write both columns.
TypeOK ==
  /\ status \in [Jobs -> Statuses]
  /\ lease \in [Jobs -> Remaining \union {NoLease}]
  /\ run \in [Runs -> Run]
  /\ runningJobs \subseteq Jobs
  /\ overran \in [Jobs -> BOOLEAN]
  /\ restarts \in 0..MaxRestarts
  /\ \A j \in Jobs : status[j] = "RUNNING" <=> lease[j] # NoLease
  /\ \A r \in Runs : run[r].pc # "idle" => run[r].job \in Jobs

\* Two runs of a job are never in flight together unless one of the runs that
\* met in this busy period outlived its lease (runWithLease and the conditional
\* update of tryAcquireLease; overran forgets as soon as the job is quiet).
ExclusiveUnlessOverrun ==
  \A j \in Jobs : ~overran[j] =>
    \A r, s \in Runs : Holds(r, j) /\ Holds(s, j) => r = s

\* What the test "prevents concurrent runs of the same job lease" asks of
\* runWithLease: two runs of a job are never in flight together while the lease
\* that each of them claimed still has time left.
LiveLeasesExclusive ==
  \A j \in Jobs : \A r, s \in Runs :
    Holds(r, j) /\ run[r].left > 0 /\ Holds(s, j) /\ run[s].left > 0 => r = s

\* The scheduler's set names a job exactly while one call that the scheduler
\* started is in flight for it, on every way out of runWithLease.
RunningJobsExact ==
  /\ \A j \in runningJobs :
       \E r \in Runs : run[r].pc # "idle" /\ run[r].scheduled /\ run[r].job = j
  /\ \A r, s \in Runs :
       /\ run[r].pc # "idle" /\ run[r].scheduled
       /\ run[s].pc # "idle" /\ run[s].scheduled
       /\ run[r].job = run[s].job
       => r = s /\ run[r].job \in runningJobs

\* A row left RUNNING by a run that is gone (a crash, or a mark that failed)
\* does not stay so: the lease runs out and a later run claims it.
Stranded(j) == status[j] = "RUNNING" /\ \A r \in Runs : ~Holds(r, j)

StrandedLeaseReclaimed == \A j \in Jobs : Stranded(j) ~> ~Stranded(j)

\* The scheduler gets every job back: no way out of a run, and no failed query,
\* leaves its name in runningJobs, where it would stop the job until a restart.
SchedulerSlotFreed == \A j \in Jobs : j \in runningJobs ~> j \notin runningJobs
=============================================================================
