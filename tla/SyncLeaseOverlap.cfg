SPECIFICATION Safe
CONSTANTS
  queue = queue
  r1 = r1
  r2 = r2
  Jobs = {queue}
  Runs = {r1, r2}
  LeaseTicks = 2
  MaxDelay = 1
  MaxRestarts = 1
  NoLease = NoLease
  NoJob = NoJob
INVARIANTS
  LiveLeasesExclusive
