--------------------------- MODULE ProviderHealth ---------------------------
(***************************************************************************)
(* How the calls to a provider make its service healthy or degraded        *)
(* (RuntimeHealthService and what the adapters report to it).  The service *)
(* is one row in the database with a cached copy; reading, deciding,       *)
(* writing and caching are steps of their own, and calls overlap.          *)
(***************************************************************************)
EXTENDS Integers, FiniteSets

CONSTANTS
  Calls,
  FAILURE_THRESHOLD,
  NoRecord,
  MaxEvents

HealthAssumption ==
  /\ FAILURE_THRESHOLD \in Nat \ {0, 1}
  /\ NoRecord \notin Nat
  /\ MaxEvents \in Nat

VARIABLES
  record,     \* RuntimeIntegrationHealth: consecutiveFailures, or no row
  cached,     \* the service's entry in RuntimeHealthService.cache
  loadedAll,
  calls,
  since,      \* history: failures since the service last recovered undisturbed
  torn,       \* history: recordings overlapped since one last wrote undisturbed
  events

vars == <<record, cached, loadedAll, calls, since, torn, events>>

-----------------------------------------------------------------------------
\* Counts beyond the threshold are alike.
Counts == 0..FAILURE_THRESHOLD
OneMore(n) == IF n < FAILURE_THRESHOLD THEN n + 1 ELSE n

\* status is DEGRADED exactly from the threshold on.
Degraded(n) == n = FAILURE_THRESHOLD

Kinds == {"whisparr", "stash", "catalog query", "catalog metadata", "catalog favorite"}
Answers == {"none", "error status", "not JSON", "errors", "errors and data",
            "duplicate favorite", "other data", "data"}

\* What the adapters report of an answer.  Whisparr's reports whatever it throws; the
\* others let an answer that is no JSON pass unreported.
Outcome(kind, answer) ==
  CASE answer \in {"none", "error status"} -> "failure"
    [] answer = "not JSON" -> IF kind = "whisparr" THEN "failure" ELSE "untold"
    [] answer = "errors" -> "failure"
    [] answer = "errors and data" ->
         IF kind \in {"catalog metadata", "catalog favorite"} THEN "success" ELSE "failure"
    [] answer = "duplicate favorite" -> IF kind = "catalog favorite" THEN "success" ELSE "failure"
    [] answer = "other data" ->
         IF kind \in {"whisparr", "catalog favorite"} THEN "failure" ELSE "success"
    [] answer = "data" -> "success"

Idle == [pc |-> "idle", op |-> "none", seen |-> NoRecord, alone |-> TRUE]

Happens == events < MaxEvents /\ events' = events + 1

Recording(c) == calls[c].pc \notin {"idle", "asked"}

\* A call begins to record; it and those that are recording now overlap.
Begin(c, op, pc) ==
  LET others == {d \in Calls \ {c} : Recording(d)}
  IN /\ calls' = [d \in Calls |->
          IF d = c THEN [pc |-> pc, op |-> op, seen |-> NoRecord, alone |-> others = {}]
          ELSE [calls[d] EXCEPT !.alone = @ /\ d \notin others]]
     /\ torn' = (torn \/ others # {})

Goto(c, pc) == calls' = [calls EXCEPT ![c].pc = pc]
Ends(c) == calls' = [calls EXCEPT ![c] = Idle]

-----------------------------------------------------------------------------
Init ==
  /\ record = NoRecord
  /\ cached = NoRecord
  /\ loadedAll = FALSE
  /\ calls = [c \in Calls |-> Idle]
  /\ since = 0
  /\ torn = FALSE
  /\ events = 0

CallProvider(c) ==
  /\ calls[c].pc = "idle"
  /\ Happens
  /\ calls' = [calls EXCEPT ![c].pc = "asked"]
  /\ UNCHANGED <<record, cached, loadedAll, since, torn>>

ProviderAnswers(c, kind, answer) ==
  LET outcome == Outcome(kind, answer)
  IN /\ calls[c].pc = "asked"
     /\ IF outcome = "untold" THEN Ends(c) /\ UNCHANGED torn ELSE Begin(c, outcome, "load")
     /\ since' = IF outcome = "failure" THEN OneMore(since) ELSE since
     /\ UNCHANGED <<record, cached, loadedAll, events>>

\* recordManualRecovery, after a test that no adapter reports; clearService; getSummary.
StartManually(c, op) ==
  /\ calls[c].pc = "idle"
  /\ Happens
  /\ Begin(c, op, CASE op = "recovery" -> "load" [] op = "clear" -> "delete" [] op = "summary" -> "read")
  /\ UNCHANGED <<record, cached, loadedAll, since>>

\* ensureLoaded: the row is read unless it is cached or all were loaded...
EnsureLoaded(c) ==
  /\ calls[c].pc = "load"
  /\ calls' = IF cached # NoRecord \/ loadedAll
              THEN [calls EXCEPT ![c].pc = "decide"]
              ELSE [calls EXCEPT ![c].pc = "loaded", ![c].seen = record]
  /\ UNCHANGED <<record, cached, loadedAll, since, torn, events>>

\* ...and cached, even if something newer has been cached meanwhile.
CacheLoaded(c) ==
  /\ calls[c].pc = "loaded"
  /\ cached' = IF calls[c].seen # NoRecord THEN calls[c].seen ELSE cached
  /\ Goto(c, "decide")
  /\ UNCHANGED <<record, loadedAll, since, torn, events>>

\* Fault: a success has nothing to do as long as the service is healthy.
SuccessIdleIfHealthy == cached = NoRecord \/ ~Degraded(cached)

\* recordSuccess returns without a write when nothing is recorded or no failure is.
SuccessIdle == cached \in {NoRecord, 0}

\* An undisturbed success that has nothing to write ends what was before it, provided
\* the cache and the row agree.
Recovered(c, wrote) == since' = IF calls[c].alone /\ (wrote \/ ~torn) THEN 0 ELSE since

\* getSnapshot, and what recordFailure and recordSuccess make of it.  The same failure
\* again within 30 s of the last is not recorded (throttled).
Decide(c, throttled) ==
  LET op == calls[c].op
      before == IF cached = NoRecord THEN 0 ELSE cached
      next == IF op = "failure" THEN OneMore(before) ELSE 0
  IN /\ calls[c].pc = "decide"
     /\ throttled => op = "failure" /\ cached # NoRecord /\ Degraded(before)
     /\ IF throttled \/ (op = "success" /\ SuccessIdle)
        THEN /\ Ends(c)
             /\ IF op = "success" THEN Recovered(c, FALSE) ELSE UNCHANGED since
        ELSE /\ calls' = [calls EXCEPT ![c].pc = "write", ![c].seen = next]
             /\ UNCHANGED since
     /\ UNCHANGED <<record, cached, loadedAll, torn, events>>

\* The upsert; a success only updates, and fails when the row is gone.
WriteRecord(c) ==
  /\ calls[c].pc = "write"
  /\ IF calls[c].op = "success" /\ record = NoRecord
     THEN Ends(c) /\ UNCHANGED record
     ELSE Goto(c, "cache") /\ record' = calls[c].seen
  /\ UNCHANGED <<cached, loadedAll, since, torn, events>>

CacheWritten(c) ==
  /\ calls[c].pc = "cache"
  /\ cached' = calls[c].seen
  /\ IF calls[c].op = "failure" THEN UNCHANGED since ELSE Recovered(c, TRUE)
  /\ torn' = (torn /\ ~calls[c].alone)
  /\ Ends(c)
  /\ UNCHANGED <<record, loadedAll, events>>

\* clearService, and clearAllServices for this one.
DeleteRecord(c) ==
  /\ calls[c].pc = "delete"
  /\ record' = NoRecord
  /\ Goto(c, "uncache")
  /\ UNCHANGED <<cached, loadedAll, since, torn, events>>

Uncache(c) ==
  /\ calls[c].pc = "uncache"
  /\ cached' = NoRecord
  /\ Recovered(c, TRUE)
  /\ torn' = (torn /\ ~calls[c].alone)
  /\ Ends(c)
  /\ UNCHANGED <<record, loadedAll, events>>

\* getSummary: ensureAllLoaded reads the rows once...
ReadAll(c) ==
  /\ calls[c].pc = "read"
  /\ IF loadedAll THEN Ends(c)
     ELSE calls' = [calls EXCEPT ![c].pc = "read all", ![c].seen = record]
  /\ UNCHANGED <<record, cached, loadedAll, since, torn, events>>

\* ...and caches what it read.
CacheAll(c) ==
  /\ calls[c].pc = "read all"
  /\ cached' = IF calls[c].seen # NoRecord THEN calls[c].seen ELSE cached
  /\ loadedAll' = TRUE
  /\ Ends(c)
  /\ UNCHANGED <<record, since, torn, events>>

\* A query fails: the adapters log that nothing was recorded, a client is told.
QueryFails(c) ==
  /\ calls[c].pc \in {"load", "write", "delete", "read"}
  /\ calls[c].pc = "load" => cached = NoRecord
  /\ calls[c].pc \in {"load", "read"} => ~loadedAll
  /\ Happens
  /\ Ends(c)
  /\ UNCHANGED <<record, cached, loadedAll, since, torn>>

Restart ==
  /\ Happens
  /\ cached' = NoRecord
  /\ loadedAll' = FALSE
  /\ calls' = [c \in Calls |-> Idle]
  /\ torn' = FALSE
  /\ UNCHANGED <<record, since>>

Next ==
  \/ \E c \in Calls :
       \/ CallProvider(c)
       \/ \E k \in Kinds, a \in Answers : ProviderAnswers(c, k, a)
       \/ \E op \in {"recovery", "clear", "summary"} : StartManually(c, op)
       \/ EnsureLoaded(c) \/ CacheLoaded(c) \/ \E t \in BOOLEAN : Decide(c, t)
       \/ WriteRecord(c) \/ CacheWritten(c)
       \/ DeleteRecord(c) \/ Uncache(c) \/ ReadAll(c) \/ CacheAll(c) \/ QueryFails(c)
  \/ Restart

-----------------------------------------------------------------------------
TypeOK ==
  /\ {record, cached} \subseteq Counts \cup {NoRecord}
  /\ loadedAll \in BOOLEAN
  /\ calls \in [Calls -> [pc : {"idle", "asked", "load", "loaded", "decide", "write", "cache",
                                "delete", "uncache", "read", "read all"},
                          op : {"none", "success", "failure", "recovery", "clear", "summary"},
                          seen : Counts \cup {NoRecord}, alone : BOOLEAN]]
  /\ since \in Counts /\ torn \in BOOLEAN

\* A service is shown degraded, or stored as degraded for the next start, only after
\* as many failures as the threshold since it last recovered, whether by a success, a
\* test or a new configuration: one lone failure never degrades it, though calls
\* overlap, queries fail and the process restarts.  A recovery that another recording
\* overlapped may be lost and does not count.
LoneFailureNeverDegrades ==
  \A n \in {record, cached} \ {NoRecord} : n <= since
=============================================================================
