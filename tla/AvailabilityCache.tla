------------------------- MODULE AvailabilityCache -------------------------
(***************************************************************************)
(* Scenes that the index cannot answer for are looked up in Stash.  The    *)
(* answers are cached for a short time, and callers that ask for a scene   *)
(* while it is being looked up share the answer (SceneStatusService,       *)
(* stashAvailabilityCache and stashAvailabilityLookups).                   *)
(*                                                                         *)
(* A key of the cache is <<instance, scene>>: the Stash that is configured *)
(* (its address, API key and catalog provider) and the scene.              *)
(***************************************************************************)
EXTENDS Integers, FiniteSets, Sequences, SequencesExt

CONSTANTS
  Instances,   \* the configurations that are switched between
  Scenes, Callers,
  TTL,         \* STASH_AVAILABILITY_CACHE_TTL_MS, in ticks
  MaxEntries,  \* STASH_AVAILABILITY_CACHE_MAX_ENTRIES
  MaxLookup,   \* a lookup that takes longer fails
  MaxEvents

CacheAssumption ==
  /\ TTL \in Nat \ {0} /\ MaxEntries \in Nat \ {0}
  /\ MaxLookup \in Nat /\ MaxEvents \in Nat

VARIABLES
  instance,  \* the Stash that is configured
  has,       \* has[i][s]: ticks since Stash i had, and since it lacked, scene s
  cache,     \* stashAvailabilityCache, in the order of insertion
  lookups,   \* stashAvailabilityLookups
  callers,
  events

vars == <<instance, has, cache, lookups, callers, events>>

-----------------------------------------------------------------------------
Keys == Instances \X Scenes
Answers == {"available", "missing"}

\* Ages beyond that are all the same.
Long == TTL + MaxLookup + 1
Older(n) == IF n < Long THEN n + 1 ELSE Long

NoLookup == [pc |-> "none", found |-> "missing", age |-> 0]
NoCall == [pc |-> "idle", key |-> <<>>, answer |-> "none"]

Happens == events < MaxEvents /\ events' = events + 1

Now(key) == CHOOSE a \in Answers : has[key[1]][key[2]][a] = 0
Opposite(a) == CHOOSE b \in Answers : b # a

Cached(key) == {n \in DOMAIN cache : cache[n].key = key}

\* readStashAvailabilityCache: an expired entry is no entry.
Unexpired(entry) == entry.left > 0

From(entries, stay) ==
  IF stay = {} THEN <<>> ELSE SubSeq(entries, Min(stay), Len(entries))

\* Fault: the oldest entries are kept when there are too many.
PruneExpiredOnly(entries) ==
  From(entries, {n \in DOMAIN entries : Unexpired(entries[n])})

\* pruneStashAvailabilityCache: expired entries go, then the oldest ones.  All entries
\* live equally long, so those that expire first are the first ones too.
Prune(entries) ==
  From(entries, {n \in DOMAIN entries : Unexpired(entries[n]) /\ n > Len(entries) - MaxEntries})

-----------------------------------------------------------------------------
Init ==
  /\ instance \in Instances
  /\ has = [i \in Instances |-> [s \in Scenes |-> [a \in Answers |-> IF a = "available" THEN Long ELSE 0]]]
  /\ cache = <<>>
  /\ lookups = [k \in Keys |-> NoLookup]
  /\ callers = [c \in Callers |-> NoCall]
  /\ events = 0

\* Fault: the key of the cache does not name the instance.
AskAnyInstance(c, s) ==
  LET key == <<instance, s>>
      hits == {n \in DOMAIN Prune(cache) : Prune(cache)[n].key[2] = s}
  IN /\ callers[c].pc = "idle"
     /\ cache' = Prune(cache)
     /\ IF hits # {}
        THEN /\ callers' = [callers EXCEPT ![c] =
                  [pc |-> "answered", key |-> key,
                   answer |-> cache'[CHOOSE n \in hits : TRUE].available]]
             /\ UNCHANGED lookups
        ELSE /\ callers' = [callers EXCEPT ![c] = [NoCall EXCEPT !.pc = "waiting", !.key = key]]
             /\ lookups' = [lookups EXCEPT ![key] = IF @.pc = "none" THEN [@ EXCEPT !.pc = "asked"] ELSE @]
     /\ UNCHANGED <<instance, has, events>>

\* lookupStashAvailability, for one scene of a batch: from the cache, from the
\* lookup in flight, or by a new one.
Ask(c, s) ==
  LET key == <<instance, s>>
      pruned == Prune(cache)
      hits == {n \in DOMAIN pruned : pruned[n].key = key}
  IN /\ callers[c].pc = "idle"
     /\ cache' = pruned
     /\ IF hits # {}
        THEN /\ callers' = [callers EXCEPT ![c] =
                  [pc |-> "answered", key |-> key,
                   answer |-> pruned[CHOOSE n \in hits : TRUE].available]]
             /\ UNCHANGED lookups
        ELSE /\ callers' = [callers EXCEPT ![c] = [NoCall EXCEPT !.pc = "waiting", !.key = key]]
             /\ lookups' = [lookups EXCEPT ![key] = IF @.pc = "none" THEN [@ EXCEPT !.pc = "asked"] ELSE @]
     /\ UNCHANGED <<instance, has, events>>

\* Stash evaluates the query of findScenesByStashId.
StashAnswers(key) ==
  /\ lookups[key].pc = "asked"
  /\ lookups' = [lookups EXCEPT ![key].pc = "answered", ![key].found = Now(key)]
  /\ UNCHANGED <<instance, has, cache, callers, events>>

Deliver(key, answer) ==
  callers' = [c \in Callers |->
    IF callers[c].pc = "waiting" /\ callers[c].key = key
    THEN [pc |-> "answered", key |-> key, answer |-> answer]
    ELSE callers[c]]

\* The answer is cached, and given to everyone who waits for it.
LookupReturns(key) ==
  LET entry == [key |-> key, available |-> lookups[key].found, left |-> TTL]
  IN /\ lookups[key].pc = "answered"
     /\ cache' = Prune(Append(cache, entry))
     /\ lookups' = [lookups EXCEPT ![key] = NoLookup]
     /\ Deliver(key, lookups[key].found)
     /\ UNCHANGED <<instance, has, events>>

\* Nothing is cached; the callers go on without this scene.
LookupFails(key) ==
  /\ lookups[key].pc # "none"
  /\ Happens
  /\ lookups' = [lookups EXCEPT ![key] = NoLookup]
  /\ Deliver(key, "failed")
  /\ UNCHANGED <<instance, has, cache>>

\* The status is shown.
Show(c) ==
  /\ callers[c].pc = "answered"
  /\ callers' = [callers EXCEPT ![c] = NoCall]
  /\ UNCHANGED <<instance, has, cache, lookups, events>>

\* A copy of the scene comes to a Stash, or goes.
CopyChanges(i, s) ==
  /\ Happens
  /\ LET now == Opposite(Now(<<i, s>>))
     IN has' = [has EXCEPT ![i][s][now] = 0, ![i][s][Opposite(now)] = 1]
  /\ UNCHANGED <<instance, cache, lookups, callers>>

Switch(i) ==
  /\ Happens
  /\ i # instance
  /\ instance' = i
  /\ UNCHANGED <<has, cache, lookups, callers>>

Tick ==
  /\ \A c \in Callers : callers[c].pc # "answered"
  /\ \A k \in Keys : lookups[k].pc # "none" => lookups[k].age < MaxLookup
  /\ has' = [i \in Instances |-> [s \in Scenes |-> [a \in Answers |->
       IF has[i][s][a] = 0 THEN 0 ELSE Older(has[i][s][a])]]]
  /\ cache' = [n \in DOMAIN cache |->
       [cache[n] EXCEPT !.left = IF @ = 0 THEN 0 ELSE @ - 1]]
  /\ lookups' = [k \in Keys |-> IF lookups[k].pc = "none" THEN NoLookup
                                ELSE [lookups[k] EXCEPT !.age = @ + 1]]
  /\ UNCHANGED <<instance, callers, events>>

Next ==
  \/ \E c \in Callers : Show(c) \/ \E s \in Scenes : Ask(c, s)
  \/ \E k \in Keys : StashAnswers(k) \/ LookupReturns(k) \/ LookupFails(k)
  \/ \E i \in Instances : Switch(i) \/ \E s \in Scenes : CopyChanges(i, s)
  \/ Tick

-----------------------------------------------------------------------------
TypeOK ==
  /\ instance \in Instances
  /\ has \in [Instances -> [Scenes -> [Answers -> 0..Long]]]
  /\ cache \in Seq([key : Keys, available : Answers, left : 0..TTL])
  /\ \A m, n \in DOMAIN cache : m <= n => cache[m].left <= cache[n].left
  /\ Len(cache) <= MaxEntries /\ \A k \in Keys : Cardinality(Cached(k)) <= 1
  /\ lookups \in [Keys -> [pc : {"none", "asked", "answered"}, found : Answers,
                           age : 0..MaxLookup]]
  /\ \A c \in Callers :
       /\ callers[c].pc \in {"idle", "waiting", "answered"}
       /\ callers[c].pc = "waiting" => lookups[callers[c].key].pc # "none"

\* What a caller is told of a scene, from the cache, from another caller's lookup or
\* from its own, was so in the Stash that was configured when it asked, no longer ago
\* than an entry lives and a lookup takes.
AnswersRecent ==
  \A c \in Callers :
    callers[c].answer \in Answers =>
      has[callers[c].key[1]][callers[c].key[2]][callers[c].answer] < Long
=============================================================================
