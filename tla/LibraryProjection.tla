------------------------- MODULE LibraryProjection -------------------------
(***************************************************************************)
(* The library sync copies the scenes of the local Stash, page by page,    *)
(* into LibrarySceneIndex, deletes the rows that it has not seen and       *)
(* stores in the scene index which scenes of the catalog are available.    *)
(* Stash is asked for pages in the order of the last update, and its users *)
(* go on working meanwhile.  Rows of single scenes are also refreshed on   *)
(* demand, outside the lease of the sync.                                  *)
(*                                                                         *)
(* lastSyncedAt is kept relative to the running pass: a row is fresh when  *)
(* the pass has written it, and all rows are older when it starts.         *)
(***************************************************************************)
EXTENDS Integers, FiniteSets, Sequences, SequencesExt

CONSTANTS
  Scenes,      \* scenes of the local Stash
  Catalog,     \* scenes of the catalog providers
  Providers,   \* keys of catalog providers
  Refs,        \* Refs[s][p]: the ids scene s has with provider p, in Stash's order
  PageSize,    \* LIBRARY_SYNC_PAGE_SIZE
  MaxEvents,   \* bound: edits in Stash, changes of configuration, failures, refreshes
  None

ASSUME LibraryAssumption ==
  /\ Refs \in [Scenes -> [Providers -> Seq(Catalog)]]
  /\ PageSize \in Nat \ {0} /\ MaxEvents \in Nat
  /\ IsFiniteSet(Scenes)
  /\ None \notin Scenes \union Catalog \union Providers
  /\ None \notin [link : Catalog \union {None}, fresh : BOOLEAN]

VARIABLES
  library,     \* the scenes in Stash, last updated first
  stash,       \* Stash is configured
  provider,    \* the active catalog provider, or None
  projection,  \* LibrarySceneIndex
  available,   \* SceneIndex.stashAvailable
  pass,        \* the running library sync
  snapshot,    \* its applyLibraryAvailabilitySnapshot, which may outlive it
  refresh,     \* one refreshStashAvailabilityForStashIds
  since,       \* history: what else happened since the pass began
  events       \* how many of MaxEvents have happened

vars == <<library, stash, provider, projection, available, pass, snapshot,
          refresh, since, events>>

-----------------------------------------------------------------------------
NoPass == [pc |-> "idle", page |-> 1, provider |-> None, items |-> <<>>,
           more |-> FALSE, links |-> {}]
NoSnapshot == [pc |-> "idle", links |-> {}, lost |-> {}]
NoRefresh == [id |-> None, answer |-> FALSE]
Nothing == [moved |-> {}, removed |-> FALSE, disturbed |-> FALSE]

Happens == events < MaxEvents /\ events' = events + 1

InLibrary == ToSet(library)

\* findCatalogExternalIdForProvider: the first id a scene has with the provider.
LinkFor(s, p) == IF p = None \/ Refs[s][p] = <<>> THEN None ELSE Head(Refs[s][p])

LinksFor(ss, p) == {LinkFor(s, p) : s \in ss} \ {None}

\* hasCatalogSceneRef: any of them.
RefersTo(s, p, c) == c \in ToSet(Refs[s][p])

PageOf(n) ==
  LET end == IF n * PageSize < Len(library) THEN n * PageSize ELSE Len(library)
  IN SubSeq(library, (n - 1) * PageSize + 1, end)

Fresh(s) == projection[s] # None /\ projection[s].fresh

-----------------------------------------------------------------------------
Init ==
  /\ library \in SetToSeqs(Scenes)
  /\ stash = TRUE
  /\ provider \in Providers
  /\ projection = [s \in Scenes |-> None]
  /\ available = [c \in Catalog |-> FALSE]
  /\ pass = NoPass
  /\ snapshot = NoSnapshot
  /\ refresh = NoRefresh
  /\ since = Nothing
  /\ events = 0

\* performLibraryProjectionSync begins; without a configured Stash it only returns.
StartPass ==
  /\ pass.pc = "idle"
  /\ stash
  /\ pass' = [NoPass EXCEPT !.pc = "page", !.provider = provider]
  /\ projection' = [s \in Scenes |-> IF projection[s] = None THEN None
                                     ELSE [projection[s] EXCEPT !.fresh = FALSE]]
  /\ since' = Nothing
  /\ UNCHANGED <<library, stash, provider, available, snapshot, refresh, events>>

\* Fault: the last scene of Stash does not count for hasMore.
ReadPageOffByOne ==
  /\ pass.pc = "page"
  /\ pass' = [pass EXCEPT !.pc = "upsert", !.items = PageOf(pass.page),
                          !.more = pass.page * PageSize < Len(library) - 1]
  /\ UNCHANGED <<library, stash, provider, projection, available, snapshot,
                 refresh, since, events>>

\* getLocalLibraryScenePage.
ReadPage ==
  /\ pass.pc = "page"
  /\ pass' = [pass EXCEPT !.pc = "upsert", !.items = PageOf(pass.page),
                          !.more = pass.page * PageSize < Len(library)]
  /\ UNCHANGED <<library, stash, provider, projection, available, snapshot,
                 refresh, since, events>>

\* upsertLibrarySceneProjectionPage, one transaction; then the next page, or the end.
\* An earlier pass's snapshot has ended by then.
UpsertPage ==
  LET items == ToSet(pass.items)
      links == pass.links \union LinksFor(items, pass.provider)
      last == ~pass.more \/ pass.items = <<>>
  IN /\ pass.pc = "upsert"
     /\ last => snapshot.pc = "idle"
     /\ projection' = [s \in Scenes |->
          IF s \in items THEN [link |-> LinkFor(s, pass.provider), fresh |-> TRUE]
          ELSE projection[s]]
     /\ pass' = [pass EXCEPT !.pc = IF last THEN "delete" ELSE "page",
                             !.page = IF last THEN @ ELSE @ + 1,
                             !.items = <<>>, !.more = FALSE, !.links = links]
     /\ snapshot' = IF last THEN [NoSnapshot EXCEPT !.pc = "find", !.links = links]
                    ELSE snapshot
     /\ UNCHANGED <<library, stash, provider, available, refresh, since, events>>

\* Fault: rows of this pass count as unseen too when their scene has no link.
DeleteUnlinked ==
  /\ pass.pc = "delete"
  /\ projection' = [s \in Scenes |->
       IF Fresh(s) /\ projection[s].link # None THEN projection[s] ELSE None]
  /\ pass' = [pass EXCEPT !.pc = "wait"]
  /\ UNCHANGED <<library, stash, provider, available, snapshot, refresh, since, events>>

\* deleteMany: rows older than the start of the pass.
Unseen == [s \in Scenes |-> IF Fresh(s) THEN projection[s] ELSE None]

\* A deletion whose pass does not wait for it any more is carried out or not; no row is
\* read or written from then until the next pass, so that it is as good as done at once.
DeletionLeft == projection' = projection \/ (pass.pc = "delete" /\ projection' = Unseen)

DeleteUnseen ==
  /\ pass.pc = "delete"
  /\ projection' = Unseen
  /\ pass' = [pass EXCEPT !.pc = "wait"]
  /\ UNCHANGED <<library, stash, provider, available, snapshot, refresh, since, events>>

\* applyLibraryAvailabilitySnapshot, beside the deletion: which rows are to be reset...
FindAvailable ==
  /\ snapshot.pc = "find"
  /\ snapshot' = [snapshot EXCEPT !.pc = "apply",
       !.lost = {c \in Catalog : available[c]} \ snapshot.links]
  /\ UNCHANGED <<library, stash, provider, projection, available, pass, refresh,
                 since, events>>

\* Fault: nothing is reset.
ApplyAvailableOnly ==
  /\ snapshot.pc = "apply"
  /\ available' = [c \in Catalog |-> c \in snapshot.links \/ available[c]]
  /\ snapshot' = [snapshot EXCEPT !.pc = "done"]
  /\ UNCHANGED <<library, stash, provider, projection, pass, refresh, since, events>>

\* ...and the patches for all.
ApplyAvailability ==
  /\ snapshot.pc = "apply"
  /\ available' = [c \in Catalog |->
       \/ c \in snapshot.links
       \/ available[c] /\ c \notin snapshot.lost]
  /\ snapshot' = [snapshot EXCEPT !.pc = "done"]
  /\ UNCHANGED <<library, stash, provider, projection, pass, refresh, since, events>>

\* Both have come back.
FinishPass ==
  /\ pass.pc = "wait" /\ snapshot.pc = "done"
  /\ pass' = NoPass
  /\ snapshot' = NoSnapshot
  /\ UNCHANGED <<library, stash, provider, projection, available, refresh, since, events>>

\* Stash or the database does not answer.  When the deletion fails, the sync ends
\* and its snapshot goes on alone.
PassFails ==
  /\ Happens
  /\ pass.pc \in {"page", "upsert", "delete"}
  /\ pass' = NoPass
  /\ DeletionLeft
  /\ UNCHANGED <<library, stash, provider, available, snapshot, refresh, since>>

\* Fault: nobody waits for the snapshot of a sync that failed (Promise.allSettled).
SnapshotFailsAlone ==
  /\ Happens
  /\ snapshot.pc \in {"find", "apply"}
  /\ snapshot' = NoSnapshot
  /\ UNCHANGED <<library, stash, provider, projection, available, pass, refresh, since>>

\* When the snapshot fails the sync ends, whether its rows are deleted yet or not.
SnapshotFails ==
  /\ Happens
  /\ snapshot.pc \in {"find", "apply"}
  /\ snapshot' = NoSnapshot
  /\ pass' = IF pass.pc \in {"delete", "wait"} THEN NoPass ELSE pass
  /\ DeletionLeft
  /\ UNCHANGED <<library, stash, provider, available, refresh, since>>

\* The snapshot of a sync that has ended.
StragglerEnds ==
  /\ snapshot.pc = "done" /\ pass.pc \notin {"delete", "wait"}
  /\ snapshot' = NoSnapshot
  /\ UNCHANGED <<library, stash, provider, projection, available, pass, refresh,
                 since, events>>

\* findScenesByStashId finds a scene.
Found(c) == \E s \in InLibrary : RefersTo(s, provider, c)

\* refreshStashAvailabilityForStashIds: one scene is looked up...
Lookup(c) ==
  /\ refresh = NoRefresh
  /\ stash /\ provider # None
  /\ Happens
  /\ refresh' = [id |-> c, answer |-> Found(c)]
  /\ UNCHANGED <<library, stash, provider, projection, available, pass, snapshot, since>>

\* ...and patched.
ApplyRefresh ==
  /\ refresh # NoRefresh
  /\ available' = [available EXCEPT ![refresh.id] = refresh.answer]
  /\ refresh' = NoRefresh
  /\ since' = [since EXCEPT !.disturbed = TRUE]
  /\ UNCHANGED <<library, stash, provider, projection, pass, snapshot, events>>

Without(s) ==
  IF s \in InLibrary THEN RemoveAt(library, CHOOSE n \in DOMAIN library : library[n] = s)
  ELSE library

\* A scene is added to Stash, or changed there: either way it was updated last.
Touch(s) ==
  /\ Happens
  /\ library' = <<s>> \o Without(s)
  /\ since' = [since EXCEPT !.moved = @ \union {s}]
  /\ UNCHANGED <<stash, provider, projection, available, pass, snapshot, refresh>>

RemoveScene(s) ==
  /\ Happens
  /\ s \in InLibrary
  /\ library' = Without(s)
  /\ since' = [since EXCEPT !.removed = TRUE]
  /\ UNCHANGED <<stash, provider, projection, available, pass, snapshot, refresh>>

\* The integrations are changed: both columns belong to the next pass.
Configure ==
  /\ Happens
  /\ \/ stash' = ~stash /\ UNCHANGED provider
     \/ provider' \in (Providers \union {None}) \ {provider} /\ UNCHANGED stash
  /\ since' = [since EXCEPT !.disturbed = TRUE]
  /\ UNCHANGED <<library, projection, available, pass, snapshot, refresh>>

Restart ==
  /\ Happens
  /\ pass' = NoPass /\ snapshot' = NoSnapshot /\ refresh' = NoRefresh
  /\ DeletionLeft
  /\ UNCHANGED <<library, stash, provider, available, since>>

SyncStep ==
  ReadPage \/ UpsertPage \/ DeleteUnseen \/ FinishPass

SnapshotStep == FindAvailable \/ ApplyAvailability \/ StragglerEnds

Next ==
  \/ StartPass
  \/ SyncStep
  \/ SnapshotStep
  \/ PassFails
  \/ SnapshotFails
  \/ \E c \in Catalog : Lookup(c)
  \/ ApplyRefresh
  \/ \E s \in Scenes : Touch(s) \/ RemoveScene(s)
  \/ Configure
  \/ Restart

\* The timer comes round, and calls come back: failures are bounded by MaxEvents.
Fairness ==
  /\ WF_vars(StartPass)
  /\ WF_vars(SyncStep)
  /\ WF_vars(SnapshotStep)
  /\ WF_vars(ApplyRefresh)

Spec == Init /\ [][Next]_vars /\ Fairness

-----------------------------------------------------------------------------
TypeOK ==
  /\ library \in SeqOf(Scenes, Cardinality(Scenes)) /\ IsInjective(library)
  /\ stash \in BOOLEAN
  /\ provider \in Providers \union {None}
  /\ projection \in [Scenes -> [link : Catalog \union {None}, fresh : BOOLEAN] \union {None}]
  /\ available \in [Catalog -> BOOLEAN]
  /\ pass \in [pc : {"idle", "page", "upsert", "delete", "wait"}, page : {1} \union 1..Cardinality(Scenes),
               provider : Providers \union {None}, items : SeqOf(Scenes, PageSize),
               more : BOOLEAN, links : SUBSET Catalog]
  /\ snapshot \in [pc : {"idle", "find", "apply", "done"}, links : SUBSET Catalog,
                   lost : SUBSET Catalog]
  /\ pass.pc \in {"delete", "wait"} => snapshot.pc # "idle"
  /\ refresh \in [id : Catalog \union {None}, answer : BOOLEAN]
  /\ events \in 0..MaxEvents

\* The copy agrees with Stash, and the scene index with the copy.
ProjectionExact ==
  /\ \A s \in Scenes :
       IF s \in InLibrary
       THEN projection[s] # None /\ projection[s].link = LinkFor(s, provider)
       ELSE projection[s] = None
  /\ \A c \in Catalog : available[c] <=> c \in LinksFor(InLibrary, provider)

\* A pass during which nobody edited Stash, nobody changed the configuration and no
\* single scene was refreshed leaves exact copies: every page read, nothing left
\* over, whatever earlier passes left behind when they failed.
QuietPassExact ==
  (pass.pc = "wait" /\ snapshot.pc = "done" /\ since = Nothing) => ProjectionExact

\* While pages shift under the pass, the row of a scene that is still in Stash is
\* deleted only when that scene itself was updated during the pass, or some scene
\* was removed.  (In these cases it does happen, until the next pass.)
OnlyShiftedRowsVanish ==
  [][\A s \in InLibrary :
       (projection[s] # None /\ projection'[s] = None)
         => s \in since.moved \/ since.removed]_vars

\* Once Stash and its configuration stay as they are, the copies become exact,
\* whatever pages were missed, passes failed or lookups came late before.
ProjectionConverges ==
  (<>[]stash) => <>[]ProjectionExact
=============================================================================
