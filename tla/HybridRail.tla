------------------------------ MODULE HybridRail ------------------------------
(***************************************************************************)
(* The content of a hybrid rail of the home page: the scenes of the        *)
(* catalog that are in the local library, or those that are not            *)
(* (home.service.ts, hybrid-scenes.service.ts).  The catalog is read page  *)
(* by page, and of a page several scenes at a time are looked up in Stash. *)
(* Such rails are of an earlier release; they are disabled before each     *)
(* request, and shown only when one is enabled in between.                 *)
(*                                                                         *)
(* The catalog and Stash do not change meanwhile.  The caller asks for the *)
(* first page and drops hasMore.                                           *)
(***************************************************************************)
EXTENDS Integers, Sequences, FiniteSets, Functions

CONSTANTS
  Catalog,             \* the scenes of the catalog, as the rail sorts and filters them
  Limit,               \* the rail's limit
  LOOKUP_CONCURRENCY,
  OVERSCAN_FACTOR,
  PAGE_SIZE_MAX,
  NoAnswer

HybridAssumption ==
  /\ Catalog \in Seq(Range(Catalog))
  /\ {Limit, LOOKUP_CONCURRENCY, OVERSCAN_FACTOR, PAGE_SIZE_MAX} \subseteq Nat \ {0}
  /\ NoAnswer \notin BOOLEAN

VARIABLES
  stash,   \* of each scene: not there, there, there with a favorite performer, studio or tag
  rail,    \* the stored configuration
  ready,   \* which integrations are ready
  scan,    \* getHybridSceneFeed
  content  \* what the rail shows

vars == <<stash, rail, ready, scan, content>>

LegacyAvailability == {"IN_LIBRARY", "MISSING_FROM_LIBRARY"}

\* The stored configuration may be of any release: without an availability, or with
\* favorites that do not go with it.
Rails == [availability : LegacyAvailability \cup {"unset"}, favoritesOnly : BOOLEAN]

Fewer(a, b) == IF a < b THEN a ELSE b
More(a, b) == IF a < b THEN b ELSE a

\* Fault: the favorites are kept whatever the availability.
NormalizeKeepingFavorites(r) ==
  [availability |-> IF r.availability = "unset" THEN "MISSING_FROM_LIBRARY" ELSE r.availability,
   favoritesOnly |-> r.favoritesOnly]

\* normalizeHybridSceneRailConfig
Normalize(r) ==
  LET availability ==
        IF r.availability = "unset" THEN "MISSING_FROM_LIBRARY" ELSE r.availability
  IN [availability |-> availability,
      favoritesOnly |-> availability = "IN_LIBRARY" /\ r.favoritesOnly]

\* getHybridSceneFeed's limits, for the first page.
Target == Limit + 1
MaxInspected == More(Target * OVERSCAN_FACTOR, Limit * OVERSCAN_FACTOR)
CandidatePageSize == Fewer(2 * Limit, PAGE_SIZE_MAX)

\* The elements of s at the places in N, in their order.
Kept(s, N) ==
  [i \in 1..Cardinality(N) |-> s[CHOOSE n \in N : Cardinality({m \in N : m < n}) = i - 1]]

NoScan == [page |-> 1, inspected |-> 0, matched |-> <<>>, scenes |-> <<>>, found |-> <<>>,
           taken |-> 0, config |-> Normalize(rail)]

-----------------------------------------------------------------------------
\* The conditions of the loop.  How many scenes there are is known from the first page on.
Continues(s) ==
  /\ Len(s.matched) < Target /\ s.inspected < MaxInspected
  /\ s.page = 1 \/ (s.page - 1) * CandidatePageSize < Len(Catalog)

\* The scenes of a page of the catalog (getScenesBySort).
CandidatePage(n) ==
  SubSeq(Catalog, (n - 1) * CandidatePageSize + 1, Fewer(n * CandidatePageSize, Len(Catalog)))

\* getHybridRailContent: both integrations are read first.
StartContent ==
  /\ content.pc = "start"
  /\ content' = IF ready.catalog /\ ready.stash THEN [content EXCEPT !.pc = "candidates"]
                ELSE [content EXCEPT !.pc = "done", !.message = "not configured"]
  /\ scan' = NoScan
  /\ UNCHANGED <<stash, rail, ready>>

\* Up to MaxInspected scenes of the page are looked up, by as many workers as may run.
ReadCandidates ==
  /\ content.pc = "candidates" /\ Continues(scan)
  /\ LET page == CandidatePage(scan.page)
         scenes == SubSeq(page, 1, Fewer(Len(page), MaxInspected - scan.inspected))
     IN scan' = [scan EXCEPT !.scenes = scenes,
                             !.found = [n \in DOMAIN scenes |-> NoAnswer],
                             !.taken = Fewer(LOOKUP_CONCURRENCY, Len(scenes))]
  /\ content' = [content EXCEPT !.pc = "lookups"]
  /\ UNCHANGED <<stash, rail, ready>>

\* resolveHybridLibraryAvailability
InLibrary(s, config) ==
  IF config.favoritesOnly THEN stash[s] = "favorite" ELSE stash[s] # "absent"

\* A worker's lookup answers, and it takes the next scene (mapWithConcurrency).
LookupAnswers(n) ==
  /\ content.pc = "lookups"
  /\ n \in 1..scan.taken /\ scan.found[n] = NoAnswer
  /\ scan' = [scan EXCEPT !.found[n] = InLibrary(scan.scenes[n], scan.config),
                          !.taken = Fewer(@ + 1, Len(scan.scenes))]
  /\ UNCHANGED <<stash, rail, ready, content>>

\* All have answered: the matches of the page in its order, up to the target.
EndPage ==
  /\ content.pc = "lookups" /\ \A n \in DOMAIN scan.found : scan.found[n] # NoAnswer
  /\ LET desired == scan.config.availability = "IN_LIBRARY"
         matches == {n \in DOMAIN scan.found : scan.found[n] = desired}
         matched == scan.matched \o Kept(scan.scenes, matches)
     IN scan' = [scan EXCEPT !.inspected = @ + Len(scan.scenes),
                             !.matched = SubSeq(matched, 1, Fewer(Len(matched), Target)),
                             !.page = @ + 1]
  /\ content' = IF Len(CandidatePage(scan.page)) < CandidatePageSize \/ ~Continues(scan')
                THEN [content EXCEPT !.pc = "statuses"] ELSE [content EXCEPT !.pc = "candidates"]
  /\ UNCHANGED <<stash, rail, ready>>

\* A request fails: of the catalog, of a worker, or for the statuses.
RequestFails ==
  /\ content.pc \in {"candidates", "lookups"}
     \/ (content.pc = "statuses" /\ scan.config.availability = "MISSING_FROM_LIBRARY")
  /\ content' = [content EXCEPT !.pc = "done", !.message = "failed"]
  /\ UNCHANGED <<stash, rail, ready, scan>>

\* The items, with the status of each where the rail is for missing scenes.
ShowItems ==
  /\ content.pc = "statuses"
  /\ content' = [pc |-> "done", message |-> "none",
                 items |-> SubSeq(scan.matched, 1, Fewer(Limit, Len(scan.matched)))]
  /\ UNCHANGED <<stash, rail, ready, scan>>

Init ==
  /\ stash \in [Range(Catalog) -> {"absent", "local", "favorite"}]
  /\ rail \in Rails
  /\ ready \in [catalog : BOOLEAN, stash : BOOLEAN]
  /\ scan = NoScan
  /\ content = [pc |-> "start", message |-> "none", items |-> <<>>]

Next ==
  \/ StartContent \/ ReadCandidates
  \/ \E n \in DOMAIN scan.found : LookupAnswers(n)
  \/ EndPage \/ RequestFails \/ ShowItems

-----------------------------------------------------------------------------
TypeOK ==
  /\ rail \in Rails
  /\ content.pc \in {"start", "candidates", "lookups", "statuses", "done"}
  /\ content.message \in {"none", "not configured", "failed"}
  /\ Len(scan.matched) <= Target /\ scan.inspected <= MaxInspected
  /\ scan.taken <= Len(scan.scenes)

\* In whatever order the lookups answer, the rail shows the first scenes of the catalog
\* that are in the library, or the first that are not: none of the others, none left out
\* but those beyond the scenes that are inspected at most.
RailShowsFirstMatches ==
  content.pc = "done" /\ content.message = "none" =>
    LET belongs(s) ==
          IF rail.availability = "IN_LIBRARY"
          THEN stash[s] = "favorite" \/ (stash[s] = "local" /\ ~rail.favoritesOnly)
          ELSE stash[s] = "absent"
        all == Kept(Catalog,
                    {n \in 1..Fewer(MaxInspected, Len(Catalog)) : belongs(Catalog[n])})
    IN content.items = SubSeq(all, 1, Fewer(Limit, Len(all)))
=============================================================================
