----------------------------- MODULE AcquisitionPage -----------------------------
(***************************************************************************)
(* The acquisition page (acquisition-page.component.ts) and the query that *)
(* answers it (acquisition.service.ts), over the scene index as            *)
(* SceneIndexStore promises it: the summary counts the rows whenever       *)
(* either is read.  The two are read side by side, though, while rows      *)
(* change: the scenes from the rows, and how many there are, and whether   *)
(* there is more, from the summary.                                        *)
(*                                                                         *)
(* Scenes are numbered in the order of the rows of one lifecycle (queue    *)
(* position, last update, movie, id).                                      *)
(***************************************************************************)
EXTENDS FeedControl, FiniteSets, Functions

CONSTANTS
  Scenes,
  PageSize,
  NoNavigation, NoAnswer,
  MaxEvents

VARIABLES
  feed,
  selection,     \* selectedLifecycle
  url, navigation, intersecting,
  counts,        \* countsByLifecycle
  lifecycle,     \* SceneIndex: the lifecycle of each row
  answer,        \* what was read for the request in flight: the rows, the summary
  shifted,       \* history: rows changed since the list was reset
  events

vars == <<feed, selection, url, navigation, intersecting, counts, lifecycle, answer, shifted,
          events>>

\* By lifecycleSortOrder.
Tracked == <<"FAILED", "DOWNLOADING", "IMPORT_PENDING", "REQUESTED">>
Lifecycles == Range(Tracked)
Selections == Lifecycles \cup {"ANY"}

AcquisitionAssumption ==
  /\ Scenes \subseteq Nat /\ IsFiniteSet(Scenes)
  /\ PageSize \in Nat \ {0} /\ MaxEvents \in Nat
  /\ NoRequest \notin RequestsFor(Selections)

SortOrder(l) == CHOOSE n \in DOMAIN Tracked : Tracked[n] = l

-----------------------------------------------------------------------------
\* The service.

\* buildWhereClause
Matches(s, selected) ==
  IF selected = "ANY" THEN lifecycle[s] \in Lifecycles ELSE lifecycle[s] = selected

\* orderBy
Precedes(state, s, t) ==
  \/ SortOrder(state[s]) < SortOrder(state[t])
  \/ state[s] = state[t] /\ s < t

Ordered(found, state) ==
  LET before(s) == {t \in found : Precedes(state, t, s)}
      at(n) == CHOOSE s \in found : Cardinality(before(s)) = n - 1
  IN [n \in 1..Cardinality(found) |-> [id |-> at(n), state |-> state[at(n)]]]

Rows(selected) == Ordered({s \in Scenes : Matches(s, selected)}, lifecycle)

Upto(rows, n) == SubSeq(rows, 1, IF n < Len(rows) THEN n ELSE Len(rows))

\* toCountsByLifecycle, from the summary.
Counts == [l \in Lifecycles |-> Cardinality({s \in Scenes : lifecycle[s] = l})]

Total(c, selected) ==
  IF selected = "ANY"
  THEN c["FAILED"] + c["DOWNLOADING"] + c["IMPORT_PENDING"] + c["REQUESTED"]
  ELSE c[selected]

NothingRead == [rows |-> NoAnswer, counts |-> NoAnswer]

-----------------------------------------------------------------------------
\* The page.

UserEvent == events < MaxEvents /\ events' = events + 1

SyncUrlWithCurrentFilter(l) == IF url = l THEN navigation ELSE l

Reset(l) == feed' = ResetFeedAndReload(feed, l) /\ shifted' = FALSE

\* While the first page is loaded, or has failed, there are no cards to select.
CardsVisible ==
  /\ feed.error # "initial"
  /\ feed.asked # NoRequest => feed.asked.stale \/ feed.asked.page # 1

SelectLifecycle(l) ==
  /\ UserEvent /\ CardsVisible /\ l # selection
  /\ selection' = l /\ navigation' = SyncUrlWithCurrentFilter(l) /\ Reset(l)
  /\ UNCHANGED <<url, intersecting, counts, lifecycle, answer>>

Retry ==
  /\ UserEvent /\ feed.error # "none" /\ feed.asked = NoRequest
  /\ feed' = LoadNextPage(feed, selection)
  /\ UNCHANGED <<selection, url, navigation, intersecting, counts, lifecycle, answer, shifted>>

BrowserNavigates(l) ==
  /\ UserEvent /\ l # url
  /\ navigation' = l
  /\ UNCHANGED <<feed, selection, url, intersecting, counts, lifecycle, answer, shifted>>

\* setupUrlStateSync, readUrlState, applyUrlState
NavigationEnds ==
  /\ navigation # NoNavigation
  /\ url' = navigation /\ selection' = navigation /\ navigation' = NoNavigation
  /\ IF navigation # selection THEN Reset(navigation) ELSE UNCHANGED <<feed, shifted>>
  /\ UNCHANGED <<intersecting, counts, lifecycle, answer, events>>

Scrolls(seen) ==
  /\ SentinelRendered(feed) /\ seen # intersecting
  /\ intersecting' = seen
  /\ feed' = IF seen THEN LoadNextPage(feed, selection) ELSE feed
  /\ UNCHANGED <<selection, url, navigation, counts, lifecycle, answer, shifted, events>>

\* getScenesFeed reads the rows of the page ...
ReadRows ==
  /\ feed.asked # NoRequest /\ answer.rows = NoAnswer
  /\ LET rows == Upto(Rows(feed.asked.query), feed.asked.page * PageSize)
     IN answer' = [answer EXCEPT !.rows = SubSeq(rows, (feed.asked.page - 1) * PageSize + 1, Len(rows))]
  /\ UNCHANGED <<feed, selection, url, navigation, intersecting, counts, lifecycle, shifted, events>>

\* ... and the summary.
ReadSummary ==
  /\ feed.asked # NoRequest /\ answer.counts = NoAnswer
  /\ answer' = [answer EXCEPT !.counts = Counts]
  /\ UNCHANGED <<feed, selection, url, navigation, intersecting, counts, lifecycle, shifted, events>>

\* hasMore
More(asked) == asked.page * PageSize < Total(answer.counts, asked.query)

FeedAnswers ==
  /\ feed.asked # NoRequest /\ answer.rows # NoAnswer /\ answer.counts # NoAnswer
  /\ feed' = Answered(feed, answer.rows, More(feed.asked), selection, intersecting)
  /\ counts' = IF feed.asked.stale THEN counts ELSE answer.counts
  /\ answer' = NothingRead
  /\ UNCHANGED <<selection, url, navigation, intersecting, lifecycle, shifted, events>>

FeedFails ==
  /\ feed.asked # NoRequest /\ UserEvent
  /\ feed' = Failed(feed, selection, intersecting)
  /\ answer' = NothingRead
  /\ UNCHANGED <<selection, url, navigation, intersecting, counts, lifecycle, shifted>>

\* The index changes (SceneIndexStore).
RowChanges(s, l) ==
  /\ UserEvent /\ l # lifecycle[s]
  /\ lifecycle' = [lifecycle EXCEPT ![s] = l]
  /\ shifted' = TRUE
  /\ UNCHANGED <<feed, selection, url, navigation, intersecting, counts, answer>>

Init ==
  /\ lifecycle \in [Scenes -> {"AVAILABLE", "REQUESTED", "DOWNLOADING", "IMPORT_PENDING"}]
  /\ url \in Selections /\ selection = url /\ navigation = NoNavigation
  /\ feed = ResetFeedAndReload(NewFeed, selection)
  /\ intersecting = FALSE
  /\ counts = [l \in Lifecycles |-> 0]
  /\ answer = NothingRead /\ shifted = FALSE
  /\ events = 0

Next ==
  \/ \E l \in Selections : SelectLifecycle(l) \/ BrowserNavigates(l)
  \/ Retry \/ NavigationEnds
  \/ \E seen \in BOOLEAN : Scrolls(seen)
  \/ ReadRows \/ ReadSummary \/ FeedAnswers \/ FeedFails
  \/ \E s \in Scenes, l \in Lifecycles \cup {"AVAILABLE"} : RowChanges(s, l)

-----------------------------------------------------------------------------
\* visibleSections: the items of one lifecycle.
Section(l) == {n \in DOMAIN feed.items : feed.items[n].state = l}

TypeOK ==
  /\ selection \in Selections /\ url \in Selections
  /\ navigation \in Selections \cup {NoNavigation}
  /\ {intersecting, shifted} \subseteq BOOLEAN
  /\ lifecycle \in [Scenes -> Lifecycles \cup {"AVAILABLE"}]
  /\ DOMAIN counts = Lifecycles
  /\ feed.asked = NoRequest => answer = NothingRead
  /\ FeedOK(feed)

\* While the index stays as it is, the page shows the tracked scenes of the lifecycle
\* that is selected, as far as it was scrolled, each once; what is in no section yet is
\* still to come; and a section never shows more than the number it names, and shows all
\* of them at the end of the list.
AcquisitionShowsIndex ==
  ~shifted =>
    /\ feed.items = Upto(Rows(selection), feed.page * PageSize)
    /\ feed.page > 0 =>
         /\ feed.more <=> Len(feed.items) < Len(Rows(selection))
         /\ \A l \in Lifecycles :
              selection \in {l, "ANY"} =>
                /\ Cardinality(Section(l)) <= counts[l]
                /\ ~feed.more => Cardinality(Section(l)) = counts[l]
=============================================================================
