------------------------------ MODULE ScenesPage ------------------------------
(***************************************************************************)
(* The scenes page (scenes-page.component.ts): filters, the address bar    *)
(* that describes them, and the list that is loaded page by page.          *)
(*                                                                         *)
(* filter stands for the sort, the direction, the favorites and the        *)
(* studios, whose handlers are alike; tags are ordered, as the address is. *)
(* A page of the list is represented by what was asked for.  A navigation  *)
(* is not instantaneous, and a new one replaces it.                        *)
(***************************************************************************)
EXTENDS FeedControl, FiniteSets, Functions

CONSTANTS
  Filters, DefaultFilter,
  Tags,
  LastPage,     \* the number of pages of every list
  NoNavigation,
  MaxEvents

VARIABLES
  feed,
  selection,     \* what the filters show
  url,           \* route.snapshot
  navigation,    \* the address that is navigated to
  intersecting,  \* sentinelIntersecting
  open,          \* the page is still shown
  chosen,        \* history: what the user chose last
  overruled,     \* history: the choice was taken back while its opposite was navigated to
  events

vars == <<feed, selection, url, navigation, intersecting, open, chosen, overruled, events>>

TagLists == UNION {Injection(1..n, Tags) : n \in 0..Cardinality(Tags)}

Selections == [filter : Filters, tags : TagLists, mode : {"OR", "AND"}]
Default == [filter |-> DefaultFilter, tags |-> <<>>, mode |-> "OR"]

\* An address may have parameters of an earlier release (availability, lifecycle, ...).
Urls == [params : Selections, legacy : BOOLEAN]

UrlOf(s) == [params |-> s, legacy |-> FALSE]

\* readUrlState: unknown values read as the defaults and tags named twice as one.
ReadUrlState(u) == u.params

\* What the request asks for: the mode says nothing without tags, nor does their order.
Query(s) == [filter |-> s.filter, tags |-> Range(s.tags),
             mode |-> IF s.tags = <<>> THEN "OR" ELSE s.mode]

Queries == [filter : Filters, tags : SUBSET Tags, mode : {"OR", "AND"}]

ScenesPageAssumption ==
  /\ DefaultFilter \in Filters /\ IsFiniteSet(Tags)
  /\ LastPage \in Nat \ {0} /\ MaxEvents \in Nat
  /\ NoRequest \notin RequestsFor(Queries) /\ NoNavigation \notin Urls

TheList(query) == [n \in 1..LastPage |-> [query |-> query, page |-> n]]

-----------------------------------------------------------------------------
\* syncUrlWithCurrentFilters compares with the address that was reached last.
SyncUrlWithCurrentFilters(s) == IF url = UrlOf(s) THEN navigation ELSE UrlOf(s)

Chosen(s) ==
  /\ selection' = s
  /\ navigation' = SyncUrlWithCurrentFilters(s)
  /\ chosen' = s
  /\ overruled' = (url = UrlOf(s) /\ navigation # NoNavigation)

UserEvent == open /\ events < MaxEvents /\ events' = events + 1

\* onSortChanged, onDirectionChanged, onFavoritesChanged, onStudioSelectionChanged.
OnFilterChanged(v) ==
  /\ UserEvent /\ v # selection.filter
  /\ LET s == [selection EXCEPT !.filter = v]
     IN Chosen(s) /\ feed' = ResetFeedAndReload(feed, Query(s))
  /\ UNCHANGED <<url, intersecting, open>>

\* Tags that are only put in another order leave the list as it is.
OnTagSelectionChanged(tags) ==
  /\ UserEvent
  /\ LET s == [selection EXCEPT !.tags = tags]
         changed == Range(tags) # Range(selection.tags)
     IN Chosen(s) /\ feed' = IF changed THEN ResetFeedAndReload(feed, Query(s)) ELSE feed
  /\ UNCHANGED <<url, intersecting, open>>

OnTagMatchModeChanged(mode) ==
  /\ UserEvent /\ mode # selection.mode
  /\ LET s == [selection EXCEPT !.mode = mode]
     IN Chosen(s) /\ feed' = IF s.tags # <<>> THEN ResetFeedAndReload(feed, Query(s)) ELSE feed
  /\ UNCHANGED <<url, intersecting, open>>

ResetFilters ==
  /\ UserEvent /\ selection # Default
  /\ Chosen(Default) /\ feed' = ResetFeedAndReload(feed, Query(Default))
  /\ UNCHANGED <<url, intersecting, open>>

RetryInitialLoad ==
  /\ UserEvent /\ feed.error = "initial" /\ feed.asked = NoRequest
  /\ feed' = LoadNextPage(feed, Query(selection))
  /\ UNCHANGED <<selection, url, navigation, intersecting, open, chosen, overruled>>

RetryLoadMore ==
  /\ UserEvent /\ feed.error = "more" /\ feed.asked = NoRequest /\ feed.more
  /\ feed' = LoadNextPage(feed, Query(selection))
  /\ UNCHANGED <<selection, url, navigation, intersecting, open, chosen, overruled>>

\* A link, or back or forward, to this page with another address.
BrowserNavigates(u) ==
  /\ UserEvent /\ u # url
  /\ navigation' = u /\ chosen' = ReadUrlState(u) /\ overruled' = FALSE
  /\ UNCHANGED <<feed, selection, url, intersecting, open>>

\* The address is reached and applied (setupUrlStateSync, applyUrlState).  An address
\* with parameters of an earlier release is replaced by one without.
NavigationEnds ==
  /\ open /\ navigation # NoNavigation
  /\ url' = navigation
  /\ navigation' = IF navigation.legacy THEN UrlOf(ReadUrlState(navigation)) ELSE NoNavigation
  /\ selection' = ReadUrlState(navigation)
  /\ feed' = IF selection' # selection THEN ResetFeedAndReload(feed, Query(selection'))
             ELSE feed
  /\ UNCHANGED <<intersecting, open, chosen, overruled, events>>

\* The observer reports that the end of the list has come into view, or has left it.
Scrolls(seen) ==
  /\ open /\ SentinelRendered(feed) /\ seen # intersecting
  /\ intersecting' = seen
  /\ feed' = IF seen THEN LoadNextPage(feed, Query(selection)) ELSE feed
  /\ UNCHANGED <<selection, url, navigation, open, chosen, overruled, events>>

FeedAnswers ==
  /\ feed.asked # NoRequest
  /\ feed' = Answered(feed, <<[query |-> feed.asked.query, page |-> feed.asked.page]>>,
                      feed.asked.page < LastPage, Query(selection), intersecting)
  /\ UNCHANGED <<selection, url, navigation, intersecting, open, chosen, overruled, events>>

FeedFails ==
  /\ feed.asked # NoRequest /\ events < MaxEvents /\ events' = events + 1
  /\ feed' = Failed(feed, Query(selection), intersecting)
  /\ UNCHANGED <<selection, url, navigation, intersecting, open, chosen, overruled>>

\* Another page is opened; the request in flight is not cancelled.
NgOnDestroy ==
  /\ UserEvent /\ open' = FALSE
  /\ UNCHANGED <<feed, selection, url, navigation, intersecting, chosen, overruled>>

\* The page is opened with any address (ngOnInit).
Init ==
  /\ url \in Urls
  /\ selection = ReadUrlState(url)
  /\ navigation = IF url.legacy THEN UrlOf(selection) ELSE NoNavigation
  /\ feed = ResetFeedAndReload(NewFeed, Query(selection))
  /\ intersecting = FALSE
  /\ open = TRUE
  /\ chosen = selection
  /\ overruled = FALSE
  /\ events = 0

Next ==
  \/ \E v \in Filters : OnFilterChanged(v)
  \/ \E tags \in TagLists : OnTagSelectionChanged(tags)
  \/ \E mode \in {"OR", "AND"} : OnTagMatchModeChanged(mode)
  \/ ResetFilters \/ RetryInitialLoad \/ RetryLoadMore
  \/ \E u \in Urls : BrowserNavigates(u)
  \/ NavigationEnds
  \/ \E seen \in BOOLEAN : Scrolls(seen)
  \/ FeedAnswers \/ FeedFails
  \/ NgOnDestroy

-----------------------------------------------------------------------------
TypeOK ==
  /\ selection \in Selections /\ chosen \in Selections
  /\ url \in Urls /\ navigation \in Urls \cup {NoNavigation}
  /\ {intersecting, open, overruled} \subseteq BOOLEAN
  /\ FeedOK(feed)

\* The list is made of the first pages for the filters that are selected, without a gap,
\* a page twice or a page of an earlier selection.  When no request is in flight it has
\* a page or says that it failed, and once no address is navigated to, the address and
\* the filters agree, and are what the user chose last, unless the choice was taken back
\* while the page still navigated.
FeedShowsSelection ==
  /\ feed.items = SubSeq(TheList(Query(selection)), 1, feed.page)
  /\ feed.asked = NoRequest => feed.page > 0 \/ feed.error = "initial"
  /\ navigation = NoNavigation => url = UrlOf(selection) /\ (~overruled => selection = chosen)
=============================================================================
