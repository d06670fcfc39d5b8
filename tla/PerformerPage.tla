----------------------------- MODULE PerformerPage -----------------------------
(***************************************************************************)
(* The page of a performer (performer-page.component.ts): the performer's  *)
(* details, with a switch that makes it a favorite of the catalog, and the *)
(* list of its scenes.  The router keeps the page when the address changes *)
(* to that of another performer, so that requests for the one before may   *)
(* still be in flight.                                                     *)
(*                                                                         *)
(* filter stands for the sort, the direction and the favorite studios.  A  *)
(* page of the list is represented by what was asked for.  The catalog     *)
(* reads details, or sets a favorite, between the request and the answer.  *)
(***************************************************************************)
EXTENDS FeedControl, FiniteSets, Functions

CONSTANTS
  Performers,
  Filters, DefaultFilter, Studios, Tags,
  Links,       \* the addresses that links, back and forward lead to
  LastPage,    \* the number of pages of every list
  NoNavigation, NoDetails, NoAnswer,
  MaxEvents

VARIABLES
  feed, selection, url, navigation, intersecting,
  favorites,   \* the favorites that the catalog has
  details,     \* the requests for details in flight
  performer,   \* the details that are shown, with loadingPerformer and performerError
  favoriting,  \* the request that sets a favorite, which favoritingPerformer keeps single, and
               \* those given up for lost that may still reach the catalog
  mixed,       \* history: the performer changed while one of these was in flight
  events

vars == <<feed, selection, url, navigation, intersecting, favorites, details, performer,
          favoriting, mixed, events>>

Lists(S) == UNION {Injection(1..n, S) : n \in 0..Cardinality(S)}

Selections == [filter : Filters, studios : Lists(Studios), tags : Lists(Tags)]
Urls == [id : Performers, params : Selections]

LinksAssumption == Links \subseteq Urls

\* What the request for scenes asks for (the order of the studios and tags says nothing).
Query(id, s) == [id |-> id, filter |-> s.filter, studios |-> Range(s.studios), tags |-> Range(s.tags)]

Queries == [id : Performers, filter : Filters, studios : SUBSET Studios, tags : SUBSET Tags]
Details == [id : Performers, favorite : BOOLEAN]

PerformerPageAssumption ==
  /\ DefaultFilter \in Filters
  /\ LastPage \in Nat \ {0} /\ MaxEvents \in Nat
  /\ NoRequest \notin RequestsFor(Queries) /\ NoNavigation \notin Urls /\ NoDetails \notin Details

TheList(query) == [n \in 1..LastPage |-> [query |-> query, page |-> n]]

NoFavoriting == [pc |-> "idle", id |-> NoDetails, to |-> FALSE, late |-> {}]

FeedVars == <<feed, selection, url, navigation, intersecting>>
DetailVars == <<favorites, details, performer, favoriting, mixed>>

UserEvent == events < MaxEvents /\ events' = events + 1

\* The filters and the list are on the screen with the details only.
DetailsVisible == ~performer.loading /\ ~performer.error /\ performer.shown # NoDetails

-----------------------------------------------------------------------------
\* The filters.

\* syncUrlWithCurrentFilters: an address of the performer that is shown.
SyncUrlWithCurrentFilters(s) ==
  IF url.params = s THEN navigation ELSE [url EXCEPT !.params = s]

Chosen(s) == selection' = s /\ navigation' = SyncUrlWithCurrentFilters(s)

Reset(s) == feed' = ResetFeedAndReload(feed, Query(url.id, s))

\* onSceneSortChanged, onSceneSortDirectionChanged, onOnlyFavoriteStudiosChanged
OnFilterChanged(v) ==
  /\ UserEvent /\ DetailsVisible /\ v # selection.filter
  /\ LET s == [selection EXCEPT !.filter = v] IN Chosen(s) /\ Reset(s)
  /\ UNCHANGED <<url, intersecting, DetailVars>>

\* The same studios in another order are no change.
OnStudioSelectionChanged(studios) ==
  /\ UserEvent /\ DetailsVisible /\ Range(studios) # Range(selection.studios)
  /\ LET s == [selection EXCEPT !.studios = studios] IN Chosen(s) /\ Reset(s)
  /\ UNCHANGED <<url, intersecting, DetailVars>>

\* The same tags in another order change the address only.
OnTagSelectionChanged(tags) ==
  /\ UserEvent /\ DetailsVisible
  /\ LET s == [selection EXCEPT !.tags = tags]
     IN /\ Chosen(s)
        /\ IF Range(tags) # Range(selection.tags) THEN Reset(s) ELSE UNCHANGED feed
  /\ UNCHANGED <<url, intersecting, DetailVars>>

-----------------------------------------------------------------------------
\* The details.

\* loadPerformer, which may be called with earlier requests in flight.
LoadPerformer(id) ==
  /\ details' = Append(details, [id |-> id, read |-> NoAnswer])
  /\ performer' = [performer EXCEPT !.loading = TRUE, !.error = FALSE]

CatalogReadsDetails(n) ==
  /\ details[n].read = NoAnswer
  /\ details' = [details EXCEPT ![n].read = details[n].id \in favorites]
  /\ UNCHANGED <<FeedVars, favorites, performer, favoriting, mixed, events>>

\* The requests but the n-th.
RemoveAt(s, n) == SubSeq(s, 1, n - 1) \o SubSeq(s, n + 1, Len(s))

\* Whatever performer the answer is for, it is shown.
DetailsAnswered(n) ==
  /\ details[n].read # NoAnswer
  /\ details' = RemoveAt(details, n)
  /\ performer' = [performer EXCEPT !.loading = FALSE,
                     !.shown = [id |-> details[n].id, favorite |-> details[n].read]]
  /\ UNCHANGED <<FeedVars, favorites, favoriting, mixed, events>>

DetailsFail(n) ==
  /\ UserEvent
  /\ details' = RemoveAt(details, n)
  /\ performer' = [performer EXCEPT !.loading = FALSE, !.error = TRUE]
  /\ UNCHANGED <<FeedVars, favorites, favoriting, mixed>>

RetryPerformerLoad ==
  /\ UserEvent /\ ~performer.loading /\ performer.error
  /\ LoadPerformer(url.id)
  /\ mixed' = (details # <<>> \/ favoriting.pc # "idle")
  /\ UNCHANGED <<FeedVars, favorites, favoriting>>

\* toggleFavoritePerformer, for the performer that is shown.
ToggleFavoritePerformer ==
  /\ UserEvent /\ DetailsVisible /\ favoriting.pc = "idle"
  /\ favoriting' = [favoriting EXCEPT !.pc = "sent", !.id = performer.shown.id,
                                      !.to = ~performer.shown.favorite]
  /\ UNCHANGED <<FeedVars, favorites, details, performer, mixed>>

FavoritesWith(id, to) == IF to THEN favorites \cup {id} ELSE favorites \ {id}

CatalogSetsFavorite ==
  /\ favoriting.pc = "sent"
  /\ favoriting' = [favoriting EXCEPT !.pc = "done"]
  /\ favorites' = FavoritesWith(favoriting.id, favoriting.to)
  /\ UNCHANGED <<FeedVars, details, performer, mixed, events>>

Ended(late) == [NoFavoriting EXCEPT !.late = late]

\* The answer marks the performer that is shown by then.
FavoriteAnswered ==
  /\ favoriting.pc = "done"
  /\ favoriting' = Ended(favoriting.late)
  /\ performer' = [performer EXCEPT !.shown.favorite = favoriting.to]
  /\ UNCHANGED <<FeedVars, favorites, details, mixed, events>>

\* Whether the catalog has set the favorite is not known.
FavoriteFails ==
  /\ favoriting.pc # "idle" /\ UserEvent
  /\ \/ favoriting' = Ended(favoriting.late)
     \/ /\ favoriting.pc = "sent"
        /\ favoriting' = Ended(favoriting.late \cup {[id |-> favoriting.id, to |-> favoriting.to]})
  /\ mixed' = (mixed \/ favoriting.pc = "done")
  /\ UNCHANGED <<FeedVars, favorites, details, performer>>

\* A request given up for lost reaches the catalog after all.
LateFavorite(f) ==
  /\ favoriting' = [favoriting EXCEPT !.late = @ \ {f}]
  /\ favorites' = FavoritesWith(f.id, f.to)
  /\ mixed' = TRUE
  /\ UNCHANGED <<FeedVars, details, performer, events>>

-----------------------------------------------------------------------------
\* The list and the address.

Retry ==
  /\ UserEvent /\ DetailsVisible /\ feed.error # "none" /\ feed.asked = NoRequest
  /\ feed' = LoadNextPage(feed, Query(url.id, selection))
  /\ UNCHANGED <<selection, url, navigation, intersecting, DetailVars>>

BrowserNavigates(u) ==
  /\ UserEvent /\ u # url
  /\ navigation' = u
  /\ UNCHANGED <<feed, selection, url, intersecting, DetailVars>>

\* The router tells the new parameters before the new performer: with both, the list is
\* reset for the performer before, and then for the new one.
ReloadFor(u) ==
  LET filtered == IF u.params # selection THEN ResetFeedAndReload(feed, Query(url.id, u.params))
                  ELSE feed
  IN IF u.id # url.id THEN ResetFeedAndReload(filtered, Query(u.id, u.params)) ELSE filtered

\* The address is reached and applied (ngOnInit's subscription).
NavigationEnds ==
  /\ navigation # NoNavigation
  /\ url' = navigation /\ selection' = navigation.params /\ navigation' = NoNavigation
  /\ feed' = ReloadFor(navigation)
  /\ IF navigation.id # url.id
     THEN /\ LoadPerformer(navigation.id)
          /\ mixed' = (details # <<>> \/ favoriting.pc # "idle")
     ELSE UNCHANGED <<details, performer, mixed>>
  /\ UNCHANGED <<intersecting, favorites, favoriting, events>>

Scrolls(seen) ==
  /\ SentinelRendered(feed) /\ DetailsVisible /\ seen # intersecting
  /\ intersecting' = seen
  /\ feed' = IF seen THEN LoadNextPage(feed, Query(url.id, selection)) ELSE feed
  /\ UNCHANGED <<selection, url, navigation, DetailVars, events>>

FeedAnswers ==
  /\ feed.asked # NoRequest
  /\ feed' = Answered(feed, <<[query |-> feed.asked.query, page |-> feed.asked.page]>>,
                      feed.asked.page < LastPage, Query(url.id, selection), intersecting)
  /\ UNCHANGED <<selection, url, navigation, intersecting, DetailVars, events>>

FeedFails ==
  /\ feed.asked # NoRequest /\ UserEvent
  /\ feed' = Failed(feed, Query(url.id, selection), intersecting)
  /\ UNCHANGED <<selection, url, navigation, intersecting, DetailVars>>

\* The page is opened by a link (ngOnInit).
Init ==
  /\ url \in Links /\ selection = url.params /\ navigation = NoNavigation
  /\ feed = ResetFeedAndReload(NewFeed, Query(url.id, selection))
  /\ intersecting = FALSE
  /\ favorites \in SUBSET Performers
  /\ details = <<[id |-> url.id, read |-> NoAnswer]>>
  /\ performer = [shown |-> NoDetails, loading |-> TRUE, error |-> FALSE]
  /\ favoriting = NoFavoriting
  /\ mixed = FALSE
  /\ events = 0

Next ==
  \/ \E v \in Filters : OnFilterChanged(v)
  \/ \E studios \in Lists(Studios) : OnStudioSelectionChanged(studios)
  \/ \E tags \in Lists(Tags) : OnTagSelectionChanged(tags)
  \/ \E n \in DOMAIN details : CatalogReadsDetails(n) \/ DetailsAnswered(n) \/ DetailsFail(n)
  \/ RetryPerformerLoad
  \/ ToggleFavoritePerformer \/ CatalogSetsFavorite \/ FavoriteAnswered \/ FavoriteFails
  \/ \E f \in favoriting.late : LateFavorite(f)
  \/ Retry
  \/ \E u \in Links : BrowserNavigates(u)
  \/ NavigationEnds
  \/ \E seen \in BOOLEAN : Scrolls(seen)
  \/ FeedAnswers \/ FeedFails

-----------------------------------------------------------------------------
TypeOK ==
  /\ selection \in Selections
  /\ url \in Urls /\ navigation \in Urls \cup {NoNavigation}
  /\ {intersecting, mixed} \subseteq BOOLEAN
  /\ favorites \subseteq Performers
  /\ details \in Seq([id : Performers, read : BOOLEAN \cup {NoAnswer}])
  /\ performer \in [shown : Details \cup {NoDetails},
                    loading : BOOLEAN, error : BOOLEAN]
  /\ favoriting.pc \in {"idle", "sent", "done"}
  /\ performer.loading => details # <<>>
  /\ FeedOK(feed)

\* The list is made of the first pages of the scenes of the performer that the address
\* names, for the filters that are selected.  The details are that performer's too, with
\* the favorite as the catalog has it when none is being set, unless the performer
\* changed while its details were read or its favorite was set, or the answer was lost.
PerformerShown ==
  /\ feed.items = SubSeq(TheList(Query(url.id, selection)), 1, feed.page)
  /\ feed.asked = NoRequest => feed.page > 0 \/ feed.error = "initial"
  /\ ~mixed /\ DetailsVisible =>
       /\ performer.shown.id = url.id
       /\ favoriting.pc = "idle" => (performer.shown.favorite <=> url.id \in favorites)
=============================================================================
