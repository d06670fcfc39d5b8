---------------------------- MODULE PerformersPage ----------------------------
(***************************************************************************)
(* The performers page (performers-page.component.ts): a list of the       *)
(* catalog's performers, filtered by name, in which performers are marked  *)
(* as favorites.  The catalog keeps the favorites, so that marking one     *)
(* changes what the pages of a list of favorites are.                      *)
(*                                                                         *)
(* The catalog reads a page, or sets a favorite, at some moment between    *)
(* the request and the answer.  direction stands for the gender, the sort  *)
(* and the direction, whose handlers are alike.                            *)
(***************************************************************************)
EXTENDS FeedControl, FiniteSets

CONSTANTS
  NameOf,     \* the words of each performer's name; performers are numbered by name
  Words,
  Links,      \* the addresses that links, back and forward lead to
  PageSize,
  NoText, NoNavigation, NoAnswer,
  MaxEvents

VARIABLES
  feed, selection, url, navigation, intersecting, timer, debounced, owed,
  favorites,  \* the favorites that the catalog has
  toggles,    \* favoriteInFlightById, what the requests ask for, and what was lost may still do
  answer,     \* what the catalog has read for the request in flight
  astray,     \* history: favorites changed in a way that the list does not follow
  events

vars == <<feed, selection, url, navigation, intersecting, timer, debounced, owed,
          favorites, toggles, answer, astray, events>>

Performers == DOMAIN NameOf

Texts == [word : Words \cup {""}, blank : BOOLEAN]
Trimmed(text) == [text EXCEPT !.blank = FALSE]

Selections == [text : Texts, direction : {"ASC", "DESC"}, favoritesOnly : BOOLEAN]
Default == [text |-> [word |-> "", blank |-> FALSE], direction |-> "ASC", favoritesOnly |-> FALSE]

\* normalizedNameFilter
UrlOf(s) == [s EXCEPT !.text = Trimmed(@)]
Urls == {s \in Selections : ~s.text.blank}

PerformersPageAssumption ==
  /\ DOMAIN NameOf \subseteq Nat /\ IsFiniteSet(DOMAIN NameOf) /\ "" \notin Words
  /\ PageSize \in Nat \ {0} /\ MaxEvents \in Nat
  /\ NoRequest \notin RequestsFor(Selections) /\ NoNavigation \notin Urls

LinksAssumption == Links \subseteq Urls

NoToggle == [pc |-> "idle", to |-> FALSE, late |-> {}]
Busy == \E p \in Performers : toggles[p].pc # "idle"

-----------------------------------------------------------------------------
\* The catalog's list of performers (an external service).
Ordered(found, direction) ==
  LET before(p) == {o \in found : IF direction = "ASC" THEN o < p ELSE o > p}
  IN [n \in 1..Cardinality(found) |-> CHOOSE p \in found : Cardinality(before(p)) = n - 1]

Result(q) ==
  Ordered({p \in Performers : (q.text.word # "" => q.text.word \in NameOf[p])
                              /\ (q.favoritesOnly => p \in favorites)}, q.direction)

Upto(q, n) == SubSeq(Result(q), 1, IF n < Len(Result(q)) THEN n ELSE Len(Result(q)))

Shown(ids) == [n \in DOMAIN ids |-> [id |-> ids[n], favorite |-> ids[n] \in favorites]]

\* PerformersService.getPerformersFeed: hasMore from the total.
PageOf(q, page) ==
  LET from == (page - 1) * PageSize
      ids == Upto(q, page * PageSize)
  IN [items |-> Shown(SubSeq(ids, from + 1, Len(ids))),
      hasMore |-> page * PageSize < Len(Result(q))]

-----------------------------------------------------------------------------
SyncUrlWithCurrentFilters(s) == IF url = UrlOf(s) THEN navigation ELSE UrlOf(s)

\* The list is started anew.
Reset(s) ==
  feed' = ResetFeedAndReload(feed, s) /\ owed' = FALSE /\ astray' = FALSE

UserEvent == events < MaxEvents /\ events' = events + 1

Chosen(s) == selection' = s /\ navigation' = SyncUrlWithCurrentFilters(s)

\* onNameFilterChanged: the address at once, the list after the timer.
OnNameFilterChanged(text) ==
  /\ UserEvent /\ text # selection.text
  /\ Chosen([selection EXCEPT !.text = text])
  /\ timer' = text
  /\ owed' = (owed \/ Trimmed(text) # Trimmed(selection.text))
  /\ UNCHANGED <<feed, url, intersecting, debounced, favorites, toggles, answer, astray>>

\* setupNameFilterDebounce
NameDebounced ==
  /\ timer # NoText
  /\ timer' = NoText /\ debounced' = timer
  /\ IF timer # debounced THEN Reset(selection) ELSE UNCHANGED <<feed, owed, astray>>
  /\ UNCHANGED <<answer, selection, url, navigation, intersecting, favorites, toggles, events>>

OnDirectionChanged(direction) ==
  /\ UserEvent /\ direction # selection.direction
  /\ LET s == [selection EXCEPT !.direction = direction] IN Chosen(s) /\ Reset(s)
  /\ UNCHANGED <<answer, url, intersecting, timer, debounced, favorites, toggles>>

OnFavoritesOnlyChanged ==
  /\ UserEvent
  /\ LET s == [selection EXCEPT !.favoritesOnly = ~@] IN Chosen(s) /\ Reset(s)
  /\ UNCHANGED <<answer, url, intersecting, timer, debounced, favorites, toggles>>

\* togglePerformerFavorite, up to the request.
TogglePerformerFavorite(n) ==
  /\ UserEvent /\ n \in DOMAIN feed.items
  /\ toggles[feed.items[n].id].pc = "idle"
  /\ toggles' = [toggles EXCEPT ![feed.items[n].id] =
                   [@ EXCEPT !.pc = "sent", !.to = ~feed.items[n].favorite]]
  /\ UNCHANGED <<feed, selection, url, navigation, intersecting, timer, debounced, owed,
                 favorites, answer, astray>>

FavoritesWith(p, to) == IF to THEN favorites \cup {p} ELSE favorites \ {p}

CatalogSetsFavorite(p) ==
  /\ toggles[p].pc = "sent"
  /\ toggles' = [toggles EXCEPT ![p].pc = "done"]
  /\ favorites' = FavoritesWith(p, toggles[p].to)
  /\ astray' = (astray \/ answer # NoAnswer)
  /\ UNCHANGED <<feed, selection, url, navigation, intersecting, timer, debounced, owed,
                 answer, events>>

\* Fault: the performer stays in a list of favorites, with the mark taken away.
MarkItem(p) ==
  /\ feed' = [feed EXCEPT !.items =
                [n \in DOMAIN @ |-> IF @[n].id = p THEN [@[n] EXCEPT !.favorite = toggles[p].to]
                                    ELSE @[n]]]
  /\ astray' = (astray \/ (selection.favoritesOnly /\ toggles[p].to)
                       \/ (toggles[p].to # (p \in favorites)))
  /\ UNCHANGED owed

\* The answer: where only favorites are listed, a performer that is none any more leaves
\* the list, and the pages behind it move up.
ShowFavorite(p) ==
  IF selection.favoritesOnly /\ ~toggles[p].to THEN Reset(selection) ELSE MarkItem(p)

\* The request of a performer is over, with what may be late.
Ended(p, late) == [toggles EXCEPT ![p] = [NoToggle EXCEPT !.late = late]]

FavoriteAnswered(p) ==
  /\ toggles[p].pc = "done"
  /\ toggles' = Ended(p, toggles[p].late)
  /\ ShowFavorite(p)
  /\ UNCHANGED <<answer, selection, url, navigation, intersecting, timer, debounced, favorites, events>>

\* The request fails, before the catalog has set the favorite or after.
FavoriteFails(p) ==
  /\ toggles[p].pc # "idle" /\ UserEvent
  /\ \/ toggles' = Ended(p, toggles[p].late)
     \/ toggles[p].pc = "sent" /\ toggles' = Ended(p, toggles[p].late \cup {toggles[p].to})
  /\ astray' = (astray \/ toggles[p].pc = "done")
  /\ UNCHANGED <<feed, selection, url, navigation, intersecting, timer, debounced, owed,
                 favorites, answer>>

\* A request given up for lost reaches the catalog after all.
LateFavorite(p, to) ==
  /\ to \in toggles[p].late
  /\ toggles' = [toggles EXCEPT ![p].late = @ \ {to}]
  /\ favorites' = FavoritesWith(p, to)
  /\ astray' = TRUE
  /\ UNCHANGED <<feed, selection, url, navigation, intersecting, timer, debounced, owed,
                 answer, events>>

Retry ==
  /\ UserEvent /\ feed.error # "none" /\ feed.asked = NoRequest
  /\ feed' = LoadNextPage(feed, selection)
  /\ UNCHANGED <<selection, url, navigation, intersecting, timer, debounced, owed,
                 favorites, toggles, answer, astray>>

BrowserNavigates(u) ==
  /\ UserEvent /\ u # url
  /\ navigation' = u
  /\ UNCHANGED <<feed, selection, url, intersecting, timer, debounced, owed,
                 favorites, toggles, answer, astray>>

\* setupUrlStateSync, readUrlState, applyUrlState
NavigationEnds ==
  /\ navigation # NoNavigation
  /\ url' = navigation /\ selection' = navigation /\ navigation' = NoNavigation
  /\ IF navigation # selection THEN Reset(navigation) ELSE UNCHANGED <<feed, owed, astray>>
  /\ UNCHANGED <<answer, intersecting, timer, debounced, favorites, toggles, events>>

Scrolls(seen) ==
  /\ SentinelRendered(feed) /\ seen # intersecting
  /\ intersecting' = seen
  /\ feed' = IF seen THEN LoadNextPage(feed, selection) ELSE feed
  /\ UNCHANGED <<selection, url, navigation, timer, debounced, owed, favorites, toggles,
                 answer, astray, events>>

CatalogReadsPage ==
  /\ feed.asked # NoRequest /\ answer = NoAnswer
  /\ answer' = PageOf(feed.asked.query, feed.asked.page)
  /\ UNCHANGED <<feed, selection, url, navigation, intersecting, timer, debounced, owed,
                 favorites, toggles, astray, events>>

FeedAnswers ==
  /\ feed.asked # NoRequest /\ answer # NoAnswer
  /\ feed' = Answered(feed, answer.items, answer.hasMore, selection, intersecting)
  /\ answer' = NoAnswer
  /\ UNCHANGED <<selection, url, navigation, intersecting, timer, debounced, owed,
                 favorites, toggles, astray, events>>

FeedFails ==
  /\ feed.asked # NoRequest /\ UserEvent
  /\ feed' = Failed(feed, selection, intersecting)
  /\ answer' = NoAnswer
  /\ UNCHANGED <<selection, url, navigation, intersecting, timer, debounced, owed,
                 favorites, toggles, astray>>

Init ==
  /\ favorites \in SUBSET Performers
  /\ url = Default /\ selection = url /\ navigation = NoNavigation
  /\ feed = ResetFeedAndReload(NewFeed, selection)
  /\ intersecting = FALSE
  /\ timer = NoText /\ debounced = NoText /\ owed = FALSE
  /\ toggles = [p \in Performers |-> NoToggle]
  /\ answer = NoAnswer /\ astray = FALSE
  /\ events = 0

Next ==
  \/ \E text \in Texts : OnNameFilterChanged(text)
  \/ NameDebounced
  \/ \E direction \in {"ASC", "DESC"} : OnDirectionChanged(direction)
  \/ OnFavoritesOnlyChanged
  \/ \E n \in DOMAIN feed.items : TogglePerformerFavorite(n)
  \/ \E p \in Performers :
       \/ CatalogSetsFavorite(p) \/ FavoriteAnswered(p) \/ FavoriteFails(p)
       \/ \E to \in BOOLEAN : LateFavorite(p, to)
  \/ Retry
  \/ \E u \in Links : BrowserNavigates(u)
  \/ NavigationEnds
  \/ \E seen \in BOOLEAN : Scrolls(seen)
  \/ CatalogReadsPage \/ FeedAnswers \/ FeedFails

-----------------------------------------------------------------------------
TypeOK ==
  /\ selection \in Selections
  /\ url \in Urls /\ navigation \in Urls \cup {NoNavigation}
  /\ {timer, debounced} \subseteq Texts \cup {NoText}
  /\ {intersecting, owed, astray} \subseteq BOOLEAN
  /\ favorites \subseteq Performers
  /\ toggles \in [Performers -> [pc : {"idle", "sent", "done"}, to : BOOLEAN, late : SUBSET BOOLEAN]]
  /\ FeedOK(feed) /\ (feed.asked = NoRequest => answer = NoAnswer)

\* Once no favorite is being set, the list is what the catalog has now for the filters,
\* as far as it was scrolled, with its favorites marked: marking favorites neither drops
\* a performer nor repeats one.  Left out is a text that was not searched for yet, and
\* the favorites that a page read before them, or a list of favorites, or a lost answer
\* does not show until the list is reset.
PerformersShowFavorites ==
  ~owed /\ ~astray /\ ~Busy =>
    /\ feed.items = Shown(Upto(selection, feed.page * PageSize))
    /\ feed.page > 0 => (feed.more <=> feed.page * PageSize < Len(Result(selection)))
=============================================================================
