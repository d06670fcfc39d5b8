------------------------------ MODULE LibraryPage ------------------------------
(***************************************************************************)
(* The library page (library-page.component.ts) and the query that answers *)
(* it (library-scene-query.service.ts), over a library that does not       *)
(* change meanwhile.  The text box is searched for a moment after the last *)
(* key (debounceTime, distinctUntilChanged), while the address follows at  *)
(* once, and every request sends the text of its time.                     *)
(*                                                                         *)
(* favorites stands for the three switches and the studios, whose handlers *)
(* and clauses are alike; sorts other than by date are left out.           *)
(***************************************************************************)
EXTENDS FeedControl, FiniteSets, Functions

CONSTANTS
  Scene,      \* LibrarySceneIndex: of each row the date, words, tags and favorite
  Words, Tags,
  Links,      \* the addresses that links, back and forward lead to
  PageSize,
  NoText, NoNavigation,
  MaxEvents

VARIABLES
  feed, selection, url, navigation, intersecting,
  timer,      \* the term that waits for debounceTime
  debounced,  \* the term that was searched for last
  owed,       \* history: the text changed since the list was last reset
  events

vars == <<feed, selection, url, navigation, intersecting, timer, debounced, owed, events>>

\* What the box may hold once trimStart removed leading blanks: a word, with a blank
\* after it or not.
Texts == [word : Words, blank : BOOLEAN] \cup [word : {""}, blank : {FALSE}]

\* trim
Trimmed(text) == [text EXCEPT !.blank = FALSE]

TagLists == UNION {Injection(1..n, Tags) : n \in 0..Cardinality(Tags)}

Selections == [text : Texts, direction : {"ASC", "DESC"}, favorites : BOOLEAN,
               tags : TagLists, mode : {"OR", "AND"}]

Default == [text |-> [word |-> "", blank |-> FALSE], direction |-> "DESC",
            favorites |-> FALSE, tags |-> <<>>, mode |-> "OR"]

\* The address has the trimmed text (readUrlState trims too).
UrlOf(s) == [s EXCEPT !.text = Trimmed(@)]
Urls == {s \in Selections : ~s.text.blank}

LibraryPageAssumption ==
  /\ "" \notin Words /\ IsFiniteSet(Tags) /\ IsFiniteSet(DOMAIN Scene)
  /\ PageSize \in Nat \ {0} /\ MaxEvents \in Nat
  /\ NoRequest \notin RequestsFor(Selections) /\ NoNavigation \notin Urls /\ NoText \notin Texts

LinksAssumption == Links \subseteq Urls

-----------------------------------------------------------------------------
\* buildWhere
Matches(r, q) ==
  /\ q.text.word # "" => q.text.word \in Scene[r].words
  /\ q.tags # <<>> => IF q.mode = "AND" THEN Range(q.tags) \subseteq Scene[r].tags
                      ELSE Range(q.tags) \cap Scene[r].tags # {}
  /\ q.favorites => Scene[r].favorite

\* buildOrderBy: rows of one date by their ids.
Precedes(direction, r, s) ==
  \/ Scene[r].date = Scene[s].date /\ r < s
  \/ IF direction = "ASC" THEN Scene[r].date < Scene[s].date
     ELSE Scene[r].date > Scene[s].date

Ordered(rows, direction) ==
  LET before(r) == Cardinality({s \in rows : Precedes(direction, s, r)})
  IN [n \in 1..Cardinality(rows) |-> CHOOSE r \in rows : before(r) = n - 1]

Result(q) == Ordered({r \in DOMAIN Scene : Matches(r, q)}, q.direction)

\* LibrarySceneQueryService.getScenesFeed
PageOf(q, page) ==
  LET total == Len(Result(q))
      last == IF page * PageSize < total THEN page * PageSize ELSE total
  IN [items |-> SubSeq(Result(q), (page - 1) * PageSize + 1, last),
      hasMore |-> page * PageSize < total]

-----------------------------------------------------------------------------
SyncUrlWithCurrentFilters(s) == IF url = UrlOf(s) THEN navigation ELSE UrlOf(s)

Reset(s) == feed' = ResetFeedAndReload(feed, s) /\ owed' = FALSE

UserEvent == events < MaxEvents /\ events' = events + 1

Chosen(s) == selection' = s /\ navigation' = SyncUrlWithCurrentFilters(s)

\* onQueryChanged: the list waits for the timer.
OnQueryChanged(text) ==
  /\ UserEvent /\ text # selection.text
  /\ Chosen([selection EXCEPT !.text = text])
  /\ timer' = Trimmed(text)
  /\ owed' = (owed \/ Trimmed(text) # Trimmed(selection.text))
  /\ UNCHANGED <<feed, url, intersecting, debounced>>

\* The timer runs out (setupQuerySearch); a repeated term is dropped.
QueryDebounced ==
  /\ timer # NoText
  /\ timer' = NoText /\ debounced' = timer
  /\ IF timer # debounced THEN Reset(selection) ELSE UNCHANGED <<feed, owed>>
  /\ UNCHANGED <<selection, url, navigation, intersecting, events>>

OnDirectionChanged(direction) ==
  /\ UserEvent /\ direction # selection.direction
  /\ LET s == [selection EXCEPT !.direction = direction] IN Chosen(s) /\ Reset(s)
  /\ UNCHANGED <<url, intersecting, timer, debounced>>

\* onFavoriteTagsOnlyChanged and the like, onStudioSelectionChanged.
OnFavoritesChanged(favorites) ==
  /\ UserEvent /\ favorites # selection.favorites
  /\ LET s == [selection EXCEPT !.favorites = favorites] IN Chosen(s) /\ Reset(s)
  /\ UNCHANGED <<url, intersecting, timer, debounced>>

OnTagSelectionChanged(tags) ==
  /\ UserEvent
  /\ LET s == [selection EXCEPT !.tags = tags]
     IN /\ Chosen(s)
        /\ IF Range(tags) # Range(selection.tags) THEN Reset(s) ELSE UNCHANGED <<feed, owed>>
  /\ UNCHANGED <<url, intersecting, timer, debounced>>

\* Without tags the mode changes nothing.
OnTagMatchModeChanged(mode) ==
  /\ UserEvent /\ mode # selection.mode
  /\ LET s == [selection EXCEPT !.mode = mode]
     IN Chosen(s) /\ IF s.tags # <<>> THEN Reset(s) ELSE UNCHANGED <<feed, owed>>
  /\ UNCHANGED <<url, intersecting, timer, debounced>>

ResetFilters ==
  /\ UserEvent /\ [selection EXCEPT !.text = Trimmed(@)] # Default
  /\ Chosen(Default) /\ Reset(Default) /\ timer' = Default.text
  /\ UNCHANGED <<url, intersecting, debounced>>

RetryInitialLoad ==
  /\ UserEvent /\ feed.error = "initial" /\ feed.asked = NoRequest
  /\ feed' = LoadNextPage(feed, selection)
  /\ UNCHANGED <<selection, url, navigation, intersecting, timer, debounced, owed>>

RetryLoadMore ==
  /\ UserEvent /\ feed.error = "more" /\ feed.asked = NoRequest /\ feed.more
  /\ feed' = LoadNextPage(feed, selection)
  /\ UNCHANGED <<selection, url, navigation, intersecting, timer, debounced, owed>>

BrowserNavigates(u) ==
  /\ UserEvent /\ u # url
  /\ navigation' = u
  /\ UNCHANGED <<feed, selection, url, intersecting, timer, debounced, owed>>

\* setupUrlStateSync: a text with a blank after it differs from that of the address.
NavigationEnds ==
  /\ navigation # NoNavigation
  /\ url' = navigation /\ selection' = navigation /\ navigation' = NoNavigation
  /\ IF navigation # selection THEN Reset(navigation) ELSE UNCHANGED <<feed, owed>>
  /\ UNCHANGED <<intersecting, timer, debounced, events>>

Scrolls(seen) ==
  /\ SentinelRendered(feed) /\ seen # intersecting
  /\ intersecting' = seen
  /\ feed' = IF seen THEN LoadNextPage(feed, selection) ELSE feed
  /\ UNCHANGED <<selection, url, navigation, timer, debounced, owed, events>>

FeedAnswers ==
  /\ feed.asked # NoRequest
  /\ LET answer == PageOf(feed.asked.query, feed.asked.page)
     IN feed' = Answered(feed, answer.items, answer.hasMore, selection, intersecting)
  /\ UNCHANGED <<selection, url, navigation, intersecting, timer, debounced, owed, events>>

FeedFails ==
  /\ feed.asked # NoRequest /\ UserEvent
  /\ feed' = Failed(feed, selection, intersecting)
  /\ UNCHANGED <<selection, url, navigation, intersecting, timer, debounced, owed>>

Init ==
  /\ url = Default
  /\ selection = url
  /\ navigation = NoNavigation
  /\ feed = ResetFeedAndReload(NewFeed, selection)
  /\ intersecting = FALSE
  /\ timer = NoText /\ debounced = NoText
  /\ owed = FALSE
  /\ events = 0

Next ==
  \/ \E text \in Texts : OnQueryChanged(text)
  \/ QueryDebounced
  \/ \E direction \in {"ASC", "DESC"} : OnDirectionChanged(direction)
  \/ \E favorites \in BOOLEAN : OnFavoritesChanged(favorites)
  \/ \E tags \in TagLists : OnTagSelectionChanged(tags)
  \/ \E mode \in {"OR", "AND"} : OnTagMatchModeChanged(mode)
  \/ ResetFilters \/ RetryInitialLoad \/ RetryLoadMore
  \/ \E u \in Links : BrowserNavigates(u)
  \/ NavigationEnds
  \/ \E seen \in BOOLEAN : Scrolls(seen)
  \/ FeedAnswers \/ FeedFails

-----------------------------------------------------------------------------
TypeOK ==
  /\ selection \in Selections
  /\ url \in Urls /\ navigation \in Urls \cup {NoNavigation}
  /\ {timer, debounced} \subseteq {Trimmed(t) : t \in Texts} \cup {NoText}
  /\ {intersecting, owed} \subseteq BOOLEAN
  /\ FeedOK(feed)

\* Unless the text waits to be searched for, the list is what the library has for the
\* filters and the text as far as it was scrolled, each scene once and in order, and it
\* ends where the library does.  The text is left waiting, when no timer runs, only if it
\* is the term that was searched for last.
LibraryShowsSelection ==
  /\ ~owed =>
       LET result == Result(selection)
           shown == feed.page * PageSize
       IN /\ feed.items = SubSeq(result, 1, IF shown < Len(result) THEN shown ELSE Len(result))
          /\ feed.page > 0 => (feed.more <=> shown < Len(result))
  /\ owed /\ timer = NoText => debounced = Trimmed(selection.text)
  /\ feed.asked = NoRequest => feed.page > 0 \/ feed.error = "initial"
=============================================================================
