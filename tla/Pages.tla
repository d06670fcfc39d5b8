------------------------------- MODULE Pages -------------------------------
(***************************************************************************)
(* Sessions and rails on the server, and six pages of the web              *)
(* application, in one module: a behaviour chooses one of them and takes   *)
(* its steps only, while the variables of the others have no value.        *)
(***************************************************************************)
EXTENDS Integers, Sequences

CONSTANTS
  Passwords, NoPassword, Sessions, NoSession, Requests, MAX_FAILURES, AuthEvents,
  Custom, Hybrid, RailRequests, NoPlace, RailsEvents,
  Catalog, Limit, LOOKUP_CONCURRENCY, OVERSCAN_FACTOR, PAGE_SIZE_MAX,
  NoRequest, NoNavigation, NoText, NoAnswer, NoDetails,  \* of all pages
  Filters, DefaultFilter, Words, LastPage, ListPageSize,
  SceneTags, ScenesEvents,
  LocalScenes, LibraryTags, LibraryLinks, LibraryEvents,
  Names, PerformersLinks, PerformersEvents,
  PerformerIds, Studios, PerformerTags, PerformerLinks, PerformerEvents,
  AcquisitionScenes, AcquisitionEvents,
  Builtin, NewRail, NoForm, HomeEvents

VARIABLES
  part, events,
  admin, sessions, requests, attempts, overlapped,
  place, railRequests, arranged, crossed,
  stash, rail, ready, scan, content,
  feed, selection, url, navigation, intersecting,   \* of the page that is open
  open, chosen, overruled,
  timer, debounced, owed,
  favorites, toggles, answer, astray,
  details, performer, favoriting, mixed,
  counts, lifecycle, shifted,
  server, calls, abandoned, railConfigs, draftRails, configError, items, editorOpen, railForm,
  requestModal, tangled

Auth == INSTANCE Authentication WITH MaxEvents <- AuthEvents
Rails == INSTANCE HomeRails WITH MaxEvents <- RailsEvents
Rail == INSTANCE HybridRail
SceneList == INSTANCE ScenesPage WITH Tags <- SceneTags, MaxEvents <- ScenesEvents
Library == INSTANCE LibraryPage WITH
  Scene <- LocalScenes, Tags <- LibraryTags, Links <- LibraryLinks, PageSize <- ListPageSize,
  MaxEvents <- LibraryEvents
PerformerList == INSTANCE PerformersPage WITH
  NameOf <- Names, Links <- PerformersLinks, PageSize <- ListPageSize,
  MaxEvents <- PerformersEvents
Performer == INSTANCE PerformerPage WITH
  Performers <- PerformerIds, Tags <- PerformerTags, Links <- PerformerLinks,
  MaxEvents <- PerformerEvents
Acquisition == INSTANCE AcquisitionPage WITH
  Scenes <- AcquisitionScenes, PageSize <- ListPageSize, MaxEvents <- AcquisitionEvents
Home == INSTANCE HomePage WITH MaxEvents <- HomeEvents

ASSUME PagesAssumption ==
  /\ Auth!AuthAssumption
  /\ Rails!RailsAssumption
  /\ Rail!HybridAssumption
  /\ SceneList!ScenesPageAssumption
  /\ Library!LibraryPageAssumption /\ Library!LinksAssumption
  /\ PerformerList!PerformersPageAssumption /\ PerformerList!LinksAssumption
  /\ Performer!PerformerPageAssumption /\ Performer!LinksAssumption
  /\ Acquisition!AcquisitionAssumption
  /\ Home!HomePageAssumption

Parts == {"auth", "rails", "rail", "scenes", "library", "performers", "performer", "acquisition",
          "home"}

AuthVars == <<admin, sessions, requests, attempts, overlapped>>
RailsVars == <<place, railRequests, arranged, crossed>>
RailVars == <<stash, rail, ready, scan, content>>
PageVars == <<feed, selection, url, navigation, intersecting>>
ScenesVars == <<open, chosen, overruled>>
TextVars == <<timer, debounced, owed>>
FavoritesVars == <<favorites>>
AnswerVars == <<answer>>
PerformersVars == <<toggles, astray>>
PerformerVars == <<details, performer, favoriting, mixed>>
AcquisitionVars == <<counts, lifecycle, shifted>>
HomeVars == <<server, calls, abandoned, railConfigs, draftRails, configError, items, editorOpen,
              railForm, requestModal, tangled>>

\* The variables of the parts that are not checked have no value.
None == "none"

NoAuth == admin = None /\ sessions = None /\ requests = None /\ attempts = None /\ overlapped = None
NoRails == place = None /\ railRequests = None /\ arranged = None /\ crossed = None
NoRail == stash = None /\ rail = None /\ ready = None /\ scan = None /\ content = None
NoPage ==
  feed = None /\ selection = None /\ url = None /\ navigation = None /\ intersecting = None
NoScenes == open = None /\ chosen = None /\ overruled = None
NoTimer == timer = None /\ debounced = None /\ owed = None
NoFavorites == favorites = None
NoAnswers == answer = None
NoPerformers == toggles = None /\ astray = None
NoPerformer == details = None /\ performer = None /\ favoriting = None /\ mixed = None
NoAcquisition == counts = None /\ lifecycle = None /\ shifted = None
NoHome ==
  /\ server = None /\ calls = None /\ abandoned = None /\ railConfigs = None /\ draftRails = None
  /\ configError = None /\ items = None /\ editorOpen = None /\ railForm = None
  /\ requestModal = None /\ tangled = None

NoLists == NoFavorites /\ NoAnswers /\ NoPerformers /\ NoPerformer /\ NoAcquisition

Init ==
  /\ events = 0
  /\ \/ part = "auth" /\ Auth!Init /\ NoRails /\ NoRail
        /\ NoPage /\ NoScenes /\ NoTimer /\ NoLists
     \/ part = "rails" /\ Rails!Init /\ NoAuth /\ NoRail
        /\ NoPage /\ NoScenes /\ NoTimer /\ NoLists
     \/ part = "rail" /\ Rail!Init /\ NoAuth /\ NoRails
        /\ NoPage /\ NoScenes /\ NoTimer /\ NoLists
     \/ part = "scenes" /\ SceneList!Init /\ NoAuth /\ NoRails /\ NoRail /\ NoTimer /\ NoLists
     \/ part = "library" /\ Library!Init /\ NoAuth /\ NoRails /\ NoRail /\ NoScenes /\ NoLists
     \/ part = "performers" /\ PerformerList!Init /\ NoAuth /\ NoRails /\ NoRail /\ NoScenes
        /\ NoPerformer /\ NoAcquisition
     \/ part = "performer" /\ Performer!Init /\ NoAuth /\ NoRails /\ NoRail /\ NoScenes
        /\ NoTimer /\ NoAnswers /\ NoPerformers /\ NoAcquisition
     \/ part = "acquisition" /\ Acquisition!Init /\ NoAuth /\ NoRails /\ NoRail /\ NoScenes
        /\ NoTimer /\ NoFavorites /\ NoPerformers /\ NoPerformer
     \/ part = "home" /\ Home!Init /\ NoAuth /\ NoRails /\ NoRail
        /\ NoPage /\ NoScenes /\ NoTimer /\ NoLists
  /\ part # "home" => NoHome

ServerVars == <<AuthVars, RailsVars, RailVars>>
ListVars == <<FavoritesVars, AnswerVars, PerformersVars, PerformerVars, AcquisitionVars>>

AuthStep ==
  /\ part = "auth" /\ Auth!Next
  /\ UNCHANGED <<RailsVars, RailVars, PageVars, ScenesVars, TextVars, ListVars>>

RailsStep ==
  /\ part = "rails" /\ Rails!Next
  /\ UNCHANGED <<AuthVars, RailVars, PageVars, ScenesVars, TextVars, ListVars>>

RailStep ==
  /\ part = "rail" /\ Rail!Next
  /\ UNCHANGED <<events, AuthVars, RailsVars, PageVars, ScenesVars, TextVars, ListVars>>

ScenesStep ==
  /\ part = "scenes" /\ SceneList!Next
  /\ UNCHANGED <<ServerVars, TextVars, ListVars>>

LibraryStep ==
  /\ part = "library" /\ Library!Next
  /\ UNCHANGED <<ServerVars, ScenesVars, ListVars>>

PerformersStep ==
  /\ part = "performers" /\ PerformerList!Next
  /\ UNCHANGED <<ServerVars, ScenesVars, PerformerVars, AcquisitionVars>>

PerformerStep ==
  /\ part = "performer" /\ Performer!Next
  /\ UNCHANGED <<ServerVars, ScenesVars, TextVars, AnswerVars, PerformersVars, AcquisitionVars>>

AcquisitionStep ==
  /\ part = "acquisition" /\ Acquisition!Next
  /\ UNCHANGED <<ServerVars, ScenesVars, TextVars, FavoritesVars, PerformersVars, PerformerVars>>

HomeStep ==
  /\ part = "home" /\ Home!Next
  /\ UNCHANGED <<ServerVars, PageVars, ScenesVars, TextVars, ListVars>>

Next ==
  /\ \/ HomeStep
     \/ /\ UNCHANGED HomeVars
        /\ \/ AuthStep \/ RailsStep \/ RailStep \/ ScenesStep \/ LibraryStep
           \/ PerformersStep \/ PerformerStep \/ AcquisitionStep
  /\ UNCHANGED part

Spec ==
  Init /\ [][Next]_<<part, events, ServerVars, PageVars, ScenesVars, TextVars, ListVars, HomeVars>>

-----------------------------------------------------------------------------
\* The state of each part stays in its range.
TypeOK ==
  /\ part = "auth" => Auth!TypeOK
  /\ part = "rails" => Rails!TypeOK
  /\ part = "rail" => Rail!TypeOK
  /\ part = "scenes" => SceneList!TypeOK
  /\ part = "library" => Library!TypeOK
  /\ part = "performers" => PerformerList!TypeOK
  /\ part = "performer" => Performer!TypeOK
  /\ part = "acquisition" => Acquisition!TypeOK
  /\ part = "home" => Home!TypeOK

\* A session that is let in was started with the password in force, or set it
\* (AuthService).
OldPasswordsOut == part = "auth" => Auth!OldPasswordsOut

\* The rails keep the order in which they were last arranged (HomeService).
ArrangementKept == part = "rails" => Rails!ArrangementKept

\* The home page shows the rails in the server's order, with their content
\* (HomePageComponent).
HomeShowsRails == part = "home" => Home!HomeShowsRails

\* A hybrid rail shows the first scenes that belong into it (HybridScenesService).
RailShowsFirstMatches == part = "rail" => Rail!RailShowsFirstMatches

\* The lists of the scenes page, the library page, the performers page, a performer's page
\* and the acquisition page are those of the filters that are selected, page after page,
\* whatever is in flight.
FeedsShowSelection ==
  /\ part = "scenes" => SceneList!FeedShowsSelection
  /\ part = "library" => Library!LibraryShowsSelection
  /\ part = "performers" => PerformerList!PerformersShowFavorites
  /\ part = "performer" => Performer!PerformerShown
  /\ part = "acquisition" => Acquisition!AcquisitionShowsIndex
=============================================================================
