------------------------------- MODULE HomePage -------------------------------
(***************************************************************************)
(* The home page (home-page.component.ts): the rails it shows, the editor  *)
(* in which their order is drafted and saved, the form that creates or     *)
(* changes a rail, and the deletion of one.  Each is a request of its own, *)
(* and all but the first may be in flight together; each that changes the  *)
(* rails is followed by their being loaded again.                          *)
(*                                                                         *)
(* The server carries out a request in one step (HomeRails has its steps). *)
(* A rail is its id and whether it is enabled; the rails that are enabled  *)
(* all show one scene, which may be requested from the page.               *)
(***************************************************************************)
EXTENDS Integers, Sequences, FiniteSets, Functions

CONSTANTS Builtin, Custom, NewRail, NoForm, MaxEvents

HomePageAssumption ==
  /\ Builtin \cap Custom = {}
  /\ NewRail \notin Custom /\ NoForm \notin Custom \cup {NewRail}
  /\ IsFiniteSet(Builtin) /\ IsFiniteSet(Custom)
  /\ MaxEvents \in Nat

VARIABLES
  server,       \* the rails, in order, and whether the scene is requested
  calls,        \* the page's requests in flight
  abandoned,    \* requests that the page waits for no longer
  railConfigs, draftRails, configError,
  items,        \* railItemsById and railErrorsById: how each rail shows the scene
  editorOpen,
  railForm,     \* the rail that the form is for
  requestModal,
  tangled,      \* history: since the last load, answers may have come in another order
                \* than the server gave them, or one was lost
  events

vars == <<server, calls, abandoned, railConfigs, draftRails, configError, items, editorOpen,
          railForm, requestModal, tangled, events>>

-----------------------------------------------------------------------------
Ids(rails) == {rails[n].id : n \in DOMAIN rails}
Enabled(rails) == {rails[n].id : n \in {m \in DOMAIN rails : rails[m].enabled}}
With(rails, id, enabled) ==
  [n \in DOMAIN rails |-> IF rails[n].id = id THEN [rails[n] EXCEPT !.enabled = enabled] ELSE rails[n]]

\* No two rails have an id in common.
Place(rails, id) == CHOOSE n \in DOMAIN rails : rails[n].id = id
Without(rails, n) == SubSeq(rails, 1, n - 1) \o SubSeq(rails, n + 1, Len(rails))

\* The rails in some order.
Listed(S) == CHOOSE order \in Injection(1..Cardinality(S), S) : TRUE

Calls == {"load", "save", "form", "delete"}

Idle == [pc |-> "idle", op |-> [kind |-> "none"], ok |-> FALSE, rails |-> <<>>, content |-> <<>>]
Sent(op) == [Idle EXCEPT !.pc = "sent", !.op = op]
InFlight(c) == calls[c].pc # "idle"

Read == [kind |-> "read"]

\* What the server makes of a request: the rails it leaves, or a refusal.
Outcomes(op) ==
  LET rails == server.rails
      Done(r) == {[rails |-> r, ok |-> TRUE]}
      Refused == {[rails |-> rails, ok |-> FALSE]}
  IN CASE op.kind = "read" -> Done(rails)
       [] op.kind = "order" -> IF Ids(op.rails) = Ids(rails) THEN Done(op.rails) ELSE Refused
       [] op.kind = "create" ->
            {[rails |-> Append(rails, [id |-> x, enabled |-> op.enabled]), ok |-> TRUE] :
               x \in Custom \ Ids(rails)}
       [] op.kind = "edit" ->
            IF op.id \in Ids(rails) THEN Done(With(rails, op.id, op.enabled)) ELSE Refused
       [] op.kind = "delete" ->
            IF op.id \in Ids(rails) THEN Done(Without(rails, Place(rails, op.id))) ELSE Refused

Event == events < MaxEvents /\ events' = events + 1

Page == <<railConfigs, draftRails, configError, items, editorOpen, railForm>>
Outside == <<server, abandoned, requestModal>>

\* A spinner hides everything while the rails are loaded, an error when they could not be.
RailsVisible == ~InFlight("load") /\ ~configError
EditorVisible == RailsVisible /\ editorOpen

\* hasDraftChanges, canMutateCustomRails
HasDraftChanges == draftRails # railConfigs
CanMutateCustomRails == ~HasDraftChanges /\ ~InFlight("save") /\ ~InFlight("form")

-----------------------------------------------------------------------------
\* Loading.

\* Fault: a load in flight is waited for instead.
LoadHomeOnce(others) ==
  IF others["load"].pc # "idle" THEN others ELSE [others EXCEPT !["load"] = Sent(Read)]

\* loadHome: the load before it is waited for no longer.
LoadHome(others) == [others EXCEPT !["load"] = Sent(Read)]

Reloads(others) ==
  /\ calls' = LoadHome(others)
  /\ configError' = FALSE
  /\ tangled' = (InFlight("save") \/ abandoned # {})

RetryLoad ==
  /\ Event /\ configError /\ ~InFlight("load")
  /\ Reloads(calls)
  /\ UNCHANGED <<Outside, railConfigs, draftRails, items, editorOpen, railForm>>

ServerAnswers(c) ==
  /\ calls[c].pc = "sent"
  /\ \E a \in Outcomes(calls[c].op) :
       /\ server' = [server EXCEPT !.rails = a.rails]
       /\ calls' = [calls EXCEPT ![c].pc = "answered", ![c].ok = a.ok, ![c].rails = a.rails]
  /\ UNCHANGED <<Page, abandoned, requestModal, tangled, events>>

\* loadRailContent is done: forkJoin waits for every rail that is enabled.
Shown(c, content) ==
  /\ items' = content
  /\ calls' = [calls EXCEPT ![c] = Idle]
  /\ editorOpen' = (editorOpen /\ c # "save")

\* The rails of a load or of a saved order: their content is asked for.
RailsAnswered(c) ==
  /\ c \in {"load", "save"} /\ calls[c].pc = "answered" /\ calls[c].ok
  /\ railConfigs' = calls[c].rails /\ draftRails' = calls[c].rails
  /\ IF Enabled(calls[c].rails) = {} THEN Shown(c, <<>>)
     ELSE /\ calls' = [calls EXCEPT ![c].pc = "content"]
          /\ items' = IF c = "load" THEN <<>> ELSE items
          /\ UNCHANGED editorOpen
  /\ UNCHANGED <<Outside, configError, railForm, tangled, events>>

\* loadSingleRail: the server reads a rail's scenes, or an error is shown in their place.
LoadSingleRail(c, id, failed) ==
  /\ calls[c].pc = "content" /\ id \in Enabled(calls[c].rails) \ DOMAIN calls[c].content
  /\ IF failed THEN Event ELSE UNCHANGED events
  /\ LET shown == IF failed THEN "failed"
                  ELSE IF server.requested THEN "requested" ELSE "requestable"
         others == calls[c].content
     IN calls' = [calls EXCEPT ![c].content =
          [x \in DOMAIN others \cup {id} |-> IF x = id THEN shown ELSE others[x]]]
  /\ UNCHANGED <<Outside, Page, tangled>>

ContentAnswered(c) ==
  /\ calls[c].pc = "content" /\ DOMAIN calls[c].content = Enabled(calls[c].rails)
  /\ Shown(c, calls[c].content)
  /\ UNCHANGED <<Outside, railConfigs, draftRails, configError, railForm, tangled, events>>

-----------------------------------------------------------------------------
\* The editor.

\* Also when it is open.
OpenEditor ==
  /\ editorOpen' = TRUE /\ draftRails' = railConfigs /\ railForm' = NoForm
  /\ UNCHANGED <<Outside, calls, railConfigs, configError, items, tangled, events>>

CancelEditor ==
  /\ EditorVisible
  /\ editorOpen' = FALSE /\ draftRails' = railConfigs /\ railForm' = NoForm
  /\ UNCHANGED <<Outside, calls, railConfigs, configError, items, tangled, events>>

\* setDraftRailEnabled, moveDraftRail
EditDraft ==
  /\ Event /\ EditorVisible
  /\ \E n \in DOMAIN draftRails :
       \/ draftRails' = [draftRails EXCEPT ![n].enabled = ~@]
       \/ /\ n > 1
          /\ draftRails' = [draftRails EXCEPT ![n] = draftRails[n - 1], ![n - 1] = draftRails[n]]
  /\ UNCHANGED <<Outside, calls, railConfigs, configError, items, editorOpen, railForm, tangled>>

SaveRails ==
  /\ EditorVisible /\ ~InFlight("save") /\ HasDraftChanges
  /\ calls' = [calls EXCEPT !["save"] = Sent([kind |-> "order", rails |-> draftRails])]
  /\ UNCHANGED <<Outside, Page, tangled, events>>

\* openCreateRailForm, openEditRailForm
OpenRailForm(x) ==
  /\ EditorVisible /\ CanMutateCustomRails
  /\ x \in (Custom \cap Ids(draftRails)) \cup {NewRail} /\ railForm' = x
  /\ UNCHANGED <<Outside, calls, railConfigs, draftRails, configError, items, editorOpen, tangled,
                 events>>

CloseRailForm ==
  /\ EditorVisible /\ railForm # NoForm /\ railForm' = NoForm
  /\ UNCHANGED <<Outside, calls, railConfigs, draftRails, configError, items, editorOpen, tangled,
                 events>>

\* The form remains in place while the order is edited and saved.
SaveRailForm(enabled) ==
  /\ Event /\ EditorVisible /\ railForm # NoForm /\ ~InFlight("form")
  /\ calls' = [calls EXCEPT !["form"] = Sent(
       IF railForm = NewRail THEN [kind |-> "create", enabled |-> enabled]
       ELSE [kind |-> "edit", id |-> railForm, enabled |-> enabled])]
  /\ UNCHANGED <<Outside, Page, tangled>>

FormAnswered ==
  /\ calls["form"].pc = "answered" /\ calls["form"].ok
  /\ railForm' = NoForm /\ editorOpen' = TRUE
  /\ Reloads([calls EXCEPT !["form"] = Idle])
  /\ UNCHANGED <<Outside, railConfigs, draftRails, items, events>>

\* deleteCustomRail: an earlier deletion in flight is waited for no longer.
DeleteCustomRail(x) ==
  /\ Event /\ EditorVisible /\ CanMutateCustomRails /\ x \in Custom \cap Ids(draftRails)
  /\ InFlight("delete") => calls["delete"].op.id # x
  /\ calls' = [calls EXCEPT !["delete"] = Sent([kind |-> "delete", id |-> x])]
  /\ abandoned' = abandoned \cup {o \in {calls["delete"].op} : calls["delete"].pc = "sent"}
  /\ tangled' = (tangled \/ InFlight("delete"))
  /\ UNCHANGED <<server, Page, requestModal>>

DeleteAnswered ==
  /\ calls["delete"].pc = "answered" /\ calls["delete"].ok
  /\ railForm' = IF railForm = calls["delete"].op.id THEN NoForm ELSE railForm
  /\ editorOpen' = TRUE
  /\ Reloads([calls EXCEPT !["delete"] = Idle])
  /\ UNCHANGED <<Outside, railConfigs, draftRails, items, events>>

\* An error: what the server did before it stays.
Fails(c) ==
  /\ calls' = [calls EXCEPT ![c] = Idle]
  /\ IF c = "load" THEN configError' = TRUE /\ railConfigs' = <<>> /\ draftRails' = <<>>
     ELSE UNCHANGED <<configError, railConfigs, draftRails>>
  /\ tangled' = (tangled \/ (c # "load" /\ calls[c].ok) \/ abandoned' # {})
  /\ UNCHANGED <<server, requestModal, items, editorOpen, railForm>>

\* The server has refused a request, or an answer is an error before or after the server
\* has carried the request out; a request given up for lost may still be carried out.
Refused(c) ==
  calls[c].pc = "answered" /\ ~calls[c].ok /\ UNCHANGED <<abandoned, events>> /\ Fails(c)

RequestFails(c) ==
  /\ calls[c].pc \in {"sent", "answered"} /\ Event
  /\ \/ UNCHANGED abandoned
     \/ c # "load" /\ calls[c].pc = "sent" /\ abandoned' = abandoned \cup {calls[c].op}
  /\ Fails(c)

-----------------------------------------------------------------------------
\* The scene is requested in a dialog, which stays while the rails are loaded.

OpenRequestModal ==
  /\ RailsVisible /\ requestModal = "closed"
  /\ \E id \in Enabled(railConfigs) \cap DOMAIN items : items[id] = "requestable"
  /\ requestModal' = "open"
  /\ UNCHANGED <<server, calls, abandoned, Page, tangled, events>>

SubmitRequest ==
  /\ requestModal = "open" /\ requestModal' = "sent"
  /\ UNCHANGED <<server, calls, abandoned, Page, tangled, events>>

ServerRequests ==
  /\ requestModal = "sent" /\ requestModal' = "accepted"
  /\ server' = [server EXCEPT !.requested = TRUE]
  /\ UNCHANGED <<calls, abandoned, Page, tangled, events>>

\* onRequestSubmitted marks what is shown; content in flight may be of the time before.
OnRequestSubmitted ==
  /\ requestModal = "accepted" /\ requestModal' = "closed"
  /\ items' = [id \in DOMAIN items |-> IF items[id] = "failed" THEN "failed" ELSE "requested"]
  /\ tangled' = (tangled \/ \E c \in Calls : "requestable" \in Range(calls[c].content))
  /\ UNCHANGED <<server, calls, abandoned, railConfigs, draftRails, configError, editorOpen,
                 railForm, events>>

\* The dialog is closed, or the request fails and the dialog is closed afterwards.
CloseModal ==
  /\ requestModal # "closed" /\ requestModal' = "closed"
  /\ IF requestModal = "open" THEN UNCHANGED events ELSE Event
  /\ \/ UNCHANGED abandoned
     \/ requestModal = "sent" /\ abandoned' = abandoned \cup {[kind |-> "request"]}
  /\ tangled' = (tangled \/ requestModal = "accepted" \/ abandoned' # {})
  /\ UNCHANGED <<server, calls, Page>>

-----------------------------------------------------------------------------
\* The page is left and opened again; the server still gets what was sent.
NgOnDestroy ==
  LET left == {calls[c].op : c \in {d \in Calls \ {"load"} : calls[d].pc = "sent"}}
              \cup {[kind |-> "request"] : m \in {requestModal} \cap {"sent"}}
  IN /\ Event
     /\ railConfigs' = <<>> /\ draftRails' = <<>> /\ configError' = FALSE /\ items' = <<>>
     /\ editorOpen' = FALSE /\ railForm' = NoForm /\ requestModal' = "closed"
     /\ calls' = LoadHome([c \in Calls |-> Idle])
     /\ abandoned' = abandoned \cup left
     /\ tangled' = (abandoned' # {})
     /\ UNCHANGED server

AbandonedAnswered(op) ==
  /\ abandoned' = abandoned \ {op}
  /\ IF op.kind = "request" THEN server' = [server EXCEPT !.requested = TRUE]
     ELSE \E a \in Outcomes(op) : server' = [server EXCEPT !.rails = a.rails]
  /\ UNCHANGED <<calls, Page, requestModal, tangled, events>>

Init ==
  /\ \E present \in SUBSET Custom :
       server = [rails |-> Listed({[id |-> x, enabled |-> TRUE] : x \in Builtin \cup present}),
                 requested |-> FALSE]
  /\ calls = LoadHome([c \in Calls |-> Idle])
  /\ abandoned = {}
  /\ railConfigs = <<>> /\ draftRails = <<>> /\ configError = FALSE /\ items = <<>>
  /\ editorOpen = FALSE /\ railForm = NoForm /\ requestModal = "closed"
  /\ tangled = FALSE
  /\ events = 0

Next ==
  \/ \E c \in Calls :
       \/ ServerAnswers(c) \/ RailsAnswered(c) \/ ContentAnswered(c)
       \/ \E id \in Builtin \cup Custom, failed \in BOOLEAN : LoadSingleRail(c, id, failed)
       \/ Refused(c) \/ RequestFails(c)
  \/ RetryLoad \/ OpenEditor \/ CancelEditor \/ EditDraft \/ SaveRails
  \/ \E x \in Custom \cup {NewRail} : OpenRailForm(x)
  \/ CloseRailForm \/ (\E enabled \in BOOLEAN : SaveRailForm(enabled)) \/ FormAnswered
  \/ \E x \in Custom : DeleteCustomRail(x)
  \/ DeleteAnswered
  \/ OpenRequestModal \/ SubmitRequest \/ ServerRequests \/ OnRequestSubmitted \/ CloseModal
  \/ NgOnDestroy \/ (\E op \in abandoned : AbandonedAnswered(op))

-----------------------------------------------------------------------------
TypeOK ==
  /\ \A rails \in {server.rails, railConfigs, draftRails} :
       /\ \A n \in DOMAIN rails : rails[n].id \in Builtin \cup Custom /\ rails[n].enabled \in BOOLEAN
       /\ \A n, m \in DOMAIN rails : rails[n].id = rails[m].id => n = m
  /\ Ids(draftRails) = Ids(railConfigs)
  /\ DOMAIN items \subseteq Builtin \cup Custom
  /\ Range(items) \subseteq {"requestable", "requested", "failed"}
  /\ railForm \in Custom \cup {NewRail, NoForm}

\* Unless answers crossed, the page at rest shows the rails that the server has, in their
\* order, each that is enabled with its content, whatever was ordered, created, changed,
\* deleted or refused; and a scene that was requested from it is not offered again.
HomeShowsRails ==
  ~tangled /\ RailsVisible =>
    /\ (\A c \in Calls : ~InFlight(c)) =>
         /\ railConfigs = server.rails
         /\ DOMAIN items = Enabled(railConfigs)
    /\ server.requested /\ requestModal # "accepted" => "requestable" \notin Range(items)
=============================================================================
