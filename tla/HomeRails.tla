------------------------------ MODULE HomeRails ------------------------------
(***************************************************************************)
(* The rails of the home page and their order (HomeService).  A request    *)
(* reads the rails, decides, and writes them in a transaction; requests    *)
(* overlap.                                                                *)
(*                                                                         *)
(* What a rail shows, its title and whether it is enabled are left out:    *)
(* only its place is told apart.                                           *)
(***************************************************************************)
EXTENDS Integers, FiniteSets, Sequences, FiniteSetsExt

CONSTANTS
  Custom,       \* the rails that may be created
  Hybrid,       \* rails of a source that is no longer listed
  RailRequests,
  NoPlace,
  MaxEvents

VARIABLES
  place,         \* HomeRail.sortOrder, of the rails there are
  railRequests,
  arranged,      \* history: which rail was put before which when they were last arranged,
                 \* without those deleted since
  crossed,       \* history: since then, a deletion's listing was overtaken by other places
  events

vars == <<place, railRequests, arranged, crossed, events>>

-----------------------------------------------------------------------------
\* DEFAULT_HOME_RAILS, in their sort order.
DEFAULT_HOME_RAILS == <<"favorite studios", "favorite performers", "recently added">>

Rails == Range(DEFAULT_HOME_RAILS) \cup Custom \cup Hybrid

RailsAssumption ==
  /\ Custom \cap Hybrid = {}
  /\ IsFiniteSet(Custom) /\ IsFiniteSet(Hybrid)
  /\ NoPlace \notin Nat \cup Rails
  /\ MaxEvents \in Nat

Persisted == {x \in Rails : place[x] # NoPlace}

\* listRails leaves the hybrid ones out.
Listed == Persisted \ Hybrid

Idle == [pc |-> "idle", op |-> "none", rail |-> NoPlace, rails |-> <<>>, last |-> 0]

Happens == events < MaxEvents /\ events' = events + 1

AnyOrders == Injection(1..Cardinality(Listed), Listed)

\* Fault: the rails are listed in no order.
ListingsUnordered == AnyOrders

\* By sortOrder; rails with the same place come in any order.
Listings ==
  {s \in AnyOrders : \A m, n \in DOMAIN s : m < n => place[s[m]] <= place[s[n]]}

\* The place that a sequence gives to a rail.
Index(s, x) == (CHOOSE n \in DOMAIN s : s[n] = x) - 1

Before(s) ==
  {<<s[p[1]], s[p[2]]>> : p \in {q \in (DOMAIN s) \X (DOMAIN s) : q[1] < q[2]}}

\* ensureDefaultRails: a missing default is created with the place it has by default,
\* wherever the others are.
WithDefaults ==
  [x \in Rails |->
    IF place[x] = NoPlace /\ x \in Range(DEFAULT_HOME_RAILS)
    THEN Index(DEFAULT_HOME_RAILS, x)
    ELSE place[x]]

Goto(r, pc) == railRequests' = [railRequests EXCEPT ![r].pc = pc]
Responds(r) == railRequests' = [railRequests EXCEPT ![r] = Idle]

\* Another request has listed the rails and is about to renumber them.
Overtaken(r) == \E d \in RailRequests \ {r} :
  railRequests[d].op = "delete" /\ railRequests[d].pc = "write"

-----------------------------------------------------------------------------
\* Nothing yet; or the rails of a version with two defaults and with hybrid rails.
Init ==
  /\ \E old \in {{}, {1}} :
       place = [x \in Rails |->
         IF old = {} THEN NoPlace
         ELSE IF x = DEFAULT_HOME_RAILS[1] THEN 0
         ELSE IF x = DEFAULT_HOME_RAILS[2] THEN 1
         ELSE IF x \in Hybrid THEN 3
         ELSE IF x = CHOOSE y \in Custom : TRUE THEN 2 ELSE NoPlace]
  /\ railRequests = [r \in RailRequests |-> Idle]
  /\ arranged = {}
  /\ crossed = FALSE
  /\ events = 0

\* Every request begins with ensureUserFacingRailsReady; of one that only reads, or
\* changes a rail's text, nothing else is left.
Ensure(r, op, x) ==
  /\ railRequests[r].pc = "idle"
  /\ Happens
  /\ place' = WithDefaults
  /\ railRequests' = [railRequests EXCEPT ![r] =
       [Idle EXCEPT !.op = op, !.rail = x,
                    !.pc = IF op = "read" THEN "idle" ELSE "read"]]
  /\ UNCHANGED <<arranged, crossed>>

\* updateRails: the payload must name each listed rail once, in whatever order...
ValidateUpdate(r) ==
  /\ railRequests[r].op = "update" /\ railRequests[r].pc = "read"
  /\ \E payload \in AnyOrders :
       railRequests' = [railRequests EXCEPT ![r].pc = "write", ![r].rails = payload]
  /\ UNCHANGED <<place, arranged, crossed, events>>

\* ...and gives each its index, unless one is gone meanwhile.
CommitUpdate(r) ==
  LET payload == railRequests[r].rails
  IN /\ railRequests[r].op = "update" /\ railRequests[r].pc = "write"
     /\ IF Range(payload) \subseteq Persisted
        THEN /\ place' = [x \in Rails |->
                  IF x \in Range(payload) THEN Index(payload, x) ELSE place[x]]
             /\ arranged' = Before(payload)
             /\ crossed' = Overtaken(r)
        ELSE UNCHANGED <<place, arranged, crossed>>
     /\ Responds(r)
     /\ UNCHANGED events

\* createRail: the last place of all rails, hybrid ones too, is read...
ReadLast(r) ==
  /\ railRequests[r].op = "create" /\ railRequests[r].pc = "read"
  /\ railRequests' = [railRequests EXCEPT ![r].pc = "write",
                        ![r].last = Max({place[x] : x \in Persisted} \cup {-1})]
  /\ UNCHANGED <<place, arranged, crossed, events>>

\* ...and the rail created after it.
CreateRail(r, x) ==
  /\ railRequests[r].op = "create" /\ railRequests[r].pc = "write"
  /\ x \in Custom \ Persisted
  /\ place' = [place EXCEPT ![x] = railRequests[r].last + 1]
  /\ Responds(r)
  /\ UNCHANGED <<arranged, crossed, events>>

\* deleteRail: requireCustomRail has found the rail; the delete fails when it is gone...
DeleteRail(r) ==
  LET x == railRequests[r].rail
  IN /\ railRequests[r].op = "delete" /\ railRequests[r].pc = "read"
     /\ IF x \in Persisted
        THEN /\ place' = [place EXCEPT ![x] = NoPlace]
             /\ arranged' = {p \in arranged : x \notin {p[1], p[2]}}
             /\ Goto(r, "list")
        ELSE Responds(r) /\ UNCHANGED <<place, arranged>>
     /\ UNCHANGED <<crossed, events>>

\* ...reindexSortOrders lists the rest...
ListRest(r) ==
  /\ railRequests[r].pc = "list"
  /\ \E rails \in Listings :
       LET moved == {n \in DOMAIN rails : place[rails[n]] # n - 1}
       IN railRequests' = [railRequests EXCEPT ![r] =
          IF moved = {} THEN Idle
          ELSE [@ EXCEPT !.pc = "write", !.rails = [n \in DOMAIN rails |->
                 IF n \in moved THEN rails[n] ELSE NoPlace]]]
  /\ UNCHANGED <<place, arranged, crossed, events>>

\* ...and gives those that moved their index, all or none.
Reindex(r) ==
  LET rails == railRequests[r].rails
      moved == Range(rails) \ {NoPlace}
  IN /\ railRequests[r].op = "delete" /\ railRequests[r].pc = "write"
     /\ place' = IF moved \subseteq Persisted
                 THEN [x \in Rails |->
                   IF x \in moved THEN Index(rails, x) ELSE place[x]]
                 ELSE place
     /\ crossed' = (crossed \/ Overtaken(r))
     /\ Responds(r)
     /\ UNCHANGED <<arranged, events>>

\* A query fails, or the process ends: what was written stays.
RequestFails(r) ==
  /\ railRequests[r].pc # "idle"
  /\ Happens
  /\ Responds(r)
  /\ UNCHANGED <<place, arranged, crossed>>

Next == \E r \in RailRequests :
  \/ \E op \in {"read", "update", "create"} : Ensure(r, op, NoPlace)
  \/ \E x \in (Custom \cup Hybrid) \cap Persisted : Ensure(r, "delete", x)
  \/ ValidateUpdate(r) \/ CommitUpdate(r) \/ ReadLast(r) \/ (\E x \in Custom : CreateRail(r, x))
  \/ DeleteRail(r) \/ ListRest(r) \/ Reindex(r) \/ RequestFails(r)

-----------------------------------------------------------------------------
TypeOK ==
  /\ \A x \in Rails : place[x] \in Nat \cup {NoPlace}
  /\ \A r \in RailRequests :
       /\ railRequests[r].pc \in {"idle", "read", "write", "list"}
       /\ Range(railRequests[r].rails) \subseteq Rails \cup {NoPlace}
  /\ arranged \subseteq Listed \X Listed
  /\ crossed \in BOOLEAN

\* The order in which the rails were last arranged outlives what comes after it, rails
\* created, rails deleted and the rest renumbered, requests that fail half-way or overlap:
\* all but an arrangement or a renumbering that is saved between another deletion's
\* reading of the rails and its own renumbering, which mixes the two.
ArrangementKept == ~crossed => \A p \in arranged : place[p[1]] < place[p[2]]
=============================================================================
