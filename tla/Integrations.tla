---------------------------- MODULE Integrations ----------------------------
(***************************************************************************)
(* The saved connections to the catalog provider and to Whisparr           *)
(* (IntegrationsService), and the lookup of the instance's catalog         *)
(* provider (CatalogProviderService).                                      *)
(*                                                                         *)
(* Saving, testing and resetting read rows, wait, and write what follows   *)
(* from what they read; each query is a step of its own.  A connection is  *)
(* its base URL and API key together.  A row that is absent reads like one *)
(* that was reset.                                                         *)
(*                                                                         *)
(* The transaction of a save or a test is two queries at READ COMMITTED.   *)
(* The first resets the rows of the other catalog providers that are there *)
(* and holds them until the commit; one that is absent, or that another    *)
(* transaction is inserting, it neither sees nor holds.  The second writes *)
(* the client's own row; the model takes the commit with it, for until     *)
(* then the row is held, or invisible to all.                              *)
(***************************************************************************)
EXTENDS Integers, FiniteSets, Sequences, SequencesExt

CONSTANTS
  Others,   \* the types that are no catalog providers
  Urls, NoUrl,
  Clients,  \* requests to the API
  NoType,
  MaxEvents

IntegrationsAssumption ==
  /\ NoUrl \notin Urls
  /\ NoType \notin Others \cup {"STASHDB", "FANSDB"}
  /\ MaxEvents \in Nat

VARIABLES
  rows,     \* IntegrationConfig
  present,   \* the types whose row is there
  health,   \* the connection that a service's runtime health was recorded with
  clients,
  tested,   \* history: the connections that answered a test
  missed,   \* history: did the last transaction that committed a catalog provider's
            \* address leave out the row of the other, inserted after it had begun?
  events

vars == <<rows, present, health, clients, tested, missed, events>>

-----------------------------------------------------------------------------
CATALOG_PROVIDER_KEYS == <<"STASHDB", "FANSDB">>
CatalogTypes == ToSet(CATALOG_PROVIDER_KEYS)
Types == CatalogTypes \cup Others

Statuses == {"NOT_CONFIGURED", "CONFIGURED", "ERROR"}

\* resetPayload.
ResetRow == [url |-> NoUrl, status |-> "NOT_CONFIGURED", selected |-> FALSE]

Idle == [op |-> "none", pc |-> "idle", type |-> NoType, given |-> NoUrl,
         existing |-> ResetRow, ok |-> FALSE, locked |-> {}]

Happens == events < MaxEvents /\ events' = events + 1

\* isCatalogProviderReady; catalog rows are always enabled.
Ready(row) == row.status = "CONFIGURED" /\ row.url # NoUrl

First(types) ==
  CATALOG_PROVIDER_KEYS[Min({n \in DOMAIN CATALOG_PROVIDER_KEYS : CATALOG_PROVIDER_KEYS[n] \in types})]

\* pickCatalogProviderType: the only candidate, the only ready one, the first.
Pick(candidates, ready) ==
  IF candidates = {} THEN NoType
  ELSE IF Cardinality(candidates \cap ready) = 1 THEN CHOOSE t \in candidates \cap ready : TRUE
  ELSE First(candidates)

\* instanceCatalogProviderTypeFromIntegrations: a selected provider, or else one
\* that has an address.
InstanceType(ready) ==
  LET selected == {t \in CatalogTypes : rows[t].selected}
  IN Pick(IF selected # {} THEN selected ELSE {t \in CatalogTypes : rows[t].url # NoUrl}, ready)

ReadyTypes == {t \in CatalogTypes : Ready(rows[t])}

\* mergeNormalizedInput: an empty field keeps what was saved.
Merged(c) == IF clients[c].given # NoUrl THEN clients[c].given ELSE clients[c].existing.url
Changed(c) == Merged(c) # clients[c].existing.url

\* otherCatalogProviderTypes.
OtherTypes(t) == CatalogTypes \ {t}

\* The rows that the transactions of others hold.
LockedBesides(c) == UNION {clients[d].locked : d \in Clients \ {c}}

\* Does the row come with an address that another catalog provider must make way for?
Replaces(t, row) == t \in CatalogTypes /\ row.url # NoUrl

\* Fault: the row of the other provider stays.
PutAlone(c, row) ==
  LET t == clients[c].type
  IN /\ t \notin LockedBesides(c)
     /\ rows' = [rows EXCEPT ![t] = row]
     /\ present' = present \cup {t}
     /\ missed' = IF Replaces(t, row)
                  THEN ~((OtherTypes(t) \cap present) \subseteq clients[c].locked)
                  ELSE missed

\* The upsert, and the commit: the rows that are held are reset with it.
Put(c, row) ==
  LET t == clients[c].type
  IN /\ t \notin LockedBesides(c)
     /\ rows' = [x \in Types |->
          IF x = t THEN row ELSE IF x \in clients[c].locked THEN ResetRow ELSE rows[x]]
     /\ present' = present \cup {t}
     /\ missed' = IF Replaces(t, row)
                  THEN ~((OtherTypes(t) \cap present) \subseteq clients[c].locked)
                  ELSE missed

-----------------------------------------------------------------------------
Init ==
  /\ rows = [t \in Types |-> ResetRow]
  /\ present = {}
  /\ health = [t \in Types |-> NoUrl]
  /\ clients = [c \in Clients |-> Idle]
  /\ tested = {}
  /\ missed = FALSE
  /\ events = 0

At(c, op, pc) == clients[c].op = op /\ clients[c].pc = pc

Goto(c, pc) == clients' = [clients EXCEPT ![c].pc = pc]
Committed(c, pc) == clients' = [clients EXCEPT ![c].pc = pc, ![c].locked = {}]
Answered(c) == clients' = [clients EXCEPT ![c] = Idle]

\* upsert: the row is read.
StartSave(c, t, u) ==
  /\ clients[c].pc = "idle"
  /\ Happens
  /\ clients' = [clients EXCEPT ![c] =
       [Idle EXCEPT !.op = "save", !.pc = IF t \in CatalogTypes THEN "check" ELSE "write",
                    !.type = t, !.given = u, !.existing = rows[t]]]
  /\ UNCHANGED <<rows, present, health, tested, missed>>

\* assertCatalogProviderSaveAllowed: 409 when the instance is another's, or when its
\* own address would go.
CheckSave(c) ==
  /\ At(c, "save", "check")
  /\ IF \/ InstanceType(ReadyTypes) \notin {NoType, clients[c].type}
        \/ InstanceType(ReadyTypes) = clients[c].type /\ Merged(c) = NoUrl
     THEN Answered(c)
     ELSE Goto(c, "write")
  /\ UNCHANGED <<rows, present, health, tested, missed, events>>

\* Fault: the state of the row is kept whatever connection is saved.
SavedStatusKept(c) == clients[c].existing.status

\* resolveSavedHealthState: a changed connection has not been tested.
SavedStatus(c) ==
  IF Merged(c) = NoUrl \/ Changed(c) THEN "NOT_CONFIGURED" ELSE clients[c].existing.status

\* updateMany, the first query of the transaction, waits for rows that others hold.  A
\* write without an address, or of another type, has the upsert only.
ResetOthers(c) ==
  LET t == clients[c].type
      held == IF t \in CatalogTypes /\ Merged(c) # NoUrl THEN OtherTypes(t) \cap present ELSE {}
  IN /\ At(c, "save", "write") \/ At(c, "test", "persist")
     /\ held \cap LockedBesides(c) = {}
     /\ clients' = [clients EXCEPT ![c].pc = "upsert", ![c].locked = held]
     /\ UNCHANGED <<rows, present, health, tested, missed, events>>

WriteSaved(c) ==
  LET t == clients[c].type
  IN /\ At(c, "save", "upsert")
     /\ Put(c, [url |-> Merged(c), status |-> SavedStatus(c),
                selected |-> rows[t].selected \/ (t \in CatalogTypes /\ Merged(c) # NoUrl)])
     /\ IF Merged(c) = NoUrl \/ Changed(c) THEN Committed(c, "clear") ELSE Answered(c)
     /\ UNCHANGED <<health, tested, events>>

\* clearService, the last step of a save, a reset and a failed test.
ClearHealth(c) ==
  /\ clients[c].pc = "clear"
  /\ health' = [t \in Types |->
       IF clients[c].op = "reset all" \/ t = clients[c].type THEN NoUrl ELSE health[t]]
  /\ Answered(c)
  /\ UNCHANGED <<rows, present, tested, missed, events>>

\* testIntegration: assertCatalogProviderMutationAllowed...
StartTest(c, t, u) ==
  /\ clients[c].pc = "idle"
  /\ Happens
  /\ t \in CatalogTypes => InstanceType(ReadyTypes) \in {NoType, t}
  /\ clients' = [clients EXCEPT ![c] =
       [Idle EXCEPT !.op = "test", !.pc = "read", !.type = t, !.given = u]]
  /\ UNCHANGED <<rows, present, health, tested, missed>>

\* ...the row is read; without an address the test has failed already...
ReadTested(c) ==
  LET existing == rows[clients[c].type]
      none == clients[c].given = NoUrl /\ existing.url = NoUrl
  IN /\ At(c, "test", "read")
     /\ clients' = [clients EXCEPT ![c].existing = existing,
                                   ![c].pc = IF none THEN "persist" ELSE "asked"]
     /\ UNCHANGED <<rows, present, health, tested, missed, events>>

\* ...the provider answers, or not...
ProviderAnswers(c, ok) ==
  /\ At(c, "test", "asked")
  /\ clients' = [clients EXCEPT ![c].pc = "persist", ![c].ok = ok]
  /\ tested' = IF ok THEN tested \cup {<<clients[c].type, Merged(c)>>} ELSE tested
  /\ UNCHANGED <<rows, present, health, missed, events>>

\* ...and the outcome is stored with the connection that was tested.
PersistTested(c) ==
  LET t == clients[c].type
  IN /\ At(c, "test", "upsert")
     /\ Put(c, [url |-> Merged(c), status |-> IF clients[c].ok THEN "CONFIGURED" ELSE "ERROR",
                selected |-> t \in CatalogTypes])
     /\ IF clients[c].ok \/ Changed(c)
        THEN Committed(c, IF clients[c].ok THEN "recover" ELSE "clear")
        ELSE Answered(c)
     /\ UNCHANGED <<health, tested, events>>

\* recordManualRecovery.
Recover(c) ==
  /\ At(c, "test", "recover")
  /\ health' = [health EXCEPT ![clients[c].type] = Merged(c)]
  /\ Answered(c)
  /\ UNCHANGED <<rows, present, tested, missed, events>>

\* The database fails after the answer, or ends a deadlock: the catch block stores a
\* failed test.
RecoveryFails(c) ==
  /\ clients[c].op = "test" /\ clients[c].pc \in {"persist", "upsert", "recover"} /\ clients[c].ok
  /\ Happens
  /\ clients' = [clients EXCEPT ![c].pc = "persist", ![c].ok = FALSE, ![c].locked = {}]
  /\ UNCHANGED <<rows, present, health, tested, missed>>

\* The upserts of a reset, in a transaction of their own.
Reset(c, types) ==
  /\ types \cap LockedBesides(c) = {}
  /\ rows' = [x \in Types |-> IF x \in types THEN ResetRow ELSE rows[x]]
  /\ present' = present \cup types
  /\ missed' = (missed /\ ~(CatalogTypes \subseteq types))

\* reset: a catalog provider's takes every catalog row.
ResetIntegration(c, t) ==
  /\ clients[c].pc = "idle"
  /\ Happens
  /\ Reset(c, IF t \in CatalogTypes THEN CatalogTypes ELSE {t})
  /\ clients' = [clients EXCEPT ![c] = [Idle EXCEPT !.op = "reset", !.pc = "clear", !.type = t]]
  /\ UNCHANGED <<health, tested>>

ResetAll(c) ==
  /\ clients[c].pc = "idle"
  /\ Happens
  /\ Reset(c, Types)
  /\ clients' = [clients EXCEPT ![c] = [Idle EXCEPT !.op = "reset all", !.pc = "clear"]]
  /\ UNCHANGED <<health, tested>>

\* A request to the database fails, or is the one that ends a deadlock of two
\* transactions; what it held is free again, and the client is told.
RequestFails(c) ==
  /\ clients[c].pc \in {"check", "write", "clear", "read", "persist", "upsert"} /\ ~clients[c].ok
  /\ Happens
  /\ Answered(c)
  /\ UNCHANGED <<rows, present, health, tested, missed>>

-----------------------------------------------------------------------------
\* getConfiguredCatalogProviderOrNull: the instance's provider is chosen from one
\* query; its rows come without lastHealthyAt, so that none counts as ready.
ChooseProvider(c) ==
  /\ clients[c].pc = "idle"
  /\ InstanceType({}) # NoType
  /\ clients' = [clients EXCEPT ![c] =
       [Idle EXCEPT !.op = "lookup", !.pc = "check", !.type = InstanceType({})]]
  /\ UNCHANGED <<rows, present, health, tested, missed, events>>

CheckProvider(c) ==
  /\ At(c, "lookup", "check")
  /\ IF Ready(rows[clients[c].type]) THEN Goto(c, "read") ELSE Answered(c)
  /\ UNCHANGED <<rows, present, health, tested, missed, events>>

ReadProvider(c) ==
  LET row == rows[clients[c].type]
  IN /\ At(c, "lookup", "read")
     /\ IF Ready(row)
        THEN clients' = [clients EXCEPT ![c].existing = row, ![c].pc = "found"]
        ELSE Answered(c)
     /\ UNCHANGED <<rows, present, health, tested, missed, events>>

\* refreshRuntimeHealth: the configured ones are probed; of the catalog providers,
\* the one the instance uses.
StartProbe(c, t) ==
  /\ clients[c].pc = "idle"
  /\ Ready(rows[t])
  /\ t \in CatalogTypes => t = First(ReadyTypes)
  /\ clients' = [clients EXCEPT ![c] =
       [Idle EXCEPT !.op = "probe", !.pc = "found", !.type = t, !.existing = rows[t]]]
  /\ UNCHANGED <<rows, present, health, tested, missed, events>>

\* The connection is used, and how that went is recorded as the service's health.
UseConnection(c) ==
  /\ clients[c].pc = "found"
  /\ health' = [health EXCEPT ![clients[c].type] = clients[c].existing.url]
  /\ Answered(c)
  /\ UNCHANGED <<rows, present, tested, missed, events>>

Next == \E c \in Clients :
  \/ \E t \in Types : \/ ResetIntegration(c, t) \/ StartProbe(c, t)
                      \/ \E u \in Urls \cup {NoUrl} : StartSave(c, t, u) \/ StartTest(c, t, u)
  \/ CheckSave(c) \/ ResetOthers(c) \/ WriteSaved(c) \/ ClearHealth(c) \/ ResetAll(c) \/ RequestFails(c)
  \/ ReadTested(c) \/ \E ok \in BOOLEAN : ProviderAnswers(c, ok)
  \/ PersistTested(c) \/ Recover(c) \/ RecoveryFails(c)
  \/ ChooseProvider(c) \/ CheckProvider(c) \/ ReadProvider(c) \/ UseConnection(c)

-----------------------------------------------------------------------------
RowType == [url : Urls \cup {NoUrl}, status : Statuses, selected : BOOLEAN]

TypeOK ==
  /\ rows \in [Types -> RowType]
  /\ present \subseteq Types /\ \A t \in Types \ present : rows[t] = ResetRow
  /\ health \in [Types -> Urls \cup {NoUrl}]
  /\ clients \in [Clients -> [op : {"none", "save", "test", "reset", "reset all", "lookup", "probe"},
                              pc : {"idle", "check", "write", "upsert", "clear", "read", "asked",
                                    "persist", "recover", "found"},
                              type : Types \cup {NoType}, given : Urls \cup {NoUrl},
                              existing : RowType, ok : BOOLEAN, locked : SUBSET CatalogTypes]]
  /\ tested \subseteq Types \X Urls
  /\ missed \in BOOLEAN

\* At most one catalog provider has an address: one instance never mixes two catalogs.
OneCatalogProvider == Cardinality({t \in CatalogTypes : rows[t].url # NoUrl}) <= 1

\* However saves, tests and resets overlap, that holds but for a transaction that began
\* before the other provider's row was first inserted and committed after it: from then
\* on until the next reset, or until a transaction that held the other row.
OneProviderUnlessMissed == ~missed => OneCatalogProvider

\* A connection that a row calls configured, or that a lookup or a probe goes on to
\* use, has answered a test, as that type and with that address.
ConfiguredWasTested ==
  /\ \A t \in Types : rows[t].status = "CONFIGURED" => <<t, rows[t].url>> \in tested
  /\ \A c \in Clients :
       clients[c].pc = "found" => <<clients[c].type, clients[c].existing.url>> \in tested
=============================================================================
