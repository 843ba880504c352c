---------------------------- MODULE MappingCache ----------------------------
(***************************************************************************)
(* The routing tables and the in-memory copy of them: the provider and     *)
(* mapping handlers of internal/handler/admin.go, the MappingCache of      *)
(* internal/service/cache.go, and the tables providers and mapping_rules   *)
(* of internal/model/models.go as gorm keeps them.                         *)
(*                                                                         *)
(* Each admin request runs on its own goroutine.  A create or a delete is  *)
(* one statement, an update is a SELECT and later a full-row write; after  *)
(* a commit the same goroutine refreshes the cache, which is two queries   *)
(* with no transaction around them and then a swap of both maps under the  *)
(* lock.  Nothing orders the refreshes of different requests.              *)
(***************************************************************************)
EXTENDS Integers, Functions

CONSTANTS
    Admins,       \* goroutines of admin requests
    ProviderIds,  \* primary keys of providers; a bound on the rows ever made
    RuleIds,      \* primary keys of mapping_rules; likewise
    Codes,        \* provider codes
    Keys,         \* cache keys: protocol, endpoint and public model
    Settings,     \* the other columns of a row
    NoRow         \* no row (yet) under an id, a code or a key

ProviderRow == [code : Codes, settings : Settings, enabled : BOOLEAN,
                deleted : BOOLEAN]
RuleRow == [key : Keys, provider : Codes, settings : Settings,
            enabled : BOOLEAN, deleted : BOOLEAN]

ASSUME CacheAssumption == NoRow \notin ProviderRow \cup RuleRow

VARIABLES
    providers, rules,            \* the two tables, by primary key
    cacheProviders, cacheRules,  \* c.providers by code, c.rules by cache key
    pc,             \* where each admin request is
    target,         \* the id an update loaded and will save
    readProviders,  \* a refresh's nextProviders
    readRules,      \* a refresh's nextRules
    current,        \* history: refreshes begun after the latest commit
    cacheCurrent,   \* history: was the cache built by such a refresh?
    refreshMissed,  \* history: has a refresh failed, or been left out, since?
    regressed,      \* history: or has an older refresh replaced it?
    overtaken       \* history: updates whose row was deleted after they loaded it

vars == <<providers, rules, cacheProviders, cacheRules, pc, target,
          readProviders, readRules, current, cacheCurrent, refreshMissed,
          regressed, overtaken>>

tables    == <<providers, rules>>
cache     == <<cacheProviders, cacheRules>>
snapshots == <<readProviders, readRules>>
updates   == <<target, overtaken>>
history   == <<current, cacheCurrent, refreshMissed, regressed>>

ProviderMap == [Codes -> ProviderRow \cup {NoRow}]
RuleMap == [Keys -> RuleRow \cup {NoRow}]

TypeOK ==
    /\ providers \in [ProviderIds -> ProviderRow \cup {NoRow}]
    /\ rules \in [RuleIds -> RuleRow \cup {NoRow}]
    /\ cacheProviders \in ProviderMap
    /\ cacheRules \in RuleMap
    /\ pc \in [Admins -> {"idle", "saveProvider", "saveMapping", "refresh",
                          "queryRules", "install"}]
    /\ target \in [Admins -> ProviderIds \cup RuleIds \cup {NoRow}]
    /\ readProviders \in [Admins -> ProviderMap \cup {NoRow}]
    /\ readRules \in [Admins -> RuleMap \cup {NoRow}]
    /\ current \in SUBSET Admins
    /\ cacheCurrent \in BOOLEAN
    /\ refreshMissed \in BOOLEAN
    /\ regressed \in BOOLEAN
    /\ overtaken \subseteq Admins

----------------------------------------------------------------------------
(* The tables *)

\* gorm's soft delete: First, Find, Update and Delete see no deleted row.
Live(row) == row # NoRow /\ ~row.deleted
Deleted(row) == row # NoRow /\ row.deleted

\* What Refresh asks for: WHERE enabled = true.
Enabled(row) == Live(row) /\ row.enabled

\* The unique index on providers.code covers deleted rows as well.
CodeFree(code, id) ==
    \A i \in ProviderIds \ {id} : providers[i] # NoRow => providers[i].code # code

\* db.Create: a column with a default is written with it when the struct holds
\* the zero value, so `enabled` is true whatever the request said.
Inserted(row) == [row EXCEPT !.enabled = TRUE]

\* db.Save of a row that was live when it was loaded: UPDATE every column, and,
\* when that finds no live row, INSERT ... ON CONFLICT (id) DO UPDATE.
Saved(old, row) == IF Live(old) THEN row ELSE Inserted(row)

SoftDeleted(row) == IF Live(row) THEN [row EXCEPT !.deleted = TRUE] ELSE row

----------------------------------------------------------------------------
(* Refresh *)

\* The maps of a refresh are locals of it.
Forget(a) ==
    /\ readProviders' = [readProviders EXCEPT ![a] = NoRow]
    /\ readRules' = [readRules EXCEPT ![a] = NoRow]

IsLiveProviderIndex(f) ==    \* mutant: WHERE enabled = true is missing
    \A c \in Codes :
        LET rows == {p \in Range(providers) : Live(p) /\ p.code = c}
        IN  IF rows = {} THEN f[c] = NoRow ELSE f[c] \in rows

\* nextProviders for the present table: enabled rows by their code.
IsProviderIndex(f) ==
    \A c \in Codes :
        LET rows == {p \in Range(providers) : Enabled(p) /\ p.code = c}
        IN  IF rows = {} THEN f[c] = NoRow ELSE f[c] \in rows

\* nextRules: of several enabled rules with one key, the last that the query
\* returned, and the query has no ORDER BY.
IsRuleIndex(f) ==
    \A k \in Keys :
        LET rows == {r \in Range(rules) : Enabled(r) /\ r.key = k}
        IN  IF rows = {} THEN f[k] = NoRow ELSE f[k] \in rows

\* The two queries.  Nothing is remembered of the request between them.
QueryProviders(a) ==
    /\ pc[a] = "refresh"
    /\ \E f \in [Codes -> Range(providers) \cup {NoRow}] :
         /\ IsProviderIndex(f)
         /\ readProviders' = [readProviders EXCEPT ![a] = f]
    /\ pc' = [pc EXCEPT ![a] = "queryRules"]
    /\ current' = current \cup {a}
    /\ UNCHANGED <<tables, cache, updates, readRules, cacheCurrent,
                   refreshMissed, regressed>>

QueryRules(a) ==
    /\ pc[a] = "queryRules"
    /\ \E f \in [Keys -> Range(rules) \cup {NoRow}] :
         /\ IsRuleIndex(f)
         /\ readRules' = [readRules EXCEPT ![a] = f]
    /\ pc' = [pc EXCEPT ![a] = "install"]
    /\ UNCHANGED <<tables, cache, updates, readProviders, history>>

\* Either query fails: Refresh returns the error, refreshCache turns it into a
\* response header, and the request is answered with 200.
RefreshFails(a) ==
    /\ pc[a] \in {"refresh", "queryRules"}
    /\ pc' = [pc EXCEPT ![a] = "idle"]
    /\ current' = current \ {a}
    /\ refreshMissed' = TRUE
    /\ Forget(a)
    /\ UNCHANGED <<tables, cache, updates, cacheCurrent, regressed>>

InstallHalf(a) ==    \* mutant: the error of the second query is not returned
    /\ pc[a] \in {"queryRules", "install"}
    /\ cacheProviders' = readProviders[a]
    /\ cacheRules' = readRules[a]
    /\ pc' = [pc EXCEPT ![a] = "idle"]
    /\ Forget(a)
    /\ UNCHANGED <<tables, updates, history>>

\* The swap under c.mu, after which the handler answers.
Install(a) ==
    /\ pc[a] = "install"
    /\ cacheProviders' = readProviders[a]
    /\ cacheRules' = readRules[a]
    /\ pc' = [pc EXCEPT ![a] = "idle"]
    /\ current' = current \ {a}
    /\ cacheCurrent' = (a \in current)
    /\ refreshMissed' = (refreshMissed /\ a \notin current)
    /\ regressed' = (a \notin current /\ (regressed \/ cacheCurrent))
    /\ Forget(a)
    /\ UNCHANGED <<tables, updates>>

----------------------------------------------------------------------------
(* The handlers.  A request that fails to bind, finds no row, or whose       *)
(* statement the database refuses ends with a 4xx and no refresh.            *)

CommitOnly(a) ==    \* mutant: the handlers answer without refreshCache
    /\ pc' = [pc EXCEPT ![a] = "idle"]
    /\ current' = {}
    /\ cacheCurrent' = FALSE
    /\ target' = [target EXCEPT ![a] = NoRow]
    /\ UNCHANGED <<cache, snapshots, refreshMissed, regressed>>

\* A commit.  The same goroutine goes on to refreshCache, unless the database's
\* word of the commit is lost: then the handler takes it for an error, answers
\* with 400 and refreshes nothing.
Commit(a) ==
    /\ \/ /\ pc' = [pc EXCEPT ![a] = "refresh"]
          /\ UNCHANGED refreshMissed
       \/ /\ pc' = [pc EXCEPT ![a] = "idle"]
          /\ refreshMissed' = TRUE
    /\ current' = {}
    /\ cacheCurrent' = FALSE
    /\ target' = [target EXCEPT ![a] = NoRow]
    /\ UNCHANGED <<cache, snapshots, regressed>>

\* Bookkeeping of the updates: those with this stage and id have lost their row.
Overtake(stage, id) ==
    overtaken' = overtaken \cup {a \in Admins : pc[a] = stage /\ target[a] = id}

Settle(a) == overtaken' = overtaken \ {a}

CreateProvider(a, id, row) ==
    /\ pc[a] = "idle"
    /\ providers[id] = NoRow
    /\ ~row.deleted
    /\ CodeFree(row.code, id)
    /\ providers' = [providers EXCEPT ![id] = Inserted(row)]
    /\ Commit(a)
    /\ UNCHANGED <<rules, overtaken>>

LoadAnyProvider(a, id) ==    \* mutant: db.Unscoped().First
    /\ pc[a] = "idle"
    /\ providers[id] # NoRow
    /\ pc' = [pc EXCEPT ![a] = "saveProvider"]
    /\ target' = [target EXCEPT ![a] = id]
    /\ UNCHANGED <<tables, cache, snapshots, history, overtaken>>

\* h.db.First: from here the handler holds a row that may change under it.
LoadProvider(a, id) ==
    /\ pc[a] = "idle"
    /\ Live(providers[id])
    /\ pc' = [pc EXCEPT ![a] = "saveProvider"]
    /\ target' = [target EXCEPT ![a] = id]
    /\ UNCHANGED <<tables, cache, snapshots, history, overtaken>>

SaveProvider(a, row) ==
    /\ pc[a] = "saveProvider"
    /\ ~row.deleted
    /\ CodeFree(row.code, target[a])
    /\ providers' = [providers EXCEPT ![target[a]] = Saved(@, row)]
    /\ Commit(a)
    /\ Settle(a)
    /\ UNCHANGED rules

DeleteProviderOnly(a, id) ==    \* mutant: DeleteProvider forgets refreshCache
    /\ pc[a] = "idle"
    /\ providers' = [providers EXCEPT ![id] = SoftDeleted(@)]
    /\ CommitOnly(a)
    /\ Overtake("saveProvider", id)
    /\ UNCHANGED rules

\* The delete of an unknown id affects no row and succeeds.
DeleteProvider(a, id) ==
    /\ pc[a] = "idle"
    /\ providers' = [providers EXCEPT ![id] = SoftDeleted(@)]
    /\ Commit(a)
    /\ Overtake("saveProvider", id)
    /\ UNCHANGED rules

CreateMapping(a, id, row) ==
    /\ pc[a] = "idle"
    /\ rules[id] = NoRow
    /\ ~row.deleted
    /\ rules' = [rules EXCEPT ![id] = Inserted(row)]
    /\ Commit(a)
    /\ UNCHANGED <<providers, overtaken>>

LoadMapping(a, id) ==
    /\ pc[a] = "idle"
    /\ Live(rules[id])
    /\ pc' = [pc EXCEPT ![a] = "saveMapping"]
    /\ target' = [target EXCEPT ![a] = id]
    /\ UNCHANGED <<tables, cache, snapshots, history, overtaken>>

SaveMappingOnly(a, row) ==    \* mutant: UpdateMapping forgets refreshCache
    /\ pc[a] = "saveMapping"
    /\ ~row.deleted
    /\ rules' = [rules EXCEPT ![target[a]] = Saved(@, row)]
    /\ CommitOnly(a)
    /\ Settle(a)
    /\ UNCHANGED providers

SaveMapping(a, row) ==
    /\ pc[a] = "saveMapping"
    /\ ~row.deleted
    /\ rules' = [rules EXCEPT ![target[a]] = Saved(@, row)]
    /\ Commit(a)
    /\ Settle(a)
    /\ UNCHANGED providers

DeleteMapping(a, id) ==
    /\ pc[a] = "idle"
    /\ rules' = [rules EXCEPT ![id] = SoftDeleted(@)]
    /\ Commit(a)
    /\ Overtake("saveMapping", id)
    /\ UNCHANGED providers

\* The body of an update does not bind, or the write of it fails and leaves the
\* row as it was.
UpdateRejected(a) ==
    /\ pc[a] \in {"saveProvider", "saveMapping"}
    /\ pc' = [pc EXCEPT ![a] = "idle"]
    /\ target' = [target EXCEPT ![a] = NoRow]
    /\ Settle(a)
    /\ UNCHANGED <<tables, cache, snapshots, history>>

----------------------------------------------------------------------------
(* The process *)

\* main fills the cache before it listens, and does not come up otherwise.  The
\* process may die between any two steps of a request.
Restart ==
    /\ \E f \in [Codes -> Range(providers) \cup {NoRow}] :
         IsProviderIndex(f) /\ cacheProviders' = f
    /\ \E f \in [Keys -> Range(rules) \cup {NoRow}] :
         IsRuleIndex(f) /\ cacheRules' = f
    /\ pc' = [a \in Admins |-> "idle"]
    /\ target' = [a \in Admins |-> NoRow]
    /\ readProviders' = [a \in Admins |-> NoRow]
    /\ readRules' = [a \in Admins |-> NoRow]
    /\ current' = {}
    /\ cacheCurrent' = TRUE
    /\ refreshMissed' = FALSE
    /\ regressed' = FALSE
    /\ overtaken' = {}
    /\ UNCHANGED tables

Init ==
    /\ providers = [i \in ProviderIds |-> NoRow]
    /\ rules = [i \in RuleIds |-> NoRow]
    /\ cacheProviders = [c \in Codes |-> NoRow]
    /\ cacheRules = [k \in Keys |-> NoRow]
    /\ pc = [a \in Admins |-> "idle"]
    /\ target = [a \in Admins |-> NoRow]
    /\ readProviders = [a \in Admins |-> NoRow]
    /\ readRules = [a \in Admins |-> NoRow]
    /\ current = {}
    /\ cacheCurrent = TRUE
    /\ refreshMissed = FALSE
    /\ regressed = FALSE
    /\ overtaken = {}

ProviderStep(a) ==
    \/ \E id \in ProviderIds :
         \/ \E row \in ProviderRow : CreateProvider(a, id, row)
         \/ LoadProvider(a, id)
         \/ DeleteProvider(a, id)
    \/ \E row \in ProviderRow : SaveProvider(a, row)

MappingStep(a) ==
    \/ \E id \in RuleIds :
         \/ \E row \in RuleRow : CreateMapping(a, id, row)
         \/ LoadMapping(a, id)
         \/ DeleteMapping(a, id)
    \/ \E row \in RuleRow : SaveMapping(a, row)

RefreshStep(a) ==
    QueryProviders(a) \/ QueryRules(a) \/ RefreshFails(a) \/ Install(a)

Next ==
    \/ \E a \in Admins :
         ProviderStep(a) \/ MappingStep(a) \/ UpdateRejected(a) \/ RefreshStep(a)
    \/ Restart

Spec == Init /\ [][Next]_vars

\* A request that has begun runs on; that another one arrives is not assumed.
FairSpec ==
    /\ Spec
    /\ \A a \in Admins : WF_vars(RefreshStep(a))

----------------------------------------------------------------------------

\* Find: the cached rule of a key and the cached provider it names.
Found(key) ==
    /\ cacheRules[key] # NoRow
    /\ cacheProviders[cacheRules[key].provider] # NoRow

\* The cache is what a refresh would make it now.
Fresh == IsProviderIndex(cacheProviders) /\ IsRuleIndex(cacheRules)

Quiet == \A a \in Admins : pc[a] = "idle"

\* When no admin request is running, the cache routes by what the tables say,
\* unless the latest refresh failed, or was left out after a commit that the
\* database did not confirm, or a refresh begun before the latest commit swapped
\* its maps in after one begun later (cache.go:27-51, admin.go:91-95, 289-293).
\* A crash between a commit and its refresh does no harm.
FreshUnlessOvertaken == Quiet => Fresh \/ refreshMissed \/ regressed

\* README.md:37 and docs/API.md:90 promise it without the last exception:
\* a provider or mapping change refreshes the cache.
FreshWhenQuiet == Quiet /\ ~refreshMissed => Fresh

\* In the terms of a client and of the tables: a key is routed only to an enabled
\* provider by an enabled rule, and always if every enabled rule for it names an
\* enabled provider (cache.go:53-66).
RoutesAsTables ==
    \A key \in Keys :
        LET candidates == {r \in Range(rules) : Enabled(r) /\ r.key = key}
            Usable(r) == \E p \in Range(providers) :
                            Enabled(p) /\ p.code = r.provider
        IN  /\ Found(key) => \E r \in candidates : Usable(r)
            /\ candidates # {} /\ (\A r \in candidates : Usable(r)) => Found(key)

\* What the documentation promises, as a client sees it: when no admin request
\* is running and the latest refresh neither failed nor was left out, the tables
\* decide the routes (README.md:37, docs/API.md:90).
RoutedAsConfigured == Quiet /\ ~refreshMissed => RoutesAsTables

\* A deleted row changes only by the save of an update that had loaded it before
\* it was deleted: that one brings it back, whatever the delete was answered.  No
\* create, delete, refresh, restart or other update does (admin.go:73-107, 266-274).
RevivedOnlyByOverlap ==
    [][/\ \A id \in ProviderIds :
            Deleted(providers[id]) /\ providers'[id] # providers[id] =>
                \E a \in overtaken : pc[a] = "saveProvider" /\ target[a] = id
                                     /\ pc'[a] # pc[a]
       /\ \A id \in RuleIds :
            Deleted(rules[id]) /\ rules'[id] # rules[id] =>
                \E a \in overtaken : pc[a] = "saveMapping" /\ target[a] = id
                                     /\ pc'[a] # pc[a]]_vars

\* When the admins stop changing the tables, requests are routed by the tables
\* in the end: the refresh of the last commit lands, fails, is left out because
\* the commit was not confirmed, or is overtaken.
RefreshLands ==
    <>[][UNCHANGED tables]_vars =>
        <>[](Fresh \/ refreshMissed \/ regressed)

=============================================================================
