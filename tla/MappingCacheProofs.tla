-------------------------- MODULE MappingCacheProofs --------------------------
(***************************************************************************)
(* What MappingCache guarantees for every number of admin requests, rows   *)
(* and keys.  FreshUnlessOvertaken is not inductive: it says nothing while *)
(* a request runs.  Bookkeeping adds what the history variables mean at    *)
(* all times: a refresh begun after the latest commit holds maps that are  *)
(* still right, and until such a refresh has landed one is on its way, or  *)
(* the history says what went wrong.                                       *)
(***************************************************************************)
EXTENDS MappingCache, TLAPS

Bookkeeping ==
    /\ cacheCurrent => Fresh
    /\ \A a \in current :
         \/ pc[a] = "queryRules" /\ IsProviderIndex(readProviders[a])
         \/ /\ pc[a] = "install"
            /\ IsProviderIndex(readProviders[a]) /\ IsRuleIndex(readRules[a])
    /\ \/ cacheCurrent \/ refreshMissed \/ regressed
       \/ \E a \in Admins : pc[a] = "refresh" \/ a \in current

\* A refresh about to swap holds both of its maps.
HoldsMaps ==
    \A a \in Admins :
        /\ pc[a] \in {"queryRules", "install"} => readProviders[a] \in ProviderMap
        /\ pc[a] = "install" => readRules[a] \in RuleMap

-------------------------------------------------------------------------------
(* Type correctness *)

LEMMA InitTypeOK == Init => TypeOK
BY DEF Init, TypeOK, ProviderMap, RuleMap

\* Whatever gorm does with a row, it stays a row.
LEMMA RowTypes ==
    /\ \A row \in ProviderRow : Inserted(row) \in ProviderRow
    /\ \A row \in RuleRow : Inserted(row) \in RuleRow
    /\ \A old \in ProviderRow \cup {NoRow}, row \in ProviderRow :
         Saved(old, row) \in ProviderRow
    /\ \A old \in RuleRow \cup {NoRow}, row \in RuleRow :
         Saved(old, row) \in RuleRow
    /\ \A row \in ProviderRow \cup {NoRow} :
         SoftDeleted(row) \in ProviderRow \cup {NoRow}
    /\ \A row \in RuleRow \cup {NoRow} :
         SoftDeleted(row) \in RuleRow \cup {NoRow}
BY DEF ProviderRow, RuleRow, Inserted, Saved, SoftDeleted, Live

LEMMA IndexTypes ==
    ASSUME TypeOK
    PROVE  /\ \A f \in [Codes -> Range(providers) \cup {NoRow}] : f \in ProviderMap
           /\ \A f \in [Keys -> Range(rules) \cup {NoRow}] : f \in RuleMap
<1>1. /\ Range(providers) \subseteq ProviderRow \cup {NoRow}
      /\ Range(rules) \subseteq RuleRow \cup {NoRow}
  BY DEF TypeOK, Range
<1> QED BY <1>1 DEF ProviderMap, RuleMap

LEMMA ProviderTypeOK ==
    ASSUME TypeOK, NEW a \in Admins, ProviderStep(a)
    PROVE  TypeOK'
<1> USE DEF TypeOK, cache, snapshots, tables, history, updates, Overtake, Settle
<1>1. ASSUME NEW id \in ProviderIds, NEW row \in ProviderRow,
             CreateProvider(a, id, row)
      PROVE  TypeOK'
  BY <1>1, RowTypes DEF CreateProvider, Commit
<1>2. ASSUME NEW id \in ProviderIds, LoadProvider(a, id) PROVE TypeOK'
  BY <1>2 DEF LoadProvider
<1>3. ASSUME NEW id \in ProviderIds, DeleteProvider(a, id) PROVE TypeOK'
  <2>1. SoftDeleted(providers[id]) \in ProviderRow \cup {NoRow}
    BY RowTypes
  <2> QED BY <1>3, <2>1 DEF DeleteProvider, Commit
<1>4. ASSUME NEW row \in ProviderRow, SaveProvider(a, row) PROVE TypeOK'
  <2>1. target[a] \in ProviderIds => Saved(providers[target[a]], row) \in ProviderRow
    BY RowTypes
  <2> QED BY <1>4, <2>1 DEF SaveProvider, Commit
<1> QED BY <1>1, <1>2, <1>3, <1>4 DEF ProviderStep

LEMMA MappingTypeOK ==
    ASSUME TypeOK, NEW a \in Admins, MappingStep(a)
    PROVE  TypeOK'
<1> USE DEF TypeOK, cache, snapshots, tables, history, updates, Overtake, Settle
<1>1. ASSUME NEW id \in RuleIds, NEW row \in RuleRow, CreateMapping(a, id, row)
      PROVE  TypeOK'
  BY <1>1, RowTypes DEF CreateMapping, Commit
<1>2. ASSUME NEW id \in RuleIds, LoadMapping(a, id) PROVE TypeOK'
  BY <1>2 DEF LoadMapping
<1>3. ASSUME NEW id \in RuleIds, DeleteMapping(a, id) PROVE TypeOK'
  <2>1. SoftDeleted(rules[id]) \in RuleRow \cup {NoRow}
    BY RowTypes
  <2> QED BY <1>3, <2>1 DEF DeleteMapping, Commit
<1>4. ASSUME NEW row \in RuleRow, SaveMapping(a, row) PROVE TypeOK'
  <2>1. target[a] \in RuleIds => Saved(rules[target[a]], row) \in RuleRow
    BY RowTypes
  <2> QED BY <1>4, <2>1 DEF SaveMapping, Commit
<1> QED BY <1>1, <1>2, <1>3, <1>4 DEF MappingStep


LEMMA RefreshTypeOK ==
    ASSUME TypeOK, HoldsMaps, NEW a \in Admins, RefreshStep(a)
    PROVE  TypeOK'
<1> USE DEF TypeOK, cache, snapshots, tables, history, updates, Overtake, Settle
<1>1. CASE QueryProviders(a)
  BY <1>1, IndexTypes DEF QueryProviders
<1>2. CASE QueryRules(a)
  BY <1>2, IndexTypes DEF QueryRules
<1>3. CASE RefreshFails(a)
  BY <1>3 DEF RefreshFails, Forget
<1>4. CASE Install(a)
  <2>1. readProviders[a] \in ProviderMap /\ readRules[a] \in RuleMap
    BY <1>4 DEF HoldsMaps, Install
  <2> QED BY <1>4, <2>1 DEF Install, Forget
<1> QED BY <1>1, <1>2, <1>3, <1>4 DEF RefreshStep

LEMMA RestartTypeOK == TypeOK /\ Restart => TypeOK'
BY IndexTypes DEF TypeOK, Restart, tables

\* Only QueryProviders, QueryRules and the end of a refresh touch its maps.
LEMMA NextHoldsMaps == TypeOK /\ HoldsMaps /\ [Next]_vars => HoldsMaps'
<1> SUFFICES ASSUME TypeOK, HoldsMaps, [Next]_vars PROVE HoldsMaps'
  OBVIOUS
<1> USE DEF HoldsMaps, cache, snapshots, tables, history
<1>t. pc \in [Admins -> {"idle", "saveProvider", "saveMapping", "refresh",
                         "queryRules", "install"}]
      /\ readProviders \in [Admins -> ProviderMap \cup {NoRow}]
      /\ readRules \in [Admins -> RuleMap \cup {NoRow}]
  BY DEF TypeOK
<1>1. ASSUME NEW a \in Admins, ProviderStep(a) PROVE HoldsMaps'
  BY <1>t, <1>1 DEF ProviderStep, CreateProvider, LoadProvider, DeleteProvider,
     SaveProvider, Commit
<1>2. ASSUME NEW a \in Admins, MappingStep(a) PROVE HoldsMaps'
  BY <1>t, <1>2 DEF MappingStep, CreateMapping, LoadMapping, DeleteMapping,
     SaveMapping, Commit
<1>3. ASSUME NEW a \in Admins, UpdateRejected(a) PROVE HoldsMaps'
  BY <1>t, <1>3 DEF UpdateRejected
<1>4. ASSUME NEW a \in Admins, RefreshStep(a) PROVE HoldsMaps'
  <2>1. CASE QueryProviders(a)
    BY <1>t, <2>1, IndexTypes DEF QueryProviders
  <2>2. CASE QueryRules(a)
    BY <1>t, <2>2, IndexTypes DEF QueryRules
  <2>3. CASE RefreshFails(a)
    BY <1>t, <2>3 DEF RefreshFails, Forget
  <2>4. CASE Install(a)
    BY <1>t, <2>4 DEF Install, Forget
  <2> QED BY <1>4, <2>1, <2>2, <2>3, <2>4 DEF RefreshStep
<1>5. CASE Restart
  BY <1>5 DEF Restart
<1>6. CASE UNCHANGED vars
  BY <1>6 DEF vars
<1> QED BY <1>1, <1>2, <1>3, <1>4, <1>5, <1>6 DEF Next

LEMMA NextTypeOK == TypeOK /\ HoldsMaps /\ [Next]_vars => TypeOK'
<1> SUFFICES ASSUME TypeOK, HoldsMaps, [Next]_vars PROVE TypeOK'
  OBVIOUS
<1>1. ASSUME NEW a \in Admins, UpdateRejected(a) PROVE TypeOK'
  BY <1>1 DEF TypeOK, UpdateRejected, Settle, tables, cache, snapshots, history
<1>2. CASE UNCHANGED vars
  BY <1>2 DEF TypeOK, vars
<1> QED BY <1>1, <1>2, ProviderTypeOK, MappingTypeOK, RefreshTypeOK, RestartTypeOK
        DEF Next

\* Tables, cache and snapshots keep their types: in particular a refresh swaps in
\* maps only after both of its queries have answered.
THEOREM TypeCorrect == Spec => []TypeOK
<1>1. Init => TypeOK /\ HoldsMaps
  BY InitTypeOK DEF Init, HoldsMaps
<1>2. TypeOK /\ HoldsMaps /\ [Next]_vars => (TypeOK /\ HoldsMaps)'
  BY NextTypeOK, NextHoldsMaps
<1> QED BY <1>1, <1>2, PTL DEF Spec

-------------------------------------------------------------------------------
(* Freshness *)

LEMMA InitBookkeeping == Init => Bookkeeping
<1> SUFFICES ASSUME Init PROVE Bookkeeping
  OBVIOUS
<1>1. \A i \in ProviderIds : providers[i] = NoRow
  BY DEF Init
<1>2. \A i \in RuleIds : rules[i] = NoRow
  BY DEF Init
<1>3. /\ \A p \in Range(providers) : ~Enabled(p)
      /\ \A r \in Range(rules) : ~Enabled(r)
  BY <1>1, <1>2 DEF Init, Range, Enabled, Live
<1>4. Fresh
  BY <1>3 DEF Init, Fresh, IsProviderIndex, IsRuleIndex
<1> QED BY <1>4 DEF Init, Bookkeeping

\* The indexes depend on the tables only.
LEMMA SameTablesSameIndex ==
    ASSUME UNCHANGED tables
    PROVE  \A f : /\ IsProviderIndex(f)' <=> IsProviderIndex(f)
                  /\ IsRuleIndex(f)' <=> IsRuleIndex(f)
BY DEF tables, IsProviderIndex, IsRuleIndex

\* A commit makes every earlier refresh out of date and is itself about to begin
\* one.
LEMMA CommitBookkeeping ==
    ASSUME TypeOK, NEW a \in Admins, Commit(a)
    PROVE  Bookkeeping'
BY DEF TypeOK, Commit, Bookkeeping

LEMMA RefreshBookkeeping ==
    ASSUME TypeOK, Bookkeeping, NEW a \in Admins, RefreshStep(a)
    PROVE  Bookkeeping'
<1>t. /\ pc \in [Admins -> {"idle", "saveProvider", "saveMapping", "refresh",
                            "queryRules", "install"}]
      /\ readProviders \in [Admins -> ProviderMap \cup {NoRow}]
      /\ readRules \in [Admins -> RuleMap \cup {NoRow}]
      /\ current \subseteq Admins
  BY DEF TypeOK
<1>u. UNCHANGED tables
  BY DEF RefreshStep, QueryProviders, QueryRules, RefreshFails, Install
<1>f. UNCHANGED cache => (Fresh' <=> Fresh)
  BY <1>u DEF Fresh, cache, tables, IsProviderIndex, IsRuleIndex
<1> USE DEF cache
<1>1. CASE QueryProviders(a)
  <2>1. IsProviderIndex(readProviders'[a])
    BY <1>t, <1>1 DEF QueryProviders
  <2>2. \A b \in current' : \/ b = a /\ pc'[b] = "queryRules"
                            \/ /\ b # a /\ b \in current /\ pc'[b] = pc[b]
                               /\ readProviders'[b] = readProviders[b]
                               /\ readRules'[b] = readRules[b]
    BY <1>t, <1>1 DEF QueryProviders
  <2> QED BY <1>1, <1>f, <1>t, <1>u, <2>1, <2>2, SameTablesSameIndex
          DEF QueryProviders, Bookkeeping, tables, IsProviderIndex, IsRuleIndex
<1>2. CASE QueryRules(a)
  BY <1>2, <1>f, <1>t, <1>u DEF QueryRules, Bookkeeping, history, tables,
     IsProviderIndex, IsRuleIndex
<1>3. CASE RefreshFails(a)
  BY <1>3, <1>f, <1>t, <1>u DEF RefreshFails, Forget, Bookkeeping, tables,
     IsProviderIndex, IsRuleIndex
<1>4. CASE Install(a)
  <2>1. a \in current => Fresh'
    BY <1>4, <1>u DEF Install, Bookkeeping, Fresh, tables, IsProviderIndex, IsRuleIndex
  <2>2. \A b \in current' : /\ b # a /\ b \in current /\ pc'[b] = pc[b]
                            /\ readProviders'[b] = readProviders[b]
                            /\ readRules'[b] = readRules[b]
    BY <1>t, <1>4 DEF Install, Forget
  <2>3. \A b \in current' :
          \/ pc'[b] = "queryRules" /\ IsProviderIndex(readProviders[b])'
          \/ /\ pc'[b] = "install"
             /\ IsProviderIndex(readProviders[b])' /\ IsRuleIndex(readRules[b])'
    BY <1>u, <2>2 DEF Bookkeeping, tables, IsProviderIndex, IsRuleIndex
  <2>4. cacheCurrent' => Fresh'
    BY <1>4, <2>1 DEF Install
  <2>5. \/ cacheCurrent' \/ refreshMissed' \/ regressed'
        \/ \E b \in Admins : pc'[b] = "refresh" \/ b \in current'
    <3>1. CASE a \in current
      BY <1>4, <3>1 DEF Install
    <3>2. CASE a \notin current
      <4>1. ASSUME NEW b \in Admins, pc[b] = "refresh" \/ b \in current
            PROVE  pc'[b] = "refresh" \/ b \in current'
        BY <1>4, <1>t, <3>2, <4>1 DEF Install
      <4> QED BY <1>4, <3>2, <4>1 DEF Install, Bookkeeping
    <3> QED BY <3>1, <3>2
  <2> QED BY <2>3, <2>4, <2>5 DEF Bookkeeping
<1> QED BY <1>1, <1>2, <1>3, <1>4 DEF RefreshStep

\* A step that leaves tables, maps and history alone, and only moves a request
\* between waiting and updating, changes nothing.
LEMMA IdleBookkeeping ==
    ASSUME TypeOK, Bookkeeping, NEW a \in Admins,
           pc[a] \in {"idle", "saveProvider", "saveMapping"},
           NEW s, pc' = [pc EXCEPT ![a] = s],
           UNCHANGED <<tables, cache, snapshots, history>>
    PROVE  Bookkeeping'
<1>1. pc \in [Admins -> {"idle", "saveProvider", "saveMapping", "refresh",
                         "queryRules", "install"}]
  BY DEF TypeOK
<1>2. \A b \in Admins : pc[b] \in {"refresh", "queryRules", "install"} => pc'[b] = pc[b]
  BY <1>1
<1>3. current \subseteq Admins
  BY DEF TypeOK
<1> QED BY <1>2, <1>3 DEF Bookkeeping, Fresh, IsProviderIndex, IsRuleIndex, tables,
        cache, snapshots, history

LEMMA NextBookkeeping == TypeOK /\ Bookkeeping /\ [Next]_vars => Bookkeeping'
<1> SUFFICES ASSUME TypeOK, Bookkeeping, [Next]_vars PROVE Bookkeeping'
  OBVIOUS
<1>1. ASSUME NEW a \in Admins, ProviderStep(a) PROVE Bookkeeping'
  <2>1. ASSUME NEW id \in ProviderIds, LoadProvider(a, id) PROVE Bookkeeping'
    BY <2>1, IdleBookkeeping DEF LoadProvider
  <2> QED BY <1>1, <2>1, CommitBookkeeping
          DEF ProviderStep, CreateProvider, DeleteProvider, SaveProvider
<1>2. ASSUME NEW a \in Admins, MappingStep(a) PROVE Bookkeeping'
  <2>1. ASSUME NEW id \in RuleIds, LoadMapping(a, id) PROVE Bookkeeping'
    BY <2>1, IdleBookkeeping DEF LoadMapping
  <2> QED BY <1>2, <2>1, CommitBookkeeping
          DEF MappingStep, CreateMapping, DeleteMapping, SaveMapping
<1>3. ASSUME NEW a \in Admins, UpdateRejected(a) PROVE Bookkeeping'
  BY <1>3, IdleBookkeeping DEF UpdateRejected
<1>4. CASE Restart
  BY <1>4 DEF Restart, Bookkeeping, Fresh, IsProviderIndex, IsRuleIndex, tables
<1>5. CASE UNCHANGED vars
  BY <1>5 DEF vars, Bookkeeping, Fresh, IsProviderIndex, IsRuleIndex
<1> QED BY <1>1, <1>2, <1>3, <1>4, <1>5, RefreshBookkeeping DEF Next

\* The invariant of this module, with the one property drawn from it.
THEOREM FreshUnlessOvertakenHolds == Spec => []FreshUnlessOvertaken
<1> DEFINE IInv == TypeOK /\ HoldsMaps /\ Bookkeeping
<1>1. Init => IInv
  BY InitTypeOK, InitBookkeeping DEF Init, HoldsMaps
<1>2. IInv /\ [Next]_vars => IInv'
  BY NextTypeOK, NextHoldsMaps, NextBookkeeping
<1>3. IInv => FreshUnlessOvertaken
  <2> SUFFICES ASSUME TypeOK, Bookkeeping, Quiet, ~refreshMissed, ~regressed
               PROVE  Fresh
    BY DEF FreshUnlessOvertaken
  <2>1. ASSUME NEW a \in Admins PROVE pc[a] # "refresh" /\ a \notin current
    BY DEF Quiet, Bookkeeping
  <2> QED BY <2>1 DEF Bookkeeping
<1> QED BY <1>1, <1>2, <1>3, PTL DEF Spec

-------------------------------------------------------------------------------
(* Routes *)

\* A cache that is what a refresh would make it routes as the tables say: the
\* cached rule of a key is an enabled one, and whatever provider it names is
\* cached exactly when an enabled one has that code.
LEMMA FreshRoutes == TypeOK /\ Fresh => RoutesAsTables
<1> SUFFICES ASSUME TypeOK, Fresh, NEW key \in Keys
             PROVE  LET candidates == {r \in Range(rules) : Enabled(r) /\ r.key = key}
                        Usable(r) == \E p \in Range(providers) :
                                        Enabled(p) /\ p.code = r.provider
                    IN  /\ Found(key) => \E r \in candidates : Usable(r)
                        /\ candidates # {} /\ (\A r \in candidates : Usable(r))
                             => Found(key)
  BY DEF RoutesAsTables
<1> DEFINE candidates == {r \in Range(rules) : Enabled(r) /\ r.key = key}
           Usable(r) == \E p \in Range(providers) : Enabled(p) /\ p.code = r.provider
<1>1. /\ candidates = {} => cacheRules[key] = NoRow
      /\ candidates # {} => cacheRules[key] \in candidates
  BY DEF Fresh, IsRuleIndex
<1>2. ASSUME NEW c \in Codes
      PROVE  cacheProviders[c] # NoRow
               <=> \E p \in Range(providers) : Enabled(p) /\ p.code = c
  <2> DEFINE rows == {p \in Range(providers) : Enabled(p) /\ p.code = c}
  <2>1. IF rows = {} THEN cacheProviders[c] = NoRow ELSE cacheProviders[c] \in rows
    BY DEF Fresh, IsProviderIndex
  <2>2. \A p \in rows : p # NoRow
    BY DEF Enabled, Live
  <2> QED BY <2>1, <2>2
<1>3. ASSUME NEW r \in candidates PROVE r # NoRow /\ r.provider \in Codes
  <2>1. r # NoRow /\ r \in RuleRow \cup {NoRow}
    BY DEF Enabled, Live, TypeOK, Range
  <2> QED BY <2>1 DEF RuleRow
<1>4. ASSUME NEW r \in candidates
      PROVE  Usable(r) <=> cacheProviders[r.provider] # NoRow
  BY <1>2, <1>3
<1> HIDE DEF candidates, Usable
<1>5. Found(key) => \E r \in candidates : Usable(r)
  BY <1>1, <1>4 DEF Found
<1>6. candidates # {} /\ (\A r \in candidates : Usable(r)) => Found(key)
  BY <1>1, <1>3, <1>4 DEF Found
<1> QED BY <1>5, <1>6 DEF candidates, Usable

\* A client's view of FreshUnlessOvertaken, for any number of admins: with none
\* at work, only a failed refresh or one that was overtaken routes a key by
\* anything but the tables (cache.go:27-66).
THEOREM RoutedUnlessOvertaken ==
    Spec => [](Quiet => RoutesAsTables \/ refreshMissed \/ regressed)
<1>1. TypeOK /\ FreshUnlessOvertaken
        => (Quiet => RoutesAsTables \/ refreshMissed \/ regressed)
  BY FreshRoutes DEF FreshUnlessOvertaken
<1> QED BY <1>1, TypeCorrect, FreshUnlessOvertakenHolds, PTL

-------------------------------------------------------------------------------
(* Deleted rows *)

\* Until an update saves, the row it loaded is there, and live unless it has been
\* overtaken.
UpdatesKnown ==
    \A a \in Admins :
        /\ pc[a] = "saveProvider" =>
             /\ target[a] \in ProviderIds /\ providers[target[a]] # NoRow
             /\ Deleted(providers[target[a]]) => a \in overtaken
        /\ pc[a] = "saveMapping" =>
             /\ target[a] \in RuleIds /\ rules[target[a]] # NoRow
             /\ Deleted(rules[target[a]]) => a \in overtaken

\* A row that a commit wrote is a live one, but for a delete.
LEMMA Writes ==
    /\ \A row : (~row.deleted => ~Deleted(row)) /\ (Deleted(row) => row # NoRow)
    /\ \A row \in ProviderRow : Inserted(row) # NoRow /\ Inserted(row).deleted = row.deleted
    /\ \A row \in RuleRow : Inserted(row) # NoRow /\ Inserted(row).deleted = row.deleted
    /\ \A old, row : Saved(old, row) \in {row, Inserted(row)}
    /\ \A row \in ProviderRow \cup RuleRow :
         SoftDeleted(row) # NoRow /\ (Deleted(row) => SoftDeleted(row) = row)
    /\ \A row \in ProviderRow \cup RuleRow : row # NoRow
BY CacheAssumption DEF Deleted, Inserted, Saved, SoftDeleted, Live, ProviderRow, RuleRow

LEMMA NextUpdatesKnown == TypeOK /\ UpdatesKnown /\ [Next]_vars => UpdatesKnown'
<1> SUFFICES ASSUME TypeOK, UpdatesKnown, [Next]_vars PROVE UpdatesKnown'
  OBVIOUS
<1>t. /\ providers \in [ProviderIds -> ProviderRow \cup {NoRow}]
      /\ rules \in [RuleIds -> RuleRow \cup {NoRow}]
      /\ pc \in [Admins -> {"idle", "saveProvider", "saveMapping", "refresh",
                            "queryRules", "install"}]
      /\ target \in [Admins -> ProviderIds \cup RuleIds \cup {NoRow}]
  BY DEF TypeOK
<1> DEFINE Known(a) == (/\ pc[a] = "saveProvider" =>
                             /\ target[a] \in ProviderIds
                             /\ providers[target[a]] # NoRow
                             /\ Deleted(providers[target[a]]) => a \in overtaken
                        /\ pc[a] = "saveMapping" =>
                             /\ target[a] \in RuleIds /\ rules[target[a]] # NoRow
                             /\ Deleted(rules[target[a]]) => a \in overtaken)'
<1>s. (\A b \in Admins : Known(b)) => UpdatesKnown'
  BY DEF UpdatesKnown
<1> DEFINE GoesOn(a) ==
             /\ pc'[a] \in {"idle", "refresh"}
             /\ \A b \in Admins \ {a} : pc'[b] = pc[b] /\ target'[b] = target[b]
           WritesProvider(a, id, row) ==
             /\ GoesOn(a) /\ row # NoRow /\ UNCHANGED rules
             /\ providers' = [providers EXCEPT ![id] = row]
             /\ Deleted(row) => \A b \in Admins : pc[b] = "saveProvider" /\ target[b] = id
                                                     => b \in overtaken'
             /\ overtaken \ {a} \subseteq overtaken'
           WritesMapping(a, id, row) ==
             /\ GoesOn(a) /\ row # NoRow /\ UNCHANGED providers
             /\ rules' = [rules EXCEPT ![id] = row]
             /\ Deleted(row) => \A b \in Admins : pc[b] = "saveMapping" /\ target[b] = id
                                                     => b \in overtaken'
             /\ overtaken \ {a} \subseteq overtaken'
\* The request itself goes on to something else; what the others loaded is live,
\* as it was, or known to be gone.
<1>1. ASSUME NEW a \in Admins, NEW id \in ProviderIds, NEW row, WritesProvider(a, id, row)
      PROVE  UpdatesKnown'
  <2>1. ASSUME NEW b \in Admins PROVE Known(b)
    BY <1>t, <1>1 DEF UpdatesKnown
  <2> QED BY <1>s, <2>1
<1>2. ASSUME NEW a \in Admins, NEW id \in RuleIds, NEW row, WritesMapping(a, id, row)
      PROVE  UpdatesKnown'
  <2>1. ASSUME NEW b \in Admins PROVE Known(b)
    BY <1>t, <1>2 DEF UpdatesKnown
  <2> QED BY <1>s, <2>1
<1>3. ASSUME NEW a \in Admins, UNCHANGED tables, overtaken \ {a} \subseteq overtaken',
             pc'[a] \notin {"saveProvider", "saveMapping"},
             \A b \in Admins \ {a} : pc'[b] = pc[b] /\ target'[b] = target[b]
      PROVE  UpdatesKnown'
  <2>1. ASSUME NEW b \in Admins PROVE Known(b)
    BY <1>3 DEF UpdatesKnown, tables
  <2> QED BY <1>s, <2>1
<1>c. ASSUME NEW a \in Admins, Commit(a) PROVE GoesOn(a)
  BY <1>t, <1>c DEF Commit
<1> HIDE DEF Known, WritesProvider, WritesMapping, GoesOn
<1>4. ASSUME NEW a \in Admins, ProviderStep(a) PROVE UpdatesKnown'
  <2>1. ASSUME NEW id \in ProviderIds, NEW row \in ProviderRow, CreateProvider(a, id, row)
        PROVE  UpdatesKnown'
    <3>1. Inserted(row) # NoRow /\ ~Deleted(Inserted(row))
      BY <2>1, Writes DEF CreateProvider
    <3>2. WritesProvider(a, id, Inserted(row))
      BY <1>c, <2>1, <3>1 DEF CreateProvider, WritesProvider
    <3> QED BY <1>1, <3>2
  <2>2. ASSUME NEW id \in ProviderIds, LoadProvider(a, id) PROVE UpdatesKnown'
    <3>1. /\ pc' = [pc EXCEPT ![a] = "saveProvider"] /\ target' = [target EXCEPT ![a] = id]
          /\ Live(providers[id]) /\ UNCHANGED <<providers, rules, overtaken>>
      BY <2>2 DEF LoadProvider, tables
    <3>2. ASSUME NEW b \in Admins PROVE Known(b)
      BY <1>t, <3>1 DEF UpdatesKnown, Known, Live, Deleted
    <3> QED BY <1>s, <3>2
  <2>3. ASSUME NEW id \in ProviderIds, DeleteProvider(a, id) PROVE UpdatesKnown'
    <3>1. CASE providers[id] = NoRow
      <4>1. UNCHANGED tables
        BY <1>t, <2>3, <3>1 DEF DeleteProvider, SoftDeleted, Live, tables
      <4> QED BY <1>3, <1>c, <2>3, <4>1 DEF DeleteProvider, Overtake, GoesOn
    <3>2. CASE providers[id] # NoRow
      <4>1. SoftDeleted(providers[id]) # NoRow
        BY <1>t, <3>2, Writes
      <4>2. WritesProvider(a, id, SoftDeleted(providers[id]))
        BY <1>c, <2>3, <4>1 DEF DeleteProvider, Overtake, WritesProvider
      <4> QED BY <1>1, <4>2
    <3> QED BY <3>1, <3>2
  <2>4. ASSUME NEW row \in ProviderRow, SaveProvider(a, row) PROVE UpdatesKnown'
    <3>1. target[a] \in ProviderIds
      BY <2>4 DEF SaveProvider, UpdatesKnown
    <3>2. Saved(providers[target[a]], row) # NoRow /\ ~Deleted(Saved(providers[target[a]], row))
      BY <2>4, Writes DEF SaveProvider
    <3>3. WritesProvider(a, target[a], Saved(providers[target[a]], row))
      BY <1>c, <2>4, <3>2 DEF SaveProvider, Settle, WritesProvider
    <3> QED BY <1>1, <3>1, <3>3
  <2> QED BY <1>4, <2>1, <2>2, <2>3, <2>4 DEF ProviderStep
<1>5. ASSUME NEW a \in Admins, MappingStep(a) PROVE UpdatesKnown'
  <2>1. ASSUME NEW id \in RuleIds, NEW row \in RuleRow, CreateMapping(a, id, row)
        PROVE  UpdatesKnown'
    <3>1. Inserted(row) # NoRow /\ ~Deleted(Inserted(row))
      BY <2>1, Writes DEF CreateMapping
    <3>2. WritesMapping(a, id, Inserted(row))
      BY <1>c, <2>1, <3>1 DEF CreateMapping, WritesMapping
    <3> QED BY <1>2, <3>2
  <2>2. ASSUME NEW id \in RuleIds, LoadMapping(a, id) PROVE UpdatesKnown'
    <3>1. /\ pc' = [pc EXCEPT ![a] = "saveMapping"] /\ target' = [target EXCEPT ![a] = id]
          /\ Live(rules[id]) /\ UNCHANGED <<providers, rules, overtaken>>
      BY <2>2 DEF LoadMapping, tables
    <3>2. ASSUME NEW b \in Admins PROVE Known(b)
      BY <1>t, <3>1 DEF UpdatesKnown, Known, Live, Deleted
    <3> QED BY <1>s, <3>2
  <2>3. ASSUME NEW id \in RuleIds, DeleteMapping(a, id) PROVE UpdatesKnown'
    <3>1. CASE rules[id] = NoRow
      <4>1. UNCHANGED tables
        BY <1>t, <2>3, <3>1 DEF DeleteMapping, SoftDeleted, Live, tables
      <4> QED BY <1>3, <1>c, <2>3, <4>1 DEF DeleteMapping, Overtake, GoesOn
    <3>2. CASE rules[id] # NoRow
      <4>1. SoftDeleted(rules[id]) # NoRow
        BY <1>t, <3>2, Writes
      <4>2. WritesMapping(a, id, SoftDeleted(rules[id]))
        BY <1>c, <2>3, <4>1 DEF DeleteMapping, Overtake, WritesMapping
      <4> QED BY <1>2, <4>2
    <3> QED BY <3>1, <3>2
  <2>4. ASSUME NEW row \in RuleRow, SaveMapping(a, row) PROVE UpdatesKnown'
    <3>1. target[a] \in RuleIds
      BY <2>4 DEF SaveMapping, UpdatesKnown
    <3>2. Saved(rules[target[a]], row) # NoRow /\ ~Deleted(Saved(rules[target[a]], row))
      BY <2>4, Writes DEF SaveMapping
    <3>3. WritesMapping(a, target[a], Saved(rules[target[a]], row))
      BY <1>c, <2>4, <3>2 DEF SaveMapping, Settle, WritesMapping
    <3> QED BY <1>2, <3>1, <3>3
  <2> QED BY <1>5, <2>1, <2>2, <2>3, <2>4 DEF MappingStep
<1>6. ASSUME NEW a \in Admins, UpdateRejected(a) PROVE UpdatesKnown'
  BY <1>t, <1>3, <1>6 DEF UpdateRejected, Settle
<1>7. ASSUME NEW a \in Admins, RefreshStep(a) PROVE UpdatesKnown'
  BY <1>t, <1>3, <1>7 DEF RefreshStep, QueryProviders, QueryRules, RefreshFails,
     Install, updates
<1>8. CASE Restart
  BY <1>8 DEF Restart, UpdatesKnown
<1>9. CASE UNCHANGED vars
  BY <1>9 DEF vars, UpdatesKnown
<1> QED BY <1>4, <1>5, <1>6, <1>7, <1>8, <1>9 DEF Next

\* For any number of admin requests in any order, what is deleted stays as it was
\* deleted but for the save of an update that had loaded the row before: a create
\* takes a new id, a delete spares what is deleted, and an update loads only what
\* is live (admin.go:73-107, 266-274).
THEOREM DeletedUnlessOverlapped == Spec => RevivedOnlyByOverlap
<1> DEFINE Spared ==
      /\ \A id \in ProviderIds :
           Deleted(providers[id]) /\ providers'[id] # providers[id] =>
               \E a \in overtaken : pc[a] = "saveProvider" /\ target[a] = id
                                    /\ pc'[a] # pc[a]
      /\ \A id \in RuleIds :
           Deleted(rules[id]) /\ rules'[id] # rules[id] =>
               \E a \in overtaken : pc[a] = "saveMapping" /\ target[a] = id
                                    /\ pc'[a] # pc[a]
<1>1. ASSUME TypeOK, UpdatesKnown, Next PROVE Spared
  <2>t. /\ providers \in [ProviderIds -> ProviderRow \cup {NoRow}]
        /\ rules \in [RuleIds -> RuleRow \cup {NoRow}]
        /\ pc \in [Admins -> {"idle", "saveProvider", "saveMapping", "refresh",
                              "queryRules", "install"}]
    BY <1>1 DEF TypeOK
  <2>0. ASSUME UNCHANGED tables PROVE Spared
    BY <2>0 DEF tables
  <2>1. ASSUME NEW a \in Admins, ProviderStep(a) PROVE Spared
    <3>1. rules' = rules
      BY <2>1 DEF ProviderStep, CreateProvider, LoadProvider, DeleteProvider,
                  SaveProvider, tables
    <3>2. ASSUME NEW id \in ProviderIds, Deleted(providers[id]),
                 providers'[id] # providers[id]
          PROVE  \E b \in overtaken : pc[b] = "saveProvider" /\ target[b] = id
                                      /\ pc'[b] # pc[b]
      <4>1. CASE \E row \in ProviderRow : SaveProvider(a, row)
        <5>1. pc[a] = "saveProvider" /\ target[a] = id /\ pc'[a] # pc[a]
          BY <2>t, <3>2, <4>1 DEF SaveProvider, Commit
        <5>2. a \in overtaken
          BY <1>1, <3>2, <5>1 DEF UpdatesKnown
        <5> QED BY <5>1, <5>2
      <4>2. CASE \E i \in ProviderIds : DeleteProvider(a, i)
        BY <2>t, <3>2, <4>2 DEF DeleteProvider, SoftDeleted, Live, Deleted
      <4>3. CASE \E i \in ProviderIds, row \in ProviderRow : CreateProvider(a, i, row)
        BY <2>t, <3>2, <4>3 DEF CreateProvider, Deleted
      <4>4. CASE providers' = providers
        BY <3>2, <4>4
      <4> QED BY <2>1, <4>1, <4>2, <4>3, <4>4 DEF ProviderStep, LoadProvider, tables
    <3> QED BY <3>1, <3>2
  <2>2. ASSUME NEW a \in Admins, MappingStep(a) PROVE Spared
    <3>1. providers' = providers
      BY <2>2 DEF MappingStep, CreateMapping, LoadMapping, DeleteMapping,
                  SaveMapping, tables
    <3>2. ASSUME NEW id \in RuleIds, Deleted(rules[id]), rules'[id] # rules[id]
          PROVE  \E b \in overtaken : pc[b] = "saveMapping" /\ target[b] = id
                                      /\ pc'[b] # pc[b]
      <4>1. CASE \E row \in RuleRow : SaveMapping(a, row)
        <5>1. pc[a] = "saveMapping" /\ target[a] = id /\ pc'[a] # pc[a]
          BY <2>t, <3>2, <4>1 DEF SaveMapping, Commit
        <5>2. a \in overtaken
          BY <1>1, <3>2, <5>1 DEF UpdatesKnown
        <5> QED BY <5>1, <5>2
      <4>2. CASE \E i \in RuleIds : DeleteMapping(a, i)
        BY <2>t, <3>2, <4>2 DEF DeleteMapping, SoftDeleted, Live, Deleted
      <4>3. CASE \E i \in RuleIds, row \in RuleRow : CreateMapping(a, i, row)
        BY <2>t, <3>2, <4>3 DEF CreateMapping, Deleted
      <4>4. CASE rules' = rules
        BY <3>2, <4>4
      <4> QED BY <2>2, <4>1, <4>2, <4>3, <4>4 DEF MappingStep, LoadMapping, tables
    <3> QED BY <3>1, <3>2
  <2>3. ASSUME NEW a \in Admins, UpdateRejected(a) \/ RefreshStep(a) PROVE Spared
    BY <2>0, <2>3 DEF UpdateRejected, RefreshStep, QueryProviders, QueryRules,
                      RefreshFails, Install
  <2>4. ASSUME Restart PROVE Spared
    BY <2>0, <2>4 DEF Restart
  <2> QED BY <1>1, <2>1, <2>2, <2>3, <2>4 DEF Next
<1> DEFINE IInv == TypeOK /\ HoldsMaps /\ UpdatesKnown
<1>2. Init => IInv
  BY InitTypeOK DEF Init, HoldsMaps, UpdatesKnown
<1>3. IInv /\ [Next]_vars => IInv'
  BY NextTypeOK, NextHoldsMaps, NextUpdatesKnown
<1>4. IInv /\ [Next]_vars => [Spared]_vars
  BY <1>1
<1> HIDE DEF IInv, Spared
<1>5. Spec => [][Spared]_vars
  BY <1>2, <1>3, <1>4, PTL DEF Spec
<1> QED BY <1>5 DEF RevivedOnlyByOverlap, Spared

===============================================================================
