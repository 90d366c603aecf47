---------------------- MODULE CatalogRefinementProofs -----------------------
(***************************************************************************)
(* The views of MongoCatalog.tla behave as ViewRegistry.tla says, and a    *)
(* cache cleared alone is as fresh as CatalogFreshness.tla says, for any   *)
(* number of threads, databases, collections and schema versions.          *)
(***************************************************************************)
EXTENDS CatalogFreshness, MongoCatalogProofs

USE SchemaEntryAssumption, CatalogAssumption
USE DEF mongo, entryVars, locks, locals, catalogVars

-----------------------------------------------------------------------------
(* What a thread that creates an entry may rely on until it installs it.     *)

(* No one installs the view it is about to install, and what it inferred is  *)
(* a schema the collection has had.                                          *)
CreatingAlone(t) ==
    /\ OwnsEntryLock(t) /\ pc[t] # "clear_load" => views[cur[t]][coll[t]] = NoView
    /\ pc[t] = "store" => seen[t] \in 1..version[cur[t]][coll[t]]

ViewsGuarded == \A t \in Threads : CreatingAlone(t)

(* The types this argument uses.                                             *)
ViewTypes ==
    /\ LockTypes
    /\ coll \in [Threads -> Collections]
    /\ seen \in [Threads -> InferredVersions \union {NoView}]
    /\ version \in [Databases -> [Collections -> InferredVersions]]
    /\ views \in [Databases -> [Collections -> InferredVersions \union {NoView, UserView}]]

LEMMA ViewTypesHold == TypeOK => ViewTypes
  BY LockTypesHold DEF TypeOK, ViewTypes

LEMMA GuardSchemaEntry ==
  ASSUME TypeOK, LockInv, ViewsGuarded, NEW t \in Threads, SchemaEntryStep(t),
         UNCHANGED catalogVars
  PROVE  ViewsGuarded'
  <1>0. ViewTypes /\ ~Nested(t)
    BY ViewTypesHold, NestedSchemaEntry DEF LockInv
  <1> USE <1>0 DEF ViewTypes, LockTypes, PcFunctions, Owners, LockInv, LockOwnership, NestedScope,
           NestedPcs, Nested, OwnsLoadLock, OwnsEntryLock, InGenerator, ForLoad, Goto, ViewsGuarded, CreatingAlone
  <1>1. CASE TryLoadEntries(t)
    BY <1>1 DEF TryLoadEntries, AfterLoad
  <1>2. CASE LoadUnderLock(t)
    BY <1>2, SMTT(30) DEF LoadUnderLock, Free, Take, AfterLoad
  <1>3. CASE EnsureCollectionsLoaded(t)
    BY <1>3 DEF EnsureCollectionsLoaded, AfterEnsure
  <1>4. CASE MarkCollectionsLoaded(t)
    BY <1>4 DEF MarkCollectionsLoaded
  <1>5. CASE ListCollectionNames(t)
    BY <1>5 DEF ListCollectionNames, AfterEnsure
  <1>6. CASE UseFreedGenerator(t)
    BY <1>6 DEF UseFreedGenerator, AfterEnsure
  <1>7. CASE PublishEntries(t)
    BY <1>7 DEF PublishEntries, Release, AfterLoad
  <1>8. CASE FindEntry(t)
    BY <1>8, SMTT(30) DEF FindEntry, EntryReturns, Free, Take
  <1>9. CASE CreateDefaultEntry(t)
    BY <1>9 DEF CreateDefaultEntry, EntryReturns, Release
  <1>10. CASE InferViewInfo(t)
    <2>1. version[cur[t]][coll[t]] \in 1..version[cur[t]][coll[t]]
      BY DEF InferredVersions
    <2> QED
      BY <1>10, <2>1, SMTT(30) DEF InferViewInfo, EntryReturns, Release
  <1>11. CASE StoreViewInfo(t)
    BY <1>11 DEF StoreViewInfo, EntryReturns, Release
  <1>12. CASE ScanReset(t)
    BY <1>12 DEF ScanReset
  <1>13. CASE ScanViews(t)
    BY <1>13 DEF ScanViews, Free
  <1>14. CASE ScanNext(t)
    <2>1. PICK p \in {"entry", "returned"} : pc' = [pc EXCEPT ![t] = p]
      BY <1>14 DEF ScanNext
    <2>2. \A u \in Threads \ {t} : coll'[u] = coll[u]
      BY <1>14 DEF ScanNext
    <2>3. UNCHANGED <<version, views, seen, cur, loadLock>>
      BY <1>14 DEF ScanNext
    <2> QED
      BY <2>1, <2>2, <2>3
  <1>15. CASE DropEntry(t)
    BY <1>15 DEF DropEntry, Free
  <1>16. CASE CreateView(t)
    BY <1>16 DEF CreateView, Free
  <1> QED
    BY <1>1, <1>2, <1>3, <1>4, <1>5, <1>6, <1>7, <1>8, <1>9, <1>10, <1>11,
       <1>12, <1>13, <1>14, <1>15, <1>16 DEF SchemaEntryStep

LEMMA GuardCatalog ==
  ASSUME TypeOK, LockInv, ViewsGuarded, NEW t \in Threads, CatalogStep(t)
  PROVE  ViewsGuarded'
  <1>0. ViewTypes
    BY ViewTypesHold
  <1>n. pc[t] \in {"returned", "clear_next"} => ~Nested(t)
    BY DEF LockInv, NestedScope, NestedPcs
  <1> USE <1>0 DEF ViewTypes, LockTypes, PcFunctions, Owners, LockInv, LockOwnership, NestedScope,
           NestedPcs, Nested, OwnsLoadLock, OwnsEntryLock, InGenerator, ForLoad, Goto, ViewsGuarded, CreatingAlone
  <1>1. CASE Return(t)
    <2>1. ~Nested(t) /\ pc'[t] = "idle"
      BY <1>n, <1>1 DEF Return
    <2>2. /\ \A u \in Threads \ {t} : pc'[u] = pc[u] /\ cur'[u] = cur[u] /\ coll'[u] = coll[u]
          /\ UNCHANGED <<views, version, seen, loadLock, nested>>
      BY <1>1 DEF Return
    <2> QED
      BY <2>1, <2>2
  <1>2. CASE LookupSchema(t)
    BY <1>2 DEF LookupSchema
  <1>3. CASE ScanSchemas(t)
    BY <1>3 DEF ScanSchemas, LeaveScanSchemas, AfterScanSchemas
  <1>4. CASE CreateSchema(t)
    BY <1>4 DEF CreateSchema
  <1>5. CASE InstallGenerator(t)
    BY <1>5 DEF InstallGenerator, LeaveScanSchemas, AfterScanSchemas
  <1>6. CASE ListDatabases(t)
    BY <1>6, SMTT(30) DEF ListDatabases, LeaveScanSchemas, AfterScanSchemas, Fail, EntryReturns, Release
  <1>7. CASE FindSchema(t)
    BY <1>7, SMTT(30) DEF FindSchema, EnterSchema
  <1>8. CASE FindSchemaAgain(t)
    BY <1>8 DEF FindSchemaAgain, EnterSchema, Fail
  <1>9. CASE CreateSchemaOnDemand(t)
    BY <1>9 DEF CreateSchemaOnDemand
  <1>10. CASE InstallGeneratorOnDemand(t)
    BY <1>10 DEF InstallGeneratorOnDemand, EnterSchema
  <1>11. CASE ClearViewInfoCache(t)
    BY <1>11 DEF ClearViewInfoCache
  <1>12. CASE ClearSchemas(t)
    BY <1>12 DEF ClearSchemas
  <1>13. CASE ClearNext(t)
    <2>1. ~Nested(t) /\ pc'[t] \in {"clear_entry", "returned"}
      BY <1>n, <1>13 DEF ClearNext
    <2>2. /\ \A u \in Threads \ {t} : pc'[u] = pc[u] /\ cur'[u] = cur[u]
          /\ UNCHANGED <<coll, views, version, seen, loadLock, nested>>
      BY <1>13 DEF ClearNext
    <2> QED
      BY <2>1, <2>2
  <1>14. CASE InvalidateTakesEntryLock(t)
    BY <1>14 DEF InvalidateTakesEntryLock
  <1>15. CASE InvalidateResets(t)
    BY <1>15 DEF InvalidateResets, InvalidateCache
  <1>16. CASE LookupFunction(t)
    BY <1>16 DEF LookupFunction
  <1> QED
    BY <1>1, <1>2, <1>3, <1>4, <1>5, <1>6, <1>7, <1>8, <1>9, <1>10, <1>11,
       <1>12, <1>13, <1>14, <1>15, <1>16 DEF CatalogStep

LEMMA GuardStep ==
  TypeOK /\ LockInv /\ ViewsGuarded /\ [Next]_vars => ViewsGuarded'
  <1> SUFFICES ASSUME TypeOK, LockInv, ViewsGuarded, [Next]_vars PROVE ViewsGuarded'
    OBVIOUS
  <1> USE DEF ViewsGuarded, CreatingAlone, OwnsEntryLock, Nested, ForLoad
  <1>1. CASE UNCHANGED vars
    BY <1>1 DEF vars, schemaEntryVars
  <1>2. ASSUME NEW t \in Threads, Begin(t) PROVE ViewsGuarded'
    <2>1. PICK o \in Operations : Goto(t, "idle", FirstPc(o))
      BY <1>2 DEF Begin
    <2>2. PICK c \in Collections : coll' = [coll EXCEPT ![t] = c]
      BY <1>2 DEF Begin
    <2>3. UNCHANGED <<loadLock, cur, views, version, seen, nested>>
      BY <1>2 DEF Begin
    <2>4. ViewTypes
      BY ViewTypesHold
    <2> QED
      BY <2>1, <2>2, <2>3, <2>4 DEF Goto, FirstPc, InGenerator, ViewTypes, LockTypes, PcFunctions,
         LockInv, NestedScope, NestedPcs
  <1>3. ASSUME NEW t \in Threads, Step(t) PROVE ViewsGuarded'
    BY <1>3, GuardSchemaEntry, GuardCatalog DEF Step
  <1>4. CASE Environment
    <2>1. PICK d \in Databases, c \in Collections :
             /\ version' = [version EXCEPT ![d][c] = @ + 1]
             /\ UNCHANGED <<loadLock, cur, coll, pc, views, seen, nested>>
      BY <1>4 DEF Environment, MongoChange
    <2>2. ASSUME NEW u \in Threads
          PROVE  1..version[cur[u]][coll[u]] \subseteq 1..version'[cur[u]][coll[u]]
      <3>1. version[cur[u]][coll[u]] \in Nat /\ version[d][c] \in Nat
        BY ViewTypesHold DEF ViewTypes, LockTypes, InferredVersions
      <3>2. version'[cur[u]][coll[u]] \in {version[cur[u]][coll[u]], version[cur[u]][coll[u]] + 1}
        BY <2>1, ViewTypesHold DEF ViewTypes, LockTypes
      <3> QED
        BY <3>1, <3>2
    <2> QED
      BY <2>1, <2>2
  <1> QED
    BY <1>1, <1>2, <1>3, <1>4 DEF Next

LEMMA GuardInit == Init => ViewsGuarded
  BY DEF Init, ViewsGuarded, CreatingAlone, OwnsEntryLock, Nested, InGenerator

(* While a thread creates an entry, no one else installs or erases that      *)
(* view: entry_lock is held from the failed search to the installation.      *)
THEOREM CreatesAlone == Spec => []ViewsGuarded
  BY TypeCorrect, LockInvHolds, GuardInit, GuardStep, PTL DEF Spec

-----------------------------------------------------------------------------
(* Every step is one of ViewRegistry's, or none.                             *)

LEMMA RegistryInit == Init => Registry!Init
  BY DEF Init, Registry!Init

LEMMA RegistrySchemaEntry ==
  ASSUME TypeOK, LockInv, ViewsGuarded, NEW t \in Threads, SchemaEntryStep(t)
  PROVE  [Registry!Next]_Registry!registryVars
  <1>0. /\ ViewTypes /\ cur[t] \in Databases /\ coll[t] \in Collections
        /\ viewInfoCache \in [Databases -> [Collections -> InferredVersions \union {NoView}]]
    BY ViewTypesHold DEF TypeOK, ViewTypes, LockTypes
  <1> DEFINE d == cur[t]
             c == coll[t]
             Same == UNCHANGED <<version, views, viewInfoCache>>
  <1>s. Same => [Registry!Next]_Registry!registryVars
    BY DEF Registry!registryVars
  <1>e. ASSUME NEW C \in SUBSET Collections, Registry!Erase(d, C) PROVE Registry!Next
    BY <1>0, <1>e DEF Registry!Next
  <1>1. CASE TryLoadEntries(t)
    BY <1>1, <1>s DEF TryLoadEntries
  <1>2. CASE LoadUnderLock(t)
    BY <1>2, <1>s DEF LoadUnderLock
  <1>3. CASE EnsureCollectionsLoaded(t)
    BY <1>3, <1>s DEF EnsureCollectionsLoaded
  <1>4. CASE MarkCollectionsLoaded(t)
    BY <1>4, <1>s DEF MarkCollectionsLoaded
  <1>5. CASE ListCollectionNames(t)
    BY <1>5, <1>s DEF ListCollectionNames
  <1>6. CASE UseFreedGenerator(t)
    BY <1>6, <1>s DEF UseFreedGenerator
  <1>7. CASE PublishEntries(t)
    BY <1>7, <1>s DEF PublishEntries
  <1>8. CASE FindEntry(t)
    BY <1>8, <1>s DEF FindEntry
  <1>9. CASE CreateDefaultEntry(t)
    <2>1. views[d][c] = NoView
      BY <1>9 DEF CreateDefaultEntry, EntryReturns, Goto, ViewsGuarded, CreatingAlone, OwnsEntryLock
    <2>2. CASE UNCHANGED views
      BY <1>9, <2>2, <1>s DEF CreateDefaultEntry
    <2>3. CASE /\ viewInfoCache[d][c] # NoView
               /\ views' = [views EXCEPT ![d][c] = viewInfoCache[d][c]]
      <3>1. Registry!Recall(d, c)
        BY <1>9, <2>1, <2>3 DEF CreateDefaultEntry, Registry!Recall
      <3> QED
        BY <1>0, <3>1 DEF Registry!Next
    <2> QED
      BY <1>9, <2>2, <2>3 DEF CreateDefaultEntry
  <1>10. CASE InferViewInfo(t)
    BY <1>10, <1>s DEF InferViewInfo
  <1>11. CASE StoreViewInfo(t)
    <2>1. views[d][c] = NoView /\ seen[t] \in 1..version[d][c]
      BY <1>11 DEF StoreViewInfo, EntryReturns, Goto, ViewsGuarded, CreatingAlone, OwnsEntryLock
    <2>2. Registry!Learn(d, c)
      BY <1>11, <2>1 DEF StoreViewInfo, Registry!Learn
    <2> QED
      BY <1>0, <2>2 DEF Registry!Next
  <1>12. CASE ScanReset(t)
    BY <1>12, <1>s DEF ScanReset
  <1>13. CASE ScanViews(t)
    <2>1. Registry!Erase(d, Collections \ loadedNames[d])
      BY <1>13 DEF ScanViews, Registry!Erase
    <2> QED
      BY <1>e, <2>1
  <1>14. CASE ScanNext(t)
    BY <1>14, <1>s DEF ScanNext
  <1>15. CASE DropEntry(t)
    <2>1. views' = [views EXCEPT ![d] = [b \in Collections |->
                       IF b \in {c} THEN NoView ELSE views[d][b]]]
      BY <1>0, <1>15 DEF DropEntry, ViewTypes
    <2>2. Registry!Erase(d, {c})
      BY <1>15, <2>1 DEF DropEntry, Registry!Erase
    <2> QED
      BY <1>0, <1>e, <2>2
  <1>16. CASE CreateView(t)
    <2>1. CASE views[d][c] = NoView
      <3>1. Registry!Define(d, c)
        BY <1>16, <2>1 DEF CreateView, Registry!Define
      <3> QED
        BY <1>0, <3>1 DEF Registry!Next
    <2>2. CASE views[d][c] # NoView
      <3>1. views' = views
        BY <1>0, <1>16, <2>2 DEF CreateView, ViewTypes
      <3> QED
        BY <1>16, <3>1, <1>s DEF CreateView
    <2> QED
      BY <2>1, <2>2
  <1> QED
    BY <1>1, <1>2, <1>3, <1>4, <1>5, <1>6, <1>7, <1>8, <1>9, <1>10, <1>11,
       <1>12, <1>13, <1>14, <1>15, <1>16 DEF SchemaEntryStep

LEMMA RegistryCatalog ==
  ASSUME TypeOK, NEW t \in Threads, CatalogStep(t)
  PROVE  [Registry!Next]_Registry!registryVars
  <1>s. UNCHANGED <<version, views, viewInfoCache>> => [Registry!Next]_Registry!registryVars
    BY DEF Registry!registryVars
  <1>1. CASE Return(t)
    BY <1>1, <1>s DEF Return
  <1>2. CASE LookupSchema(t)
    BY <1>2, <1>s DEF LookupSchema
  <1>3. CASE ScanSchemas(t)
    BY <1>3, <1>s DEF ScanSchemas
  <1>4. CASE CreateSchema(t)
    BY <1>4, <1>s DEF CreateSchema
  <1>5. CASE InstallGenerator(t)
    BY <1>5, <1>s DEF InstallGenerator
  <1>6. CASE ListDatabases(t)
    BY <1>6, <1>s DEF ListDatabases
  <1>7. CASE FindSchema(t)
    BY <1>7, <1>s DEF FindSchema
  <1>8. CASE FindSchemaAgain(t)
    BY <1>8, <1>s DEF FindSchemaAgain
  <1>9. CASE CreateSchemaOnDemand(t)
    BY <1>9, <1>s DEF CreateSchemaOnDemand
  <1>10. CASE InstallGeneratorOnDemand(t)
    BY <1>10, <1>s DEF InstallGeneratorOnDemand
  <1>11. CASE ClearViewInfoCache(t)
    <2>1. Registry!Forget
      BY <1>11 DEF ClearViewInfoCache, Registry!Forget
    <2> QED
      BY <2>1 DEF Registry!Next
  <1>12. CASE ClearSchemas(t)
    BY <1>12, <1>s DEF ClearSchemas
  <1>13. CASE ClearNext(t)
    BY <1>13, <1>s DEF ClearNext
  <1>14. CASE InvalidateTakesEntryLock(t)
    BY <1>14, <1>s DEF InvalidateTakesEntryLock
  <1>15. CASE InvalidateResets(t)
    <2>1. cur[t] \in Databases
      BY DEF TypeOK
    <2>2. views' = [views EXCEPT ![cur[t]] = [c \in Collections |->
                       IF c \in Collections THEN NoView ELSE views[cur[t]][c]]]
      BY <1>15 DEF InvalidateResets, InvalidateCache
    <2>3. Registry!Erase(cur[t], Collections)
      BY <1>15, <2>2 DEF InvalidateResets, Registry!Erase
    <2> QED
      BY <2>1, <2>3 DEF Registry!Next
  <1>16. CASE LookupFunction(t)
    BY <1>16, <1>s DEF LookupFunction
  <1> QED
    BY <1>1, <1>2, <1>3, <1>4, <1>5, <1>6, <1>7, <1>8, <1>9, <1>10, <1>11,
       <1>12, <1>13, <1>14, <1>15, <1>16 DEF CatalogStep

LEMMA RegistryStep ==
  TypeOK /\ LockInv /\ ViewsGuarded /\ [Next]_vars
  => [Registry!Next]_Registry!registryVars
  <1> SUFFICES ASSUME TypeOK, LockInv, ViewsGuarded, [Next]_vars
               PROVE  [Registry!Next]_Registry!registryVars
    OBVIOUS
  <1>1. CASE UNCHANGED vars
    BY <1>1 DEF vars, schemaEntryVars, Registry!registryVars
  <1>2. ASSUME NEW t \in Threads, Begin(t) PROVE [Registry!Next]_Registry!registryVars
    BY <1>2 DEF Begin, Registry!registryVars
  <1>3. ASSUME NEW t \in Threads, Step(t) PROVE [Registry!Next]_Registry!registryVars
    BY <1>3, RegistrySchemaEntry, RegistryCatalog DEF Step
  <1>4. CASE Environment
    <2>1. PICK d \in Databases, c \in Collections : MongoChange(d, c)
      BY <1>4 DEF Environment
    <2>2. Registry!Change(d, c)
      BY <2>1 DEF MongoChange, Registry!Change
    <2> QED
      BY <2>2 DEF Registry!Next
  <1> QED
    BY <1>1, <1>2, <1>3, <1>4 DEF Next

(* The catalog implements the registry of views: whatever its threads do, a  *)
(* view is installed in one step under a free name, with the schema that is  *)
(* remembered or one the collection has had.                                 *)
THEOREM CatalogIsRegistry == Spec => ImplementsRegistry
  BY TypeCorrect, LockInvHolds, CreatesAlone, RegistryInit, RegistryStep, PTL
     DEF Spec, ImplementsRegistry, Registry!Spec

-----------------------------------------------------------------------------
(* Views and cached schemas: a property of the registry, hence of the        *)
(* catalog.                                                                  *)

LEMMA RegistryKeepsAgreement ==
  ASSUME TypeOK, CacheAgreesWithViews, [Registry!Next]_Registry!registryVars
  PROVE  CacheAgreesWithViews'
  <1>0. /\ views \in [Databases -> [Collections -> InferredVersions \union {NoView, UserView}]]
        /\ viewInfoCache \in [Databases -> [Collections -> InferredVersions \union {NoView}]]
    BY DEF TypeOK
  <1> USE <1>0 DEF CacheAgreesWithViews
  <1>1. CASE UNCHANGED Registry!registryVars
    BY <1>1 DEF Registry!registryVars
  <1>2. ASSUME NEW d \in Databases, NEW c \in Collections, Registry!Change(d, c)
        PROVE  CacheAgreesWithViews'
    BY <1>2 DEF Registry!Change
  <1>3. ASSUME NEW d \in Databases, NEW c \in Collections, Registry!Recall(d, c)
        PROVE  CacheAgreesWithViews'
    BY <1>3 DEF Registry!Recall
  <1>4. ASSUME NEW d \in Databases, NEW c \in Collections, Registry!Learn(d, c)
        PROVE  CacheAgreesWithViews'
    <2>1. PICK v \in 1..version[d][c] :
             /\ views' = [views EXCEPT ![d][c] = v]
             /\ viewInfoCache' = [viewInfoCache EXCEPT ![d][c] = v]
      BY <1>4 DEF Registry!Learn
    <2> QED
      BY <2>1
  <1>5. ASSUME NEW d \in Databases, NEW c \in Collections, Registry!Define(d, c)
        PROVE  CacheAgreesWithViews'
    BY <1>5 DEF Registry!Define
  <1>6. ASSUME NEW d \in Databases, NEW C \in SUBSET Collections, Registry!Erase(d, C)
        PROVE  CacheAgreesWithViews'
    BY <1>6 DEF Registry!Erase
  <1>7. CASE Registry!Forget
    BY <1>7 DEF Registry!Forget
  <1> QED
    BY <1>1, <1>2, <1>3, <1>4, <1>5, <1>6, <1>7 DEF Registry!Next

(* No view made from a collection ever stands beside a cached schema that    *)
(* differs from it.                                                          *)
THEOREM CacheAgrees == Spec => []CacheAgreesWithViews
  <1>1. Init => CacheAgreesWithViews
    BY DEF Init, CacheAgreesWithViews
  <1>2. TypeOK /\ LockInv /\ ViewsGuarded /\ CacheAgreesWithViews /\ [Next]_vars
        => CacheAgreesWithViews'
    BY RegistryStep, RegistryKeepsAgreement
  <1> QED
    BY <1>1, <1>2, TypeCorrect, LockInvHolds, CreatesAlone, PTL DEF Spec

-----------------------------------------------------------------------------
(* A cache cleared alone.                                                    *)

ClearPcs == {"clear_infos", "clear_schemas", "clear_next", "clear_entry", "clear_load"}

(* Views are only ever made in schemas of the map, and only ClearCache runs   *)
(* the steps that clear.                                                     *)
InSchema(t) ==
    /\ pc[t] \in (SchemaEntryPcs \ {"returned"}) \/ Nested(t) => cur[t] \in schemas
    /\ pc[t] = "set_generator" => made[t] \in schemas
    /\ pc[t] = "set_on_demand" => Sought(t) \in schemas
    /\ visited[t] => wanted[t] \in schemas /\ pc[t] # "idle"
    /\ pc[t] \in ClearPcs => op[t] = "clear"
    /\ op[t] = "clear" => pc[t] \in ClearPcs \union {"returned"}

ViewsInSchemas ==
    /\ NestedScope
    /\ \A t \in Threads : InSchema(t)
    /\ \A d \in Databases \ schemas, c \in Collections : views[d][c] = NoView

(* Everything inferred, stored or about to be stored, is as new as least.    *)
NoneOlder(least) ==
    \A d \in Databases, c \in Collections :
        /\ least[d][c] <= version[d][c]
        /\ viewInfoCache[d][c] \in InferredVersions => least[d][c] <= viewInfoCache[d][c]
        /\ views[d][c] \in InferredVersions => least[d][c] <= views[d][c]
        /\ \A t \in Threads : pc[t] = "store" /\ cur[t] = d /\ coll[t] = c => least[d][c] <= seen[t]

(* How far a thread that clears the cache alone has come.                    *)
ClearingAlone(t) ==
    /\ op[t] = "clear" /\ pc[t] # "idle" /\ \A u \in Threads \ {t} : pc[u] = "idle"
    /\ pc[t] \in ClearPcs \ {"clear_infos"} =>
          \A d \in Databases, c \in Collections : viewInfoCache[d][c] = NoView
    /\ pc[t] \in {"clear_next", "clear_entry", "clear_load"} =>
          \A d \in Databases : \/ d \in pendingSchemas[t]
                               \/ pc[t] # "clear_next" /\ cur[t] = d
                               \/ \A c \in Collections : views[d][c] = NoView

(* The inductive invariant.  What MongoDB held when a clear began is not newer *)
(* than what it holds, whatever a clear that runs alone has passed is gone,   *)
(* and nothing is older than the last such clear.                            *)
Versions == [Databases -> [Collections -> InferredVersions]]
HistoryInv ==
    /\ before \in [Threads -> Versions] /\ alone \in [Threads -> BOOLEAN] /\ floor.alone \in Versions
    /\ \A t \in Threads, d \in Databases, c \in Collections : before[t][d][c] <= version[d][c]
    /\ \A t \in Threads : alone[t] => ClearingAlone(t)
    /\ NoneOlder(floor.alone)

(* The types this argument uses.                                             *)
FreshTypes ==
    /\ ViewTypes
    /\ viewInfoCache \in [Databases -> [Collections -> InferredVersions \union {NoView}]]
    /\ op \in [Threads -> OperationNames]
    /\ wanted \in [Threads -> Databases]
    /\ made \in [Threads -> Databases]
    /\ pendingSchemas \in [Threads -> SUBSET Databases]
    /\ visited \in [Threads -> BOOLEAN]
    /\ schemas \subseteq Databases

LEMMA FreshTypesHold == TypeOK => FreshTypes
  BY ViewTypesHold DEF TypeOK, FreshTypes

LEMMA MovesInSchema ==
  ASSUME TypeOK, ViewsInSchemas, NEW t \in Threads, pc[t] \in SchemaEntryPcs \ {"returned"},
         NEW p \in SchemaEntryPcs, pc' = [pc EXCEPT ![t] = p],
         UNCHANGED <<op, cur, catalogVars>>,
         \A d \in Databases \ schemas, c \in Collections : views'[d][c] = NoView
  PROVE  ViewsInSchemas'
  <1>1. cur[t] \in schemas /\ op[t] # "clear"
    <2>1. pc[t] \notin ClearPcs \union {"returned"}
      BY DEF ClearPcs, SchemaEntryPcs
    <2> QED
      BY <2>1 DEF ViewsInSchemas, InSchema
  <1>n. NestedScope' /\ ~Nested(t)
    <2>1. pc[t] \notin NestedPcs
      BY DEF NestedPcs, SchemaEntryPcs
    <2>2. \A u \in Threads \ {t} : pc'[u] = pc[u]
      BY DEF TypeOK
    <2> QED
      BY <2>1, <2>2 DEF ViewsInSchemas, NestedScope, Nested
  <1>2. p \notin {"set_generator", "set_on_demand", "idle"} \union ClearPcs
    BY DEF ClearPcs, SchemaEntryPcs
  <1>3. ASSUME NEW u \in Threads PROVE InSchema(u)'
    <2>1. CASE u = t
      <3>1. pc'[u] = p
        BY <2>1 DEF TypeOK
      <3> QED
        BY <1>n, <1>1, <1>2, <2>1, <3>1 DEF ViewsInSchemas, InSchema, Nested
    <2>2. CASE u # t
      <3>1. pc'[u] = pc[u]
        BY <2>2 DEF TypeOK
      <3> QED
        BY <3>1 DEF ViewsInSchemas, InSchema, Sought, Nested
    <2> QED
      BY <2>1, <2>2
  <1> QED
    BY <1>n, <1>3 DEF ViewsInSchemas

LEMMA InSchemasEntry ==
  ASSUME TypeOK, ViewsInSchemas, NEW t \in Threads, SchemaEntryStep(t), UNCHANGED catalogVars
  PROVE  ViewsInSchemas'
  <1>0. FreshTypes /\ NestedScope'
    BY FreshTypesHold, NestedSchemaEntry DEF ViewsInSchemas
  <1> USE <1>0 DEF FreshTypes, ViewTypes, LockTypes, PcFunctions, Goto, ViewsInSchemas, InSchema, ClearPcs,
           Sought, Nested, InGenerator, SchemaEntryPcs
  <1>1. CASE TryLoadEntries(t)
    <2>1. PICK p \in {"load", "scan_views", "entry"} : pc' = [pc EXCEPT ![t] = p]
      BY <1>1 DEF TryLoadEntries, AfterLoad
    <2>2. UNCHANGED <<op, cur, views>> /\ pc[t] \in SchemaEntryPcs \ {"returned"}
      BY <1>1 DEF TryLoadEntries, AfterLoad
    <2> QED
      BY <2>1, <2>2, MovesInSchema
  <1>2. CASE LoadUnderLock(t)
    <2>1. PICK p \in {"ensure", "scan_views", "entry"} : pc' = [pc EXCEPT ![t] = p]
      BY <1>2 DEF LoadUnderLock, AfterLoad
    <2>2. UNCHANGED <<op, cur, views>> /\ pc[t] \in SchemaEntryPcs \ {"returned"}
      BY <1>2 DEF LoadUnderLock, AfterLoad
    <2> QED
      BY <2>1, <2>2, MovesInSchema
  <1>3. CASE EnsureCollectionsLoaded(t)
    <2>1. PICK p \in {"publish", "create", "mark"} : pc' = [pc EXCEPT ![t] = p]
      BY <1>3 DEF EnsureCollectionsLoaded, AfterEnsure
    <2>2. UNCHANGED <<op, cur, views>> /\ pc[t] \in SchemaEntryPcs \ {"returned"}
      BY <1>3 DEF EnsureCollectionsLoaded, AfterEnsure
    <2> QED
      BY <2>1, <2>2, MovesInSchema
  <1>4. CASE MarkCollectionsLoaded(t)
    BY <1>4 DEF MarkCollectionsLoaded
  <1>5. CASE ListCollectionNames(t)
    BY <1>5 DEF ListCollectionNames, AfterEnsure
  <1>6. CASE UseFreedGenerator(t)
    BY <1>6 DEF UseFreedGenerator, AfterEnsure
  <1>7. CASE PublishEntries(t)
    BY <1>7 DEF PublishEntries, AfterLoad
  <1>8. CASE FindEntry(t)
    BY <1>8, SMTT(30) DEF FindEntry, EntryReturns
  <1>9. CASE CreateDefaultEntry(t)
    <2>1. PICK p \in {"infer", "scan_next", "drop_entry", "returned"} : pc' = [pc EXCEPT ![t] = p]
      BY <1>9 DEF CreateDefaultEntry, EntryReturns
    <2>2. UNCHANGED <<op, cur>> /\ pc[t] = "create" /\ cur[t] \in schemas
      BY <1>9 DEF CreateDefaultEntry, EntryReturns
    <2>3. views' = views \/ views' = [views EXCEPT ![cur[t]][coll[t]] = viewInfoCache[cur[t]][coll[t]]]
      BY <1>9 DEF CreateDefaultEntry
    <2>4. \A d \in Databases \ schemas, c \in Collections : views'[d][c] = NoView
      <3>1. \A d \in Databases \ schemas, c \in Collections : views[d][c] = NoView /\ d # cur[t]
        BY <2>2
      <3>2. views \in [Databases -> [Collections -> InferredVersions \union {NoView, UserView}]]
        OBVIOUS
      <3> HIDE <1>0
      <3> QED
        BY <2>3, <3>1, <3>2
    <2> QED
      BY <2>1, <2>2, <2>4, MovesInSchema
  <1>10. CASE InferViewInfo(t)
    BY <1>10, ZenonT(30) DEF InferViewInfo, EntryReturns
  <1>11. CASE StoreViewInfo(t)
    BY <1>11 DEF StoreViewInfo, EntryReturns
  <1>12. CASE ScanReset(t)
    BY <1>12 DEF ScanReset
  <1>13. CASE ScanViews(t)
    BY <1>13 DEF ScanViews
  <1>14. CASE ScanNext(t)
    BY <1>14, ZenonT(30) DEF ScanNext
  <1>15. CASE DropEntry(t)
    BY <1>15 DEF DropEntry
  <1>16. CASE CreateView(t)
    BY <1>16 DEF CreateView
  <1> QED
    BY <1>1, <1>2, <1>3, <1>4, <1>5, <1>6, <1>7, <1>8, <1>9, <1>10, <1>11, <1>12, <1>13, <1>14, <1>15, <1>16 DEF SchemaEntryStep

LEMMA InSchemasCatalog ==
  ASSUME TypeOK, ViewsInSchemas, NEW t \in Threads, CatalogStep(t)
  PROVE  ViewsInSchemas'
  <1>0. FreshTypes /\ NestedScope'
    BY FreshTypesHold, NestedCatalog DEF ViewsInSchemas
  <1> USE <1>0 DEF FreshTypes, ViewTypes, LockTypes, PcFunctions, Goto, ViewsInSchemas, InSchema, ClearPcs,
           Sought, Nested, InGenerator, SchemaEntryPcs
  <1>1. CASE Return(t)
    <2>1. pc'[t] = "idle" /\ op'[t] = "lookup" /\ ~visited'[t] /\ ~Nested(t)'
      BY <1>1 DEF Return, NestedScope, NestedPcs
    <2>2. /\ \A u \in Threads \ {t} : /\ pc'[u] = pc[u] /\ cur'[u] = cur[u] /\ op'[u] = op[u]
                                      /\ wanted'[u] = wanted[u] /\ visited'[u] = visited[u]
          /\ UNCHANGED <<views, schemas, made, nested>>
      BY <1>1 DEF Return
    <2>3. InSchema(t)'
      BY <2>1
    <2>4. ASSUME NEW u \in Threads \ {t} PROVE InSchema(u)'
      BY <2>2
    <2> QED
      BY <2>2, <2>3, <2>4
  <1>2. CASE LookupSchema(t)
    BY <1>2 DEF LookupSchema
  <1>3. CASE ScanSchemas(t)
    <2>1. /\ pc[t] = "scan_schemas" /\ op[t] # "clear"
          /\ UNCHANGED <<op, wanted, visited, views, schemas, nested>>
      BY <1>3, ZenonT(30) DEF ScanSchemas, LeaveScanSchemas
    <2>2. \A u \in Threads \ {t} : pc'[u] = pc[u] /\ cur'[u] = cur[u] /\ made'[u] = made[u]
      BY <1>3 DEF ScanSchemas, LeaveScanSchemas
    <2>3. /\ \/ pc'[t] \in {"find_schema", "returned", "create_schema"}
             \/ pc'[t] = "scan_reset" /\ cur'[t] = wanted[t] /\ wanted[t] \in schemas
          /\ Nested(t) => cur'[t] = cur[t]
      BY <1>3, SMTT(30) DEF ScanSchemas, LeaveScanSchemas, AfterScanSchemas
    <2>4. InSchema(t)'
      BY <2>1, <2>3
    <2>5. ASSUME NEW u \in Threads \ {t} PROVE InSchema(u)'
      BY <2>1, <2>2
    <2> QED
      BY <2>1, <2>4, <2>5
  <1>4. CASE CreateSchema(t)
    BY <1>4 DEF CreateSchema
  <1>5. CASE InstallGenerator(t)
    BY <1>5 DEF InstallGenerator, LeaveScanSchemas, AfterScanSchemas, SetDefaultGenerator
  <1>6. CASE ListDatabases(t)
    BY <1>6 DEF ListDatabases, LeaveScanSchemas, AfterScanSchemas, Fail, EntryReturns
  <1>7. CASE FindSchema(t)
    <2>1. pc[t] = "find_schema" /\ op[t] # "clear" /\ UNCHANGED <<op, wanted, visited, views, schemas, made>>
      BY <1>7 DEF FindSchema, EnterSchema, NestedScope, NestedPcs
    <2>2. \A u \in Threads \ {t} : pc'[u] = pc[u] /\ cur'[u] = cur[u] /\ made'[u] = made[u] /\ nested'[u] = nested[u]
      BY <1>7 DEF FindSchema, EnterSchema
    <2>3. \/ pc'[t] \in {"create_view", "try_load"} /\ cur'[t] \in schemas /\ ~Nested(t)'
          \/ pc'[t] = "bind" /\ cur'[t] \in schemas /\ ~Nested(t)'
          \/ pc'[t] \in {"on_demand", "find_again"} /\ UNCHANGED <<cur, nested>>
      BY <1>7 DEF FindSchema, EnterSchema
    <2>4. InSchema(t)'
      BY <2>1, <2>3
    <2>5. ASSUME NEW u \in Threads \ {t} PROVE InSchema(u)'
      BY <2>1, <2>2
    <2> QED
      BY <2>1, <2>4, <2>5
  <1>8. CASE FindSchemaAgain(t)
    <2>1. pc[t] = "find_again" /\ op[t] # "clear" /\ UNCHANGED <<op, wanted, visited, views, schemas, made>>
      BY <1>8 DEF FindSchemaAgain, EnterSchema, Fail
    <2>2. \A u \in Threads \ {t} : pc'[u] = pc[u] /\ cur'[u] = cur[u] /\ made'[u] = made[u] /\ nested'[u] = nested[u]
      BY <1>8 DEF FindSchemaAgain, EnterSchema, Fail
    <2>3. \/ pc'[t] \in {"create_view", "try_load"} /\ cur'[t] \in schemas /\ ~Nested(t)'
          \/ pc'[t] = "bind" /\ cur'[t] \in schemas /\ ~Nested(t)'
          \/ pc'[t] = "returned" /\ ~Nested(t)'
      BY <1>8 DEF FindSchemaAgain, EnterSchema, Fail
    <2>4. InSchema(t)'
      BY <2>1, <2>3
    <2>5. ASSUME NEW u \in Threads \ {t} PROVE InSchema(u)'
      BY <2>1, <2>2
    <2> QED
      BY <2>1, <2>4, <2>5
  <1>9. CASE CreateSchemaOnDemand(t)
    BY <1>9 DEF CreateSchemaOnDemand
  <1>10. CASE InstallGeneratorOnDemand(t)
    <2>1. /\ pc[t] = "set_on_demand" /\ op[t] # "clear" /\ Sought(t) \in schemas
          /\ UNCHANGED <<op, wanted, visited, views, schemas, made>>
      BY <1>10 DEF InstallGeneratorOnDemand, EnterSchema
    <2>2. \A u \in Threads \ {t} : pc'[u] = pc[u] /\ cur'[u] = cur[u] /\ nested'[u] = nested[u]
      BY <1>10 DEF InstallGeneratorOnDemand, EnterSchema
    <2>3. /\ pc'[t] \in {"create_view", "try_load", "bind"}
          /\ cur'[t] \in schemas /\ ~Nested(t)'
      BY <1>10, <2>1 DEF InstallGeneratorOnDemand, EnterSchema
    <2>4. InSchema(t)'
      BY <2>1, <2>3
    <2>5. ASSUME NEW u \in Threads \ {t} PROVE InSchema(u)'
      BY <2>1, <2>2
    <2> QED
      BY <2>1, <2>4, <2>5
  <1>11. CASE ClearViewInfoCache(t)
    BY <1>11 DEF ClearViewInfoCache
  <1>12. CASE ClearSchemas(t)
    BY <1>12 DEF ClearSchemas
  <1>13. CASE ClearNext(t)
    <2>1. /\ pc[t] = "clear_next" /\ pc'[t] \in {"clear_entry", "returned"} /\ ~Nested(t)'
          /\ UNCHANGED <<op, wanted, visited, views, schemas, made, nested>>
      BY <1>13 DEF ClearNext, NestedScope, NestedPcs
    <2>2. \A u \in Threads \ {t} : pc'[u] = pc[u] /\ cur'[u] = cur[u]
      BY <1>13 DEF ClearNext
    <2>3. InSchema(t)'
      BY <2>1
    <2>4. ASSUME NEW u \in Threads \ {t} PROVE InSchema(u)'
      BY <2>1, <2>2
    <2> QED
      BY <2>1, <2>3, <2>4
  <1>14. CASE InvalidateTakesEntryLock(t)
    BY <1>14 DEF InvalidateTakesEntryLock
  <1>15. CASE InvalidateResets(t)
    BY <1>15 DEF InvalidateResets, InvalidateCache
  <1>16. CASE LookupFunction(t)
    BY <1>16 DEF LookupFunction
  <1> QED
    BY <1>1, <1>2, <1>3, <1>4, <1>5, <1>6, <1>7, <1>8, <1>9, <1>10, <1>11, <1>12, <1>13, <1>14, <1>15, <1>16 DEF CatalogStep

LEMMA NoneOlderFrame ==
  ASSUME TypeOK, NEW least \in Versions, NoneOlder(least), UNCHANGED <<version, viewInfoCache, cur, coll, seen>>,
         \A u \in Threads : pc'[u] = "store" => pc[u] = "store",
         \A d \in Databases, c \in Collections : views'[d][c] \in {views[d][c], viewInfoCache[d][c], UserView}
  PROVE  NoneOlder(least)'
  BY DEF NoneOlder, UserView, InferredVersions

LEMMA NoneOlderEntry ==
  ASSUME TypeOK, NEW least \in Versions, NoneOlder(least), NEW t \in Threads, SchemaEntryStep(t)
  PROVE  NoneOlder(least)'
  <1>0. FreshTypes
    BY FreshTypesHold
  <1> USE <1>0 DEF FreshTypes, ViewTypes, LockTypes, PcFunctions, Goto, NoneOlder, Versions, InferredVersions, NoView, UserView, InGenerator
  <1>1. CASE TryLoadEntries(t)
    BY <1>1 DEF TryLoadEntries, AfterLoad
  <1>2. CASE LoadUnderLock(t)
    BY <1>2 DEF LoadUnderLock, AfterLoad
  <1>3. CASE EnsureCollectionsLoaded(t)
    BY <1>3 DEF EnsureCollectionsLoaded, AfterEnsure
  <1>4. CASE MarkCollectionsLoaded(t)
    BY <1>4 DEF MarkCollectionsLoaded
  <1>5. CASE ListCollectionNames(t)
    BY <1>5 DEF ListCollectionNames, AfterEnsure
  <1>6. CASE UseFreedGenerator(t)
    BY <1>6 DEF UseFreedGenerator, AfterEnsure
  <1>7. CASE PublishEntries(t)
    BY <1>7 DEF PublishEntries, AfterLoad
  <1>8. CASE FindEntry(t)
    BY <1>8 DEF FindEntry, EntryReturns
  <1>9. CASE CreateDefaultEntry(t)
    <2>0. views' = views \/ views' = [views EXCEPT ![cur[t]][coll[t]] = viewInfoCache[cur[t]][coll[t]]]
      BY <1>9 DEF CreateDefaultEntry
    <2>1. \A d \in Databases, c \in Collections : views'[d][c] \in {views[d][c], viewInfoCache[d][c], UserView}
      <3> HIDE DEF NoneOlder, UserView, NoView
      <3>1. CASE views' = views
        BY <3>1
      <3>2. CASE views' = [views EXCEPT ![cur[t]][coll[t]] = viewInfoCache[cur[t]][coll[t]]]
        <4>1. SUFFICES ASSUME NEW d \in Databases, NEW c \in Collections
                       PROVE  views'[d][c] \in {views[d][c], viewInfoCache[d][c], UserView}
          OBVIOUS
        <4>2. CASE cur[t] = d /\ coll[t] = c
          BY <3>2, <4>2
        <4>3. CASE cur[t] # d \/ coll[t] # c
          BY <3>2, <4>3
        <4> QED
          BY <4>2, <4>3
      <3> QED
        BY <2>0, <3>1, <3>2
    <2>2. UNCHANGED <<version, viewInfoCache, cur, coll, seen>> /\ \A u \in Threads : pc'[u] = "store" => pc[u] = "store"
      BY <1>9 DEF CreateDefaultEntry, EntryReturns
    <2> HIDE DEF NoneOlder, Versions, InferredVersions, NoView, UserView
    <2> QED
      BY <2>1, <2>2, NoneOlderFrame
  <1>10. CASE InferViewInfo(t)
    <2>1. /\ UNCHANGED <<version, viewInfoCache, views, cur, coll>>
          /\ \A u \in Threads \ {t} : pc'[u] = pc[u] /\ seen'[u] = seen[u]
          /\ pc'[t] = "store" => seen'[t] = version[cur[t]][coll[t]]
      BY <1>10 DEF InferViewInfo, EntryReturns
    <2>2. ASSUME NEW d \in Databases, NEW c \in Collections, NEW u \in Threads,
                 pc'[u] = "store", cur'[u] = d, coll'[u] = c
          PROVE  least[d][c] <= seen'[u]
      <3>1. CASE u = t
        BY <2>1, <2>2, <3>1
      <3>2. CASE u # t
        BY <2>1, <2>2, <3>2
      <3> QED
        BY <3>1, <3>2
    <2> QED
      BY <2>1, <2>2
  <1>11. CASE StoreViewInfo(t)
    BY <1>11 DEF StoreViewInfo, EntryReturns
  <1>12. CASE ScanReset(t)
    BY <1>12 DEF ScanReset
  <1>13. CASE ScanViews(t)
    BY <1>13 DEF ScanViews
  <1>14. CASE ScanNext(t)
    BY <1>14, ZenonT(30) DEF ScanNext
  <1>15. CASE DropEntry(t)
    BY <1>15 DEF DropEntry
  <1>16. CASE CreateView(t)
    <2>1. \A d \in Databases, c \in Collections : views'[d][c] \in {views[d][c], viewInfoCache[d][c], UserView}
      BY <1>16 DEF CreateView
    <2>2. UNCHANGED <<version, viewInfoCache, cur, coll, seen>> /\ \A u \in Threads : pc'[u] = "store" => pc[u] = "store"
      BY <1>16 DEF CreateView
    <2> HIDE DEF NoneOlder, Versions, InferredVersions, NoView, UserView
    <2> QED
      BY <2>1, <2>2, NoneOlderFrame
  <1> QED
    BY <1>1, <1>2, <1>3, <1>4, <1>5, <1>6, <1>7, <1>8, <1>9, <1>10, <1>11, <1>12, <1>13, <1>14, <1>15, <1>16 DEF SchemaEntryStep

LEMMA NoneOlderCatalog ==
  ASSUME TypeOK, NEW least \in Versions, NoneOlder(least), NEW t \in Threads, CatalogStep(t)
  PROVE  NoneOlder(least)'
  <1>0. FreshTypes
    BY FreshTypesHold
  <1> USE <1>0 DEF FreshTypes, ViewTypes, LockTypes, PcFunctions, Goto, NoneOlder, Versions, InferredVersions, NoView, UserView, InGenerator
  <1>1. CASE Return(t)
    BY <1>1 DEF Return
  <1>2. CASE LookupSchema(t)
    BY <1>2 DEF LookupSchema
  <1>3. CASE ScanSchemas(t)
    BY <1>3 DEF ScanSchemas, LeaveScanSchemas, AfterScanSchemas
  <1>4. CASE CreateSchema(t)
    BY <1>4 DEF CreateSchema
  <1>5. CASE InstallGenerator(t)
    BY <1>5 DEF InstallGenerator, LeaveScanSchemas, AfterScanSchemas, SetDefaultGenerator
  <1>6. CASE ListDatabases(t)
    BY <1>6 DEF ListDatabases, LeaveScanSchemas, AfterScanSchemas, Fail, EntryReturns
  <1>7. CASE FindSchema(t)
    BY <1>7, ZenonT(30) DEF FindSchema, EnterSchema
  <1>8. CASE FindSchemaAgain(t)
    BY <1>8, ZenonT(30) DEF FindSchemaAgain, EnterSchema, Fail
  <1>9. CASE CreateSchemaOnDemand(t)
    BY <1>9 DEF CreateSchemaOnDemand
  <1>10. CASE InstallGeneratorOnDemand(t)
    BY <1>10 DEF InstallGeneratorOnDemand, EnterSchema, SetDefaultGenerator
  <1>11. CASE ClearViewInfoCache(t)
    BY <1>11 DEF ClearViewInfoCache
  <1>12. CASE ClearSchemas(t)
    BY <1>12 DEF ClearSchemas
  <1>13. CASE ClearNext(t)
    BY <1>13 DEF ClearNext
  <1>14. CASE InvalidateTakesEntryLock(t)
    BY <1>14 DEF InvalidateTakesEntryLock
  <1>15. CASE InvalidateResets(t)
    BY <1>15 DEF InvalidateResets, InvalidateCache
  <1>16. CASE LookupFunction(t)
    BY <1>16 DEF LookupFunction
  <1> QED
    BY <1>1, <1>2, <1>3, <1>4, <1>5, <1>6, <1>7, <1>8, <1>9, <1>10, <1>11, <1>12, <1>13, <1>14, <1>15, <1>16 DEF CatalogStep

LEMMA InSchemasStep == TypeOK /\ ViewsInSchemas /\ [Next]_vars => ViewsInSchemas'
  <1> SUFFICES ASSUME TypeOK, ViewsInSchemas, [Next]_vars PROVE ViewsInSchemas'
    OBVIOUS
  <1>1. ASSUME NEW t \in Threads, Begin(t) PROVE ViewsInSchemas'
    <2>1. PICK o \in Operations, d \in Databases, c \in Collections :
             /\ Goto(t, "idle", FirstPc(o))
             /\ op' = [op EXCEPT ![t] = o]
             /\ wanted' = [wanted EXCEPT ![t] = d]
             /\ UNCHANGED <<cur, views, schemas, visited, made, nested>>
      BY <1>1 DEF Begin
    <2>2. FirstPc(o) \in {"lookup_schema", "scan_schemas", "clear_infos"} /\ (o = "clear" <=> FirstPc(o) = "clear_infos")
      BY DEF FirstPc
    <2>3. InSchema(t)'
      <3>1. pc'[t] = FirstPc(o) /\ op'[t] = o /\ ~visited'[t]
        BY <2>1 DEF TypeOK, Goto, ViewsInSchemas, InSchema
      <3> QED
        BY <2>1, <2>2, <3>1 DEF InSchema, ClearPcs, SchemaEntryPcs, Nested, Goto, ViewsInSchemas,
           NestedScope, NestedPcs
    <2>4. ASSUME NEW u \in Threads \ {t} PROVE InSchema(u)'
      <3>1. pc'[u] = pc[u] /\ op'[u] = op[u] /\ wanted'[u] = wanted[u]
        BY <2>1 DEF TypeOK, Goto
      <3> QED
        BY <2>1, <3>1 DEF ViewsInSchemas, InSchema, Sought, Nested
    <2>5. NestedScope'
      BY <2>1, <2>4 DEF ViewsInSchemas, NestedScope, NestedPcs, Nested, Goto, TypeOK
    <2> QED
      BY <2>1, <2>3, <2>4, <2>5 DEF ViewsInSchemas
  <1>2. CASE Environment
    BY <1>2 DEF Environment, MongoChange, ViewsInSchemas, InSchema, NestedScope, Nested, Sought
  <1>3. CASE UNCHANGED vars
    BY <1>3 DEF vars, schemaEntryVars, ViewsInSchemas, InSchema, NestedScope, Nested, Sought
  <1> QED
    BY <1>1, <1>2, <1>3, InSchemasEntry, InSchemasCatalog DEF Next, Step

LEMMA InSchemasInit == Init => ViewsInSchemas
  BY DEF Init, ViewsInSchemas, InSchema, NestedScope, Nested, ClearPcs, SchemaEntryPcs

-----------------------------------------------------------------------------
(* Versions only grow, and a thread moves only itself.                       *)

LEMMA VersionsGrow ==
  ASSUME TypeOK, [Next]_vars
  PROVE  \A d \in Databases, c \in Collections : version[d][c] <= version'[d][c]
  <1>0. version \in [Databases -> [Collections -> Nat]]
    BY DEF TypeOK, InferredVersions
  <1>1. ASSUME NEW t \in Threads, Begin(t) \/ Step(t) PROVE UNCHANGED version
    <2>1. CASE Begin(t)
      BY <2>1 DEF Begin
    <2>2. CASE CatalogStep(t)
      BY <2>2 DEF CatalogStep, Return, LookupSchema, ScanSchemas, CreateSchema, InstallGenerator,
           ListDatabases, LookupFunction, LeaveScanSchemas, FindSchema, FindSchemaAgain, CreateSchemaOnDemand, InstallGeneratorOnDemand,
           ClearViewInfoCache, ClearSchemas, ClearNext, InvalidateTakesEntryLock, InvalidateResets
    <2>3. CASE SchemaEntryStep(t)
      BY <2>3 DEF SchemaEntryStep, TryLoadEntries, LoadUnderLock, EnsureCollectionsLoaded,
           MarkCollectionsLoaded, ListCollectionNames, UseFreedGenerator, PublishEntries, FindEntry,
           CreateDefaultEntry, InferViewInfo, StoreViewInfo, ScanReset, ScanViews, ScanNext, DropEntry,
           CreateView
    <2> QED
      BY <1>1, <2>1, <2>2, <2>3 DEF Step
  <1>2. CASE Environment
    BY <1>0, <1>2 DEF Environment, MongoChange
  <1>3. CASE UNCHANGED vars
    BY <1>0, <1>3 DEF vars, schemaEntryVars
  <1> QED
    BY <1>0, <1>1, <1>2, <1>3 DEF Next

LEMMA MovesItself ==
  ASSUME TypeOK, NEW t \in Threads, Begin(t) \/ Step(t)
  PROVE  \A u \in Threads \ {t} : pc'[u] = pc[u]
  <1>0. pc = [u \in Threads |-> pc[u]]
    BY DEF TypeOK
  <1>1. CASE Begin(t)
    BY <1>0, <1>1 DEF Begin, Goto
  <1>2. CASE CatalogStep(t)
    BY <1>0, <1>2 DEF CatalogStep, Return, LookupSchema, ScanSchemas, CreateSchema, InstallGenerator,
         ListDatabases, LookupFunction, LeaveScanSchemas, FindSchema, FindSchemaAgain, CreateSchemaOnDemand, InstallGeneratorOnDemand,
         ClearViewInfoCache, ClearSchemas, ClearNext, InvalidateTakesEntryLock, InvalidateResets,
         Goto, EnterSchema, Fail, EntryReturns
  <1>3. CASE SchemaEntryStep(t)
    BY <1>0, <1>3 DEF SchemaEntryStep, TryLoadEntries, LoadUnderLock, EnsureCollectionsLoaded,
         MarkCollectionsLoaded, ListCollectionNames, UseFreedGenerator, PublishEntries, FindEntry,
         CreateDefaultEntry, InferViewInfo, StoreViewInfo, ScanReset, ScanViews, ScanNext, DropEntry,
         CreateView, Goto, EntryReturns
  <1> QED
    BY <1>1, <1>2, <1>3 DEF Step

(* An idle thread can only begin, and a thread that clears runs ClearCache.  *)
LEMMA StepsFrom ==
  ASSUME NEW t \in Threads, Step(t)
  PROVE  /\ pc[t] # "idle"
         /\ pc[t] \in ClearPcs =>
               \/ ClearViewInfoCache(t) \/ ClearSchemas(t) \/ ClearNext(t)
               \/ InvalidateTakesEntryLock(t) \/ InvalidateResets(t)
  <1>1. CASE CatalogStep(t)
    BY <1>1 DEF CatalogStep, Return, LookupSchema, ScanSchemas, CreateSchema, InstallGenerator,
         ListDatabases, LookupFunction, LeaveScanSchemas, FindSchema, FindSchemaAgain, CreateSchemaOnDemand, InstallGeneratorOnDemand,
         ClearViewInfoCache, ClearSchemas, ClearNext, InvalidateTakesEntryLock, InvalidateResets,
         Goto, EnterSchema, Fail, EntryReturns, ClearPcs
  <1>2. CASE SchemaEntryStep(t)
    BY <1>2 DEF SchemaEntryStep, TryLoadEntries, LoadUnderLock, EnsureCollectionsLoaded,
         MarkCollectionsLoaded, ListCollectionNames, UseFreedGenerator, PublishEntries, FindEntry,
         CreateDefaultEntry, InferViewInfo, StoreViewInfo, ScanReset, ScanViews, ScanNext, DropEntry,
         CreateView, Goto, EntryReturns, InGenerator, ClearPcs
  <1> QED
    BY <1>1, <1>2 DEF Step

LEMMA NoneOlderStep ==
  ASSUME TypeOK, NEW least \in Versions, NoneOlder(least), [Next]_vars
  PROVE  NoneOlder(least)'
  <1>1. ASSUME NEW t \in Threads, Begin(t) PROVE NoneOlder(least)'
    <2>1. PICK o \in Operations, c \in Collections :
             /\ Goto(t, "idle", FirstPc(o))
             /\ coll' = [coll EXCEPT ![t] = c]
             /\ UNCHANGED <<version, viewInfoCache, views, cur, seen>>
      BY <1>1 DEF Begin
    <2>2. FirstPc(o) # "store"
      BY DEF FirstPc
    <2>3. \A u \in Threads : pc'[u] = "store" => pc[u] = "store" /\ coll'[u] = coll[u]
      BY <2>1, <2>2 DEF TypeOK, Goto
    <2> QED
      BY <2>1, <2>3 DEF NoneOlder
  <1>2. CASE Environment
    <2>1. UNCHANGED <<viewInfoCache, views, pc, cur, coll, seen>>
      BY <1>2 DEF Environment, MongoChange
    <2>2. \A d \in Databases, c \in Collections : least[d][c] <= version'[d][c]
      <3>1. version' \in [Databases -> [Collections -> Nat]] /\ version \in [Databases -> [Collections -> Nat]]
        BY TypeStep DEF TypeOK, InferredVersions
      <3>2. least \in [Databases -> [Collections -> Nat]]
        BY DEF Versions, InferredVersions
      <3> QED
        BY VersionsGrow, <3>1, <3>2 DEF NoneOlder
    <2> QED
      BY <2>1, <2>2 DEF NoneOlder
  <1>3. CASE UNCHANGED vars
    BY <1>3 DEF vars, schemaEntryVars, NoneOlder
  <1> QED
    BY <1>1, <1>2, <1>3, NoneOlderEntry, NoneOlderCatalog DEF Next, Step

-----------------------------------------------------------------------------
(* The history.                                                             *)

LEMMA HistoryInit == FreshnessInit => HistoryInv
  <1> SUFFICES ASSUME FreshnessInit PROVE HistoryInv
    OBVIOUS
  <1> USE DEF FreshnessInit, FirstVersions, Versions, InferredVersions
  <1>1. FirstVersions \in Versions
    OBVIOUS
  <1>2. version = FirstVersions
    BY DEF Init
  <1>3. NoneOlder(FirstVersions)
    BY DEF NoneOlder, Init, NoView
  <1> QED
    BY <1>1, <1>2, <1>3 DEF HistoryInv

(* What began, and what a call began with, stays below what MongoDB holds.   *)
LEMMA BeforeStep ==
  ASSUME TypeOK, TypeOK', HistoryInv, [Next]_vars, History
  PROVE  /\ before' \in [Threads -> Versions]
         /\ \A t \in Threads, d \in Databases, c \in Collections : before'[t][d][c] <= version'[d][c]
  <1>1. /\ version \in Versions /\ version' \in Versions /\ FirstVersions \in Versions
        /\ before \in [Threads -> Versions]
    BY DEF TypeOK, Versions, HistoryInv, FirstVersions, InferredVersions
  <1>2. ASSUME NEW t \in Threads
        PROVE  \/ before'[t] = version
               \/ before'[t] = FirstVersions
               \/ before'[t] = before[t]
    BY DEF History
  <1>3. ASSUME NEW t \in Threads PROVE before'[t] \in Versions
    BY <1>1, <1>2
  <1>4. before' \in [Threads -> Versions]
    BY <1>3 DEF History
  <1>5. ASSUME NEW t \in Threads, NEW d \in Databases, NEW c \in Collections
        PROVE  before'[t][d][c] <= version'[d][c]
    <2>1. version[d][c] <= version'[d][c] /\ version'[d][c] \in InferredVersions /\ version[d][c] \in InferredVersions
      BY <1>1, VersionsGrow DEF Versions
    <2>2. before[t][d][c] <= version[d][c] /\ before[t][d][c] \in InferredVersions
      BY <1>1 DEF Versions, HistoryInv
    <2>3. FirstVersions[d][c] <= version'[d][c]
      BY <2>1 DEF FirstVersions, InferredVersions
    <2> QED
      BY <1>2, <2>1, <2>2, <2>3 DEF InferredVersions
  <1> QED
    BY <1>4, <1>5

(* A call that goes on alone clears a little more.                           *)
LEMMA ClearsAlone ==
  ASSUME TypeOK, ViewsInSchemas, NEW t \in Threads, ClearingAlone(t), Step(t), pc'[t] # "idle"
  PROVE  ClearingAlone(t)'
  <1>1. \A u \in Threads \ {t} : pc'[u] = "idle"
    BY MovesItself DEF ClearingAlone
  <1>2. op[t] = "clear" /\ pc[t] \in ClearPcs \union {"returned"}
    BY DEF ClearingAlone, ViewsInSchemas, InSchema
  <1>3. pc[t] # "returned"
    <2>1. CASE CatalogStep(t)
      BY <2>1 DEF CatalogStep, Return, LookupSchema, ScanSchemas, CreateSchema, InstallGenerator,
           ListDatabases, LookupFunction, LeaveScanSchemas, FindSchema, FindSchemaAgain, CreateSchemaOnDemand, InstallGeneratorOnDemand,
           ClearViewInfoCache, ClearSchemas, ClearNext, InvalidateTakesEntryLock, InvalidateResets,
           Goto, EnterSchema, Fail, EntryReturns, TypeOK
    <2>2. CASE SchemaEntryStep(t)
      BY <2>2 DEF SchemaEntryStep, TryLoadEntries, LoadUnderLock, EnsureCollectionsLoaded,
           MarkCollectionsLoaded, ListCollectionNames, UseFreedGenerator, PublishEntries, FindEntry,
           CreateDefaultEntry, InferViewInfo, StoreViewInfo, ScanReset, ScanViews, ScanNext, DropEntry,
           CreateView, Goto, EntryReturns, InGenerator
    <2> QED
      BY <2>1, <2>2 DEF Step
  <1> USE <1>1, <1>2 DEF ClearingAlone, ClearPcs, Goto
  <1>4. CASE ClearViewInfoCache(t)
    BY <1>4 DEF ClearViewInfoCache, TypeOK
  <1>5. CASE ClearSchemas(t)
    <2>1. pc'[t] = "clear_next" /\ op' = op /\ pendingSchemas'[t] = schemas /\ UNCHANGED <<views, viewInfoCache>>
      BY <1>5 DEF ClearSchemas, TypeOK
    <2>2. \A d \in Databases, c \in Collections : viewInfoCache[d][c] = NoView
      BY <1>5 DEF ClearSchemas
    <2>3. \A d \in Databases : d \in schemas \/ \A c \in Collections : views[d][c] = NoView
      BY DEF ViewsInSchemas
    <2> QED
      BY <2>1, <2>2, <2>3
  <1>6. CASE ClearNext(t)
    <2>1. /\ pc[t] = "clear_next" /\ op' = op /\ UNCHANGED <<views, viewInfoCache>>
          /\ \/ pc'[t] = "returned"
             \/ \E d \in pendingSchemas[t] : /\ pc'[t] = "clear_entry" /\ cur'[t] = d
                                             /\ pendingSchemas'[t] = pendingSchemas[t] \ {d}
      BY <1>6 DEF ClearNext, TypeOK
    <2> QED
      BY <2>1
  <1>7. CASE InvalidateTakesEntryLock(t)
    BY <1>7 DEF InvalidateTakesEntryLock, TypeOK
  <1>8. CASE InvalidateResets(t)
    <2>1. /\ pc[t] = "clear_load" /\ pc'[t] = "clear_next" /\ UNCHANGED <<op, viewInfoCache, pendingSchemas>>
          /\ \A d \in Databases, c \in Collections :
                views'[d][c] = IF d = cur[t] THEN NoView ELSE views[d][c]
      BY <1>8 DEF InvalidateResets, InvalidateCache, TypeOK
    <2> QED
      BY <2>1
  <1> QED
    BY <1>2, <1>3, <1>4, <1>5, <1>6, <1>7, <1>8, StepsFrom

LEMMA AloneStep ==
  ASSUME TypeOK, ViewsInSchemas, ViewsInSchemas', HistoryInv, [Next]_vars, History,
         NEW t \in Threads, alone'[t]
  PROVE  ClearingAlone(t)'
  <1>1. CASE Begins(t)
    <2>1. op'[t] = "clear" /\ (\A u \in Threads : pc[u] = "idle") /\ pc'[t] # pc[t]
      BY <1>1 DEF History, Begins
    <2>2. ASSUME NEW u \in Threads, Begin(u) \/ Step(u) PROVE u = t /\ Begin(t)
      BY <2>1, <2>2, MovesItself, StepsFrom
    <2>3. Begin(t)
      BY <2>1, <2>2 DEF Next, Environment, MongoChange, vars, schemaEntryVars
    <2>4. \A u \in Threads \ {t} : pc'[u] = "idle"
      BY <2>1, <2>3, MovesItself
    <2>5. pc'[t] = "clear_infos"
      <3>1. PICK o \in Operations : Goto(t, "idle", FirstPc(o)) /\ op' = [op EXCEPT ![t] = o]
        BY <2>3 DEF Begin
      <3>2. o = "clear"
        BY <2>1, <3>1 DEF TypeOK
      <3> QED
        BY <3>1, <3>2 DEF TypeOK, Goto, FirstPc
    <2> QED
      BY <2>1, <2>4, <2>5 DEF ClearingAlone
  <1>2. CASE ~Begins(t)
    <2>1. alone[t] /\ pc'[t] # "idle" /\ \A u \in Threads : ~Begins(u)
      BY <1>2 DEF History
    <2>2. ClearingAlone(t)
      BY <2>1 DEF HistoryInv
    <2>3. ASSUME NEW u \in Threads, Begin(u) PROVE FALSE
      <3>1. pc[u] = "idle" /\ pc'[u] # "idle"
        BY <2>3 DEF Begin, Goto, FirstPc, TypeOK
      <3> QED
        BY <2>1, <3>1 DEF Begins
    <2>4. ASSUME NEW u \in Threads, Step(u) PROVE ClearingAlone(t)'
      <3>1. u = t
        BY <2>2, <2>4, StepsFrom DEF ClearingAlone
      <3> QED
        BY <2>1, <2>2, <2>4, <3>1, ClearsAlone
    <2>5. CASE UNCHANGED <<pc, op, cur, pendingSchemas, viewInfoCache, views>>
      BY <2>2, <2>5 DEF ClearingAlone
    <2> QED
      BY <2>3, <2>4, <2>5 DEF Next, Environment, MongoChange, vars, schemaEntryVars
  <1> QED
    BY <1>1, <1>2

LEMMA FloorStep ==
  ASSUME TypeOK, ViewsInSchemas, HistoryInv, [Next]_vars, History
  PROVE  floor'.alone \in Versions /\ NoneOlder(floor.alone)'
  <1>1. CASE \E t \in Threads : Cleared(t) /\ alone[t]
    <2>1. PICK t \in Threads : Cleared(t) /\ alone[t]
      BY <1>1
    <2>2. ClearingAlone(t)
      BY <2>1 DEF HistoryInv
    <2>3. \A u \in Threads : Cleared(u) => u = t
      BY <2>2 DEF Cleared, Clearing, ClearingAlone
    <2>4. (CHOOSE u \in Threads : Cleared(u)) = t
      BY <2>1, <2>3
    <2>5. floor'.alone = before[t]
      BY <2>1, <2>4 DEF History
    <2>6. pc[t] = "clear_next" /\ pc'[t] = "returned"
      BY <2>1 DEF Cleared
    <2>7. ClearNext(t)
      <3>1. ASSUME NEW u \in Threads, Begin(u) \/ Step(u) PROVE u = t /\ Step(t)
        BY <2>6, <3>1, MovesItself DEF Begin, Goto
      <3>2. Step(t)
        BY <2>6, <3>1 DEF Next, Environment, MongoChange, vars, schemaEntryVars
      <3> QED
        BY <2>6, <3>2, StepsFrom DEF ClearPcs, ClearViewInfoCache, ClearSchemas,
             InvalidateTakesEntryLock, InvalidateResets, Goto
    <2>8. pendingSchemas[t] = {} /\ UNCHANGED <<version, views, viewInfoCache>>
      BY <2>6, <2>7 DEF ClearNext, Goto, TypeOK
    <2>9. \A d \in Databases, c \in Collections : views[d][c] = NoView /\ viewInfoCache[d][c] = NoView
      BY <2>2, <2>6, <2>8 DEF ClearingAlone, ClearPcs
    <2>10. \A u \in Threads : pc'[u] # "store"
      BY <2>2, <2>6, <2>7, MovesItself DEF ClearingAlone, Step, CatalogStep
    <2>11. PICK least \in Versions : least = before[t]
      BY DEF HistoryInv
    <2>12. \A d \in Databases, c \in Collections : least[d][c] <= version[d][c]
      BY <2>11 DEF HistoryInv
    <2>13. NoneOlder(least)'
      BY <2>8, <2>9, <2>10, <2>12 DEF NoneOlder, NoView, InferredVersions
    <2> QED
      BY <2>5, <2>11, <2>13 DEF NoneOlder
  <1>2. CASE ~\E t \in Threads : Cleared(t) /\ alone[t]
    <2>1. floor'.alone = floor.alone
      BY <1>2 DEF History
    <2>2. NoneOlder(floor.alone) /\ floor.alone \in Versions
      BY DEF HistoryInv
    <2>3. PICK least \in Versions : least = floor.alone
      BY <2>2
    <2>4. NoneOlder(least)'
      BY <2>2, <2>3, NoneOlderStep
    <2> QED
      BY <2>1, <2>3, <2>4 DEF NoneOlder
  <1> QED
    BY <1>1, <1>2

LEMMA HistoryStep ==
  TypeOK /\ ViewsInSchemas /\ HistoryInv /\ [FreshnessNext]_freshnessVars => HistoryInv'
  <1> SUFFICES ASSUME TypeOK, ViewsInSchemas, HistoryInv, [FreshnessNext]_freshnessVars
               PROVE  HistoryInv'
    OBVIOUS
  <1>1. CASE FreshnessNext
    <2>1. [Next]_vars /\ History
      BY <1>1 DEF FreshnessNext
    <2>2. TypeOK' /\ ViewsInSchemas'
      BY <2>1, TypeStep, InSchemasStep
    <2>3. alone' \in [Threads -> BOOLEAN]
      BY <2>1 DEF History, HistoryInv
    <2>4. \A t \in Threads : alone'[t] => ClearingAlone(t)'
      BY <2>1, <2>2, AloneStep
    <2>5. NoneOlder(floor.alone)' /\ floor'.alone \in Versions
      BY <2>1, FloorStep
    <2> QED
      BY <2>1, <2>2, <2>3, <2>4, <2>5, BeforeStep DEF HistoryInv
  <1>2. CASE UNCHANGED freshnessVars
    BY <1>2 DEF freshnessVars, historyVars, vars, schemaEntryVars, HistoryInv, ClearingAlone, NoneOlder
  <1> QED
    BY <1>1, <1>2

(* After a mongo_clear_cache that met no other catalog operation, no query   *)
(* is answered from a view older than what MongoDB held when the call began. *)
THEOREM ClearAloneIsFresh == FreshnessSpec => []ClearAloneRefreshes
  <1>1. FreshnessInit => TypeOK /\ ViewsInSchemas /\ HistoryInv
    BY TypeInit, InSchemasInit, HistoryInit DEF FreshnessInit
  <1>2. [FreshnessNext]_freshnessVars => [Next]_vars
    BY DEF FreshnessNext, freshnessVars
  <1>3. TypeOK /\ ViewsInSchemas /\ HistoryInv /\ [FreshnessNext]_freshnessVars
        => TypeOK' /\ ViewsInSchemas' /\ HistoryInv'
    BY <1>2, TypeStep, InSchemasStep, HistoryStep
  <1>4. TypeOK /\ ViewsInSchemas /\ HistoryInv => ClearAloneRefreshes
    BY DEF HistoryInv, NoneOlder, ClearAloneRefreshes, NextQueryFinds
  <1> QED
    BY <1>1, <1>3, <1>4, PTL DEF FreshnessSpec

=============================================================================
