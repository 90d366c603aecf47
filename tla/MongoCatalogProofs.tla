------------------------- MODULE MongoCatalogProofs -------------------------
(***************************************************************************)
(* Proofs about MongoCatalog.tla: types, the mutexes and what rests on     *)
(* them, and the map of schemas while threads fill it and search it, for   *)
(* any number of threads, databases, collections and schema versions.      *)
(***************************************************************************)
EXTENDS MongoCatalog, TLAPS

USE SchemaEntryAssumption, CatalogAssumption

(* The tuples of variables that actions leave alone.                         *)
USE DEF mongo, entryVars, locks, locals, catalogVars

-----------------------------------------------------------------------------
(* What the helpers do to the types.                                         *)

PcFunctions == [Threads -> Pcs]
Owners == [Databases -> Threads \union {NoThread}]

LEMMA GotoType ==
  ASSUME pc \in PcFunctions, NEW t \in Threads, NEW from, NEW to \in Pcs,
         Goto(t, from, to)
  PROVE  pc' \in PcFunctions
  BY DEF Goto, PcFunctions

LEMMA TakeType ==
  ASSUME NEW lock \in Owners, NEW d \in Databases, NEW t \in Threads
  PROVE  Take(lock, d, t) \in Owners
  BY DEF Take, Owners

LEMMA ReleaseType ==
  ASSUME NEW lock \in Owners, NEW d \in Databases
  PROVE  Release(lock, d) \in Owners
  BY DEF Release, Owners

LEMMA GeneratorTypes ==
  /\ NoGenerator \in Generators
  /\ FreshGenerator \in Generators
  /\ \A g \in Generators : g.present \in BOOLEAN /\ g.loaded \in BOOLEAN
                           /\ g.names \in SUBSET Collections
  /\ \A g \in Generators : [g EXCEPT !.loaded = TRUE] \in Generators
  /\ \A g \in Generators, C \in SUBSET Collections :
        [g EXCEPT !.names = @ \union C] \in Generators
  BY DEF Generators, NoGenerator, FreshGenerator

LEMMA EntryReturnsType ==
  ASSUME TypeOK, NEW t \in Threads, NEW from, NEW result \in Outcomes,
         EntryReturns(t, from, result)
  PROVE  pc' \in PcFunctions /\ outcome' \in [Threads -> Outcomes]
  <1>1. {"scan_next", "drop_entry", "returned"} \subseteq Pcs
    BY DEF Pcs, SchemaEntryPcs
  <1>2. pc' \in PcFunctions
    BY <1>1, GotoType DEF EntryReturns, TypeOK, PcFunctions
  <1>3. outcome' \in [Threads -> Outcomes]
    BY DEF EntryReturns, TypeOK
  <1> QED
    BY <1>2, <1>3

LEMMA AfterLoadType ==
  ASSUME NEW t \in Threads
  PROVE  AfterLoad(t) \in Pcs /\ AfterEnsure(t) \in Pcs
  BY DEF AfterLoad, AfterEnsure, Pcs, SchemaEntryPcs

LEMMA HandBackType ==
  ASSUME got \in [Threads -> SUBSET Collections], NEW t \in Threads,
         NEW names \in SUBSET Collections, HandBack(t, names)
  PROVE  got' \in [Threads -> SUBSET Collections]
  BY DEF HandBack

LEMMA AfterScanSchemasType ==
  ASSUME NEW t \in Threads, NEW calledBack
  PROVE  AfterScanSchemas(t, calledBack) \in Pcs
  BY DEF AfterScanSchemas, Pcs, SchemaEntryPcs, CatalogPcs

LEMMA LeaveScanSchemasType ==
  ASSUME TypeOK, NEW t \in Threads, NEW from, NEW calledBack,
         LeaveScanSchemas(t, from, calledBack)
  PROVE  /\ pc' \in PcFunctions
         /\ cur' \in [Threads -> Databases] /\ made' \in [Threads -> Databases]
  <1>1. pc' \in PcFunctions
    BY GotoType, AfterScanSchemasType DEF LeaveScanSchemas, TypeOK, PcFunctions
  <1>2. SomeDatabase \in Databases
    BY DEF SomeDatabase
  <1> QED
    BY <1>1, <1>2 DEF LeaveScanSchemas, TypeOK

LEMMA SoughtType ==
  ASSUME TypeOK, NEW t \in Threads
  PROVE  Sought(t) \in Databases
  BY DEF TypeOK, Sought, Nested

LEMMA EnterSchemaType ==
  ASSUME TypeOK, NEW t \in Threads, NEW from, NEW d \in Databases,
         EnterSchema(t, from, d)
  PROVE  /\ pc' \in PcFunctions /\ cur' \in [Threads -> Databases]
         /\ nested' \in [Threads -> Databases \union {NoDatabase}]
  <1>1. {"create_view", "try_load", "bind"} \subseteq Pcs
    BY DEF Pcs, SchemaEntryPcs
  <1>2. pc' \in PcFunctions
    BY <1>1, GotoType DEF EnterSchema, TypeOK, PcFunctions
  <1> QED
    BY <1>2 DEF EnterSchema, TypeOK

LEMMA SetDefaultGeneratorType ==
  ASSUME TypeOK, NEW d \in Databases, SetDefaultGenerator(d)
  PROVE  generator' \in [Databases -> Generators] /\ dangling' \subseteq Threads
  BY GeneratorTypes DEF SetDefaultGenerator, TypeOK

LEMMA FailType ==
  ASSUME TypeOK, NEW t \in Threads, NEW from, NEW result \in Outcomes,
         Fail(t, from, result)
  PROVE  pc' \in PcFunctions /\ outcome' \in [Threads -> Outcomes]
  <1>1. "returned" \in Pcs
    BY DEF Pcs, SchemaEntryPcs
  <1>2. pc' \in PcFunctions
    BY <1>1, GotoType DEF Fail, TypeOK, PcFunctions
  <1> QED
    BY <1>2 DEF Fail, TypeOK

-----------------------------------------------------------------------------
(* Type correctness.                                                         *)

LEMMA TypeInit == Init => TypeOK
  <1> SUFFICES ASSUME Init PROVE TypeOK
    OBVIOUS
  <1>1. SomeDatabase \in Databases /\ SomeCollection \in Collections
    BY DEF SomeDatabase, SomeCollection
  <1>2. "idle" \in Pcs /\ "lookup" \in OperationNames /\ "none" \in Outcomes
    BY DEF Pcs, CatalogPcs, OperationNames, Outcomes
  <1>3. 1 \in InferredVersions
    BY DEF InferredVersions
  <1>4. /\ existing \in [Databases -> SUBSET Collections]
        /\ version \in [Databases -> [Collections -> InferredVersions]]
        /\ viewInfoCache \in [Databases -> [Collections -> InferredVersions \union {NoView}]]
        /\ views \in [Databases -> [Collections -> InferredVersions \union {NoView, UserView}]]
    BY <1>3 DEF Init
  <1>5. /\ generator \in [Databases -> Generators]
        /\ isLoaded \in [Databases -> BOOLEAN]
        /\ loadedNames \in [Databases -> SUBSET Collections]
        /\ entryLock \in [Databases -> Threads \union {NoThread}]
        /\ loadLock \in [Databases -> Threads \union {NoThread}]
        /\ dangling \subseteq Threads
    BY GeneratorTypes DEF Init
  <1>6. /\ pc \in [Threads -> Pcs]
        /\ op \in [Threads -> OperationNames]
        /\ cur \in [Threads -> Databases]
        /\ coll \in [Threads -> Collections]
        /\ pendingColls \in [Threads -> SUBSET Collections]
        /\ got \in [Threads -> SUBSET Collections]
        /\ seen \in [Threads -> InferredVersions \union {NoView}]
        /\ outcome \in [Threads -> Outcomes]
    BY <1>1, <1>2 DEF Init
  <1>7. /\ schemas \subseteq Databases
        /\ schemasScanned \in BOOLEAN
        /\ schemasLock \in Threads \union {NoThread}
        /\ wanted \in [Threads -> Databases]
        /\ pendingSchemas \in [Threads -> SUBSET Databases]
        /\ made \in [Threads -> Databases]
        /\ visited \in [Threads -> BOOLEAN]
        /\ nested \in [Threads -> Databases \union {NoDatabase}]
    BY <1>1 DEF Init
  <1> QED
    BY <1>4, <1>5, <1>6, <1>7 DEF TypeOK

LEMMA TypeSchemaEntry ==
  ASSUME TypeOK, NEW t \in Threads, SchemaEntryStep(t), UNCHANGED catalogVars
  PROVE  TypeOK'
  <1>0. /\ pc \in PcFunctions /\ cur[t] \in Databases /\ coll[t] \in Collections
        /\ entryLock \in Owners /\ loadLock \in Owners
        /\ {"load", "ensure", "mark", "fetch", "infer", "store", "scan_next", "try_load",
            "entry", "returned"} \subseteq Pcs
        /\ {"found", "not_found", "error", "done"} \subseteq Outcomes
    BY DEF TypeOK, PcFunctions, Owners, Pcs, SchemaEntryPcs, Outcomes
  <1> USE <1>0
  <1>1. CASE TryLoadEntries(t)
    <2>1. pc' \in PcFunctions
      BY <1>1, GotoType, AfterLoadType DEF TryLoadEntries
    <2> QED
      BY <1>1, <2>1 DEF TryLoadEntries, TypeOK, PcFunctions
  <1>2. CASE LoadUnderLock(t)
    <2>1. pc' \in PcFunctions
      BY <1>2, GotoType, AfterLoadType DEF LoadUnderLock
    <2>2. loadLock' \in Owners
      BY <1>2, TakeType DEF LoadUnderLock
    <2> QED
      BY <1>2, <2>1, <2>2 DEF LoadUnderLock, TypeOK, PcFunctions, Owners
  <1>3. CASE EnsureCollectionsLoaded(t)
    <2>1. pc' \in PcFunctions
      BY <1>3, GotoType, AfterLoadType DEF EnsureCollectionsLoaded
    <2>2. got' \in [Threads -> SUBSET Collections]
      BY <1>3, HandBackType, GeneratorTypes DEF EnsureCollectionsLoaded, TypeOK
    <2> QED
      BY <1>3, <2>1, <2>2 DEF EnsureCollectionsLoaded, TypeOK, PcFunctions
  <1>4. CASE MarkCollectionsLoaded(t)
    <2>1. pc' \in PcFunctions
      BY <1>4, GotoType DEF MarkCollectionsLoaded
    <2>2. generator' \in [Databases -> Generators]
      BY <1>4, GeneratorTypes DEF MarkCollectionsLoaded, TypeOK
    <2> QED
      BY <1>4, <2>1, <2>2 DEF MarkCollectionsLoaded, TypeOK, PcFunctions
  <1>5. CASE ListCollectionNames(t)
    <2>1. pc' \in PcFunctions
      BY <1>5, GotoType, AfterLoadType DEF ListCollectionNames
    <2> DEFINE d == cur[t]
    <2>4. generator \in [Databases -> Generators] /\ existing[d] \in SUBSET Collections
      BY DEF TypeOK
    <2>2. generator' \in [Databases -> Generators]
      <3>1. CASE generator' = [generator EXCEPT ![d].names = @ \union existing[d]]
        BY <2>4, <3>1, GeneratorTypes
      <3>2. CASE UNCHANGED generator
        BY <2>4, <3>2
      <3> QED
        BY <1>5, <3>1, <3>2 DEF ListCollectionNames
    <2>3. got' \in [Threads -> SUBSET Collections]
      BY <1>5, <2>2, HandBackType, GeneratorTypes DEF ListCollectionNames, TypeOK
    <2> QED
      BY <1>5, <2>1, <2>2, <2>3 DEF ListCollectionNames, TypeOK, PcFunctions
  <1>6. CASE UseFreedGenerator(t)
    <2>1. pc' \in PcFunctions
      BY <1>6, AfterLoadType DEF UseFreedGenerator, PcFunctions
    <2>2. got' \in [Threads -> SUBSET Collections]
      BY <1>6, HandBackType DEF UseFreedGenerator, TypeOK
    <2> QED
      BY <1>6, <2>1, <2>2 DEF UseFreedGenerator, TypeOK, PcFunctions
  <1>7. CASE PublishEntries(t)
    <2>1. pc' \in PcFunctions
      BY <1>7, GotoType, AfterLoadType DEF PublishEntries
    <2>2. loadLock' \in Owners
      BY <1>7, ReleaseType DEF PublishEntries
    <2> QED
      BY <1>7, <2>1, <2>2 DEF PublishEntries, TypeOK, PcFunctions, Owners
  <1>8. CASE FindEntry(t)
    <2>1. pc' \in PcFunctions /\ outcome' \in [Threads -> Outcomes]
      BY <1>8, GotoType, EntryReturnsType DEF FindEntry, TypeOK
    <2>2. entryLock' \in Owners
      BY <1>8, TakeType DEF FindEntry
    <2> QED
      BY <1>8, <2>1, <2>2 DEF FindEntry, TypeOK, PcFunctions, Owners
  <1>9. CASE CreateDefaultEntry(t)
    <2>1. pc' \in PcFunctions /\ outcome' \in [Threads -> Outcomes]
      BY <1>9, GotoType, EntryReturnsType DEF CreateDefaultEntry, TypeOK
    <2>2. entryLock' \in Owners
      BY <1>9, ReleaseType DEF CreateDefaultEntry
    <2>3. views' \in [Databases -> [Collections -> InferredVersions \union {NoView, UserView}]]
      <3>1. /\ viewInfoCache[cur[t]][coll[t]] \in InferredVersions \union {NoView}
            /\ views \in [Databases -> [Collections -> InferredVersions \union {NoView, UserView}]]
        BY DEF TypeOK
      <3> QED
        BY <1>9, <3>1 DEF CreateDefaultEntry
    <2> QED
      BY <1>9, <2>1, <2>2, <2>3 DEF CreateDefaultEntry, TypeOK, PcFunctions, Owners
  <1>10. CASE InferViewInfo(t)
    <2>1. pc' \in PcFunctions /\ outcome' \in [Threads -> Outcomes]
      BY <1>10, GotoType, EntryReturnsType DEF InferViewInfo, TypeOK, PcFunctions
    <2>2. entryLock' \in Owners
      BY <1>10, ReleaseType DEF InferViewInfo
    <2>3. seen' \in [Threads -> InferredVersions \union {NoView}]
      <3>1. /\ version[cur[t]][coll[t]] \in InferredVersions
            /\ seen \in [Threads -> InferredVersions \union {NoView}]
        BY DEF TypeOK
      <3> QED
        BY <1>10, <3>1 DEF InferViewInfo
    <2> QED
      BY <1>10, <2>1, <2>2, <2>3 DEF InferViewInfo, TypeOK, PcFunctions, Owners
  <1>11. CASE StoreViewInfo(t)
    <2>1. pc' \in PcFunctions /\ outcome' \in [Threads -> Outcomes]
      BY <1>11, EntryReturnsType DEF StoreViewInfo
    <2>2. entryLock' \in Owners
      BY <1>11, ReleaseType DEF StoreViewInfo
    <2>3. /\ views' \in [Databases -> [Collections -> InferredVersions \union {NoView, UserView}]]
          /\ viewInfoCache' \in [Databases -> [Collections -> InferredVersions \union {NoView}]]
          /\ seen' \in [Threads -> InferredVersions \union {NoView}]
      BY <1>11 DEF StoreViewInfo, TypeOK
    <2> QED
      BY <1>11, <2>1, <2>2, <2>3 DEF StoreViewInfo, TypeOK, PcFunctions, Owners
  <1>12. CASE ScanReset(t)
    <2>1. pc' \in PcFunctions
      BY <1>12, GotoType DEF ScanReset
    <2> QED
      BY <1>12, <2>1 DEF ScanReset, TypeOK, PcFunctions
  <1>13. CASE ScanViews(t)
    <2>1. pc' \in PcFunctions
      BY <1>13, GotoType DEF ScanViews
    <2>2. views' \in [Databases -> [Collections -> InferredVersions \union {NoView, UserView}]]
      BY <1>13 DEF ScanViews, TypeOK
    <2>3. pendingColls' \in [Threads -> SUBSET Collections]
      BY <1>13 DEF ScanViews, TypeOK
    <2> QED
      BY <1>13, <2>1, <2>2, <2>3 DEF ScanViews, TypeOK, PcFunctions
  <1>14. CASE ScanNext(t)
    <2>1. pc' \in PcFunctions
      BY <1>14, GotoType DEF ScanNext
    <2>2. /\ coll' \in [Threads -> Collections]
          /\ pendingColls' \in [Threads -> SUBSET Collections]
          /\ outcome' \in [Threads -> Outcomes]
      <3>1. /\ coll \in [Threads -> Collections]
            /\ pendingColls \in [Threads -> SUBSET Collections]
            /\ outcome \in [Threads -> Outcomes]
        BY DEF TypeOK
      <3> QED
        BY <1>14, <3>1 DEF ScanNext
    <2> QED
      BY <1>14, <2>1, <2>2 DEF ScanNext, TypeOK, PcFunctions
  <1>15. CASE DropEntry(t)
    <2>1. pc' \in PcFunctions
      BY <1>15, GotoType DEF DropEntry
    <2>2. /\ views' \in [Databases -> [Collections -> InferredVersions \union {NoView, UserView}]]
          /\ outcome' \in [Threads -> Outcomes]
      BY <1>15 DEF DropEntry, TypeOK
    <2> QED
      BY <1>15, <2>1, <2>2 DEF DropEntry, TypeOK, PcFunctions
  <1>16. CASE CreateView(t)
    <2>1. pc' \in PcFunctions
      BY <1>16, GotoType DEF CreateView
    <2>2. /\ views' \in [Databases -> [Collections -> InferredVersions \union {NoView, UserView}]]
          /\ outcome' \in [Threads -> Outcomes]
      BY <1>16 DEF CreateView, TypeOK
    <2> QED
      BY <1>16, <2>1, <2>2 DEF CreateView, TypeOK, PcFunctions
  <1> QED
    BY <1>1, <1>2, <1>3, <1>4, <1>5, <1>6, <1>7, <1>8, <1>9, <1>10, <1>11,
       <1>12, <1>13, <1>14, <1>15, <1>16 DEF SchemaEntryStep

LEMMA TypeCatalog ==
  ASSUME TypeOK, NEW t \in Threads, CatalogStep(t)
  PROVE  TypeOK'
  <1>0. /\ pc \in PcFunctions /\ cur[t] \in Databases /\ coll[t] \in Collections
        /\ wanted[t] \in Databases /\ cur \in [Threads -> Databases]
        /\ made[t] \in Databases /\ made \in [Threads -> Databases]
        /\ entryLock \in Owners /\ loadLock \in Owners
        /\ pendingSchemas \in [Threads -> SUBSET Databases]
        /\ outcome \in [Threads -> Outcomes]
        /\ CatalogPcs \subseteq Pcs /\ SchemaEntryPcs \subseteq Pcs
        /\ {"error", "no_schema", "done", "none"} \subseteq Outcomes
        /\ "lookup" \in OperationNames
        /\ SomeDatabase \in Databases /\ SomeCollection \in Collections
    BY DEF TypeOK, PcFunctions, Owners, Pcs, Outcomes, OperationNames,
           SomeDatabase, SomeCollection
  <1> USE <1>0
  <1>1. CASE Return(t)
    <2>1. pc' \in PcFunctions
      BY <1>1, GotoType DEF Return, CatalogPcs
    <2> QED
      BY <1>1, <2>1 DEF Return, TypeOK, PcFunctions
  <1>2. CASE LookupSchema(t)
    <2>1. pc' \in PcFunctions
      BY <1>2, GotoType DEF LookupSchema, CatalogPcs
    <2> QED
      BY <1>2, <2>1 DEF LookupSchema, TypeOK, PcFunctions
  <1>3. CASE ScanSchemas(t)
    <2>1. /\ pc' \in PcFunctions
          /\ cur' \in [Threads -> Databases] /\ made' \in [Threads -> Databases]
      BY <1>3, GotoType, LeaveScanSchemasType DEF ScanSchemas, CatalogPcs
    <2>2. schemasScanned' \in BOOLEAN
      BY <1>3 DEF ScanSchemas, TypeOK
    <2>3. pendingSchemas' \in [Threads -> SUBSET Databases]
      BY <1>3 DEF ScanSchemas
    <2> QED
      BY <1>3, <2>1, <2>2, <2>3 DEF ScanSchemas, TypeOK, PcFunctions
  <1>4. CASE CreateSchema(t)
    <2>1. pc' \in PcFunctions
      BY <1>4, GotoType DEF CreateSchema, CatalogPcs
    <2>2. PICK d \in pendingSchemas[t] :
             /\ schemas' = schemas \union {d}
             /\ made' = [made EXCEPT ![t] = d]
             /\ pendingSchemas' = [pendingSchemas EXCEPT ![t] = @ \ {d}]
      BY <1>4 DEF CreateSchema
    <2>3. /\ made' \in [Threads -> Databases]
          /\ pendingSchemas' \in [Threads -> SUBSET Databases]
      BY <2>2
    <2> QED
      BY <1>4, <2>1, <2>2, <2>3 DEF CreateSchema, TypeOK, PcFunctions
  <1>5. CASE InstallGenerator(t)
    <2>1. /\ pc' \in PcFunctions
          /\ cur' \in [Threads -> Databases] /\ made' \in [Threads -> Databases]
      BY <1>5, GotoType, LeaveScanSchemasType DEF InstallGenerator, CatalogPcs
    <2>2. generator' \in [Databases -> Generators] /\ dangling' \subseteq Threads
      BY <1>5, SetDefaultGeneratorType DEF InstallGenerator
    <2>3. visited' \in [Threads -> BOOLEAN]
      BY <1>5 DEF InstallGenerator, TypeOK
    <2> QED
      BY <1>5, <2>1, <2>2, <2>3 DEF InstallGenerator, TypeOK, PcFunctions
  <1>6. CASE ListDatabases(t)
    <2>1. /\ pc' \in PcFunctions
          /\ cur' \in [Threads -> Databases] /\ made' \in [Threads -> Databases]
      BY <1>6, GotoType, FailType, EntryReturnsType, LeaveScanSchemasType
         DEF ListDatabases, CatalogPcs
    <2>2. /\ pendingSchemas' \in [Threads -> SUBSET Databases]
          /\ outcome' \in [Threads -> Outcomes]
      BY <1>6, FailType, EntryReturnsType DEF ListDatabases
    <2>3. entryLock' \in Owners
      BY <1>6, ReleaseType DEF ListDatabases
    <2>4. nested' \in [Threads -> Databases \union {NoDatabase}]
      BY <1>6 DEF ListDatabases, TypeOK
    <2> QED
      BY <1>6, <2>1, <2>2, <2>3, <2>4 DEF ListDatabases, TypeOK, PcFunctions, Owners
  <1>7. CASE FindSchema(t)
    <2>1. DatabaseName # NoDatabase => DatabaseName \in Databases
      OBVIOUS
    <2>2. /\ pc' \in PcFunctions /\ cur' \in [Threads -> Databases]
          /\ nested' \in [Threads -> Databases \union {NoDatabase}]
      <3>1. CASE UNCHANGED <<cur, nested>>
        BY <1>7, <3>1, GotoType, EnterSchemaType, SoughtType DEF FindSchema, CatalogPcs, TypeOK
      <3> QED
        BY <1>7, <2>1, <3>1, EnterSchemaType, SoughtType DEF FindSchema
    <2> QED
      BY <1>7, <2>2 DEF FindSchema, TypeOK, PcFunctions
  <1>8. CASE FindSchemaAgain(t)
    <2>1. /\ pc' \in PcFunctions /\ cur' \in [Threads -> Databases]
          /\ outcome' \in [Threads -> Outcomes]
          /\ nested' \in [Threads -> Databases \union {NoDatabase}]
      BY <1>8, FailType, EnterSchemaType, SoughtType DEF FindSchemaAgain, TypeOK
    <2> QED
      BY <1>8, <2>1 DEF FindSchemaAgain, TypeOK, PcFunctions
  <1>9. CASE CreateSchemaOnDemand(t)
    <2>1. pc' \in PcFunctions
      BY <1>9, GotoType DEF CreateSchemaOnDemand, CatalogPcs
    <2> QED
      BY <1>9, <2>1, SoughtType DEF CreateSchemaOnDemand, TypeOK, PcFunctions
  <1>10. CASE InstallGeneratorOnDemand(t)
    <2>1. /\ pc' \in PcFunctions /\ cur' \in [Threads -> Databases]
          /\ nested' \in [Threads -> Databases \union {NoDatabase}]
      BY <1>10, EnterSchemaType, SoughtType DEF InstallGeneratorOnDemand
    <2>2. generator' \in [Databases -> Generators] /\ dangling' \subseteq Threads
      BY <1>10, SetDefaultGeneratorType, SoughtType DEF InstallGeneratorOnDemand
    <2> QED
      BY <1>10, <2>1, <2>2 DEF InstallGeneratorOnDemand, TypeOK, PcFunctions
  <1>11. CASE ClearViewInfoCache(t)
    <2>1. pc' \in PcFunctions
      BY <1>11, GotoType DEF ClearViewInfoCache, CatalogPcs
    <2> QED
      BY <1>11, <2>1 DEF ClearViewInfoCache, TypeOK, PcFunctions
  <1>12. CASE ClearSchemas(t)
    <2>1. pc' \in PcFunctions
      BY <1>12, GotoType DEF ClearSchemas, CatalogPcs
    <2> QED
      BY <1>12, <2>1 DEF ClearSchemas, TypeOK, PcFunctions
  <1>13. CASE ClearNext(t)
    <2>1. pc' \in PcFunctions
      BY <1>13, GotoType DEF ClearNext, CatalogPcs, SchemaEntryPcs
    <2>2. /\ cur' \in [Threads -> Databases]
          /\ pendingSchemas' \in [Threads -> SUBSET Databases]
          /\ outcome' \in [Threads -> Outcomes]
      BY <1>13 DEF ClearNext
    <2>3. schemasScanned' \in BOOLEAN /\ schemasLock' \in Threads \union {NoThread}
      BY <1>13 DEF ClearNext, TypeOK
    <2> QED
      BY <1>13, <2>1, <2>2, <2>3 DEF ClearNext, TypeOK, PcFunctions
  <1>14. CASE InvalidateTakesEntryLock(t)
    <2>1. pc' \in PcFunctions /\ entryLock' \in Owners
      BY <1>14, GotoType, TakeType DEF InvalidateTakesEntryLock, CatalogPcs
    <2> QED
      BY <1>14, <2>1 DEF InvalidateTakesEntryLock, TypeOK, PcFunctions, Owners
  <1>15. CASE InvalidateResets(t)
    <2>1. pc' \in PcFunctions /\ entryLock' \in Owners
      BY <1>15, GotoType, ReleaseType DEF InvalidateResets, InvalidateCache, CatalogPcs
    <2> QED
      BY <1>15, <2>1 DEF InvalidateResets, InvalidateCache, TypeOK, PcFunctions, Owners
  <1>16. CASE LookupFunction(t)
    <2>1. pc' \in PcFunctions
      BY <1>16, GotoType DEF LookupFunction, CatalogPcs
    <2>2. nested' \in [Threads -> Databases \union {NoDatabase}]
      BY <1>16 DEF LookupFunction, TypeOK
    <2> QED
      BY <1>16, <2>1, <2>2 DEF LookupFunction, TypeOK, PcFunctions
  <1> QED
    BY <1>1, <1>2, <1>3, <1>4, <1>5, <1>6, <1>7, <1>8, <1>9, <1>10, <1>11,
       <1>12, <1>13, <1>14, <1>15, <1>16 DEF CatalogStep

LEMMA TypeBegin ==
  ASSUME TypeOK, NEW t \in Threads, Begin(t)
  PROVE  TypeOK'
  <1>1. PICK o \in Operations, d \in Databases, c \in Collections :
           /\ Goto(t, "idle", FirstPc(o))
           /\ op' = [op EXCEPT ![t] = o]
           /\ wanted' = [wanted EXCEPT ![t] = d]
           /\ coll' = [coll EXCEPT ![t] = c]
    BY DEF Begin
  <1>2. FirstPc(o) \in Pcs
    BY DEF FirstPc, Pcs, CatalogPcs
  <1>3. pc' \in PcFunctions
    BY <1>1, <1>2, GotoType DEF TypeOK, PcFunctions
  <1>4. /\ op' \in [Threads -> OperationNames]
        /\ wanted' \in [Threads -> Databases]
        /\ coll' \in [Threads -> Collections]
    BY <1>1 DEF TypeOK
  <1> QED
    BY <1>3, <1>4 DEF Begin, TypeOK, PcFunctions

LEMMA TypeStep == TypeOK /\ [Next]_vars => TypeOK'
  <1> SUFFICES ASSUME TypeOK, [Next]_vars PROVE TypeOK'
    OBVIOUS
  <1>1. CASE UNCHANGED vars
    BY <1>1 DEF TypeOK, vars, schemaEntryVars
  <1>2. ASSUME NEW t \in Threads, Begin(t) PROVE TypeOK'
    BY <1>2, TypeBegin
  <1>3. ASSUME NEW t \in Threads, Step(t) PROVE TypeOK'
    BY <1>3, TypeSchemaEntry, TypeCatalog DEF Step
  <1>4. CASE Environment
    <2>1. PICK d \in Databases, c \in Collections : MongoChange(d, c) /\ UNCHANGED catalogVars
      BY <1>4 DEF Environment
    <2>2. version' \in [Databases -> [Collections -> InferredVersions]]
      <3>1. version[d][c] \in InferredVersions /\ version[d][c] < MaxVersion
        BY <2>1 DEF MongoChange, TypeOK
      <3>2. version[d][c] + 1 \in InferredVersions
        BY <3>1 DEF InferredVersions
      <3> QED
        BY <2>1, <3>2 DEF MongoChange, TypeOK
    <2>3. existing' \in [Databases -> SUBSET Collections]
      BY <2>1 DEF MongoChange, TypeOK
    <2> QED
      BY <2>1, <2>2, <2>3 DEF MongoChange, TypeOK
  <1> QED
    BY <1>1, <1>2, <1>3, <1>4 DEF Next

(* The catalog's variables keep their types in every behaviour, whatever the *)
(* number of threads, databases and collections.                             *)
THEOREM TypeCorrect == Spec => []TypeOK
  BY TypeInit, TypeStep, PTL DEF Spec

-----------------------------------------------------------------------------
(* Who owns which mutex.                                                     *)

(* A nested lookup runs the steps of LookupSchema and ScanSchemas only.      *)
NestedPcs == {"lookup_schema", "scan_schemas", "list_databases", "create_schema",
              "set_generator", "find_schema", "find_again", "on_demand", "set_on_demand"}
NestedScope == \A t \in Threads : Nested(t) => pc[t] \in NestedPcs

(* LockOwnership is inductive together with where nested lookups are.        *)
LockInv == LockOwnership /\ NestedScope

LEMMA LockInit == Init => LockInv
  <1> SUFFICES ASSUME Init, NEW t \in Threads, NEW d \in Databases
               PROVE  /\ schemasLock # t /\ ~OwnsSchemasLock(t)
                      /\ entryLock[d] # t /\ ~OwnsEntryLock(t)
                      /\ loadLock[d] # t /\ ~OwnsLoadLock(t)
                      /\ ~Nested(t)
    BY DEF LockInv, LockOwnership, NestedScope
  <1>1. pc[t] = "idle" /\ ~Nested(t)
    BY DEF Init, Nested
  <1>2. schemasLock # t /\ entryLock[d] # t /\ loadLock[d] # t
    BY DEF Init
  <1> QED
    BY <1>1, <1>2 DEF OwnsSchemasLock, OwnsLoadLock, OwnsEntryLock, InGenerator

(* The types the mutexes' proofs use.                                        *)
LockTypes ==
    /\ pc \in PcFunctions
    /\ cur \in [Threads -> Databases]
    /\ nested \in [Threads -> Databases \union {NoDatabase}]
    /\ entryLock \in Owners
    /\ loadLock \in Owners
    /\ schemasLock \in Threads \union {NoThread}

LEMMA LockTypesHold == TypeOK => LockTypes
  BY DEF TypeOK, LockTypes, PcFunctions, Owners

LEMMA NestedSchemaEntry ==
  ASSUME TypeOK, NestedScope, NEW t \in Threads, SchemaEntryStep(t), UNCHANGED catalogVars
  PROVE  NestedScope' /\ ~Nested(t)
  <1>1. pc[t] \notin NestedPcs
    BY DEF NestedPcs, Goto, EntryReturns, InGenerator, SchemaEntryStep, TryLoadEntries,
       LoadUnderLock, EnsureCollectionsLoaded, MarkCollectionsLoaded, ListCollectionNames,
       UseFreedGenerator, PublishEntries, FindEntry, CreateDefaultEntry, InferViewInfo,
       StoreViewInfo, ScanReset, ScanViews, ScanNext, DropEntry, CreateView
  <1>2. \A u \in Threads \ {t} : pc'[u] = pc[u]
    BY LockTypesHold DEF LockTypes, PcFunctions, Goto, EntryReturns, SchemaEntryStep,
       TryLoadEntries, LoadUnderLock, EnsureCollectionsLoaded, MarkCollectionsLoaded,
       ListCollectionNames, UseFreedGenerator, PublishEntries, FindEntry, CreateDefaultEntry,
       InferViewInfo, StoreViewInfo, ScanReset, ScanViews, ScanNext, DropEntry, CreateView
  <1> QED
    BY <1>1, <1>2 DEF NestedScope, Nested

LEMMA NestedCatalog ==
  ASSUME TypeOK, NestedScope, NEW t \in Threads, CatalogStep(t)
  PROVE  NestedScope'
  <1>0. LockTypes
    BY LockTypesHold
  <1> USE <1>0 DEF LockTypes, PcFunctions, NestedScope, Nested, NestedPcs, Goto
  <1>1. CASE Return(t)
    BY <1>1 DEF Return
  <1>2. CASE LookupSchema(t)
    BY <1>2 DEF LookupSchema
  <1>3. CASE ScanSchemas(t)
    BY <1>3 DEF ScanSchemas, LeaveScanSchemas, AfterScanSchemas
  <1>4. CASE CreateSchema(t)
    BY <1>4 DEF CreateSchema
  <1>5. CASE InstallGenerator(t)
    BY <1>5 DEF InstallGenerator, LeaveScanSchemas, AfterScanSchemas
  <1>6. CASE ListDatabases(t)
    BY <1>6 DEF ListDatabases, LeaveScanSchemas, AfterScanSchemas, Fail, EntryReturns
  <1>7. CASE LookupFunction(t)
    BY <1>7 DEF LookupFunction
  <1>8. CASE FindSchema(t)
    BY <1>8 DEF FindSchema, EnterSchema
  <1>9. CASE FindSchemaAgain(t)
    BY <1>9 DEF FindSchemaAgain, EnterSchema, Fail
  <1>10. CASE CreateSchemaOnDemand(t)
    BY <1>10 DEF CreateSchemaOnDemand
  <1>11. CASE InstallGeneratorOnDemand(t)
    BY <1>11 DEF InstallGeneratorOnDemand, EnterSchema
  <1>12. CASE \/ ClearViewInfoCache(t) \/ ClearSchemas(t) \/ ClearNext(t)
              \/ InvalidateTakesEntryLock(t) \/ InvalidateResets(t)
    BY <1>12 DEF ClearViewInfoCache, ClearSchemas, ClearNext, InvalidateTakesEntryLock,
       InvalidateResets
  <1> QED
    BY <1>1, <1>2, <1>3, <1>4, <1>5, <1>6, <1>7, <1>8, <1>9, <1>10, <1>11, <1>12
       DEF CatalogStep

LEMMA LockSchemaEntry ==
  ASSUME TypeOK, LockInv, NEW t \in Threads, SchemaEntryStep(t), UNCHANGED catalogVars
  PROVE  LockOwnership'
  <1>0. LockTypes /\ ~Nested(t)
    BY LockTypesHold, NestedSchemaEntry DEF LockInv
  <1> USE <1>0 DEF LockTypes, PcFunctions, Owners, LockInv, LockOwnership, OwnsSchemasLock,
           OwnsLoadLock, OwnsEntryLock, InGenerator, ForLoad, Nested, Goto
  <1>1. CASE TryLoadEntries(t)
    BY <1>1 DEF TryLoadEntries, AfterLoad
  <1>2. CASE LoadUnderLock(t)
    BY <1>2 DEF LoadUnderLock, AfterLoad, Free, Take
  <1>3. CASE EnsureCollectionsLoaded(t)
    BY <1>3 DEF EnsureCollectionsLoaded, AfterEnsure
  <1>4. CASE MarkCollectionsLoaded(t)
    BY <1>4 DEF MarkCollectionsLoaded
  <1>5. CASE ListCollectionNames(t)
    BY <1>5 DEF ListCollectionNames, AfterEnsure
  <1>6. CASE UseFreedGenerator(t)
    BY <1>6 DEF UseFreedGenerator, AfterEnsure
  <1>7. CASE PublishEntries(t)
    BY <1>7 DEF PublishEntries, AfterLoad, Release
  <1>8. CASE FindEntry(t)
    BY <1>8 DEF FindEntry, EntryReturns, Free, Take
  <1>9. CASE CreateDefaultEntry(t)
    BY <1>9 DEF CreateDefaultEntry, EntryReturns, Release
  <1>10. CASE InferViewInfo(t)
    BY <1>10 DEF InferViewInfo, EntryReturns, Release
  <1>11. CASE StoreViewInfo(t)
    BY <1>11 DEF StoreViewInfo, EntryReturns, Release
  <1>12. CASE ScanReset(t)
    BY <1>12 DEF ScanReset
  <1>13. CASE ScanViews(t)
    BY <1>13 DEF ScanViews
  <1>14. CASE ScanNext(t)
    BY <1>14 DEF ScanNext
  <1>15. CASE DropEntry(t)
    BY <1>15 DEF DropEntry
  <1>16. CASE CreateView(t)
    BY <1>16 DEF CreateView
  <1> QED
    BY <1>1, <1>2, <1>3, <1>4, <1>5, <1>6, <1>7, <1>8, <1>9, <1>10, <1>11,
       <1>12, <1>13, <1>14, <1>15, <1>16 DEF SchemaEntryStep

LEMMA LockCatalog ==
  ASSUME TypeOK, LockInv, NEW t \in Threads, CatalogStep(t)
  PROVE  LockOwnership'
  <1>0. LockTypes
    BY LockTypesHold
  <1> USE <1>0 DEF LockTypes, PcFunctions, Owners, LockInv, LockOwnership, NestedScope, NestedPcs,
           OwnsSchemasLock, OwnsLoadLock, OwnsEntryLock, InGenerator, ForLoad, Nested, Goto
  <1>1. CASE Return(t)
    BY <1>1 DEF Return
  <1>2. CASE LookupSchema(t)
    BY <1>2 DEF LookupSchema
  <1>3. CASE ScanSchemas(t)
    BY <1>3 DEF ScanSchemas, LeaveScanSchemas, AfterScanSchemas, SchemasFree
  <1>4. CASE CreateSchema(t)
    BY <1>4 DEF CreateSchema, SchemasFree
  <1>5. CASE InstallGenerator(t)
    BY <1>5, SMTT(30) DEF InstallGenerator, LeaveScanSchemas, AfterScanSchemas
  <1>6. CASE ListDatabases(t)
    BY <1>6, SMTT(30) DEF ListDatabases, LeaveScanSchemas, AfterScanSchemas, Fail, EntryReturns,
       Release
  <1>7. CASE FindSchema(t)
    BY <1>7 DEF FindSchema, EnterSchema
  <1>8. CASE FindSchemaAgain(t)
    BY <1>8 DEF FindSchemaAgain, EnterSchema, Fail
  <1>9. CASE CreateSchemaOnDemand(t)
    BY <1>9 DEF CreateSchemaOnDemand
  <1>10. CASE InstallGeneratorOnDemand(t)
    BY <1>10 DEF InstallGeneratorOnDemand, EnterSchema
  <1>11. CASE ClearViewInfoCache(t)
    BY <1>11 DEF ClearViewInfoCache
  <1>12. CASE ClearSchemas(t)
    BY <1>12 DEF ClearSchemas, SchemasFree
  <1>13. CASE ClearNext(t)
    BY <1>13 DEF ClearNext
  <1>14. CASE InvalidateTakesEntryLock(t)
    BY <1>14 DEF InvalidateTakesEntryLock, Free, Take
  <1>15. CASE InvalidateResets(t)
    BY <1>15 DEF InvalidateResets, InvalidateCache, Release
  <1>16. CASE LookupFunction(t)
    BY <1>16 DEF LookupFunction
  <1> QED
    BY <1>1, <1>2, <1>3, <1>4, <1>5, <1>6, <1>7, <1>8, <1>9, <1>10, <1>11,
       <1>12, <1>13, <1>14, <1>15, <1>16 DEF CatalogStep

LEMMA LockStep == TypeOK /\ LockInv /\ [Next]_vars => LockInv'
  <1> SUFFICES ASSUME TypeOK, LockInv, [Next]_vars PROVE LockInv'
    OBVIOUS
  <1> USE DEF LockInv, NestedScope, LockOwnership, OwnsSchemasLock, OwnsLoadLock,
           OwnsEntryLock, ForLoad, Nested
  <1>1. CASE UNCHANGED vars
    BY <1>1 DEF vars, schemaEntryVars
  <1>2. ASSUME NEW t \in Threads, Begin(t) PROVE LockInv'
    <2>1. PICK o \in Operations : Goto(t, "idle", FirstPc(o))
      BY <1>2 DEF Begin
    <2>2. UNCHANGED <<entryLock, loadLock, schemasLock, cur, nested>>
      BY <1>2 DEF Begin
    <2>3. LockTypes
      BY LockTypesHold
    <2> QED
      BY <2>1, <2>2, <2>3 DEF Goto, FirstPc, InGenerator, LockTypes, PcFunctions, NestedPcs
  <1>3. ASSUME NEW t \in Threads, Step(t) PROVE LockInv'
    BY <1>3, LockSchemaEntry, LockCatalog, NestedSchemaEntry, NestedCatalog DEF Step
  <1>4. CASE Environment
    BY <1>4 DEF Environment, MongoChange
  <1> QED
    BY <1>1, <1>2, <1>3, <1>4 DEF Next

LEMMA LockInvHolds == Spec => []LockInv
  BY TypeCorrect, LockInit, LockStep, PTL DEF Spec

(* Every mutex belongs to a thread exactly while that thread is in the code  *)
(* it guards, with any number of threads and schemas.                        *)
THEOREM LocksOwned == Spec => []LockOwnership
  <1>1. LockInv => LockOwnership
    BY DEF LockInv
  <1> QED
    BY <1>1, LockInvHolds, PTL

-----------------------------------------------------------------------------
(* The order in which the mutexes are waited for.                            *)

LEMMA OwnershipOrdersWaits == TypeOK /\ LockInv => WaitsClimb
  <1> SUFFICES ASSUME TypeOK, LockInv, NEW t \in Threads, NEW u \in Threads,
                      Waits(t, u), ~Nested(t), pc[u] # "clear_load"
               PROVE  WaitLevel(t) < WaitLevel(u)
    BY DEF WaitsClimb
  <1>0. /\ cur[t] \in Databases /\ wanted[t] \in Databases
        /\ made[t] \in Databases /\ Sought(t) \in Databases
    BY SoughtType DEF TypeOK
  <1> USE DEF LockInv, WaitLevel, SchemasLockPcs, LoadLockPcs, EntryLockPcs, InstallPcs,
           InGenerator, NestedScope, NestedPcs
  <1>1. CASE pc[t] \in SchemasLockPcs /\ schemasLock = u
    <2>1. pc[u] \in {"clear_next", "clear_entry"}
      BY <1>1 DEF LockOwnership, OwnsSchemasLock
    <2> QED
      BY <1>1, <2>1
  <1>2. CASE pc[t] \in LoadLockPcs /\ loadLock[cur[t]] = u
    <2>1. pc[u] \in InGenerator \union {"publish"}
      BY <1>0, <1>2 DEF LockOwnership, OwnsLoadLock
    <2> QED
      BY <1>2, <2>1
  <1>3. CASE pc[t] \in EntryLockPcs \union InstallPcs /\ \E d \in Databases : entryLock[d] = u
    <2>1. Nested(u) \/ pc[u] \in InGenerator \union {"create", "infer", "bind", "store"}
      BY <1>3 DEF LockOwnership, OwnsEntryLock
    <2>2. WaitLevel(t) = 3
      BY <1>3
    <2>3. CASE Nested(u)
      BY <2>2, <2>3
    <2>4. CASE ~Nested(u)
      <3>1. pc[u] \in InGenerator \union {"create", "infer", "bind", "store"}
        BY <2>1, <2>4
      <3>2. WaitLevel(u) = 4
        BY <2>4, <3>1
      <3> QED
        BY <2>2, <3>2
    <2> QED
      BY <2>3, <2>4
  <1> QED
    BY <1>0, <1>1, <1>2, <1>3 DEF Waits, WaitsFor

(* Threads wait for mutexes in one order, whatever their number, except for  *)
(* two: one that waits for load_lock inside InvalidateCache, and one that    *)
(* looks a function up to bind a view's query under entry_lock.  A deadlock  *)
(* of any number of threads has one of those two in it.                      *)
THEOREM WaitsInOrder == Spec => []WaitsClimb
  BY TypeCorrect, LockInvHolds, OwnershipOrdersWaits, PTL

-----------------------------------------------------------------------------
(* Generators freed while they are used.                                     *)

LEMMA SetDefaultGeneratorFreesLoaders ==
  ASSUME TypeOK, LockOwnership, DanglingOnlyWhileLoading, NEW d \in Databases,
         SetDefaultGenerator(d), NEW u \in dangling'
  PROVE  pc[u] \in InGenerator /\ loadLock[cur[u]] = u
  <1>1. CASE u \in dangling
    BY <1>1 DEF DanglingOnlyWhileLoading
  <1>2. CASE u \in Threads /\ pc[u] \in InGenerator /\ cur[u] = d
    <2>1. entryLock[d] # u
      BY <1>2 DEF SetDefaultGenerator, Free
    <2> QED
      BY <1>2, <2>1 DEF LockOwnership, OwnsEntryLock, ForLoad
  <1> QED
    BY <1>1, <1>2 DEF SetDefaultGenerator

(* A step that leaves the freed generators alone, takes no load_lock away    *)
(* and moves no thread that runs in one keeps the invariant.                 *)
LEMMA DanglingFrame ==
  ASSUME DanglingOnlyWhileLoading, dangling' \subseteq dangling,
         \A u \in dangling' : /\ pc'[u] = pc[u] /\ cur'[u] = cur[u]
                             /\ loadLock'[cur[u]] = loadLock[cur[u]]
  PROVE  DanglingOnlyWhileLoading'
  BY DEF DanglingOnlyWhileLoading

LEMMA DanglingSchemaEntry ==
  ASSUME TypeOK, LockOwnership, DanglingOnlyWhileLoading,
         NEW t \in Threads, SchemaEntryStep(t)
  PROVE  DanglingOnlyWhileLoading'
  <1>0. LockTypes /\ dangling \subseteq Threads
    BY LockTypesHold DEF TypeOK
  <1> USE <1>0 DEF LockTypes, PcFunctions, Owners, DanglingOnlyWhileLoading, InGenerator, Goto
  <1>1. CASE TryLoadEntries(t)
    BY <1>1 DEF TryLoadEntries
  <1>2. CASE LoadUnderLock(t)
    BY <1>2 DEF LoadUnderLock, Free, Take
  <1>3. CASE EnsureCollectionsLoaded(t)
    BY <1>3 DEF EnsureCollectionsLoaded
  <1>4. CASE MarkCollectionsLoaded(t)
    BY <1>4 DEF MarkCollectionsLoaded
  <1>5. CASE ListCollectionNames(t)
    BY <1>5 DEF ListCollectionNames
  <1>6. CASE UseFreedGenerator(t)
    BY <1>6 DEF UseFreedGenerator
  <1>7. CASE PublishEntries(t)
    <2>1. loadLock[cur[t]] = t
      BY <1>7 DEF PublishEntries, LockOwnership, OwnsLoadLock
    <2> QED
      BY <1>7, <2>1 DEF PublishEntries, Release
  <1>8. CASE FindEntry(t)
    BY <1>8 DEF FindEntry, EntryReturns
  <1>9. CASE CreateDefaultEntry(t)
    BY <1>9 DEF CreateDefaultEntry, EntryReturns
  <1>10. CASE InferViewInfo(t)
    BY <1>10 DEF InferViewInfo, EntryReturns
  <1>11. CASE StoreViewInfo(t)
    BY <1>11 DEF StoreViewInfo, EntryReturns
  <1>12. CASE ScanReset(t)
    BY <1>12 DEF ScanReset
  <1>13. CASE ScanViews(t)
    BY <1>13 DEF ScanViews
  <1>14. CASE ScanNext(t)
    BY <1>14 DEF ScanNext
  <1>15. CASE DropEntry(t)
    BY <1>15 DEF DropEntry
  <1>16. CASE CreateView(t)
    BY <1>16 DEF CreateView
  <1> QED
    BY <1>1, <1>2, <1>3, <1>4, <1>5, <1>6, <1>7, <1>8, <1>9, <1>10, <1>11,
       <1>12, <1>13, <1>14, <1>15, <1>16 DEF SchemaEntryStep

LEMMA DanglingCatalog ==
  ASSUME TypeOK, LockOwnership, DanglingOnlyWhileLoading,
         NEW t \in Threads, CatalogStep(t)
  PROVE  DanglingOnlyWhileLoading'
  <1>0. /\ LockTypes /\ dangling \subseteq Threads
        /\ cur[t] \in Databases /\ wanted[t] \in Databases
        /\ made[t] \in Databases /\ Sought(t) \in Databases
    BY LockTypesHold, SoughtType DEF TypeOK
  <1> USE <1>0 DEF LockTypes, PcFunctions, Owners, Goto
  <1>1. CASE Return(t)
    BY <1>1 DEF Return, DanglingOnlyWhileLoading, InGenerator
  <1>2. CASE LookupSchema(t)
    BY <1>2 DEF LookupSchema, DanglingOnlyWhileLoading, InGenerator
  <1>3. CASE ScanSchemas(t)
    BY <1>3 DEF ScanSchemas, LeaveScanSchemas, DanglingOnlyWhileLoading, InGenerator
  <1>4. CASE CreateSchema(t)
    BY <1>4 DEF CreateSchema, DanglingOnlyWhileLoading, InGenerator
  <1>5. CASE InstallGenerator(t)
    <2>1. \A u \in dangling' : pc[u] \in InGenerator /\ loadLock[cur[u]] = u
      BY <1>5, SetDefaultGeneratorFreesLoaders DEF InstallGenerator
    <2>2. UNCHANGED loadLock /\ pc[t] \notin InGenerator
      BY <1>5 DEF InstallGenerator, LeaveScanSchemas, InGenerator
    <2>3. \A u \in Threads \ {t} : pc'[u] = pc[u] /\ cur'[u] = cur[u]
      BY <1>5 DEF InstallGenerator, LeaveScanSchemas
    <2>4. dangling' \subseteq Threads
      BY <1>5 DEF InstallGenerator, SetDefaultGenerator
    <2> QED
      BY <2>1, <2>2, <2>3, <2>4 DEF DanglingOnlyWhileLoading
  <1>6. CASE ListDatabases(t)
    BY <1>6 DEF ListDatabases, LeaveScanSchemas, Fail, EntryReturns, DanglingOnlyWhileLoading,
       InGenerator
  <1>7. CASE FindSchema(t)
    BY <1>7 DEF FindSchema, EnterSchema, DanglingOnlyWhileLoading, InGenerator
  <1>8. CASE FindSchemaAgain(t)
    BY <1>8 DEF FindSchemaAgain, EnterSchema, Fail, DanglingOnlyWhileLoading, InGenerator
  <1>9. CASE CreateSchemaOnDemand(t)
    BY <1>9 DEF CreateSchemaOnDemand, DanglingOnlyWhileLoading, InGenerator
  <1>10. CASE InstallGeneratorOnDemand(t)
    <2>1. \A u \in dangling' : pc[u] \in InGenerator /\ loadLock[cur[u]] = u
      BY <1>10, SetDefaultGeneratorFreesLoaders DEF InstallGeneratorOnDemand
    <2>2. UNCHANGED loadLock /\ pc[t] \notin InGenerator
      BY <1>10 DEF InstallGeneratorOnDemand, EnterSchema, InGenerator
    <2>3. \A u \in Threads \ {t} : pc'[u] = pc[u] /\ cur'[u] = cur[u]
      BY <1>10 DEF InstallGeneratorOnDemand, EnterSchema
    <2>4. dangling' \subseteq Threads
      BY <1>10 DEF InstallGeneratorOnDemand, SetDefaultGenerator
    <2> QED
      BY <2>1, <2>2, <2>3, <2>4 DEF DanglingOnlyWhileLoading
  <1>11. CASE ClearViewInfoCache(t)
    BY <1>11 DEF ClearViewInfoCache, DanglingOnlyWhileLoading, InGenerator
  <1>12. CASE ClearSchemas(t)
    BY <1>12 DEF ClearSchemas, DanglingOnlyWhileLoading, InGenerator
  <1>13. CASE ClearNext(t)
    BY <1>13 DEF ClearNext, DanglingOnlyWhileLoading, InGenerator
  <1>14. CASE InvalidateTakesEntryLock(t)
    BY <1>14 DEF InvalidateTakesEntryLock, DanglingOnlyWhileLoading, InGenerator
  <1>15. CASE InvalidateResets(t)
    BY <1>15 DEF InvalidateResets, DanglingOnlyWhileLoading, InGenerator
  <1>16. CASE LookupFunction(t)
    BY <1>16 DEF LookupFunction, DanglingOnlyWhileLoading, InGenerator
  <1> QED
    BY <1>1, <1>2, <1>3, <1>4, <1>5, <1>6, <1>7, <1>8, <1>9, <1>10, <1>11,
       <1>12, <1>13, <1>14, <1>15, <1>16 DEF CatalogStep

LEMMA DanglingStep ==
  TypeOK /\ LockOwnership /\ DanglingOnlyWhileLoading /\ [Next]_vars
  => DanglingOnlyWhileLoading'
  <1> SUFFICES ASSUME TypeOK, LockOwnership, DanglingOnlyWhileLoading, [Next]_vars
               PROVE  DanglingOnlyWhileLoading'
    OBVIOUS
  <1>1. CASE UNCHANGED vars
    BY <1>1, DanglingFrame DEF vars, schemaEntryVars
  <1>2. ASSUME NEW t \in Threads, Begin(t) PROVE DanglingOnlyWhileLoading'
    <2>1. UNCHANGED <<dangling, loadLock, cur>> /\ pc[t] = "idle"
      BY <1>2 DEF Begin, Goto
    <2>2. \A u \in Threads \ {t} : pc'[u] = pc[u]
      BY <1>2 DEF Begin, Goto, TypeOK
    <2>3. t \notin dangling /\ dangling \subseteq Threads
      BY <2>1 DEF DanglingOnlyWhileLoading, InGenerator, TypeOK
    <2> QED
      BY <2>1, <2>2, <2>3, DanglingFrame
  <1>3. ASSUME NEW t \in Threads, Step(t) PROVE DanglingOnlyWhileLoading'
    BY <1>3, DanglingSchemaEntry, DanglingCatalog DEF Step
  <1>4. CASE Environment
    BY <1>4, DanglingFrame DEF Environment, MongoChange
  <1> QED
    BY <1>1, <1>2, <1>3, <1>4 DEF Next

(* Only a thread that loads collection names can have its generator freed    *)
(* under it, never one that creates an entry.  The argument is that of who   *)
(* owns entry_lock, which SetDefaultGenerator needs.                         *)
THEOREM OnlyLoadersDangle == Spec => []DanglingOnlyWhileLoading
  <1>1. Init => DanglingOnlyWhileLoading
    BY DEF Init, DanglingOnlyWhileLoading
  <1> QED
    BY <1>1, TypeCorrect, LocksOwned, DanglingStep, PTL DEF Spec

-----------------------------------------------------------------------------
(* A catalog with a database name fills its map with that database's schema. *)

(* From the moment the flag is set, and for every thread that has passed the *)
(* test of the flag, the schema is there or a thread is about to create it.  *)
SchemasFilled ==
    DatabaseName # NoDatabase =>
    /\ \A u \in Threads :
          /\ pc[u] # "list_databases"
          /\ pc[u] = "create_schema" => pendingSchemas[u] = {DatabaseName}
          /\ pc[u] = "set_generator" => pendingSchemas[u] = {} /\ DatabaseName \in schemas
    /\ schemasScanned \/ (\E u \in Threads : pc[u] \in {"find_schema", "find_again"})
       => DatabaseName \in schemas \/ \E u \in Threads : pc[u] = "create_schema"

(* "Schema not found" is an outcome only of an operation that is over.       *)
NoSchemaIsFinal == \A u \in Threads : outcome[u] = "no_schema" => pc[u] = "returned"

SchemasInv == SchemasFilled /\ NoSchemaIsFinal

(* The types this argument uses.                                             *)
SchemaTypes ==
    /\ pc \in PcFunctions
    /\ outcome \in [Threads -> Outcomes]
    /\ pendingSchemas \in [Threads -> SUBSET Databases]

LEMMA SchemaTypesHold == TypeOK => SchemaTypes
  BY DEF TypeOK, SchemaTypes, PcFunctions

LEMMA SchemasInit == Init => SchemasInv
  BY DEF Init, SchemasInv, SchemasFilled, NoSchemaIsFinal

LEMMA SchemasSchemaEntry ==
  ASSUME TypeOK, SchemasInv, NEW t \in Threads, SchemaEntryStep(t), UNCHANGED catalogVars
  PROVE  SchemasInv'
  <1>0. SchemaTypes
    BY SchemaTypesHold
  <1> USE <1>0 DEF SchemaTypes, PcFunctions, SchemasInv, SchemasFilled, NoSchemaIsFinal, Goto,
           InGenerator
  <1>1. CASE TryLoadEntries(t)
    BY <1>1 DEF TryLoadEntries, AfterLoad
  <1>2. CASE LoadUnderLock(t)
    BY <1>2 DEF LoadUnderLock, AfterLoad
  <1>3. CASE EnsureCollectionsLoaded(t)
    BY <1>3 DEF EnsureCollectionsLoaded, AfterEnsure
  <1>4. CASE MarkCollectionsLoaded(t)
    BY <1>4 DEF MarkCollectionsLoaded
  <1>5. CASE ListCollectionNames(t)
    BY <1>5 DEF ListCollectionNames, AfterEnsure
  <1>6. CASE UseFreedGenerator(t)
    BY <1>6 DEF UseFreedGenerator, AfterEnsure
  <1>7. CASE PublishEntries(t)
    BY <1>7 DEF PublishEntries, AfterLoad
  <1>8. CASE FindEntry(t)
    BY <1>8 DEF FindEntry, EntryReturns
  <1>9. CASE CreateDefaultEntry(t)
    BY <1>9 DEF CreateDefaultEntry, EntryReturns
  <1>10. CASE InferViewInfo(t)
    BY <1>10 DEF InferViewInfo, EntryReturns
  <1>11. CASE StoreViewInfo(t)
    BY <1>11 DEF StoreViewInfo, EntryReturns
  <1>12. CASE ScanReset(t)
    BY <1>12 DEF ScanReset
  <1>13. CASE ScanViews(t)
    BY <1>13 DEF ScanViews
  <1>14. CASE ScanNext(t)
    BY <1>14 DEF ScanNext
  <1>15. CASE DropEntry(t)
    BY <1>15 DEF DropEntry
  <1>16. CASE CreateView(t)
    BY <1>16 DEF CreateView
  <1> QED
    BY <1>1, <1>2, <1>3, <1>4, <1>5, <1>6, <1>7, <1>8, <1>9, <1>10, <1>11,
       <1>12, <1>13, <1>14, <1>15, <1>16 DEF SchemaEntryStep

LEMMA SchemasCatalog ==
  ASSUME TypeOK, SchemasInv, NEW t \in Threads, CatalogStep(t)
  PROVE  SchemasInv'
  <1>0. SchemaTypes
    BY SchemaTypesHold
  <1> USE <1>0 DEF SchemaTypes, PcFunctions, SchemasInv, SchemasFilled, NoSchemaIsFinal, Goto
  <1>1. CASE Return(t)
    BY <1>1 DEF Return
  <1>2. CASE LookupSchema(t)
    BY <1>2 DEF LookupSchema
  <1>3. CASE ScanSchemas(t)
    BY <1>3 DEF ScanSchemas, LeaveScanSchemas, AfterScanSchemas
  <1>4. CASE CreateSchema(t)
    BY <1>4 DEF CreateSchema
  <1>5. CASE InstallGenerator(t)
    BY <1>5 DEF InstallGenerator, LeaveScanSchemas, AfterScanSchemas
  <1>6. CASE ListDatabases(t)
    BY <1>6 DEF ListDatabases, LeaveScanSchemas, AfterScanSchemas, Fail, EntryReturns
  <1>7. CASE FindSchema(t)
    BY <1>7 DEF FindSchema, EnterSchema
  <1>8. CASE FindSchemaAgain(t)
    BY <1>8 DEF FindSchemaAgain, EnterSchema, Fail
  <1>9. CASE CreateSchemaOnDemand(t)
    BY <1>9 DEF CreateSchemaOnDemand
  <1>10. CASE InstallGeneratorOnDemand(t)
    BY <1>10 DEF InstallGeneratorOnDemand, EnterSchema
  <1>11. CASE ClearViewInfoCache(t)
    BY <1>11 DEF ClearViewInfoCache
  <1>12. CASE ClearSchemas(t)
    BY <1>12 DEF ClearSchemas
  <1>13. CASE ClearNext(t)
    BY <1>13 DEF ClearNext
  <1>14. CASE InvalidateTakesEntryLock(t)
    BY <1>14 DEF InvalidateTakesEntryLock
  <1>15. CASE InvalidateResets(t)
    BY <1>15 DEF InvalidateResets, InvalidateCache
  <1>16. CASE LookupFunction(t)
    BY <1>16 DEF LookupFunction
  <1> QED
    BY <1>1, <1>2, <1>3, <1>4, <1>5, <1>6, <1>7, <1>8, <1>9, <1>10, <1>11,
       <1>12, <1>13, <1>14, <1>15, <1>16 DEF CatalogStep

LEMMA SchemasStep == TypeOK /\ SchemasInv /\ [Next]_vars => SchemasInv'
  <1> SUFFICES ASSUME TypeOK, SchemasInv, [Next]_vars PROVE SchemasInv'
    OBVIOUS
  <1>1. CASE UNCHANGED vars
    BY <1>1 DEF vars, schemaEntryVars, SchemasInv, SchemasFilled, NoSchemaIsFinal
  <1>2. ASSUME NEW t \in Threads, Begin(t) PROVE SchemasInv'
    <2>1. PICK o \in Operations : Goto(t, "idle", FirstPc(o))
      BY <1>2 DEF Begin
    <2>2. UNCHANGED <<outcome, schemas, schemasScanned, pendingSchemas>>
      BY <1>2 DEF Begin
    <2> QED
      BY <2>1, <2>2, SchemaTypesHold DEF Goto, FirstPc, SchemaTypes, PcFunctions,
         SchemasInv, SchemasFilled, NoSchemaIsFinal
  <1>3. ASSUME NEW t \in Threads, Step(t) PROVE SchemasInv'
    BY <1>3, SchemasSchemaEntry, SchemasCatalog DEF Step
  <1>4. CASE Environment
    BY <1>4 DEF Environment, MongoChange, SchemasInv, SchemasFilled, NoSchemaIsFinal
  <1> QED
    BY <1>1, <1>2, <1>3, <1>4 DEF Next

LEMMA MissStep ==
  ASSUME TypeOK, SchemasInv, [Next]_vars,
         NEW t \in Threads, pc[t] = "find_again", wanted[t] = DatabaseName,
         outcome'[t] = "no_schema"
  PROVE  \E u \in Threads \ {t} : pc[u] = "create_schema"
  <1>1. DatabaseName # NoDatabase
    BY DEF TypeOK
  <1>2. DatabaseName \in schemas \/ \E u \in Threads \ {t} : pc[u] = "create_schema"
    BY <1>1 DEF SchemasInv, SchemasFilled
  <1>3. outcome[t] # "no_schema"
    BY DEF SchemasInv, NoSchemaIsFinal
  <1>4. ASSUME NEW u \in Threads \ {t}, Begin(u) \/ Step(u) PROVE outcome'[t] = outcome[t]
    <2>1. outcome \in [Threads -> Outcomes]
      BY DEF TypeOK
    <2>2. CASE SchemaEntryStep(u)
      BY <2>1, <2>2 DEF SchemaEntryStep, EntryReturns, TryLoadEntries, LoadUnderLock,
         EnsureCollectionsLoaded, MarkCollectionsLoaded, ListCollectionNames,
         UseFreedGenerator, PublishEntries, FindEntry, CreateDefaultEntry, InferViewInfo,
         StoreViewInfo, ScanReset, ScanViews, ScanNext, DropEntry, CreateView
    <2>3. CASE CatalogStep(u)
      BY <2>1, <2>3 DEF CatalogStep, Fail, EntryReturns, LookupFunction, Return, LookupSchema, ScanSchemas, CreateSchema,
         InstallGenerator, ListDatabases, FindSchema, FindSchemaAgain, CreateSchemaOnDemand,
         InstallGeneratorOnDemand, ClearViewInfoCache, ClearSchemas, ClearNext,
         InvalidateTakesEntryLock, InvalidateResets
    <2> QED
      BY <1>4, <2>2, <2>3 DEF Step, Begin
  <1>5. CASE Begin(t) \/ Step(t)
    <2>1. FindSchemaAgain(t)
      BY <1>5 DEF Begin, Step, Goto, EntryReturns, Fail, EnterSchema, InGenerator, SchemaEntryStep,
         TryLoadEntries, LoadUnderLock, EnsureCollectionsLoaded, MarkCollectionsLoaded,
         ListCollectionNames, UseFreedGenerator, PublishEntries, FindEntry,
         CreateDefaultEntry, InferViewInfo, StoreViewInfo, ScanReset, ScanViews, ScanNext,
         DropEntry, CreateView, CatalogStep, LeaveScanSchemas, LookupFunction, Return, LookupSchema, ScanSchemas, CreateSchema,
         InstallGenerator, ListDatabases, FindSchema, CreateSchemaOnDemand,
         InstallGeneratorOnDemand, ClearViewInfoCache, ClearSchemas, ClearNext,
         InvalidateTakesEntryLock, InvalidateResets
    <2>2. wanted[t] \notin schemas
      BY <1>3, <2>1 DEF FindSchemaAgain, Sought
    <2> QED
      BY <1>2, <2>2
  <1>6. CASE Environment \/ UNCHANGED vars
    BY <1>3, <1>6 DEF Environment, MongoChange, vars, schemaEntryVars
  <1> QED
    BY <1>3, <1>4, <1>5, <1>6 DEF Next

(* With a database name, "Schema not found" is said of that database only    *)
(* while another thread is between setting the flag and creating the schema. *)
THEOREM MissesOnlyDuringScan == Spec => MissedSchemaOnlyDuringScan
  <1>1. TypeOK /\ SchemasInv /\ [Next]_vars =>
        [\A t \in Threads :
            /\ pc[t] = "find_again"
            /\ wanted[t] = DatabaseName
            /\ outcome'[t] = "no_schema"
            => \E u \in Threads \ {t} : pc[u] = "create_schema"]_vars
    BY MissStep
  <1>2. Spec => []SchemasInv
    BY TypeCorrect, SchemasInit, SchemasStep, PTL DEF Spec
  <1> QED
    BY <1>1, <1>2, TypeCorrect, PTL DEF Spec, MissedSchemaOnlyDuringScan

-----------------------------------------------------------------------------
(* Generators are replaced, never taken away.                                *)

GeneratorPcTypes ==
    /\ pc \in PcFunctions
    /\ cur \in [Threads -> Databases]
    /\ wanted \in [Threads -> Databases]
    /\ made \in [Threads -> Databases]
    /\ nested \in [Threads -> Databases \union {NoDatabase}]
    /\ generator \in [Databases -> Generators]

LEMMA GeneratorPcTypesHold == TypeOK => GeneratorPcTypes
  BY DEF TypeOK, GeneratorPcTypes, PcFunctions

LEMMA GeneratorsStay ==
  ASSUME TypeOK, NEW t \in Threads, SchemaEntryStep(t), NEW d \in Databases
  PROVE  generator'[d].present = generator[d].present
  <1>1. generator \in [Databases -> Generators] /\ cur[t] \in Databases
    BY DEF TypeOK
  <1>2. generator[cur[t]] \in [present : BOOLEAN, loaded : BOOLEAN, names : SUBSET Collections]
    BY <1>1 DEF Generators
  <1>3. CASE MarkCollectionsLoaded(t)
    BY <1>1, <1>2, <1>3 DEF MarkCollectionsLoaded
  <1>4. CASE ListCollectionNames(t)
    BY <1>1, <1>2, <1>4 DEF ListCollectionNames
  <1>5. CASE UNCHANGED generator
    BY <1>5
  <1> QED
    BY <1>3, <1>4, <1>5 DEF SchemaEntryStep, TryLoadEntries, LoadUnderLock,
       EnsureCollectionsLoaded, UseFreedGenerator, PublishEntries, FindEntry,
       CreateDefaultEntry, InferViewInfo, StoreViewInfo, ScanReset, ScanViews, ScanNext,
       DropEntry, CreateView

LEMMA ReplacedGenerator ==
  ASSUME TypeOK, NEW d \in Databases, SetDefaultGenerator(d), NEW e \in Databases,
         e = d \/ generator[e].present
  PROVE  generator'[e].present
  BY DEF TypeOK, SetDefaultGenerator, FreshGenerator

(* A thread that has created a schema does nothing before it has installed   *)
(* the generator.                                                            *)
LEMMA SchemaEntryKeepsInstallers ==
  ASSUME TypeOK, NEW t \in Threads, SchemaEntryStep(t), UNCHANGED catalogVars
  PROVE  /\ pc[t] \notin {"set_generator", "set_on_demand"}
         /\ \A u \in Threads \ {t} : /\ pc'[u] = pc[u] /\ made'[u] = made[u]
                                     /\ Sought(u)' = Sought(u)
  <1> USE GeneratorPcTypesHold DEF GeneratorPcTypes, PcFunctions, Goto, EntryReturns, InGenerator
  <1>1. \A u \in Threads : made'[u] = made[u] /\ Sought(u)' = Sought(u)
    BY DEF Sought, Nested
  <1>2. pc[t] \notin {"set_generator", "set_on_demand"} /\ \A u \in Threads \ {t} : pc'[u] = pc[u]
    BY DEF SchemaEntryStep, TryLoadEntries, LoadUnderLock, EnsureCollectionsLoaded,
       MarkCollectionsLoaded, ListCollectionNames, UseFreedGenerator, PublishEntries, FindEntry,
       CreateDefaultEntry, InferViewInfo, StoreViewInfo, ScanReset, ScanViews, ScanNext,
       DropEntry, CreateView
  <1> QED
    BY <1>1, <1>2

LEMMA GeneratorCatalog ==
  ASSUME TypeOK, SchemaGetsGenerator, NEW t \in Threads, CatalogStep(t)
  PROVE  SchemaGetsGenerator'
  <1>0. GeneratorPcTypes
    BY GeneratorPcTypesHold
  <1> USE <1>0 DEF GeneratorPcTypes, PcFunctions, SchemaGetsGenerator, Goto, Sought, Nested
  <1>1. CASE Return(t)
    BY <1>1 DEF Return
  <1>2. CASE LookupSchema(t)
    BY <1>2 DEF LookupSchema
  <1>3. CASE ScanSchemas(t)
    BY <1>3 DEF ScanSchemas, LeaveScanSchemas
  <1>4. CASE CreateSchema(t)
    BY <1>4 DEF CreateSchema
  <1>5. CASE InstallGenerator(t)
    <2>1. SetDefaultGenerator(made[t]) /\ schemas' = schemas /\ UNCHANGED <<wanted, nested>>
      BY <1>5 DEF InstallGenerator
    <2>2. \A u \in Threads \ {t} : pc'[u] = pc[u] /\ made'[u] = made[u]
      BY <1>5 DEF InstallGenerator, LeaveScanSchemas
    <2>3. pc[t] = "set_generator"
      BY <1>5 DEF InstallGenerator, LeaveScanSchemas
    <2>4. schemas \subseteq Databases
      BY DEF TypeOK
    <2>5. ASSUME NEW d \in schemas, d = made[t] \/ generator[d].present
          PROVE  generator'[d].present
      BY <2>1, <2>4, <2>5, ReplacedGenerator
    <2> QED
      BY <2>1, <2>2, <2>3, <2>5
  <1>6. CASE ListDatabases(t)
    BY <1>6 DEF ListDatabases, LeaveScanSchemas, Fail, EntryReturns
  <1>7. CASE FindSchema(t)
    BY <1>7 DEF FindSchema, EnterSchema
  <1>8. CASE FindSchemaAgain(t)
    BY <1>8 DEF FindSchemaAgain, EnterSchema, Fail
  <1>9. CASE CreateSchemaOnDemand(t)
    BY <1>9 DEF CreateSchemaOnDemand
  <1>10. CASE InstallGeneratorOnDemand(t)
    <2>1. SetDefaultGenerator(Sought(t)) /\ schemas' = schemas /\ UNCHANGED <<wanted, made>>
      BY <1>10 DEF InstallGeneratorOnDemand
    <2>2. \A u \in Threads \ {t} : pc'[u] = pc[u] /\ nested'[u] = nested[u]
      BY <1>10 DEF InstallGeneratorOnDemand, EnterSchema
    <2>3. pc[t] = "set_on_demand"
      BY <1>10 DEF InstallGeneratorOnDemand, EnterSchema
    <2>4. schemas \subseteq Databases
      BY DEF TypeOK
    <2>5. ASSUME NEW d \in schemas, d = Sought(t) \/ generator[d].present
          PROVE  generator'[d].present
      BY <2>1, <2>4, <2>5, ReplacedGenerator
    <2> QED
      BY <2>1, <2>2, <2>3, <2>5
  <1>11. CASE ClearViewInfoCache(t)
    BY <1>11 DEF ClearViewInfoCache
  <1>12. CASE ClearSchemas(t)
    BY <1>12 DEF ClearSchemas
  <1>13. CASE ClearNext(t)
    BY <1>13 DEF ClearNext
  <1>14. CASE InvalidateTakesEntryLock(t)
    BY <1>14 DEF InvalidateTakesEntryLock
  <1>15. CASE InvalidateResets(t)
    BY <1>15 DEF InvalidateResets, InvalidateCache
  <1>16. CASE LookupFunction(t)
    BY <1>16 DEF LookupFunction
  <1> QED
    BY <1>1, <1>2, <1>3, <1>4, <1>5, <1>6, <1>7, <1>8, <1>9, <1>10, <1>11,
       <1>12, <1>13, <1>14, <1>15, <1>16 DEF CatalogStep

LEMMA GeneratorStep == TypeOK /\ SchemaGetsGenerator /\ [Next]_vars => SchemaGetsGenerator'
  <1> SUFFICES ASSUME TypeOK, SchemaGetsGenerator, [Next]_vars PROVE SchemaGetsGenerator'
    OBVIOUS
  <1>0. schemas \subseteq Databases
    BY DEF TypeOK
  <1>1. CASE UNCHANGED vars
    BY <1>1 DEF vars, schemaEntryVars, SchemaGetsGenerator, Sought, Nested
  <1>2. ASSUME NEW t \in Threads, Begin(t) PROVE SchemaGetsGenerator'
    <2>1. pc[t] = "idle" /\ \A u \in Threads \ {t} : pc'[u] = pc[u] /\ wanted'[u] = wanted[u]
      BY <1>2, GeneratorPcTypesHold DEF Begin, Goto, GeneratorPcTypes, PcFunctions
    <2>2. UNCHANGED <<schemas, generator, made, nested>>
      BY <1>2 DEF Begin
    <2> QED
      BY <2>1, <2>2 DEF SchemaGetsGenerator, Sought, Nested
  <1>3. ASSUME NEW t \in Threads, SchemaEntryStep(t), UNCHANGED catalogVars
        PROVE  SchemaGetsGenerator'
    <2>1. \A d \in Databases : generator'[d].present = generator[d].present
      BY <1>3, GeneratorsStay
    <2>2. schemas' = schemas
      BY <1>3
    <2> QED
      BY <1>0, <1>3, <2>1, <2>2, SchemaEntryKeepsInstallers DEF SchemaGetsGenerator
  <1>4. ASSUME NEW t \in Threads, CatalogStep(t) PROVE SchemaGetsGenerator'
    BY <1>4, GeneratorCatalog
  <1>5. CASE Environment
    BY <1>5 DEF Environment, MongoChange, SchemaGetsGenerator, Sought, Nested
  <1> QED
    BY <1>1, <1>2, <1>3, <1>4, <1>5 DEF Next, Step

(* No schema is left without a generator for good: one that has none is one  *)
(* whose creator is about to install it.                                     *)
THEOREM SchemasGetGenerators == Spec => []SchemaGetsGenerator
  <1>1. Init => SchemaGetsGenerator
    BY DEF Init, SchemaGetsGenerator
  <1> QED
    BY <1>1, TypeCorrect, GeneratorStep, PTL DEF Spec

=============================================================================
