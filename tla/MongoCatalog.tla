---------------------------- MODULE MongoCatalog ----------------------------
(***************************************************************************)
(* The catalog of one ATTACHed MongoDB: its map of schemas, the flag that  *)
(* says the map is filled, and the operations DuckDB's query threads call: *)
(* looking up a collection, listing collections, DROP VIEW, CREATE VIEW    *)
(* and mongo_clear_cache.  Source: mongo_catalog.cpp; the steps inside a   *)
(* schema are those of MongoSchemaEntry.tla.                               *)
(***************************************************************************)
EXTENDS MongoSchemaEntry

CONSTANTS
    DatabaseName,  (* the database named in ATTACH, or NoDatabase            *)
    NoDatabase,
    Main,          (* the schema "main" of a catalog without a database name *)
    Operations,    (* the operations query threads perform                   *)
    SearchPaths    (* the schemas of this catalog that USE may have put on a *)
                   (* connection's search path                               *)

ASSUME CatalogAssumption ==
    /\ NoDatabase \notin Databases
    /\ DatabaseName \in Databases \union {NoDatabase}
    /\ DatabaseName = NoDatabase => Main \in Databases
    /\ Databases # {} /\ Collections # {}
    /\ Operations \subseteq OperationNames
    /\ SearchPaths \subseteq Databases

VARIABLES
    schemas,         (* keys of MongoCatalog::schemas                        *)
    schemasScanned,  (* MongoCatalog::schemas_scanned                        *)
    schemasLock,     (* MongoCatalog::schemas_lock, its owner                *)
    wanted,          (* the schema name an operation asks for                *)
    pendingSchemas,  (* schemas a loop of ScanSchemas or ClearCache has left *)
    made,            (* the schema ScanSchemas has just created              *)
    visited,         (* whether ScanSchemas called back for wanted           *)
    nested           (* the schema that binding a view's query looks         *)
                     (* functions up in, NoDatabase outside of that lookup   *)

catalogVars == <<schemas, schemasScanned, schemasLock, wanted, pendingSchemas, made,
                 visited, nested>>
vars == <<schemaEntryVars, catalogVars>>

CatalogPcs ==
    {"idle", "lookup_schema", "scan_schemas", "list_databases", "create_schema",
     "set_generator", "find_schema", "find_again", "on_demand", "set_on_demand",
     "clear_infos", "clear_schemas", "clear_next", "clear_entry", "clear_load"}

Pcs == SchemaEntryPcs \union CatalogPcs

TypeOK ==
    /\ existing \in [Databases -> SUBSET Collections]
    /\ version \in [Databases -> [Collections -> InferredVersions]]
    /\ viewInfoCache \in [Databases -> [Collections -> InferredVersions \union {NoView}]]
    /\ views \in [Databases -> [Collections -> InferredVersions \union {NoView, UserView}]]
    /\ generator \in [Databases -> Generators]
    /\ isLoaded \in [Databases -> BOOLEAN]
    /\ loadedNames \in [Databases -> SUBSET Collections]
    /\ entryLock \in [Databases -> Threads \union {NoThread}]
    /\ loadLock \in [Databases -> Threads \union {NoThread}]
    /\ dangling \subseteq Threads
    /\ pc \in [Threads -> Pcs]
    /\ op \in [Threads -> OperationNames]
    /\ cur \in [Threads -> Databases]
    /\ coll \in [Threads -> Collections]
    /\ pendingColls \in [Threads -> SUBSET Collections]
    /\ got \in [Threads -> SUBSET Collections]
    /\ seen \in [Threads -> InferredVersions \union {NoView}]
    /\ outcome \in [Threads -> Outcomes]
    /\ schemas \subseteq Databases
    /\ schemasScanned \in BOOLEAN
    /\ schemasLock \in Threads \union {NoThread}
    /\ wanted \in [Threads -> Databases]
    /\ pendingSchemas \in [Threads -> SUBSET Databases]
    /\ made \in [Threads -> Databases]
    /\ visited \in [Threads -> BOOLEAN]
    /\ nested \in [Threads -> Databases \union {NoDatabase}]

(* What an operation's unused parameters and an idle thread's locals hold.   *)
SomeDatabase == CHOOSE d \in Databases : TRUE
SomeCollection == CHOOSE c \in Collections : TRUE

(* The catalog right after ATTACH.  MongoDB holds any collections; there is  *)
(* no database "main", and an idle thread's locals do not matter.            *)
Init ==
    /\ existing \in [Databases -> SUBSET Collections]
    /\ Main \in Databases => existing[Main] = {}
    /\ version = [d \in Databases |-> [c \in Collections |-> 1]]
    /\ viewInfoCache = [d \in Databases |-> [c \in Collections |-> NoView]]
    /\ views = [d \in Databases |-> [c \in Collections |-> NoView]]
    /\ generator = [d \in Databases |-> NoGenerator]
    /\ isLoaded = [d \in Databases |-> FALSE]
    /\ loadedNames = [d \in Databases |-> {}]
    /\ entryLock = [d \in Databases |-> NoThread]
    /\ loadLock = [d \in Databases |-> NoThread]
    /\ dangling = {}
    /\ pc = [t \in Threads |-> "idle"]
    /\ op = [t \in Threads |-> "lookup"]
    /\ cur = [t \in Threads |-> SomeDatabase]
    /\ coll = [t \in Threads |-> SomeCollection]
    /\ pendingColls = [t \in Threads |-> {}]
    /\ got = [t \in Threads |-> {}]
    /\ seen = [t \in Threads |-> NoView]
    /\ outcome = [t \in Threads |-> "none"]
    /\ schemas = {}
    /\ schemasScanned = FALSE
    /\ schemasLock = NoThread
    /\ wanted = cur
    /\ pendingSchemas = [t \in Threads |-> {}]
    /\ made = cur
    /\ visited = [t \in Threads |-> FALSE]
    /\ nested = [t \in Threads |-> NoDatabase]

SchemasFree == schemasLock = NoThread

(* A lookup that binding a view's query makes runs above the frame that      *)
(* holds entry_lock of cur, and asks for the schema on the search path.      *)
Nested(t) == nested[t] # NoDatabase
Sought(t) == IF Nested(t) THEN nested[t] ELSE wanted[t]

-----------------------------------------------------------------------------
(* A DuckDB thread calls the catalog, and takes the result back.             *)

FirstPc(o) ==
    CASE o = "scan"  -> "scan_schemas"
      [] o = "clear" -> "clear_infos"
      [] OTHER       -> "lookup_schema"

Begin(t) ==
    \E o \in Operations, d \in Databases, c \in Collections :
        /\ o = "clear" => d = SomeDatabase
        /\ o \in {"scan", "clear"} => c = SomeCollection
        /\ Goto(t, "idle", FirstPc(o))
        /\ op' = [op EXCEPT ![t] = o]
        /\ wanted' = [wanted EXCEPT ![t] = d]
        /\ coll' = [coll EXCEPT ![t] = c]
        /\ UNCHANGED <<mongo, entryVars, locks, cur, pendingColls, got, seen, outcome,
                       schemas, schemasScanned, schemasLock, pendingSchemas, made, visited,
                       nested>>

Return(t) ==
    /\ Goto(t, "returned", "idle")
    /\ outcome' = [outcome EXCEPT ![t] = "none"]
    /\ visited' = [visited EXCEPT ![t] = FALSE]
    /\ op' = [op EXCEPT ![t] = "lookup"]
    /\ cur' = [cur EXCEPT ![t] = SomeDatabase]
    /\ wanted' = [wanted EXCEPT ![t] = SomeDatabase]
    /\ coll' = [coll EXCEPT ![t] = SomeCollection]
    /\ UNCHANGED <<mongo, entryVars, locks, pendingColls, got, seen,
                   schemas, schemasScanned, schemasLock, pendingSchemas, made, nested>>

Fail(t, from, result) ==
    /\ Goto(t, from, "returned")
    /\ outcome' = [outcome EXCEPT ![t] = result]

-----------------------------------------------------------------------------
(* ScanSchemas.                                                              *)

(* Where a thread goes when ScanSchemas is over: LookupSchema goes on with   *)
(* its search, a listing with the schema the callback gave it.               *)
AfterScanSchemas(t, calledBack) ==
    CASE op[t] # "scan" \/ Nested(t)                -> "find_schema"
      [] op[t] = "scan" /\ ~Nested(t) /\ calledBack -> "scan_reset"
      [] OTHER                                      -> "returned"

LeaveScanSchemas(t, from, calledBack) ==
    /\ Goto(t, from, AfterScanSchemas(t, calledBack))
    /\ cur' = IF Nested(t) THEN cur ELSE [cur EXCEPT ![t] = wanted[t]]
    /\ made' = [made EXCEPT ![t] = SomeDatabase]

(* The flag is set before any schema exists.                                 *)
ScanSchemas(t) ==
    /\ SchemasFree
    /\ \/ /\ schemasScanned
          /\ LeaveScanSchemas(t, "scan_schemas", wanted[t] \in schemas)
          /\ UNCHANGED <<schemasScanned, pendingSchemas>>
       \/ /\ ~schemasScanned
          /\ Goto(t, "scan_schemas", "create_schema")
          /\ schemasScanned' = TRUE
          /\ pendingSchemas' = [pendingSchemas EXCEPT ![t] =
                                  {IF DatabaseName = NoDatabase THEN Main ELSE DatabaseName}]
          /\ UNCHANGED <<cur, made>>
    /\ UNCHANGED <<mongo, entryVars, locks, op, coll, pendingColls, got, seen, outcome,
                   schemas, schemasLock, wanted, visited, nested>>

(* CreateSchema, IGNORE_ON_CONFLICT: the entry there is kept.                *)
CreateSchema(t) ==
    /\ SchemasFree
    /\ \E d \in pendingSchemas[t] :
          /\ Goto(t, "create_schema", "set_generator")
          /\ schemas' = schemas \union {d}
          /\ made' = [made EXCEPT ![t] = d]
          /\ pendingSchemas' = [pendingSchemas EXCEPT ![t] = @ \ {d}]
    /\ UNCHANGED <<mongo, entryVars, locks, locals, schemasScanned, schemasLock, wanted,
                   visited, nested>>

(* A new generator for the schema, and the callback.  "main" is followed by  *)
(* the databases MongoDB lists.                                              *)
InstallGenerator(t) ==
    LET d == made[t]
        hit == visited[t] \/ d = wanted[t]
        last == pendingSchemas[t] = {}
    IN
    /\ SetDefaultGenerator(d)
    /\ visited' = [visited EXCEPT ![t] = hit]
    /\ \/ /\ last
          /\ DatabaseName = NoDatabase
          /\ d = Main
          /\ Goto(t, "set_generator", "list_databases")
          /\ UNCHANGED <<cur, made>>
       \/ /\ last
          /\ DatabaseName # NoDatabase \/ d # Main
          /\ LeaveScanSchemas(t, "set_generator", hit)
       \/ /\ ~last
          /\ Goto(t, "set_generator", "create_schema")
          /\ UNCHANGED <<cur, made>>
    /\ UNCHANGED <<mongo, viewInfoCache, views, isLoaded, loadedNames, locks,
                   op, coll, pendingColls, got, seen, outcome,
                   schemas, schemasScanned, schemasLock, wanted, pendingSchemas, nested>>

(* list_database_names: MongoDB lists the databases that hold collections.   *)
(* A failure leaves by an exception, the flag still set; out of a nested     *)
(* lookup it goes through CreateDefaultEntry too.                            *)
ListDatabases(t) ==
    LET listed == {d \in Databases : existing[d] # {}} IN
    /\ \/ /\ listed # {}
          /\ Goto(t, "list_databases", "create_schema")
          /\ pendingSchemas' = [pendingSchemas EXCEPT ![t] = listed]
          /\ UNCHANGED <<entryLock, cur, outcome, made, nested>>
       \/ /\ listed = {}
          /\ LeaveScanSchemas(t, "list_databases", visited[t])
          /\ UNCHANGED <<entryLock, pendingSchemas, outcome, nested>>
       \/ /\ MayFail
          /\ ~Nested(t)
          /\ Fail(t, "list_databases", "error")
          /\ UNCHANGED <<entryLock, cur, pendingSchemas, made, nested>>
       \/ /\ MayFail
          /\ Nested(t)
          /\ EntryReturns(t, "list_databases", "error")
          /\ entryLock' = Release(entryLock, cur[t])
          /\ nested' = [nested EXCEPT ![t] = NoDatabase]
          /\ UNCHANGED <<cur, pendingSchemas, made>>
    /\ UNCHANGED <<mongo, entryVars, loadLock, op, coll, pendingColls, got, seen,
                   schemas, schemasScanned, schemasLock, wanted, visited>>

-----------------------------------------------------------------------------
(* LookupSchema.                                                             *)

(* To bind a view's query DuckDB looks the function mongo_scan up in every   *)
(* schema on the search path, and with USE one of this catalog is on it.     *)
(* The thread still owns the entry_lock under which it creates the entry.    *)
LookupFunction(t) ==
    /\ Goto(t, "infer", "lookup_schema")
    /\ \E d \in SearchPaths : nested' = [nested EXCEPT ![t] = d]
    /\ UNCHANGED <<mongo, entryVars, locks, locals, schemas, schemasScanned, schemasLock,
                   wanted, pendingSchemas, made, visited>>

(* What a thread does with the schema it looked up: CREATE VIEW goes to      *)
(* CreateView; LookupEntry starts by reading is_loaded, which is             *)
(* TryLoadEntries' first step, and for a function returns at once.           *)
EnterSchema(t, from, d) ==
    \/ /\ Nested(t)
       /\ Goto(t, from, "bind")
       /\ nested' = [nested EXCEPT ![t] = NoDatabase]
       /\ UNCHANGED cur
    \/ /\ ~Nested(t)
       /\ Goto(t, from, IF op[t] = "create_view" THEN "create_view" ELSE "try_load")
       /\ cur' = [cur EXCEPT ![t] = d]
       /\ UNCHANGED nested

(* schemas_scanned is read without the lock.                                 *)
LookupSchema(t) ==
    /\ Goto(t, "lookup_schema", IF schemasScanned THEN "find_schema" ELSE "scan_schemas")
    /\ UNCHANGED <<mongo, entryVars, locks, locals, catalogVars>>

(* With a database name every name asked for gets that database's schema.    *)
FindSchema(t) ==
    LET d == IF DatabaseName = NoDatabase THEN Sought(t) ELSE DatabaseName IN
    /\ SchemasFree
    /\ \/ /\ d \in schemas
          /\ EnterSchema(t, "find_schema", d)
       \/ /\ d \notin schemas
          /\ Goto(t, "find_schema", IF DatabaseName = NoDatabase THEN "on_demand" ELSE "find_again")
          /\ UNCHANGED <<cur, nested>>
    /\ UNCHANGED <<mongo, entryVars, locks, op, coll, pendingColls, got, seen, outcome,
                   schemas, schemasScanned, schemasLock, wanted, pendingSchemas, made, visited>>

(* The second search, under the name asked for.  A function lookup makes no  *)
(* error of a missing schema.                                                *)
FindSchemaAgain(t) ==
    /\ SchemasFree
    /\ \/ /\ Sought(t) \in schemas \/ Nested(t)
          /\ EnterSchema(t, "find_again", Sought(t))
          /\ UNCHANGED outcome
       \/ /\ Sought(t) \notin schemas /\ ~Nested(t)
          /\ Fail(t, "find_again", "no_schema")
          /\ UNCHANGED <<cur, nested>>
    /\ UNCHANGED <<mongo, entryVars, locks, op, coll, pendingColls, got, seen,
                   schemas, schemasScanned, schemasLock, wanted, pendingSchemas, made, visited>>

(* Mutant: the schema made gets no generator.                                *)
CreateSchemaOnDemandBare(t) ==
    /\ SchemasFree
    /\ EnterSchema(t, "on_demand", Sought(t))
    /\ schemas' = schemas \union {Sought(t)}
    /\ UNCHANGED <<mongo, entryVars, locks, op, coll, pendingColls, got, seen, outcome,
                   schemasScanned, schemasLock, wanted, pendingSchemas, made, visited>>

(* Without a database name a schema is made for any name.                    *)
CreateSchemaOnDemand(t) ==
    /\ SchemasFree
    /\ Goto(t, "on_demand", "set_on_demand")
    /\ schemas' = schemas \union {Sought(t)}
    /\ UNCHANGED <<mongo, entryVars, locks, locals, schemasScanned, schemasLock,
                   wanted, pendingSchemas, made, visited, nested>>

InstallGeneratorOnDemand(t) ==
    /\ SetDefaultGenerator(Sought(t))
    /\ EnterSchema(t, "set_on_demand", Sought(t))
    /\ UNCHANGED <<mongo, viewInfoCache, views, isLoaded, loadedNames, locks,
                   op, coll, pendingColls, got, seen, outcome,
                   schemas, schemasScanned, schemasLock, wanted, pendingSchemas, made, visited>>

-----------------------------------------------------------------------------
(* ClearCache, called by mongo_clear_cache.  collection_cache, which it also *)
(* clears, is never read and not modelled.                                   *)

ClearViewInfoCache(t) ==
    /\ Goto(t, "clear_infos", "clear_schemas")
    /\ viewInfoCache' = [d \in Databases |-> [c \in Collections |-> NoView]]
    /\ UNCHANGED <<mongo, views, generator, isLoaded, loadedNames, dangling, locks, locals, catalogVars>>

(* schemas_lock is held from here until the last schema is invalidated.      *)
ClearSchemas(t) ==
    /\ SchemasFree
    /\ Goto(t, "clear_schemas", "clear_next")
    /\ schemasLock' = t
    /\ pendingSchemas' = [pendingSchemas EXCEPT ![t] = schemas]
    /\ UNCHANGED <<mongo, entryVars, locks, locals, schemas, schemasScanned, wanted, made,
                   visited, nested>>

(* Mutant: the schemas go, the flag that says they are there stays.          *)
ClearNextForgetsFlag(t) ==
    /\ \/ \E d \in pendingSchemas[t] :
             /\ Goto(t, "clear_next", "clear_entry")
             /\ cur' = [cur EXCEPT ![t] = d]
             /\ pendingSchemas' = [pendingSchemas EXCEPT ![t] = @ \ {d}]
             /\ UNCHANGED <<outcome, schemas, schemasLock>>
       \/ /\ pendingSchemas[t] = {}
          /\ Goto(t, "clear_next", "returned")
          /\ schemas' = {}
          /\ schemasLock' = NoThread
          /\ outcome' = [outcome EXCEPT ![t] = "done"]
          /\ UNCHANGED <<cur, pendingSchemas>>
    /\ UNCHANGED <<mongo, entryVars, locks, op, coll, pendingColls, got, seen,
                   schemasScanned, wanted, made, visited, nested>>

ClearNext(t) ==
    /\ \/ \E d \in pendingSchemas[t] :
             /\ Goto(t, "clear_next", "clear_entry")
             /\ cur' = [cur EXCEPT ![t] = d]
             /\ pendingSchemas' = [pendingSchemas EXCEPT ![t] = @ \ {d}]
             /\ UNCHANGED <<outcome, schemasScanned, schemasLock>>
       \/ /\ pendingSchemas[t] = {}
          /\ Goto(t, "clear_next", "returned")
          /\ schemasScanned' = FALSE
          /\ schemasLock' = NoThread
          /\ outcome' = [outcome EXCEPT ![t] = "done"]
          /\ UNCHANGED <<cur, pendingSchemas>>
    /\ UNCHANGED <<mongo, entryVars, locks, op, coll, pendingColls, got, seen,
                   schemas, wanted, made, visited, nested>>

(* InvalidateCache takes entry_lock first, then load_lock.                   *)
InvalidateTakesEntryLock(t) ==
    /\ Free(entryLock, cur[t])
    /\ Goto(t, "clear_entry", "clear_load")
    /\ entryLock' = Take(entryLock, cur[t], t)
    /\ UNCHANGED <<mongo, entryVars, loadLock, locals, catalogVars>>

InvalidateResets(t) ==
    /\ InvalidateCache(cur[t])
    /\ Goto(t, "clear_load", "clear_next")
    /\ UNCHANGED <<mongo, viewInfoCache, generator, dangling, loadLock, locals, catalogVars>>

-----------------------------------------------------------------------------

CatalogStep(t) ==
    \/ Return(t)
    \/ LookupSchema(t)
    \/ ScanSchemas(t)
    \/ CreateSchema(t)
    \/ InstallGenerator(t)
    \/ ListDatabases(t)
    \/ LookupFunction(t)
    \/ FindSchema(t)
    \/ FindSchemaAgain(t)
    \/ CreateSchemaOnDemand(t)
    \/ InstallGeneratorOnDemand(t)
    \/ ClearViewInfoCache(t)
    \/ ClearSchemas(t)
    \/ ClearNext(t)
    \/ InvalidateTakesEntryLock(t)
    \/ InvalidateResets(t)

(* What a thread inside an operation does.                                   *)
Step(t) ==
    \/ CatalogStep(t)
    \/ SchemaEntryStep(t) /\ UNCHANGED catalogVars

Environment ==
    \E d \in Databases \ {Main}, c \in Collections :
        MongoChange(d, c) /\ UNCHANGED catalogVars

Next ==
    \/ \E t \in Threads : Begin(t) \/ Step(t)
    \/ Environment

Spec == Init /\ [][Next]_vars

-----------------------------------------------------------------------------
(* Properties.                                                               *)

(* Where a thread owns a mutex for longer than one action.  In the generator *)
(* it owns load_lock if TryLoadEntries brought it there, entry_lock if       *)
(* LookupEntry or GetOrCreateViewEntry did; a nested lookup runs under that  *)
(* entry_lock too.                                                           *)
OwnsSchemasLock(t) == pc[t] \in {"clear_next", "clear_entry", "clear_load"}
OwnsLoadLock(t) == pc[t] = "publish" \/ (pc[t] \in InGenerator /\ ForLoad(t))
OwnsEntryLock(t) ==
    \/ pc[t] \in {"create", "infer", "bind", "store", "clear_load"}
    \/ pc[t] \in InGenerator /\ ~ForLoad(t)
    \/ Nested(t)

(* A mutex belongs to a thread exactly while that thread runs the code the   *)
(* mutex guards, on the very schema it guards: no way out of TryLoadEntries, *)
(* LookupEntry, Scan or ClearCache (a name not found, a failed call, an      *)
(* exception, a generator freed meanwhile) keeps a mutex or gives one away.  *)
LockOwnership ==
    \A t \in Threads :
        /\ schemasLock = t <=> OwnsSchemasLock(t)
        /\ \A d \in Databases :
              /\ entryLock[d] = t <=> OwnsEntryLock(t) /\ cur[t] = d
              /\ loadLock[d] = t <=> OwnsLoadLock(t) /\ cur[t] = d

SchemasLockPcs == {"scan_schemas", "create_schema", "find_schema", "find_again",
                   "on_demand", "clear_schemas"}
EntryLockPcs == {"publish", "entry", "scan_views", "drop_entry", "create_view", "clear_entry"}
LoadLockPcs == {"load", "clear_load"}
InstallPcs == {"set_generator", "set_on_demand"}

(* The owner of the mutex thread t is about to take.                         *)
WaitsFor(t, u) ==
    \/ pc[t] \in SchemasLockPcs /\ schemasLock = u
    \/ pc[t] \in EntryLockPcs /\ entryLock[cur[t]] = u
    \/ pc[t] = "set_generator" /\ entryLock[made[t]] = u
    \/ pc[t] = "set_on_demand" /\ entryLock[Sought(t)] = u
    \/ pc[t] \in LoadLockPcs /\ loadLock[cur[t]] = u

Waits(t, u) == t # u /\ WaitsFor(t, u)

(* The order of the mutexes: schemas_lock, load_lock, entry_lock; a thread   *)
(* that is about to take none, or looks a function up under entry_lock,      *)
(* ranks last.                                                               *)
WaitLevel(t) ==
    IF Nested(t) THEN 4 ELSE
    CASE pc[t] \in SchemasLockPcs                -> 1
      [] pc[t] \in LoadLockPcs                   -> 2
      [] pc[t] \in EntryLockPcs \union InstallPcs -> 3
      [] OTHER                                   -> 4

(* Every chain of threads waiting for each other climbs the lock order, so   *)
(* it cannot close into a cycle, but for two inversions: a thread that       *)
(* clears the cache owns entry_lock and waits for load_lock inside           *)
(* InvalidateCache, and a thread that binds a view's query owns entry_lock   *)
(* while the function lookup waits for schemas_lock or another entry_lock.   *)
(* About the order in which TryLoadEntries, LookupEntry, Scan,               *)
(* SetDefaultGenerator, LookupSchema and ClearCache take the three mutexes.  *)
WaitsClimb ==
    \A t, u \in Threads :
        Waits(t, u) /\ ~Nested(t) /\ pc[u] # "clear_load" => WaitLevel(t) < WaitLevel(u)

(* No two threads wait for each other.  mongo_schema_entry.hpp:55 says       *)
(* load_lock is separate "to prevent deadlocks".                             *)
NoMutualWait ==
    \A t, u \in Threads : ~(Waits(t, u) /\ Waits(u, t))

(* No thread waits for a mutex it owns itself, for ever.  README.md:375 says *)
(* "After clearing the cache, the next query will re-scan schemas and        *)
(* re-infer collection schemas."                                             *)
NoSelfWait == \A t \in Threads : ~WaitsFor(t, t)

(* A view made from a collection has the very schema the view-info cache     *)
(* holds for it: LookupEntry's fill, Scan's fill, erasing, dropping and      *)
(* clearing never leave an old view beside a newer cached schema.            *)
CacheAgreesWithViews ==
    \A d \in Databases, c \in Collections :
        \/ views[d][c] \in {NoView, UserView}
        \/ viewInfoCache[d][c] = NoView
        \/ views[d][c] = viewInfoCache[d][c]

(* A thread whose generator is destroyed under it is always one that loads   *)
(* collection names under load_lock: creating an entry under entry_lock is   *)
(* safe from SetDefaultGenerator.                                            *)
DanglingOnlyWhileLoading ==
    \A t \in dangling : pc[t] \in InGenerator /\ loadLock[cur[t]] = t

(* A schema in the map has a generator, or a thread is about to install it:  *)
(* no schema is left for good without a way to find its collections.         *)
SchemaGetsGenerator ==
    \A d \in schemas :
        \/ generator[d].present
        \/ \E t \in Threads : \/ pc[t] = "set_generator" /\ made[t] = d
                              \/ pc[t] = "set_on_demand" /\ Sought(t) = d

(* "Schema not found" for the attached database itself is only ever said     *)
(* while another thread is between setting schemas_scanned and creating the  *)
(* schema: LookupSchema trusts the flag before the map is filled.            *)
MissedSchemaOnlyDuringScan ==
    [][\A t \in Threads :
          /\ pc[t] = "find_again"
          /\ wanted[t] = DatabaseName
          /\ outcome'[t] = "no_schema"
          => \E u \in Threads \ {t} : pc[u] = "create_schema"]_vars

(* Seen from outside, the catalog is a registry of views that changes one    *)
(* view at a time.                                                           *)
Registry == INSTANCE ViewRegistry WITH remembered <- viewInfoCache
ImplementsRegistry == Registry!Spec

-----------------------------------------------------------------------------
(* Liveness.  A thread inside a call keeps running, and a mutex released     *)
(* again and again is one day given to a thread that waits for it.  Nothing  *)
(* makes a query start or MongoDB change.                                    *)

Fairness == \A t \in Threads : SF_vars(Step(t))
FairSpec == Spec /\ Fairness

(* Every catalog operation comes back to its caller.                         *)
OperationsReturn ==
    \A t \in Threads : pc[t] # "idle" ~> pc[t] = "idle"

(* The database whose collections an operation is about.                     *)
AskedFor(t) == IF DatabaseName = NoDatabase THEN wanted[t] ELSE DatabaseName

(* No client has changed a collection since ATTACH.                          *)
MongoAsAttached == \A d \in Databases, c \in Collections : version[d][c] = 1

(* While MongoDB answers and does not change, a collection that exists is    *)
(* reported missing at most while the first queries race with each other,    *)
(* never for good.                                                           *)
MissesAreTransient ==
    []MongoAsAttached =>
    <>[](\A t \in Threads :
            op[t] = "lookup" /\ outcome[t] \in {"not_found", "no_schema"}
            => coll[t] \notin existing[AskedFor(t)])

=============================================================================
