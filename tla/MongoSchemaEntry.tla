-------------------------- MODULE MongoSchemaEntry --------------------------
(***************************************************************************)
(* One MongoSchemaEntry per schema of an attached MongoDB catalog, with    *)
(* the MongoCollectionGenerator installed in it and the catalog-wide       *)
(* view-info cache its generator fills.  Sources: mongo_schema_entry.cpp   *)
(* and the generator class of mongo_catalog.cpp.                           *)
(*                                                                         *)
(* Threads are DuckDB query threads.  A thread's program counter names the *)
(* next piece of code it runs without touching a lock or MongoDB in        *)
(* between; each action is one such piece.  A mutex acquired and released  *)
(* within one piece appears only as the guard that it is free.             *)
(* MongoCatalog.tla gives the threads their way into this module.          *)
(***************************************************************************)
EXTENDS Integers

CONSTANTS
    Threads,      (* DuckDB query threads                                   *)
    NoThread,     (* the owner of a free mutex                              *)
    Databases,    (* names a query may use for a schema                     *)
    Collections,  (* collection names, equal up to case when identical      *)
    MaxVersion,   (* bound: number of schema versions a collection goes     *)
                  (* through in MongoDB                                     *)
    MayFail       (* whether calls to MongoDB may fail                      *)

ASSUME SchemaEntryAssumption ==
    /\ NoThread \notin Threads
    /\ MaxVersion \in Nat \ {0}
    /\ MayFail \in BOOLEAN

VARIABLES
    existing,       (* MongoDB: existing[d], the collections of database d    *)
    version,        (* MongoDB: version[d][c], what schema inference sees now *)
    viewInfoCache,  (* MongoCatalog::view_info_cache, 0 where absent          *)
    views,          (* MongoSchemaEntry::views, 0 where absent                *)
    generator,      (* MongoSchemaEntry::default_generator                    *)
    isLoaded,       (* MongoSchemaEntry::is_loaded                            *)
    loadedNames,    (* MongoSchemaEntry::loaded_collection_names              *)
    entryLock,      (* MongoSchemaEntry::entry_lock, its owner                *)
    loadLock,       (* MongoSchemaEntry::load_lock, its owner                 *)
    dangling,       (* threads running in a generator that was destroyed      *)
    pc,             (* where each thread is                                   *)
    op,             (* the catalog operation it performs                      *)
    cur,            (* the schema it works on                                 *)
    coll,           (* the collection it works on                             *)
    pendingColls,   (* Scan: collections_to_create still to do                *)
    got,            (* TryLoadEntries: its local collection_names             *)
    seen,           (* CreateEntryForCollection: the view info just inferred  *)
    outcome         (* what the operation gave its caller                     *)

mongo == <<existing, version>>
locks == <<entryLock, loadLock>>
entryVars == <<viewInfoCache, views, generator, isLoaded, loadedNames, dangling>>
locals == <<op, cur, coll, pendingColls, got, seen, outcome>>
schemaEntryVars == <<mongo, entryVars, locks, pc, locals>>

(* Versions of a view's column types.  0 stands for no view; UserView for a  *)
(* view the user created, whose columns inference has no part in.            *)
NoView == 0
UserView == -1
InferredVersions == 1..MaxVersion

NoGenerator == [present |-> FALSE, loaded |-> FALSE, names |-> {}]
FreshGenerator == [present |-> TRUE, loaded |-> FALSE, names |-> {}]
Generators == [present : BOOLEAN, loaded : BOOLEAN, names : SUBSET Collections]

OperationNames == {"lookup", "scan", "clear", "drop_view", "create_view"}
Outcomes == {"none", "found", "not_found", "no_schema", "error", "done"}

SchemaEntryPcs ==
    {"try_load", "load", "ensure", "mark", "fetch", "publish", "entry", "create",
     "infer", "bind", "store", "scan_reset", "scan_views", "scan_next", "drop_entry",
     "create_view", "returned"}

(* Program points inside GetDefaultEntries or CreateDefaultEntry, hence in     *)
(* the generator object.                                                      *)
InGenerator == {"ensure", "mark", "fetch"}

Goto(t, from, to) ==
    /\ pc[t] = from
    /\ pc' = [pc EXCEPT ![t] = to]

Free(lock, d) == lock[d] = NoThread
Take(lock, d, t) == [lock EXCEPT ![d] = t]
Release(lock, d) == [lock EXCEPT ![d] = NoThread]

Names(d) == generator[d].names
Shown(d) == {c \in Collections : views[d][c] # NoView}

-----------------------------------------------------------------------------
(* MongoDB, the environment.                                                 *)

(* Some client creates, drops or rewrites collection c.  Every such change   *)
(* changes what inference sees.                                              *)
MongoChange(d, c) ==
    /\ version[d][c] < MaxVersion
    /\ version' = [version EXCEPT ![d][c] = @ + 1]
    /\ \E there \in BOOLEAN :
          existing' = [existing EXCEPT ![d] = IF there THEN @ \union {c} ELSE @ \ {c}]
    /\ UNCHANGED <<entryVars, locks, pc, locals>>

-----------------------------------------------------------------------------
(* TryLoadEntries and the generator's EnsureCollectionsLoaded.               *)

(* Where a thread goes once TryLoadEntries has returned.                     *)
AfterLoad(t) == IF op[t] = "scan" THEN "scan_views" ELSE "entry"

(* The reads of is_loaded and default_generator without a lock, in           *)
(* LookupEntry or Scan and in TryLoadEntries itself.  Scan tests the         *)
(* generator before it calls, so only a lookup marks an entry without a      *)
(* generator as loaded.                                                      *)
TryLoadEntries(t) ==
    LET d == cur[t] IN
    /\ IF isLoaded[d] \/ ~generator[d].present
         THEN Goto(t, "try_load", AfterLoad(t))
         ELSE Goto(t, "try_load", "load")
    /\ isLoaded' = [isLoaded EXCEPT ![d] = @ \/ (~generator[d].present /\ op[t] # "scan")]
    /\ UNCHANGED <<mongo, viewInfoCache, views, generator, loadedNames, dangling, locks, locals>>

(* load_lock is taken and is_loaded read again under it.                     *)
LoadUnderLock(t) ==
    LET d == cur[t] IN
    /\ Free(loadLock, d)
    /\ \/ /\ isLoaded[d]
          /\ Goto(t, "load", AfterLoad(t))
          /\ UNCHANGED loadLock
       \/ /\ ~isLoaded[d]
          /\ Goto(t, "load", "ensure")
          /\ loadLock' = Take(loadLock, d, t)
    /\ UNCHANGED <<mongo, entryVars, entryLock, locals>>

(* The generator is used from TryLoadEntries, which holds load_lock, and     *)
(* from CreateDefaultEntry, whose caller holds entry_lock.  The first copies *)
(* the names out, the second goes on to search them.                         *)
ForLoad(t) == loadLock[cur[t]] = t

HandBack(t, names) ==
    IF ForLoad(t) THEN got' = [got EXCEPT ![t] = names] ELSE UNCHANGED got

AfterEnsure(t) == IF ForLoad(t) THEN "publish" ELSE "create"

(* EnsureCollectionsLoaded tests collections_loaded ...                      *)
EnsureCollectionsLoaded(t) ==
    LET g == generator[cur[t]] IN
    /\ t \notin dangling
    /\ \/ /\ g.loaded
          /\ Goto(t, "ensure", AfterEnsure(t))
          /\ HandBack(t, g.names)
       \/ /\ ~g.loaded
          /\ Goto(t, "ensure", "mark")
          /\ UNCHANGED got
    /\ UNCHANGED <<mongo, entryVars, locks, op, cur, coll, pendingColls, seen, outcome>>

(* ... sets it before it asks MongoDB ...                                    *)
MarkCollectionsLoaded(t) ==
    /\ t \notin dangling
    /\ Goto(t, "mark", "fetch")
    /\ generator' = [generator EXCEPT ![cur[t]].loaded = TRUE]
    /\ UNCHANGED <<mongo, viewInfoCache, views, isLoaded, loadedNames, dangling, locks, locals>>

(* Mutant: the names listed are filtered into a copy that is thrown away.    *)
ListCollectionNamesLost(t) ==
    /\ t \notin dangling
    /\ Goto(t, "fetch", AfterEnsure(t))
    /\ HandBack(t, Names(cur[t]))
    /\ UNCHANGED <<mongo, entryVars, locks, op, cur, coll, pendingColls, seen, outcome>>

(* ... and appends the names listed, or nothing when the call fails.         *)
ListCollectionNames(t) ==
    LET d == cur[t] IN
    /\ t \notin dangling
    /\ Goto(t, "fetch", AfterEnsure(t))
    /\ \/ generator' = [generator EXCEPT ![d].names = @ \union existing[d]]
       \/ /\ MayFail
          /\ UNCHANGED generator
    /\ HandBack(t, generator'[d].names)
    /\ UNCHANGED <<mongo, viewInfoCache, views, isLoaded, loadedNames, dangling, locks,
                   op, cur, coll, pendingColls, seen, outcome>>

(* The generator this thread runs in was replaced and freed: undefined       *)
(* behaviour.  The vector it copies may hold anything.                       *)
UseFreedGenerator(t) ==
    /\ t \in dangling
    /\ pc[t] \in InGenerator
    /\ \E names \in SUBSET Collections : HandBack(t, names)
    /\ pc' = [pc EXCEPT ![t] = AfterEnsure(t)]
    /\ dangling' = dangling \ {t}
    /\ UNCHANGED <<mongo, viewInfoCache, views, generator, isLoaded, loadedNames, locks,
                   op, cur, coll, pendingColls, seen, outcome>>

(* entry_lock is taken inside load_lock, and both are released.              *)
PublishEntries(t) ==
    LET d == cur[t] IN
    /\ Free(entryLock, d)
    /\ Goto(t, "publish", AfterLoad(t))
    /\ loadedNames' = [loadedNames EXCEPT ![d] = got[t]]
    /\ isLoaded' = [isLoaded EXCEPT ![d] = TRUE]
    /\ loadLock' = Release(loadLock, d)
    /\ got' = [got EXCEPT ![t] = {}]
    /\ UNCHANGED <<mongo, viewInfoCache, views, generator, dangling, entryLock,
                   op, cur, coll, pendingColls, seen, outcome>>

-----------------------------------------------------------------------------
(* LookupEntry, GetOrCreateViewEntry and CreateDefaultEntry.                 *)

(* LookupEntry gives its caller the result; Scan goes on with the next       *)
(* collection whatever GetOrCreateViewEntry returned; DROP VIEW goes on to   *)
(* DropEntry with the entry it found.                                        *)
EntryReturns(t, from, result) ==
    /\ Goto(t, from, IF op[t] = "scan" THEN "scan_next"
                     ELSE IF op[t] = "drop_view" /\ result = "found" THEN "drop_entry"
                     ELSE "returned")
    /\ outcome' = IF op[t] = "scan" THEN outcome ELSE [outcome EXCEPT ![t] = result]

(* Mutant: is_loaded is tested again, and the names loaded, with entry_lock   *)
(* already held.                                                             *)
FindEntryReloads(t) ==
    LET d == cur[t] IN
    /\ Free(entryLock, d)
    /\ \/ /\ views[d][coll[t]] # NoView
          /\ EntryReturns(t, "entry", "found")
          /\ UNCHANGED entryLock
       \/ /\ views[d][coll[t]] = NoView
          /\ Goto(t, "entry", IF isLoaded[d] THEN "ensure" ELSE "load")
          /\ entryLock' = Take(entryLock, d, t)
          /\ UNCHANGED outcome
    /\ UNCHANGED <<mongo, entryVars, loadLock, op, cur, coll, pendingColls, got, seen>>

(* entry_lock is taken.  A view already there is returned; otherwise the     *)
(* generator is asked for one with the lock still held.                      *)
FindEntry(t) ==
    LET d == cur[t] IN
    /\ Free(entryLock, d)
    /\ \/ /\ views[d][coll[t]] # NoView
          /\ EntryReturns(t, "entry", "found")
          /\ UNCHANGED entryLock
       \/ /\ views[d][coll[t]] = NoView
          /\ ~generator[d].present
          /\ EntryReturns(t, "entry", "not_found")
          /\ UNCHANGED entryLock
       \/ /\ views[d][coll[t]] = NoView
          /\ generator[d].present
          /\ Goto(t, "entry", "ensure")
          /\ entryLock' = Take(entryLock, d, t)
          /\ UNCHANGED outcome
    /\ UNCHANGED <<mongo, entryVars, loadLock, op, cur, coll, pendingColls, got, seen>>

(* Mutant: a cached view info is installed with column types sampled anew.   *)
CreateDefaultEntryRetypes(t) ==
    LET d == cur[t]
        c == coll[t]
    IN
    /\ \/ /\ c \notin Names(d)
          /\ EntryReturns(t, "create", "not_found")
          /\ entryLock' = Release(entryLock, d)
          /\ UNCHANGED views
       \/ /\ c \in Names(d)
          /\ viewInfoCache[d][c] # NoView
          /\ views' = [views EXCEPT ![d][c] = version[d][c]]
          /\ EntryReturns(t, "create", "found")
          /\ entryLock' = Release(entryLock, d)
       \/ /\ c \in Names(d)
          /\ viewInfoCache[d][c] = NoView
          /\ Goto(t, "create", "infer")
          /\ UNCHANGED <<views, entryLock, outcome>>
    /\ UNCHANGED <<mongo, viewInfoCache, generator, isLoaded, loadedNames, dangling, loadLock,
                   op, cur, coll, pendingColls, got, seen>>

(* Mutant: entry_lock stays taken when there is no such collection.          *)
CreateDefaultEntryKeepsLock(t) ==
    LET d == cur[t]
        c == coll[t]
    IN
    /\ \/ /\ c \notin Names(d)
          /\ EntryReturns(t, "create", "not_found")
          /\ UNCHANGED <<views, entryLock>>
       \/ /\ c \in Names(d)
          /\ viewInfoCache[d][c] # NoView
          /\ views' = [views EXCEPT ![d][c] = viewInfoCache[d][c]]
          /\ EntryReturns(t, "create", "found")
          /\ entryLock' = Release(entryLock, d)
       \/ /\ c \in Names(d)
          /\ viewInfoCache[d][c] = NoView
          /\ Goto(t, "create", "infer")
          /\ UNCHANGED <<views, entryLock, outcome>>
    /\ UNCHANGED <<mongo, viewInfoCache, generator, isLoaded, loadedNames, dangling, loadLock,
                   op, cur, coll, pendingColls, got, seen>>

(* The name is searched; a cached view info is installed as it is; without   *)
(* one the view's query has to be bound.                                     *)
CreateDefaultEntry(t) ==
    LET d == cur[t]
        c == coll[t]
    IN
    /\ \/ /\ c \notin Names(d)
          /\ EntryReturns(t, "create", "not_found")
          /\ entryLock' = Release(entryLock, d)
          /\ UNCHANGED views
       \/ /\ c \in Names(d)
          /\ viewInfoCache[d][c] # NoView
          /\ views' = [views EXCEPT ![d][c] = viewInfoCache[d][c]]
          /\ EntryReturns(t, "create", "found")
          /\ entryLock' = Release(entryLock, d)
       \/ /\ c \in Names(d)
          /\ viewInfoCache[d][c] = NoView
          /\ Goto(t, "create", "infer")
          /\ UNCHANGED <<views, entryLock, outcome>>
    /\ UNCHANGED <<mongo, viewInfoCache, generator, isLoaded, loadedNames, dangling, loadLock,
                   op, cur, coll, pendingColls, got, seen>>

(* Mutant: entry_lock is released while the query is bound.                  *)
InferViewInfoUnlocked(t) ==
    /\ pc[t] \in {"infer", "bind"}
    /\ pc' = [pc EXCEPT ![t] = "store"]
    /\ seen' = [seen EXCEPT ![t] = version[cur[t]][coll[t]]]
    /\ entryLock' = Release(entryLock, cur[t])
    /\ UNCHANGED <<mongo, entryVars, loadLock, op, cur, coll, pendingColls, got, outcome>>

(* CreateViewInfo::FromSelect binds mongo_scan, at "bind" after DuckDB has   *)
(* looked the function up in the catalog (MongoCatalog!LookupFunction), and  *)
(* binding it samples the collection.  A failure leaves by an exception:     *)
(* LookupEntry lets it pass, GetOrCreateViewEntry swallows it.               *)
InferViewInfo(t) ==
    LET d == cur[t] IN
    /\ pc[t] \in {"infer", "bind"}
    /\ \/ /\ Goto(t, pc[t], "store")
          /\ seen' = [seen EXCEPT ![t] = version[d][coll[t]]]
          /\ UNCHANGED <<entryLock, outcome>>
       \/ /\ MayFail
          /\ EntryReturns(t, pc[t], "error")
          /\ entryLock' = Release(entryLock, d)
          /\ UNCHANGED seen
    /\ UNCHANGED <<mongo, entryVars, loadLock, op, cur, coll, pendingColls, got>>

(* The view info is cached, then the view installed and entry_lock released. *)
StoreViewInfo(t) ==
    LET d == cur[t]
        c == coll[t]
    IN
    /\ viewInfoCache' = [viewInfoCache EXCEPT ![d][c] = seen[t]]
    /\ views' = [views EXCEPT ![d][c] = seen[t]]
    /\ EntryReturns(t, "store", "found")
    /\ entryLock' = Release(entryLock, d)
    /\ seen' = [seen EXCEPT ![t] = NoView]
    /\ UNCHANGED <<mongo, generator, isLoaded, loadedNames, dangling, loadLock,
                   op, cur, coll, pendingColls, got>>

-----------------------------------------------------------------------------
(* Scan, DropEntry and CreateView.                                           *)

ScanReset(t) ==
    /\ Goto(t, "scan_reset", "try_load")
    /\ isLoaded' = [isLoaded EXCEPT ![cur[t]] = FALSE]
    /\ UNCHANGED <<mongo, viewInfoCache, views, generator, loadedNames, dangling, locks, locals>>

(* Under entry_lock: erase the views whose collection is not in the loaded   *)
(* list, and note the listed collections without a view.                     *)
ScanViews(t) ==
    LET d == cur[t] IN
    /\ Free(entryLock, d)
    /\ Goto(t, "scan_views", "scan_next")
    /\ views' = [views EXCEPT ![d] = [c \in Collections |->
                    IF c \in loadedNames[d] THEN views[d][c] ELSE NoView]]
    /\ pendingColls' = [pendingColls EXCEPT ![t] = loadedNames[d] \ Shown(d)]
    /\ UNCHANGED <<mongo, viewInfoCache, generator, isLoaded, loadedNames, dangling, locks,
                   op, cur, coll, got, seen, outcome>>

(* Mutant: a collection done is not taken off the list.                      *)
ScanNextRepeats(t) ==
    /\ \/ \E c \in pendingColls[t] :
             /\ Goto(t, "scan_next", "entry")
             /\ coll' = [coll EXCEPT ![t] = c]
             /\ UNCHANGED outcome
       \/ /\ pendingColls[t] = {}
          /\ Goto(t, "scan_next", "returned")
          /\ outcome' = [outcome EXCEPT ![t] = "done"]
          /\ UNCHANGED coll
    /\ UNCHANGED <<mongo, entryVars, locks, op, cur, pendingColls, got, seen>>

(* Scan's last loop calls GetOrCreateViewEntry for each of them.             *)
ScanNext(t) ==
    /\ \/ \E c \in pendingColls[t] :
             /\ Goto(t, "scan_next", "entry")
             /\ coll' = [coll EXCEPT ![t] = c]
             /\ pendingColls' = [pendingColls EXCEPT ![t] = @ \ {c}]
             /\ UNCHANGED outcome
       \/ /\ pendingColls[t] = {}
          /\ Goto(t, "scan_next", "returned")
          /\ outcome' = [outcome EXCEPT ![t] = "done"]
          /\ UNCHANGED <<coll, pendingColls>>
    /\ UNCHANGED <<mongo, entryVars, locks, op, cur, got, seen>>

(* DROP VIEW.  The entry may have gone since the lookup, which is an error   *)
(* unless IF EXISTS is given.                                                *)
DropEntry(t) ==
    LET d == cur[t] IN
    /\ Free(entryLock, d)
    /\ Goto(t, "drop_entry", "returned")
    /\ views' = [views EXCEPT ![d][coll[t]] = NoView]
    /\ outcome' = [outcome EXCEPT ![t] = IF coll[t] \in Shown(d) THEN "done" ELSE "not_found"]
    /\ UNCHANGED <<mongo, viewInfoCache, generator, isLoaded, loadedNames, dangling, locks,
                   op, cur, coll, pendingColls, got, seen>>

(* Mutant: the user's view is cached as if it had been inferred.             *)
CreateViewCaches(t) ==
    LET d == cur[t] IN
    /\ Free(entryLock, d)
    /\ Goto(t, "create_view", "returned")
    /\ views' = [views EXCEPT ![d][coll[t]] = IF @ = NoView THEN UserView ELSE @]
    /\ viewInfoCache' = [viewInfoCache EXCEPT ![d][coll[t]] = views'[d][coll[t]]]
    /\ outcome' = [outcome EXCEPT ![t] = "done"]
    /\ UNCHANGED <<mongo, generator, isLoaded, loadedNames, dangling, locks,
                   op, cur, coll, pendingColls, got, seen>>

(* CREATE VIEW.  A view of that name is kept, with OR REPLACE too; without   *)
(* OR REPLACE and IF NOT EXISTS it is an error.                              *)
CreateView(t) ==
    LET d == cur[t] IN
    /\ Free(entryLock, d)
    /\ Goto(t, "create_view", "returned")
    /\ views' = [views EXCEPT ![d][coll[t]] = IF @ = NoView THEN UserView ELSE @]
    /\ \E result \in IF coll[t] \in Shown(d) THEN {"done", "error"} ELSE {"done"} :
          outcome' = [outcome EXCEPT ![t] = result]
    /\ UNCHANGED <<mongo, viewInfoCache, generator, isLoaded, loadedNames, dangling, locks,
                   op, cur, coll, pendingColls, got, seen>>

SchemaEntryStep(t) ==
    \/ TryLoadEntries(t)
    \/ LoadUnderLock(t)
    \/ EnsureCollectionsLoaded(t)
    \/ MarkCollectionsLoaded(t)
    \/ ListCollectionNames(t)
    \/ UseFreedGenerator(t)
    \/ PublishEntries(t)
    \/ FindEntry(t)
    \/ CreateDefaultEntry(t)
    \/ InferViewInfo(t)
    \/ StoreViewInfo(t)
    \/ ScanReset(t)
    \/ ScanViews(t)
    \/ ScanNext(t)
    \/ DropEntry(t)
    \/ CreateView(t)

-----------------------------------------------------------------------------
(* Calls made by the catalog.                                                *)

(* Mutant: entry_lock is not taken.                                          *)
SetDefaultGeneratorUnlocked(d) ==
    /\ generator' = [generator EXCEPT ![d] = FreshGenerator]
    /\ dangling' = dangling \union {u \in Threads : pc[u] \in InGenerator /\ cur[u] = d}

(* SetDefaultGenerator: the old generator is destroyed under entry_lock,     *)
(* also while a thread that holds only load_lock runs in it.                 *)
SetDefaultGenerator(d) ==
    /\ Free(entryLock, d)
    /\ generator' = [generator EXCEPT ![d] = FreshGenerator]
    /\ dangling' = dangling \union {u \in Threads : pc[u] \in InGenerator /\ cur[u] = d}

(* Mutant: the views are kept.                                               *)
InvalidateCacheKeepsViews(d) ==
    /\ Free(loadLock, d)
    /\ isLoaded' = [isLoaded EXCEPT ![d] = FALSE]
    /\ loadedNames' = [loadedNames EXCEPT ![d] = {}]
    /\ UNCHANGED views
    /\ entryLock' = Release(entryLock, d)

(* InvalidateCache once it owns entry_lock: takes load_lock too, resets the  *)
(* entry, releases both.                                                     *)
InvalidateCache(d) ==
    /\ Free(loadLock, d)
    /\ isLoaded' = [isLoaded EXCEPT ![d] = FALSE]
    /\ loadedNames' = [loadedNames EXCEPT ![d] = {}]
    /\ views' = [views EXCEPT ![d] = [c \in Collections |-> NoView]]
    /\ entryLock' = Release(entryLock, d)

=============================================================================
