# Specifications of the MongoDB extension for DuckDB

TLA+ models of the extension in this repository, TLC configurations that check
them on small instances, and proofs that the TLA+ proof system checks for
every instance. Paths such as `mongo_catalog.cpp` are relative to the extension's
`src/` directory.

## 1. The system

`ATTACH 'mongodb://…' AS m (TYPE mongo)` gives DuckDB a catalog `m` whose schemas are
MongoDB databases and whose views are collections. A view's query is a call of the table
function `mongo_scan`; its columns are inferred by sampling the collection. An optimizer
rule and filter pushdown move parts of a query into MongoDB.

| Part | State it keeps | Operations | Interacts with |
|---|---|---|---|
| Catalog (`mongo_catalog.cpp`, `mongo_clear_cache.cpp`) | `schemas`, `schemas_scanned`, `view_info_cache`, `collection_cache`; `schemas_lock` and one mutex per cache | `ScanSchemas`, `LookupSchema`, `CreateSchema`, `DropSchema`, `ClearCache` | called by every DuckDB query thread; owns the schema entries; asks MongoDB for database names |
| Schema entry (`mongo_schema_entry.cpp`) | `views`, `is_loaded`, `loaded_collection_names`, `default_generator`; `entry_lock`, `load_lock` | `LookupEntry`, `Scan`, `CreateView`, `DropEntry`, `SetDefaultGenerator`, `InvalidateCache` | called by query threads and by the catalog; calls its generator with a mutex held |
| Collection generator (class in `mongo_catalog.cpp`) | `collection_names`, `collections_loaded`, a client | `GetDefaultEntries`, `CreateDefaultEntry` | called under `load_lock` or under `entry_lock`; asks MongoDB for collection names; fills `view_info_cache`; infers a schema by binding `mongo_scan` |
| Transactions (`mongo_transaction*.cpp`) | a state nothing reads | start, commit, rollback | DuckDB's transaction manager |
| Table scan (`mongo_table_function.cpp`) | per scan: client, session, cursor, requested columns, `finished` | bind, init, one call per chunk | filter pushdown, inference, operation time |
| Operation time (`mongo_operation_state.hpp`, `mongo_extension.cpp`, `mongo_compat.hpp`) | per connection: the last operation time | set at the end of a scan, read by `mongo_operation_time()` | scans of a connection, `after_cluster_time` |
| Optimizer (`mongo_optimizer.cpp`) | none | rewrites TopN and aggregates over a scan into pipelines | replaces a scan's bind data |
| Filter and expression pushdown (`mongo_filter_pushdown.cpp`, `mongo_expr_pushdown.cpp`) | none | translate filters into `$match` documents | scan, optimizer |
| Inference and enforcement (`mongo_schema_inference.cpp`, `schema/`) | none | resolve types over sampled documents; validate and flatten documents in three schema modes | bind, scan |
| Attach and secrets (`mongo_storage_extension.cpp`, `mongo_secrets.cpp`) | none | assemble a connection string, find the database name | creates the catalog |
| Driver instance, registration (`mongo_instance.cpp`, `mongo_extension.cpp`) | a function-local static | – | – |

What is hard about each, and what makes it correct:

* **Catalog, schema entry, generator.** Query threads run these concurrently with three
  levels of mutexes, flags read without a mutex, MongoDB called with a mutex held, a
  generator used under two different mutexes and replaced under one; binding a view's query
under a mutex may come back to the catalog. Correct: no thread
  keeps or loses a mutex; threads do not wait in a circle; every operation returns; a view
  and the cached schema agree; a cleared cache is really refreshed; an existing
  collection or schema is found.
* **Scan and operation time.** Four ways for a scan to end, of which one stores the
  operation time; several scans of a connection. Correct: `mongo_operation_time()` reflects
  the last scan, and a causal read waits for the time it was given.
* **Optimizer and pushdown.** A condition of a query is taken from DuckDB at one time, kept
  in one of three places, and sent at another, by code that chooses between them. Correct: someone
  evaluates every condition, and a pushed or rewritten query returns what SQL's semantics demand
  for missing and null fields, ObjectIds, dates and empty inputs.
* **Inference and enforcement.** Documents are sampled in any order, the sample may fail
  half-way, names collide, chunks and their slots are used again. Correct: columns stand for the
  sample, a cell shows the field of its own document, a mode drops or raises exactly what does
  not fit, and a type chosen for a field does not lose its values.
* **Attach and secrets.** The database named by path, option or secret must be the one used.

`PROJECT.json` lists every part with what is modelled of it (`components`) and every place
where the code is hard to test (`hazards`).

## 2. Modules

| Module | What it is |
|---|---|
| `MongoSchemaEntry` | state and actions of a schema entry, its generator and the view-info cache |
| `MongoCatalog` | extends it with the map of schemas and the catalog's operations; `Spec`, properties |
| `ViewRegistry` | abstract: what the catalog promises about views, without threads, mutexes, generators |
| `CatalogFreshness` | `MongoCatalog` with history variables, for properties about how new a view is |
| `MCMongoCatalog`, `MCCatalogFreshness` | add a symmetry set for TLC |
| `MongoCatalogProofs` | type correctness, ownership and order of mutexes, freed generators, how the map of schemas is filled |
| `CatalogRefinementProofs` | `MongoCatalog` implements `ViewRegistry`; agreement of views and cache; what a clear refreshes |
| `Selection` | `Keep(s, S)`: the elements of a sequence that are in a set, in their order |
| `SelectionProofs` | what `Keep` returns and preserves; induction over numbers without an operator parameter |
| `MongoScan` | the scans of a connection's queries: bind data, the optimizer's effect on it, session, cursor, chunks, operation time |
| `MCMongoScan` | queries, documents and a symmetry set for TLC |
| `MongoScanProofs` | types, what operation times cover, causal reads, rows and their columns |
| `MongoValues` | values of fields and columns, what a column's type accepts and how it reads a field |
| `FilterPushdown` | translation of table filters into MongoDB queries; MongoDB's matching and SQL's truth beside it |
| `ExpressionPushdown` | which comparisons become `$expr`, and what both sides make of them |
| `PushedQueries` | one query from binding to its answer: where its conditions go, rewriting, the query sent, the rows |
| `MCPushedQueries` | families of queries over small collections |
| `FilterPushdownProofs` | the translation of filters is exact |
| `PushedQueriesProofs` | no condition is lost, plain scans and rewritten operators are exact |
| `Documents` | documents, paths, projections, and the ways the code finds a field |
| `SchemaInference` | where the columns of a scan come from |
| `DocumentRows` | extends it with the scan: projection, validation, flattening, chunks |
| `InferenceProofs` | how types are collected and resolved, how deep documents and arrays are; sequences and counting |
| `DocumentRowsProofs` | columns stand for the sample and show it in full, rows stand for their documents, arrays come whole, modes keep their promise |
| `MCDocumentRows` | collections for TLC |

`MongoSchemaEntry` ← `MongoCatalog` ← `CatalogFreshness` is one composition; `MongoValues` ←
`FilterPushdown` ← `ExpressionPushdown` ← `PushedQueries` another; `MongoValues` ← `Documents` ←
`SchemaInference` ← `DocumentRows` a third. `MongoScan` and `SchemaInference` share `Selection`.
`MongoScan`, `PushedQueries` and `DocumentRows` look at the same scan from three sides: its calls, chunks and times; its conditions; and its documents.

### How the model corresponds to the code

A thread is a DuckDB query thread. `pc[t]` names the next stretch of code it runs without
touching a mutex or MongoDB in between, and each action is one such stretch; the actions
carry the names of the functions. A mutex taken and released within one stretch appears as
the guard that it is free; one held longer is owned by the thread (`entryLock`,
`loadLock`, `schemasLock`). `MongoSchemaEntry` holds the actions inside one schema and
`MongoCatalog` the way there: `Begin` picks an operation, `LookupSchema`/`ScanSchemas`
find the schema, then the entry's actions run, then `Return`.

* *Lookup* (binding a query): `LookupSchema` → (`ScanSchemas` → `CreateSchema` →
  `InstallGenerator` → `ListDatabases` …) → `FindSchema` → `FindSchemaAgain` or
  `CreateSchemaOnDemand` → `TryLoadEntries` → `LoadUnderLock` → generator → `PublishEntries`
  → `FindEntry` → generator → `CreateDefaultEntry` → (`LookupFunction` → `LookupSchema` …) →
  `InferViewInfo` → `StoreViewInfo`. To bind the view's query DuckDB looks the function
  `mongo_scan` up along the connection's search path. After `USE` of this catalog
  (`README.md:188`) one of its schemas, a member of `SearchPaths`, is on it, and the lookup runs
  `LookupSchema` again above the frame that owns `entry_lock`: `nested` names the schema it
  asks for, and from `EnterSchema` the thread goes back to `bind`.
* *Scan* (listing): `ScanSchemas` → `ScanReset` → `TryLoadEntries` … → `ScanViews` →
  `ScanNext`, which runs `FindEntry` … for each missing view.
* *Drop view*: a lookup, then `DropEntry`. *Create view*: the schema, then `CreateView`.
* *Clear*: `ClearViewInfoCache` → `ClearSchemas` → per schema `InvalidateTakesEntryLock`,
  `InvalidateResets` → `ClearNext` resets `schemas_scanned`.
* *MongoDB*: `MongoChange` creates, drops or rewrites a collection at any time.

In `MongoScan` each action is one call DuckDB makes for one scan of the running query:
`MongoScanBind`, `Optimize`, `MongoScanInitLocal`, then `MongoScanFunction` again and again,
whose four ways through are `ScanIsFinished`, `ScanCounts` (the path for COUNT with filter
columns), `ScanMakesZeroRow` (an empty pushed-down COUNT) and `ScanDocuments` (the loop; it
alone stores the operation time). A scan goes through the stages `bound`, `planned`, `open`
and `ended`; DuckDB may stop it (`StopScan`); an exception of one scan
(`MongoDBFails`, `ValidationFails`) ends the query; `EndQuery` frees the states. All scans of a
query are bound before one is planned, and planned before one is opened; opened ones
interleave. Between queries the user may SET.
MongoDB is a primary with a clock of writes and a secondary that follows. A read waits until its
member has reached the time the session carries, and reflects that member's time. Every session is
advanced to the time the user gave. On a server whose sessions have no times (`untimed`) it keeps
that time and the end of the scan stores it; what such a time covers is what stood behind it
when it was given (`Covered`).

In `PushedQueries` a query passes through its stages once: `MongoScanBind` (which probes one document for
ObjectIds), `MongoPushdownComplexFilter`, `PushTableFilters` (DuckDB hands over any of the plain
filters and may keep evaluating them), one of `RewriteMongoTopN`, `RewriteMongoAggregate` and
`KeepPlan`, `PushJoinFilters` (a hash join adds filters while running), `MongoScanInitLocal`, and
`MongoScanFunction` or `MongoDBRefuses`. `remaining`, `complexFilter`, `tableFilters` and `pipeline` are the
places a condition can be in: DuckDB's list, `complex_filter_expr`, the `TableFilterSet` and
`pipeline_json`.

In `DocumentRows` `Bind` takes the schema from the `columns` parameter, the `__schema` document or a sample
(`SampleDocument` for each document, `SampleFails` when `$sample` throws, `InferColumns`);
`MongoScanInitLocal` builds the projection; `FlattenDocument` takes the cursor one document further and
writes a slot of the chunk, `RaiseViolation` is the exception of failfast, and `EndChunk` hands the
chunk to DuckDB.

### What is abstracted

* A collection's inferred columns are a version number that `MongoChange` raises; a view
  holds the version it was inferred from, `UserView` when a user created it.
* Names are model values: equal up to case when identical. Collections whose names start
  with `system.` and the databases `admin`, `local`, `config` do not exist in the model.
  The schema `main` of a catalog without a database name has no collections.
* Storing the cached view info and installing the view are one action: nothing but
  `view_info_cache_lock` lies between, and only `ClearViewInfoCache` could come in, whose
  effect before or after is another behaviour of the model. The two reads of `is_loaded` and
  `default_generator` before `load_lock` are one action. Appending the listed names to the
  generator's vector is one action.
* A thread whose generator is freed under it runs into undefined behaviour; the names it
  hands back may then be any.
* A call to MongoDB may fail when `MayFail` holds: listing collections (swallowed),
  listing databases and inference (exceptions).
* `collection_cache` is written and never read; it is left out, as are `DropSchema`, the
  operations that only throw, and the lifetime of pointers handed to DuckDB. A connection
  string is assumed to be well-formed.

* In `MongoScan` a document fits the declared schema or not, which is told apart only where
  the schema is enforced (`DocumentRows` looks into it); what a filter selects is left to
  `PushedQueries`, only the columns filters need are followed. Queries are records of what DuckDB's planner hands the scan: `column_ids`,
  the columns given out by `projection_ids`, table filters, the operator above. A query that
  wants no column gets one virtual output column, as the comment in `MongoScanFunction` says.
* The values of settings and parameters are parsed (`Unreadable` stands for a setting that is
  not; a parameter that is not readable fails in bind). The LIMIT branch of `MongoScanInitLocal`
  is left out. No collection has a column called `count` or `__agg0`.
* Values are a class and a number. A string is a number in digits, 24 hexadecimal digits or
  another word; a word of *n* letters stands for all of them. A second is two milliseconds
  (`SecondMs`), a day two seconds (`DayMs` is 4), and a millisecond two units of a column's time, so that
  a column's time can fall between milliseconds, a field's between seconds and a second between
  days. JSON made of documents is one value per document.
* A filter of `FilterPushdown` is a disjunction of tests of one column; a conjunction of them is a
  set. A MongoDB query is a set of sets of conditions. A document two operators of one key, or a key
  that is not an operator below a path, which MongoDB takes for a literal, is `Unmatchable`.
* MongoDB's and SQL's comparisons, aggregates and orders are written beside the translation as
  definitions of their own; they are what it is compared with, and in `map` they are external.
* A query of `PushedQueries` has one aggregate of COUNT(*), COUNT, SUM or MIN and at most one
  group key; its columns are at different paths.
* A name in `Documents` is the sequence of its parts between underscores. `PathOrder` gives all paths in the
  order of strings. Nested documents are flattened to `MaxDepth` levels (1 in the runs, 5 in the code). Lower case
  is that of one letter. An array is the function from the positions of its innermost elements to them.
  `MaxScanned` bounds the documents of an array from which a struct is inferred (2 in the runs, 10 in the code),
  `MaxArrayDepth` the levels of an array that are counted (3, in the code 10). Of a field on the way of
  projected paths MongoDB sends what is below: of a document its fields, of an array its documents
  and arrays (`Sent`, `ProjectedArray`); fields next on the way are sent whole.
* The type of a declared column can be read, is missing (`invalid`) or cannot be parsed (`unreadable`).

## 3. What the runs check

| Run | Instance | Shows |
|---|---|---|
| `catalog_one_database` | 2 threads, 1 database (named in ATTACH), 1 collection, 2 versions, failures, all operations, with history variables | `TypeOK`, `CacheAgreesWithViews`, `ClearAloneRefreshes`, `MissedSchemaOnlyDuringScan`, `ImplementsRegistry` |
| `catalog_all_databases` | 2 threads, a database and `main`, 1 collection, failures, lookup, scan, clear, either schema on the search path | `LockOwnership`, `WaitsClimb`, `DanglingOnlyWhileLoading`, `SchemaGetsGenerator` |
| `catalog_liveness` | 2 threads, 1 database, on the search path, 2 versions, no failures, no clear | `OperationsReturn`, `MissesAreTransient`, no deadlock |
| `catalog_deadlock` | lookup and clear | `NoMutualWait` does **not** hold |
| `catalog_rescan` | lookup and clear, with `USE` | `NoSelfWait` does **not** hold |
| `clear_cache_refill` | lookup and clear, 2 versions | `ClearRefreshes` does **not** hold |
| `scan_rows` | one scan at a time, 7 combinations of columns and filters, all modes and operators, 0 to 4 documents in chunks of 2, a lagging secondary, failures | `TypeOK`, `EveryRowOnce`, `CountGivesOneRow`, `ColumnsLineUp`, `QueriesEnd` |
| `scan_reads` | 2 scans per query, 2 times, three kinds of session, parameters and settings, TopN and aggregates | `OperationTimeCoversRead`, `CausalChain` |
| `scan_columns` | `SELECT _id … WHERE a … ORDER BY _id LIMIT n` | `RowsHoldTheirColumns` does **not** hold |
| `pushed_queries` | some thousands of queries: every test of every type alone, in pairs, in disjunctions, beside join filters; expressions beside filters and user parameters; TopN and aggregates, strict and not; over 0 to 2 documents with missing, null, matching and mistyped fields | `TypeOK`, `NoConditionLost`, `UserParameterKept`, `RefusedForValuesOnly`, `PlainScanExact`, `RewriteKeepsAnswer` |
| `where_lost` | the same queries | `WhereTakesPrecedence` does **not** hold |
| `document_rows` | collections of 2 or 3 documents: one field of any two kinds (integers, doubles, decimals, dates on and around midnight, …), names that differ in case or flatten to one, arrays of several depths; columns and lists declared by parameter and columns by `__schema`, over arrays on the way of a path too, in three modes; chunks of 2 | `TypeOK`, `ColumnsNameSample`, `RowsAreTheirDocuments`, `ModeHonoured`, `SampleShown`, `ListsShown` |

The five violations are disagreements between comments or documentation and the code:

1. `mongo_schema_entry.hpp:55` says `load_lock` is separate to prevent deadlocks.
   `TryLoadEntries` takes it before `entry_lock`, `InvalidateCache` after. A lookup that has
   listed the collections and a `mongo_clear_cache` that owns `entry_lock` wait for each
   other. `WaitsClimb` says that there is one inversion beside this one: with `USE`, the lookup of
   `mongo_scan` under `entry_lock` takes `schemas_lock`, which `ClearSchemas` owns while it waits for
   `entry_lock`, and after a clear another `entry_lock`.
2. The repository's README says that after clearing the cache the next query re-infers
   schemas. A lookup that had sampled a collection before the clear stores the old schema
   after it. `ClearAloneRefreshes` says that a clear which overlaps no operation refreshes.
3. The path of `MongoScanFunction` for COUNT is taken for every scan with one output
   column and more than one requested one. A rewritten TopN over one selected column with a
   filter on another is such a scan; its rows are counted but never filled. `ColumnsLineUp`
   says that rows are right unless a filter's column stays in the scan like this.
4. The repository's README (line 892) says that WHERE clauses take precedence over the `filter`
   parameter. An expression such as `a < b` is erased from DuckDB's filters when it is converted;
   `MongoScanInitLocal` then sends the parameter alone when there are no plain filters, and
   nobody evaluates the expression. `NoConditionLost` says that this, and a user's pipeline, are the
   only ways to lose a condition.
5. The README's promise of finding 2 again (line 375): after `USE` (line 188), the thread that binds a view's
   query owns `entry_lock` when it looks `mongo_scan` up. After a clear `schemas_scanned` is false, the
   lookup scans the schemas, and `SetDefaultGenerator` waits for the `entry_lock` the thread owns itself.

**Bounds.** Two threads suffice for the races above: each is between two parties, and the
safety properties speak of pairs of threads; the proofs remove the bound for those listed
in section 5. One collection suffices since nothing but the set of names relates
collections to one another; two versions distinguish an old view from a new one. `MaxVersion`
bounds the changes MongoDB makes. With a database name and without one the catalog takes
different paths; one run is devoted to each. A schema created on demand inside a nested lookup needs a third
database and is reached by the proofs only. Symmetry is used for threads (and
collections, of which there is one) in the safety runs only.

For scans, chunks of two rows and up to four documents give empty, partial, exactly full and
several chunks, and chunks validation would empty. Two times tell a lagging secondary from the
primary; two scans are enough for one to overwrite what the other stored. `TimesGiven` and
`PreferencesSet` bound what users write: in `scan_rows`, which is about rows, two times and no
read preference. The theorems of section 5 about time have no bound.

`pushed_queries` and `document_rows` check operators over all inputs of a small kind. What a translation
does depends on the type of a column, the class of a field and how it compares with a constant:
every type with a case of its own, and two without, meets a missing, a null, a mistyped and two
ordered fields. Pairs of filters are enough to show how two are merged; sets of filters of any size are
covered by `FiltersExact`. `BIGINT` stands for the other numbers in joins and expressions, since the
translation has no case for them. Two documents differ in any one field; three are needed for a
value left in a slot of an earlier chunk (chunks of two) and for shares of types on both sides of three and
seven in ten. Arrays go to depth four, beyond the depths `BSONArrayToList` wraps and beyond `MaxArrayDepth`, and
to three documents, beyond `MaxScanned`. Dates lie on a midnight, within a second of one, before 1970 and
in the middle of a day. One nested level
makes names that flatten to one; deeper levels repeat it. `Selections` bounds the output to one, two
or all columns.

**Deadlock** is not checked in the runs in which the cache is cleared, because the
program really can stop there (findings 1 and 5), nor in those of a single query or scan, which ends;
it is checked in `catalog_liveness` and in the runs of `MongoScan`.

**Fairness** is strong fairness of each thread's steps inside an operation: threads are
scheduled, and a mutex that becomes free again and again is one day given to a
thread that waits for it, which DuckDB's threads and `std::mutex` provide in practice.
Nothing makes a query start or MongoDB change.
For scans, DuckDB goes on calling each scan and ends a query whose scans are done, and the
secondary catches up (weak fairness); that MongoDB fails, that DuckDB stops a scan early, or
that anyone writes is never assumed. `MissesAreTransient` assumes that MongoDB
answers (`MayFail` is FALSE) and has not changed since ATTACH (`MongoAsAttached`): with a failure
`collections_loaded` stays true with an empty list, and a collection created after the first listing is not in
the list; every lookup misses it until the cache is cleared.

Every property of a passing run has a mutant: a small change of one action, written next to
it and marked `Mutant`, with which TLC finds the property violated.

## 4. The abstract specification

`ViewRegistry` has three variables: what MongoDB holds (`version`), the views a query can
see, and the schemas remembered. Its steps install one view under a free name with the
remembered schema (`Recall`) or with one the collection has had (`Learn`), define a user's view,
erase views of one database, or forget all that is remembered. `MongoCatalog` implements it
with `remembered <- viewInfoCache` and the identity on the rest; mutexes, flags and
generators are hidden.

## 5. What is proved

From the assumptions on the constants, which TLC evaluates in every run:

* `SchemaEntryAssumption` and `CatalogAssumption`: no thread is called `NoThread`, there is a version, a
  database and a collection, the name in ATTACH is a database or absent, the search paths are databases. So the theorems about the
  catalog hold for any number of threads, databases, collections and versions.
* `ScanAssumption`: columns have names, none of them that of an aggregate; a scan reads only columns
  its query selects or filters; chunks have a row. Any number of scans, times, queries, documents, chunks and
  kinds of session.
* `QueriesAssumption`, what `IsQuery` says a query and its collection are made of: conditions and the
  operator above name columns of the scan, `SUM` is over numbers, a collection is a finite sequence of
  documents whose fields hold values. Any queries, filters, columns and documents.
* `InferenceAssumption` and `RowsAssumption`: documents are numbered, `PathOrder` holds every path of a
  document and of a declared column and sorts a path before those below it, a declared type has a number of
  levels, the elements of an array have positions, of which the first leads on to one that is no array,
  a date is a number, a chunk has a row, at least one document of an array is looked at and two levels are counted.
  Any collections, declared columns, depths of nesting and of arrays, modes and sizes of chunks.

| Theorem | Argument |
|---|---|
| `TypeCorrect` | inductive by itself, one step per action |
| `LocksOwned` | `LockOwnership` is inductive over `TypeOK`. It has to say both directions: that a thread at a program point owns a mutex, and that an owner is at such a point |
| `WaitsInOrder` | follows from `LockOwnership`: the owner of a mutex is at a program point of a higher level. A thread in a nested lookup owns `entry_lock` and is at the last level, so others wait for it in order; what it waits for itself is the second inversion |
| `OnlyLoadersDangle` | inductive with `LockOwnership`: `SetDefaultGenerator` needs `entry_lock` free, and a thread in the generator that does not own it owns `load_lock` |
| `CreatesAlone` | inductive with `LockOwnership`: between the failed search and the installation the creating thread owns `entry_lock`, and every change of the entry's views needs it |
| `CatalogIsRegistry` | refinement: every action is a step of `ViewRegistry` or a stutter; `Recall` and `Learn` need `CreatesAlone` |
| `CacheAgrees` | every step of `ViewRegistry` preserves the agreement, so by refinement every step of the catalog does |
| `ClearAloneIsFresh` | `HistoryInv` is inductive over `ViewsInSchemas` and the types. Nothing inferred, stored or about to be stored is older than the versions at the beginning of the last clear that ran alone (`NoneOlder`), which every step keeps since MongoDB's versions only grow; that the clear establishes it needs `ClearingAlone`: while it runs, the schemas it has passed are empty, and `ViewsInSchemas`: those it never visits were |
| `SchemasGetGenerators` | inductive with the types: the thread that creates a schema goes on to install its generator, and a generator is only replaced by another |
| `TimesHold` | inductive: for the connection, the setting, a bound scan and an opened one, the time is not smaller than what it covers: what was seen at it, or, for a session without times, what stood behind the time given |
| `OperationTimesCover`, `CausalReads` | follow from `TimesHold` |
| `TypesHold` | the types of `MongoScan`, one step per action |
| `RowsHold` | `RowInv` is inductive over the types: the rows so far are the accepted documents up to the cursor, a COUNT pushed down has one column and its row exactly when it is finished, the columns given out are those of the scan less some with filters, and rows are filled with the first of the columns requested. A chunk adds what `KeepConcat` says two stretches of documents accept |
| `RowsOnce`, `CountsOnce`, `RowsLineUp` | follow from `RowsHold` at the end of the cursor |
| `MissesOnlyDuringScan` | `SchemasInv` is inductive: once the flag is set, or a thread has passed its test, the schema is there or a thread is about to create it |
| `FilterExact` | one lemma per kind of test: for a field that `Fits` its column and a constant that `Survives`, MongoDB's test of the field and SQL's test of the column's value agree; then a disjunction of them |
| `FiltersExact` | from it, column by column: where filters are `Mergeable` the terms of the query are those of the filters, and nothing clashes |
| `TypeCorrect`, `ConditionsReachSomeone`, `UserParameterSent`, `RefusalsAreForValues` | `InvHolds`: `PipelineOrigin`, `ConditionsPlaced`, `SentFrom` and `ExpressionsConverted` are inductive together. They say for every stage where a condition is, whose the pipeline is, and that only what was converted is sent, which none of the four properties says before the query is opened |
| `PlainScansExact` | with `ScanEnded` (the answer is what the scan found with the query sent) and `ConditionsPlaced`, a plain scan's rows satisfy every condition by DuckDB's check, or by MongoDB's, which is exact by `FiltersExact` and its counterpart for expressions |
| `RewritesKeepAnswers` | `Answered` says which rows and which operator an answer comes from. The rows found for a pipeline are those of the plain scan's filters (`FoundIsWanted`); the order of MongoDB and that of SQL agree on fields that fit (`ReadingKeepsOrder`), so the least value, and the first rows of a TopN, are the same; reading a number back keeps it, so that sums agree (`SumExact`) and groups by field are groups by value (`GroupsExact`) |
| `ColumnsStandForSample` | `BindInv` is inductive: names, types and paths collected are those of the documents sampled since the last restart (`Collected`), and every column of a schema from any source has a path in `PathOrder` |
| `RowsInOrder`, `RowsShowTheirDocuments`, `ModesKeepTheirPromise` | `ScanInv` is inductive over `BindInv`: the paths of all columns read or validated are covered by the projection (`Requested`, by `ProjectionCovers`), so a field is what the document has there; slots beyond the chunk's rows are valid, but for `Leftovers`; each delivered cell, and each row of the chunk, shows its document (`ChunkRight`); and rows and chunk together are the documents wanted up to the cursor (`Honoured`) |
| `SamplesComeWhole` | `TypesInv` is inductive over `BindInv`: every type collected for a column is one of a sampled document's field, each document counted once (`Tally`), also after a restart, and a column no other is merged with has the type `ResolveTypeConflict` makes of them. So for fields of one kind the resolved type is one that `Fits` them all (`SampledColumn`): integers and doubles become BIGINT only where less than three in ten are doubles, which is a comparison of the number of types with the number of documents (`DoublesCounted`, by injections both ways), and dates DATE only where the time of day of each is less than a second or, before 1970, a day but for less than one (`DateShown`). `ScanInv` gives the cell, and `ReadInFull` says that what fits is read uncut |
| `ListsComeWhole` | `ScanInv` gives the cell. Wrapping an array to the type's depth gives elements distinct places from which the old ones are read off (`PlacedIs`, `WrappingIs`); arrays of one level, of two and of the type's own are the cases of `ListComesWhole`, as far as `MaxArrayDepth` levels are counted. That the field found for the list is the one of the column's path (`NestedIsField`) rests on `Requested`: without an array of the column's own name that another column is read from or below, the projected document has no array of that name (`ArraySent`) |

Induction over data is done with sets: `LeastElement` takes a least element of a set of numbers, `SetInduction`
and `Recursion` follow from it, and they give the equation of a recursive function, which no prover
unfolds by itself. This is why the models select with `Keep`, a recursive function, where the community modules
have `SelectSeq`, whose test the provers cannot look into.

The hypotheses of the exactness theorems (`Faithful`, `Fits`, `Mergeable`, `ExpressionAgrees`) are not
conveniences: section 6 lists what happens where each fails.

Every safety property of the runs that hold, and the refinement, is proved. Only model-checked are
`OperationsReturn`, `MissesAreTransient` and `QueriesEnd`: liveness under fairness is out of the prover's
reach. The five violated properties have counterexamples, not proofs.

## 6. Where the code and SQL or the documents part

Found while modelling, beside the five violations. The properties name these cases as exceptions or
hypotheses, so the runs and proofs say that there are no others of their kind.

*Filters* (`Faithful`, `Fits`, `Mergeable`):

* `<>` becomes `$ne`, which also finds missing and null fields.
* An equality, a null test or a disjunction together with another filter of the same column makes a
  document nothing matches; so do filters on two columns with one path.
* An `IN` list without values disappears from a conjunction or disjunction.
* Constants of HUGEINT columns become strings; TIMESTAMP constants are cut to milliseconds, and a DATE
  column's fields are compared with their time of day. A column declared INTEGER reads NULL
  while its filters find numbers.
* Whether a column holds ObjectIds is decided by one document, whichever comes first.

*Expressions* (`ExpressionAgrees`):

* `$expr` orders missing and null below every value, so `a < b` and `a <> b` keep rows SQL drops.
* `LENGTH` of a missing field, and `SUBSTRING` of a number, make MongoDB refuse the query.
* A column is named by its position among those DuckDB reads and looked up by that position in the
  schema: in another order another column is compared (`mongo_expr_pushdown.cpp:40`).
* Casts are dropped. Between two functions only the left one's positions are checked for safety (`README.md:1003`).

*Rewriting* (`RewriteAgrees`, `UserParameterKept`):

* COUNT of a column counts missing fields (`README.md:1056`), `$sum` of nothing is 0, and an aggregate over
  no documents gives no row.
* The limit of a TopN comes before documents are dropped in dropmalformed mode.
* A user's pipeline ignores pushed filters, and is replaced when a TopN or aggregate is rewritten.
* `RewriteMongoAggregate` makes new bind data without `after_cluster_time` and `read_preference`
  (`mongo_optimizer.cpp:601`; `docs/specs/after-cluster-time-specs.md:6` demands the former). `CausalChain` excepts it.

*Operation time*: a session is advanced to `after_cluster_time` on every server, and the end of the scan stores
the session's time. On a server whose sessions have no times that is the one the user gave, not NULL as
`docs/IMPLEMENTATION.md:92` says, and may cover less than the scan saw. `OperationTimeCoversRead` says what it
covers: what stood behind it when it was given.

*Catalog*: the generator's `collections_loaded` stays true, so a second listing repeats the first one's
names, although `mongo_schema_entry.cpp:200` says that it always reloads.

*Documents*:

* `BuildMongoProjection` compares a path with the last one kept only. `user`, `user-id` and `user.name` sort in this
  order, the third is kept, and MongoDB refuses the projection (`Collides`).
* In an inferred column a field of another type leaves the cell unwritten (`mongo_schema_inference.cpp:696`), against
  `README.md:524`; the comment there says it is NULL already.
* The `__schema` document is scanned as a row.
* `undefined` passes the validation and is a violation when flattened; the validation looks for the next
  name of a path beside a field that is no document. With an array on the way
  of the path `a.b` it looks for `b` beside `a`, and dropmalformed drops a document whose columns all fit, although
  the comment at `mongo_schema_inference.cpp:656` says that a missing field is fine. Hence `ReadAlike`.
* No BSON type is compatible with `INTEGER`: of a column so declared (`README.md:509`) dropmalformed drops every document
  that has the field, failfast always raises, and permissive shows NULL.
* Milliseconds are cut before the time of day is looked at (`README.md:388` says that dates at midnight become
  `DATE`): a date 1 to 999 ms past midnight counts, before 1970 also one just before it, and its
  milliseconds are lost. `SampleShown` excepts dates that close to a midnight.
* An array of more than ten levels is taken for one of ten, and elements of a list that deep are lost.
* A list is looked for under the column's own name before its path: a list called like an array that another column
  is read from or below shows that array, or what is sent of it (`ListsShown` excepts it).
* Lists show NULL for dates and ObjectIds, and round doubles in a list of integers; a missing list is empty, not NULL
  (`README.md:487`); `[[]]` beside deeper arrays, and arrays that mix scalars and arrays, are NULL. Mistyped fields of
  documents in arrays are 0, false, the epoch or `<unknown>`, not NULL.
* Binary fields are NULL. Doubles that are less than three in ten among integers are cut (`README.md:483`); a DATE beside
  a null makes the column text of milliseconds. Fields whose name differs in case from the one
  chosen are not read.

## 7. Not modelled

* `DropSchema` erases an entry that other threads may be using: after it nothing can be said of them.
  `schemas_scanned` stays true, so a catalog with a database name has no schema until the cache is cleared.
* Transactions: a transaction never leaves `TRANSACTION_NOT_YET_STARTED`, and the manager's map is
  touched under one lock, within which nothing else is called.
* Attach and secrets: strings are taken apart and put together, in one thread, without state.
  The driver instance and registration: calls that happen once. Build and scripts: no program logic.
* Of the scan: the LIMIT branch (its operator is never given), `to_string` of the plan, the parsing of a pipeline.
* Of filters: struct fields, and the branch for DuckDB's main line. Of expressions: the functions that
  differ from `length` only in name. Of the optimizer: the binding rules that rename columns above a rewritten
  scan.
* Of documents: the text made of values, numbers parsed from strings, and the parsing of type
  names, times and read preferences.
