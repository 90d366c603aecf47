----------------------------- MODULE MongoScan -----------------------------
(***************************************************************************)
(* The scans of the queries one DuckDB connection runs, one query after    *)
(* the other, each with one or more mongo_scan: what a scan's bind data    *)
(* holds, what the optimizer makes of it, the session and cursor it opens, *)
(* the chunks it fills, and the operation time it leaves behind for        *)
(* mongo_operation_time().  Sources: mongo_table_function.cpp, the end of  *)
(* mongo_optimizer.cpp, mongo_operation_state.hpp.                         *)
(*                                                                         *)
(* MongoDB is a primary and a secondary that follows it.  A time stands    *)
(* for a BSON timestamp, 0 for none.                                       *)
(***************************************************************************)
EXTENDS Integers, Sequences, Functions, Selection

CONSTANTS
    Scans,           (* the scans a query may hold                            *)
    MaxTime,         (* bound: newest cluster time                            *)
    ChunkSize,       (* STANDARD_VECTOR_SIZE                                  *)
    Schema,          (* the columns of the scanned collection, in order       *)
    Queries,         (* the scans, with what stands above them, users write   *)
    Results,         (* the document sequences a read may yield               *)
    TimesGiven,      (* bound: the times users write, and perhaps Unreadable  *)
    PreferencesSet,  (* bound: what users SET mongo_read_preference to        *)
    Servers,         (* what a session may be: "none", "untimed", "timed"     *)
    MayFail          (* whether calls to MongoDB may fail                     *)

Times == 0..MaxTime
Unreadable == -1

Columns == Range(Schema)
Aggregates == {"count", "__agg0"}
Modes == {"permissive", "dropmalformed", "failfast"}
Preferences == {"default", "primary", "secondary", "any"}
Above == {"none", "topn", "count", "aggregate"}

(* What the user writes, as DuckDB plans it: the columns of the scan         *)
(* (column_ids) and those it has to give out (by projection_ids), the ones   *)
(* with table filters, whether these can be put to MongoDB, the operator     *)
(* above the scan, and the named parameters.  A column is in the scan for    *)
(* being given out or for its filter.                                        *)
QueryTypes ==
    [ids : Seq(Columns), selected : SUBSET Columns, filters : SUBSET Columns, pushed : BOOLEAN,
     above : Above, pipeline : BOOLEAN, explicit : BOOLEAN, mode : Modes, pref : Preferences]

(* MongoScanData, with the columns DuckDB asks of it.                        *)
BindTypes ==
    [names : Seq(Columns \union Aggregates), ids : Seq(Columns \union Aggregates),
     columns : Seq(Columns \union Aggregates), filters : SUBSET Columns, pushed : BOOLEAN,
     above : Above, pipeline : BOOLEAN, explicit : BOOLEAN, mode : Modes, pref : Preferences,
     after : Times]

(* A document that fits the declared schema, and one that does not.          *)
Documents == {"good", "bad"}

ASSUME ScanAssumption ==
    /\ MaxTime \in Nat \ {0}
    /\ ChunkSize \in Nat \ {0}
    /\ Schema \in Seq(STRING) /\ Schema # <<>> /\ Columns \intersect Aggregates = {}
    /\ Queries \subseteq QueryTypes
    /\ \A q \in Queries : Range(q.ids) \subseteq q.selected \union q.filters
    /\ Results \subseteq Seq(Documents)
    /\ TimesGiven \subseteq Times \union {Unreadable}
    /\ PreferencesSet \subseteq Preferences \union {"unreadable"}
    /\ Servers \subseteq {"none", "untimed", "timed"} /\ Servers # {}
    /\ MayFail \in BOOLEAN

VARIABLES
    clock,          (* MongoDB: time of the primary's newest write            *)
    applied,        (* MongoDB: time of the newest write on the secondary     *)
    operationTime,  (* MongoOperationState, 0 without a value                 *)
    settings,       (* mongo_after_cluster_time and mongo_read_preference     *)
    stage,          (* how far each scan of the query is                      *)
    bind,           (* MongoScanData                                          *)
    session,        (* MongoScanState::session: none, or with which server    *)
    sessionTime,    (* its operation_time()                                   *)
    node,           (* the member of the replica set the cursor reads from    *)
    docs,           (* what the cursor yields                                 *)
    position,       (* MongoScanState::current: documents consumed            *)
    requested,      (* MongoScanState::requested_column_names                 *)
    finished,       (* MongoScanState::finished                               *)
    rows,           (* history: which documents DuckDB got rows for; 0 for a  *)
                    (* row made up for an empty count                         *)
    filled,         (* history: the columns whose values rows were given      *)
    asked,          (* history: the after_cluster_time the user wrote         *)
    snapshot,       (* history: the cluster time the scan's read reflects     *)
    sees,           (* history: the snapshot behind the time a user passed on *)
    reported        (* history: the snapshot that operationTime stands for    *)

clusterVars == <<clock, applied>>
connectionVars == <<operationTime, settings, reported>>
scanVars == <<stage, bind, session, sessionTime, node, docs, position, requested,
              finished, rows, filled, asked, snapshot, sees>>
vars == <<clusterVars, connectionVars, scanVars>>

Stages == {"idle", "bound", "planned", "open", "ended", "stopped"}
Running == {"bound", "planned", "open"}

NoQuery ==
    [names |-> <<>>, ids |-> <<>>, columns |-> <<>>, filters |-> {}, pushed |-> TRUE,
     above |-> "none", pipeline |-> FALSE, explicit |-> FALSE, mode |-> "permissive",
     pref |-> "default", after |-> 0]

NodeTime(n) == IF n = "primary" THEN clock ELSE applied

(* Between queries no scan runs.                                             *)
Idle == \A s \in Scans : stage[s] = "idle"

Init ==
    /\ clock \in 1..MaxTime
    /\ applied \in 1..clock
    /\ operationTime = 0
    /\ settings = [after |-> 0, pref |-> "default", sees |-> 0]
    /\ stage = [s \in Scans |-> "idle"]
    /\ bind = [s \in Scans |-> NoQuery]
    /\ session = [s \in Scans |-> "none"]
    /\ sessionTime = [s \in Scans |-> 0]
    /\ node = [s \in Scans |-> "primary"]
    /\ docs = [s \in Scans |-> <<>>]
    /\ position = [s \in Scans |-> 0]
    /\ requested = [s \in Scans |-> <<>>]
    /\ finished = [s \in Scans |-> FALSE]
    /\ rows = [s \in Scans |-> <<>>]
    /\ filled = [s \in Scans |-> {}]
    /\ asked = [s \in Scans |-> 0]
    /\ snapshot = [s \in Scans |-> 0]
    /\ sees = [s \in Scans |-> 0]
    /\ reported = 0

-----------------------------------------------------------------------------
(* MongoDB: a write on the primary, and the secondary catching up.           *)

Write ==
    /\ clock < MaxTime
    /\ clock' = clock + 1
    /\ UNCHANGED <<applied, connectionVars, scanVars>>

Replicate ==
    /\ applied < clock
    /\ applied' = applied + 1
    /\ UNCHANGED <<clock, connectionVars, scanVars>>

-----------------------------------------------------------------------------
(* Between queries: SET and RESET.  A value is stored as it is written; it   *)
(* is read when a scan starts.                                               *)

(* A time a user can know: none, the connection's operation time, or any     *)
(* time from MongoDB's oplog.                                                *)
KnownTimes == TimesGiven \intersect 0..clock

SeenAt(time) == IF time # 0 /\ time = operationTime THEN reported ELSE 0

SetAfterClusterTime ==
    /\ Idle
    /\ \E value \in KnownTimes \union (TimesGiven \intersect {Unreadable}) :
          settings' = [settings EXCEPT !.after = value, !.sees = SeenAt(value)]
    /\ UNCHANGED <<clusterVars, operationTime, reported, scanVars>>

SetReadPreference ==
    /\ Idle
    /\ \E value \in PreferencesSet :
          settings' = [settings EXCEPT !.pref = value]
    /\ UNCHANGED <<clusterVars, operationTime, reported, scanVars>>

-----------------------------------------------------------------------------
(* Planning: MongoScanBind for every scan of the query, then the optimizer.  *)

MongoScanBind(s) ==
    /\ stage[s] = "idle"
    /\ \A u \in Scans : stage[u] \in {"idle", "bound"}
    /\ \E q \in Queries, after \in KnownTimes :
          /\ stage' = [stage EXCEPT ![s] = "bound"]
          /\ bind' = [bind EXCEPT ![s] =
                [names |-> Schema, ids |-> q.ids,
                 columns |-> Keep(q.ids, q.selected),
                 filters |-> q.filters, pushed |-> q.pushed, above |-> q.above,
                 pipeline |-> q.pipeline, explicit |-> q.explicit, mode |-> q.mode,
                 pref |-> q.pref, after |-> after]]
          /\ asked' = [asked EXCEPT ![s] = after]
          /\ sees' = [sees EXCEPT ![s] = SeenAt(after)]
    /\ UNCHANGED <<clusterVars, connectionVars, session, sessionTime, node, docs, position,
                   requested, finished, rows, filled, snapshot>>

(* needs_schema_enforcement, and what switches aggregate pushdown off.       *)
Enforced(b) == b.explicit /\ b.mode # "permissive"

(* Mutant: a rewritten TopN starts from fresh bind data.                     *)
WithTopNFresh(b) == [b EXCEPT !.pipeline = TRUE, !.after = 0, !.pref = "default"]

(* RewriteMongoTopN copies the bind data and gives it a pipeline.            *)
WithTopN(b) == [b EXCEPT !.pipeline = TRUE]

(* RewriteMongoAggregate starts from fresh bind data and takes over neither  *)
(* after_cluster_time nor read_preference.                                   *)
WithAggregate(b) ==
    LET out == <<IF b.above = "count" THEN "count" ELSE "__agg0">> IN
    [NoQuery EXCEPT !.names = out, !.ids = out, !.columns = out, !.above = b.above,
                    !.pipeline = TRUE]

BecomesAggregate(b) == b.above \in {"count", "aggregate"} /\ ~Enforced(b)

Rewritten(b) ==
    CASE b.above = "topn"     -> WithTopN(b)
      [] BecomesAggregate(b)  -> WithAggregate(b)
      [] OTHER                -> b

Optimize(s) ==
    /\ stage[s] = "bound"
    /\ stage' = [stage EXCEPT ![s] = "planned"]
    /\ bind' = [bind EXCEPT ![s] = Rewritten(@)]
    /\ UNCHANGED <<clusterVars, connectionVars, session, sessionTime, node, docs, position,
                   requested, finished, rows, filled, asked, snapshot, sees>>

-----------------------------------------------------------------------------
(* MongoScanInitLocal.                                                       *)

(* Mutant: the read asks for what happens after the given time.              *)
EffectiveTimeNext(b) ==
    IF b.after # 0 THEN b.after + 1
    ELSE IF settings.after = Unreadable THEN 0 ELSE settings.after

(* The parameter, or else the setting if it can be read.                     *)
EffectiveTime(b) ==
    IF b.after # 0 THEN b.after
    ELSE IF settings.after = Unreadable THEN 0 ELSE settings.after

EffectivePreference(b) ==
    IF b.pref # "default" THEN b.pref
    ELSE IF settings.pref = "unreadable" THEN "default" ELSE settings.pref

ReadNodes(pref) ==
    CASE pref = "secondary" -> {"secondary"}
      [] pref = "any"       -> {"primary", "secondary"}
      [] OTHER              -> {"primary"}

(* Mutant: with enforcement, the columns of the schema in their order.       *)
RequestedColumnsOfSchema(b) ==
    CASE b.pipeline  -> b.ids
      [] Enforced(b) -> b.names
      [] OTHER       -> Keep(b.ids, Range(b.columns) \union (IF b.pushed THEN {} ELSE b.filters))

(* The columns the scan materializes, in order.  With a pipeline they are    *)
(* all the columns of the scan; find leaves out the columns of filters that  *)
(* MongoDB applies, and adds every column when rows have to be validated.    *)
RequestedColumns(b) ==
    LET wanted == Range(b.columns) \union (IF b.pushed THEN {} ELSE b.filters) IN
    IF b.pipeline THEN b.ids
    ELSE Keep(b.ids, wanted) \o
            (IF Enforced(b) THEN Keep(b.names, Range(b.names) \ wanted) ELSE <<>>)

(* The documents a read may yield: $count yields one or none.  Whether a     *)
(* document fits the schema is told apart only where that is enforced.       *)
Yields(b) ==
    IF b.above = "count" /\ BecomesAggregate(b) THEN {<<>>, <<"good">>}
    ELSE {ds \in Results : ~Enforced(b) => "bad" \notin Range(ds)}

(* What the documentation promises the read to reflect: the snapshot behind  *)
(* the parameter, or behind the setting when there is no parameter.          *)
Promised(s) == IF asked[s] # 0 THEN sees[s] ELSE settings.sees

(* A session, if MongoDB grants one, is advanced to the time the read has to *)
(* wait for; without one the time is not sent.  A replica set answers once   *)
(* the member read from has reached that time, and its answer carries the    *)
(* member's.  A standalone server ignores the time and answers without one,  *)
(* which leaves the session at the time it was advanced to.                  *)
MongoScanInitLocal(s) ==
    LET b == bind[s] IN
    /\ stage[s] = "planned"
    /\ \A u \in Scans : stage[u] # "bound"
    /\ \E has \in Servers, n \in ReadNodes(EffectivePreference(b)), ds \in Yields(b) :
          /\ has = "timed" => NodeTime(n) >= EffectiveTime(b)
          /\ session' = [session EXCEPT ![s] = has]
          /\ sessionTime' = [sessionTime EXCEPT ![s] =
                CASE has = "timed"   -> NodeTime(n)
                  [] has = "untimed" -> EffectiveTime(b)
                  [] OTHER           -> 0]
          /\ node' = [node EXCEPT ![s] = n]
          /\ docs' = [docs EXCEPT ![s] = ds]
          /\ snapshot' = [snapshot EXCEPT ![s] = NodeTime(n)]
    /\ sees' = [sees EXCEPT ![s] = Promised(s)]
    /\ requested' = [requested EXCEPT ![s] = RequestedColumns(b)]
    /\ stage' = [stage EXCEPT ![s] = "open"]
    /\ UNCHANGED <<clusterVars, connectionVars, bind, position, finished, rows, filled, asked>>

-----------------------------------------------------------------------------
(* MongoScanFunction: one call fills one chunk.  DuckDB calls until it is    *)
(* given an empty one.                                                       *)

(* output.ColumnCount(): a query that wants no column gets a virtual one.    *)
Width(b) == IF b.columns = <<>> THEN 1 ELSE Len(b.columns)

CountsOnly(s) ==
    Width(bind[s]) = 1 /\ Len(requested[s]) > 1 /\ ~Enforced(bind[s])

MakesZeroRow(s) ==
    /\ position[s] = Len(docs[s])
    /\ bind[s].pipeline
    /\ Width(bind[s]) = 1
    /\ requested[s] = <<"count">>

(* The documents from one position to another that become rows, in order.    *)
Accepted(s, from, to) ==
    Keep([i \in 1..to - from |-> from + i],
         {k \in DOMAIN docs[s] : Enforced(bind[s]) => docs[s][k] = "good"})

(* The columns a row is flattened into: the first of the requested ones, or  *)
(* of all when none is requested.                                            *)
Filled(s) ==
    LET cols == IF requested[s] # <<>> THEN requested[s] ELSE bind[s].names
    IN  IF Len(cols) <= Width(bind[s]) THEN cols ELSE SubSeq(cols, 1, Width(bind[s]))

(* Mutant: a chunk is full after ChunkSize documents, dropped ones included. *)
StopsAtDocuments(s, to) ==
    /\ to = Len(docs[s]) \/ to = position[s] + ChunkSize
    /\ to <= position[s] + ChunkSize

(* The loop runs until the chunk is full or the cursor at its end.           *)
StopsAt(s, to) ==
    LET full(j) == Len(Accepted(s, position[s], j)) = ChunkSize IN
    /\ to = Len(docs[s]) \/ full(to)
    /\ \A j \in position[s]..(to - 1) : ~full(j)

(* Under FAILFAST a document that does not fit raises an error.              *)
Raises(s, to) ==
    /\ Enforced(bind[s])
    /\ bind[s].mode = "failfast"
    /\ \E k \in position[s] + 1..to : docs[s][k] = "bad"

StageAfter(given) == IF given = <<>> THEN "ended" ELSE "open"

(* finished is set: an empty chunk.                                          *)
ScanIsFinished(s) ==
    /\ stage[s] = "open"
    /\ finished[s]
    /\ stage' = [stage EXCEPT ![s] = "ended"]
    /\ UNCHANGED <<clusterVars, connectionVars, bind, session, sessionTime, node, docs, position,
                   requested, finished, rows, filled, asked, snapshot, sees>>

(* The cursor may have asked MongoDB for another batch, whose answer         *)
(* advances the session's time.                                              *)
SessionMayAdvance(s) ==
    \E time \in {sessionTime[s]} \union
               (IF session[s] = "timed" THEN {NodeTime(node[s])} ELSE {}) :
        sessionTime' = [sessionTime EXCEPT ![s] = time]

(* The path for COUNT with filter columns: documents are counted, no column  *)
(* is filled, the requested columns are forgotten, and the operation time is *)
(* not looked at.                                                            *)
ScanCounts(s) ==
    LET from == position[s]
        to == IF from + ChunkSize < Len(docs[s]) THEN from + ChunkSize ELSE Len(docs[s])
        given == [i \in 1..to - from |-> from + i]
    IN
    /\ stage[s] = "open"
    /\ ~finished[s]
    /\ CountsOnly(s)
    /\ requested' = [requested EXCEPT ![s] = <<>>]
    /\ position' = [position EXCEPT ![s] = to]
    /\ rows' = [rows EXCEPT ![s] = @ \o given]
    /\ filled' = [filled EXCEPT ![s] = @ \union {<<>> : k \in DOMAIN given}]
    /\ finished' = [finished EXCEPT ![s] = to = Len(docs[s])]
    /\ stage' = [stage EXCEPT ![s] = StageAfter(given)]
    /\ SessionMayAdvance(s)
    /\ UNCHANGED <<clusterVars, connectionVars, bind, session, node, docs, asked, snapshot, sees>>

(* Mutant: the scan is not finished by its row.                              *)
ScanMakesZeroRowAgain(s) ==
    /\ stage[s] = "open"
    /\ ~finished[s]
    /\ ~CountsOnly(s)
    /\ MakesZeroRow(s)
    /\ rows' = [rows EXCEPT ![s] = Append(@, 0)]
    /\ UNCHANGED <<clusterVars, connectionVars, stage, bind, session, sessionTime, node, docs,
                   position, requested, finished, filled, asked, snapshot, sees>>

(* A pushed-down COUNT whose pipeline found nothing: one row, 0.             *)
ScanMakesZeroRow(s) ==
    /\ stage[s] = "open"
    /\ ~finished[s]
    /\ ~CountsOnly(s)
    /\ MakesZeroRow(s)
    /\ rows' = [rows EXCEPT ![s] = Append(@, 0)]
    /\ finished' = [finished EXCEPT ![s] = TRUE]
    /\ UNCHANGED <<clusterVars, connectionVars, stage, bind, session, sessionTime, node, docs,
                   position, requested, filled, asked, snapshot, sees>>

(* What waiting for the session's time is enough to see: what the scan saw,  *)
(* or, when the server has no times, what stood behind the time it was given *)
(* and has kept.                                                             *)
Covered(s) ==
    IF session[s] = "timed" THEN snapshot[s]
    ELSE IF bind[s].after # 0 THEN sees[s] ELSE settings.sees

(* Mutant: what is kept is the time the scan was given.                      *)
SetOperationTimeGiven(s, time) ==
    IF time = 0 THEN UNCHANGED <<operationTime, reported>>
    ELSE operationTime' = EffectiveTime(bind[s]) /\ reported' = Covered(s)

(* Mutant: the increment is taken one too high.                              *)
SetOperationTimeNext(s, time) ==
    IF time = 0 THEN UNCHANGED <<operationTime, reported>>
    ELSE operationTime' = time + 1 /\ reported' = Covered(s)

(* MongoOperationState::SetOperationTime; no time leaves it as it is.        *)
SetOperationTime(s, time) ==
    IF time = 0 THEN UNCHANGED <<operationTime, reported>>
    ELSE operationTime' = time /\ reported' = Covered(s)

(* The main loop.  When it has met the end of the cursor, the session's time *)
(* becomes the connection's operation time.                                  *)
ScanDocuments(s) ==
    /\ stage[s] = "open"
    /\ ~finished[s]
    /\ ~CountsOnly(s)
    /\ ~MakesZeroRow(s)
    /\ SessionMayAdvance(s)
    /\ \E to \in position[s]..Len(docs[s]) :
          LET given == Accepted(s, position[s], to)
              done == to = Len(docs[s])
          IN
          /\ StopsAt(s, to)
          /\ ~Raises(s, to)
          /\ position' = [position EXCEPT ![s] = to]
          /\ rows' = [rows EXCEPT ![s] = @ \o given]
          /\ filled' = [filled EXCEPT ![s] = @ \union {Filled(s) : k \in DOMAIN given}]
          /\ finished' = [finished EXCEPT ![s] = done]
          /\ stage' = [stage EXCEPT ![s] = StageAfter(given)]
          /\ IF done /\ session[s] # "none" THEN SetOperationTime(s, sessionTime'[s])
             ELSE UNCHANGED <<operationTime, reported>>
    /\ UNCHANGED <<clusterVars, settings, bind, session, node, docs, requested, asked,
                   snapshot, sees>>

-----------------------------------------------------------------------------
(* How a query ends.                                                         *)

(* Local states are freed with the query.                                    *)
ForgetScans ==
    /\ stage' = [s \in Scans |-> "idle"]
    /\ bind' = [s \in Scans |-> NoQuery]
    /\ session' = [s \in Scans |-> "none"]
    /\ sessionTime' = [s \in Scans |-> 0]
    /\ node' = [s \in Scans |-> "primary"]
    /\ docs' = [s \in Scans |-> <<>>]
    /\ position' = [s \in Scans |-> 0]
    /\ requested' = [s \in Scans |-> <<>>]
    /\ finished' = [s \in Scans |-> FALSE]
    /\ rows' = [s \in Scans |-> <<>>]
    /\ filled' = [s \in Scans |-> {}]
    /\ asked' = [s \in Scans |-> 0]
    /\ snapshot' = [s \in Scans |-> 0]
    /\ sees' = [s \in Scans |-> 0]
    /\ UNCHANGED <<clusterVars, connectionVars>>

(* DuckDB stops a scan it needs no more rows of.                             *)
StopScan(s) ==
    /\ stage[s] = "open"
    /\ stage' = [stage EXCEPT ![s] = "stopped"]
    /\ UNCHANGED <<clusterVars, connectionVars, bind, session, sessionTime, node, docs, position,
                   requested, finished, rows, filled, asked, snapshot, sees>>

EndQuery ==
    /\ ~Idle
    /\ \A s \in Scans : stage[s] \notin Running
    /\ ForgetScans

(* An exception of one scan ends the query: a call to MongoDB that failed,   *)
(* or a document that FAILFAST rejects.                                      *)
MongoDBFails(s) ==
    /\ MayFail
    /\ stage[s] \in {"planned", "open"}
    /\ ForgetScans

ValidationFails(s) ==
    /\ stage[s] = "open"
    /\ ~finished[s]
    /\ \E to \in position[s]..Len(docs[s]) : StopsAt(s, to) /\ Raises(s, to)
    /\ ForgetScans

ScanStep(s) ==
    \/ Optimize(s)
    \/ MongoScanInitLocal(s)
    \/ ScanIsFinished(s)
    \/ ScanCounts(s)
    \/ ScanMakesZeroRow(s)
    \/ ScanDocuments(s)
    \/ ValidationFails(s)

Next ==
    \/ Write
    \/ Replicate
    \/ SetAfterClusterTime
    \/ SetReadPreference
    \/ EndQuery
    \/ \E s \in Scans : MongoScanBind(s) \/ ScanStep(s) \/ StopScan(s) \/ MongoDBFails(s)

Spec == Init /\ [][Next]_vars

(* DuckDB keeps calling a scan until it ends, and the secondary catches up.  *)
Fairness ==
    /\ WF_vars(Replicate)
    /\ WF_vars(EndQuery)
    /\ \A s \in Scans : WF_vars(ScanStep(s))

FairSpec == Spec /\ Fairness

-----------------------------------------------------------------------------
(* Properties.                                                               *)

(* Every variable keeps its type.                                            *)
TypeOK ==
    /\ clock \in 1..MaxTime
    /\ applied \in 1..MaxTime
    /\ operationTime \in Times
    /\ settings \in [after : Times \union {Unreadable},
                     pref : Preferences \union {"unreadable"}, sees : Times]
    /\ stage \in [Scans -> Stages]
    /\ bind \in [Scans -> BindTypes]
    /\ session \in [Scans -> {"none", "untimed", "timed"}]
    /\ sessionTime \in [Scans -> Times]
    /\ node \in [Scans -> {"primary", "secondary"}]
    /\ docs \in [Scans -> Seq(Documents)]
    /\ position \in [Scans -> Nat]
    /\ requested \in [Scans -> Seq(Columns \union Aggregates)]
    /\ finished \in [Scans -> BOOLEAN]
    /\ rows \in [Scans -> Seq(Nat)]
    /\ filled \in [Scans -> SUBSET Seq(Columns \union Aggregates)]
    /\ asked \in [Scans -> Times]
    /\ snapshot \in [Scans -> Times]
    /\ sees \in [Scans -> Times]
    /\ reported \in Times

(* A scan that DuckDB has drained has given it each document of the cursor   *)
(* that fits the schema (each document, unless a mode other than PERMISSIVE  *)
(* drops the others) exactly once and in order, however the documents fall   *)
(* into chunks: DuckDB takes an empty chunk for the end, so no chunk before  *)
(* the end may be empty.                                                     *)
EveryRowOnce ==
    \A s \in Scans : stage[s] = "ended" =>
        Keep(rows[s], Nat \ {0}) = Accepted(s, 0, Len(docs[s]))

(* COUNT( * ) moved into MongoDB gives one row, also when nothing matched and *)
(* $count has no document to give.                                           *)
CountGivesOneRow ==
    \A s \in Scans : bind[s].above = "count" /\ BecomesAggregate(bind[s]) =>
        /\ Len(rows[s]) <= 1
        /\ stage[s] = "ended" => Len(rows[s]) = 1

(* mongo_operation_time() is never ahead of MongoDB, and waiting for it is   *)
(* enough to see what the scan it comes from saw, although a connection's    *)
(* scans run side by side and read from members with different times.  After *)
(* a scan of a server without times it is the time that scan was given, and  *)
(* covers what that time stood for; what the scan itself saw it need not     *)
(* cover.                                                                    *)
OperationTimeCoversRead ==
    /\ operationTime <= clock
    /\ reported <= operationTime

(* A causal chain holds from end to end: after a query that got its          *)
(* after_cluster_time from mongo_operation_time(), as parameter or by SET,   *)
(* with or without writes, lag or a rewriting as TopN in between, a scan     *)
(* never shows less than the scan that time was taken from, also when it was *)
(* handed on through scans of servers without times; unless the optimizer    *)
(* rewrote the scan as an aggregate.                                         *)
CausalChain ==
    \A s \in Scans :
        stage[s] \in {"open", "ended", "stopped"} /\ session[s] = "timed"
            /\ ~BecomesAggregate(bind[s])
        => snapshot[s] >= sees[s]

(* Columns with filters that MongoDB was not asked stay in the scan.         *)
Widened(b) == (b.pipeline \/ ~b.pushed) /\ ~(b.filters \subseteq Range(b.columns))

(* A row holds, column by column, the values of the columns DuckDB asked     *)
(* for, also where schema enforcement adds columns and where filters are     *)
(* pruned; unless a filter's column stays in the scan (see the next one).    *)
ColumnsLineUp ==
    \A s \in Scans : bind[s].columns # <<>> /\ ~Widened(bind[s])
                       => filled[s] \subseteq {bind[s].columns}

(* Every query ends: neither the wait for a time the user gave, nor chunks   *)
(* that validation empties, nor the count paths keep it forever.             *)
QueriesEnd == \A s \in Scans : stage[s] # "idle" ~> stage[s] = "idle"

-----------------------------------------------------------------------------
(* What comments and documents say and the code does not do.                 *)

(* "Handle COUNT queries": rows are left unfilled only for queries that want *)
(* no column, and the requested columns are in the order DuckDB expects.     *)
RowsHoldTheirColumns ==
    \A s \in Scans : bind[s].columns # <<>> => filled[s] \subseteq {bind[s].columns}

=============================================================================
