--------------------------- MODULE PushedQueries ---------------------------
(***************************************************************************)
(* One query over one mongo_scan, from binding to its answer: which of its *)
(* conditions go to MongoDB and where they are kept meanwhile, what the     *)
(* optimizer makes of the operator above the scan, the query MongoDB gets   *)
(* and the rows of the scan.                                               *)
(* Sources: mongo_expr_pushdown.cpp, mongo_optimizer.cpp, and the parts of *)
(* mongo_table_function.cpp that put the query together.                   *)
(*                                                                         *)
(* A condition is a filter (kind "filter", see FilterPushdown) or an       *)
(* expression (see ExpressionPushdown).  Documents are numbered in the      *)
(* order of _id.                                                           *)
(***************************************************************************)
EXTENDS ExpressionPushdown, FiniteSetsExt

CONSTANTS
    Families     (* bound: families of queries, each query with the          *)
                 (* collection it meets                                      *)

(* What the user adds to a direct mongo_scan: nothing, a filter, a pipeline. *)
UserParameters == {"none", "filter", "pipeline"}
Operators == {"none", "topn", "aggregate"}

(* What a query and its collection are made of.  DuckDB folds comparisons    *)
(* with NULL before it hands them over, and sums nothing but numbers.        *)
IsOperand(q, operand) ==
    IF operand.kind = "constant" THEN operand.value \in Pairs \ {Null, Error}
    ELSE /\ operand.kind \in {"column", "cast"} \union FunctionKinds
         /\ operand.index \in DOMAIN q.schema
         /\ operand.kind = "substring" => operand.start \in Int /\ operand.length \in Int
IsCondition(q, c) ==
    \/ c.kind = "filter" /\ IsFilter(c) /\ c.column \in DOMAIN q.path
    \/ c.kind = "expression" /\ IsOperand(q, c.left) /\ IsOperand(q, c.right)
AggregateFunctions == {"count_star", "count", "sum", "min"}
IsOperator(q, above) ==
    CASE above.kind = "none" -> TRUE
      [] above.kind = "topn" ->
           above.key \in DOMAIN q.path \union {"_id"} /\ above.limit \in Nat /\ above.offset \in Nat
      [] above.kind = "aggregate" ->
           /\ above.function \in AggregateFunctions
           /\ above.group \in DOMAIN q.path \union {"none"}
           /\ above.function # "count_star" => above.of \in DOMAIN q.path
           /\ above.function = "sum" => q.type[above.of] \in {"BIGINT", "HUGEINT", "INTEGER"}
IsQuery(q) ==
    /\ q.user.kind \in UserParameters
    /\ q.above.kind \in Operators /\ IsOperator(q, q.above)
    /\ Len(q.docs) \in Nat /\ DOMAIN q.docs = 1..Len(q.docs)
    /\ IsFiniteSet(q.where) /\ IsFiniteSet(q.joins)
    /\ \A c \in q.where \union q.joins : IsCondition(q, c)
    /\ \A c \in q.joins : c.kind = "filter"
    /\ \A k \in DOMAIN q.schema : q.schema[k] \in DOMAIN q.path
    /\ \A i \in DOMAIN q.docs : \A c \in DOMAIN q.path : q.docs[i][q.path[c]] \in Pairs \ {Error}

ASSUME QueriesAssumption == \A family \in Families : \A q \in family : IsQuery(q)

VARIABLES
    query,          (* the query and its collection                          *)
    stage,
    oids,           (* MongoScanData::objectid_columns                       *)
    remaining,      (* conditions DuckDB evaluates itself above the scan     *)
    complexFilter,  (* MongoScanData::complex_filter_expr                    *)
    tableFilters,   (* the TableFilterSet of the scan                        *)
    pipeline,       (* MongoScanData::pipeline_json: whose it is, and what   *)
                    (* its $match holds                                      *)
    sent,           (* what MongoDB is asked for                             *)
    answer          (* the rows of the scan: documents, or what a rewritten  *)
                    (* operator makes of them                                *)

vars == <<query, stage, oids, remaining, complexFilter, tableFilters, pipeline, sent, answer>>

Stages == {"new", "bound", "complex", "pushed", "planned", "ready", "open", "answered", "refused"}
NothingSent == [user |-> FALSE, filters |-> {}, expressions |-> {}]
NoPipeline == [kind |-> "none", match |-> NothingSent]

Init ==
    /\ \E family \in Families : query \in family
    /\ stage = "new"
    /\ oids = {}
    /\ remaining = query.where
    /\ complexFilter = {}
    /\ tableFilters = {}
    /\ pipeline = NoPipeline
    /\ sent = NothingSent
    /\ answer = {}

(* The table as the translation sees it.                                     *)
Table == [type |-> query.type, path |-> query.path, schema |-> query.schema, oids |-> oids]
Docs == DOMAIN query.docs
Advance(from, to) == stage = from /\ stage' = to

-----------------------------------------------------------------------------
(* Binding.  One document, whichever MongoDB gives first, decides which      *)
(* columns are taken to hold ObjectIds.                                     *)

ObjectIdFields(document) == {c \in DOMAIN query.path : document[query.path[c]][1] = "oid"}

MongoScanBind ==
    /\ Advance("new", "bound")
    /\ oids' \in (IF Docs = {} THEN {{}} ELSE {ObjectIdFields(query.docs[i]) : i \in Docs})
    /\ pipeline' = IF query.user.kind = "pipeline"
                   THEN [kind |-> "user", match |-> [NothingSent EXCEPT !.user = TRUE]]
                   ELSE NoPipeline
    /\ UNCHANGED <<query, remaining, complexFilter, tableFilters, sent, answer>>

-----------------------------------------------------------------------------
(* Planning.  Expressions that can be converted leave DuckDB's conditions;   *)
(* DuckDB then hands over what filters it likes, some of which it goes on   *)
(* evaluating itself.                                                      *)

Simple(condition) == condition.kind = "filter"

(* Mutant: the conditions DuckDB can hand over as filters are taken too.     *)
ConvertibleWithFilters == {c \in remaining : Simple(c) \/ Converts(c)}

Convertible == {c \in remaining : ~Simple(c) /\ Converts(c)}

MongoPushdownComplexFilter ==
    /\ Advance("bound", "complex")
    /\ complexFilter' = Convertible
    /\ remaining' = remaining \ Convertible
    /\ UNCHANGED <<query, oids, tableFilters, pipeline, sent, answer>>

PushTableFilters ==
    /\ Advance("complex", "pushed")
    /\ \E pushed \in SUBSET {c \in remaining : Simple(c)} :
          /\ tableFilters' = pushed
          /\ \E kept \in SUBSET pushed : remaining' = remaining \ (pushed \ kept)
    /\ UNCHANGED <<query, oids, complexFilter, pipeline, sent, answer>>

(* Mutant: the match of a pipeline leaves out the expressions.               *)
BuildMatchWithoutExpressions ==
    [user |-> query.user.kind = "filter", filters |-> tableFilters, expressions |-> {}]

BuildMatchFromExistingFilters ==
    [user |-> query.user.kind = "filter", filters |-> tableFilters, expressions |-> complexFilter]

(* Only projections may stand between the operator and the scan.             *)
DirectlyAboveScan == remaining = {} /\ query.joins = {}

RewritesTopN ==
    /\ query.above.kind = "topn" /\ DirectlyAboveScan
    /\ query.above.offset = 0 /\ query.above.limit # 0
    /\ query.above.key = "_id"

RewriteMongoTopN ==
    /\ Advance("pushed", "planned")
    /\ RewritesTopN
    /\ pipeline' = [kind |-> "topn", match |-> BuildMatchFromExistingFilters]
    /\ UNCHANGED <<query, oids, remaining, complexFilter, tableFilters, sent, answer>>

RewritesAggregate == query.above.kind = "aggregate" /\ DirectlyAboveScan /\ ~query.strict

(* The scan of an aggregate gets bind data of its own, without the filters.  *)
RewriteMongoAggregate ==
    /\ Advance("pushed", "planned")
    /\ RewritesAggregate
    /\ pipeline' = [kind |-> "aggregate", match |-> BuildMatchFromExistingFilters]
    /\ complexFilter' = {}
    /\ tableFilters' = {}
    /\ UNCHANGED <<query, oids, remaining, sent, answer>>

KeepPlan ==
    /\ Advance("pushed", "planned")
    /\ ~RewritesTopN /\ ~RewritesAggregate
    /\ UNCHANGED <<query, oids, remaining, complexFilter, tableFilters, pipeline, sent, answer>>

-----------------------------------------------------------------------------
(* Execution.  A join above may have added filters of its own by then.       *)

PushJoinFilters ==
    /\ Advance("planned", "ready")
    /\ tableFilters' = tableFilters \union query.joins
    /\ UNCHANGED <<query, oids, remaining, complexFilter, pipeline, sent, answer>>

(* Mutant: the expressions replace the filters instead of joining them.      *)
PlainQueryOverwritten ==
    CASE complexFilter # {} -> [NothingSent EXCEPT !.expressions = complexFilter]
      [] tableFilters # {} -> [NothingSent EXCEPT !.filters = tableFilters]
      [] OTHER -> [NothingSent EXCEPT !.user = (query.user.kind = "filter")]

(* The query of a scan without a pipeline: filters and expressions, or else *)
(* the user's filter, or else the expressions.                              *)
PlainQuery ==
    CASE tableFilters # {} -> [user |-> FALSE, filters |-> tableFilters, expressions |-> complexFilter]
      [] tableFilters = {} /\ query.user.kind = "filter" -> [NothingSent EXCEPT !.user = TRUE]
      [] OTHER -> [NothingSent EXCEPT !.expressions = complexFilter]

MongoScanInitLocal ==
    /\ Advance("ready", "open")
    /\ sent' = IF pipeline.kind # "none" THEN pipeline.match ELSE PlainQuery
    /\ UNCHANGED <<query, oids, remaining, complexFilter, tableFilters, pipeline, answer>>

(* MongoDB: the documents a query finds.                                     *)
FoundBefore(s, i) ==
    /\ s.user => Matches(query.docs[i], query.user.query)
    /\ Matches(query.docs[i], ConvertFiltersToMongoQuery(Table, s.filters))
Found(s) ==
    {i \in Docs : FoundBefore(s, i) /\ \A e \in s.expressions : Holds(Table, query.docs[i], e)}
Refuses(i) == \E e \in sent.expressions : Errs(Table, query.docs[i], e)

(* An expression may be evaluated on documents the rest of the query rules   *)
(* out.                                                                    *)
MongoDBRefuses ==
    /\ Advance("open", "refused")
    /\ \E i \in Docs : Refuses(i)
    /\ UNCHANGED <<query, oids, remaining, complexFilter, tableFilters, pipeline, sent, answer>>

-----------------------------------------------------------------------------
(* Operators above the scan, as DuckDB computes them over rows ...           *)

Column(i, c) == Value(Table, query.docs[i], c)
Field(i, c) == query.docs[i][query.path[c]]

Precedes(i, j) ==
    IF query.above.key = "_id" THEN i < j
    ELSE LET x == Column(i, query.above.key)
             y == Column(j, query.above.key)
         IN  Less(x, y) \/ (x = y /\ i < j)
First(rows) ==
    {i \in rows : LET before == Cardinality({j \in rows : Precedes(j, i)})
                  IN  query.above.offset <= before /\ before < query.above.offset + query.above.limit}

Smallest(values) == IF values = {} THEN Null ELSE CHOOSE v \in values : \A w \in values : v = w \/ Less(v, w)
Number(n) == <<"number", n>>

Aggregate(rows) ==
    LET given == {i \in rows : Column(i, query.above.of) # Null}
    IN  CASE query.above.function = "count_star" -> Number(Cardinality(rows))
          [] query.above.function = "count" -> Number(Cardinality(given))
          [] query.above.function = "sum" ->
               (IF given = {} THEN Null ELSE Number(SumFunction([i \in given |-> Column(i, query.above.of)[2]])))
          [] query.above.function = "min" -> Smallest({Column(i, query.above.of) : i \in given})

Grouped(rows) ==
    IF query.above.group = "none" THEN {<<Aggregate(rows)>>}
    ELSE {<<Column(i, query.above.group),
            Aggregate({j \in rows : Column(j, query.above.group) = Column(i, query.above.group)})>> : i \in rows}

Operator(rows) ==
    CASE query.above.kind = "topn" -> First(rows)
      [] query.above.kind = "aggregate" -> Grouped(rows)

(* ... and as the stages of BuildAggregatePipelineJson compute them over     *)
(* fields: $ne keeps apart null and a missing field, $sum is 0 of nothing,  *)
(* and without a document there is no group; a $count that found none is    *)
(* made up for by the scan.                                                *)

(* Mutant: a COUNT of a column counts documents.                            *)
ServerAggregateOfAll(rows) ==
    CASE query.above.function \in {"count_star", "count"} -> Number(Cardinality(rows))
      [] query.above.function = "sum" ->
           Number(SumFunction([i \in rows |->
                                 IF Field(i, query.above.of)[1] = "number" THEN Field(i, query.above.of)[2] ELSE 0]))
      [] query.above.function = "min" ->
           Read(query.type[query.above.of], Smallest({Field(i, query.above.of) : i \in rows} \ {Null, Missing}))

ServerAggregate(rows) ==
    LET of(i) == Field(i, query.above.of)
    IN  CASE query.above.function = "count_star" -> Number(Cardinality(rows))
          [] query.above.function = "count" -> Number(Cardinality({i \in rows : of(i) # Null}))
          [] query.above.function = "sum" ->
               Number(SumFunction([i \in rows |-> IF of(i)[1] = "number" THEN of(i)[2] ELSE 0]))
          [] query.above.function = "min" ->
               Read(query.type[query.above.of], Smallest({of(i) : i \in rows} \ {Null, Missing}))

AggregatePipeline(rows) ==
    CASE query.above.group # "none" ->
           {<<Column(i, query.above.group),
              ServerAggregate({j \in rows : Field(j, query.above.group) = Field(i, query.above.group)})>> : i \in rows}
      [] query.above.group = "none" /\ rows = {} ->
           (IF query.above.function = "count_star" THEN {<<Number(0)>>} ELSE {})
      [] OTHER -> {<<ServerAggregate(rows)>>}

-----------------------------------------------------------------------------
(* In a strict mode a scan drops documents that do not fit.                  *)
Accepted(i) ==
    query.strict => \A c \in DOMAIN query.path :
       Field(i, c) \in {Missing, Null} \/ IsBSONTypeCompatible(Field(i, c)[1], query.type[c])

(* The stages of BuildTopNPipelineJson, $match, $sort by _id and $limit; only *)
(* then are documents dropped.                                              *)
TopNPipeline(rows) == {i \in rows : Accepted(i) /\ Cardinality({k \in rows : k < i}) < query.above.limit}

ConditionIsTrue(condition, i) ==
    IF Simple(condition) THEN FilterIsTrue(Table, query.docs[i], condition)
    ELSE ExpressionIsTrue(Table, query.ids, query.docs[i], condition)

(* The rows a plain scan with the query s gives, after what DuckDB still     *)
(* checks.                                                                 *)
Scanned(s) ==
    {i \in Found(s) : Accepted(i) /\ \A c \in remaining \union query.joins : ConditionIsTrue(c, i)}

MongoScanFunction ==
    /\ Advance("open", "answered")
    /\ \A i \in Docs : FoundBefore(sent, i) => ~Refuses(i)
    /\ answer' = CASE pipeline.kind = "topn" -> TopNPipeline(Found(sent))
                   [] pipeline.kind = "aggregate" -> AggregatePipeline(Found(sent))
                   [] OTHER -> Scanned(sent)
    /\ UNCHANGED <<query, oids, remaining, complexFilter, tableFilters, pipeline, sent>>

Next ==
    \/ MongoScanBind \/ MongoPushdownComplexFilter \/ PushTableFilters
    \/ RewriteMongoTopN \/ RewriteMongoAggregate \/ KeepPlan
    \/ PushJoinFilters \/ MongoScanInitLocal \/ MongoDBRefuses \/ MongoScanFunction

Spec == Init /\ [][Next]_vars

-----------------------------------------------------------------------------
(* Conditions are where they may be: a type invariant.                      *)
TypeOK ==
    /\ stage \in Stages
    /\ oids \subseteq DOMAIN query.path
    /\ remaining \subseteq query.where
    /\ \A c \in complexFilter : c \in query.where /\ ~Simple(c)
    /\ tableFilters \subseteq query.where \union query.joins
    /\ pipeline.kind \in {"none", "user", "topn", "aggregate"}

(* The ways a scan loses conditions DuckDB no longer checks: a pipeline of   *)
(* the user's is sent as it is, and a filter of the user's alone wins over  *)
(* expressions.                                                            *)
SentAsGiven ==
    \/ pipeline.kind = "user"
    \/ pipeline.kind = "none" /\ query.user.kind = "filter" /\ tableFilters = {}

(* Every condition of the WHERE clause reaches MongoDB or stays with DuckDB, *)
(* through the expressions taken from DuckDB's list, the filters handed     *)
(* over, rewriting and the choice between user filter, filters and           *)
(* expressions, but for SentAsGiven.                                        *)
NoConditionLost ==
    stage \in {"open", "answered"} /\ ~SentAsGiven =>
       query.where \subseteq remaining \union sent.filters \union sent.expressions

(* README: "If both WHERE clauses and filter are present, WHERE clauses take *)
(* precedence."  Does not hold: WHERE LENGTH(name) > 5 beside a filter is    *)
(* taken from DuckDB and not sent.                                          *)
WhereTakesPrecedence ==
    stage = "open" /\ query.user.kind = "filter" =>
       query.where \subseteq remaining \union sent.filters \union sent.expressions

(* What the user added is part of what MongoDB is asked, but where filters    *)
(* take precedence over a user's filter, and where a pipeline made by the    *)
(* optimizer takes the place of the user's.                                 *)
UserParameterKept ==
    stage = "open" /\ query.user.kind # "none" =>
       \/ sent.user
       \/ query.user.kind = "filter" /\ pipeline.kind = "none" /\ tableFilters # {}
       \/ query.user.kind = "pipeline" /\ pipeline.kind \in {"topn", "aggregate"}

(* MongoDB refuses a query only for documents without a string where one is  *)
(* measured or cut: positions SQL allows and MongoDB does not are kept from   *)
(* it.  Between two substrings the code looks at the left one alone.         *)
RefusedForValuesOnly ==
    stage = "refused" =>
       \E e \in sent.expressions :
          \/ {e.left.kind, e.right.kind} = {"substring"}
          \/ \E operand \in {e.left, e.right} : \E i \in Docs :
                /\ operand.kind \in FunctionKinds
                /\ query.docs[i][GetMongoPathForColumn(Table, operand.index)][1] # "string"

(* Where MongoDB says of the conditions it was given what SQL says of them.   *)
Agrees(s) ==
    /\ ~s.user
    /\ Mergeable(Table, s.filters)
    /\ \A f \in s.filters :
          /\ Faithful(Table, f)
          /\ \A i \in Docs : Fits(Table, f.column, Field(i, f.column))
    /\ \A e \in s.expressions : \A i \in Docs : ExpressionAgrees(Table, query.ids, query.docs[i], e)

(* A plain scan answers with the documents all conditions are TRUE for: no   *)
(* row is lost and none too many found by $match, $expr, missing fields,    *)
(* ObjectIds, dates or a half-translated disjunction, where Agrees holds.    *)
PlainScanExact ==
    stage = "answered" /\ pipeline.kind = "none" /\ query.user.kind = "none" /\ Agrees(sent) =>
       answer = {i \in Docs : Accepted(i) /\ \A c \in query.where \union query.joins : ConditionIsTrue(c, i)}

(* Where a pipeline computes what DuckDB computes: no document is dropped by *)
(* validation, nothing else was asked by the user, and an aggregate has      *)
(* fields to work on.                                                      *)
RewriteAgrees ==
    LET rows == Found(sent)
        present(c) == \A i \in rows : Field(i, c) # Missing /\ Fits(Table, c, Field(i, c))
    IN  /\ ~query.strict /\ query.user.kind = "none"
        /\ pipeline.kind = "aggregate" =>
              /\ query.above.function # "count_star" => present(query.above.of)
              /\ query.above.function # "count_star" /\ query.above.group = "none" => rows # {}
              /\ query.above.function = "sum" => \A i \in rows : Field(i, query.above.of) # Null
              /\ query.above.group # "none" => present(query.above.group)

(* A rewritten TopN or aggregate gives what DuckDB's operator gives over the *)
(* rows of the scan it replaced.                                           *)
RewriteKeepsAnswer ==
    stage = "answered" /\ pipeline.kind \in {"topn", "aggregate"} /\ RewriteAgrees =>
       answer = Operator({i \in Docs : /\ Matches(query.docs[i], ConvertFiltersToMongoQuery(Table, {c \in query.where : Simple(c)}))
                                       /\ \A e \in {c \in query.where : ~Simple(c)} : Holds(Table, query.docs[i], e)})

=============================================================================
