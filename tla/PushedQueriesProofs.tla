------------------------ MODULE PushedQueriesProofs ------------------------
(***************************************************************************)
(* Proofs about PushedQueries: where the conditions of a query and the      *)
(* user's filter or pipeline are at each stage, and that a plain scan finds *)
(* the documents SQL would.                                                *)
(***************************************************************************)
EXTENDS PushedQueries, FilterPushdownProofs, SelectionProofs

(* What the query in progress is.                                           *)
QueryOK == IsQuery(query)

(* The scan has expressions and filters once they are handed over; until the *)
(* optimizer has run, only the user can have made a pipeline.               *)
PipelineOrigin ==
    /\ stage \in {"new", "bound"} => complexFilter = {}
    /\ stage \in {"new", "bound", "complex"} => tableFilters = {}
    /\ stage = "new" => pipeline = NoPipeline
    /\ stage \in {"bound", "complex", "pushed"} => pipeline.kind \in {"none", "user"}
    /\ stage # "new" /\ pipeline.kind = "none" => query.user.kind # "pipeline"
    /\ pipeline.kind = "user" => pipeline.match.user

(* A condition is with DuckDB, among the filters or expressions of the scan, *)
(* or in the pipeline that took them over.                                  *)
ConditionsPlaced ==
    /\ \A f \in tableFilters : Simple(f)
    /\ pipeline.kind \in {"none", "user"} => query.where \subseteq remaining \union tableFilters \union complexFilter
    /\ pipeline.kind \in {"topn", "aggregate"} =>
          /\ query.where \subseteq remaining \union pipeline.match.filters \union pipeline.match.expressions
          /\ query.user.kind = "filter" => pipeline.match.user

SentFrom ==
    stage \in {"open", "answered", "refused"} =>
       sent = IF pipeline.kind # "none" THEN pipeline.match ELSE PlainQuery

(* The expressions of a scan or a pipeline are conditions that were converted. *)
IsConverted(e) == e \in query.where /\ ~Simple(e) /\ Converts(e)
ExpressionsConverted ==
    /\ \A e \in complexFilter : IsConverted(e)
    /\ pipeline.kind \in {"topn", "aggregate"} => \A e \in pipeline.match.expressions : IsConverted(e)
    /\ pipeline.kind = "user" => pipeline.match.expressions = {}

(* A scan that has ended has found what it asked for, and MongoDB could        *)
(* evaluate the expressions.                                               *)
ScanEnded ==
    stage = "answered" =>
       /\ pipeline.kind = "none" => answer = Scanned(sent)
       /\ \A i \in Docs : FoundBefore(sent, i) => ~Refuses(i)

Inv ==
    /\ QueryOK
    /\ TypeOK
    /\ PipelineOrigin
    /\ ConditionsPlaced
    /\ SentFrom
    /\ ExpressionsConverted

-----------------------------------------------------------------------------

LEMMA InitInv == Init => Inv
<1> SUFFICES ASSUME Init PROVE Inv
  OBVIOUS
<1>1. QueryOK
  BY QueriesAssumption DEF Init, QueryOK
<1>2. TypeOK
  BY DEF Init, TypeOK, Stages, NoPipeline
<1>3. PipelineOrigin /\ ConditionsPlaced /\ SentFrom /\ ExpressionsConverted
  BY DEF Init, PipelineOrigin, ConditionsPlaced, SentFrom, ExpressionsConverted, IsConverted, Simple,
         NoPipeline, NothingSent
<1> QED
  BY <1>1, <1>2, <1>3 DEF Inv

LEMMA StutterInv == Inv /\ UNCHANGED vars => Inv'
BY DEF Inv, vars, QueryOK, TypeOK, PipelineOrigin, ConditionsPlaced, SentFrom, ExpressionsConverted,
       IsConverted, Simple, PlainQuery, Convertible

LEMMA BindInv == Inv /\ MongoScanBind => Inv'
<1> SUFFICES ASSUME Inv, MongoScanBind PROVE Inv'
  OBVIOUS
<1> USE DEF Inv, MongoScanBind, Advance
<1>1. QueryOK'
  BY DEF QueryOK
<1>2. oids' \subseteq DOMAIN query.path
  BY DEF ObjectIdFields
<1>3. pipeline'.kind \in {"none", "user"} /\ (pipeline'.kind = "user" => pipeline'.match.user /\ pipeline'.match.expressions = {})
      /\ (pipeline'.kind = "none" => query.user.kind # "pipeline")
  BY DEF NoPipeline, NothingSent
<1>4. pipeline.kind = "none"
  BY DEF PipelineOrigin, NoPipeline
<1>5. TypeOK'
  BY <1>2, <1>3 DEF TypeOK, Stages, Simple
<1>6. PipelineOrigin' /\ ConditionsPlaced' /\ SentFrom' /\ ExpressionsConverted'
  BY <1>3, <1>4 DEF PipelineOrigin, ConditionsPlaced, SentFrom, ExpressionsConverted, IsConverted, Simple
<1> QED
  BY <1>1, <1>5, <1>6

LEMMA ComplexFilterInv == Inv /\ MongoPushdownComplexFilter => Inv'
<1> SUFFICES ASSUME Inv, MongoPushdownComplexFilter PROVE Inv'
  OBVIOUS
<1> USE DEF Inv, MongoPushdownComplexFilter, Advance
<1>1. QueryOK'
  BY DEF QueryOK
<1>2. TypeOK'
  BY DEF TypeOK, Stages, Simple, Convertible
<1>3. ConditionsPlaced' /\ ExpressionsConverted'
  BY DEF TypeOK, ConditionsPlaced, PipelineOrigin, ExpressionsConverted, IsConverted, Simple, Convertible
<1>4. PipelineOrigin' /\ SentFrom'
  BY DEF PipelineOrigin, SentFrom
<1> QED
  BY <1>1, <1>2, <1>3, <1>4

LEMMA TableFiltersInv == Inv /\ PushTableFilters => Inv'
<1> SUFFICES ASSUME Inv, PushTableFilters PROVE Inv'
  OBVIOUS
<1> USE DEF Inv, PushTableFilters, Advance
<1>1. QueryOK'
  BY DEF QueryOK
<1>2. PICK pushed \in SUBSET {c \in remaining : Simple(c)} :
         /\ tableFilters' = pushed
         /\ \E kept \in SUBSET pushed : remaining' = remaining \ (pushed \ kept)
  OBVIOUS
<1>3. TypeOK'
  BY <1>2 DEF TypeOK, Stages, Simple
<1>4. ConditionsPlaced'
  BY <1>2 DEF ConditionsPlaced, PipelineOrigin
<1>5. PipelineOrigin' /\ SentFrom' /\ ExpressionsConverted'
  BY DEF PipelineOrigin, SentFrom, ExpressionsConverted, IsConverted, Simple
<1> QED
  BY <1>1, <1>3, <1>4, <1>5

(* What the optimizer takes over from the scan.                             *)
LEMMA TakenOver ==
    ASSUME Inv, DirectlyAboveScan, stage = "pushed",
           NEW kind \in {"topn", "aggregate"},
           pipeline' = [kind |-> kind, match |-> BuildMatchFromExistingFilters],
           UNCHANGED <<query, remaining>>
    PROVE  /\ pipeline'.kind = kind
           /\ query'.where \subseteq remaining' \union pipeline'.match.filters \union pipeline'.match.expressions
           /\ query'.user.kind = "filter" => pipeline'.match.user
           /\ \A e \in pipeline'.match.expressions : e \in query.where /\ ~Simple(e) /\ Converts(e)
<1>1. query.where \subseteq remaining \union tableFilters \union complexFilter
  BY DEF Inv, ConditionsPlaced, PipelineOrigin
<1>2. /\ pipeline'.kind = kind
      /\ pipeline'.match.filters = tableFilters
      /\ pipeline'.match.expressions = complexFilter
      /\ pipeline'.match.user = (query.user.kind = "filter")
  BY DEF BuildMatchFromExistingFilters
<1> QED
  BY <1>1, <1>2 DEF Inv, ExpressionsConverted, IsConverted, Simple

LEMMA TopNInv == Inv /\ RewriteMongoTopN => Inv'
<1> SUFFICES ASSUME Inv, RewriteMongoTopN PROVE Inv'
  OBVIOUS
<1> USE DEF RewriteMongoTopN, Advance
<1>1. /\ pipeline'.kind = "topn"
      /\ query'.where \subseteq remaining' \union pipeline'.match.filters \union pipeline'.match.expressions
      /\ query'.user.kind = "filter" => pipeline'.match.user
      /\ \A e \in pipeline'.match.expressions : e \in query.where /\ ~Simple(e) /\ Converts(e)
  BY TakenOver DEF RewritesTopN
<1>2. QueryOK' /\ TypeOK'
  BY <1>1 DEF Inv, QueryOK, TypeOK, Stages, Simple
<1>3. PipelineOrigin' /\ ConditionsPlaced' /\ SentFrom' /\ ExpressionsConverted'
  BY <1>1 DEF Inv, PipelineOrigin, ConditionsPlaced, SentFrom, ExpressionsConverted, IsConverted, Simple
<1> QED
  BY <1>2, <1>3 DEF Inv

LEMMA AggregateInv == Inv /\ RewriteMongoAggregate => Inv'
<1> SUFFICES ASSUME Inv, RewriteMongoAggregate PROVE Inv'
  OBVIOUS
<1> USE DEF RewriteMongoAggregate, Advance
<1>1. /\ pipeline'.kind = "aggregate"
      /\ query'.where \subseteq remaining' \union pipeline'.match.filters \union pipeline'.match.expressions
      /\ query'.user.kind = "filter" => pipeline'.match.user
      /\ \A e \in pipeline'.match.expressions : e \in query.where /\ ~Simple(e) /\ Converts(e)
  BY TakenOver DEF RewritesAggregate
<1>2. QueryOK' /\ TypeOK'
  BY <1>1 DEF Inv, QueryOK, TypeOK, Stages, Simple
<1>3. PipelineOrigin' /\ ConditionsPlaced' /\ SentFrom' /\ ExpressionsConverted'
  BY <1>1 DEF Inv, PipelineOrigin, ConditionsPlaced, SentFrom, ExpressionsConverted, IsConverted, Simple
<1> QED
  BY <1>2, <1>3 DEF Inv

LEMMA KeepPlanInv == Inv /\ KeepPlan => Inv'
BY DEF Inv, KeepPlan, Advance, QueryOK, TypeOK, Stages, Simple, PipelineOrigin, ConditionsPlaced,
       SentFrom, ExpressionsConverted, IsConverted

LEMMA JoinFiltersInv == Inv /\ PushJoinFilters => Inv'
<1> SUFFICES ASSUME Inv, PushJoinFilters PROVE Inv'
  OBVIOUS
<1> USE DEF Inv, PushJoinFilters, Advance
<1>1. QueryOK' /\ TypeOK'
  BY DEF QueryOK, TypeOK, Stages, Simple
<1>2. \A f \in query.joins : Simple(f)
  BY DEF QueryOK, IsQuery, Simple
<1>3. ConditionsPlaced'
  BY <1>2 DEF ConditionsPlaced, Simple
<1>4. PipelineOrigin' /\ SentFrom' /\ ExpressionsConverted'
  BY DEF PipelineOrigin, SentFrom, ExpressionsConverted, IsConverted, Simple
<1> QED
  BY <1>1, <1>3, <1>4

LEMMA InitLocalInv == Inv /\ MongoScanInitLocal => Inv'
BY DEF Inv, MongoScanInitLocal, Advance, QueryOK, TypeOK, Stages, Simple, PipelineOrigin,
       ConditionsPlaced, SentFrom, ExpressionsConverted, IsConverted, PlainQuery

LEMMA EndInv == Inv /\ (MongoDBRefuses \/ MongoScanFunction) => Inv'
BY DEF Inv, MongoDBRefuses, MongoScanFunction, Advance, QueryOK, TypeOK, Stages, Simple, PipelineOrigin,
       ConditionsPlaced, SentFrom, ExpressionsConverted, IsConverted, PlainQuery

(* The invariant holds throughout every query.                               *)
THEOREM InvHolds == Spec => []Inv
<1>1. Inv /\ [Next]_vars => Inv'
  BY BindInv, ComplexFilterInv, TableFiltersInv, TopNInv, AggregateInv, KeepPlanInv, JoinFiltersInv,
     InitLocalInv, EndInv, StutterInv DEF Next
<1> QED
  BY InitInv, <1>1, PTL DEF Spec

(* Type correctness: where conditions may be.                                *)
THEOREM TypeCorrect == Spec => []TypeOK
<1>1. Inv => TypeOK
  BY DEF Inv
<1> QED
  BY InvHolds, <1>1, PTL

-----------------------------------------------------------------------------
(* What MongoDB is asked.                                                   *)

LEMMA SentByPlainQuery ==
    ASSUME Inv, stage \in {"open", "answered", "refused"}, pipeline.kind = "none"
    PROVE  /\ tableFilters # {} => sent.filters = tableFilters /\ sent.expressions = complexFilter
           /\ tableFilters = {} /\ query.user.kind = "filter" => sent.user /\ sent.expressions = {}
           /\ tableFilters = {} /\ query.user.kind # "filter" => sent.expressions = complexFilter
BY DEF Inv, SentFrom, PlainQuery, NothingSent

(* No condition of a WHERE clause is lost on its way to MongoDB, whatever     *)
(* DuckDB hands over or keeps and whatever the optimizer makes of the scan.   *)
THEOREM ConditionsReachSomeone == Spec => []NoConditionLost
<1>1. Inv => NoConditionLost
  <2> SUFFICES ASSUME Inv, stage \in {"open", "answered"}, ~SentAsGiven
               PROVE  query.where \subseteq remaining \union sent.filters \union sent.expressions
    BY DEF NoConditionLost
  <2>1. CASE pipeline.kind = "none"
    <3>1. query.where \subseteq remaining \union tableFilters \union complexFilter
      BY <2>1 DEF Inv, ConditionsPlaced
    <3> QED
      BY <2>1, <3>1, SentByPlainQuery DEF SentAsGiven
  <2>2. CASE pipeline.kind \in {"topn", "aggregate"}
    BY <2>2 DEF Inv, ConditionsPlaced, SentFrom
  <2> QED
    BY <2>1, <2>2 DEF Inv, TypeOK, SentAsGiven
<1> QED
  BY InvHolds, <1>1, PTL

(* A user's filter or pipeline is sent, but where other filters or the        *)
(* optimizer's pipeline take its place.                                     *)
THEOREM UserParameterSent == Spec => []UserParameterKept
<1>1. Inv => UserParameterKept
  <2> SUFFICES ASSUME Inv, stage = "open", query.user.kind # "none" PROVE UserParameterKept
    BY DEF UserParameterKept
  <2>1. CASE pipeline.kind = "none"
    BY <2>1, SentByPlainQuery DEF Inv, QueryOK, IsQuery, UserParameters, PipelineOrigin, UserParameterKept
  <2>2. CASE pipeline.kind = "user"
    BY <2>2 DEF Inv, PipelineOrigin, SentFrom, UserParameterKept
  <2>3. CASE pipeline.kind \in {"topn", "aggregate"}
    BY <2>3 DEF Inv, QueryOK, IsQuery, UserParameters, ConditionsPlaced, SentFrom, UserParameterKept
  <2> QED
    BY <2>1, <2>2, <2>3 DEF Inv, TypeOK
<1> QED
  BY InvHolds, <1>1, PTL

-----------------------------------------------------------------------------
(* What a plain scan finds.                                                 *)

LEMMA ScanEndedHolds == Spec => []ScanEnded
<1>1. Init => ScanEnded
  BY DEF Init, ScanEnded
<1>2. ScanEnded /\ [Next]_vars => ScanEnded'
  <2> SUFFICES ASSUME ScanEnded, [Next]_vars, stage' = "answered" PROVE ScanEnded'
    BY DEF ScanEnded
  <2>1. MongoScanFunction \/ UNCHANGED vars
    BY DEF Next, Advance, MongoScanBind, MongoPushdownComplexFilter, PushTableFilters, RewriteMongoTopN,
           RewriteMongoAggregate, KeepPlan, PushJoinFilters, MongoScanInitLocal, MongoDBRefuses
  <2>2. /\ pipeline.kind = "none" => answer' = Scanned(sent)
        /\ \A i \in Docs : FoundBefore(sent, i) => ~Refuses(i)
        /\ UNCHANGED <<query, oids, remaining, sent, pipeline>>
    BY <2>1 DEF MongoScanFunction, ScanEnded, vars
  <2> QED
    BY <2>2 DEF ScanEnded, Scanned, Found, FoundBefore, Refuses, Accepted, ConditionIsTrue, Field,
                Simple, Docs, Table
<1> QED
  BY <1>1, <1>2, PTL DEF Spec

LEMMA TagsDiffer ==
    ASSUME NEW x, NEW y, NEW m, NEW n, x # y
    PROVE  <<x, m>> # <<y, n>>
OBVIOUS

LEMMA SubstringArithmetic ==
    ASSUME NEW start \in Int, NEW length \in Int, NEW n \in Int
    PROVE  Least(start + length, n + 1) - start = Least(length, n - (start - 1))
BY DEF Least

LEMMA SqlSubstringInside ==
    ASSUME NEW value, NEW start \in Int, NEW length \in Int, start >= 1
    PROVE  SqlSubstring(value, start, length) = <<"string", AtLeastZero(Least(start + length, value[2] + 1) - start)>>
<1>1. ~(start < 1)
  OBVIOUS
<1> QED
  BY <1>1, Zenon DEF SqlSubstring

(* SQL and MongoDB agree on the value of an operand MongoDB can evaluate:      *)
(* letters are counted from the right place.                               *)
LEMMA OperandExact ==
    ASSUME NEW q, IsQuery(q), NEW oids_, NEW i \in DOMAIN q.docs, NEW operand, IsOperand(q, operand),
           NEW table, table = [type |-> q.type, path |-> q.path, schema |-> q.schema, oids |-> oids_],
           OperandAgrees(table, q.ids, q.docs[i], operand),
           operand.kind # "other",
           ConvertOperand(table, q.docs[i], operand) # Error
    PROVE  /\ OperandValue(table, q.ids, q.docs[i], operand) = ConvertOperand(table, q.docs[i], operand)
           /\ OperandValue(table, q.ids, q.docs[i], operand) # Null
<1> DEFINE document == q.docs[i]
<1>1. CASE operand.kind = "constant"
  BY <1>1 DEF IsOperand, OperandValue, ConvertOperand, IsColumn
<1>2. CASE operand.kind # "constant"
  <2> DEFINE column == q.ids[operand.index]
             field == document[q.path[column]]
             value == Value(table, document, column)
  <2>1. /\ q.schema[operand.index] = column /\ operand.kind # "cast"
        /\ operand.kind \in {"column", "length", "substring"}
        /\ field \notin {Missing, Null}
        /\ \/ q.type[column] = "BIGINT" /\ field[1] = "number"
           \/ q.type[column] = "VARCHAR" /\ field[1] = "string"
    BY <1>2 DEF OperandAgrees, IsOperand, FunctionKinds
  <2>2. column \in DOMAIN q.path
    BY <1>2, <2>1 DEF IsQuery, IsOperand
  <2>3. field \in Pairs
    BY <2>2 DEF IsQuery
  <2>4. field[2] \in Int /\ field = <<field[1], field[2]>>
    BY <2>3, PairFacts
  <2>5. value = field
    BY <2>1, <2>4 DEF Value, Read, IsBSONTypeCompatible, Converted, StringClasses
  <2>6. GetMongoPathForColumn(table, operand.index) = q.path[column]
    BY <2>1 DEF GetMongoPathForColumn
  <2>7. CASE operand.kind = "column"
    BY <2>1, <2>5, <2>6, <2>7 DEF ConvertOperand, OperandValue, IsColumn
  <2>8. CASE operand.kind = "length"
    <3>1. ConvertOperand(table, document, operand) = ServerLength(field)
      BY <2>6, <2>8 DEF ConvertOperand, IsColumn
    <3>2. ServerLength(field) = <<"number", Length(field)>>
      BY <3>1 DEF ServerLength
    <3>3. OperandValue(table, q.ids, document, operand) = <<"number", Length(field)>>
      BY <2>1, <2>5, <2>8 DEF OperandValue
    <3>4. <<"number", Length(field)>> # Null
      BY TagsDiffer DEF Null
    <3> QED
      BY <3>1, <3>2, <3>3, <3>4
  <2>9. CASE operand.kind = "substring"
    <3> DEFINE start == operand.start
               length == operand.length
    <3>1. ConvertOperand(table, document, operand) = ServerSubstring(field, start - 1, length)
      BY <2>6, <2>9 DEF ConvertOperand, IsColumn
    <3>2. ~(start - 1 < 0 \/ length < 0) /\ field[1] = "string"
      BY <2>1, <3>1 DEF ServerSubstring
    <3>3. ServerSubstring(field, start - 1, length) = <<"string", AtLeastZero(Least(length, field[2] - (start - 1)))>>
      BY <3>2 DEF ServerSubstring
    <3>4. start \in Int /\ length \in Int /\ start >= 1
      BY <1>2, <2>9, <3>2 DEF IsOperand
    <3>5. SqlSubstring(field, start, length) = <<"string", AtLeastZero(Least(start + length, field[2] + 1) - start)>>
      BY <3>4, SqlSubstringInside
    <3>6. Least(start + length, field[2] + 1) - start = Least(length, field[2] - (start - 1))
      BY <2>4, <3>4, SubstringArithmetic
    <3>7. OperandValue(table, q.ids, document, operand) = SqlSubstring(field, start, length)
      BY <2>1, <2>5, <2>9 DEF OperandValue
    <3> DEFINE sql == AtLeastZero(Least(start + length, field[2] + 1) - start)
               mongo == AtLeastZero(Least(length, field[2] - (start - 1)))
    <3>8. sql = mongo
      BY <3>6
    <3>9. <<"string", mongo>> # Null
      BY TagsDiffer DEF Null
    <3> HIDE DEF sql, mongo
    <3>10. <<"string", sql>> = <<"string", mongo>>
      BY <3>8
    <3> QED
      BY <3>1, <3>3, <3>5, <3>7, <3>9, <3>10 DEF sql, mongo
  <2> QED
    BY <2>1, <2>7, <2>8, <2>9
<1> QED
  BY <1>1, <1>2

LEMMA ExpressionExact ==
    ASSUME QueryOK, NEW i \in Docs, NEW e, IsOperand(query, e.left), IsOperand(query, e.right), Converts(e),
           ExpressionAgrees(Table, query.ids, query.docs[i], e),
           ~Errs(Table, query.docs[i], e)
    PROVE  ExpressionIsTrue(Table, query.ids, query.docs[i], e) <=> Holds(Table, query.docs[i], e)
<1> DEFINE same(operand) == /\ OperandValue(Table, query.ids, query.docs[i], operand) = ConvertOperand(Table, query.docs[i], operand)
                            /\ OperandValue(Table, query.ids, query.docs[i], operand) # Null
<1>1. e.left.kind # "other" /\ e.right.kind # "other"
  BY DEF Converts
<1>2. /\ ConvertOperand(Table, query.docs[i], e.left) # Error /\ ConvertOperand(Table, query.docs[i], e.right) # Error
      /\ OperandAgrees(Table, query.ids, query.docs[i], e.left) /\ OperandAgrees(Table, query.ids, query.docs[i], e.right)
  BY DEF Errs, ExpressionAgrees
<1>3. Table = [type |-> query.type, path |-> query.path, schema |-> query.schema, oids |-> oids] /\ i \in DOMAIN query.docs
  BY DEF Table, Docs
<1>4. same(e.left)
  BY <1>1, <1>2, <1>3, OperandExact DEF QueryOK
<1>5. same(e.right)
  BY <1>1, <1>2, <1>3, OperandExact DEF QueryOK
<1> QED
  BY <1>4, <1>5 DEF ExpressionIsTrue, Holds

(* The filters of a scan: MongoDB finds what SQL finds them TRUE of.          *)
LEMMA FiltersFindTrue ==
    ASSUME Inv, NEW s, Agrees(s), s.filters \subseteq query.where \union query.joins,
           \A f \in s.filters : Simple(f), NEW i \in Docs
    PROVE  FoundBefore(s, i) <=> \A f \in s.filters : FilterIsTrue(Table, query.docs[i], f)
<1>1. IsFiniteSet(s.filters)
  BY FS_Union, FS_Subset DEF Inv, QueryOK, IsQuery
<1>2. \A f \in s.filters : IsFilter(f) /\ f.column \in DOMAIN query.path
  BY DEF Inv, QueryOK, IsQuery, IsCondition, Simple
<1>3. Table.path = query.path
  BY DEF Table
<1>4. ASSUME NEW f \in s.filters
      PROVE  /\ IsFilter(f) /\ Faithful(Table, f)
             /\ query.docs[i][Table.path[f.column]] \in Pairs
             /\ Fits(Table, f.column, query.docs[i][Table.path[f.column]])
  BY <1>2, <1>3 DEF Agrees, Field, Inv, QueryOK, IsQuery, Docs
<1>5. Mergeable(Table, s.filters)
  BY DEF Agrees
<1>6. Matches(query.docs[i], ConvertFiltersToMongoQuery(Table, s.filters))
      <=> \A f \in s.filters : FilterIsTrue(Table, query.docs[i], f)
  BY <1>1, <1>4, <1>5, FiltersExact
<1> QED
  BY <1>6 DEF FoundBefore, Agrees

(* A plain scan gives the rows SQL asks for, for every query, collection and   *)
(* division of the work: where Agrees holds, nothing MongoDB was asked to    *)
(* filter differs from what DuckDB would have filtered.                     *)
THEOREM PlainScansExact == Spec => []PlainScanExact
<1>1. Inv /\ ScanEnded => PlainScanExact
  <2> SUFFICES ASSUME Inv, ScanEnded, stage = "answered", pipeline.kind = "none", query.user.kind = "none",
                      Agrees(sent)
               PROVE  answer = {i \in Docs : Accepted(i) /\ \A c \in query.where \union query.joins : ConditionIsTrue(c, i)}
    BY DEF PlainScanExact
  <2>1. sent.filters = tableFilters /\ sent.expressions = complexFilter
    BY DEF Inv, SentFrom, PlainQuery, NothingSent
  <2>2. /\ query.where \subseteq remaining \union sent.filters \union sent.expressions
        /\ remaining \subseteq query.where
        /\ sent.filters \subseteq query.where \union query.joins
        /\ \A f \in sent.filters : Simple(f)
        /\ \A e \in sent.expressions : e \in query.where /\ ~Simple(e) /\ Converts(e)
    BY <2>1 DEF Inv, TypeOK, ConditionsPlaced, ExpressionsConverted, IsConverted, Simple
  <2>3. answer = Scanned(sent) /\ \A i \in Docs : FoundBefore(sent, i) => ~Refuses(i)
    BY DEF ScanEnded
  <2>4. \A i \in Docs : FoundBefore(sent, i) <=> \A f \in sent.filters : ConditionIsTrue(f, i)
    BY <2>2, FiltersFindTrue DEF ConditionIsTrue
  <2>5. ASSUME NEW i \in Docs, FoundBefore(sent, i), NEW e \in sent.expressions
        PROVE  Holds(Table, query.docs[i], e) <=> ConditionIsTrue(e, i)
    <3>1. IsOperand(query, e.left) /\ IsOperand(query, e.right)
      BY <2>2 DEF Inv, QueryOK, IsQuery, IsCondition, Simple
    <3>2. ~Errs(Table, query.docs[i], e)
      BY <2>3, <2>5 DEF Refuses
    <3>3. ExpressionAgrees(Table, query.ids, query.docs[i], e)
      BY DEF Agrees
    <3>4. QueryOK /\ Converts(e) /\ ~Simple(e)
      BY <2>2 DEF Inv
    <3> QED
      BY <3>1, <3>2, <3>3, <3>4, ExpressionExact DEF ConditionIsTrue
  <2>6. ASSUME NEW i \in Docs
        PROVE  i \in Scanned(sent) <=> Accepted(i) /\ \A c \in query.where \union query.joins : ConditionIsTrue(c, i)
    BY <2>2, <2>4, <2>5 DEF Scanned, Found
  <2>7. Scanned(sent) \subseteq Docs
    BY DEF Scanned, Found
  <2> QED
    BY <2>3, <2>6, <2>7
<1> QED
  BY InvHolds, ScanEndedHolds, <1>1, PTL

-----------------------------------------------------------------------------
(* What MongoDB refuses.                                                    *)

(* A query is refused over a document an expression cannot be evaluated for.  *)
RefusedOver == stage = "refused" => \E i \in Docs : Refuses(i)

LEMMA RefusedOverHolds == Spec => []RefusedOver
<1>1. Init => RefusedOver
  BY DEF Init, RefusedOver
<1>2. RefusedOver /\ [Next]_vars => RefusedOver'
  <2> SUFFICES ASSUME RefusedOver, [Next]_vars, stage' = "refused" PROVE RefusedOver'
    BY DEF RefusedOver
  <2>1. MongoDBRefuses \/ UNCHANGED vars
    BY DEF Next, Advance, MongoScanBind, MongoPushdownComplexFilter, PushTableFilters, RewriteMongoTopN,
           RewriteMongoAggregate, KeepPlan, PushJoinFilters, MongoScanInitLocal, MongoScanFunction
  <2>2. (\E i \in Docs : Refuses(i)) /\ UNCHANGED <<query, oids, sent>>
    BY <2>1 DEF MongoDBRefuses, RefusedOver, vars
  <2> QED
    BY <2>2 DEF RefusedOver, Refuses, Docs, Table
<1> QED
  BY <1>1, <1>2, PTL DEF Spec

(* The operands MongoDB cannot evaluate: a length of what is no string, and a *)
(* substring of what is no string or at a position it does not know.         *)
LEMMA OperandRefused ==
    ASSUME Inv, NEW i \in Docs, NEW operand, IsOperand(query, operand),
           ConvertOperand(Table, query.docs[i], operand) = Error, operand.kind # "other"
    PROVE  /\ operand.kind \in FunctionKinds
           /\ \/ query.docs[i][GetMongoPathForColumn(Table, operand.index)][1] # "string"
              \/ operand.kind = "substring" /\ ~IsSafeMongoFunction(operand)
<1> DEFINE field == query.docs[i][GetMongoPathForColumn(Table, operand.index)]
<1>1. operand.kind # "constant"
  BY DEF IsOperand, ConvertOperand, IsColumn
<1>2. field # Error
  BY <1>1 DEF Inv, QueryOK, IsQuery, IsOperand, GetMongoPathForColumn, Table, Docs
<1>3. operand.kind \in {"length", "substring"}
  BY <1>1, <1>2 DEF IsOperand, ConvertOperand, IsColumn, FunctionKinds
<1>4. CASE operand.kind = "length"
  <2>1. ServerLength(field) = Error
    BY <1>4 DEF ConvertOperand, IsColumn
  <2>2. field[1] \notin StringClasses
    BY <2>1 DEF ServerLength, Error
  <2> QED
    BY <1>4, <2>2 DEF FunctionKinds, StringClasses
<1>5. CASE operand.kind = "substring"
  <2>1. ServerSubstring(field, operand.start - 1, operand.length) = Error
    BY <1>5 DEF ConvertOperand, IsColumn
  <2>2. operand.start \in Int /\ operand.length \in Int
    BY <1>1, <1>5 DEF IsOperand
  <2>3. CASE operand.start - 1 < 0 \/ operand.length < 0
    BY <1>5, <2>2, <2>3 DEF FunctionKinds, IsSafeMongoFunction
  <2>4. CASE ~(operand.start - 1 < 0 \/ operand.length < 0) /\ field[1] = "string"
    <3> DEFINE word == AtLeastZero(Least(operand.length, field[2] - (operand.start - 1)))
    <3>1. ServerSubstring(field, operand.start - 1, operand.length) = <<"string", word>>
      BY <2>4 DEF ServerSubstring
    <3> HIDE DEF word
    <3> QED
      BY <2>1, <3>1 DEF Error
  <2> QED
    BY <1>5, <2>3, <2>4 DEF FunctionKinds
<1> QED
  BY <1>3, <1>4, <1>5

(* Positions that SQL allows and MongoDB does not are kept from MongoDB,      *)
(* whatever the query, but between two substrings.                          *)
THEOREM RefusalsAreForValues == Spec => []RefusedForValuesOnly
<1>1. Inv /\ RefusedOver => RefusedForValuesOnly
  <2> SUFFICES ASSUME Inv, RefusedOver, stage = "refused" PROVE RefusedForValuesOnly
    BY DEF RefusedForValuesOnly
  <2>1. PICK i \in Docs, e \in sent.expressions : Errs(Table, query.docs[i], e)
    BY DEF RefusedOver, Refuses
  <2>2. \A x \in sent.expressions : IsConverted(x)
    <3>1. CASE pipeline.kind = "none"
      BY <3>1, SentByPlainQuery DEF Inv, ExpressionsConverted, IsConverted, Simple
    <3>2. CASE pipeline.kind # "none"
      BY <3>2 DEF Inv, ExpressionsConverted, IsConverted, Simple, SentFrom, TypeOK
    <3> QED
      BY <3>1, <3>2
  <2>3. /\ e.left.kind # "other" /\ e.right.kind # "other" /\ (CanThrow(e) => IsSafeMongoExpr(e))
        /\ IsOperand(query, e.left) /\ IsOperand(query, e.right)
    BY <2>2 DEF Converts, IsConverted, Inv, QueryOK, IsQuery, IsCondition, Simple
  <2>4. PICK operand \in {e.left, e.right} : ConvertOperand(Table, query.docs[i], operand) = Error
    BY <2>1 DEF Errs
  <2>5. /\ operand.kind \in FunctionKinds
        /\ \/ query.docs[i][GetMongoPathForColumn(Table, operand.index)][1] # "string"
           \/ operand.kind = "substring" /\ ~IsSafeMongoFunction(operand)
    BY <2>3, <2>4, OperandRefused
  <2>6. CASE operand.kind = "substring" /\ ~IsSafeMongoFunction(operand)
    <3>1. IsSafeMongoExpr(e)
      BY <2>3, <2>6 DEF CanThrow
    <3>2. e.left.kind = "substring" /\ e.right.kind = "substring"
      BY <2>6, <3>1 DEF IsSafeMongoExpr, IsSafeMongoFunction, FunctionKinds
    <3> QED
      BY <3>2 DEF RefusedForValuesOnly
  <2> QED
    BY <2>5, <2>6 DEF RefusedForValuesOnly
<1> QED
  BY InvHolds, RefusedOverHolds, <1>1, PTL

-----------------------------------------------------------------------------
(* What rewritten operators answer.                                         *)

(* A pipeline the optimizer made holds every condition of the WHERE clause    *)
(* and no other, and what allowed it goes on holding.                        *)
Rewriting ==
    /\ pipeline.kind \in {"topn", "aggregate"} =>
          pipeline.match = [user |-> query.user.kind = "filter",
                            filters |-> {c \in query.where : Simple(c)},
                            expressions |-> {c \in query.where : ~Simple(c)}]
    /\ pipeline.kind = "topn" => RewritesTopN
    /\ pipeline.kind = "aggregate" => RewritesAggregate

Answered ==
    stage = "answered" =>
       /\ pipeline.kind = "topn" => answer = TopNPipeline(Found(sent))
       /\ pipeline.kind = "aggregate" => answer = AggregatePipeline(Found(sent))

LEMMA MatchTakesAll ==
    ASSUME Inv, DirectlyAboveScan, stage = "pushed"
    PROVE  BuildMatchFromExistingFilters = [user |-> query.user.kind = "filter",
                                            filters |-> {c \in query.where : Simple(c)},
                                            expressions |-> {c \in query.where : ~Simple(c)}]
<1>1. query.where \subseteq tableFilters \union complexFilter
  BY DEF Inv, PipelineOrigin, ConditionsPlaced, DirectlyAboveScan
<1>2. tableFilters \subseteq query.where /\ \A c \in tableFilters : Simple(c)
  BY DEF Inv, TypeOK, ConditionsPlaced, DirectlyAboveScan
<1>3. complexFilter \subseteq query.where /\ \A c \in complexFilter : ~Simple(c)
  BY DEF Inv, TypeOK
<1>4. tableFilters = {c \in query.where : Simple(c)} /\ complexFilter = {c \in query.where : ~Simple(c)}
  BY <1>1, <1>2, <1>3
<1> QED
  BY <1>4 DEF BuildMatchFromExistingFilters

LEMMA RewritingNext == Inv /\ Rewriting /\ [Next]_vars => Rewriting'
<1> SUFFICES ASSUME Inv, Rewriting, [Next]_vars PROVE Rewriting'
  OBVIOUS
<1>1. CASE MongoScanBind
  <2>1. pipeline'.kind \in {"none", "user"}
    BY <1>1 DEF MongoScanBind, NoPipeline
  <2> QED
    BY <2>1 DEF Rewriting
<1>2. CASE MongoPushdownComplexFilter \/ PushTableFilters
  <2>1. pipeline'.kind \in {"none", "user"}
    BY <1>2 DEF MongoPushdownComplexFilter, PushTableFilters, Advance, Inv, PipelineOrigin
  <2> QED
    BY <2>1 DEF Rewriting
<1>3. CASE RewriteMongoTopN
  <2>1. /\ stage = "pushed" /\ RewritesTopN
        /\ pipeline' = [kind |-> "topn", match |-> BuildMatchFromExistingFilters]
        /\ UNCHANGED <<query, remaining>>
    BY <1>3 DEF RewriteMongoTopN, Advance
  <2>2. pipeline'.kind = "topn" /\ pipeline'.match = BuildMatchFromExistingFilters
    BY <2>1
  <2> QED
    BY <2>1, <2>2, MatchTakesAll DEF Rewriting, RewritesTopN, DirectlyAboveScan, Simple
<1>4. CASE RewriteMongoAggregate
  <2>1. /\ stage = "pushed" /\ RewritesAggregate
        /\ pipeline' = [kind |-> "aggregate", match |-> BuildMatchFromExistingFilters]
        /\ UNCHANGED <<query, remaining>>
    BY <1>4 DEF RewriteMongoAggregate, Advance
  <2>2. pipeline'.kind = "aggregate" /\ pipeline'.match = BuildMatchFromExistingFilters
    BY <2>1
  <2> QED
    BY <2>1, <2>2, MatchTakesAll DEF Rewriting, RewritesAggregate, DirectlyAboveScan, Simple
<1>5. CASE UNCHANGED <<query, remaining, pipeline>>
  BY <1>5 DEF Rewriting, RewritesTopN, RewritesAggregate, DirectlyAboveScan, Simple
<1>6. KeepPlan \/ PushJoinFilters \/ MongoScanInitLocal \/ MongoDBRefuses \/ MongoScanFunction
        \/ UNCHANGED vars => UNCHANGED <<query, remaining, pipeline>>
  BY DEF KeepPlan, PushJoinFilters, MongoScanInitLocal, MongoDBRefuses, MongoScanFunction, vars
<1> QED
  BY <1>1, <1>2, <1>3, <1>4, <1>5, <1>6 DEF Next

LEMMA RewritingHolds == Spec => []Rewriting
<1>1. Init => Rewriting
  BY DEF Init, Rewriting, NoPipeline
<1> QED
  BY <1>1, RewritingNext, InvHolds, PTL DEF Spec

LEMMA AnsweredHolds == Spec => []Answered
<1>1. Init => Answered
  BY DEF Init, Answered
<1>2. Answered /\ [Next]_vars => Answered'
  <2> SUFFICES ASSUME Answered, [Next]_vars, stage' = "answered" PROVE Answered'
    BY DEF Answered
  <2>1. MongoScanFunction \/ UNCHANGED vars
    BY DEF Next, Advance, MongoScanBind, MongoPushdownComplexFilter, PushTableFilters, RewriteMongoTopN,
           RewriteMongoAggregate, KeepPlan, PushJoinFilters, MongoScanInitLocal, MongoDBRefuses
  <2>2. /\ pipeline.kind = "topn" => answer' = TopNPipeline(Found(sent))
        /\ pipeline.kind = "aggregate" => answer' = AggregatePipeline(Found(sent))
        /\ UNCHANGED <<query, oids, sent, pipeline>>
    BY <2>1 DEF MongoScanFunction, Answered, vars
  <2>3. Found(sent)' = Found(sent)
    BY <2>2 DEF Found, FoundBefore, Docs, Table
  <2>4. \A rows : TopNPipeline(rows)' = TopNPipeline(rows)
    BY <2>2 DEF TopNPipeline, Accepted, Field
  <2>5. \A i, c : Column(i, c)' = Column(i, c) /\ Field(i, c)' = Field(i, c)
    BY <2>2 DEF Column, Field, Table
  <2>6. ASSUME NEW rows PROVE ServerAggregate(rows)' = ServerAggregate(rows)
    BY <2>2, <2>5 DEF ServerAggregate
  <2>7. ASSUME NEW rows PROVE AggregatePipeline(rows)' = AggregatePipeline(rows)
    <3> DEFINE group(i) == {j \in rows : Field(j, query.above.group) = Field(i, query.above.group)}
    <3>1. \A i : group(i)' = group(i)
      BY <2>2, <2>5
    <3>2. ASSUME NEW i PROVE ServerAggregate(group(i))' = ServerAggregate(group(i))
      <4> HIDE DEF group
      <4> QED
        BY <2>2, <2>5, <3>1 DEF ServerAggregate
    <3>3. {<<Column(i, query.above.group), ServerAggregate(group(i))>> : i \in rows}'
            = {<<Column(i, query.above.group), ServerAggregate(group(i))>> : i \in rows}
      <4> HIDE DEF group
      <4> QED
        BY <2>2, <2>5, <3>2
    <3> QED
      BY <2>2, <2>6, <3>3 DEF AggregatePipeline
  <2> QED
    BY <2>2, <2>3, <2>4, <2>7 DEF Answered
<1> QED
  BY <1>1, <1>2, PTL DEF Spec

(* The documents DuckDB's operator would be given.                          *)
Wanted ==
    {i \in Docs : /\ Matches(query.docs[i], ConvertFiltersToMongoQuery(Table, {c \in query.where : Simple(c)}))
                  /\ \A e \in {c \in query.where : ~Simple(c)} : Holds(Table, query.docs[i], e)}

LEMMA FoundIsWanted ==
    ASSUME Inv, Rewriting, stage = "answered", pipeline.kind \in {"topn", "aggregate"}, RewriteAgrees
    PROVE  Found(sent) = Wanted
<1>1. sent = pipeline.match
  BY DEF Inv, SentFrom
<1>2. query.user.kind = "none"
  BY DEF RewriteAgrees
<1>3. pipeline.match = [user |-> query.user.kind = "filter",
                        filters |-> {c \in query.where : Simple(c)},
                        expressions |-> {c \in query.where : ~Simple(c)}]
  BY DEF Rewriting
<1>4. /\ sent.user = (query.user.kind = "filter")
      /\ sent.filters = {c \in query.where : Simple(c)}
      /\ sent.expressions = {c \in query.where : ~Simple(c)}
  BY <1>1, <1>3
<1>5. ~(query.user.kind = "filter")
  BY <1>2
<1>6. ~sent.user
  BY <1>4, <1>5, Zenon
<1> QED
  BY <1>4, <1>6 DEF Found, FoundBefore, Wanted

LEMMA DocsFinite ==
    ASSUME Inv, NEW rows \in SUBSET Docs
    PROVE  /\ IsFiniteSet(rows) /\ Cardinality(rows) \in Nat
           /\ Docs = 1..Len(query.docs) /\ Len(query.docs) \in Nat
<1>1. Docs = 1..Len(query.docs) /\ Len(query.docs) \in Nat
  BY DEF Inv, QueryOK, IsQuery, Docs
<1>2. IsFiniteSet(Docs)
  BY <1>1, FS_Interval
<1> QED
  BY <1>1, <1>2, FS_Subset, FS_CardinalityType

(* The first documents by _id are the first rows.                            *)
LEMMA TopNExact ==
    ASSUME Inv, RewritesTopN, ~query.strict, NEW rows \in SUBSET Docs
    PROVE  TopNPipeline(rows) = Operator(rows)
<1>1. /\ query.above.kind = "topn" /\ query.above.key = "_id" /\ query.above.offset = 0
      /\ query.above.limit \in Nat
  BY DEF RewritesTopN, Inv, QueryOK, IsQuery, IsOperator
<1>2. \A i \in rows : Accepted(i)
  BY DEF Accepted
<1>3. \A i, j : Precedes(j, i) <=> j < i
  BY <1>1 DEF Precedes
<1>4. \A i \in rows : {j \in rows : Precedes(j, i)} = {k \in rows : k < i}
  BY <1>3
<1>5. ASSUME NEW i \in rows PROVE Cardinality({k \in rows : k < i}) \in Nat
  <2>1. {k \in rows : k < i} \in SUBSET Docs
    OBVIOUS
  <2> QED
    BY <2>1, DocsFinite
<1>6. First(rows) = {i \in rows : /\ query.above.offset <= Cardinality({k \in rows : k < i})
                                  /\ Cardinality({k \in rows : k < i}) < query.above.offset + query.above.limit}
  BY <1>4 DEF First
<1>7. ASSUME NEW n \in Nat
      PROVE  n < query.above.limit <=> query.above.offset <= n /\ n < query.above.offset + query.above.limit
  BY <1>1
<1>8. First(rows) = TopNPipeline(rows)
  BY <1>2, <1>5, <1>6, <1>7 DEF TopNPipeline
<1> QED
  BY <1>1, <1>8 DEF Operator


-----------------------------------------------------------------------------
(* The order of values of a column: total, among the classes it can hold.    *)

ComparableValues == Comparable \X Int
AtMost(x, y) == x = y \/ Less(x, y)

LEMMA RankInjective ==
    ASSUME NEW c \in Comparable, NEW d \in Comparable, Rank(c) = Rank(d)
    PROVE  c = d
BY DEF Comparable, Rank

LEMMA ComparableFacts ==
    ASSUME NEW x \in ComparableValues
    PROVE  x[1] \in Comparable /\ Rank(x[1]) \in Int /\ x[2] \in Int /\ x = <<x[1], x[2]>>
BY RankFacts DEF ComparableValues

LEMMA OrderTotal ==
    ASSUME NEW x \in ComparableValues, NEW y \in ComparableValues
    PROVE  AtMost(x, y) \/ AtMost(y, x)
BY ComparableFacts, RankInjective DEF AtMost, Less

LEMMA OrderTransitive ==
    ASSUME NEW x \in ComparableValues, NEW y \in ComparableValues, NEW z \in ComparableValues,
           AtMost(x, y), AtMost(y, z)
    PROVE  AtMost(x, z)
BY ComparableFacts DEF AtMost, Less

LEMMA OrderAntisymmetric ==
    ASSUME NEW x \in ComparableValues, NEW y \in ComparableValues, AtMost(x, y), AtMost(y, x)
    PROVE  x = y
BY ComparableFacts DEF AtMost, Less

(* What Smallest chooses is the least value of a set that has one.           *)
LEMMA SmallestIs ==
    ASSUME NEW values \in SUBSET ComparableValues, NEW m \in values, \A w \in values : AtMost(m, w)
    PROVE  Smallest(values) = m
<1> DEFINE v == CHOOSE x \in values : \A w \in values : x = w \/ Less(x, w)
<1>1. Smallest(values) = v
  BY DEF Smallest
<1>2. \A w \in values : m = w \/ Less(m, w)
  BY DEF AtMost
<1>3. v \in values /\ \A w \in values : v = w \/ Less(v, w)
  BY <1>2
<1> HIDE DEF v
<1>4. AtMost(v, m)
  BY <1>3 DEF AtMost
<1> QED
  BY <1>1, <1>3, <1>4, OrderAntisymmetric

(* Of any rows, one has the least value.                                     *)
LEMMA LeastRow ==
    ASSUME NEW n \in Nat, NEW rows \in SUBSET (1..n), rows # {},
           NEW value, \A i \in rows : value[i] \in ComparableValues
    PROVE  \E i \in rows : \A j \in rows : AtMost(value[i], value[j])
<1> DEFINE upTo(k) == {i \in rows : i <= k}
<1>0. \A i \in rows : i \in Int /\ 1 <= i /\ i <= n
  OBVIOUS
<1>5. upTo(0) = {}
  <2>1. \A i \in rows : ~(i <= 0)
    BY <1>0
  <2> QED
    BY <2>1
<1>4. upTo(n) = rows
  BY <1>0
<1>6. ASSUME NEW k \in Nat
      PROVE  upTo(k + 1) = upTo(k) \union (IF k + 1 \in rows THEN {k + 1} ELSE {})
  <2>1. \A i \in rows : i <= k + 1 <=> i <= k \/ i = k + 1
    BY <1>0
  <2> QED
    BY <2>1
<1>7. \A k : upTo(k) \subseteq rows
  OBVIOUS
<1> HIDE DEF upTo
<1> DEFINE Least_(k) == \E i \in upTo(k) : \A j \in upTo(k) : AtMost(value[i], value[j])
           T == {k \in 0..n : upTo(k) = {} \/ Least_(k)}
<1>1. 0 \in T
  BY <1>5
<1>2. ASSUME NEW k \in 0..(n-1), k \in T PROVE k + 1 \in T
  <2>1. k + 1 \in 0..n /\ k \in Nat
    OBVIOUS
  <2>2. CASE k + 1 \notin rows
    <3>1. upTo(k + 1) = upTo(k)
      BY <1>6, <1>7, <2>1, <2>2
    <3> QED
      BY <1>2, <2>1, <3>1
  <2>3. CASE k + 1 \in rows /\ upTo(k) = {}
    <3>1. upTo(k + 1) = {k + 1}
      BY <1>6, <1>7, <2>1, <2>3
    <3>2. Least_(k + 1)
      BY <3>1 DEF AtMost
    <3> QED
      BY <2>1, <3>2
  <2>4. CASE k + 1 \in rows /\ Least_(k)
    <3>1. upTo(k + 1) = upTo(k) \union {k + 1} /\ upTo(k) \subseteq rows
      BY <1>6, <1>7, <2>1, <2>4
    <3>2. PICK i \in upTo(k) : \A j \in upTo(k) : AtMost(value[i], value[j])
      BY <2>4
    <3>3. value[i] \in ComparableValues /\ value[k + 1] \in ComparableValues
          /\ \A j \in upTo(k) : value[j] \in ComparableValues
      BY <2>4, <3>1
    <3>4. CASE AtMost(value[i], value[k + 1])
      BY <2>1, <3>1, <3>2, <3>4
    <3>5. CASE AtMost(value[k + 1], value[i])
      <4>1. \A j \in upTo(k) : AtMost(value[k + 1], value[j])
        BY <3>2, <3>3, <3>5, OrderTransitive
      <4>2. AtMost(value[k + 1], value[k + 1])
        BY DEF AtMost
      <4> QED
        BY <2>1, <3>1, <4>1, <4>2
    <3> QED
      BY <3>3, <3>4, <3>5, OrderTotal
  <2> HIDE DEF Least_
  <2> QED
    BY <1>2, <2>2, <2>3, <2>4
<1>3. n \in T
  <2> HIDE DEF T
  <2> QED
    BY <1>1, <1>2, SetInduction
<1> QED
  BY <1>3, <1>4

LEMMA PairMade ==
    ASSUME NEW c \in Comparable, NEW n \in Int
    PROVE  <<c, n>> \in ComparableValues
BY DEF ComparableValues, Comparable

(* Reading a fitting field can be undone: it is what a filter for the value   *)
(* read would be sent as.                                                  *)
LEMMA RoundTrip ==
    ASSUME NEW table, NEW column, NEW field \in Pairs,
           Fits(table, column, field), field \notin {Missing, Null}
    PROVE  /\ Read(table.type[column], field) \in ComparableValues
           /\ field \in ComparableValues
           /\ Survives(table, column, Read(table.type[column], field))
           /\ AppendValue(table, column, Read(table.type[column], field)) = field
<1> DEFINE type == table.type[column]
           n == field[2]
<1>1. n \in Int /\ field = <<field[1], n>>
  BY PairFacts
<1>2. field[1] \in Comparable
  BY DEF Fits, Comparable, StringClasses
<1>3. CASE type = "BIGINT" /\ field[1] = "number"
  <2>1. Read(type, field) = <<"number", n>>
    BY <1>3 DEF Read, IsBSONTypeCompatible, Converted
  <2> QED
    BY <1>1, <1>3, <2>1 DEF ComparableValues, Comparable, Survives, AppendValue
<1>4. CASE type = "VARCHAR" /\ column \in table.oids /\ field[1] = "oid"
  <2>1. Read(type, field) = <<"hex", n>>
    BY <1>4 DEF Read, IsBSONTypeCompatible, Converted, StringClasses
  <2>2. <<"hex", n>> \in ComparableValues /\ field \in ComparableValues
    <3>1. <<"hex", n>> \in ComparableValues
      BY <1>1, PairMade DEF Comparable
    <3>2. field \in ComparableValues
      BY <1>1, <1>2 DEF ComparableValues
    <3> QED
      BY <3>1, <3>2
  <2>3. Survives(table, column, <<"hex", n>>)
    BY <1>4 DEF Survives
  <2>4. AppendValue(table, column, <<"hex", n>>) = <<"oid", n>>
    BY <1>4 DEF AppendValue
  <2> QED
    BY <1>1, <1>4, <2>1, <2>2, <2>3, <2>4
<1>5. CASE type = "VARCHAR" /\ column \notin table.oids /\ field[1] \in StringClasses
  <2>1. Read(type, field) = field
    BY <1>5 DEF Read, IsBSONTypeCompatible, Converted, StringClasses
  <2> QED
    BY <1>1, <1>2, <1>5, <2>1 DEF ComparableValues, Survives, AppendValue
<1>6. CASE type = "TIMESTAMP" /\ field[1] = "date"
  <2>1. Read(type, field) = <<"date", 2 * n>>
    BY <1>6 DEF Read, IsBSONTypeCompatible, Converted
  <2>2. 2 * n \in Int /\ (2 * n) \div 2 = n /\ (2 * n) % 2 = 0
    BY <1>1
  <2> QED
    BY <1>1, <1>6, <2>1, <2>2 DEF ComparableValues, Comparable, Survives, AppendValue
<1>7. CASE type = "DATE" /\ field[1] = "date" /\ (2 * n) % DayUnits = 0
  <2>1. Read(type, field) = <<"date", DayUnits * ((2 * n) \div DayUnits)>>
    BY <1>7 DEF Read, IsBSONTypeCompatible, Converted
  <2>2. DayUnits * ((2 * n) \div DayUnits) = 2 * n
    BY <1>1, <1>7 DEF DayUnits
  <2>3. 2 * n \in Int /\ (2 * n) \div 2 = n /\ (2 * n) % 2 = 0
    BY <1>1
  <2> QED
    BY <1>1, <1>7, <2>1, <2>2, <2>3 DEF ComparableValues, Comparable, Survives, AppendValue
<1> QED
  BY <1>3, <1>4, <1>5, <1>6, <1>7 DEF Fits

(* Reading keeps the order of fields, and different ones different.          *)
LEMMA ReadingKeepsOrder ==
    ASSUME NEW table, NEW column, NEW x \in Pairs, NEW y \in Pairs,
           Fits(table, column, x), x \notin {Missing, Null},
           Fits(table, column, y), y \notin {Missing, Null}
    PROVE  /\ Read(table.type[column], x) = Read(table.type[column], y) <=> x = y
           /\ AtMost(Read(table.type[column], x), Read(table.type[column], y)) <=> AtMost(x, y)
<1> DEFINE v == Read(table.type[column], y)
<1>1. v[2] \in Int /\ v = <<v[1], v[2]>> /\ Survives(table, column, v) /\ AppendValue(table, column, v) = y
  BY RoundTrip, ComparableFacts
<1> HIDE DEF v
<1>2. Corresponds(x, y, Read(table.type[column], x), v)
  BY <1>1, ValuesCorrespond
<1> QED
  BY <1>2 DEF Corresponds, AtMost, v

-----------------------------------------------------------------------------
(* Aggregates.                                                              *)

(* Rows whose fields of a column are there and fit.                          *)
Present(rows, c) ==
    \A i \in rows : /\ Field(i, c) \in Pairs /\ Field(i, c) # Missing
                    /\ Fits(Table, c, Field(i, c))

LEMMA ColumnReads ==
    ASSUME NEW i, NEW c
    PROVE  Column(i, c) = Read(Table.type[c], Field(i, c))
BY DEF Column, Value, Field, Table

(* A present field is NULL in its column only if it is null.                 *)
LEMMA NullOnlyOfNull ==
    ASSUME NEW rows, NEW c, Present(rows, c), NEW i \in rows
    PROVE  Column(i, c) = Null <=> Field(i, c) = Null
<1>1. Field(i, c) \in Pairs /\ Field(i, c) # Missing /\ Fits(Table, c, Field(i, c))
  BY DEF Present
<1> QED
  BY <1>1, ColumnReads, NullRead, PresentRead

(* Two rows are in one group for MongoDB exactly if they are for DuckDB.     *)
LEMMA GroupsExact ==
    ASSUME NEW rows, NEW c, Present(rows, c), NEW i \in rows, NEW j \in rows
    PROVE  Column(j, c) = Column(i, c) <=> Field(j, c) = Field(i, c)
<1>1. CASE Field(i, c) = Null \/ Field(j, c) = Null
  BY <1>1, NullOnlyOfNull
<1>2. CASE Field(i, c) # Null /\ Field(j, c) # Null
  <2>1. \A k \in {i, j} : /\ Field(k, c) \in Pairs /\ Field(k, c) \notin {Missing, Null}
                          /\ Fits(Table, c, Field(k, c)) /\ Column(k, c) = Read(Table.type[c], Field(k, c))
    BY <1>2, ColumnReads DEF Present
  <2> QED
    BY <2>1, ReadingKeepsOrder
<1> QED
  BY <1>1, <1>2

(* The least field is read as the least value.                               *)
LEMMA MinExact ==
    ASSUME Inv, NEW rows \in SUBSET Docs, NEW c, Present(rows, c)
    PROVE  Read(query.type[c], Smallest({Field(i, c) : i \in rows} \ {Null, Missing}))
             = Smallest({Column(i, c) : i \in {j \in rows : Column(j, c) # Null}})
<1> DEFINE given == {j \in rows : Column(j, c) # Null}
           fields == {Field(i, c) : i \in rows} \ {Null, Missing}
           values == {Column(i, c) : i \in given}
<1>1. given \subseteq rows /\ \A i \in rows : i \in given <=> Field(i, c) # Null
  BY NullOnlyOfNull
<1>2. fields = {Field(i, c) : i \in given}
  BY <1>1 DEF Present
<1> HIDE DEF given, fields
<1>3. ASSUME NEW i \in given
      PROVE  /\ Field(i, c) \in Pairs /\ Field(i, c) \notin {Missing, Null} /\ Fits(Table, c, Field(i, c))
             /\ Field(i, c) \in ComparableValues /\ Column(i, c) \in ComparableValues
             /\ Column(i, c) = Read(query.type[c], Field(i, c))
  <2>1. Field(i, c) \in Pairs /\ Field(i, c) \notin {Missing, Null} /\ Fits(Table, c, Field(i, c))
    BY <1>1 DEF Present
  <2>2. Field(i, c) \in ComparableValues /\ Read(Table.type[c], Field(i, c)) \in ComparableValues
    BY <2>1, RoundTrip
  <2> QED
    BY <2>1, <2>2, ColumnReads DEF Table
<1>4. CASE given = {}
  <2>1. Smallest(fields) = Null /\ Smallest(values) = Null
    BY <1>2, <1>4 DEF Smallest
  <2>2. Read(query.type[c], Null) = Null
    BY DEF Read, Null
  <2> QED
    BY <2>1, <2>2 DEF given, fields
<1>5. CASE given # {}
  <2> DEFINE field == [i \in given |-> Field(i, c)]
  <2>1. given \in SUBSET (1..Len(query.docs)) /\ Len(query.docs) \in Nat
    BY <1>1, DocsFinite
  <2>2. \A i \in given : field[i] \in ComparableValues
    BY <1>3
  <2>3. PICK m \in given : \A j \in given : AtMost(field[m], field[j])
    <3> HIDE DEF field
    <3> QED
      BY <1>5, <2>1, <2>2, LeastRow
  <2>4. \A j \in given : AtMost(Field(m, c), Field(j, c))
    BY <2>3
  <2>5. \A j \in given : AtMost(Column(m, c), Column(j, c))
    <3> TAKE j \in given
    <3>1. Table.type[c] = query.type[c]
      BY DEF Table
    <3> QED
      BY <1>3, <2>4, <3>1, ReadingKeepsOrder
  <2>6. Smallest(fields) = Field(m, c)
    <3>1. Field(m, c) \in fields /\ fields \in SUBSET ComparableValues /\ \A w \in fields : AtMost(Field(m, c), w)
      BY <1>2, <1>3, <2>4
    <3> QED
      BY <3>1, SmallestIs
  <2>7. Smallest(values) = Column(m, c)
    <3>1. Column(m, c) \in values /\ values \in SUBSET ComparableValues /\ \A w \in values : AtMost(Column(m, c), w)
      BY <1>3, <2>5
    <3> HIDE DEF values
    <3> QED
      BY <3>1, SmallestIs
  <2> QED
    BY <1>3, <2>6, <2>7 DEF given, fields
<1> QED
  BY <1>4, <1>5

LEMMA SumExact ==
    ASSUME NEW rows, NEW c, Present(rows, c), query.type[c] \in {"BIGINT", "HUGEINT", "INTEGER"},
           \A i \in rows : Field(i, c) # Null
    PROVE  [i \in rows |-> IF Field(i, c)[1] = "number" THEN Field(i, c)[2] ELSE 0]
             = [i \in rows |-> Column(i, c)[2]]
<1>1. ASSUME NEW i \in rows
      PROVE  (IF Field(i, c)[1] = "number" THEN Field(i, c)[2] ELSE 0) = Column(i, c)[2]
  <2>1. Field(i, c)[1] = "number" /\ query.type[c] = "BIGINT"
    BY DEF Present, Fits, Table
  <2>2. Column(i, c) = <<"number", Field(i, c)[2]>>
    BY <2>1 DEF Column, Value, Field, Table, Read, IsBSONTypeCompatible, Converted
  <2> QED
    BY <2>1, <2>2
<1> QED
  BY <1>1

(* One aggregate over rows, as MongoDB and as DuckDB computes it; an empty    *)
(* selection only differs in a sum.                                        *)
LEMMA ServerAggregateExact ==
    ASSUME Inv, NEW rows \in SUBSET Docs, query.above.kind = "aggregate",
           query.above.function # "count_star" => Present(rows, query.above.of),
           query.above.function = "sum" => rows # {} /\ \A i \in rows : Field(i, query.above.of) # Null
    PROVE  ServerAggregate(rows) = Aggregate(rows)
<1> DEFINE f == query.above.function
           c == query.above.of
           given == {i \in rows : Column(i, c) # Null}
<1>1. f \in AggregateFunctions /\ (f = "sum" => query.type[c] \in {"BIGINT", "HUGEINT", "INTEGER"})
  BY DEF Inv, QueryOK, IsQuery, IsOperator
<1>2. CASE f = "count_star"
  BY <1>2 DEF ServerAggregate, Aggregate
<1>3. CASE f = "count"
  <2>1. given = {i \in rows : Field(i, c) # Null}
    BY <1>3, NullOnlyOfNull
  <2> HIDE DEF given
  <2> QED
    BY <1>3, <2>1 DEF ServerAggregate, Aggregate, given
<1>4. CASE f = "sum"
  <2>1. given = rows /\ rows # {}
    BY <1>4, NullOnlyOfNull
  <2>2. [i \in rows |-> IF Field(i, c)[1] = "number" THEN Field(i, c)[2] ELSE 0] = [i \in rows |-> Column(i, c)[2]]
    BY <1>1, <1>4, SumExact
  <2>3. ServerAggregate(rows) = Number(SumFunction([i \in rows |-> IF Field(i, c)[1] = "number" THEN Field(i, c)[2] ELSE 0]))
    BY <1>4 DEF ServerAggregate
  <2>4. Aggregate(rows) = IF given = {} THEN Null ELSE Number(SumFunction([i \in given |-> Column(i, c)[2]]))
    BY <1>4 DEF Aggregate
  <2> HIDE DEF given
  <2> QED
    BY <2>1, <2>2, <2>3, <2>4
<1>5. CASE f = "min"
  <2>1. ServerAggregate(rows) = Read(query.type[c], Smallest({Field(i, c) : i \in rows} \ {Null, Missing}))
    BY <1>5 DEF ServerAggregate
  <2>2. Aggregate(rows) = Smallest({Column(i, c) : i \in given})
    BY <1>5 DEF Aggregate
  <2> QED
    BY <1>5, <2>1, <2>2, MinExact
<1> QED
  BY <1>1, <1>2, <1>3, <1>4, <1>5 DEF AggregateFunctions

LEMMA AggregateExact ==
    ASSUME Inv, RewritesAggregate, RewriteAgrees, pipeline.kind = "aggregate"
    PROVE  AggregatePipeline(Found(sent)) = Operator(Found(sent))
<1> DEFINE rows == Found(sent)
           f == query.above.function
           group == query.above.group
<1>1. rows \in SUBSET Docs
  BY DEF Found
<1>2. query.above.kind = "aggregate" /\ f \in AggregateFunctions /\ group \in DOMAIN query.path \union {"none"}
      /\ (f # "count_star" => query.above.of \in DOMAIN query.path)
  BY DEF RewritesAggregate, Inv, QueryOK, IsQuery, IsOperator
<1>3. \A i \in rows : \A c \in DOMAIN query.path : Field(i, c) \in Pairs
  BY <1>1 DEF Inv, QueryOK, IsQuery, Field, Docs
<1>4. /\ f # "count_star" => Present(rows, query.above.of)
      /\ f # "count_star" /\ group = "none" => rows # {}
      /\ f = "sum" => \A i \in rows : Field(i, query.above.of) # Null
      /\ group # "none" => Present(rows, group)
  BY <1>2, <1>3 DEF RewriteAgrees, Present
<1> HIDE DEF rows
<1>5. Operator(rows) = Grouped(rows)
  BY <1>2 DEF Operator
<1>6. CASE group = "none" /\ rows = {}
  <2>1. f = "count_star"
    BY <1>4, <1>6
  <2>2. Aggregate(rows) = Number(Cardinality(rows))
    BY <2>1 DEF Aggregate
  <2>3. Cardinality(rows) = 0
    BY <1>6, FS_EmptySet
  <2> QED
    BY <1>5, <1>6, <2>1, <2>2, <2>3 DEF AggregatePipeline, Grouped, rows
<1>7. CASE group = "none" /\ rows # {}
  <2>1. ServerAggregate(rows) = Aggregate(rows)
    BY <1>1, <1>2, <1>4, <1>7, ServerAggregateExact
  <2> QED
    BY <1>5, <1>7, <2>1 DEF AggregatePipeline, Grouped, rows
<1>8. CASE group # "none"
  <2> DEFINE ofFields(i) == {j \in rows : Field(j, group) = Field(i, group)}
             ofColumns(i) == {j \in rows : Column(j, group) = Column(i, group)}
  <2>1. ASSUME NEW i \in rows PROVE ofFields(i) = ofColumns(i) /\ i \in ofFields(i) /\ ofFields(i) \in SUBSET rows
    BY <1>4, <1>8, GroupsExact
  <2>2. AggregatePipeline(rows) = {<<Column(i, group), ServerAggregate(ofFields(i))>> : i \in rows}
    BY <1>8 DEF AggregatePipeline
  <2>3. Grouped(rows) = {<<Column(i, group), Aggregate(ofColumns(i))>> : i \in rows}
    BY <1>8 DEF Grouped
  <2> HIDE DEF ofFields, ofColumns
  <2>4. ASSUME NEW i \in rows PROVE ServerAggregate(ofFields(i)) = Aggregate(ofColumns(i))
    <3>1. ofFields(i) \in SUBSET Docs /\ ofFields(i) # {} /\ (f # "count_star" => Present(ofFields(i), query.above.of))
      BY <1>1, <1>4, <2>1 DEF Present
    <3>2. f = "sum" => \A k \in ofFields(i) : Field(k, query.above.of) # Null
      BY <1>4, <2>1
    <3> QED
      BY <1>2, <2>1, <3>1, <3>2, ServerAggregateExact
  <2> QED
    BY <1>5, <2>2, <2>3, <2>4 DEF rows
<1> QED
  BY <1>6, <1>7, <1>8

(* A rewritten TopN or aggregate gives what DuckDB would make of the rows of   *)
(* the scan: whatever the conditions, documents, limits, groups and           *)
(* functions, where RewriteAgrees holds.                                    *)
THEOREM RewritesKeepAnswers == Spec => []RewriteKeepsAnswer
<1>1. Inv /\ Rewriting /\ Answered => RewriteKeepsAnswer
  <2> SUFFICES ASSUME Inv, Rewriting, Answered, stage = "answered", pipeline.kind \in {"topn", "aggregate"},
                      RewriteAgrees
               PROVE  answer = Operator(Wanted)
    BY DEF RewriteKeepsAnswer, Wanted
  <2>1. Found(sent) = Wanted /\ Found(sent) \in SUBSET Docs
    BY FoundIsWanted DEF Found
  <2>2. CASE pipeline.kind = "topn"
    <3>1. answer = TopNPipeline(Found(sent)) /\ RewritesTopN /\ ~query.strict
      BY <2>2 DEF Answered, Rewriting, RewriteAgrees
    <3> QED
      BY <2>1, <3>1, TopNExact
  <2>3. CASE pipeline.kind = "aggregate"
    <3>1. answer = AggregatePipeline(Found(sent)) /\ RewritesAggregate
      BY <2>3 DEF Answered, Rewriting
    <3> QED
      BY <2>1, <2>3, <3>1, AggregateExact
  <2> QED
    BY <2>2, <2>3
<1> QED
  BY InvHolds, RewritingHolds, AnsweredHolds, <1>1, PTL

=============================================================================
