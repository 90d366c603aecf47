-------------------------- MODULE MCPushedQueries --------------------------
(* Queries and small collections for PushedQueries: filters over fields of   *)
(* every type, expressions, and operators above the scan.                    *)
EXTENDS PushedQueries

Path == [a |-> "x", b |-> "y"]
Document(x, y) == [x |-> x, y |-> y]
Filter(c, tests, form) == [kind |-> "filter", column |-> c, tests |-> tests, form |-> form]
Test(op, constants) == [op |-> op, constants |-> constants]
None == [kind |-> "none"]
UserFilter == [kind |-> "filter", query |-> {{[path |-> "y", op |-> "gt", values |-> {Number(0)}]}}]
UserPipeline == [kind |-> "pipeline", query |-> {{[path |-> "y", op |-> "gt", values |-> {Number(0)}]}}]

Query(type, docs, ids, where, joins, user, strict, above) ==
    [type |-> [a |-> type, b |-> "BIGINT"], path |-> Path, schema |-> <<"a", "b">>, docs |-> docs,
     ids |-> ids, where |-> where, joins |-> joins, user |-> user, strict |-> strict, above |-> above]

FieldsOf(type) ==
    {Missing, Null} \union
    CASE type \in {"BIGINT", "HUGEINT", "INTEGER"} -> {Number(1), Number(2), <<"string", 1>>}
      [] type = "VARCHAR" -> {<<"string", 1>>, <<"string", 2>>, <<"hex", 1>>, <<"oid", 1>>, Number(1)}
      [] type \in {"DATE", "TIMESTAMP"} -> {<<"date", 1>>, <<"date", 4>>, <<"string", 1>>}
ConstantsOf(type) ==
    CASE type \in {"BIGINT", "HUGEINT", "INTEGER"} -> {Number(1), Number(2)}
      [] type = "VARCHAR" -> {<<"string", 1>>, <<"hex", 1>>}
      [] type = "DATE" -> {<<"date", 0>>, <<"date", 8>>}
      [] type = "TIMESTAMP" -> {<<"date", 2>>, <<"date", 3>>}

(* Filters of column a, alone, in pairs and beside those of joins.            *)
TestsOf(type) ==
    {Test(op, {v}) : op \in Comparisons, v \in ConstantsOf(type)}
      \union {Test("in", v) : v \in SUBSET ConstantsOf(type)}
      \union {Test("null", {}), Test("notnull", {})}
Ranges(type) == {Test(op, {v}) : op \in {"gte", "lt"}, v \in ConstantsOf(type)} \union {Test("notnull", {})}
Wheres(type) ==
    {{Filter("a", {t}, "plain")} : t \in TestsOf(type)}
      \union {{Filter("a", {t, u}, "plain")} : t \in Ranges(type), u \in {Test("null", {}), Test("in", ConstantsOf(type))}}
      \union {{Filter("a", {t}, "plain"), Filter("a", {u}, "plain")} : t, u \in Ranges(type)}
      \union {{Filter("a", {t}, "plain"), Filter("b", {Test("gte", {Number(1)})}, "plain")} : t \in Ranges(type)}
Joins(type) ==
    {{Filter("a", {Test("gte", {v})} \union more, "optional"), Filter("a", {Test("notnull", {})}, "dynamic")} :
        v \in ConstantsOf(type), more \in {{}, {Test("null", {})}}}
      \union {{Filter("a", {Test("eq", {v})}, "dynamic")} : v \in ConstantsOf(type)}
      \union {{Filter("a", {Test("lt", {v})}, "unset")} : v \in ConstantsOf(type)}
Collections(type) ==
    IF type = "VARCHAR"
    THEN {<<Document(x, Number(1)), Document(y, Number(0))>> : x, y \in FieldsOf(type)}
    ELSE {<<Document(x, Number(1))>> : x \in FieldsOf(type)}
FilterQueries(type) ==
    {Query(type, docs, <<"a", "b">>, where, {}, None, FALSE, None) :
       docs \in Collections(type), where \in Wheres(type)}
JoinQueries(type) ==
    {Query(type, docs, <<"a", "b">>, where, joins, None, FALSE, None) :
       docs \in Collections(type), where \in {{}, {Filter("a", {Test("notnull", {})}, "plain")}},
       joins \in Joins(type)}

(* Expressions over columns a and b, read in the schema's order and not.      *)
Column_(i) == [kind |-> "column", index |-> i]
Cast(i) == [kind |-> "cast", index |-> i]
LengthOf(i) == [kind |-> "length", index |-> i]
Substring(i, start) == [kind |-> "substring", index |-> i, start |-> start, length |-> 1]
Constant(v) == [kind |-> "constant", value |-> v]
Expression(op, left, right) == [kind |-> "expression", op |-> op, left |-> left, right |-> right, foreign |-> FALSE]

NumberExpressions == {Expression("lt", Column_(1), Column_(2)), Expression("gte", Column_(1), Column_(2)),
                      Expression("eq", Column_(1), Constant(Number(1)))}
WordExpressions(i) ==
    {Expression("gt", LengthOf(i), Constant(Number(1))), Expression("lt", Constant(Number(1)), LengthOf(i)),
     Expression("eq", Cast(3 - i), Column_(i))}
      \union {Expression("eq", Substring(i, start), Constant(<<"string", 1>>)) : start \in 0..2}
      \union {Expression("eq", Substring(i, 1), Substring(i, 0))}
ExpressionsOf(type, ids) ==
    IF type = "BIGINT" THEN NumberExpressions ELSE WordExpressions(CHOOSE i \in 1..2 : ids[i] = "a")
Users == {None, UserFilter, UserPipeline}
ExpressionQueries(type, ids) ==
    {Query(type, <<Document(x, y)>>, ids, {e} \union more, {}, user, FALSE, None) :
       x \in FieldsOf(type), y \in {Missing, Null, Number(1)}, e \in ExpressionsOf(type, ids), user \in Users,
       more \in {{}, {Filter("b", {Test("gte", {Number(1)})}, "plain")}, {CHOOSE f \in ExpressionsOf(type, ids) : TRUE}}}

(* Operators above the scan.                                                  *)
TopN(key, limit, offset) == [kind |-> "topn", key |-> key, limit |-> limit, offset |-> offset]
AggregateOf(function, of, group) == [kind |-> "aggregate", function |-> function, of |-> of, group |-> group]
Aboves ==
    {TopN(key, limit, offset) : key \in {"_id", "a"}, limit \in {0, 1}, offset \in {0, 1}}
      \union {AggregateOf(function, "a", group) : function \in {"count_star", "count", "sum", "min"}, group \in {"none", "b"}}
OperatorQueries(strict) ==
    {Query("BIGINT", docs, <<"a", "b">>, where, {}, user, strict, above) :
       docs \in {<<>>} \union {<<Document(Number(2), Number(1)), Document(y, z)>> :
                                 y \in FieldsOf("BIGINT"), z \in {Missing, Null, Number(1)}},
       where \in {{}, {Filter("a", {Test("gte", {Number(1)})}, "plain")}, {Expression("gte", Column_(1), Column_(2))}},
       user \in Users, above \in Aboves}

MCFamilies ==
    {FilterQueries(type) : type \in Types}
      \union {JoinQueries(type) : type \in {"BIGINT", "VARCHAR"}}
      \union {ExpressionQueries(type, ids) : type \in {"BIGINT", "VARCHAR"}, ids \in {<<"a", "b">>, <<"b", "a">>}}
      \union {OperatorQueries(strict) : strict \in BOOLEAN}

=============================================================================
