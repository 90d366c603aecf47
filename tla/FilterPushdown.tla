--------------------------- MODULE FilterPushdown ---------------------------
(***************************************************************************)
(* Translation of DuckDB's table filters into a MongoDB query.             *)
(* Source: mongo_filter_pushdown.cpp, as built against DuckDB v1.5.        *)
(*                                                                         *)
(* A table filter is a disjunction of tests of one column, each with an    *)
(* operation and constants; DuckDB keeps the conjunction of the filters of *)
(* a column.  "form" tells plain filters from those of joins, OPTIONAL or  *)
(* DYNAMIC ones; "unset" is a dynamic filter nobody has filled in yet.      *)
(*                                                                         *)
(* A MongoDB query is a set of terms, all of which must match; a term is a *)
(* set of conditions on fields, one of which must match.  The tests have   *)
(* the names of MongoDB's operators.                                       *)
(***************************************************************************)
EXTENDS MongoValues, FiniteSets

Comparisons == {"eq", "ne", "lt", "lte", "gt", "gte"}
Tests == Comparisons \union {"in", "null", "notnull"}

(* What a filter is made of: a comparison has one constant.                 *)
Pairs == STRING \X Int
IsFilter(filter) ==
    /\ filter.tests # {}
    /\ \A test \in filter.tests :
          /\ test.op \in Tests
          /\ test.constants \subseteq Pairs
          /\ test.op \in Comparisons => \E v \in test.constants : test.constants = {v}

(* A table: the type of each column, the path of its field in a document,   *)
(* and the columns DetectObjectIdColumns found to hold ObjectIds.           *)

(* The constant put into the query for a column.  Types without a case of   *)
(* their own become text.                                                  *)
AppendValue(table, column, constant) ==
    CASE table.type[column] = "VARCHAR" ->
           (IF constant[1] = "hex" /\ column \in table.oids THEN <<"oid", constant[2]>> ELSE constant)
      [] table.type[column] \in {"DATE", "TIMESTAMP"} -> <<"date", constant[2] \div 2>>
      [] table.type[column] \in {"BIGINT", "INTEGER"} -> constant
      [] OTHER -> <<"digits", constant[2]>>

Condition(table, column, test) ==
    [path |-> table.path[column],
     op |-> CASE test.op = "null" -> "eq" [] test.op = "notnull" -> "ne" [] OTHER -> test.op,
     values |-> IF test.op \in {"null", "notnull"}
                THEN {Null}
                ELSE {AppendValue(table, column, v) : v \in test.constants}]

(* Mutant: an IN list of several values is left out of a disjunction.        *)
ConvertSingleFilterToMongoHalf(table, filter) ==
    IF filter.form = "unset" THEN {}
    ELSE {Condition(table, filter.column, test) :
             test \in {x \in filter.tests : ~(x.op = "in" /\ Cardinality(x.constants) # 1)}}

(* The conditions a filter becomes: none for an empty list and for a        *)
(* dynamic filter that is not set, which leave the document empty.          *)
ConvertSingleFilterToMongo(table, filter) ==
    IF filter.form = "unset" THEN {}
    ELSE {Condition(table, filter.column, test) :
             test \in {x \in filter.tests : ~(x.op = "in" /\ x.constants = {})}}

(* A term nothing matches: a disjunction of nothing.                        *)
Unmatchable == {}

(* A document {path: {$op: ...}}, whose operators can be merged with others *)
(* of the same path.                                                       *)
IsOperatorDocument(conditions) ==
    \E condition \in conditions : conditions = {condition} /\ condition.op # "eq"

(* The filters of one column.  Several are a CONJUNCTION_AND, whose children *)
(* are merged into one document under the path: only operator documents    *)
(* survive that, and of no child at all remains {path: {}}.                *)
ConvertColumnFilters(table, filters) ==
    LET documents == {ConvertSingleFilterToMongo(table, f) : f \in filters} \ {{}}
    IN  CASE Cardinality(filters) = 1 -> documents
          [] documents # {} /\ \A d \in documents : IsOperatorDocument(d) -> documents
          [] OTHER -> {Unmatchable}

(* A term that starts with $or is kept apart from those under a path.       *)
IsGlobal(term) == Cardinality(term) > 1

ConvertFiltersToMongoQuery(table, filters) ==
    LET filtered == {f.column : f \in filters}
        terms == [c \in filtered |-> ConvertColumnFilters(table, {f \in filters : f.column = c})]
        Clash(c, d) == /\ c # d /\ table.path[c] = table.path[d]
                       /\ \E t \in terms[c] : ~IsGlobal(t)
                       /\ \E t \in terms[d] : ~IsGlobal(t)
    IN  UNION {terms[c] : c \in filtered}
          \union (IF \E c, d \in filtered : Clash(c, d) THEN {Unmatchable} ELSE {})

-----------------------------------------------------------------------------
(* MongoDB: which documents match.  Order operators compare within a type;  *)
(* null stands for a missing field too.                                    *)

SameKind(x, y) == x[1] = y[1] \/ (x[1] \in StringClasses /\ y[1] \in StringClasses)
Equals(field, value) == field = value \/ (value = Null /\ field = Missing)

Satisfies(field, condition) ==
    CASE condition.op \in {"eq", "in"} -> \E v \in condition.values : Equals(field, v)
      [] condition.op = "ne" -> \A v \in condition.values : ~Equals(field, v)
      [] OTHER -> \A v \in condition.values : SameKind(field, v) /\ Compare(condition.op, field, v)

Matches(document, query) ==
    \A term \in query : \E condition \in term : Satisfies(document[condition.path], condition)

-----------------------------------------------------------------------------
(* SQL: when a test of a column is TRUE.                                    *)

IsTrue(value, test) ==
    CASE test.op = "null" -> value = Null
      [] test.op = "notnull" -> value # Null
      [] test.op = "in" -> value # Null /\ value \in test.constants
      [] OTHER -> value # Null /\ \A v \in test.constants : Compare(test.op, value, v)

Value(table, document, column) == Read(table.type[column], document[table.path[column]])
FilterIsTrue(table, document, filter) ==
    \E test \in filter.tests : IsTrue(Value(table, document, filter.column), test)

-----------------------------------------------------------------------------
(* Where the translation is exact: fields of the column's type (ObjectIds   *)
(* exactly in the columns taken for such, dates at midnight in DATE        *)
(* columns), constants that survive it, no <>, and conjunctions that merge. *)

Fits(table, column, field) ==
    \/ field \in {Missing, Null}
    \/ /\ table.type[column] = "BIGINT" /\ field[1] = "number"
    \/ /\ table.type[column] = "VARCHAR"
       /\ field[1] \in (IF column \in table.oids THEN {"oid"} ELSE StringClasses)
    \/ /\ table.type[column] = "TIMESTAMP" /\ field[1] = "date"
    \/ /\ table.type[column] = "DATE" /\ field[1] = "date" /\ (2 * field[2]) % DayUnits = 0

Survives(table, column, constant) ==
    CASE table.type[column] = "BIGINT" -> constant[1] = "number"
      [] table.type[column] = "VARCHAR" -> constant[1] \in (IF column \in table.oids THEN {"hex"} ELSE StringClasses)
      [] table.type[column] \in {"DATE", "TIMESTAMP"} -> constant[1] = "date" /\ constant[2] % 2 = 0
      [] OTHER -> FALSE

Faithful(table, filter) ==
    /\ filter.form # "unset"
    /\ \A test \in filter.tests :
          /\ test.op # "ne"
          /\ test.op = "in" => test.constants # {}
          /\ \A v \in test.constants : Survives(table, filter.column, v)

Mergeable(table, filters) ==
    /\ \A f \in filters :
          \/ IsOperatorDocument(ConvertSingleFilterToMongo(table, f))
          \/ \A g \in filters : g.column = f.column => g = f
    /\ \A f, g \in filters : table.path[f.column] = table.path[g.column] => f.column = g.column

=============================================================================
