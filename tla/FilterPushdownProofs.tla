------------------------ MODULE FilterPushdownProofs ------------------------
(***************************************************************************)
(* The translation of filters is exact: for fields that fit their columns   *)
(* and constants that survive, a document matches the query MongoDB is sent *)
(* exactly if SQL finds all filters TRUE of its row.                       *)
(***************************************************************************)
EXTENDS FilterPushdown, FiniteSetTheorems, TLAPS

(* A field and the constant put into the query compare as the column value   *)
(* and the constant of the filter do.                                      *)
Corresponds(field, appended, value, constant) ==
    /\ SameKind(field, appended)
    /\ field = appended <=> value = constant
    /\ Less(field, appended) <=> Less(value, constant)
    /\ Less(appended, field) <=> Less(constant, value)

LEMMA PairFacts ==
    ASSUME NEW v \in Pairs
    PROVE  v[1] \in STRING /\ v[2] \in Int /\ v = <<v[1], v[2]>>
BY DEF Pairs

(* The classes a column of a fitting type can hold.                          *)
Comparable == {"number", "date", "oid", "digits", "hex", "string"}

LEMMA RankFacts == \A c \in Comparable : Rank(c) \in Int
BY DEF Comparable, Rank

(* Within one class, numbers decide.                                        *)
LEMMA LessWithin ==
    ASSUME NEW c \in Comparable, NEW m \in Int, NEW n \in Int
    PROVE  Less(<<c, m>>, <<c, n>>) <=> m < n
<1>1. ~(Rank(c) < Rank(c))
  BY RankFacts
<1> QED
  BY <1>1 DEF Less

LEMMA SameClass ==
    ASSUME NEW c \in Comparable, NEW k \in Comparable,
           NEW m \in Int, NEW n \in Int, NEW a \in Int, NEW b \in Int,
           m = n <=> a = b, m < n <=> a < b
    PROVE  Corresponds(<<c, m>>, <<c, n>>, <<k, a>>, <<k, b>>)
<1>1. n < m <=> b < a
  OBVIOUS
<1>2. SameKind(<<c, m>>, <<c, n>>)
  BY DEF SameKind
<1>3. /\ Less(<<c, m>>, <<c, n>>) <=> Less(<<k, a>>, <<k, b>>)
      /\ Less(<<c, n>>, <<c, m>>) <=> Less(<<k, b>>, <<k, a>>)
  BY <1>1, LessWithin
<1>4. <<c, m>> = <<c, n>> <=> <<k, a>> = <<k, b>>
  OBVIOUS
<1> QED
  BY <1>2, <1>3, <1>4 DEF Corresponds

(* The field and constant of a column whose translation keeps them as they    *)
(* are.                                                                    *)
LEMMA Unchanged ==
    ASSUME NEW field, NEW constant, SameKind(field, constant)
    PROVE  Corresponds(field, constant, field, constant)
BY DEF Corresponds

LEMMA ValuesCorrespond ==
    ASSUME NEW table, NEW column, NEW field \in Pairs, NEW constant,
           constant[2] \in Int, constant = <<constant[1], constant[2]>>,
           Fits(table, column, field), field \notin {Missing, Null},
           Survives(table, column, constant)
    PROVE  Corresponds(field, AppendValue(table, column, constant), Read(table.type[column], field), constant)
<1> DEFINE type == table.type[column]
<1>1. /\ field[2] \in Int /\ field = <<field[1], field[2]>>
      /\ constant[2] \in Int /\ constant = <<constant[1], constant[2]>>
  BY PairFacts
<1>2. CASE type = "BIGINT"
  <2>1. field[1] = "number" /\ constant[1] = "number"
    BY <1>2 DEF Fits, Survives
  <2>2. Read(type, field) = field
    BY <1>1, <1>2, <2>1 DEF Read, IsBSONTypeCompatible, Converted
  <2>3. AppendValue(table, column, constant) = constant
    BY <1>2 DEF AppendValue
  <2> QED
    BY <2>1, <2>2, <2>3, Unchanged DEF SameKind
<1>3. CASE type = "VARCHAR" /\ column \notin table.oids
  <2>1. field[1] \in StringClasses /\ constant[1] \in StringClasses
    BY <1>3 DEF Fits, Survives
  <2>2. Read(type, field) = field
    BY <1>3, <2>1 DEF Read, IsBSONTypeCompatible, Converted, StringClasses
  <2>3. AppendValue(table, column, constant) = constant
    BY <1>3 DEF AppendValue
  <2> QED
    BY <2>1, <2>2, <2>3, Unchanged DEF SameKind
<1>4. CASE type = "VARCHAR" /\ column \in table.oids
  <2>1. field[1] = "oid" /\ constant[1] = "hex"
    BY <1>4 DEF Fits, Survives
  <2>2. Read(type, field) = <<"hex", field[2]>>
    BY <1>4, <2>1 DEF Read, IsBSONTypeCompatible, Converted, StringClasses
  <2>3. AppendValue(table, column, constant) = <<"oid", constant[2]>>
    BY <1>4, <2>1 DEF AppendValue
  <2>4. Corresponds(<<"oid", field[2]>>, <<"oid", constant[2]>>, <<"hex", field[2]>>, <<"hex", constant[2]>>)
    BY <1>1, SameClass DEF Comparable
  <2> QED
    BY <1>1, <2>1, <2>2, <2>3, <2>4
<1>5. CASE type \in {"TIMESTAMP", "DATE"}
  <2>1. field[1] = "date" /\ constant[1] = "date" /\ constant[2] % 2 = 0
    BY <1>5 DEF Fits, Survives
  <2>2. Read(type, field) = <<"date", 2 * field[2]>>
    <3>1. CASE type = "TIMESTAMP"
      BY <1>1, <2>1, <3>1 DEF Read, IsBSONTypeCompatible, Converted
    <3>2. CASE type = "DATE"
      <4>1. (2 * field[2]) % DayUnits = 0
        BY <3>2 DEF Fits
      <4>2. DayUnits * ((2 * field[2]) \div DayUnits) = 2 * field[2]
        BY <1>1, <4>1 DEF DayUnits
      <4> QED
        BY <1>1, <2>1, <3>2, <4>2 DEF Read, IsBSONTypeCompatible, Converted
    <3> QED
      BY <1>5, <3>1, <3>2
  <2>3. AppendValue(table, column, constant) = <<"date", constant[2] \div 2>>
    BY <1>5 DEF AppendValue
  <2>4. PICK half \in Int : half = constant[2] \div 2
    BY <1>1
  <2>5. constant[2] = 2 * half
    BY <1>1, <2>1, <2>4
  <2>6. 2 * field[2] \in Int /\ (field[2] = half <=> 2 * field[2] = constant[2]) /\ (field[2] < half <=> 2 * field[2] < constant[2])
    BY <1>1, <2>5
  <2>7. Corresponds(<<"date", field[2]>>, <<"date", half>>, <<"date", 2 * field[2]>>, <<"date", constant[2]>>)
    BY <1>1, <2>6, SameClass DEF Comparable
  <2> QED
    BY <1>1, <2>1, <2>2, <2>3, <2>4, <2>7
<1> QED
  BY <1>2, <1>3, <1>4, <1>5 DEF Survives

-----------------------------------------------------------------------------
(* One test.                                                                *)

LEMMA NullRead ==
    ASSUME NEW type, NEW field \in Pairs
    PROVE  field \in {Missing, Null} => Read(type, field) = Null
BY DEF Read, Missing, Null

(* A fitting field that is there is not read as NULL.                        *)
LEMMA PresentRead ==
    ASSUME NEW table, NEW column, NEW field \in Pairs,
           Fits(table, column, field), field \notin {Missing, Null}
    PROVE  Read(table.type[column], field) # Null
<1>1. field[2] \in Int /\ field = <<field[1], field[2]>>
  BY PairFacts
<1>2. field[1] \in {"number", "date", "oid"} \union StringClasses
  BY DEF Fits
<1>3. CASE table.type[column] = "BIGINT"
  BY <1>1, <1>3 DEF Fits, Read, IsBSONTypeCompatible, Converted, Null
<1>4. CASE table.type[column] = "VARCHAR"
  <2>1. field[1] \in StringClasses \union {"oid"}
    BY <1>4 DEF Fits
  <2>2. Converted("VARCHAR", field) = field \/ Converted("VARCHAR", field) = <<"hex", field[2]>>
    BY <2>1 DEF Converted, StringClasses
  <2> QED
    BY <1>1, <1>4, <2>1, <2>2 DEF Read, IsBSONTypeCompatible, StringClasses, Null
<1>5. CASE table.type[column] = "TIMESTAMP"
  BY <1>1, <1>5 DEF Fits, Read, IsBSONTypeCompatible, Converted, Null
<1>6. CASE table.type[column] = "DATE"
  BY <1>1, <1>6 DEF Fits, Read, IsBSONTypeCompatible, Converted, Null
<1> QED
  BY <1>3, <1>4, <1>5, <1>6 DEF Fits

(* What Faithful asks of one test.                                          *)
FaithfulTest(table, column, test) ==
    /\ test.op \in Tests \ {"ne"}
    /\ test.constants \subseteq Pairs
    /\ test.op \in Comparisons => \E v \in test.constants : test.constants = {v}
    /\ \A v \in test.constants : Survives(table, column, v)

LEMMA AppendedPair ==
    ASSUME NEW table, NEW column, NEW v \in Pairs, Survives(table, column, v)
    PROVE  AppendValue(table, column, v)[1] \in Comparable
<1>1. v = <<v[1], v[2]>>
  BY PairFacts
<1> QED
  BY <1>1 DEF Survives, AppendValue, Comparable, StringClasses

LEMMA TestExact ==
    ASSUME NEW table, NEW column, NEW test, FaithfulTest(table, column, test),
           NEW field \in Pairs, Fits(table, column, field)
    PROVE  Satisfies(field, Condition(table, column, test)) <=> IsTrue(Read(table.type[column], field), test)
<1> DEFINE value == Read(table.type[column], field)
           condition == Condition(table, column, test)
           sentFor(v) == AppendValue(table, column, v)
<1>1. CASE test.op \in {"null", "notnull"}
  <2>1. condition.values = {Null} /\ condition.op = IF test.op = "null" THEN "eq" ELSE "ne"
    BY <1>1 DEF Condition
  <2>2. value = Null <=> field \in {Missing, Null}
    BY NullRead, PresentRead
  <2> QED
    BY <1>1, <2>1, <2>2 DEF Satisfies, IsTrue, Equals
<1>2. CASE test.op \in {"eq", "in", "lt", "lte", "gt", "gte"}
  <2>1. condition.values = {sentFor(v) : v \in test.constants} /\ condition.op = test.op
    BY <1>2 DEF Condition
  <2>2. \A v \in test.constants : v \in Pairs /\ Survives(table, column, v) /\ sentFor(v)[1] \in Comparable
    BY AppendedPair DEF FaithfulTest
  <2>3. CASE field \in {Missing, Null}
    <3>1. value = Null
      BY <2>3, NullRead
    <3>2. \A v \in test.constants : ~SameKind(field, sentFor(v)) /\ ~Equals(field, sentFor(v))
      BY <2>2, <2>3 DEF SameKind, Equals, Comparable, Missing, Null, StringClasses
    <3>3. test.op # "in" => \E v \in test.constants : test.constants = {v}
      BY <1>2 DEF FaithfulTest, Comparisons
    <3>4. ~IsTrue(value, test)
      BY <1>2, <3>1 DEF IsTrue
    <3>5. ~Satisfies(field, condition)
      BY <1>2, <2>1, <3>2, <3>3 DEF Satisfies
    <3> QED
      BY <3>4, <3>5
  <2>4. CASE field \notin {Missing, Null}
    <3>1. value # Null
      BY <2>4, PresentRead
    <3>2. \A v \in test.constants : Corresponds(field, sentFor(v), value, v)
      BY <2>2, <2>4, ValuesCorrespond, PairFacts
    <3>3. \A v \in test.constants : Equals(field, sentFor(v)) <=> value = v
      BY <2>4, <3>2 DEF Corresponds, Equals
    <3>4. CASE test.op = "in"
      BY <2>1, <3>1, <3>3, <3>4 DEF Satisfies, IsTrue
    <3>5. CASE test.op # "in"
      <4>1. PICK v \in test.constants : test.constants = {v}
        BY <1>2, <3>5 DEF FaithfulTest, Comparisons
      <4>2. condition.values = {sentFor(v)}
        BY <2>1, <4>1
      <4>3. CASE test.op = "eq"
        BY <2>1, <3>1, <3>3, <4>1, <4>2, <4>3 DEF Satisfies, IsTrue, Compare
      <4>4. CASE test.op \in {"lt", "lte", "gt", "gte"}
        <5>1. Compare(test.op, field, sentFor(v)) <=> Compare(test.op, value, v)
          BY <3>2, <4>1, <4>4 DEF Compare, Corresponds
        <5>2. SameKind(field, sentFor(v))
          BY <3>2, <4>1 DEF Corresponds
        <5> QED
          BY <2>1, <3>1, <4>1, <4>2, <4>4, <5>1, <5>2 DEF Satisfies, IsTrue
      <4> QED
        BY <1>2, <3>5, <4>3, <4>4
    <3> QED
      BY <3>4, <3>5
  <2> QED
    BY <2>3, <2>4
<1> QED
  BY <1>1, <1>2 DEF FaithfulTest, Tests, Comparisons

-----------------------------------------------------------------------------
(* One filter.                                                              *)

LEMMA FaithfulTests ==
    ASSUME NEW table, NEW filter, IsFilter(filter), Faithful(table, filter), NEW test \in filter.tests
    PROVE  FaithfulTest(table, filter.column, test)
BY DEF IsFilter, Faithful, FaithfulTest

(* A faithful filter leaves nothing out: no test vanishes.                   *)
LEMMA AllTestsConverted ==
    ASSUME NEW table, NEW filter, IsFilter(filter), Faithful(table, filter)
    PROVE  /\ ConvertSingleFilterToMongo(table, filter) =
                 {Condition(table, filter.column, test) : test \in filter.tests}
           /\ ConvertSingleFilterToMongo(table, filter) # {}
<1>1. {x \in filter.tests : ~(x.op = "in" /\ x.constants = {})} = filter.tests
  BY DEF Faithful
<1> QED
  BY <1>1 DEF ConvertSingleFilterToMongo, Faithful, IsFilter

(* The disjunction a filter becomes is satisfied by a field of its column     *)
(* exactly if SQL finds the filter TRUE: nothing is lost with a missing or    *)
(* null field, and no half of a disjunction.                                *)
THEOREM FilterExact ==
    ASSUME NEW table, NEW filter, IsFilter(filter), Faithful(table, filter),
           NEW document, document[table.path[filter.column]] \in Pairs,
           Fits(table, filter.column, document[table.path[filter.column]])
    PROVE  (\E condition \in ConvertSingleFilterToMongo(table, filter) :
               Satisfies(document[condition.path], condition))
           <=> FilterIsTrue(table, document, filter)
<1> DEFINE column == filter.column
           field == document[table.path[column]]
<1>1. ASSUME NEW test \in filter.tests
      PROVE  /\ Condition(table, column, test).path = table.path[column]
             /\ Satisfies(field, Condition(table, column, test)) <=> IsTrue(Value(table, document, column), test)
  <2>1. FaithfulTest(table, column, test)
    BY FaithfulTests
  <2>2. Satisfies(field, Condition(table, column, test)) <=> IsTrue(Read(table.type[column], field), test)
    BY <2>1, TestExact
  <2> QED
    BY <2>2 DEF Condition, Value
<1>2. ConvertSingleFilterToMongo(table, filter) = {Condition(table, column, test) : test \in filter.tests}
  BY AllTestsConverted
<1> QED
  BY <1>1, <1>2 DEF FilterIsTrue

-----------------------------------------------------------------------------
(* All filters.                                                             *)

LEMMA ColumnTerms ==
    ASSUME NEW table, NEW filters, IsFiniteSet(filters), Mergeable(table, filters),
           \A f \in filters : IsFilter(f) /\ Faithful(table, f),
           NEW column \in {f.column : f \in filters}
    PROVE  ConvertColumnFilters(table, {f \in filters : f.column = column}) =
              {ConvertSingleFilterToMongo(table, f) : f \in {g \in filters : g.column = column}}
<1> DEFINE own == {f \in filters : f.column = column}
           converted == {ConvertSingleFilterToMongo(table, f) : f \in own}
<1>1. IsFiniteSet(own) /\ own # {}
  BY FS_Subset
<1>2. converted \ {{}} = converted
  BY AllTestsConverted
<1>3. CASE Cardinality(own) = 1
  BY <1>2, <1>3 DEF ConvertColumnFilters
<1>4. CASE Cardinality(own) # 1
  <2>1. \A f \in own : own # {f}
    BY <1>1, <1>4, FS_Singleton
  <2>2. \A f \in own : IsOperatorDocument(ConvertSingleFilterToMongo(table, f))
    BY <2>1 DEF Mergeable
  <2>3. converted # {} /\ \A d \in converted : IsOperatorDocument(d)
    BY <1>1, <2>2
  <2> QED
    BY <1>2, <1>4, <2>3 DEF ConvertColumnFilters
<1> QED
  BY <1>3, <1>4

LEMMA QueryTerms ==
    ASSUME NEW table, NEW filters, IsFiniteSet(filters), Mergeable(table, filters),
           \A f \in filters : IsFilter(f) /\ Faithful(table, f)
    PROVE  ConvertFiltersToMongoQuery(table, filters) = {ConvertSingleFilterToMongo(table, f) : f \in filters}
<1> DEFINE filtered == {f.column : f \in filters}
           terms == [c \in filtered |-> ConvertColumnFilters(table, {f \in filters : f.column = c})]
<1>1. \A c \in filtered : terms[c] = {ConvertSingleFilterToMongo(table, f) : f \in {g \in filters : g.column = c}}
  BY ColumnTerms
<1>2. \A c, d \in filtered : table.path[c] = table.path[d] => c = d
  BY DEF Mergeable
<1> HIDE DEF terms
<1>3. UNION {terms[c] : c \in filtered} = {ConvertSingleFilterToMongo(table, f) : f \in filters}
  BY <1>1
<1> QED
  BY <1>2, <1>3 DEF ConvertFiltersToMongoQuery, terms

(* The query made of all filters of a scan finds a document exactly if SQL     *)
(* finds every filter TRUE of its row: filters of one column survive their    *)
(* merge, and those of other columns are not mixed with them.               *)
THEOREM FiltersExact ==
    ASSUME NEW table, NEW filters, IsFiniteSet(filters), Mergeable(table, filters),
           NEW document,
           \A f \in filters : /\ IsFilter(f) /\ Faithful(table, f)
                              /\ document[table.path[f.column]] \in Pairs
                              /\ Fits(table, f.column, document[table.path[f.column]])
    PROVE  Matches(document, ConvertFiltersToMongoQuery(table, filters))
           <=> \A f \in filters : FilterIsTrue(table, document, f)
<1>1. ConvertFiltersToMongoQuery(table, filters) = {ConvertSingleFilterToMongo(table, f) : f \in filters}
  BY QueryTerms
<1>2. \A f \in filters : (\E condition \in ConvertSingleFilterToMongo(table, f) : Satisfies(document[condition.path], condition))
                         <=> FilterIsTrue(table, document, f)
  BY FilterExact
<1> QED
  BY <1>1, <1>2 DEF Matches

=============================================================================
