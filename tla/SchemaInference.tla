-------------------------- MODULE SchemaInference --------------------------
(***************************************************************************)
(* Where the columns of a scan come from: the columns parameter, the        *)
(* collection's __schema document, or a sample of its documents.           *)
(* Sources: mongo_schema_inference.cpp, mongo_schema_inference_helpers.cpp *)
(* and MongoScanBind.                                                      *)
(*                                                                         *)
(* A column's type is a record: the levels of lists, the type below them,   *)
(* and for a STRUCT the types of its fields.                               *)
(***************************************************************************)
EXTENDS Documents, Selection

CONSTANTS
    Inputs,      (* bound: collections and what is asked of them: docs,       *)
                 (* sampleSize, source, declared, mode, fixed                *)
    MaxDepth,    (* nested documents that are flattened, and levels of        *)
                 (* documents and arrays that are typed (in the code 5)       *)
    MaxScanned,  (* elements of an array whose fields are read (in the code   *)
                 (* 10)                                                       *)
    PathOrder    (* all paths, sorted as strings                              *)

Sources == {"columns", "__schema", "inferred"}
Atomic(id) == [list |-> 0, base |-> id, fields |-> <<>>]
ListOf(type) == [type EXCEPT !.list = @ + 1]
Struct(fields) == [list |-> 0, base |-> "STRUCT", fields |-> fields]

-----------------------------------------------------------------------------
(* The type of a field.                                                     *)

(* Seconds since the epoch, those before it rounded up, decide whether a date *)
(* is at midnight.                                                         *)
AtMidnight(ms) == (IF ms >= 0 THEN ms \div SecondMs ELSE (-ms) \div SecondMs) % (DayMs \div SecondMs) = 0

InferTypeFromBSON(field) ==
    CASE field[1] = "number" -> "BIGINT"
      [] field[1] \in {"double", "decimal"} -> "DOUBLE"
      [] field[1] = "bool" -> "BOOLEAN"
      [] field[1] = "binary" -> "BLOB"
      [] field[1] = "date" -> (IF AtMidnight(field[2]) THEN "DATE" ELSE "TIMESTAMP")
      [] OTHER -> "VARCHAR"

(* Lists win over structs and these over the rest; of the lists the first    *)
(* of the deepest, and lists of structs share their fields.                *)
MergedLists(lists) ==
    LET deepest == CHOOSE i \in DOMAIN lists :
                      \A j \in DOMAIN lists : /\ lists[j].list <= lists[i].list
                                              /\ j < i => lists[j].list < lists[i].list
        flat == Keep(lists, {t \in ToSet(lists) : t.list = 1 /\ t.base = "STRUCT"})
        having(name) == CHOOSE i \in DOMAIN flat :
                           /\ name \in DOMAIN flat[i].fields
                           /\ \A j \in 1..(i - 1) : name \notin DOMAIN flat[j].fields
        names == UNION {DOMAIN flat[i].fields : i \in DOMAIN flat}
    IN  IF lists[deepest].list = 1 /\ lists[deepest].base = "STRUCT"
        THEN ListOf(Struct([name \in names |-> flat[having(name)].fields[name]]))
        ELSE lists[deepest]

(* Mutant: VARCHAR, which stands for null as well, wins at one in ten.       *)
MajorityTypeOfAnyText(types) ==
    LET n == Len(types)
        count(id) == Cardinality({i \in DOMAIN types : types[i] = Atomic(id)})
    IN  IF count("VARCHAR") > n \div 10 THEN "VARCHAR" ELSE types[1].base

(* The rest by number, in order of preference.                              *)
MajorityType(types) ==
    LET n == Len(types)
        count(id) == Cardinality({i \in DOMAIN types : types[i] = Atomic(id)})
        preferred == << <<"VARCHAR", count("VARCHAR") > (n * 7) \div 10>>,
                        <<"DOUBLE", count("DOUBLE") > 0 /\ count("DOUBLE") >= (n * 3) \div 10>>,
                        <<"BIGINT", count("BIGINT") > 0 /\ count("BIGINT") >= (n * 3) \div 10>>,
                        <<"BOOLEAN", count("BOOLEAN") >= (n * 7) \div 10>>,
                        <<"TIMESTAMP", count("TIMESTAMP") >= (n * 7) \div 10>>,
                        <<"DOUBLE", count("DOUBLE") > 0>>, <<"BIGINT", count("BIGINT") > 0>>,
                        <<"BOOLEAN", count("BOOLEAN") > 0>>, <<"TIMESTAMP", count("TIMESTAMP") > 0>>,
                        <<"VARCHAR", TRUE>> >>
        first == CHOOSE i \in DOMAIN preferred : preferred[i][2] /\ \A j \in 1..(i - 1) : ~preferred[j][2]
    IN  preferred[first][1]

ResolveTypeConflict(types) ==
    LET lists == Keep(types, {t \in ToSet(types) : t.list > 0})
        structs == Keep(types, {t \in ToSet(types) : t.list = 0 /\ t.base = "STRUCT"})
        same == \A i \in DOMAIN types : types[i] = types[1]
    IN  CASE types = <<>> -> Atomic("VARCHAR")
          [] types # <<>> /\ same -> types[1]
          [] ~same /\ lists # <<>> -> MergedLists(lists)
          [] ~same /\ lists = <<>> /\ structs # <<>> -> structs[1]
          [] OTHER -> Atomic(MajorityType(types))

(* The struct of an array's documents, the first ones only; VARCHAR when one  *)
(* of these is something else or no document has a field.                  *)
InferStructTypeFromArray(elements, position) ==
    LET below == {p \in Below(elements, position) : p[Len(position) + 1] <= MaxScanned}
        names == UNION {DOMAIN elements[p][2] : p \in {q \in below : elements[q][1] = "document"}}
        ofElement(i, name) == InferTypeFromBSON(elements[Append(position, i)][2][name])
        holding(name) == SelectSeq([i \in 1..Cardinality(below) |-> i],
                                   LAMBDA i : name \in DOMAIN elements[Append(position, i)][2])
        types(name) == [k \in DOMAIN holding(name) |-> Atomic(ofElement(holding(name)[k], name))]
    IN  IF names # {} /\ \A p \in below : Len(p) = Len(position) + 1 /\ elements[p][1] = "document"
        THEN Struct([name \in names |-> ResolveTypeConflict(types(name)).base])
        ELSE Atomic("VARCHAR")

(* The first element decides how deep the lists are; when it leads to an     *)
(* empty array, to documents that make no struct, or too deep, VARCHAR takes *)
(* the place of what is below.  The array is within so many documents.     *)
InferArrayType(elements, nesting) ==
    IF DOMAIN elements = {} THEN Atomic("VARCHAR")
    ELSE LET depth == CHOOSE k \in {Len(p) : p \in DOMAIN elements} : Ones(k) \in DOMAIN elements
             first == elements[Ones(depth)]
             struct == InferStructTypeFromArray(elements, Ones(depth - 1))
             levels == MaxDepth + 2 - nesting
             failed == first[1] = "document" /\ (struct.base = "VARCHAR" \/ depth >= levels)
         IN  IF depth > levels THEN [Atomic("VARCHAR") EXCEPT !.list = levels]
             ELSE IF (failed /\ depth <= 2) \/ (first[1] = "empty" /\ depth = 1) THEN Atomic("VARCHAR")
             ELSE IF failed THEN [Atomic("VARCHAR") EXCEPT !.list = depth - 1]
             ELSE IF first[1] = "document" THEN [struct EXCEPT !.list = depth]
             ELSE [Atomic(InferTypeFromBSON(first)) EXCEPT !.list = depth]

-----------------------------------------------------------------------------
(* CollectFieldPaths: the fields of a document and of the documents in it.   *)

PathsOf(d) ==
    LET paths[k \in 1..(MaxDepth + 1)] ==
          IF k = 1 THEN {<<name>> : name \in DOMAIN d}
          ELSE UNION {{Append(p, name) : name \in DOMAIN ElementAt(d, p)[2]} :
                        p \in {q \in paths[k - 1] : ElementAt(d, q)[1] = "document"}}
    IN  UNION {paths[k] : k \in 1..(MaxDepth + 1)}

(* What a field adds to the types of its column: a document that is too      *)
(* deep to be flattened adds its text twice.                               *)
TypesAdded(d, path) ==
    LET field == ElementAt(d, path)
    IN  CASE field[1] = "document" ->
               [k \in 1..(IF Len(path) > MaxDepth THEN 2 ELSE 1) |-> Atomic("VARCHAR")]
          [] field[1] = "array" -> <<InferArrayType(field[2], Len(path) - 1)>>
          [] OTHER -> <<Atomic(InferTypeFromBSON(field))>>

(* Elements have positions, and each first one leads on to an element that is *)
(* no array.                                                               *)
IsArray(elements) ==
    /\ IsFiniteSet(DOMAIN elements)
    /\ DOMAIN elements \subseteq Seq(Nat \ {0}) \ {<<>>}
    /\ DOMAIN elements # {} => \E p \in DOMAIN elements : Ones(Len(p)) \in DOMAIN elements

(* Documents are numbered, PathOrder has every path of a document and of a    *)
(* declared column, and the paths below another come after it.             *)
ASSUME InferenceAssumption ==
    /\ MaxDepth \in Nat /\ MaxScanned \in Nat \ {0}
    /\ MaxArrayDepth \in Nat \ 0..1
    /\ PathOrder \in Seq(Seq(Seq(STRING)) \ {<<>>})
    /\ IdPath \in ToSet(PathOrder)
    /\ \A i, j \in DOMAIN PathOrder : IsStrictPrefix(PathOrder[i], PathOrder[j]) => i < j
    /\ \A in \in Inputs :
          /\ in.source \in Sources /\ in.sampleSize \in Nat \ {0}
          /\ Len(in.docs) \in Nat /\ DOMAIN in.docs = 1..Len(in.docs)
          /\ \A i \in DOMAIN in.docs :
                /\ PathsOf(in.docs[i]) \subseteq ToSet(PathOrder)
                /\ \A p \in ToSet(PathOrder) :
                      LET field == ElementAt(in.docs[i], p)
                      IN  /\ field[1] = "array" => IsArray(field[2])
                          /\ field[1] = "date" => field[2] \in Int
          /\ \A name \in DOMAIN in.declared : /\ in.declared[name].path \in ToSet(PathOrder)
                                              /\ in.declared[name].type.list \in Nat

PathsNamed(d, name) == {p \in PathsOf(d) : Joined(p) = name}
NamesIn(d) == {Joined(p) : p \in PathsOf(d)}
TypesOf(d, name) == FlattenSeq([k \in 1..Cardinality(PathsNamed(d, name)) |->
                                  TypesAdded(d, SetToSeq(PathsNamed(d, name))[k])])

-----------------------------------------------------------------------------
VARIABLES
    input,       (* the collection and what is asked of it                    *)
    stage,
    seen,        (* documents of the sample, in their order                   *)
    attempt,     (* "sample", or "find" after $sample failed                  *)
    fieldTypes,  (* field_types                                               *)
    paths,       (* column_name_to_mongo_path                                 *)
    columns      (* column_names and column_types                             *)

bindVars == <<input, stage, seen, attempt, fieldTypes, paths, columns>>

Docs == DOMAIN input.docs
Update(f, g) == [x \in DOMAIN f \union DOMAIN g |-> IF x \in DOMAIN g THEN g[x] ELSE f[x]]
Explicit == input.source # "inferred"

BindInit ==
    /\ input \in Inputs
    /\ stage = "bind"
    /\ seen = <<>>
    /\ attempt = "sample"
    /\ fieldTypes = <<>>
    /\ paths = <<>>
    /\ columns = <<>>

(* One document; of fields that flatten to one name the last gives the path. *)
CollectFieldPaths(i) ==
    LET d == input.docs[i]
        before(name) == IF name \in DOMAIN fieldTypes THEN fieldTypes[name] ELSE <<>>
    IN  /\ seen' = Append(seen, i)
        /\ fieldTypes' = Update(fieldTypes, [name \in NamesIn(d) |-> before(name) \o TypesOf(d, name)])
        /\ \E last \in [NamesIn(d) -> PathsOf(d)] :
              /\ \A name \in NamesIn(d) : Joined(last[name]) = name
              /\ paths' = Update(paths, last)

(* $sample gives documents in any order, find those MongoDB has first.       *)
SampleDocument ==
    /\ stage = "bind" /\ ~Explicit
    /\ Len(seen) < input.sampleSize
    /\ \E i \in Docs :
          /\ IF attempt = "sample" THEN i \notin ToSet(seen) ELSE i = Len(seen) + 1
          /\ CollectFieldPaths(i)
    /\ UNCHANGED <<input, stage, attempt, columns>>

(* Mutant: the fields collected before $sample failed are kept.              *)
SampleFailsKeeping ==
    /\ stage = "bind" /\ ~Explicit
    /\ attempt = "sample" /\ Len(seen) < input.sampleSize
    /\ attempt' = "find" /\ seen' = <<>>
    /\ UNCHANGED <<input, stage, columns, fieldTypes, paths>>

SampleFails ==
    /\ stage = "bind" /\ ~Explicit
    /\ attempt = "sample" /\ Len(seen) < input.sampleSize
    /\ attempt' = "find" /\ seen' = <<>>
    /\ fieldTypes' = <<>> /\ paths' = <<>>
    /\ UNCHANGED <<input, stage, columns>>

FindFails ==
    /\ stage = "bind" /\ ~Explicit
    /\ attempt = "find" /\ Len(seen) < input.sampleSize
    /\ stage' = "refused"
    /\ UNCHANGED <<input, seen, attempt, fieldTypes, paths, columns>>

(* DuckDB tells column names apart only up to case.                          *)
Lower(name) == [k \in DOMAIN name |-> IF name[k] = "A" THEN "a" ELSE name[k]]

SameColumn(m, n) == Lower(m) = Lower(n)

(* The type of a column, with those of other names merged into it in turn.    *)
MergedType(types, name, others) ==
    LET type[k \in 0..Len(others)] ==
          IF k = 0 THEN ResolveTypeConflict(types[name])
          ELSE ResolveTypeConflict(<<type[k - 1]>> \o types[others[k]])
    IN  type[Len(others)]

(* The columns: "_id" always, and of the names that differ in case whichever *)
(* the map gives first, with the types of the others merged into its own.  *)
InferColumns ==
    /\ stage = "bind" /\ ~Explicit
    /\ Len(seen) = input.sampleSize \/ Len(seen) = Len(input.docs)
    /\ LET types == Update([name \in {IdName} |-> <<Atomic("VARCHAR")>>], fieldTypes)
           names == DOMAIN types
           others(name) == SetToSeq({n \in names \ {name} : SameColumn(n, name)})
       IN  \E chosen \in SUBSET names :
              /\ \A name \in names : \E n \in chosen : {m \in chosen : SameColumn(m, name)} = {n}
              /\ columns' = [name \in chosen |-> MergedType(types, name, others(name))]
    /\ paths' = Update([name \in {IdName} |-> IdPath], paths)
    /\ stage' = "bound"
    /\ UNCHANGED <<input, seen, attempt, fieldTypes>>

-----------------------------------------------------------------------------
(* Declared columns: a type and a path; "invalid" for an entry that gives no  *)
(* type, "unreadable" for one whose type DuckDB cannot parse.  "_id" is      *)
(* added.                                                                  *)

Declared(names) ==
    /\ columns' = Update([name \in {IdName} |-> Atomic("VARCHAR")], [name \in names |-> input.declared[name].type])
    /\ paths' = Update([name \in {IdName} |-> IdPath], [name \in names |-> input.declared[name].path])
Typed(base) == {name \in DOMAIN input.declared : input.declared[name].type.base = base}
Valid == DOMAIN input.declared \ (Typed("invalid") \union Typed("unreadable"))

ParseSchemaFromColumnsParameter ==
    /\ stage = "bind" /\ input.source = "columns"
    /\ Valid = DOMAIN input.declared
    /\ Declared(Valid)
    /\ stage' = "bound"
    /\ UNCHANGED <<input, seen, attempt, fieldTypes>>

RefuseColumnsParameter ==
    /\ stage = "bind" /\ input.source = "columns"
    /\ Valid # DOMAIN input.declared
    /\ stage' = "refused"
    /\ UNCHANGED <<input, seen, attempt, fieldTypes, paths, columns>>

(* Invalid entries of a __schema document are passed over, and so are those  *)
(* of its own fields; an unreadable one raises an error.                   *)
OwnFields == {IdName, <<"schema">>}

ParseSchemaFromAtlasDocument ==
    /\ stage = "bind" /\ input.source = "__schema"
    /\ Typed("unreadable") \subseteq OwnFields
    /\ Declared(Valid \ OwnFields)
    /\ stage' = "bound"
    /\ UNCHANGED <<input, seen, attempt, fieldTypes>>

RefuseSchemaDocument ==
    /\ stage = "bind" /\ input.source = "__schema"
    /\ ~(Typed("unreadable") \subseteq OwnFields)
    /\ stage' = "refused"
    /\ UNCHANGED <<input, seen, attempt, fieldTypes, paths, columns>>

-----------------------------------------------------------------------------
(* Inferred columns stand for the fields of the documents sampled last: no   *)
(* two names that DuckDB takes for one, no field without a column, and      *)
(* none, nor a path, left from a $sample that failed half-way.              *)
ColumnsNameSample ==
    stage \notin {"bind", "refused"} /\ ~Explicit =>
       LET sampled == {IdName} \union UNION {NamesIn(input.docs[i]) : i \in ToSet(seen)}
       IN  /\ {Lower(name) : name \in DOMAIN columns} = {Lower(name) : name \in sampled}
           /\ \A m, n \in DOMAIN columns : Lower(m) = Lower(n) => m = n
           /\ \A name \in DOMAIN columns \ {IdName} :
                 \E i \in ToSet(seen) : paths[name] \in PathsNamed(input.docs[i], name)

=============================================================================
