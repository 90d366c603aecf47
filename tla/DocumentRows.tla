---------------------------- MODULE DocumentRows ----------------------------
(***************************************************************************)
(* From the documents of a collection to the rows of a scan: the schema is  *)
(* found, columns are requested, documents come under a projection, are    *)
(* validated and flattened into a chunk, slot by slot, and the chunk is    *)
(* handed to DuckDB.                                                       *)
(* Sources: mongo_schema_inference.cpp, mongo_schema_inference_helpers.cpp *)
(* and the loop of MongoScanFunction.                                      *)
(***************************************************************************)
EXTENDS SchemaInference

CONSTANTS
    ChunkSize    (* rows of a chunk (STANDARD_VECTOR_SIZE, 2048)              *)

Modes == {"permissive", "dropmalformed", "failfast"}
ASSUME RowsAssumption ==
    /\ ChunkSize \in Nat \ {0}
    /\ \A in \in Inputs : in.mode \in Modes

VARIABLES
    select,      (* the columns of the output, in order                       *)
    projection,  (* the paths MongoDB is asked for                            *)
    next,        (* the document the cursor is at                             *)
    chunk,       (* the documents of the rows in the chunk                    *)
    cells,       (* the chunk: what each slot holds, and whether it is valid  *)
    delivered    (* rows DuckDB got: document and cells                       *)

rowVars == <<select, projection, next, chunk, cells, delivered>>
vars == <<bindVars, rowVars>>

Garbage == <<"garbage", 0>>
Enforced == Explicit /\ input.mode # "permissive"

Init ==
    /\ BindInit
    /\ select = <<>>
    /\ projection = {}
    /\ next = 1
    /\ chunk = <<>>
    /\ cells = <<>>
    /\ delivered = <<>>

Bind ==
    /\ \/ SampleDocument \/ SampleFails \/ FindFails \/ InferColumns
       \/ ParseSchemaFromColumnsParameter \/ RefuseColumnsParameter
       \/ ParseSchemaFromAtlasDocument \/ RefuseSchemaDocument
    /\ UNCHANGED rowVars

-----------------------------------------------------------------------------
(* Opening the scan.  Where a schema is enforced, all its columns are asked  *)
(* for, behind those of the output.                                        *)

(* Bound: the output has one or two columns, or all of them.                 *)
Selections ==
    LET C == DOMAIN columns
    IN  {<<c>> : c \in C} \union {<<c, d>> : c, d \in C} \union {SetToSeq(C)}

MongoScanInitLocal ==
    /\ stage = "bound"
    /\ select' \in {s \in Selections : s \in Seq(DOMAIN columns) /\ IsInjective(s)}
    /\ projection' = BuildMongoProjection({paths[c] : c \in IF Enforced THEN DOMAIN columns ELSE ToSet(select')}, PathOrder)
    /\ cells' = [slot \in 1..ChunkSize |-> [k \in DOMAIN select' |-> [value |-> Garbage, valid |-> TRUE]]]
    /\ stage' = IF Collides(projection') THEN "refused" ELSE "scan"
    /\ UNCHANGED <<input, seen, attempt, fieldTypes, paths, columns, next, chunk, delivered>>

-----------------------------------------------------------------------------
(* ValidateDocumentSchema: every column of the schema, lists and structs     *)
(* left out.                                                               *)

Scalar(type) == type.list = 0 /\ type.base # "STRUCT"

(* Mutant: the columns of the output only.                                  *)
ValidateOutputOnly(d) ==
    \A c \in ToSet(select) : Scalar(columns[c]) =>
       LET class == ValidatedElement(d, projection, paths[c])[1]
       IN  class \in {"missing", "null", "undefined"} \/ IsBSONTypeCompatible(class, columns[c].base)

ValidateDocumentSchema(d) ==
    \A c \in DOMAIN columns : Scalar(columns[c]) =>
       LET class == ValidatedElement(d, projection, paths[c])[1]
       IN  class \in {"missing", "null", "undefined"} \/ IsBSONTypeCompatible(class, columns[c].base)

-----------------------------------------------------------------------------
(* Arrays as lists (BSONArrayToList).                                       *)

(* The elements a list takes, as DuckDB casts them to its type: doubles are    *)
(* rounded to even integers.  Anything else, dates and ObjectIds included,  *)
(* is NULL in it.                                                          *)
Numeric == {"BIGINT", "HUGEINT", "INTEGER", "DOUBLE"}
ElementAs(element, base) ==
    LET class == element[1]
        n == element[2]
    IN  CASE class \in {"number", "digits", "bool"} /\ base \in Numeric -> <<"number", n>>
          [] class = "double" /\ base \in Numeric -> (IF base = "DOUBLE" THEN element ELSE <<"number", n + (n % 2)>>)
          [] class \in {"number", "bool"} /\ base = "BOOLEAN" -> <<"bool", IF n = 0 THEN 0 ELSE 1>>
          [] class = "double" /\ base = "BOOLEAN" -> <<"bool", 1>>
          [] class = "digits" /\ base = "BOOLEAN" /\ n \in {0, 1} -> <<"bool", n>>
          [] class \in StringClasses /\ base = "BLOB" -> element
          [] class \in StringClasses \union {"number", "double", "bool"} /\ base = "VARCHAR" -> Converted("VARCHAR", element)
          [] OTHER -> Null

(* A field of a document within a list or struct: what is mistyped becomes 0,  *)
(* false or the epoch, and text of what is not a string, an ObjectId, an    *)
(* array or a document is unknown.                                         *)
BSONElementToValue(field, base) ==
    LET fits(classes, default) == IF field[1] \in classes THEN Converted(base, field) ELSE default
    IN  CASE field[1] \in {"missing", "null"} -> Null
          [] field[1] \notin {"missing", "null"} /\ base = "VARCHAR" ->
               fits(StringClasses \union {"oid", "document", "array"}, <<"unknown", 0>>)
          [] field[1] \notin {"missing", "null"} /\ base \in {"BIGINT", "DOUBLE"} -> fits({"number", "double"}, <<"number", 0>>)
          [] field[1] \notin {"missing", "null"} /\ base = "BOOLEAN" -> fits({"bool"}, <<"bool", 0>>)
          [] field[1] \notin {"missing", "null"} /\ base \in {"DATE", "TIMESTAMP"} -> fits({"date"}, <<"date", 0>>)
          [] OTHER -> Null

BSONDocumentToStruct(d, fields) ==
    <<"struct", [name \in DOMAIN fields |-> BSONElementToValue(FieldOf(d, name), fields[name])]>>

(* Mutant: the elements of arrays in a shallow array are not wrapped.          *)
WrappingOuter(position, level, levels) ==
    SubSeq(position, 1, level + 1) \o
    IF Len(position) = level + 1 THEN Ones(levels) ELSE <<position[level + 2]>>

(* Where an element of a too shallow array goes: that many levels below its    *)
(* index, or, with the array it is in, below the index of that.             *)
Wrapping(position, level, levels) ==
    SubSeq(position, 1, level + 1) \o Ones(levels) \o
    IF Len(position) = level + 1 THEN <<>> ELSE <<position[level + 2]>>

(* What becomes of an element of a too shallow array: nulls, and what cannot  *)
(* be cast, are not wrapped; arrays below those in it are NULL.              *)
Wrapped(elements, p, level, type) ==
    LET outer == Len(p) = level + 1
        class == elements[p][1]
        value == IF Len(p) > level + 2 THEN Null ELSE ElementAs(elements[p], type.base)
        uncast == class = "null" \/ (class \in StringClasses \union {"number", "double", "bool"} /\ value = Null)
        levels == type.list - level - GetBSONArrayDepth(elements, Take(p, level))
    IN  IF outer /\ uncast THEN <<p, Null>>
        ELSE <<Wrapping(p, level, levels), IF outer /\ class = "empty" THEN elements[p] ELSE value>>

(* The wrapped elements are cast to the type: a value must be as deep as it,   *)
(* an empty array less deep (bound: also where the type is VARCHAR).         *)
Castable(wrapped, type) ==
    \/ wrapped[2] = Null
    \/ wrapped[2][1] = "empty" /\ Len(wrapped[1]) < type.list
    \/ wrapped[2][1] # "empty" /\ Len(wrapped[1]) = type.list

(* What becomes of the element at p: the position and the value it has in    *)
(* the list.  At each level the array is compared with the type: the         *)
(* elements of one that is too shallow are wrapped, and it is NULL when one  *)
(* of them cannot be cast; one that is too deep leaves NULLs.               *)
Placed(elements, p, type) ==
    LET element == elements[p]
        shallow == {k \in 0..(Len(p) - 1) : k < type.list /\ GetBSONArrayDepth(elements, Take(p, k)) < type.list - k}
        level == CHOOSE k \in shallow : \A j \in shallow : k <= j
        array == Take(p, level)
    IN  CASE shallow = {} /\ Len(p) = type.list ->
               <<p, IF element[1] = "document" /\ type.base = "STRUCT" THEN BSONDocumentToStruct(element[2], type.fields)
                    ELSE ElementAs(element, type.base)>>
          [] shallow = {} /\ Len(p) < type.list -> <<p, IF element[1] = "empty" THEN element ELSE Null>>
          [] shallow = {} /\ Len(p) > type.list -> <<Take(p, type.list), Null>>
          [] OTHER -> (IF \A q \in Below(elements, array) : Castable(Wrapped(elements, q, level, type), type)
                       THEN Wrapped(elements, p, level, type)
                       ELSE <<array, Null>>)

(* A list as its elements' values at their positions, or NULL.               *)
BSONArrayToList(elements, type) ==
    LET placed == {Placed(elements, p, type) : p \in DOMAIN elements}
        at(position) == CHOOSE value \in {x[2] : x \in placed} : <<position, value>> \in placed
    IN  IF \E x \in placed : x[1] = <<>> THEN Null
        ELSE <<"list", [position \in {x[1] : x \in placed} |-> at(position)]>>

-----------------------------------------------------------------------------
(* FlattenDocument.                                                         *)

Element(d, c) == FlattenedElement(d, projection, c, paths[c])

(* A list is looked for under the column's name first; no array is an empty   *)
(* list.  A struct is looked for likewise; no document is NULL.             *)
Nested(d, c, class) ==
    LET direct == Sent(d, projection, <<c>>)
    IN  IF direct[1] = class THEN direct ELSE Sent(d, projection, paths[c])
ListValue(d, c) ==
    LET field == Nested(d, c, "array")
    IN  IF field[1] # "array" \/ DOMAIN field[2] = {} THEN <<"list", <<>>>> ELSE BSONArrayToList(field[2], columns[c])
StructValue(d, c) ==
    LET field == Nested(d, c, "document")
    IN  IF field[1] = "document" THEN BSONDocumentToStruct(field[2], columns[c].fields) ELSE Null

Violates(d, c) ==
    LET class == Element(d, c)[1]
    IN  /\ Scalar(columns[c]) /\ class \notin {"missing", "null"}
        /\ columns[c].base \in {"VARCHAR", "BIGINT", "HUGEINT", "DOUBLE", "BOOLEAN", "DATE", "TIMESTAMP"}
        /\ ~IsBSONTypeCompatible(class, columns[c].base)

(* Mutant: a field that does not fit leaves the cell as it is.               *)
CellAfterKeeping(cell, d, c) ==
    LET null == [value |-> cell.value, valid |-> FALSE]
        set(value) == IF value = Null THEN null ELSE [value |-> value, valid |-> TRUE]
    IN  CASE columns[c].list > 0 -> set(ListValue(d, c))
          [] columns[c].list = 0 /\ columns[c].base = "STRUCT" -> set(StructValue(d, c))
          [] Violates(d, c) -> cell
          [] OTHER -> LET value == Read(columns[c].base, Element(d, c))
                      IN  IF value = Null THEN null ELSE [value |-> value, valid |-> cell.valid]

(* handleSchemaViolation outside the strict modes: a declared column is       *)
(* NULL, an inferred one is left as it is.                                  *)
CellAfter(cell, d, c) ==
    LET null == [value |-> cell.value, valid |-> FALSE]
        set(value) == IF value = Null THEN null ELSE [value |-> value, valid |-> TRUE]
    IN  CASE columns[c].list > 0 -> set(ListValue(d, c))
          [] columns[c].list = 0 /\ columns[c].base = "STRUCT" -> set(StructValue(d, c))
          [] Violates(d, c) -> (IF Explicit THEN null ELSE cell)
          [] OTHER -> LET value == Read(columns[c].base, Element(d, c))
                      IN  IF value = Null THEN null ELSE [value |-> value, valid |-> cell.valid]

(* The first column that ends the flattening of a document in a strict mode. *)
StopsAt(d) ==
    LET bad == {k \in DOMAIN select : Enforced /\ Violates(d, select[k])}
    IN  IF bad = {} THEN Len(select) + 1 ELSE CHOOSE k \in bad : \A j \in bad : k <= j

(* The slot after the columns before that one are written.                   *)
SlotAfter(slot, d) ==
    [k \in DOMAIN select |-> IF k < StopsAt(d) THEN CellAfter(slot[k], d, select[k]) ELSE slot[k]]
Complete(d) == StopsAt(d) > Len(select)

-----------------------------------------------------------------------------
(* MongoScanFunction.                                                       *)

AtDocument == stage = "scan" /\ Len(chunk) < ChunkSize /\ next <= Len(input.docs)

(* A document that is not valid leaves no row; its slot is used again.        *)
FlattenDocument ==
    /\ AtDocument
    /\ LET d == input.docs[next]
           valid == Enforced => ValidateDocumentSchema(d)
       IN  /\ Explicit /\ input.mode = "failfast" => valid /\ Complete(d)
           /\ cells' = IF valid THEN [cells EXCEPT ![Len(chunk) + 1] = SlotAfter(@, d)] ELSE cells
           /\ chunk' = IF valid /\ Complete(d) THEN Append(chunk, next) ELSE chunk
    /\ next' = next + 1
    /\ UNCHANGED <<bindVars, select, projection, delivered>>

RaiseViolation ==
    /\ AtDocument
    /\ Explicit /\ input.mode = "failfast"
    /\ ~ValidateDocumentSchema(input.docs[next]) \/ ~Complete(input.docs[next])
    /\ stage' = "failed"
    /\ UNCHANGED <<input, seen, attempt, fieldTypes, paths, columns, rowVars>>

(* A chunk is full or the last: DuckDB reads it, and resets what is valid     *)
(* but not the values before the next one.                                 *)
Shown(slot) == [k \in DOMAIN select |-> IF slot[k].valid THEN slot[k].value ELSE Null]
Reset == [slot \in DOMAIN cells |-> [k \in DOMAIN select |-> [value |-> cells[slot][k].value, valid |-> TRUE]]]

(* Mutant: the rows of a chunk are handed over again with the next one.      *)
EndChunkKeeping ==
    /\ stage = "scan"
    /\ Len(chunk) = ChunkSize \/ next > Len(input.docs)
    /\ delivered' = delivered \o [r \in DOMAIN chunk |-> [doc |-> chunk[r], shown |-> Shown(cells[r])]]
    /\ cells' = Reset
    /\ chunk' = IF next > Len(input.docs) THEN <<>> ELSE SubSeq(chunk, 2, Len(chunk))
    /\ stage' = IF next > Len(input.docs) THEN "done" ELSE "scan"
    /\ UNCHANGED <<input, seen, attempt, fieldTypes, paths, columns, select, projection, next>>

EndChunk ==
    /\ stage = "scan"
    /\ Len(chunk) = ChunkSize \/ next > Len(input.docs)
    /\ delivered' = delivered \o [r \in DOMAIN chunk |-> [doc |-> chunk[r], shown |-> Shown(cells[r])]]
    /\ cells' = Reset
    /\ chunk' = <<>>
    /\ stage' = IF next > Len(input.docs) THEN "done" ELSE "scan"
    /\ UNCHANGED <<input, seen, attempt, fieldTypes, paths, columns, select, projection, next>>

Next == Bind \/ MongoScanInitLocal \/ FlattenDocument \/ RaiseViolation \/ EndChunk

Spec == Init /\ [][Next]_vars

-----------------------------------------------------------------------------
(* Rows are in the order of their documents, none twice: a type invariant.   *)
TypeOK ==
    /\ stage \in {"bind", "bound", "scan", "done", "failed", "refused"}
    /\ attempt \in {"sample", "find"}
    /\ Len(chunk) <= ChunkSize
    /\ next \in 1..(Len(input.docs) + 1)
    /\ LET docs == [r \in DOMAIN delivered |-> delivered[r].doc] \o chunk
       IN  /\ \A r \in DOMAIN docs : docs[r] \in 1..(next - 1)
           /\ \A r, s \in DOMAIN docs : r < s => docs[r] < docs[s]

(* The validation, the flattening and the path of a column agree on the field *)
(* a document has for it.  They need not when an array, or a field that is   *)
(* sent for another column, is on the way of a path, when a field is found   *)
(* by the parts of a name, and for "undefined".                             *)
ReadAlike(d) ==
    \A c \in DOMAIN columns : Scalar(columns[c]) =>
       LET field == ElementAt(d, paths[c])
       IN  ValidatedElement(d, projection, paths[c]) = field /\ Element(d, c) = field /\ field[1] # "undefined"
AllReadAlike == \A i \in Docs : ReadAlike(input.docs[i])

(* A delivered cell shows the field its own document has at the column's path, *)
(* or NULL if it has none that fits: never the value of another row, of an   *)
(* earlier chunk or of a document dropped from the slot.  But for: what was  *)
(* sent of a field found by the parts of the column's name, an inferred      *)
(* column whose field has another type (the cell is not written at all), and *)
(* slots that keep a NULL of a dropped document that was read in two ways.   *)
RowsAreTheirDocuments ==
    \A r \in DOMAIN delivered : \A k \in DOMAIN select :
       LET c == select[k]
           d == input.docs[delivered[r].doc]
           field == ElementAt(d, paths[c])
           shown == delivered[r].shown[k]
       IN  Scalar(columns[c]) =>
              \/ shown = Read(columns[c].base, field)
              \/ field = Missing /\ shown = Read(columns[c].base, Sent(d, projection, Parts(c)))
              \/ ~Explicit /\ Violates(d, c)
              \/ shown = Null /\ input.mode = "dropmalformed" /\ ~AllReadAlike

(* What a schema mode promises, whichever columns are selected: permissive    *)
(* and inferred schemas give every document, dropmalformed those whose every *)
(* declared column fits, failfast all or an error at the first misfit.       *)
Conforms(d) ==
    \A c \in DOMAIN columns : Scalar(columns[c]) =>
       LET class == ElementAt(d, paths[c])[1]
       IN  class \in {"missing", "null"} \/ IsBSONTypeCompatible(class, columns[c].base)
Rows == [r \in DOMAIN delivered |-> delivered[r].doc]
ModeHonoured ==
    AllReadAlike =>
       /\ stage = "done" => Rows = Keep([i \in Docs |-> i], {i \in Docs : Enforced => Conforms(input.docs[i])})
       /\ stage = "done" /\ Explicit /\ input.mode = "failfast" => \A i \in Docs : Conforms(input.docs[i])
       /\ stage = "failed" => input.mode = "failfast" /\ ~Conforms(input.docs[next])

(* Fields that are there, and values that one type can stand for.             *)
HasValue(field) == field[1] \notin {"missing", "null"}
OneKind(values) ==
    \/ \A v \in values : v[1] \in {"number", "double"}
    \/ \A v, w \in values : v[1] = w[1] /\ v[1] # "binary"

(* When the whole collection was sampled and the values of a field are of one  *)
(* kind, nulls aside, its inferred column shows each of them in full: through *)
(* the choice of a type, the merge of names, the path kept for a name and    *)
(* the projection nothing is cut or lost.  But for fields that share a        *)
(* column, binary data, doubles among many integers (less than three in     *)
(* ten), which are cut to integers, and dates less than a second from a      *)
(* midnight, which may be cut to the day.                                  *)
SampleShown ==
    stage = "done" /\ ~Explicit /\ ToSet(seen) = Docs =>
       \A r \in DOMAIN delivered : \A k \in DOMAIN select :
          LET c == select[k]
              field(i) == ElementAt(input.docs[i], paths[c])
              own == field(delivered[r].doc)
              shown == delivered[r].shown[k]
              shared == \E i \in Docs : \E p \in PathsOf(input.docs[i]) : Lower(Joined(p)) = Lower(c) /\ p # paths[c]
              doubles == Cardinality({i \in Docs : field(i)[1] = "double"})
          IN  /\ Scalar(columns[c]) /\ HasValue(own) /\ ~shared
              /\ OneKind({field(i) : i \in {j \in Docs : HasValue(field(j))}})
              /\ doubles = 0 \/ 10 * doubles >= 3 * Len(input.docs)
              => /\ shown # Null
                 /\ shown[1] = "number" => own[1] = "number"
                 /\ shown[1] = "date" =>
                       \/ shown[2] = 2 * own[2]
                       \/ /\ \E midnight \in {DayMs * (own[2] \div DayMs), DayMs * (own[2] \div DayMs) + DayMs} :
                                own[2] - midnight \in (1 - SecondMs)..(SecondMs - 1)
                          /\ shown[2] = 2 * DayMs * (own[2] \div DayMs)

(* A list shows each element of an array, in order and as deep as the type,    *)
(* also when other arrays of the column are deeper: for arrays of one or two *)
(* levels, or of the type's depth as far as levels are counted, whose        *)
(* elements a list takes.  But for a column called like an array that         *)
(* another column is read from or below: a list is looked for there first.   *)
ListsShown ==
    \A r \in DOMAIN delivered : \A k \in DOMAIN select :
       LET c == select[k]
           d == input.docs[delivered[r].doc]
           type == columns[c]
           field == ElementAt(d, paths[c])
           shown == delivered[r].shown[k]
           namesake == /\ ElementAt(d, <<c>>)[1] = "array" /\ paths[c] # <<c>>
                       /\ \E p \in {IdPath} \union {paths[m] : m \in DOMAIN columns} : IsPrefix(<<c>>, p)
       IN  /\ type.list > 0 /\ field[1] = "array" /\ ~namesake
           /\ \E level \in {1, 2, type.list} :
                 /\ level <= type.list /\ level <= MaxArrayDepth
                 /\ \A p \in DOMAIN field[2] : Len(p) = level
           /\ \A p \in DOMAIN field[2] : ElementAs(field[2][p], type.base) # Null
           => /\ shown[1] = "list"
              /\ Cardinality(DOMAIN shown[2]) = Cardinality(DOMAIN field[2])
              /\ \A p \in DOMAIN field[2] : \E q \in DOMAIN shown[2] :
                    /\ Len(q) = type.list /\ Head(q) = Head(p) /\ (Len(p) > 1 => Last(q) = Last(p))
                    /\ shown[2][q] = ElementAs(field[2][p], type.base)

=============================================================================
