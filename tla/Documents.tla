----------------------------- MODULE Documents -----------------------------
(***************************************************************************)
(* Documents, the paths of their fields, and how the scan finds a field.   *)
(* Sources: mongo_schema_inference.cpp, mongo_table_function.cpp.          *)
(*                                                                         *)
(* A name is the sequence of its parts between underscores, so that the    *)
(* name of a flattened column is the concatenation of names; "_id" is      *)
(* <<"", "id">>.  A path is a sequence of names.  A document is a function *)
(* from names to fields.  A field is a pair as in MongoValues, or           *)
(* <<"document", d>>, or <<"array", elements>>, where elements maps the     *)
(* position of each element that is not an array, <<i>> or <<i, j>> and so *)
(* on, to that element; <<"empty", 0>> stands at the position of an inner   *)
(* array without elements.                                                 *)
(***************************************************************************)
EXTENDS MongoValues, SequencesExt, FiniteSets

CONSTANTS
    MaxArrayDepth    (* levels of an array that are counted (in the code 10)   *)

IdName == <<"", "id">>
IdPath == <<IdName>>
Joined(path) == FlattenSeq(path)
Parts(name) == [k \in DOMAIN name |-> <<name[k]>>]

FieldOf(d, name) == IF name \in DOMAIN d THEN d[name] ELSE Missing

(* Where a path leads: fields on the way must be documents.                 *)
ElementAt(d, path) ==
    LET at[k \in 0..Len(path)] ==
          IF k = 0 THEN <<"document", d>>
          ELSE IF at[k - 1][1] = "document" THEN FieldOf(at[k - 1][2], path[k])
          ELSE Missing
    IN  at[Len(path)]

-----------------------------------------------------------------------------
(* The projection asked of MongoDB.                                         *)

(* BuildMongoProjection collapses paths below others.  They come sorted as   *)
(* strings, in the order given, and each is compared with the last one kept *)
(* only; there is none at first.                                            *)
BuildMongoProjection(paths, order) ==
    LET lastKept[n \in 0..Len(order)] ==
          CASE n = 0 -> <<>>
            [] n > 0 /\ order[n] \in paths
                 /\ (lastKept[n - 1] = <<>> \/ ~IsStrictPrefix(lastKept[n - 1], order[n])) -> order[n]
            [] OTHER -> lastKept[n - 1]
    IN  ({lastKept[n] : n \in 0..Len(order)} \ {<<>>}) \union {IdPath}

(* MongoDB refuses a projection with a path below another.                   *)
Collides(projection) == \E p, q \in projection : IsStrictPrefix(p, q)

(* The array MongoDB sends under a projection of fields below it: elements    *)
(* that are no documents and no arrays are left out, the others move up,    *)
(* and documents keep the fields named.  Bound: each of these whole.        *)
ProjectedArray(elements, names) ==
    LET inner == UNION {{SubSeq(p, 1, n) : n \in 1..(Len(p) - 1)} : p \in DOMAIN elements}
        kept == {p \in DOMAIN elements : elements[p][1] \in {"document", "empty"}}
        nodes == kept \union inner
        leaves == {p \in nodes : \A q \in nodes : ~IsStrictPrefix(p, q)}
        moved(p) == [k \in DOMAIN p |-> Cardinality({i \in 1..p[k] : Append(SubSeq(p, 1, k - 1), i) \in nodes})]
        sent(p) == IF p \in kept /\ elements[p][1] = "document"
                   THEN <<"document", [n \in names \intersect DOMAIN elements[p][2] |-> elements[p][2][n]]>>
                   ELSE <<"empty", 0>>
    IN  [q \in {moved(p) : p \in leaves} |-> sent(CHOOSE p \in leaves : moved(p) = q)]

(* The field at a path of a document as MongoDB sends it under a projection:  *)
(* of a field on the way of projected paths only what is below, and nothing *)
(* of one that has nothing below.  Bound: a document's fields next on the   *)
(* way whole.                                                              *)
Sent(d, projection, path) ==
    LET field == ElementAt(d, path)
        below == {p[Len(path) + 1] : p \in {q \in projection : IsStrictPrefix(path, q)}}
    IN  IF \E p \in projection : IsPrefix(p, path) THEN field
        ELSE IF below # {} /\ field[1] = "document"
             THEN <<"document", [n \in below \intersect DOMAIN field[2] |-> field[2][n]]>>
        ELSE IF below # {} /\ field[1] = "array" THEN <<"array", ProjectedArray(field[2], below)>>
        ELSE Missing

-----------------------------------------------------------------------------
(* How the scan finds the field of a column.                                *)

(* FlattenDocument: the path; when there is no field of a path of one name, *)
(* the column's name split at its underscores.                              *)
FlattenedElement(d, projection, name, path) ==
    LET field == Sent(d, projection, path)
    IN  IF Len(path) = 1 /\ field = Missing THEN Sent(d, projection, Parts(name)) ELSE field

(* ValidateDocumentSchema: a field on the way that is no document does not   *)
(* end the search, the next name is looked for beside it.                  *)
ValidatedElement(d, projection, path) ==
    LET step[k \in 0..Len(path)] ==
          IF k = 0 THEN [field |-> <<"document", d>>, below |-> <<>>]
          ELSE IF step[k - 1].field = Missing THEN step[k - 1]
          ELSE LET here == Append(step[k - 1].below, path[k])
                   field == Sent(d, projection, here)
               IN  [field |-> field, below |-> IF field[1] = "document" THEN here ELSE step[k - 1].below]
    IN  step[Len(path)].field

-----------------------------------------------------------------------------
(* Array elements.                                                          *)

Ones(n) == [k \in 1..n |-> 1]
Take(position, n) == SubSeq(position, 1, n)

(* The array elements below a position, and their number of levels           *)
(* (GetBSONArrayDepth), of which no more than MaxArrayDepth are counted.    *)
Below(elements, position) == {p \in DOMAIN elements : IsStrictPrefix(position, p)}
GetBSONArrayDepth(elements, position) ==
    LET levels == {Len(p) - Len(position) : p \in Below(elements, position)}
        deepest == CHOOSE n \in levels : \A m \in levels : m <= n
    IN  IF levels = {} THEN 0 ELSE IF deepest > MaxArrayDepth THEN MaxArrayDepth ELSE deepest

=============================================================================
