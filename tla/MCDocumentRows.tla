--------------------------- MODULE MCDocumentRows ---------------------------
(***************************************************************************)
(* Small collections for DocumentRows, with inferred and declared columns.  *)
(***************************************************************************)
EXTENDS DocumentRows

a == <<"a">>
A == <<"A">>
b == <<"b">>
ab == <<"a", "b">>
dash == <<"a-b">>
MCPathOrder == << <<A>>, IdPath, <<a>>, <<dash>>, <<a, b>>, <<ab>>, <<b>>, <<<<"schema">>>> >>

Of(class, n) == <<class, n>>
N(i) == Of("number", i)
Sub(field) == <<"document", (b :> field)>>
Array(elements) == <<"array", elements>>

(* A document from its fields, absent ones left out; number i of a collection *)
(* holds the number i wherever it holds one.                               *)
Document(i, fields) ==
    LET present == {n \in DOMAIN fields : fields[n] # Missing}
    IN  [n \in present \union {IdName} |-> IF n = IdName THEN <<"oid", i>> ELSE fields[n]]

Inferred(docs, size) ==
    [docs |-> docs, sampleSize |-> size, source |-> "inferred", declared |-> <<>>, mode |-> "permissive"]
DeclaredAs(docs, source, declared, mode) ==
    [docs |-> docs, sampleSize |-> 1, source |-> source, declared |-> declared, mode |-> mode]

(* One field, of any two kinds.                                             *)
Kinds(i) ==
    {Missing, Null, Of("number", i), Of("double", i), Of("decimal", i), Of("date", i - 2),
     Of("date", i), Of("date", 4 * i), Of("string", i), Of("bool", i % 2), Of("binary", i), Of("undefined", 0), Of("oid", i),
     Sub(Of("number", i)), Sub(Sub(Of("number", i)))}
OneField ==
    {Inferred(<<Document(1, (a :> x)), Document(2, (a :> y))>>, size) : x \in Kinds(1), y \in Kinds(2), size \in 1..2}
ThreeDocuments ==
    {Inferred(<<Document(1, (a :> x)), Document(2, (a :> y)), Document(3, (a :> z))>>, 3) :
       x \in {Null, Of("number", 1), Of("date", 2)}, y \in {Null, Of("double", 2), Of("date", 4), Of("string", 2)},
       z \in {Null, Of("number", 3), Of("date", 6)}}

(* Names that differ in case, flatten to one, or sort between a path and those *)
(* below it.                                                               *)
Shared(i) ==
    {(n :> Of("number", i)) : n \in {a, A, ab, dash}}
      \union {(a :> Sub(Of(class, i))) : class \in {"number", "string"}}
      \union {(a :> Sub(Of("number", i))) @@ (n :> Of("string", i)) : n \in {A, ab, dash}}
SharedNames ==
    {Inferred(<<Document(1, x), Document(2, y)>>, 2) : x \in Shared(1), y \in Shared(2)}
      \union {Inferred(<<Document(1, (a :> N(1))), Document(2, x), Document(3, (b :> N(3)))>>, 2) : x \in Shared(2)}

(* Arrays of several depths.                                                *)
Arrays(i) ==
    {Array(<<>>), Array(<<1>> :> N(i)), Array((<<1>> :> N(i)) @@ (<<2>> :> N(i + 1))), Array(<<1>> :> Null),
     Array((<<1, 1>> :> N(i)) @@ (<<2, 1>> :> N(i + 1)) @@ (<<2, 2>> :> N(i))), Array(<<1, 1, 1>> :> N(i)),
     Array((<<1, 1, 1>> :> N(i)) @@ (<<2, 1>> :> N(i + 1))), Array(<<1, 1, 1, 1>> :> N(i)),
     Array(<<1>> :> Of("empty", 0)), Array((<<1, 1>> :> Of("empty", 0)) @@ (<<2>> :> Of("empty", 0))),
     Array((<<1>> :> N(i)) @@ (<<2, 1>> :> N(i))), Array(<<1>> :> Of("date", i)),
     Array((<<1>> :> Of("double", i)) @@ (<<2>> :> Of("bool", i % 2)) @@ (<<3>> :> Of("date", i))),
     Array(<<1>> :> Of("document", (b :> N(i)))),
     Array([p \in {<<n>> : n \in 1..3} |-> IF p = <<3>> THEN N(i) ELSE Of("document", (b :> N(i)))]),
     Array(<<1>> :> Of("document", (b :> Of("string", i)) @@ (a :> Null))),
     Array(<<1, 1, 1>> :> Of("document", <<>>)), Null, N(i)}
SharedArrays == {Inferred(<<Document(1, (a :> x)), Document(2, (a :> y))>>, 2) : x \in Arrays(1), y \in Arrays(2)}

(* Declared columns, over three documents: more than a chunk.                *)
Column(type, path) == [type |-> type, path |-> path]
DeclaredA == {Column(Atomic(id), <<a>>) : id \in {"BIGINT", "INTEGER", "VARCHAR", "invalid", "unreadable"}}
DeclaredB == {Column(Atomic("BIGINT"), <<ab>>), Column(Atomic("BIGINT"), <<a, b>>), Column(Struct(b :> "BIGINT"), <<a>>)}
Entries(i) ==
    {(a :> N(i)) @@ (b :> N(i)), (a :> Of("string", i)), (b :> Of("string", i)), (a :> Sub(N(i))),
     (a :> Sub(Of("string", i))) @@ (b :> Null), (a :> Of("undefined", 0)), (ab :> Of("undefined", 0))}
DeclaredColumns ==
    {DeclaredAs(<<Document(1, x), Document(2, y), Document(3, z)>>, "columns", (a :> c) @@ (ab :> d), mode) :
       x \in Entries(1), y \in Entries(2), z \in {(a :> N(3)), (ab :> Of("string", 3))}, c \in DeclaredA, d \in DeclaredB, mode \in Modes}
(* The __schema document is one of the documents scanned.                   *)
SchemaDocuments ==
    {DeclaredAs(<<Document(1, (a :> Of("string", 9))), Document(2, y)>>, "__schema",
                (a :> c) @@ (<<"schema">> :> Column(Atomic("VARCHAR"), <<<<"schema">>>>)), mode) :
       y \in Entries(2), c \in DeclaredA, mode \in Modes}

(* Declared lists, one called like the field that the other is read from.      *)
DeclaredLists ==
    {DeclaredAs(<<Document(1, (a :> Sub(x)) @@ (ab :> y)), Document(2, (a :> Sub(y)))>>, "columns",
                (ab :> Column([Atomic("BIGINT") EXCEPT !.list = n], <<a, b>>)) @@ (b :> Column([Atomic("BIGINT") EXCEPT !.list = 1], p)),
                "permissive") :
       x \in Arrays(1), y \in Arrays(2), n \in {2, 4}, p \in {<<b>>, <<ab>>}}

(* Something else than a document, or an array of them, on the way of a path;  *)
(* a column called like it.                                                *)
OnTheWay(i) ==
    {Missing, N(i), Sub(N(i)), Sub(Of("string", i)), Array(<<1>> :> N(i)),
     Array((<<1>> :> N(i)) @@ (<<2>> :> Of("document", (b :> N(i)) @@ (a :> Null))) @@ (<<3, 1>> :> N(i)))}
DeclaredPaths ==
    {DeclaredAs(<<Document(1, (a :> x) @@ (b :> y)), Document(2, (a :> z) @@ (b :> N(2)))>>, "columns",
                (ab :> Column(Atomic("BIGINT"), <<a, b>>)) @@ (n :> Column(type, <<b>>)), mode) :
       x \in OnTheWay(1), y \in {N(1), Of("string", 1), Array(<<1>> :> N(1))}, z \in OnTheWay(2), n \in {a, b},
       type \in {Atomic("VARCHAR"), ListOf(Atomic("BIGINT")), ListOf(Struct(b :> "BIGINT"))}, mode \in Modes}

MCInputs == OneField \union ThreeDocuments \union SharedNames \union SharedArrays \union DeclaredColumns \union DeclaredLists
              \union SchemaDocuments \union DeclaredPaths

=============================================================================
