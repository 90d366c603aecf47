------------------------- MODULE DocumentRowsProofs -------------------------
(***************************************************************************)
(* Proofs about DocumentRows: columns stand for the sample, the projection  *)
(* asks for every column's field, and each row shows the fields of its own  *)
(* document, of the documents a schema mode lets through; arrays come whole *)
(* in lists, and fields of the sampled kind come in full.                   *)
(***************************************************************************)
EXTENDS DocumentRows, InferenceProofs, SequenceTheorems

Stages == {"bind", "bound", "scan", "done", "failed", "refused"}
Opened == stage \in {"scan", "done", "failed"}
Unopened == stage \in {"bind", "bound", "refused"}

-----------------------------------------------------------------------------
(* The projection.                                                          *)

LEMMA PrefixOfItself ==
    ASSUME NEW S, NEW p \in Seq(S)
    PROVE  IsPrefix(p, p)
BY DEF IsPrefix

(* The path kept last, order after order.                                    *)
Collapses(last, asked, order) ==
    /\ BuildMongoProjection(asked, order) = ({last[n] : n \in 0..Len(order)} \ {<<>>}) \union {IdPath}
    /\ last[0] = <<>>
    /\ \A n \in 1..Len(order) :
          last[n] = IF order[n] \in asked /\ (last[n - 1] = <<>> \/ ~IsStrictPrefix(last[n - 1], order[n]))
                    THEN order[n] ELSE last[n - 1]

LEMMA ProjectionIs ==
    ASSUME NEW S, NEW order \in Seq(Seq(S) \ {<<>>}), NEW asked
    PROVE  \E last : Collapses(last, asked, order)
<1> DEFINE V == Seq(S)
           N == Len(order)
           step == [n \in 1..N |-> [x \in V |-> IF order[n] \in asked /\ (x = <<>> \/ ~IsStrictPrefix(x, order[n]))
                                                THEN order[n] ELSE x]]
           Eqn(f) == f = [n \in 0..N |->
                            CASE n = 0 -> <<>>
                              [] n > 0 /\ order[n] \in asked
                                   /\ (f[n - 1] = <<>> \/ ~IsStrictPrefix(f[n - 1], order[n])) -> order[n]
                              [] OTHER -> f[n - 1]]
           last == CHOOSE f : Eqn(f)
<1>1. N \in Nat /\ \A n \in 1..N : order[n] \in V /\ order[n] # <<>>
  OBVIOUS
<1>2. PICK f : Unfolds(f, N, V, <<>>, step)
  <2>1. <<>> \in V
    OBVIOUS
  <2>2. step \in [1..N -> [V -> V]]
    BY <1>1
  <2> HIDE DEF V, step
  <2> QED
    BY <1>1, <2>1, <2>2, Recursion
<1>3. Eqn(f)
  <2>1. ASSUME NEW n \in 0..N
        PROVE  f[n] = CASE n = 0 -> <<>>
                        [] n > 0 /\ order[n] \in asked
                             /\ (f[n - 1] = <<>> \/ ~IsStrictPrefix(f[n - 1], order[n])) -> order[n]
                        [] OTHER -> f[n - 1]
    <3>1. CASE n = 0
      BY <1>2, <3>1 DEF Unfolds
    <3>2. CASE n > 0
      <4> HIDE DEF V
      <4>1. n \in 1..N /\ n - 1 \in 0..N
        BY <1>1, <3>2
      <4>2. f[n] = step[n][f[n - 1]] /\ f[n - 1] \in V
        BY <1>2, <4>1 DEF Unfolds
      <4>3. f[n] = IF order[n] \in asked /\ (f[n - 1] = <<>> \/ ~IsStrictPrefix(f[n - 1], order[n]))
                   THEN order[n] ELSE f[n - 1]
        BY <4>1, <4>2
      <4> QED
        BY <3>2, <4>3
    <3> QED
      BY <1>1, <3>1, <3>2
  <2> HIDE DEF V, step
  <2>2. f = [n \in 0..N |-> f[n]]
    BY <1>2 DEF Unfolds
  <2> QED
    BY <2>1, <2>2
<1>4. Eqn(last)
  <2> HIDE DEF Eqn
  <2> QED
    BY <1>3
<1>5. BuildMongoProjection(asked, order) = ({last[n] : n \in 0..N} \ {<<>>}) \union {IdPath}
  BY DEF BuildMongoProjection
<1> HIDE DEF last
<1>6. last[0] = <<>>
  BY <1>1, <1>4
<1>7. ASSUME NEW n \in 1..N
      PROVE  last[n] = IF order[n] \in asked /\ (last[n - 1] = <<>> \/ ~IsStrictPrefix(last[n - 1], order[n]))
                       THEN order[n] ELSE last[n - 1]
  <2>1. n \in 0..N /\ n > 0 /\ n # 0
    BY <1>1
  <2> QED
    BY <1>4, <2>1
<1> HIDE DEF Eqn
<1> QED
  BY <1>5, <1>6, <1>7 DEF Collapses

(* Whichever paths are collapsed, each one asked for is in the projection or  *)
(* below a path that is: MongoDB sends every requested field.               *)
LEMMA ProjectionCovers ==
    ASSUME NEW S, NEW order \in Seq(Seq(S) \ {<<>>}), NEW asked, NEW path \in asked, path \in ToSet(order)
    PROVE  \E p \in BuildMongoProjection(asked, order) : IsPrefix(p, path)
<1>1. PICK last : Collapses(last, asked, order)
  BY ProjectionIs
<1>2. PICK m \in 1..Len(order) : order[m] = path
  BY DEF ToSet
<1>3. m \in 0..Len(order) /\ path \in Seq(S) \ {<<>>}
  BY <1>2
<1>4. last[m] = IF last[m - 1] = <<>> \/ ~IsStrictPrefix(last[m - 1], path) THEN path ELSE last[m - 1]
  BY <1>1, <1>2 DEF Collapses
<1>5. last[m] # <<>> /\ IsPrefix(last[m], path)
  <2>1. IsPrefix(path, path)
    BY <1>3, PrefixOfItself
  <2> QED
    BY <1>3, <1>4, <2>1 DEF IsStrictPrefix
<1>6. last[m] \in BuildMongoProjection(asked, order)
  BY <1>1, <1>3, <1>5 DEF Collapses
<1> QED
  BY <1>5, <1>6

(* Nothing is in the projection but what was asked for, and "_id".            *)
LEMMA ProjectionAsked ==
    ASSUME NEW S, NEW order \in Seq(Seq(S) \ {<<>>}), NEW asked
    PROVE  BuildMongoProjection(asked, order) \subseteq {IdPath} \union asked
<1>1. PICK last : Collapses(last, asked, order)
  BY ProjectionIs
<1> DEFINE N == Len(order)
           T == {n \in 0..N : last[n] = <<>> \/ last[n] \in asked}
<1>2. N \in Nat
  OBVIOUS
<1>3. 0 \in T
  BY <1>1, <1>2 DEF Collapses
<1>4. ASSUME NEW k \in 0..(N - 1), k \in T PROVE k + 1 \in T
  <2>1. k + 1 \in 1..N /\ k + 1 \in 0..N /\ (k + 1) - 1 = k
    BY <1>2
  <2>2. last[k + 1] = IF order[k + 1] \in asked /\ (last[k] = <<>> \/ ~IsStrictPrefix(last[k], order[k + 1]))
                      THEN order[k + 1] ELSE last[k]
    BY <1>1, <2>1 DEF Collapses
  <2> QED
    BY <1>4, <2>1, <2>2
<1>5. 0..N \subseteq T
  <2> HIDE DEF T, N
  <2> QED
    BY <1>2, <1>3, <1>4, SetInduction
<1> QED
  BY <1>1, <1>5 DEF Collapses

(* A field the projection covers comes as it is in the document.             *)
LEMMA SentAsItIs ==
    ASSUME NEW d, NEW asked, NEW path, \E p \in asked : IsPrefix(p, path)
    PROVE  Sent(d, asked, path) = ElementAt(d, path)
BY DEF Sent

-----------------------------------------------------------------------------
(* Where columns come from.                                                 *)

(* What was collected from the documents sampled so far, and only from them. *)
Collected ==
    /\ DOMAIN fieldTypes = SampledNames
    /\ DOMAIN paths = SampledNames
    /\ \A name \in DOMAIN paths : \E i \in ToSet(seen) : paths[name] \in PathsNamed(input.docs[i], name)

ColumnsHavePaths ==
    /\ DOMAIN columns \subseteq DOMAIN paths
    /\ \A name \in DOMAIN paths : paths[name] \in ToSet(PathOrder)

BindInv ==
    /\ input \in Inputs /\ stage \in Stages /\ attempt \in {"sample", "find"}
    /\ seen \in Seq(Docs)
    /\ Unopened => chunk = <<>> /\ delivered = <<>> /\ next = 1
    /\ stage = "bind" /\ ~Explicit => Collected
    /\ stage \notin {"bind", "refused"} => ColumnsHavePaths
    /\ ColumnsNameSample

LEMMA InputFacts ==
    ASSUME input \in Inputs
    PROVE  /\ Docs = 1..Len(input.docs) /\ Len(input.docs) \in Nat
           /\ input.source \in Sources /\ input.mode \in Modes
           /\ \A i \in Docs : PathsOf(input.docs[i]) \subseteq ToSet(PathOrder)
           /\ \A name \in DOMAIN input.declared : input.declared[name].path \in ToSet(PathOrder)
BY InferenceAssumption, RowsAssumption DEF Docs

LEMMA BindInit_ == Init => BindInv
<1> SUFFICES ASSUME Init PROVE BindInv
  OBVIOUS
<1>1. input \in Inputs /\ stage = "bind" /\ attempt = "sample" /\ seen = <<>>
      /\ chunk = <<>> /\ delivered = <<>> /\ next = 1
      /\ fieldTypes = <<>> /\ paths = <<>>
  BY DEF Init, BindInit
<1>2. ToSet(seen) = {} /\ DOMAIN fieldTypes = {} /\ DOMAIN paths = {} /\ seen \in Seq(Docs)
  BY <1>1 DEF ToSet
<1>3. Collected
  BY <1>2 DEF Collected, SampledNames
<1> QED
  BY <1>1, <1>2, <1>3 DEF BindInv, Stages, ColumnsNameSample, ColumnsHavePaths

LEMMA SampleDocumentBind ==
    ASSUME BindInv, SampleDocument, UNCHANGED rowVars
    PROVE  BindInv'
<1>1. /\ stage = "bind" /\ ~Explicit /\ UNCHANGED <<input, stage, attempt, columns, chunk, delivered, next>>
      /\ \E i \in Docs : CollectFieldPaths(i)
  BY DEF SampleDocument, rowVars
<1>2. PICK i \in Docs : CollectFieldPaths(i)
  BY <1>1
<1> DEFINE d == input.docs[i]
           g == [name \in NamesIn(d) |-> (IF name \in DOMAIN fieldTypes THEN fieldTypes[name] ELSE <<>>) \o TypesOf(d, name)]
<1>3. seen' = Append(seen, i) /\ fieldTypes' = Update(fieldTypes, g)
  BY <1>2 DEF CollectFieldPaths
<1>4. PICK last \in [NamesIn(d) -> PathsOf(d)] : /\ \A name \in NamesIn(d) : Joined(last[name]) = name
                                                 /\ paths' = Update(paths, last)
  BY <1>2 DEF CollectFieldPaths
<1>5. seen' \in Seq(Docs) /\ ToSet(seen') = ToSet(seen) \union {i}
  BY <1>3, AppendRange DEF BindInv
<1>6. SampledNames' = SampledNames \union NamesIn(d)
  BY <1>1, <1>5 DEF SampledNames
<1>7. Collected
  BY <1>1 DEF BindInv
<1>8. DOMAIN fieldTypes' = SampledNames'
  <2>1. DOMAIN g = NamesIn(d)
    OBVIOUS
  <2> HIDE DEF g
  <2> QED
    BY <1>3, <1>6, <1>7, <2>1, UpdateDomain, ZenonT(30) DEF Collected
<1>9. DOMAIN paths' = SampledNames'
  BY <1>4, <1>6, <1>7, UpdateDomain DEF Collected
<1>10. ASSUME NEW name \in DOMAIN paths'
       PROVE  \E j \in ToSet(seen') : paths'[name] \in PathsNamed(input.docs[j], name)
  <2>1. CASE name \in NamesIn(d)
    <3>1. DOMAIN last = NamesIn(d)
      OBVIOUS
    <3>2. paths'[name] = last[name]
      BY <1>4, <2>1, <3>1, UpdateNew
    <3> QED
      BY <1>4, <1>5, <2>1, <3>2 DEF PathsNamed
  <2>2. CASE name \notin NamesIn(d)
    <3>1. name \in DOMAIN paths /\ name \notin DOMAIN last
      BY <1>6, <1>7, <1>9, <1>10, <2>2 DEF Collected
    <3>2. paths'[name] = paths[name]
      BY <1>4, <3>1, UpdateOld
    <3> QED
      BY <1>5, <1>7, <3>1, <3>2 DEF Collected
  <2> QED
    BY <2>1, <2>2
<1>11. Collected'
  BY <1>1, <1>8, <1>9, <1>10 DEF Collected
<1> QED
  BY <1>1, <1>5, <1>11 DEF BindInv, Unopened, ColumnsNameSample, Docs

LEMMA SampleFailsBind ==
    ASSUME BindInv, SampleFails, UNCHANGED rowVars
    PROVE  BindInv'
<1>1. /\ stage = "bind" /\ ~Explicit /\ UNCHANGED <<input, stage, columns, chunk, delivered, next>>
      /\ attempt' = "find" /\ seen' = <<>> /\ fieldTypes' = <<>> /\ paths' = <<>>
  BY DEF SampleFails, rowVars
<1>2. ToSet(seen') = {} /\ DOMAIN fieldTypes' = {} /\ DOMAIN paths' = {} /\ seen' \in Seq(Docs')
  BY <1>1 DEF ToSet
<1>3. Collected'
  BY <1>2 DEF Collected, SampledNames
<1> QED
  BY <1>1, <1>2, <1>3 DEF BindInv, Unopened, ColumnsNameSample

LEMMA RefusedBind ==
    ASSUME BindInv, FindFails \/ RefuseColumnsParameter \/ RefuseSchemaDocument, UNCHANGED rowVars
    PROVE  BindInv'
<1>1. /\ stage = "bind" /\ stage' = "refused" /\ UNCHANGED <<input, seen, attempt, chunk, delivered, next>>
  BY DEF FindFails, RefuseColumnsParameter, RefuseSchemaDocument, rowVars
<1> QED
  BY <1>1 DEF BindInv, Unopened, ColumnsNameSample, Stages, Docs

(* Declared columns get the paths they were declared with.                    *)
LEMMA DeclaredBind ==
    ASSUME BindInv, ParseSchemaFromColumnsParameter \/ ParseSchemaFromAtlasDocument, UNCHANGED rowVars
    PROVE  BindInv'
<1>1. /\ stage = "bind" /\ stage' = "bound" /\ Explicit /\ UNCHANGED <<input, seen, attempt, chunk, delivered, next>>
      /\ \E names \in SUBSET DOMAIN input.declared : Declared(names)
  BY DEF ParseSchemaFromColumnsParameter, ParseSchemaFromAtlasDocument, rowVars, Explicit, Valid
<1>2. PICK names \in SUBSET DOMAIN input.declared : Declared(names)
  BY <1>1
<1> DEFINE id == [name \in {IdName} |-> IdPath]
           idType == [name \in {IdName} |-> Atomic("VARCHAR")]
           declared == [name \in names |-> input.declared[name].path]
           types == [name \in names |-> input.declared[name].type]
<1>3. paths' = Update(id, declared) /\ columns' = Update(idType, types)
  BY <1>2 DEF Declared
<1>4. DOMAIN id = {IdName} /\ DOMAIN idType = {IdName} /\ DOMAIN declared = names /\ DOMAIN types = names
      /\ id[IdName] \in ToSet(PathOrder) /\ \A name \in names : declared[name] \in ToSet(PathOrder)
  BY InputFacts, InferenceAssumption DEF BindInv
<1> HIDE DEF id, idType, declared, types
<1>5. DOMAIN columns' = {IdName} \union names /\ DOMAIN paths' = {IdName} \union names
  <2>1. DOMAIN Update(id, declared) = DOMAIN id \union DOMAIN declared
    BY UpdateDomain
  <2>2. DOMAIN Update(idType, types) = DOMAIN idType \union DOMAIN types
    BY UpdateDomain
  <2> QED
    BY <1>3, <1>4, <2>1, <2>2
<1>6. ASSUME NEW name \in DOMAIN paths' PROVE paths'[name] \in ToSet(PathOrder)
  <2>1. CASE name \in names
    <3>1. Update(id, declared)[name] = declared[name]
      BY <1>4, <2>1, UpdateNew
    <3> QED
      BY <1>3, <1>4, <2>1, <3>1
  <2>2. CASE name \notin names
    <3>1. name = IdName /\ Update(id, declared)[name] = id[name]
      BY <1>4, <1>5, <2>2, UpdateOld
    <3> QED
      BY <1>3, <1>4, <3>1
  <2> QED
    BY <2>1, <2>2
<1>7. ColumnsHavePaths'
  BY <1>5, <1>6 DEF ColumnsHavePaths
<1> QED
  BY <1>1, <1>7 DEF BindInv, Unopened, ColumnsNameSample, Stages, Explicit, Docs

(* Inferred columns: a name of each set of names that differ in case only.    *)
LEMMA InferredColumns ==
    ASSUME InferColumns
    PROVE  \E chosen \in SUBSET ({IdName} \union DOMAIN fieldTypes) :
              /\ \A name \in {IdName} \union DOMAIN fieldTypes :
                    \E n \in chosen : {m \in chosen : SameColumn(m, name)} = {n}
              /\ DOMAIN columns' = chosen
<1> DEFINE id == [name \in {IdName} |-> <<Atomic("VARCHAR")>>]
           types == Update(id, fieldTypes)
<1>1. DOMAIN types = {IdName} \union DOMAIN fieldTypes
  <2>1. DOMAIN id = {IdName}
    OBVIOUS
  <2> HIDE DEF id
  <2> QED
    BY <2>1, UpdateDomain
<1>2. PICK chosen \in SUBSET DOMAIN types :
        /\ \A name \in DOMAIN types : \E n \in chosen : {m \in chosen : SameColumn(m, name)} = {n}
        /\ DOMAIN columns' = chosen
  BY DEF InferColumns
<1> HIDE DEF types
<1> QED
  BY <1>1, <1>2

LEMMA InferColumnsBind ==
    ASSUME BindInv, InferColumns, UNCHANGED rowVars
    PROVE  BindInv'
<1>1. /\ stage = "bind" /\ stage' = "bound" /\ ~Explicit /\ UNCHANGED <<input, seen, attempt, chunk, delivered, next>>
  BY DEF InferColumns, rowVars
<1>2. paths' = Update([name \in {IdName} |-> IdPath], paths)
  BY DEF InferColumns
<1>3. PICK chosen \in SUBSET ({IdName} \union DOMAIN fieldTypes) :
        /\ \A name \in {IdName} \union DOMAIN fieldTypes :
              \E n \in chosen : {m \in chosen : SameColumn(m, name)} = {n}
        /\ DOMAIN columns' = chosen
  BY InferredColumns
<1>4. Collected
  BY <1>1 DEF BindInv
<1> DEFINE id == [name \in {IdName} |-> IdPath]
<1>5. DOMAIN id = {IdName} /\ id[IdName] = IdPath
  OBVIOUS
<1> HIDE DEF id
<1>6. DOMAIN paths' = {IdName} \union SampledNames
  BY <1>2, <1>4, <1>5, UpdateDomain, ZenonT(30) DEF id, Collected
<1>7. ASSUME NEW name \in SampledNames
      PROVE  \E i \in ToSet(seen) : paths'[name] \in PathsNamed(input.docs[i], name)
  <2>1. Update(id, paths)[name] = paths[name]
    BY <1>4, UpdateNew DEF Collected
  <2> QED
    BY <1>2, <1>4, <2>1 DEF id, Collected
<1>8. ASSUME NEW name \in DOMAIN paths' PROVE paths'[name] \in ToSet(PathOrder)
  <2>1. CASE name \in SampledNames
    <3>1. \A i \in ToSet(seen) : i \in Docs
      BY DEF BindInv, ToSet
    <3> QED
      BY <1>7, <2>1, <3>1, InputFacts DEF BindInv, PathsNamed
  <2>2. CASE name \notin SampledNames
    <3>1. Update(id, paths)[IdName] = IdPath /\ name = IdName
      BY <1>4, <1>5, <1>6, <2>2, UpdateOld DEF Collected
    <3> QED
      BY <1>2, <3>1, InferenceAssumption DEF id
  <2> QED
    BY <2>1, <2>2
<1>9. ColumnsHavePaths'
  BY <1>3, <1>4, <1>6, <1>8 DEF ColumnsHavePaths, Collected
<1>10. {IdName} \union DOMAIN fieldTypes = SampledNames \union {IdName}
  BY <1>4 DEF Collected
<1>11. {Lower(name) : name \in chosen} = {Lower(name) : name \in SampledNames \union {IdName}}
  <2>1. ASSUME NEW name \in SampledNames \union {IdName} PROVE \E n \in chosen : Lower(n) = Lower(name)
    BY <1>3, <1>10 DEF SameColumn
  <2> QED
    BY <1>3, <1>10, <2>1
<1>12. ASSUME NEW m \in chosen, NEW n \in chosen, Lower(m) = Lower(n) PROVE m = n
  <2>1. PICK k \in chosen : {x \in chosen : SameColumn(x, n)} = {k}
    BY <1>3
  <2>2. m \in {x \in chosen : SameColumn(x, n)} /\ n \in {x \in chosen : SameColumn(x, n)}
    BY <1>12 DEF SameColumn
  <2> QED
    BY <2>1, <2>2
<1>13. ColumnsNameSample'
  <2>1. SampledNames' = SampledNames
    BY <1>1 DEF SampledNames
  <2>2. \A name \in chosen \ {IdName} : \E i \in ToSet(seen) : paths'[name] \in PathsNamed(input.docs[i], name)
    BY <1>3, <1>7, <1>10
  <2>3. /\ {Lower(name) : name \in DOMAIN columns'} = {Lower(name) : name \in SampledNames' \union {IdName}}
        /\ \A m, n \in DOMAIN columns' : Lower(m) = Lower(n) => m = n
    BY <1>3, <1>11, <1>12, <2>1
  <2>4. \A name \in DOMAIN columns' \ {IdName} : \E i \in ToSet(seen') : paths'[name] \in PathsNamed(input'.docs[i], name)
    BY <1>1, <1>3, <2>2
  <2>5. /\ {Lower(name) : name \in DOMAIN columns'}
            = {Lower(name) : name \in {IdName} \union UNION {NamesIn(input'.docs[i]) : i \in ToSet(seen')}}
        /\ \A m, n \in DOMAIN columns' : Lower(m) = Lower(n) => m = n
    BY <2>3 DEF SampledNames
  <2> QED
    BY <2>4, <2>5, Zenon DEF ColumnsNameSample
<1> QED
  BY <1>1, <1>9, <1>13 DEF BindInv, Unopened, Stages, Explicit, Docs

LEMMA BindNext == BindInv /\ [Next]_vars => BindInv'
<1> SUFFICES ASSUME BindInv, [Next]_vars PROVE BindInv'
  OBVIOUS
<1>1. CASE Bind
  BY <1>1, SampleDocumentBind, SampleFailsBind, RefusedBind, DeclaredBind, InferColumnsBind DEF Bind
<1>2. CASE MongoScanInitLocal
  <2>1. /\ stage = "bound" /\ stage' \in {"scan", "refused"}
        /\ UNCHANGED <<input, seen, attempt, paths, columns, chunk, delivered, next>>
    BY <1>2 DEF MongoScanInitLocal
  <2>2. ColumnsHavePaths' = ColumnsHavePaths
    BY <2>1 DEF ColumnsHavePaths
  <2>3. ColumnsNameSample'
    <3>1. CASE stage' = "refused"
      BY <3>1 DEF ColumnsNameSample
    <3>2. CASE stage' = "scan"
      <4>1. ColumnsNameSample' = ColumnsNameSample
        BY <2>1, <3>2 DEF ColumnsNameSample, Explicit
      <4> QED
        BY <4>1 DEF BindInv
    <3> QED
      BY <2>1, <3>1, <3>2
  <2>4. /\ input' \in Inputs /\ stage' \in Stages /\ attempt' \in {"sample", "find"}
        /\ seen' \in Seq(Docs')
    BY <2>1 DEF BindInv, Stages, Docs
  <2> QED
    BY <2>1, <2>2, <2>3, <2>4 DEF BindInv, Unopened
<1>3. CASE FlattenDocument \/ RaiseViolation \/ EndChunk
  <2>1. /\ stage = "scan" /\ stage' \in {"scan", "failed", "done"}
        /\ UNCHANGED <<input, seen, attempt, paths, columns>>
    BY <1>3 DEF FlattenDocument, RaiseViolation, EndChunk, AtDocument, bindVars
  <2>2. Explicit' = Explicit /\ stage' # "bind"
    BY <2>1 DEF Explicit
  <2>3. ColumnsHavePaths' = ColumnsHavePaths
    BY <2>1 DEF ColumnsHavePaths
  <2>4. ColumnsNameSample' = ColumnsNameSample
    <3>1. stage \notin {"bind", "refused"} /\ stage' \notin {"bind", "refused"}
      BY <2>1
    <3>2. input' = input /\ seen' = seen /\ paths' = paths /\ columns' = columns
      BY <2>1
    <3> QED
      BY <2>2, <3>1, <3>2 DEF ColumnsNameSample
  <2>5. /\ input' \in Inputs /\ stage' \in Stages /\ attempt' \in {"sample", "find"}
        /\ seen' \in Seq(Docs')
    BY <2>1 DEF BindInv, Stages, Docs
  <2> QED
    BY <2>1, <2>2, <2>3, <2>4, <2>5 DEF BindInv, Unopened
<1>4. CASE UNCHANGED vars
  <2>1. UNCHANGED <<input, stage, seen, attempt, fieldTypes, paths, columns, chunk, delivered, next>>
    BY <1>4 DEF vars, bindVars, rowVars
  <2>2. Collected' = Collected
    BY <2>1 DEF Collected, SampledNames
  <2>3. ColumnsHavePaths' = ColumnsHavePaths
    BY <2>1 DEF ColumnsHavePaths
  <2>4. ColumnsNameSample' = ColumnsNameSample
    BY <2>1 DEF ColumnsNameSample, Explicit
  <2>5. Docs' = Docs /\ Explicit' = Explicit /\ Unopened' = Unopened
    BY <2>1 DEF Docs, Explicit, Unopened
  <2> QED
    BY <2>1, <2>2, <2>3, <2>4, <2>5 DEF BindInv
<1> QED
  BY <1>1, <1>2, <1>3, <1>4 DEF Next

LEMMA BindHolds == Spec => []BindInv
BY BindInit_, BindNext, PTL DEF Spec

(* The columns of an inferred schema stand for the documents sampled last,    *)
(* for every collection, order of the sample and moment at which $sample     *)
(* fails.                                                                  *)
THEOREM ColumnsStandForSample == Spec => []ColumnsNameSample
<1>1. BindInv => ColumnsNameSample
  BY DEF BindInv
<1> QED
  BY BindHolds, <1>1, PTL

-----------------------------------------------------------------------------
(* The types of columns.                                                     *)

(* What is collected outlives the choice of columns: a column that shares its  *)
(* name with no other, up to case, has the type its own types resolve to.    *)
TypesInv ==
    /\ Tally
    /\ stage \notin {"bind", "refused"} => \A c \in DOMAIN columns : columns[c].list \in Nat
    /\ stage \notin {"bind", "refused"} /\ ~Explicit =>
          /\ IdName \notin DOMAIN fieldTypes => paths[IdName] = IdPath
          /\ \A c \in DOMAIN columns \intersect DOMAIN fieldTypes :
                /\ \E i \in ToSet(seen) : paths[c] \in PathsNamed(input.docs[i], c)
                /\ (\A m \in {IdName} \union DOMAIN fieldTypes : SameColumn(m, c) => m = c)
                     => columns[c] = ResolveTypeConflict(fieldTypes[c])

LEMMA TallySteps ==
    ASSUME Tally, BindInv, [Next]_vars
    PROVE  Tally'
<1>1. CASE SampleDocument
  BY <1>1, TallySample
<1>2. CASE SampleFails
  <2>1. /\ UNCHANGED input /\ attempt' = "find" /\ seen' = <<>> /\ fieldTypes' = <<>>
    BY <1>2 DEF SampleFails
  <2>2. ToSet(seen') = {} /\ DOMAIN fieldTypes' = {} /\ seen' \in Seq(Docs')
    BY <2>1 DEF ToSet
  <2>3. SampledNames' = {}
    BY <2>2 DEF SampledNames
  <2> QED
    BY <2>1, <2>2, <2>3 DEF Tally, BindInv
<1>3. CASE UNCHANGED <<input, attempt, seen, fieldTypes>>
  BY <1>3 DEF Tally, SampledNames, Explicit, Docs, IsSequence
<1>4. [Next]_vars => SampleDocument \/ SampleFails \/ UNCHANGED <<input, attempt, seen, fieldTypes>>
  BY DEF Next, Bind, FindFails, InferColumns, ParseSchemaFromColumnsParameter, RefuseColumnsParameter,
         ParseSchemaFromAtlasDocument, RefuseSchemaDocument, MongoScanInitLocal, FlattenDocument, RaiseViolation, EndChunk, vars, bindVars
<1> QED
  BY <1>1, <1>2, <1>3, <1>4

(* Only so many names are sampled.                                           *)
LEMMA FewNames ==
    ASSUME input \in Inputs, seen \in Seq(Docs)
    PROVE  IsFiniteSet(SampledNames)
<1> DEFINE n == Len(PathOrder)
           N == {Joined(PathOrder[k]) : k \in 1..n}
           f == [k \in 1..n |-> Joined(PathOrder[k])]
<1>1. n \in Nat /\ DOMAIN PathOrder = 1..n
  <2>1. PathOrder \in Seq(Seq(Seq(STRING)) \ {<<>>})
    BY InferenceAssumption
  <2> QED
    BY <2>1
<1> HIDE DEF n
<1>2. IsFiniteSet(N)
  <2>1. f \in Surjection(1..n, N)
    BY DEF Surjection
  <2>2. IsFiniteSet(1..n)
    BY <1>1, FS_Interval
  <2> HIDE DEF f, N
  <2> QED
    BY <2>1, <2>2, FS_Surjection
<1>3. SampledNames \subseteq N
  <2>1. \A i \in ToSet(seen) : i \in Docs
    BY DEF ToSet
  <2>2. \A i \in ToSet(seen) : PathsOf(input.docs[i]) \subseteq ToSet(PathOrder)
    BY <2>1, InputFacts
  <2>3. ASSUME NEW name \in SampledNames PROVE name \in N
    <3>1. PICK i \in ToSet(seen) : name \in NamesIn(input.docs[i])
      BY DEF SampledNames
    <3>2. PICK p \in PathsOf(input.docs[i]) : name = Joined(p)
      BY <3>1 DEF NamesIn
    <3>3. PICK k \in 1..n : PathOrder[k] = p
      <4>1. p \in ToSet(PathOrder)
        BY <2>2, <3>1
      <4> QED
        BY <1>1, <4>1 DEF ToSet
    <3> QED
      BY <3>2, <3>3
  <2> QED
    BY <2>3
<1> HIDE DEF N
<1> QED
  BY <1>2, <1>3, FS_Subset

LEMMA InferColumnsTypes ==
    ASSUME TypesInv, BindInv, InferColumns, Tally'
    PROVE  TypesInv'
<1> DEFINE id == [name \in {IdName} |-> <<Atomic("VARCHAR")>>]
           types == Update(id, fieldTypes)
           names == DOMAIN types
           Same(name) == {n \in names \ {name} : SameColumn(n, name)}
           others(name) == SetToSeq(Same(name))
<1>1. /\ stage = "bind" /\ stage' = "bound" /\ ~Explicit /\ UNCHANGED <<input, seen, attempt, fieldTypes>>
      /\ paths' = Update([name \in {IdName} |-> IdPath], paths)
      /\ \E chosen \in SUBSET names : columns' = [name \in chosen |-> MergedType(types, name, others(name))]
  BY DEF InferColumns
<1>2. PICK chosen \in SUBSET names : columns' = [name \in chosen |-> MergedType(types, name, others(name))]
  BY <1>1
<1>3. Collected /\ input \in Inputs /\ seen \in Seq(Docs)
  BY <1>1 DEF BindInv
<1>4. names = {IdName} \union DOMAIN fieldTypes /\ DOMAIN id = {IdName} /\ id[IdName] = <<Atomic("VARCHAR")>>
  <2>1. DOMAIN id = {IdName} /\ id[IdName] = <<Atomic("VARCHAR")>>
    OBVIOUS
  <2> HIDE DEF id
  <2> QED
    BY <2>1, UpdateDomain
<1>5. \A name \in DOMAIN fieldTypes : types[name] = fieldTypes[name]
  BY UpdateNew
<1>6. ASSUME NEW name \in names PROVE AreTypes(types[name])
  <2>1. CASE name \in DOMAIN fieldTypes
    <3>1. IsSequence(fieldTypes[name]) /\ \A t \in ToSet(fieldTypes[name]) : Flat(t)
      BY <1>1, <2>1 DEF TypesInv, Tally
    <3> QED
      BY <1>5, <2>1, <3>1 DEF AreTypes, Flat
  <2>2. CASE name \notin DOMAIN fieldTypes
    <3>1. name = IdName /\ name \in DOMAIN id
      BY <1>4, <2>2
    <3> HIDE DEF id
    <3>2. types[name] = <<Atomic("VARCHAR")>>
      BY <1>4, <2>2, <3>1, UpdateOld
    <3> DEFINE t == Atomic("VARCHAR")
    <3>3. t.list \in Nat
      BY AtomicFlat DEF Flat
    <3> HIDE DEF t
    <3>4. <<t>> \in Seq({t}) /\ ToSet(<<t>>) = {t}
      <4>1. DOMAIN <<t>> = {1} /\ <<t>>[1] = t
        OBVIOUS
      <4> QED
        BY <4>1 DEF ToSet
    <3> HIDE DEF types
    <3> QED
      BY <3>2, <3>3, <3>4 DEF AreTypes, IsSequence, t
  <2> QED
    BY <2>1, <2>2
<1>7. IsFiniteSet(names)
  <2>1. IsFiniteSet(SampledNames) /\ DOMAIN fieldTypes = SampledNames
    BY <1>3, FewNames DEF Collected
  <2>2. IsFiniteSet({IdName})
    BY FS_Singleton
  <2> HIDE DEF types
  <2> QED
    BY <1>4, <2>1, <2>2, FS_Union, ZenonT(30)
<1> HIDE DEF types, id
<1>8. ASSUME NEW name \in names
      PROVE  /\ MergedType(types, name, others(name)).list \in Nat
             /\ Same(name) = {} => MergedType(types, name, others(name)) = ResolveTypeConflict(types[name])
  <2> DEFINE S == Same(name)
             order == SetToSeq(S)
  <2>1. S \subseteq names
    OBVIOUS
  <2>2. IsFiniteSet(S)
    BY <1>7, <2>1, FS_Subset
  <2> HIDE DEF S
  <2>3. Cardinality(S) \in Nat /\ Len(order) = Cardinality(S) /\ \A k \in 1..Len(order) : order[k] \in S
    BY <2>2, SetAsSequence
  <2>4. S = {} => Len(order) = 0
    BY <2>3, FS_EmptySet
  <2> HIDE DEF order, names
  <2>5. /\ MergedType(types, name, order).list \in Nat
        /\ Len(order) = 0 => MergedType(types, name, order) = ResolveTypeConflict(types[name])
    BY <1>6, <2>1, <2>3, MergedIs
  <2> QED
    BY <2>4, <2>5 DEF order, S
<1>9. DOMAIN columns' = chosen /\ \A c \in chosen : columns'[c] = MergedType(types, c, others(c))
  BY <1>2
<1> HIDE DEF others
<1>10. \A c \in DOMAIN columns' : columns'[c].list \in Nat
  BY <1>8, <1>9
<1> DEFINE first == [name \in {IdName} |-> IdPath]
<1>11. /\ DOMAIN first = {IdName} /\ first[IdName] = IdPath /\ paths' = Update(first, paths)
       /\ DOMAIN paths = DOMAIN fieldTypes
  BY <1>1, <1>3 DEF Collected
<1> HIDE DEF first
<1>12. IdName \notin DOMAIN fieldTypes => paths'[IdName] = IdPath
  BY <1>11, UpdateOld
<1>13. ASSUME NEW c \in DOMAIN columns' \intersect DOMAIN fieldTypes
       PROVE  /\ \E i \in ToSet(seen) : paths'[c] \in PathsNamed(input.docs[i], c)
              /\ (\A m \in {IdName} \union DOMAIN fieldTypes : SameColumn(m, c) => m = c)
                     => columns'[c] = ResolveTypeConflict(fieldTypes[c])
  <2>1. paths'[c] = paths[c]
    BY <1>11, UpdateNew
  <2>2. \E i \in ToSet(seen) : paths[c] \in PathsNamed(input.docs[i], c)
    BY <1>3, <1>11 DEF Collected
  <2>3. ASSUME \A m \in {IdName} \union DOMAIN fieldTypes : SameColumn(m, c) => m = c PROVE Same(c) = {}
    BY <1>4, <2>3
  <2> HIDE DEF Same
  <2>4. c \in names
    BY <1>9
  <2> QED
    BY <1>5, <1>8, <1>9, <2>1, <2>2, <2>3, <2>4
<1>14. Explicit' = Explicit /\ UNCHANGED <<input, seen, fieldTypes>>
  BY <1>1 DEF Explicit
<1> QED
  BY <1>10, <1>12, <1>13, <1>14 DEF TypesInv

LEMMA DeclaredTypes ==
    ASSUME TypesInv, BindInv, ParseSchemaFromColumnsParameter \/ ParseSchemaFromAtlasDocument
    PROVE  \A c \in DOMAIN columns' : columns'[c].list \in Nat
<1>1. \E names \in SUBSET DOMAIN input.declared : Declared(names)
  BY DEF ParseSchemaFromColumnsParameter, ParseSchemaFromAtlasDocument, Valid
<1>2. PICK names \in SUBSET DOMAIN input.declared : Declared(names)
  BY <1>1
<1> DEFINE id == [name \in {IdName} |-> Atomic("VARCHAR")]
           types == [name \in names |-> input.declared[name].type]
<1>3. columns' = Update(id, types)
  BY <1>2 DEF Declared
<1>4. /\ DOMAIN id = {IdName} /\ id[IdName].list \in Nat
      /\ DOMAIN types = names /\ \A name \in names : types[name].list \in Nat
  <2>1. \A name \in DOMAIN input.declared : input.declared[name].type.list \in Nat
    BY InferenceAssumption DEF BindInv
  <2>2. Atomic("VARCHAR").list \in Nat
    BY AtomicFlat DEF Flat
  <2> QED
    BY <2>1, <2>2
<1> HIDE DEF id, types
<1>5. ASSUME NEW c \in DOMAIN columns' PROVE columns'[c].list \in Nat
  <2>1. c \in DOMAIN id \union DOMAIN types
    BY <1>3, UpdateDomain
  <2>2. CASE c \in names
    BY <1>3, <1>4, <2>2, UpdateNew
  <2>3. CASE c \notin names
    <3>1. c = IdName
      BY <1>4, <2>1, <2>3
    <3>2. Update(id, types)[c] = id[c]
      BY <1>4, <2>3, <3>1, UpdateOld
    <3> QED
      BY <1>3, <1>4, <3>1, <3>2
  <2> QED
    BY <2>2, <2>3
<1> QED
  BY <1>5

LEMMA TypesNext == TypesInv /\ BindInv /\ [Next]_vars => TypesInv'
<1> SUFFICES ASSUME TypesInv, BindInv, [Next]_vars PROVE TypesInv'
  OBVIOUS
<1>1. Tally'
  BY TallySteps DEF TypesInv
<1>2. CASE InferColumns
  BY <1>1, <1>2, InferColumnsTypes
<1>3. CASE ParseSchemaFromColumnsParameter \/ ParseSchemaFromAtlasDocument
  <2>1. Explicit /\ input' = input
    BY <1>3 DEF ParseSchemaFromColumnsParameter, ParseSchemaFromAtlasDocument, Explicit
  <2>2. Explicit'
    BY <2>1 DEF Explicit
  <2> QED
    BY <1>1, <1>3, <2>2, DeclaredTypes DEF TypesInv
<1>4. CASE stage' \in {"bind", "refused"}
  BY <1>1, <1>4 DEF TypesInv
<1>5. CASE stage \notin {"bind", "refused"} /\ UNCHANGED <<input, seen, fieldTypes, paths, columns>>
  <2>1. Explicit' = Explicit
    BY <1>5 DEF Explicit
  <2> QED
    BY <1>1, <1>5, <2>1 DEF TypesInv
<1>6. \/ InferColumns \/ ParseSchemaFromColumnsParameter \/ ParseSchemaFromAtlasDocument
      \/ stage' \in {"bind", "refused"}
      \/ stage \notin {"bind", "refused"} /\ UNCHANGED <<input, seen, fieldTypes, paths, columns>>
  <2>1. CASE Next
    BY <2>1 DEF Next, Bind, SampleDocument, SampleFails, FindFails, RefuseColumnsParameter,
         RefuseSchemaDocument, MongoScanInitLocal, FlattenDocument, RaiseViolation, EndChunk, AtDocument, bindVars
  <2>2. CASE UNCHANGED vars
    BY <2>2 DEF vars, bindVars
  <2> QED
    BY <2>1, <2>2
<1> QED
  BY <1>2, <1>3, <1>4, <1>5, <1>6

LEMMA TypesHold == Spec => []TypesInv
<1>1. Init => TypesInv
  BY TallyInit DEF Init, BindInit, TypesInv
<1>2. TypesInv /\ BindInv /\ [Next]_vars => TypesInv'
  BY TypesNext
<1> QED
  BY <1>1, <1>2, BindHolds, PTL DEF Spec

-----------------------------------------------------------------------------
(* The invariant of the scan.                                               *)

(* Of every column that is read or validated, the field or one above it was   *)
(* asked for.                                                              *)
Asked == IF Enforced THEN DOMAIN columns ELSE ToSet(select)
Requested ==
    /\ select \in Seq(DOMAIN columns)
    /\ \A c \in Asked \union ToSet(select) : \E p \in projection : IsPrefix(p, paths[c])
    /\ projection \subseteq {IdPath} \union {paths[m] : m \in DOMAIN columns}

Progress ==
    /\ chunk \in Seq(Docs) /\ Len(chunk) <= ChunkSize
    /\ IsSequence(delivered)
    /\ Rows \in Seq(Docs)
    /\ next \in 1..(Len(input.docs) + 1)
    /\ stage = "done" => chunk = <<>> /\ next = Len(input.docs) + 1
    /\ stage = "failed" => next \in Docs /\ Explicit /\ input.mode = "failfast"

Ordered(docs, end) ==
    /\ \A r \in DOMAIN docs : docs[r] \in 1..(end - 1)
    /\ \A r, s \in DOMAIN docs : r < s => docs[r] < docs[s]

IsCell(cell) == cell = [value |-> cell.value, valid |-> cell.valid] /\ cell.valid \in BOOLEAN
CellsAre ==
    /\ cells = [slot \in 1..ChunkSize |-> cells[slot]]
    /\ \A slot \in 1..ChunkSize : /\ DOMAIN cells[slot] = DOMAIN select
                                  /\ \A k \in DOMAIN select : IsCell(cells[slot][k])

(* The one way a NULL of a dropped document is left in a slot.               *)
Leftovers == Enforced /\ input.mode = "dropmalformed" /\ ~AllReadAlike
Fresh(slot) == \A k \in DOMAIN select : slot[k].valid

(* What a delivered cell may show.                                          *)
ScalarRight(d, c, shown) ==
    LET field == ElementAt(d, paths[c])
    IN  \/ shown = Read(columns[c].base, field)
        \/ field = Missing /\ shown = Read(columns[c].base, Sent(d, projection, Parts(c)))
        \/ ~Explicit /\ Violates(d, c)
        \/ shown = Null /\ Leftovers
Right(d, c, shown) ==
    /\ Scalar(columns[c]) => ScalarRight(d, c, shown)
    /\ columns[c].list > 0 => shown = ListValue(d, c)

ChunkRight ==
    /\ \A r \in DOMAIN chunk : \A k \in DOMAIN select : Right(input.docs[chunk[r]], select[k], Shown(cells[r])[k])
    /\ \A r \in DOMAIN delivered : \A k \in DOMAIN select :
          Right(input.docs[delivered[r].doc], select[k], delivered[r].shown[k])

Output == Rows \o chunk
Counted == [i \in 1..(next - 1) |-> i]
Wanted == {i \in Docs : Enforced => Conforms(input.docs[i])}
Honoured ==
    AllReadAlike =>
       /\ Output = Keep(Counted, Wanted)
       /\ Explicit /\ input.mode = "failfast" => 1..(next - 1) \subseteq Wanted
       /\ stage = "failed" => next \notin Wanted

ScanInv ==
    /\ Unopened => delivered = <<>> /\ chunk = <<>> /\ next = 1
    /\ Opened =>
          /\ Requested /\ Progress /\ CellsAre /\ Ordered(Output, next)
          /\ \A slot \in (Len(chunk) + 1)..ChunkSize : Fresh(cells[slot]) \/ Leftovers
          /\ ChunkRight /\ Honoured

-----------------------------------------------------------------------------
(* One document.                                                            *)

LEMMA ElementIs ==
    ASSUME NEW d, NEW c, \E p \in projection : IsPrefix(p, paths[c])
    PROVE  \/ Element(d, c) = ElementAt(d, paths[c])
           \/ ElementAt(d, paths[c]) = Missing /\ Element(d, c) = Sent(d, projection, Parts(c))
<1>1. Sent(d, projection, paths[c]) = ElementAt(d, paths[c])
  BY SentAsItIs
<1> QED
  BY <1>1 DEF Element, FlattenedElement

LEMMA CompleteIs ==
    ASSUME NEW d, select \in Seq(DOMAIN columns)
    PROVE  /\ Complete(d) <=> \A k \in DOMAIN select : ~(Enforced /\ Violates(d, select[k]))
           /\ Complete(d) => StopsAt(d) = Len(select) + 1
           /\ StopsAt(d) \in Nat
<1> DEFINE bad == {k \in DOMAIN select : Enforced /\ Violates(d, select[k])}
           least == CHOOSE k \in bad : \A j \in bad : k <= j
<1>1. StopsAt(d) = IF bad = {} THEN Len(select) + 1 ELSE least
  BY DEF StopsAt
<1>2. bad \subseteq 1..Len(select) /\ Len(select) \in Nat
  OBVIOUS
<1>3. bad = {} <=> \A k \in DOMAIN select : ~(Enforced /\ Violates(d, select[k]))
  OBVIOUS
<1>4. ASSUME bad # {} PROVE least \in bad
  <2> HIDE DEF bad
  <2>0. bad \subseteq Nat
    BY <1>2
  <2>1. \E k \in bad : \A j \in bad : k <= j
    BY <2>0, <1>4, LeastElement
  <2> QED
    BY <2>1
<1> HIDE DEF bad, least
<1>5. CASE bad = {}
  <2>1. StopsAt(d) = Len(select) + 1
    BY <1>1, <1>5
  <2> QED
    BY <1>2, <1>3, <1>5, <2>1 DEF Complete
<1>6. CASE bad # {}
  <2>1. StopsAt(d) \in bad
    BY <1>1, <1>4, <1>6
  <2>2. StopsAt(d) \in 1..Len(select) /\ Len(select) \in Nat
    BY <1>2, <2>1
  <2>3. StopsAt(d) \in Nat /\ ~(StopsAt(d) > Len(select))
    BY <2>2
  <2> QED
    BY <1>3, <1>6, <2>3 DEF Complete
<1> QED
  BY <1>5, <1>6

(* Read alike, a document is valid exactly when it conforms, and then it is   *)
(* flattened to the end.                                                   *)
LEMMA Conforming ==
    ASSUME NEW d, ReadAlike(d), select \in Seq(DOMAIN columns)
    PROVE  /\ ValidateDocumentSchema(d) <=> Conforms(d)
           /\ Conforms(d) => Complete(d)
<1>1. ASSUME NEW c \in DOMAIN columns, Scalar(columns[c])
      PROVE  /\ ValidatedElement(d, projection, paths[c]) = ElementAt(d, paths[c])
             /\ Element(d, c) = ElementAt(d, paths[c])
             /\ ElementAt(d, paths[c])[1] # "undefined"
  BY <1>1 DEF ReadAlike
<1>2. ValidateDocumentSchema(d) <=> Conforms(d)
  BY <1>1 DEF ValidateDocumentSchema, Conforms
<1>3. ASSUME Conforms(d), NEW k \in DOMAIN select PROVE ~Violates(d, select[k])
  <2>1. select[k] \in DOMAIN columns
    OBVIOUS
  <2> QED
    BY <1>1, <1>3, <2>1 DEF Violates, Conforms
<1> QED
  BY <1>2, <1>3, CompleteIs

(* What flattening a field leaves in a cell, when the cell was valid or may   *)
(* hold a leftover.                                                        *)
LEMMA CellRight ==
    ASSUME NEW d, NEW c, NEW cell, IsCell(cell), \E p \in projection : IsPrefix(p, paths[c])
    PROVE  LET after == CellAfter(cell, d, c)
           IN  /\ IsCell(after)
               /\ cell.valid \/ Leftovers => Right(d, c, IF after.valid THEN after.value ELSE Null)
<1> DEFINE after == CellAfter(cell, d, c)
           null == [value |-> cell.value, valid |-> FALSE]
           set(value) == IF value = Null THEN null ELSE [value |-> value, valid |-> TRUE]
           shown == IF after.valid THEN after.value ELSE Null
           read == Read(columns[c].base, Element(d, c))
<1>2. \A value : IsCell(set(value))
  BY DEF IsCell
<1>3. CASE columns[c].list > 0
  <2>1. after = set(ListValue(d, c))
    <3>1. columns[c].list # 0 /\ ~Violates(d, c)
      BY <1>3 DEF Violates, Scalar
    <3> QED
      BY <1>3, <3>1, Zenon DEF CellAfter
  <2>2. ~Scalar(columns[c])
    BY <1>3 DEF Scalar
  <2>3. shown = ListValue(d, c)
    BY <2>1
  <2> QED
    BY <1>2, <2>1, <2>2, <2>3 DEF Right
<1>4. CASE ~(columns[c].list > 0) /\ columns[c].list = 0 /\ columns[c].base = "STRUCT"
  <2>1. after = set(StructValue(d, c))
    BY <1>4, Zenon DEF CellAfter, Violates, Scalar
  <2>2. ~Scalar(columns[c])
    BY <1>4 DEF Scalar
  <2> QED
    BY <1>2, <1>4, <2>1, <2>2 DEF Right
<1>5. CASE /\ ~(columns[c].list > 0) /\ ~(columns[c].list = 0 /\ columns[c].base = "STRUCT")
           /\ Violates(d, c)
  <2>1. after = IF Explicit THEN null ELSE cell
    BY <1>5 DEF CellAfter
  <2>2. IsCell(after)
    <3>1. IsCell(null)
      BY DEF IsCell
    <3> QED
      BY <2>1, <3>1
  <2>3. read = Null
    BY <1>5 DEF Violates, Read
  <2>4. ASSUME Explicit PROVE shown = read
    BY <2>1, <2>3, <2>4
  <2> HIDE DEF after, read
  <2>6. ASSUME Explicit PROVE Right(d, c, shown)
    <3>1. \/ shown = Read(columns[c].base, ElementAt(d, paths[c]))
          \/ /\ ElementAt(d, paths[c]) = Missing
             /\ shown = Read(columns[c].base, Sent(d, projection, Parts(c)))
      BY <2>4, <2>6, ElementIs DEF read
    <3> QED
      BY <1>5, <3>1 DEF Right, ScalarRight
  <2>7. ASSUME ~Explicit PROVE Right(d, c, shown)
    BY <1>5, <2>7 DEF Right, ScalarRight
  <2> QED
    BY <2>2, <2>6, <2>7 DEF after
<1>6. CASE /\ ~(columns[c].list > 0) /\ ~(columns[c].list = 0 /\ columns[c].base = "STRUCT")
           /\ ~Violates(d, c)
  <2>1. after = IF read = Null THEN null ELSE [value |-> read, valid |-> cell.valid]
    BY <1>6 DEF CellAfter
  <2> HIDE DEF read
  <2>3. IsCell(after)
    <3>1. IsCell(null)
      BY DEF IsCell
    <3>2. cell.valid \in BOOLEAN
      BY DEF IsCell
    <3>3. IsCell([value |-> read, valid |-> cell.valid])
      BY <3>2 DEF IsCell
    <3> QED
      BY <2>1, <3>1, <3>3
  <2>4. shown = read \/ (shown = Null /\ ~cell.valid)
    BY <2>1 DEF IsCell
  <2> HIDE DEF after
  <2>6. ASSUME shown = read PROVE Right(d, c, shown)
    <3>1. \/ shown = Read(columns[c].base, ElementAt(d, paths[c]))
          \/ /\ ElementAt(d, paths[c]) = Missing
             /\ shown = Read(columns[c].base, Sent(d, projection, Parts(c)))
      BY <2>6, ElementIs DEF read
    <3> QED
      BY <1>6, <3>1 DEF Right, ScalarRight
  <2>7. ASSUME shown = Null, Leftovers PROVE Right(d, c, shown)
    BY <1>6, <2>7 DEF Right, ScalarRight
  <2> QED
    BY <2>3, <2>4, <2>6, <2>7 DEF after
<1> QED
  BY <1>3, <1>4, <1>5, <1>6

-----------------------------------------------------------------------------
(* Sequences.                                                               *)

LEMMA CountAppend ==
    ASSUME NEW n \in Nat \ {0}
    PROVE  /\ [i \in 1..(n - 1) |-> i] \in Seq(Nat)
           /\ [i \in 1..n |-> i] = Append([i \in 1..(n - 1) |-> i], n)
<1> DEFINE s == [i \in 1..(n - 1) |-> i]
           t == [i \in 1..n |-> i]
<1>1. n - 1 \in Nat /\ (n - 1) + 1 = n
  OBVIOUS
<1>2. s \in Seq(Nat) /\ Len(s) = n - 1
  <2>1. \A i \in 1..(n - 1) : i \in Nat
    OBVIOUS
  <2> QED
    BY <1>1, <2>1
<1>3. DOMAIN Append(s, n) = 1..n /\ \A i \in 1..n : Append(s, n)[i] = i
  <2>1. \A i \in 1..n : i = n \/ i \in 1..(n - 1)
    OBVIOUS
  <2>2. \A i \in 1..(n - 1) : s[i] = i
    OBVIOUS
  <2> HIDE DEF s
  <2>3. DOMAIN Append(s, n) = 1..((n - 1) + 1) /\ Append(s, n)[n] = n
        /\ \A i \in 1..(n - 1) : Append(s, n)[i] = s[i]
    BY <1>1, <1>2
  <2> QED
    BY <1>1, <2>1, <2>2, <2>3
<1>4. Append(s, n) \in Seq(Nat)
  BY <1>2
<1> HIDE DEF s
<1>5. Append(s, n) = t
  <2> DEFINE u == Append(s, n)
  <2>1. u \in Seq(Nat) /\ DOMAIN u = 1..n /\ \A i \in 1..n : u[i] = i
    BY <1>3, <1>4
  <2> HIDE DEF u
  <2>2. u = [i \in DOMAIN u |-> u[i]]
    BY <2>1
  <2> QED
    BY <2>1, <2>2 DEF u
<1> QED
  BY <1>2, <1>5 DEF s

LEMMA OrderedLater ==
    ASSUME NEW s \in Seq(Nat), NEW n \in Nat, Ordered(s, n)
    PROVE  Ordered(s, n + 1)
BY DEF Ordered

LEMMA OrderedAppend ==
    ASSUME NEW s \in Seq(Nat), NEW n \in Nat \ {0}, Ordered(s, n)
    PROVE  Ordered(Append(s, n), n + 1)
<1> DEFINE t == Append(s, n)
<1>1. DOMAIN t = 1..(Len(s) + 1) /\ DOMAIN s = 1..Len(s) /\ Len(s) \in Nat
      /\ t[Len(s) + 1] = n /\ \A r \in 1..Len(s) : t[r] = s[r] /\ s[r] \in 1..(n - 1)
  BY DEF Ordered
<1> HIDE DEF t
<1>2. ASSUME NEW r \in DOMAIN t PROVE t[r] \in 1..n
  <2>1. r = Len(s) + 1 \/ r \in 1..Len(s)
    BY <1>1
  <2> QED
    BY <1>1, <2>1
<1>3. ASSUME NEW r \in DOMAIN t, NEW q \in DOMAIN t, r < q PROVE t[r] < t[q]
  <2>1. r \in 1..Len(s) /\ (q = Len(s) + 1 \/ q \in 1..Len(s))
    BY <1>1, <1>3
  <2>2. CASE q = Len(s) + 1
    BY <1>1, <2>1, <2>2
  <2>3. CASE q \in 1..Len(s)
    <3>1. s[r] < s[q]
      BY <1>1, <1>3, <2>1, <2>3 DEF Ordered
    <3> QED
      BY <1>1, <2>1, <2>3, <3>1
  <2> QED
    BY <2>1, <2>2, <2>3
<1>4. (n + 1) - 1 = n
  OBVIOUS
<1> QED
  BY <1>2, <1>3, <1>4 DEF t, Ordered

-----------------------------------------------------------------------------
(* The steps of a scan.                                                     *)

Static == <<input, columns, paths, projection, select>>

LEMMA Unmoved ==
    ASSUME UNCHANGED Static
    PROVE  /\ Docs' = Docs /\ Explicit' = Explicit /\ Enforced' = Enforced
           /\ AllReadAlike' = AllReadAlike /\ Leftovers' = Leftovers
           /\ Wanted' = Wanted /\ Requested' = Requested
<1>1. UNCHANGED <<input, columns, paths, projection, select>>
  BY DEF Static
<1>2. Docs' = Docs /\ Explicit' = Explicit /\ Enforced' = Enforced
  BY <1>1 DEF Docs, Explicit, Enforced
<1>3. AllReadAlike' = AllReadAlike
  BY <1>1 DEF AllReadAlike, ReadAlike, Docs, Element
<1>4. Leftovers' = Leftovers
  BY <1>1, <1>2, <1>3 DEF Leftovers
<1>5. Wanted' = Wanted
  BY <1>1 DEF Wanted, Conforms, Docs, Enforced, Explicit
<1>6. Requested' = Requested
  BY <1>1, <1>2 DEF Requested, Asked
<1> QED
  BY <1>2, <1>3, <1>4, <1>5, <1>6

LEMMA RightAfter ==
    ASSUME UNCHANGED Static,
           \A r \in DOMAIN chunk' : \A k \in DOMAIN select :
              Right(input.docs[chunk'[r]], select[k], Shown(cells'[r])[k]),
           \A r \in DOMAIN delivered' : \A k \in DOMAIN select :
              Right(input.docs[delivered'[r].doc], select[k], delivered'[r].shown[k])
    PROVE  ChunkRight'
<1>1. UNCHANGED <<input, columns, paths, projection, select>>
  BY DEF Static
<1>2. Leftovers' = Leftovers
  BY Unmoved
<1>4. ASSUME NEW r \in DOMAIN chunk', NEW k \in DOMAIN select
      PROVE  Right(input.docs[chunk[r]], select[k], Shown(cells[r])[k])'
  <2>1. Right(input.docs[chunk'[r]], select[k], Shown(cells'[r])[k])
    OBVIOUS
  <2>2. (Scalar(columns[select[k]]) =>
            ScalarRight(input.docs[chunk[r]], select[k], Shown(cells[r])[k]))'
    BY <1>1, <1>2, <2>1 DEF Right, ScalarRight, Violates, Element, Shown, Explicit
  <2>3. (columns[select[k]].list > 0 =>
            Shown(cells[r])[k] = ListValue(input.docs[chunk[r]], select[k]))'
    BY <1>1, <2>1 DEF Right, Shown, ListValue, Nested
  <2> QED
    BY <2>2, <2>3 DEF Right
<1>5. ASSUME NEW r \in DOMAIN delivered', NEW k \in DOMAIN select
      PROVE  Right(input.docs[delivered[r].doc], select[k], delivered[r].shown[k])'
  <2>1. Right(input.docs[delivered'[r].doc], select[k], delivered'[r].shown[k])
    OBVIOUS
  <2>2. (Scalar(columns[select[k]]) =>
            ScalarRight(input.docs[delivered[r].doc], select[k], delivered[r].shown[k]))'
    BY <1>1, <1>2, <2>1 DEF Right, ScalarRight, Violates, Element, Explicit
  <2>3. (columns[select[k]].list > 0 =>
            delivered[r].shown[k] = ListValue(input.docs[delivered[r].doc], select[k]))'
    BY <1>1, <2>1 DEF Right, ListValue, Nested
  <2> QED
    BY <2>2, <2>3 DEF Right
<1> QED
  BY <1>1, <1>4, <1>5 DEF ChunkRight

LEMMA ScanInit == Init => ScanInv
BY DEF Init, BindInit, ScanInv, Unopened, Opened

LEMMA BindScan ==
    ASSUME ScanInv, Bind
    PROVE  ScanInv'
<1>1. stage = "bind" /\ stage' \in {"bind", "bound", "refused"} /\ UNCHANGED rowVars
  BY DEF Bind, SampleDocument, SampleFails, FindFails, InferColumns, ParseSchemaFromColumnsParameter,
         RefuseColumnsParameter, ParseSchemaFromAtlasDocument, RefuseSchemaDocument
<1> QED
  BY <1>1 DEF ScanInv, Unopened, Opened, rowVars

LEMMA OpenScan ==
    ASSUME ScanInv, BindInv, MongoScanInitLocal
    PROVE  ScanInv'
<1>1. /\ stage = "bound" /\ stage' \in {"scan", "refused"}
      /\ UNCHANGED <<input, paths, columns, next, chunk, delivered>>
      /\ select' \in Seq(DOMAIN columns)
      /\ projection' = BuildMongoProjection({paths[c] : c \in IF Enforced THEN DOMAIN columns ELSE ToSet(select')}, PathOrder)
      /\ cells' = [slot \in 1..ChunkSize |-> [k \in DOMAIN select' |-> [value |-> Garbage, valid |-> TRUE]]]
  BY DEF MongoScanInitLocal
<1>2. chunk = <<>> /\ delivered = <<>> /\ next = 1
  BY <1>1 DEF ScanInv, Unopened
<1>3. CASE stage' = "refused"
  BY <1>1, <1>2, <1>3 DEF ScanInv, Unopened, Opened
<1>4. CASE stage' = "scan"
  <2>1. Docs' = Docs /\ Enforced' = Enforced
    BY <1>1 DEF Docs, Enforced, Explicit
  <2>2. Requested'
    <3> DEFINE wanted == IF Enforced THEN DOMAIN columns ELSE ToSet(select')
               asked == {paths[c] : c \in wanted}
    <3>1. Asked' = wanted
      BY <1>1, <2>1 DEF Asked
    <3>2. \A c \in ToSet(select') : c \in DOMAIN columns
      BY <1>1 DEF ToSet
    <3>3. Asked' \union ToSet(select') = wanted /\ wanted \subseteq DOMAIN columns
      BY <3>1, <3>2
    <3>4. projection' = BuildMongoProjection(asked, PathOrder)
      BY <1>1
    <3>5. \A c \in DOMAIN columns : paths[c] \in ToSet(PathOrder)
      BY <1>1 DEF BindInv, ColumnsHavePaths
    <3> HIDE DEF wanted
    <3>6. ASSUME NEW c \in wanted PROVE \E p \in projection' : IsPrefix(p, paths'[c])
      <4>1. paths[c] \in asked /\ paths[c] \in ToSet(PathOrder)
        BY <3>3, <3>5
      <4>2. PathOrder \in Seq(Seq(Seq(STRING)) \ {<<>>})
        BY InferenceAssumption
      <4> HIDE DEF asked
      <4>3. \E p \in BuildMongoProjection(asked, PathOrder) : IsPrefix(p, paths[c])
        BY <4>1, <4>2, ProjectionCovers
      <4> QED
        BY <1>1, <3>4, <4>3
    <3>7. projection' \subseteq {IdPath} \union {paths[m] : m \in DOMAIN columns}
      <4>1. PathOrder \in Seq(Seq(Seq(STRING)) \ {<<>>})
        BY InferenceAssumption
      <4>2. projection' \subseteq {IdPath} \union asked
        BY <3>4, <4>1, ProjectionAsked
      <4> QED
        BY <3>3, <4>2
    <3> QED
      BY <1>1, <3>3, <3>6, <3>7 DEF Requested
  <2>3. /\ chunk' = <<>> /\ delivered' = <<>> /\ next' = 1
        /\ Len(input.docs) \in Nat /\ input' = input /\ ChunkSize \in Nat
    BY <1>1, <1>2, InputFacts, RowsAssumption DEF BindInv
  <2>4. Rows' = <<>> /\ Output' = <<>>
    BY <2>3 DEF Rows, Output
  <2>5. Progress'
    <3>1. IsSequence(delivered')
      BY <2>3 DEF IsSequence
    <3>2. chunk' \in Seq(Docs') /\ Len(chunk') <= ChunkSize /\ Rows' \in Seq(Docs')
      BY <2>3, <2>4
    <3>3. next' \in 1..(Len(input'.docs) + 1)
      BY <2>3
    <3> QED
      BY <1>4, <3>1, <3>2, <3>3 DEF Progress, IsSequence
  <2>6. \A slot \in 1..ChunkSize : /\ DOMAIN cells'[slot] = DOMAIN select'
                                   /\ \A k \in DOMAIN select' : IsCell(cells'[slot][k]) /\ cells'[slot][k].valid
    BY <1>1 DEF IsCell
  <2>7. CellsAre'
    BY <1>1, <2>6 DEF CellsAre, IsCell
  <2>8. Ordered(Output', next')
    BY <2>4 DEF Ordered
  <2>9. \A slot \in (Len(chunk') + 1)..ChunkSize : \A k \in DOMAIN select' : cells'[slot][k].valid
    BY <2>3, <2>6
  <2>10. ChunkRight'
    BY <2>3 DEF ChunkRight
  <2>11. Honoured'
    <3>1. Counted' = <<>>
      BY <2>3 DEF Counted
    <3>2. Keep(Counted', Wanted') = <<>>
      BY <3>1, KeepEmpty
    <3> QED
      BY <1>4, <2>3, <2>4, <3>2 DEF Honoured
  <2> QED
    BY <1>4, <2>2, <2>5, <2>7, <2>8, <2>9, <2>10, <2>11 DEF ScanInv, Unopened, Opened, Fresh, Ordered
<1> QED
  BY <1>1, <1>3, <1>4

(* A document becomes a row.                                                *)
LEMMA RowScan ==
    ASSUME ScanInv, BindInv, FlattenDocument, Complete(input.docs[next]),
           Enforced => ValidateDocumentSchema(input.docs[next])
    PROVE  ScanInv'
<1> DEFINE d == input.docs[next]
           n == Len(chunk) + 1
           slot == cells[n]
           filled == [k \in DOMAIN select |-> CellAfter(slot[k], d, select[k])]
<1>1. /\ stage = "scan" /\ UNCHANGED <<stage, delivered>> /\ UNCHANGED Static
      /\ n <= ChunkSize /\ next \in Docs /\ next' = next + 1
      /\ Len(input.docs) \in Nat /\ Docs = 1..Len(input.docs)
      /\ Requested /\ Progress /\ CellsAre /\ Ordered(Output, next) /\ ChunkRight /\ Honoured
      /\ \A s \in n..ChunkSize : Fresh(cells[s]) \/ Leftovers
  <2>1. stage = "scan" /\ UNCHANGED <<stage, delivered>> /\ UNCHANGED Static /\ next' = next + 1
        /\ Len(chunk) < ChunkSize /\ next <= Len(input.docs)
    BY DEF FlattenDocument, AtDocument, Static, bindVars
  <2>2. /\ Requested /\ Progress /\ CellsAre /\ Ordered(Output, next) /\ ChunkRight /\ Honoured
        /\ \A s \in n..ChunkSize : Fresh(cells[s]) \/ Leftovers
    BY <2>1 DEF ScanInv, Opened
  <2>3. Len(input.docs) \in Nat /\ Docs = 1..Len(input.docs) /\ ChunkSize \in Nat
    BY InputFacts, RowsAssumption DEF BindInv
  <2>4. Len(chunk) \in Nat /\ next \in 1..(Len(input.docs) + 1)
    BY <2>2 DEF Progress
  <2> QED
    BY <2>1, <2>2, <2>3, <2>4
<1>2. /\ chunk' = Append(chunk, next)
      /\ cells' = [cells EXCEPT ![n] = SlotAfter(slot, d)]
  BY DEF FlattenDocument
<1>3. chunk \in Seq(Docs) /\ Len(chunk) \in Nat /\ Rows \in Seq(Docs) /\ Rows' = Rows
  BY <1>1 DEF Progress, Rows
<1>4. /\ chunk' \in Seq(Docs) /\ Len(chunk') = n /\ DOMAIN chunk' = 1..n
      /\ chunk'[n] = next /\ \A r \in 1..Len(chunk) : chunk'[r] = chunk[r]
  BY <1>1, <1>2, <1>3
<1>5. Output \in Seq(Docs) /\ Output' = Append(Output, next)
  BY <1>1, <1>2, <1>3, AppendToConcat DEF Output
<1>6. SlotAfter(slot, d) = filled
  <2>1. select \in Seq(DOMAIN columns)
    BY <1>1 DEF Requested
  <2>2. StopsAt(d) = Len(select) + 1
    BY <2>1, CompleteIs
  <2>3. \A k \in DOMAIN select : k < StopsAt(d)
    BY <2>1, <2>2
  <2> QED
    BY <2>3 DEF SlotAfter
<1>7. /\ DOMAIN slot = DOMAIN select /\ n \in 1..ChunkSize
      /\ \A k \in DOMAIN select : IsCell(slot[k]) /\ (slot[k].valid \/ Leftovers)
  <2>1. n \in 1..ChunkSize /\ n \in n..ChunkSize
    BY <1>1, <1>3, RowsAssumption
  <2> QED
    BY <1>1, <2>1 DEF CellsAre, Fresh
<1>8. ASSUME NEW k \in DOMAIN select
      PROVE  IsCell(filled[k]) /\ Right(d, select[k], IF filled[k].valid THEN filled[k].value ELSE Null)
  <2>1. \E p \in projection : IsPrefix(p, paths[select[k]])
    BY <1>1 DEF Requested, ToSet
  <2>2. IsCell(slot[k]) /\ (slot[k].valid \/ Leftovers)
    BY <1>7
  <2> HIDE DEF slot, d
  <2>3. filled[k] = CellAfter(slot[k], d, select[k])
    OBVIOUS
  <2> HIDE DEF filled
  <2> QED
    BY <2>1, <2>2, <2>3, CellRight
<1>9. /\ cells' = [s \in 1..ChunkSize |-> cells'[s]]
      /\ cells'[n] = filled
      /\ \A s \in 1..ChunkSize \ {n} : cells'[s] = cells[s]
  <2> HIDE DEF filled, n
  <2>1. cells = [s \in 1..ChunkSize |-> cells[s]]
    BY <1>1 DEF CellsAre
  <2>2. cells' = [cells EXCEPT ![n] = filled]
    BY <1>2, <1>6
  <2> QED
    BY <1>7, <2>1, <2>2
<1>10. CellsAre'
  <2>1. ASSUME NEW s \in 1..ChunkSize
        PROVE  DOMAIN cells'[s] = DOMAIN select /\ \A k \in DOMAIN select : IsCell(cells'[s][k])
    BY <1>1, <1>8, <1>9, <2>1 DEF CellsAre
  <2> QED
    BY <1>1, <1>9, <2>1 DEF CellsAre, IsCell, Static
<1>11. ASSUME NEW s \in (Len(chunk') + 1)..ChunkSize
       PROVE  Leftovers \/ \A k \in DOMAIN select : cells'[s][k].valid
  <2>1. s \in 1..ChunkSize \ {n} /\ s \in n..ChunkSize
    BY <1>3, <1>4
  <2> QED
    BY <1>1, <1>9, <2>1 DEF Fresh
<1>12. ChunkRight'
  <2>1. ASSUME NEW r \in DOMAIN chunk', NEW k \in DOMAIN select
        PROVE  Right(input.docs[chunk'[r]], select[k], Shown(cells'[r])[k])
    <3>1. CASE r = n
      <4>1. chunk'[r] = next /\ cells'[r] = filled
        BY <1>4, <1>9, <3>1
      <4>2. Shown(cells'[r])[k] = IF filled[k].valid THEN filled[k].value ELSE Null
        BY <4>1 DEF Shown
      <4> QED
        BY <1>8, <4>1, <4>2
    <3>2. CASE r # n
      <4>1. r \in DOMAIN chunk /\ chunk'[r] = chunk[r] /\ cells'[r] = cells[r]
        <5>1. r \in 1..Len(chunk) /\ r # n
          BY <1>3, <1>4, <3>2
        <5>2. r \in 1..ChunkSize \ {n} /\ r \in DOMAIN chunk
          BY <1>1, <1>3, <5>1, RowsAssumption
        <5> QED
          BY <1>4, <1>9, <5>1, <5>2
      <4> QED
        BY <1>1, <4>1 DEF ChunkRight
    <3> QED
      BY <3>1, <3>2
  <2>2. \A r \in DOMAIN delivered' : \A k \in DOMAIN select :
           Right(input.docs[delivered'[r].doc], select[k], delivered'[r].shown[k])
    BY <1>1 DEF ChunkRight
  <2> QED
    BY <1>1, <2>1, <2>2, RightAfter
<1>13. Progress'
  <2>1. Docs' = Docs /\ input' = input
    BY <1>1, Unmoved DEF Static
  <2>2. IsSequence(delivered')
    BY <1>1 DEF Progress
  <2> QED
    BY <1>1, <1>3, <1>4, <2>1, <2>2 DEF Progress, IsSequence
<1>14. Ordered(Output', next')
  <2>1. next \in Nat \ {0} /\ Output \in Seq(Nat)
    BY <1>1, <1>5
  <2> QED
    BY <1>1, <1>5, <2>1, OrderedAppend
<1>15. ASSUME AllReadAlike
       PROVE  next \in Wanted /\ Output' = Keep(Counted', Wanted)
  <2>1. ReadAlike(d) /\ select \in Seq(DOMAIN columns)
    BY <1>1, <1>15 DEF AllReadAlike, Requested
  <2>2. next \in Wanted
    BY <1>1, <2>1, Conforming DEF Wanted
  <2>3. Counted \in Seq(Nat) /\ Counted' = Append(Counted, next) /\ next \in Nat
    <3>1. next \in Nat \ {0} /\ (next + 1) - 1 = next
      BY <1>1
    <3> QED
      BY <1>1, <3>1, CountAppend DEF Counted
  <2> QED
    BY <1>1, <1>5, <1>15, <2>2, <2>3, KeepAppend DEF Honoured
<1>16. Honoured'
  <2>1. AllReadAlike' = AllReadAlike /\ Wanted' = Wanted /\ Explicit' = Explicit /\ input' = input
    BY <1>1, Unmoved DEF Static
  <2>2. \A i \in 1..(next' - 1) : i = next \/ i \in 1..(next - 1)
    BY <1>1
  <2> QED
    BY <1>1, <1>15, <2>1, <2>2 DEF Honoured
<1>17. Requested' /\ Leftovers' = Leftovers /\ select' = select
  BY <1>1, Unmoved DEF Static
<1> QED
  BY <1>1, <1>10, <1>11, <1>12, <1>13, <1>14, <1>16, <1>17 DEF ScanInv, Opened, Unopened, Fresh, Ordered

(* A document is passed over: it is not valid, or, read in two ways, a field   *)
(* stops its flattening.                                                   *)
LEMMA DropScan ==
    ASSUME ScanInv, BindInv, FlattenDocument,
           ~((Enforced => ValidateDocumentSchema(input.docs[next])) /\ Complete(input.docs[next]))
    PROVE  ScanInv'
<1> DEFINE d == input.docs[next]
           n == Len(chunk) + 1
           valid == Enforced => ValidateDocumentSchema(d)
<1>1. /\ stage = "scan" /\ UNCHANGED <<stage, delivered>> /\ UNCHANGED Static
      /\ next \in Docs /\ next' = next + 1
      /\ Len(chunk) \in Nat /\ n \in 1..ChunkSize
      /\ Len(input.docs) \in Nat /\ Docs = 1..Len(input.docs)
      /\ Requested /\ Progress /\ CellsAre /\ Ordered(Output, next) /\ ChunkRight /\ Honoured
      /\ \A s \in n..ChunkSize : Fresh(cells[s]) \/ Leftovers
  <2>1. stage = "scan" /\ UNCHANGED <<stage, delivered>> /\ UNCHANGED Static /\ next' = next + 1
        /\ Len(chunk) < ChunkSize /\ next <= Len(input.docs)
    BY DEF FlattenDocument, AtDocument, Static, bindVars
  <2>2. /\ Requested /\ Progress /\ CellsAre /\ Ordered(Output, next) /\ ChunkRight /\ Honoured
        /\ \A s \in n..ChunkSize : Fresh(cells[s]) \/ Leftovers
    BY <2>1 DEF ScanInv, Opened
  <2>3. Len(input.docs) \in Nat /\ Docs = 1..Len(input.docs) /\ ChunkSize \in Nat
    BY InputFacts, RowsAssumption DEF BindInv
  <2>4. Len(chunk) \in Nat /\ next \in 1..(Len(input.docs) + 1)
    BY <2>2 DEF Progress
  <2> QED
    BY <2>1, <2>2, <2>3, <2>4
<1>2. /\ chunk' = chunk
      /\ cells' = IF valid THEN [cells EXCEPT ![n] = SlotAfter(cells[n], d)] ELSE cells
      /\ Explicit /\ input.mode = "failfast" => valid /\ Complete(d)
  BY DEF FlattenDocument
<1>3. select \in Seq(DOMAIN columns)
  BY <1>1 DEF Requested
<1>4. Enforced /\ input.mode = "dropmalformed" /\ Explicit
  <2>1. Enforced
    BY <1>3, CompleteIs
  <2>2. input.mode \in Modes /\ input.mode # "permissive"
    BY <2>1, InputFacts DEF Enforced, BindInv
  <2> QED
    BY <1>2, <2>1, <2>2 DEF Enforced, Modes
<1>5. ASSUME AllReadAlike PROVE ~valid /\ ~Conforms(d)
  <2>1. ReadAlike(d)
    BY <1>1, <1>5 DEF AllReadAlike
  <2> QED
    BY <1>3, <1>4, <2>1, Conforming
<1>6. valid => Leftovers
  BY <1>4, <1>5 DEF Leftovers
<1>7. /\ cells' = [s \in 1..ChunkSize |-> cells'[s]]
      /\ \A s \in 1..ChunkSize \ {n} : cells'[s] = cells[s]
      /\ cells'[n] = IF valid THEN SlotAfter(cells[n], d) ELSE cells[n]
  <2>1. cells = [s \in 1..ChunkSize |-> cells[s]]
    BY <1>1 DEF CellsAre
  <2> HIDE DEF valid, d, n
  <2> QED
    BY <1>1, <1>2, <2>1
<1>8. ASSUME NEW k \in DOMAIN select
      PROVE  IsCell(SlotAfter(cells[n], d)[k])
  <2>1. \E p \in projection : IsPrefix(p, paths[select[k]])
    BY <1>1 DEF Requested, ToSet
  <2>2. IsCell(cells[n][k])
    BY <1>1 DEF CellsAre
  <2>3. IsCell(CellAfter(cells[n][k], d, select[k]))
    <3> HIDE DEF d, n
    <3> QED
      BY <2>1, <2>2, CellRight
  <2> HIDE DEF d, n
  <2> QED
    BY <2>2, <2>3 DEF SlotAfter
<1>9. CellsAre'
  <2>1. ASSUME NEW s \in 1..ChunkSize
        PROVE  DOMAIN cells'[s] = DOMAIN select /\ \A k \in DOMAIN select : IsCell(cells'[s][k])
    <3>1. DOMAIN cells[s] = DOMAIN select /\ \A k \in DOMAIN select : IsCell(cells[s][k])
      BY <1>1 DEF CellsAre
    <3>2. DOMAIN SlotAfter(cells[n], d) = DOMAIN select
      BY DEF SlotAfter
    <3> HIDE DEF valid, d, n
    <3> QED
      BY <1>7, <1>8, <3>1, <3>2
  <2> QED
    BY <1>1, <1>7, <2>1 DEF CellsAre, IsCell, Static
<1>10. ASSUME NEW s \in (Len(chunk') + 1)..ChunkSize
       PROVE  Leftovers \/ \A k \in DOMAIN select : cells'[s][k].valid
  <2>1. s \in 1..ChunkSize /\ s \in n..ChunkSize
    BY <1>1, <1>2
  <2>2. Fresh(cells[s]) \/ Leftovers
    BY <1>1, <2>1
  <2>3. ~Leftovers => cells'[s] = cells[s]
    <3> HIDE DEF valid, d, n
    <3> QED
      BY <1>6, <1>7, <2>1
  <2> QED
    BY <2>2, <2>3 DEF Fresh
<1>11. ChunkRight'
  <2>1. ASSUME NEW r \in DOMAIN chunk', NEW k \in DOMAIN select
        PROVE  Right(input.docs[chunk'[r]], select[k], Shown(cells'[r])[k])
    <3>1. r \in DOMAIN chunk /\ chunk' = chunk /\ DOMAIN chunk = 1..Len(chunk)
      BY <1>1, <1>2 DEF Progress
    <3>2. r \in 1..ChunkSize \ {n}
      <4>1. r \in 1..Len(chunk) /\ ChunkSize \in Nat
        BY <3>1, RowsAssumption
      <4> QED
        BY <1>1, <4>1
    <3>3. cells'[r] = cells[r]
      <4> HIDE DEF valid, d, n
      <4> QED
        BY <1>7, <3>2
    <3> QED
      BY <1>1, <3>1, <3>3 DEF ChunkRight
  <2>2. \A r \in DOMAIN delivered' : \A k \in DOMAIN select :
           Right(input.docs[delivered'[r].doc], select[k], delivered'[r].shown[k])
    BY <1>1 DEF ChunkRight
  <2> QED
    BY <1>1, <2>1, <2>2, RightAfter
<1>12. Docs' = Docs /\ input' = input /\ Rows' = Rows /\ Output' = Output
  BY <1>1, <1>2, Unmoved DEF Static, Rows, Output
<1>13. Progress'
  <2>1. IsSequence(delivered')
    BY <1>1 DEF Progress
  <2> QED
    BY <1>1, <1>2, <1>12, <2>1 DEF Progress, IsSequence
<1>14. Ordered(Output', next')
  <2>1. chunk \in Seq(Docs) /\ Rows \in Seq(Docs)
    BY <1>1 DEF Progress
  <2>2. Output \in Seq(Nat) /\ next \in Nat
    BY <1>1, <2>1 DEF Output
  <2> QED
    BY <1>1, <1>12, <2>2, OrderedLater
<1>15. ASSUME AllReadAlike
       PROVE  next \notin Wanted /\ Output' = Keep(Counted', Wanted)
  <2>1. next \notin Wanted
    BY <1>4, <1>5, <1>15 DEF Wanted
  <2>2. Counted \in Seq(Nat) /\ Counted' = Append(Counted, next) /\ next \in Nat
    <3>1. next \in Nat \ {0} /\ (next + 1) - 1 = next
      BY <1>1
    <3> QED
      BY <1>1, <3>1, CountAppend DEF Counted
  <2> QED
    BY <1>1, <1>12, <1>15, <2>1, <2>2, KeepAppend DEF Honoured
<1>16. Honoured'
  <2>1. AllReadAlike' = AllReadAlike /\ Wanted' = Wanted /\ input' = input
    BY <1>1, Unmoved DEF Static
  <2> QED
    BY <1>1, <1>4, <1>15, <2>1 DEF Honoured
<1>17. Requested' /\ Leftovers' = Leftovers /\ select' = select
  BY <1>1, Unmoved DEF Static
<1> QED
  BY <1>1, <1>9, <1>10, <1>11, <1>13, <1>14, <1>16, <1>17 DEF ScanInv, Opened, Unopened, Fresh, Ordered

LEMMA RaiseScan ==
    ASSUME ScanInv, BindInv, RaiseViolation
    PROVE  ScanInv'
<1>1. /\ stage = "scan" /\ stage' = "failed" /\ Explicit /\ input.mode = "failfast"
      /\ UNCHANGED <<input, columns, paths, rowVars>> /\ next <= Len(input.docs)
      /\ ~ValidateDocumentSchema(input.docs[next]) \/ ~Complete(input.docs[next])
  BY DEF RaiseViolation, AtDocument
<1>2. /\ UNCHANGED Static /\ UNCHANGED <<next, chunk, cells, delivered>>
  BY <1>1 DEF rowVars, Static
<1>3. /\ Requested /\ Progress /\ CellsAre /\ Ordered(Output, next) /\ ChunkRight /\ Honoured
      /\ \A s \in (Len(chunk) + 1)..ChunkSize : Fresh(cells[s]) \/ Leftovers
  BY <1>1 DEF ScanInv, Opened
<1>4. next \in Docs
  BY <1>1, <1>3, InputFacts DEF BindInv, Progress
<1>5. Docs' = Docs /\ input' = input /\ Rows' = Rows /\ Output' = Output /\ Counted' = Counted /\ Explicit' = Explicit
      /\ AllReadAlike' = AllReadAlike /\ Wanted' = Wanted /\ Requested' /\ Leftovers' = Leftovers
  BY <1>2, <1>3, Unmoved DEF Static, Rows, Output, Counted
<1>6. CellsAre' /\ Ordered(Output', next')
  BY <1>2, <1>3, <1>5 DEF CellsAre, Static, IsCell
<1>7. ChunkRight'
  <2>1. /\ \A r \in DOMAIN chunk' : \A k \in DOMAIN select : Right(input.docs[chunk'[r]], select[k], Shown(cells'[r])[k])
        /\ \A r \in DOMAIN delivered' : \A k \in DOMAIN select :
              Right(input.docs[delivered'[r].doc], select[k], delivered'[r].shown[k])
    BY <1>2, <1>3 DEF ChunkRight
  <2> QED
    BY <1>2, <2>1, RightAfter
<1>8. Progress'
  BY <1>1, <1>2, <1>3, <1>4, <1>5 DEF Progress, IsSequence
<1>9. AllReadAlike => next \notin Wanted
  <2>1. ASSUME AllReadAlike PROVE ReadAlike(input.docs[next]) /\ select \in Seq(DOMAIN columns)
    BY <1>3, <1>4, <2>1 DEF AllReadAlike, Requested
  <2>2. ASSUME AllReadAlike PROVE ~Conforms(input.docs[next])
    BY <1>1, <2>1, <2>2, Conforming
  <2> QED
    BY <1>1, <2>2 DEF Wanted, Enforced
<1>10. Honoured'
  BY <1>2, <1>3, <1>5, <1>9 DEF Honoured
<1>11. \A s \in (Len(chunk') + 1)..ChunkSize : (\A k \in DOMAIN select' : cells'[s][k].valid) \/ Leftovers'
  BY <1>2, <1>3, <1>5 DEF Fresh, Static
<1> QED
  BY <1>1, <1>5, <1>6, <1>7, <1>8, <1>10, <1>11 DEF ScanInv, Opened, Unopened, Fresh, Ordered

LEMMA EndScan ==
    ASSUME ScanInv, BindInv, EndChunk
    PROVE  ScanInv'
<1> DEFINE rows == [r \in DOMAIN chunk |-> [doc |-> chunk[r], shown |-> Shown(cells[r])]]
           n == Len(delivered)
<1>1. /\ stage = "scan" /\ stage' = (IF next > Len(input.docs) THEN "done" ELSE "scan")
      /\ UNCHANGED Static /\ next' = next /\ chunk' = <<>>
      /\ delivered' = delivered \o rows /\ cells' = Reset
  BY DEF EndChunk, Static
<1>2. /\ Requested /\ Progress /\ CellsAre /\ Ordered(Output, next) /\ ChunkRight /\ Honoured
  BY <1>1 DEF ScanInv, Opened
<1>3. Len(input.docs) \in Nat /\ Docs = 1..Len(input.docs) /\ ChunkSize \in Nat
  BY InputFacts, RowsAssumption DEF BindInv
<1>4. /\ chunk \in Seq(Docs) /\ Len(chunk) \in Nat /\ DOMAIN chunk = 1..Len(chunk)
      /\ Rows \in Seq(Docs) /\ IsSequence(delivered) /\ next \in 1..(Len(input.docs) + 1)
  BY <1>2 DEF Progress
<1>5. IsSequence(rows) /\ Len(rows) = Len(chunk)
  <2>1. rows = [r \in 1..Len(chunk) |-> rows[r]]
    BY <1>4
  <2> HIDE DEF rows
  <2> QED
    BY <1>4, <2>1, FunctionSequence
<1>6. \A r \in 1..Len(chunk) : rows[r].doc = chunk[r] /\ rows[r].shown = Shown(cells[r])
  BY <1>4
<1> HIDE DEF rows
<1>7. /\ IsSequence(delivered') /\ DOMAIN delivered' = 1..(n + Len(chunk))
      /\ n \in Nat /\ DOMAIN delivered = 1..n
      /\ \A r \in 1..n : delivered'[r] = delivered[r]
      /\ \A r \in 1..Len(chunk) : delivered'[n + r] = rows[r]
  <2> HIDE DEF n
  <2>1. IsSequence(delivered) /\ IsSequence(rows)
    BY <1>4, <1>5
  <2>2. /\ IsSequence(delivered \o rows) /\ DOMAIN (delivered \o rows) = 1..(Len(delivered) + Len(rows))
        /\ Len(delivered) \in Nat /\ DOMAIN delivered = 1..Len(delivered)
        /\ \A r \in 1..Len(delivered) : (delivered \o rows)[r] = delivered[r]
        /\ \A r \in 1..Len(rows) : (delivered \o rows)[Len(delivered) + r] = rows[r]
    BY <2>1, Concatenated
  <2>3. delivered' = delivered \o rows /\ Len(rows) = Len(chunk)
    BY <1>1, <1>5
  <2> QED
    BY <2>2, <2>3 DEF n, IsSequence
<1>8. \A r \in DOMAIN delivered' : r \in 1..n \/ \E q \in 1..Len(chunk) : r = n + q
  <2>1. ASSUME NEW r \in 1..(n + Len(chunk)), r \notin 1..n PROVE r - n \in 1..Len(chunk) /\ r = n + (r - n)
    BY <1>4, <1>7, <2>1
  <2> QED
    BY <1>7, <2>1
<1>9. Rows' = Output
  <2>1. Rows' = [r \in 1..(n + Len(chunk)) |-> delivered'[r].doc] /\ Rows = [r \in 1..n |-> delivered[r].doc]
    BY <1>7 DEF Rows
  <2>2. Len(Rows) = n
    BY <1>4, <1>7, <2>1
  <2>3. /\ Output \in Seq(Docs) /\ DOMAIN Output = 1..(n + Len(chunk))
        /\ \A r \in 1..n : Output[r] = Rows[r]
        /\ \A r \in 1..Len(chunk) : Output[n + r] = chunk[r]
    <3>1. IsSequence(Rows) /\ IsSequence(chunk)
      BY <1>4, OwnSequence
    <3>2. Output \in Seq(Docs)
      BY <1>4 DEF Output
    <3>3. /\ DOMAIN (Rows \o chunk) = 1..(Len(Rows) + Len(chunk))
          /\ \A r \in 1..Len(Rows) : (Rows \o chunk)[r] = Rows[r]
          /\ \A r \in 1..Len(chunk) : (Rows \o chunk)[Len(Rows) + r] = chunk[r]
      BY <3>1, Concatenated
    <3> HIDE DEF n
    <3> QED
      BY <2>2, <3>2, <3>3 DEF Output
  <2>4. ASSUME NEW r \in 1..(n + Len(chunk)) PROVE delivered'[r].doc = Output[r]
    <3>1. CASE r \in 1..n
      BY <1>7, <2>1, <2>3, <3>1
    <3>2. CASE \E q \in 1..Len(chunk) : r = n + q
      <4>1. PICK q \in 1..Len(chunk) : r = n + q
        BY <3>2
      <4> QED
        BY <1>6, <1>7, <2>3, <4>1
    <3> QED
      BY <1>7, <1>8, <3>1, <3>2
  <2>5. Output = [r \in 1..(n + Len(chunk)) |-> Output[r]]
    BY <2>3
  <2> QED
    BY <2>1, <2>4, <2>5
<1>10. Rows' \in Seq(Docs) /\ Output' = Output
  <2>1. Output \in Seq(Docs)
    BY <1>4 DEF Output
  <2>2. Output \o <<>> = Output
    BY <2>1
  <2> QED
    BY <1>1, <1>9, <2>1, <2>2 DEF Output
<1>11. Docs' = Docs /\ input' = input /\ select' = select /\ Explicit' = Explicit
       /\ AllReadAlike' = AllReadAlike /\ Wanted' = Wanted /\ Requested'
  BY <1>1, <1>2, Unmoved DEF Static
<1>12. Progress'
  <2>1. chunk' \in Seq(Docs') /\ Len(chunk') <= ChunkSize
    BY <1>1, <1>3
  <2>2. next' \in 1..(Len(input'.docs) + 1) /\ (stage' = "done" => next' = Len(input'.docs) + 1) /\ stage' # "failed"
    BY <1>1, <1>3, <1>4, <1>11
  <2>3. IsSequence(delivered)'
    BY <1>7 DEF IsSequence
  <2> QED
    BY <1>1, <1>10, <1>11, <2>1, <2>2, <2>3 DEF Progress
<1>13. \A s \in 1..ChunkSize : \A k \in DOMAIN select :
          /\ cells'[s][k] = [value |-> cells[s][k].value, valid |-> TRUE]
          /\ DOMAIN cells'[s] = DOMAIN select
  <2>1. cells' = [s \in 1..ChunkSize |-> [k \in DOMAIN select |-> [value |-> cells[s][k].value, valid |-> TRUE]]]
    BY <1>1, <1>2 DEF Reset, CellsAre
  <2> QED
    BY <2>1
<1>14. CellsAre' /\ \A s \in 1..ChunkSize : \A k \in DOMAIN select : cells'[s][k].valid
  <2>1. cells' = [s \in 1..ChunkSize |-> cells'[s]]
    BY <1>1, <1>2 DEF CellsAre, Reset
  <2>2. \A s \in 1..ChunkSize : DOMAIN cells'[s] = DOMAIN select
    BY <1>1, <1>2 DEF CellsAre, Reset
  <2>3. ASSUME NEW s \in 1..ChunkSize, NEW k \in DOMAIN select
        PROVE  cells'[s][k].valid /\ cells'[s][k] = [value |-> cells'[s][k].value, valid |-> cells'[s][k].valid]
               /\ cells'[s][k].valid \in BOOLEAN
    <3>1. cells'[s][k] = [value |-> cells[s][k].value, valid |-> TRUE]
      BY <1>13
    <3>2. cells'[s][k].valid = TRUE /\ cells'[s][k].value = cells[s][k].value
      BY <3>1
    <3> QED
      BY <3>1, <3>2, Zenon
  <2> QED
    BY <1>11, <2>1, <2>2, <2>3 DEF CellsAre, IsCell
<1>15. ChunkRight'
  <2>1. \A r \in DOMAIN chunk' : \A k \in DOMAIN select : Right(input.docs[chunk'[r]], select[k], Shown(cells'[r])[k])
    BY <1>1
  <2>2. ASSUME NEW r \in DOMAIN delivered', NEW k \in DOMAIN select
        PROVE  Right(input.docs[delivered'[r].doc], select[k], delivered'[r].shown[k])
    <3>1. CASE r \in 1..n
      BY <1>2, <1>7, <3>1 DEF ChunkRight
    <3>2. CASE \E q \in 1..Len(chunk) : r = n + q
      <4>1. PICK q \in 1..Len(chunk) : r = n + q
        BY <3>2
      <4>2. delivered'[r].doc = chunk[q] /\ delivered'[r].shown = Shown(cells[q])
        BY <1>6, <1>7, <4>1
      <4> QED
        BY <1>2, <1>4, <4>2 DEF ChunkRight
    <3> QED
      BY <1>8, <3>1, <3>2
  <2> QED
    BY <1>1, <2>1, <2>2, RightAfter
<1>16. Counted' = Counted
  BY <1>1 DEF Counted
<1>17. Honoured'
  BY <1>1, <1>2, <1>10, <1>11, <1>16 DEF Honoured
<1>18. Ordered(Output', next')
  BY <1>1, <1>2, <1>10
<1>19. \A s \in (Len(chunk') + 1)..ChunkSize : \A k \in DOMAIN select' : cells'[s][k].valid
  BY <1>1, <1>3, <1>11, <1>14
<1>20. stage' \in {"scan", "done"}
  BY <1>1
<1> QED
  BY <1>11, <1>12, <1>14, <1>15, <1>17, <1>18, <1>19, <1>20 DEF ScanInv, Opened, Unopened, Fresh, Ordered

LEMMA StutterScan ==
    ASSUME ScanInv, UNCHANGED vars
    PROVE  ScanInv'
<1>1. /\ UNCHANGED Static /\ UNCHANGED <<stage, next, chunk, cells, delivered, select, input>>
  BY DEF vars, bindVars, rowVars, Static
<1>2. CASE Unopened
  BY <1>1, <1>2 DEF ScanInv, Unopened, Opened
<1>3. CASE Opened
  <2>1. /\ Requested /\ Progress /\ CellsAre /\ Ordered(Output, next) /\ ChunkRight /\ Honoured
        /\ \A s \in (Len(chunk) + 1)..ChunkSize : Fresh(cells[s]) \/ Leftovers
    BY <1>3 DEF ScanInv
  <2>2. Docs' = Docs /\ Rows' = Rows /\ Output' = Output /\ Counted' = Counted /\ Explicit' = Explicit
        /\ AllReadAlike' = AllReadAlike /\ Wanted' = Wanted /\ Requested' /\ Leftovers' = Leftovers
    BY <1>1, <2>1, Unmoved DEF Rows, Output, Counted
  <2>3. CellsAre' /\ Ordered(Output', next') /\ Progress' /\ Honoured'
    BY <1>1, <2>1, <2>2 DEF CellsAre, IsCell, Progress, IsSequence, Honoured
  <2>4. ChunkRight'
    <3>1. /\ \A r \in DOMAIN chunk' : \A k \in DOMAIN select : Right(input.docs[chunk'[r]], select[k], Shown(cells'[r])[k])
          /\ \A r \in DOMAIN delivered' : \A k \in DOMAIN select :
                Right(input.docs[delivered'[r].doc], select[k], delivered'[r].shown[k])
      BY <1>1, <2>1 DEF ChunkRight
    <3> QED
      BY <1>1, <3>1, RightAfter
  <2>5. \A s \in (Len(chunk') + 1)..ChunkSize : (\A k \in DOMAIN select' : cells'[s][k].valid) \/ Leftovers'
    BY <1>1, <2>1, <2>2 DEF Fresh
  <2>6. stage \in {"scan", "done", "failed"} /\ stage' = stage
    BY <1>1, <1>3 DEF Opened
  <2> QED
    BY <2>2, <2>3, <2>4, <2>5, <2>6 DEF ScanInv, Opened, Unopened, Fresh, Ordered
<1>4. CASE ~Opened /\ ~Unopened
  BY <1>1, <1>4 DEF ScanInv, Opened, Unopened
<1> QED
  BY <1>2, <1>3, <1>4

LEMMA ScanNext == ScanInv /\ BindInv /\ [Next]_vars => ScanInv'
<1> SUFFICES ASSUME ScanInv, BindInv, [Next]_vars PROVE ScanInv'
  OBVIOUS
<1>1. CASE FlattenDocument
  BY <1>1, RowScan, DropScan
<1> QED
  BY <1>1, BindScan, OpenScan, RaiseScan, EndScan, StutterScan DEF Next

LEMMA ScanHolds == Spec => [](ScanInv /\ BindInv)
<1>1. ScanInv /\ BindInv /\ [Next]_vars => ScanInv'
  BY ScanNext
<1> QED
  BY <1>1, ScanInit, BindHolds, PTL DEF Spec

-----------------------------------------------------------------------------
(* Rows are in the order of their documents, none twice, and a chunk never     *)
(* takes more than it holds.                                                *)
THEOREM RowsInOrder == Spec => []TypeOK
<1>1. ScanInv /\ BindInv => TypeOK
  <2> SUFFICES ASSUME ScanInv, BindInv PROVE TypeOK
    OBVIOUS
  <2>1. stage \in Stages /\ attempt \in {"sample", "find"} /\ Len(input.docs) \in Nat /\ ChunkSize \in Nat
    BY InputFacts, RowsAssumption DEF BindInv
  <2>2. CASE Opened
    BY <2>1, <2>2 DEF ScanInv, Progress, Ordered, TypeOK, Stages, Output, Rows
  <2>3. CASE Unopened
    <3>1. chunk = <<>> /\ delivered = <<>> /\ next = 1
      BY <2>3 DEF ScanInv
    <3>2. Rows \o chunk = <<>>
      BY <3>1 DEF Rows
    <3> QED
      BY <2>1, <3>1, <3>2 DEF TypeOK, Stages, Rows
  <2> QED
    BY <2>1, <2>2, <2>3 DEF Stages, Opened, Unopened
<1> QED
  BY <1>1, ScanHolds, PTL

(* Each cell DuckDB gets shows the field of its own document.                 *)
THEOREM RowsShowTheirDocuments == Spec => []RowsAreTheirDocuments
<1>1. ScanInv /\ BindInv => RowsAreTheirDocuments
  <2> SUFFICES ASSUME ScanInv, BindInv PROVE RowsAreTheirDocuments
    OBVIOUS
  <2>1. CASE Opened
    BY <2>1 DEF ScanInv, ChunkRight, Right, ScalarRight, Leftovers, RowsAreTheirDocuments
  <2>2. CASE Unopened
    <3>1. DOMAIN delivered = {}
      BY <2>2 DEF ScanInv
    <3> QED
      BY <3>1 DEF RowsAreTheirDocuments
  <2> QED
    BY <2>1, <2>2 DEF BindInv, Stages, Opened, Unopened
<1> QED
  BY <1>1, ScanHolds, PTL

(* A schema mode lets through the documents it promises and no other, and      *)
(* failfast raises its error at one that does not conform.                  *)
THEOREM ModesKeepTheirPromise == Spec => []ModeHonoured
<1>1. ScanInv /\ BindInv => ModeHonoured
  <2> SUFFICES ASSUME ScanInv, BindInv, AllReadAlike PROVE
         /\ stage = "done" => Rows = Keep([i \in Docs |-> i], Wanted)
         /\ stage = "done" /\ Explicit /\ input.mode = "failfast" => \A i \in Docs : Conforms(input.docs[i])
         /\ stage = "failed" => input.mode = "failfast" /\ ~Conforms(input.docs[next])
    BY DEF ModeHonoured, Wanted
  <2>1. Docs = 1..Len(input.docs) /\ Len(input.docs) \in Nat
    BY InputFacts DEF BindInv
  <2>2. ASSUME stage = "done"
        PROVE  /\ Rows = Keep([i \in Docs |-> i], Wanted)
               /\ Explicit /\ input.mode = "failfast" => \A i \in Docs : Conforms(input.docs[i])
    <3>1. chunk = <<>> /\ next = Len(input.docs) + 1 /\ Rows \in Seq(Docs) /\ Honoured
      BY <2>2 DEF ScanInv, Opened, Progress
    <3>2. 1..(next - 1) = Docs
      BY <2>1, <3>1
    <3>3. Output = Rows
      BY <3>1 DEF Output
    <3>4. Counted = [i \in Docs |-> i]
      BY <3>2 DEF Counted
    <3> QED
      BY <3>1, <3>2, <3>3, <3>4 DEF Honoured, Wanted, Enforced
  <2>3. ASSUME stage = "failed" PROVE input.mode = "failfast" /\ ~Conforms(input.docs[next])
    BY <2>3 DEF ScanInv, Opened, Progress, Honoured, Wanted
  <2> QED
    BY <2>2, <2>3
<1> QED
  BY <1>1, ScanHolds, PTL

-----------------------------------------------------------------------------
(* Lists.                                                                    *)

(* Where all elements are as deep, every array on the way is that much less.  *)
LEMMA DepthBelow ==
    ASSUME NEW elements, NEW L \in Nat \ {0}, L <= MaxArrayDepth, DOMAIN elements \subseteq Seq(Nat),
           \A q \in DOMAIN elements : Len(q) = L,
           NEW p \in DOMAIN elements, NEW k \in 0..(L - 1)
    PROVE  GetBSONArrayDepth(elements, Take(p, k)) = L - k
<1> DEFINE t == Take(p, k)
           levels == {Len(q) - Len(t) : q \in Below(elements, t)}
<1>1. p \in Seq(Nat) /\ Len(p) = L /\ k \in Nat /\ k < L /\ k <= L
  OBVIOUS
<1>2. t \in Seq(Nat) /\ Len(t) = k
  BY <1>1 DEF Take
<1>3. p \in Below(elements, t)
  <2>1. SubSeq(t, 1, k) = SubSeq(p, 1, k)
    BY <1>1 DEF Take
  <2>2. t # p
    BY <1>1, <1>2
  <2> HIDE DEF t
  <2> QED
    BY <1>1, <1>2, <2>1, <2>2 DEF Below, IsStrictPrefix, IsPrefix
<1>4. Below(elements, t) \subseteq DOMAIN elements
  BY DEF Below
<1> HIDE DEF t
<1>5. levels = {L - k}
  BY <1>1, <1>2, <1>3, <1>4
<1>6. GetBSONArrayDepth(elements, t) =
        IF levels = {} THEN 0
        ELSE IF (CHOOSE n \in levels : \A m \in levels : m <= n) > MaxArrayDepth THEN MaxArrayDepth
        ELSE CHOOSE n \in levels : \A m \in levels : m <= n
  BY DEF GetBSONArrayDepth
<1>7. L - k \in Int /\ L - k <= L - k
  BY <1>1
<1> DEFINE x == L - k
<1>8. x \in Int /\ x <= x /\ ~(x > MaxArrayDepth)
  BY <1>1, <1>7, InferenceAssumption
<1>9. levels = {x}
  BY <1>5
<1> HIDE DEF levels, x
<1>10. (CHOOSE n \in levels : \A m \in levels : m <= n) = x
  BY <1>8, <1>9
<1> QED
  BY <1>6, <1>8, <1>9, <1>10 DEF t, x

(* What a list takes is a value of its own.                                   *)
LEMMA ElementTaken ==
    ASSUME NEW element, NEW base, ElementAs(element, base) # Null
    PROVE  /\ element[1] \notin {"empty", "null", "document"}
           /\ ElementAs(element, base)[1] # "empty"
<1> DEFINE class == element[1]
           n == element[2]
<1>1. /\ class \in {"number", "digits", "bool", "double"} \union StringClasses
      /\ \/ ElementAs(element, base) \in {<<"number", n>>, <<"number", n + (n % 2)>>, <<"bool", 0>>, <<"bool", 1>>, <<"bool", n>>}
         \/ ElementAs(element, base) = element
         \/ ElementAs(element, base) = Converted("VARCHAR", element)
  BY DEF ElementAs, Numeric, StringClasses
<1>2. Converted("VARCHAR", element) \in {element, <<"hex", n>>, <<"digits", n>>, <<"text", element>>}
  BY DEF Converted
<1> QED
  BY <1>1, <1>2 DEF StringClasses

(* The first and the last of what is put between two sequences' ends.          *)
LEMMA Between ==
    ASSUME NEW S, NEW a \in Seq(S), Len(a) = 1, NEW b \in Seq(S), NEW c \in Seq(S), NEW n \in Nat, n = 1 + Len(b) + Len(c)
    PROVE  LET w == (a \o b) \o c
           IN  w \in Seq(S) /\ Len(w) = n /\ w[1] = a[1] /\ (Len(c) = 1 => w[n] = c[1])
<1> DEFINE front == a \o b
           w == front \o c
<1>1. Len(b) \in Nat /\ Len(c) \in Nat
  OBVIOUS
<1>2. front \in Seq(S) /\ Len(front) = 1 + Len(b)
  BY <1>1, ConcatProperties
<1>3. front[1] = a[1]
  BY <1>1, ConcatProperties
<1> HIDE DEF front
<1>4. /\ w \in Seq(S) /\ Len(w) = Len(front) + Len(c)
      /\ \A i \in 1..(Len(front) + Len(c)) : w[i] = IF i <= Len(front) THEN front[i] ELSE c[i - Len(front)]
  BY <1>2, ConcatProperties
<1> HIDE DEF w
<1>5. w[1] = front[1]
  <2>1. 1 \in 1..(Len(front) + Len(c)) /\ 1 <= Len(front)
    BY <1>1, <1>2
  <2> QED
    BY <1>4, <2>1
<1>6. ASSUME Len(c) = 1 PROVE w[n] = c[1]
  <2>1. n \in 1..(Len(front) + Len(c)) /\ ~(n <= Len(front)) /\ n - Len(front) = 1
    BY <1>1, <1>2, <1>6
  <2> QED
    BY <1>4, <2>1
<1>7. Len(w) = n
  BY <1>1, <1>2, <1>4
<1> QED
  BY <1>3, <1>4, <1>5, <1>6, <1>7 DEF front, w

(* Wrapping keeps where an element begins and ends, and what is apart apart.   *)
LEMMA WrappingIs ==
    ASSUME NEW n \in Nat, NEW L \in {1, 2}, L < n, NEW p \in Seq(Nat), Len(p) = L
    PROVE  LET w == Wrapping(p, 0, n - L)
           IN  w \in Seq(Nat) /\ Len(w) = n /\ w[1] = p[1] /\ (L = 2 => w[n] = p[2])
<1>1. n - L \in Nat /\ 1 <= Len(p) /\ p[1] \in Nat /\ (L = 2 => p[2] \in Nat)
  OBVIOUS
<1> DEFINE ones == Ones(n - L)
           head == SubSeq(p, 1, 1)
           last == IF L = 1 THEN <<>> ELSE <<p[2]>>
           w == (head \o ones) \o last
<1>2. ones \in Seq(Nat) /\ Len(ones) = n - L
  <2>1. ones = [k \in 1..(n - L) |-> 1]
    BY DEF Ones
  <2> HIDE DEF ones
  <2> QED
    BY <1>1, <2>1
<1>3. head \in Seq(Nat) /\ Len(head) = 1 /\ head[1] = p[1]
  BY <1>1
<1>4. last \in Seq(Nat) /\ Len(last) = L - 1 /\ (L = 2 => last[1] = p[2])
  <2>1. CASE L = 1
    BY <2>1
  <2>2. CASE L = 2
    BY <1>1, <2>2
  <2> QED
    BY <2>1, <2>2
<1>5. Wrapping(p, 0, n - L) = w
  <2>1. 0 + 1 = 1 /\ 0 + 2 = 2
    OBVIOUS
  <2>2. (Len(p) = 0 + 1) <=> (L = 1)
    BY <2>1
  <2> QED
    BY <2>1, <2>2, Zenon DEF Wrapping
<1> HIDE DEF head, ones, last
<1>6. n = 1 + Len(ones) + Len(last)
  BY <1>1, <1>2, <1>4
<1>7. w \in Seq(Nat) /\ Len(w) = n /\ w[1] = head[1] /\ (Len(last) = 1 => w[n] = last[1])
  <2>1. head \in Seq(Nat) /\ ones \in Seq(Nat) /\ last \in Seq(Nat) /\ Len(head) = 1
    BY <1>2, <1>3, <1>4
  <2> QED
    BY <1>6, <2>1, Between
<1> HIDE DEF w
<1>8. w \in Seq(Nat) /\ Len(w) = n /\ w[1] = p[1] /\ (L = 2 => w[n] = p[2])
  <2>1. L = 2 => Len(last) = 1
    BY <1>4
  <2> QED
    BY <1>3, <1>4, <1>7, <2>1
<1> QED
  BY <1>5, <1>8, Zenon

(* Elements of one depth that a list takes keep their values; only those of   *)
(* arrays with fewer levels than the list are wrapped.                      *)
LEMMA PlacedIs ==
    ASSUME NEW elements, NEW type, type.list \in Nat \ {0}, DOMAIN elements \subseteq Seq(Nat),
           NEW L \in {1, 2, type.list}, L <= type.list, L <= MaxArrayDepth,
           \A q \in DOMAIN elements : Len(q) = L,
           \A q \in DOMAIN elements : ElementAs(elements[q], type.base) # Null,
           NEW p \in DOMAIN elements
    PROVE  Placed(elements, p, type) = <<IF L = type.list THEN p ELSE Wrapping(p, 0, type.list - L), ElementAs(elements[p], type.base)>>
<1> DEFINE n == type.list
           value == ElementAs(elements[p], type.base)
           shallow == {k \in 0..(Len(p) - 1) : k < n /\ GetBSONArrayDepth(elements, Take(p, k)) < n - k}
           level == CHOOSE k \in shallow : \A j \in shallow : k <= j
           array == Take(p, level)
           castable == \A q \in Below(elements, array) : Castable(Wrapped(elements, q, level, type), type)
<1>1. L \in Nat \ {0} /\ n \in Nat \ {0} /\ L <= n /\ Len(p) = L /\ p \in Seq(Nat)
  OBVIOUS
<1>2. \A q \in DOMAIN elements : \A k \in 0..(L - 1) : GetBSONArrayDepth(elements, Take(q, k)) = L - k
  BY <1>1, DepthBelow
<1>3. \A q \in DOMAIN elements : /\ elements[q][1] \notin {"empty", "null", "document"}
                                 /\ ElementAs(elements[q], type.base)[1] # "empty"
  BY ElementTaken
<1>4. Placed(elements, p, type) =
        CASE shallow = {} /\ Len(p) = n ->
               <<p, IF elements[p][1] = "document" /\ type.base = "STRUCT"
                    THEN BSONDocumentToStruct(elements[p][2], type.fields) ELSE value>>
          [] shallow = {} /\ Len(p) < n -> <<p, IF elements[p][1] = "empty" THEN elements[p] ELSE Null>>
          [] shallow = {} /\ Len(p) > n -> <<Take(p, n), Null>>
          [] OTHER -> (IF castable THEN Wrapped(elements, p, level, type) ELSE <<array, Null>>)
  BY DEF Placed
<1>5. CASE L = n
  <2>1. shallow = {}
    <3> HIDE DEF n
    <3> QED
      BY <1>1, <1>2, <1>5
  <2> HIDE DEF shallow, level, array, castable, value, n
  <2>2. Placed(elements, p, type) = <<p, value>>
    BY <1>1, <1>3, <1>4, <1>5, <2>1
  <2> QED
    BY <1>5, <2>2 DEF value, n
<1>6. CASE L # n
  <2>1. L < n /\ L \in {1, 2}
    BY <1>1, <1>6
  <2>2. 0 \in shallow /\ \A k \in shallow : 0 <= k
    <3>1. 0 \in 0..(L - 1) /\ L - 0 = L /\ n - 0 = n
      BY <1>1
    <3> HIDE DEF n
    <3> QED
      BY <1>1, <1>2, <2>1, <3>1
  <2>3. level = 0
    <3>1. shallow \subseteq Nat
      BY <1>1
    <3> HIDE DEF shallow
    <3>2. level \in shallow /\ \A j \in shallow : level <= j
      BY <2>2, Zenon
    <3> HIDE DEF level
    <3> QED
      BY <2>2, <3>1, <3>2
  <2>4. ASSUME NEW q \in DOMAIN elements
        PROVE  Wrapped(elements, q, 0, type) = <<Wrapping(q, 0, n - L), ElementAs(elements[q], type.base)>>
    <3>1. GetBSONArrayDepth(elements, Take(q, 0)) = L
      <4>1. 0 \in 0..(L - 1) /\ L - 0 = L
        BY <1>1
      <4> QED
        BY <1>2, <4>1
    <3>2. Len(q) = L /\ ~(Len(q) > 0 + 2) /\ n - 0 - L = n - L
      BY <1>1, <2>1
    <3>3. ElementAs(elements[q], type.base) # Null /\ elements[q][1] \notin {"empty", "null"}
      BY <1>3
    <3> HIDE DEF n
    <3> QED
      BY <3>1, <3>2, <3>3 DEF Wrapped, n
  <2>5. castable
    <3>1. Below(elements, array) \subseteq DOMAIN elements
      BY DEF Below
    <3> HIDE DEF array, level
    <3>2. ASSUME NEW q \in DOMAIN elements PROVE Castable(Wrapped(elements, q, 0, type), type)
      <4>1. q \in Seq(Nat) /\ Len(q) = L /\ n \in Nat
        BY <1>1
      <4> HIDE DEF n
      <4>2. Len(Wrapping(q, 0, n - L)) = n
        BY <2>1, <4>1, WrappingIs
      <4> QED
        BY <1>3, <2>4, <4>2 DEF Castable, n
    <3> QED
      BY <2>3, <3>1, <3>2
  <2>6. shallow # {}
    BY <2>2
  <2> HIDE DEF shallow, castable, value, level, array
  <2>7. Placed(elements, p, type) = Wrapped(elements, p, 0, type)
    BY <1>4, <2>3, <2>5, <2>6
  <2> QED
    BY <1>6, <2>4, <2>7 DEF value
<1> QED
  BY <1>5, <1>6

(* Each element has a place that begins and ends where its own position does.  *)
Whole(shown, elements, type) ==
    /\ Cardinality(DOMAIN shown) = Cardinality(DOMAIN elements)
    /\ \A p \in DOMAIN elements : \E q \in DOMAIN shown :
          /\ Len(q) = type.list /\ Head(q) = Head(p) /\ (Len(p) > 1 => Last(q) = Last(p))
          /\ shown[q] = ElementAs(elements[p], type.base)

(* An array that a list takes comes whole: no two elements share a place.      *)
LEMMA ListComesWhole ==
    ASSUME NEW elements, NEW type, type.list \in Nat \ {0}, IsFiniteSet(DOMAIN elements), DOMAIN elements \subseteq Seq(Nat),
           NEW L \in {1, 2, type.list}, L <= type.list, L <= MaxArrayDepth,
           \A p \in DOMAIN elements : Len(p) = L,
           \A p \in DOMAIN elements : ElementAs(elements[p], type.base) # Null
    PROVE  \E shown : BSONArrayToList(elements, type) = <<"list", shown>> /\ Whole(shown, elements, type)
<1> DEFINE n == type.list
           D == DOMAIN elements
           place == [p \in D |-> IF L = n THEN p ELSE Wrapping(p, 0, n - L)]
           value(p) == ElementAs(elements[p], type.base)
           placed == {Placed(elements, p, type) : p \in D}
           at(position) == CHOOSE v \in {x[2] : x \in placed} : <<position, v>> \in placed
           shown == [position \in {x[1] : x \in placed} |-> at(position)]
<1>1. BSONArrayToList(elements, type) = IF \E x \in placed : x[1] = <<>> THEN Null ELSE <<"list", shown>>
  BY DEF BSONArrayToList
<1>2. n \in Nat \ {0} /\ L \in Nat \ {0} /\ L <= n /\ \A p \in D : p \in Seq(Nat) /\ Len(p) = L
  OBVIOUS
<1>3. \A p \in D : Placed(elements, p, type) = <<place[p], value(p)>>
  BY PlacedIs
<1>4. ASSUME NEW p \in D
      PROVE  /\ place[p] \in Seq(Nat) /\ Len(place[p]) = n
             /\ place[p][1] = p[1]
             /\ L = 2 => place[p][n] = p[2]
             /\ L = n => place[p] = p
  <2>1. CASE L = n
    BY <1>2, <2>1
  <2>2. CASE L # n
    <3>1. L \in {1, 2} /\ L < n /\ p \in Seq(Nat) /\ Len(p) = L
      BY <1>2, <2>2
    <3>2. place[p] = Wrapping(p, 0, n - L)
      BY <2>2
    <3>3. n \in Nat /\ L \in {1, 2}
      BY <1>2, <3>1
    <3> HIDE DEF n, D, place
    <3>4. /\ Wrapping(p, 0, n - L) \in Seq(Nat) /\ Len(Wrapping(p, 0, n - L)) = n /\ Wrapping(p, 0, n - L)[1] = p[1]
          /\ L = 2 => Wrapping(p, 0, n - L)[n] = p[2]
      BY <3>1, <3>3, WrappingIs
    <3> QED
      BY <2>2, <3>2, <3>4
  <2> QED
    BY <2>1, <2>2
<1>5. DOMAIN place = D
  OBVIOUS
<1> HIDE DEF place, value
<1>6. ASSUME NEW p \in D, NEW q \in D, place[p] = place[q] PROVE p = q
  <2>1. p \in Seq(Nat) /\ q \in Seq(Nat) /\ Len(p) = L /\ Len(q) = L /\ p[1] = q[1] /\ (L = 2 => p[2] = q[2])
    BY <1>2, <1>4, <1>6, SMTT(30)
  <2>2. CASE L = n
    BY <1>4, <1>6, <2>2
  <2>3. CASE L # n
    <3>1. L \in {1, 2}
      BY <2>3
    <3> HIDE DEF n, D
    <3> QED
      BY <2>1, <3>1
  <2> QED
    BY <2>2, <2>3
<1>7. placed = {<<place[p], value(p)>> : p \in D}
  BY <1>3
<1> HIDE DEF placed
<1>8. {x[1] : x \in placed} = {place[p] : p \in D}
  <2>1. \A p \in D : <<place[p], value(p)>> \in placed /\ <<place[p], value(p)>>[1] = place[p]
    BY <1>7
  <2>2. \A x \in placed : \E p \in D : x[1] = place[p]
    BY <1>7
  <2> DEFINE X == {x[1] : x \in placed}
             Y == {place[p] : p \in D}
  <2>3. ASSUME NEW y \in X PROVE y \in Y
    BY <2>2
  <2>4. ASSUME NEW y \in Y PROVE y \in X
    <3>1. PICK p \in D : y = place[p]
      OBVIOUS
    <3>2. <<place[p], value(p)>> \in placed /\ y = <<place[p], value(p)>>[1]
      BY <2>1, <3>1
    <3> QED
      BY <3>2
  <2> HIDE DEF X, Y
  <2>5. X = Y
    BY <2>3, <2>4
  <2> QED
    BY <2>5 DEF X, Y
<1>9. ~\E x \in placed : x[1] = <<>>
  <2>1. \A p \in D : place[p] # <<>>
    BY <1>2, <1>4
  <2> HIDE DEF D
  <2> QED
    BY <1>7, <2>1
<1>10. DOMAIN shown = {place[p] : p \in D}
  BY <1>8
<1>11. ASSUME NEW p \in D PROVE shown[place[p]] = value(p)
  <2>1. <<place[p], value(p)>> \in placed
    BY <1>7
  <2>2. \A v : <<place[p], v>> \in placed => v = value(p)
    <3>1. ASSUME NEW v, <<place[p], v>> \in placed PROVE v = value(p)
      <4>1. PICK q \in D : <<place[p], v>> = <<place[q], value(q)>>
        BY <1>7, <3>1
      <4> QED
        BY <1>6, <4>1
    <3> QED
      BY <3>1
  <2>3. value(p) \in {x[2] : x \in placed}
    <3>1. <<place[p], value(p)>>[2] = value(p)
      OBVIOUS
    <3> QED
      BY <2>1, <3>1
  <2>4. at(place[p]) = value(p)
    BY <2>1, <2>2, <2>3
  <2>5. place[p] \in {x[1] : x \in placed}
    BY <1>8
  <2> HIDE DEF at
  <2> QED
    BY <2>4, <2>5
<1> HIDE DEF shown
<1>12. Cardinality(DOMAIN shown) = Cardinality(D)
  <2> DEFINE R == DOMAIN shown
  <2>1. place \in Surjection(D, R)
    <3>1. place \in [D -> R]
      <4>1. \A p \in D : place[p] \in R
        BY <1>10
      <4>2. place = [p \in D |-> place[p]]
        BY <1>5 DEF place
      <4> HIDE DEF R
      <4> QED
        BY <4>1, <4>2
    <3> QED
      BY <1>5, <1>10, <3>1 DEF Surjection
  <2>2. place \in Injection(D, R)
    BY <1>5, <1>6, <2>1 DEF Surjection, Injection, IsInjective
  <2>3. IsFiniteSet(D)
    OBVIOUS
  <2> HIDE DEF D, R
  <2> QED
    BY <2>1, <2>2, <2>3, FS_Surjection DEF R
<1>13. ASSUME NEW p \in D
       PROVE  /\ place[p] \in DOMAIN shown
              /\ Len(place[p]) = n /\ Head(place[p]) = Head(p) /\ (Len(p) > 1 => Last(place[p]) = Last(p))
              /\ shown[place[p]] = value(p)
  <2>1. place[p] \in DOMAIN shown /\ shown[place[p]] = value(p) /\ Len(place[p]) = n
    BY <1>4, <1>10, <1>11
  <2>2. Head(place[p]) = place[p][1] /\ Head(p) = p[1]
    OBVIOUS
  <2>3. Last(place[p]) = place[p][n] /\ Last(p) = p[L]
    BY <1>2, <2>1 DEF Last
  <2>4. CASE L = n
    BY <1>4, <2>1, <2>4
  <2>5. CASE L = 1
    <3>1. ~(Len(p) > 1)
      <4>1. Len(p) = 1
        BY <1>2, <2>5
      <4> QED
        BY <4>1
    <3> QED
      BY <1>4, <2>1, <2>2, <3>1
  <2>6. CASE L = 2
    BY <1>4, <2>1, <2>2, <2>3, <2>6
  <2>7. L = 1 \/ L = 2 \/ L = n
    OBVIOUS
  <2> QED
    BY <2>4, <2>5, <2>6, <2>7
<1>14. BSONArrayToList(elements, type) = <<"list", shown>>
  BY <1>1, <1>9
<1>15. \A p \in D : value(p) = ElementAs(elements[p], type.base)
  BY DEF value
<1> HIDE DEF D, n
<1>16. \A p \in D : \E q \in DOMAIN shown :
          /\ Len(q) = n /\ Head(q) = Head(p) /\ (Len(p) > 1 => Last(q) = Last(p))
          /\ shown[q] = ElementAs(elements[p], type.base)
  BY <1>13, <1>15
<1>17. Whole(shown, elements, type)
  BY <1>12, <1>16 DEF D, n, Whole
<1> QED
  BY <1>14, <1>17

(* Only a field of its own name leads to a field at the top of a document.     *)
LEMMA OnePartPrefix ==
    ASSUME NEW S, NEW p \in Seq(S) \ {<<>>}, NEW c, IsPrefix(p, <<c>>)
    PROVE  p = <<c>>
<1> DEFINE q == <<c>>
<1>1. Len(q) = 1 /\ q[1] = c /\ q \in Seq({c})
  OBVIOUS
<1>2. Len(p) = 1
  BY DEF IsPrefix
<1>3. SubSeq(p, 1, 1) = p
  BY <1>2
<1>4. SubSeq(q, 1, 1) = q
  <2> HIDE DEF q
  <2> QED
    BY <1>1
<1> QED
  BY <1>2, <1>3, <1>4 DEF IsPrefix

(* What is sent as an array is an array, asked for or on the way of a path.    *)
LEMMA ArraySent ==
    ASSUME NEW d, NEW path, Sent(d, projection, path)[1] = "array"
    PROVE  /\ ElementAt(d, path)[1] = "array"
           /\ \E p \in projection : IsPrefix(p, path) \/ IsStrictPrefix(path, p)
<1> DEFINE field == ElementAt(d, path)
           below == {p[Len(path) + 1] : p \in {q \in projection : IsStrictPrefix(path, q)}}
           document == <<"document", [n \in below \intersect DOMAIN field[2] |-> field[2][n]]>>
<1>1. Sent(d, projection, path) =
        IF \E p \in projection : IsPrefix(p, path) THEN field
        ELSE IF below # {} /\ field[1] = "document" THEN document
        ELSE IF below # {} /\ field[1] = "array" THEN <<"array", ProjectedArray(field[2], below)>>
        ELSE Missing
  BY DEF Sent
<1>2. document[1] = "document" /\ Missing[1] = "missing"
  BY DEF Missing
<1>3. below # {} => \E p \in projection : IsStrictPrefix(path, p)
  OBVIOUS
<1> HIDE DEF document, below
<1> QED
  BY <1>1, <1>2, <1>3 DEF field

(* An array is found at the column's path, unless the column's own name is that *)
(* of another array that was asked for or is on the way.                   *)
LEMMA NestedIsField ==
    ASSUME NEW d, NEW c, \E p \in projection : IsPrefix(p, paths[c]),
           NEW S, projection \subseteq Seq(S) \ {<<>>},
           ElementAt(d, <<c>>)[1] = "array" /\ (\E p \in projection : IsPrefix(<<c>>, p)) => paths[c] = <<c>>
    PROVE  Nested(d, c, "array") = ElementAt(d, paths[c])
<1> DEFINE direct == Sent(d, projection, <<c>>)
           field == ElementAt(d, paths[c])
<1>1. Sent(d, projection, paths[c]) = field
  BY SentAsItIs
<1>2. ASSUME direct[1] = "array" PROVE direct = field
  <2>1. ElementAt(d, <<c>>)[1] = "array" /\ \E p \in projection : IsPrefix(p, <<c>>) \/ IsStrictPrefix(<<c>>, p)
    BY <1>2, ArraySent
  <2>2. PICK p \in projection : IsPrefix(p, <<c>>) \/ IsStrictPrefix(<<c>>, p)
    BY <2>1
  <2>3. IsPrefix(<<c>>, p)
    <3>1. CASE IsPrefix(p, <<c>>)
      <4>1. p = <<c>>
        BY <3>1, OnePartPrefix
      <4> QED
        BY <3>1, <4>1
    <3>2. CASE IsStrictPrefix(<<c>>, p)
      BY <3>2 DEF IsStrictPrefix
    <3> QED
      BY <2>2, <3>1, <3>2
  <2>4. paths[c] = <<c>>
    BY <2>1, <2>3
  <2> QED
    BY <1>1, <2>4
<1> HIDE DEF direct, field
<1> QED
  BY <1>1, <1>2 DEF Nested, direct, field

(* Arrays come whole, as deep as the type, in lists.                          *)
THEOREM ListsComeWhole == Spec => []ListsShown
<1>1. ScanInv /\ BindInv /\ TypesInv => ListsShown
  <2> SUFFICES ASSUME ScanInv, BindInv, TypesInv, NEW r \in DOMAIN delivered, NEW k \in DOMAIN select,
             LET c == select[k]
                 type == columns[c]
                 field == ElementAt(input.docs[delivered[r].doc], paths[c])
             IN  /\ type.list > 0 /\ field[1] = "array"
                 /\ ~(/\ ElementAt(input.docs[delivered[r].doc], <<c>>)[1] = "array" /\ paths[c] # <<c>>
                      /\ \E p \in {IdPath} \union {paths[m] : m \in DOMAIN columns} : IsPrefix(<<c>>, p))
                 /\ \E level \in {1, 2, type.list} :
                       /\ level <= type.list /\ level <= MaxArrayDepth
                       /\ \A p \in DOMAIN field[2] : Len(p) = level
                 /\ \A p \in DOMAIN field[2] : ElementAs(field[2][p], type.base) # Null
        PROVE  LET c == select[k]
                   type == columns[c]
                   field == ElementAt(input.docs[delivered[r].doc], paths[c])
                   shown == delivered[r].shown[k]
               IN  /\ shown[1] = "list"
                   /\ Cardinality(DOMAIN shown[2]) = Cardinality(DOMAIN field[2])
                   /\ \A p \in DOMAIN field[2] : \E q \in DOMAIN shown[2] :
                         /\ Len(q) = type.list /\ Head(q) = Head(p) /\ (Len(p) > 1 => Last(q) = Last(p))
                         /\ shown[2][q] = ElementAs(field[2][p], type.base)
    BY Zenon DEF ListsShown
  <2> DEFINE c == select[k]
             d == input.docs[delivered[r].doc]
             type == columns[c]
             field == ElementAt(d, paths[c])
             elements == field[2]
             cell == delivered[r].shown[k]
  <2>1. Opened
    <3>1. ~Unopened
      BY DEF ScanInv
    <3> QED
      BY <3>1 DEF BindInv, Stages, Opened, Unopened
  <2>2. Requested /\ Progress /\ ChunkRight /\ ColumnsHavePaths /\ input \in Inputs /\ stage \notin {"bind", "refused"}
    BY <2>1 DEF ScanInv, BindInv, Opened
  <2>3. c \in DOMAIN columns /\ delivered[r].doc \in Docs
    <3>1. select \in Seq(DOMAIN columns) /\ Rows \in Seq(Docs) /\ DOMAIN Rows = DOMAIN delivered /\ Rows[r] = delivered[r].doc
      BY <2>2 DEF Requested, Progress, Rows
    <3> QED
      BY <3>1
  <2>4. type.list \in Nat \ {0}
    <3>1. type.list \in Nat
      BY <2>2, <2>3 DEF TypesInv
    <3> QED
      BY <3>1
  <2>5. PathOrder \in Seq(Seq(Seq(STRING)) \ {<<>>}) /\ IdPath \in ToSet(PathOrder)
        /\ paths[c] \in ToSet(PathOrder) /\ \A m \in DOMAIN columns : paths[m] \in ToSet(PathOrder)
    BY <2>2, <2>3, InferenceAssumption DEF ColumnsHavePaths
  <2>6. IsArray(elements)
    <3>1. d = input.docs[delivered[r].doc] /\ field[1] = "array"
      OBVIOUS
    <3> QED
      BY <2>2, <2>3, <2>5, <3>1, InferenceAssumption DEF Docs
  <2>7. projection \subseteq Seq(Seq(STRING)) \ {<<>>}
    <3>1. ToSet(PathOrder) \subseteq Seq(Seq(STRING)) \ {<<>>}
      BY <2>5 DEF ToSet
    <3>2. projection \subseteq {IdPath} \union {paths[m] : m \in DOMAIN columns}
      BY <2>2 DEF Requested
    <3> QED
      BY <2>5, <3>1, <3>2
  <2>8. Nested(d, c, "array") = field
    <3>1. ElementAt(d, <<c>>)[1] = "array" /\ (\E p \in projection : IsPrefix(<<c>>, p)) => paths[c] = <<c>>
      BY <2>2 DEF Requested
    <3>2. \E p \in projection : IsPrefix(p, paths[c])
      BY <2>2 DEF Requested, ToSet
    <3> HIDE DEF c, d
    <3> QED
      BY <2>7, <3>1, <3>2, NestedIsField
  <2>9. cell = ListValue(d, c)
    BY <2>2 DEF ChunkRight, Right
  <2>10. cell = IF elements = <<>> \/ DOMAIN elements = {} THEN <<"list", <<>>>> ELSE BSONArrayToList(elements, type)
    <3>1. field[1] = "array"
      OBVIOUS
    <3>2. elements = <<>> => DOMAIN elements = {}
      OBVIOUS
    <3> HIDE DEF c, d, field, cell
    <3> QED
      BY <2>8, <2>9, <3>1, <3>2 DEF ListValue
  <2>11. PICK L \in {1, 2, type.list} : L <= type.list /\ L <= MaxArrayDepth /\ \A p \in DOMAIN elements : Len(p) = L
    OBVIOUS
  <2>12. \A p \in DOMAIN elements : ElementAs(elements[p], type.base) # Null
    OBVIOUS
  <2>13. IsFiniteSet(DOMAIN elements) /\ DOMAIN elements \subseteq Seq(Nat)
    <3>1. \A s \in Seq(Nat \ {0}) : s \in Seq(Nat)
      OBVIOUS
    <3> HIDE DEF elements
    <3> QED
      BY <2>6, <3>1 DEF IsArray
  <2> HIDE DEF c, d, type, field, elements, cell
  <2>14. CASE DOMAIN elements = {}
    <3>1. cell[1] = "list" /\ DOMAIN cell[2] = {}
      BY <2>10, <2>14
    <3> QED
      BY <2>14, <3>1 DEF c, d, type, field, elements, cell
  <2>15. CASE DOMAIN elements # {}
    <3>1. PICK shown : BSONArrayToList(elements, type) = <<"list", shown>> /\ Whole(shown, elements, type)
      BY <2>4, <2>11, <2>12, <2>13, ListComesWhole
    <3>2. cell = <<"list", shown>>
      BY <2>10, <2>15, <3>1
    <3>3. cell[1] = "list" /\ cell[2] = shown
      BY <3>2
    <3> QED
      BY <3>1, <3>3 DEF c, d, type, field, elements, cell, Whole
  <2> QED
    BY <2>14, <2>15
<1> QED
  BY <1>1, ScanHolds, TypesHold, PTL

-----------------------------------------------------------------------------
(* Columns of a sample.                                                      *)

(* A type that shows a field in full.                                        *)
Fits(field, base) ==
    \/ base = "VARCHAR"
    \/ base = "BOOLEAN" /\ field[1] = "bool"
    \/ base = "BIGINT" /\ field[1] = "number"
    \/ base = "DOUBLE" /\ field[1] \in {"number", "double", "decimal"}
    \/ base = "TIMESTAMP" /\ field[1] = "date"
    \/ base = "DATE" /\ field[1] = "date" /\ AtMidnight(field[2])

(* A date as it is, or cut to the day when less than a second from a midnight. *)
DateShown(shown, date) ==
    \/ shown = 2 * date
    \/ /\ \E midnight \in {DayMs * (date \div DayMs), DayMs * (date \div DayMs) + DayMs} :
             date - midnight \in (1 - SecondMs)..(SecondMs - 1)
       /\ shown = 2 * DayMs * (date \div DayMs)

LEMMA DayOfDate ==
    ASSUME NEW date \in Int, AtMidnight(date)
    PROVE  DateShown(DayUnits * ((2 * date) \div DayUnits), date)
<1> DEFINE day == date \div 4
<1>1. day \in Int /\ date - 4 * day \in 0..3
  OBVIOUS
<1>2. (2 * date) \div 8 = day
  BY <1>1
<1>3. CASE date >= 0
  <2>1. (date \div 2) % 2 = 0
    BY <1>3 DEF AtMidnight, SecondMs, DayMs
  <2>2. date - 4 * day \in 0..1
    BY <1>1, <2>1
  <2> QED
    BY <1>1, <1>2, <2>2 DEF DateShown, SecondMs, DayMs, DayUnits
<1>4. CASE date < 0
  <2>1. ((-date) \div 2) % 2 = 0
    BY <1>4 DEF AtMidnight, SecondMs, DayMs
  <2>2. date - 4 * day \in {0, 3}
    BY <1>1, <2>1
  <2> QED
    BY <1>1, <1>2, <2>2 DEF DateShown, SecondMs, DayMs, DayUnits
<1> QED
  BY <1>3, <1>4

LEMMA ReadInFull ==
    ASSUME NEW field, field[1] \notin {"missing", "null"}, NEW base, Fits(field, base),
           field[1] = "date" => field[2] \in Int
    PROVE  /\ IsBSONTypeCompatible(field[1], base)
           /\ Read(base, field) # Null
           /\ Read(base, field)[1] = "number" => field[1] = "number"
           /\ Read(base, field)[1] = "date" => DateShown(Read(base, field)[2], field[2])
<1>1. IsBSONTypeCompatible(field[1], base)
  BY DEF Fits, IsBSONTypeCompatible
<1>2. Read(base, field) = Converted(base, field)
  BY <1>1 DEF Read
<1>3. CASE base = "VARCHAR"
  <2> DEFINE value == Converted(base, field)
  <2>1. value = CASE field[1] \in StringClasses -> field
                  [] field[1] = "oid" -> <<"hex", field[2]>>
                  [] field[1] \in {"number", "date"} -> <<"digits", field[2]>>
                  [] OTHER -> <<"text", field>>
    BY <1>3 DEF Converted
  <2> HIDE DEF value
  <2>2. value[1] \in StringClasses \union {"hex", "digits", "text"}
    BY <2>1 DEF StringClasses
  <2> QED
    BY <1>1, <1>2, <2>2 DEF StringClasses, Null, value
<1>4. CASE base \in {"BOOLEAN", "DOUBLE"}
  <2>1. Converted(base, field) \in {field, <<"double", field[2]>>}
    BY <1>4 DEF Converted
  <2>2. field[1] \in {"bool", "number", "double", "decimal"}
    BY <1>4 DEF Fits
  <2> QED
    BY <1>1, <1>2, <2>1, <2>2 DEF Null
<1>5. CASE base = "BIGINT"
  BY <1>1, <1>2, <1>5 DEF Converted, Null, Fits
<1>6. CASE base = "TIMESTAMP"
  BY <1>1, <1>2, <1>6 DEF Converted, Null, DateShown
<1>7. CASE base = "DATE"
  <2>1. Converted(base, field) = <<"date", DayUnits * ((2 * field[2]) \div DayUnits)>>
    BY <1>7 DEF Converted
  <2>2. field[2] \in Int /\ AtMidnight(field[2])
    BY <1>7 DEF Fits
  <2>3. DateShown(DayUnits * ((2 * field[2]) \div DayUnits), field[2])
    <3> DEFINE date == field[2]
    <3> HIDE DEF date
    <3> QED
      BY <2>2, DayOfDate DEF date
  <2> QED
    BY <1>1, <1>2, <2>1, <2>3 DEF Null
<1> QED
  BY <1>3, <1>4, <1>5, <1>6, <1>7 DEF Fits

(* A column without lists has a type that shows each of its fields in full,    *)
(* where all are of one kind and doubles are not few among integers.        *)
LEMMA ColumnFits ==
    ASSUME NEW docs, NEW N \in Nat, NEW name, NEW path, OnePath(docs, N, name, path),
           NEW types, IsSequence(types), \A t \in ToSet(types) : Flat(t),
           NEW g, Tallies(docs, name, 1..N, types, g),
           Scalar(ResolveTypeConflict(types)),
           NEW j \in 1..N, HasValue(ElementAt(docs[j], path)),
           OneKind({ElementAt(docs[i], path) : i \in {h \in 1..N : HasValue(ElementAt(docs[h], path))}}),
           DoubleFields(docs, N, path) = 0 \/ 10 * DoubleFields(docs, N, path) >= 3 * N
    PROVE  Fits(ElementAt(docs[j], path), ResolveTypeConflict(types).base)
<1> DEFINE field(i) == ElementAt(docs[i], path)
           values == {field(i) : i \in {h \in 1..N : HasValue(field(h))}}
           own == field(j)
           type == ResolveTypeConflict(types)
           D == {i \in 1..N : field(i)[1] = "double"}
           n == Len(types)
           major == MajorityType(types)
<1>1. \A i \in 1..N : HasValue(field(i)) => field(i) \in values
  OBVIOUS
<1>2. own \in values /\ own # Missing
  BY DEF HasValue, Missing
<1>3. OneKind(values)
  OBVIOUS
<1>4. type.list = 0 /\ type.base # "STRUCT"
  BY DEF Scalar
<1>5. n \in Nat /\ DOMAIN types = 1..n /\ AreTypes(types)
  BY DEF IsSequence, AreTypes, Flat
<1>6. PICK k \in DOMAIN types : types[k] = Atomic(InferTypeFromBSON(own)) \/ (types[k].list > 0 /\ own[1] = "array")
  BY <1>2, TypesHaveAll
<1>7. \A t \in ToSet(types) : ~(t.list = 0 /\ t.base = "STRUCT")
  <2> SUFFICES ASSUME NEW t \in ToSet(types), t.list = 0 PROVE t.base # "STRUCT"
    OBVIOUS
  <2> QED
    BY DEF Flat
<1>8. types # <<>>
  <2>1. DOMAIN <<>> = {}
    OBVIOUS
  <2> QED
    BY <1>6, <2>1
<1> HIDE DEF values, type, n, major
<1>9. \/ (\A t \in ToSet(types) : t = types[1]) /\ type = types[1]
      \/ (\E a, b \in DOMAIN types : types[a] # types[b]) /\ type = Atomic(major)
  BY <1>4, <1>5, <1>7, <1>8, Resolved DEF type, major
<1>10. CASE (\A t \in ToSet(types) : t = types[1]) /\ type = types[1]
  <2>1. types[k] = type
    BY <1>6, <1>10 DEF ToSet
  <2>2. type = Atomic(InferTypeFromBSON(own))
    BY <1>4, <1>6, <2>1
  <2>3. type.base = InferTypeFromBSON(own)
    BY <2>2, AtomicFields
  <2>4. own[1] # "binary"
    BY <1>2, <1>3 DEF OneKind
  <2> HIDE DEF field
  <2>5. type.base # "BLOB"
    BY <2>3, <2>4, InferredFrom
  <2>6. Fits(own, type.base)
    BY <2>3, <2>5, InferredFrom DEF Fits
  <2> QED
    BY <2>6 DEF field, type
<1>11. CASE (\E a, b \in DOMAIN types : types[a] # types[b]) /\ type = Atomic(major)
  <2>1. n >= 2
    <3>1. PICK a, b \in DOMAIN types : types[a] # types[b]
      BY <1>11
    <3> QED
      BY <1>5, <3>1
  <2>2. type.base = major
    BY <1>11, AtomicFields
  <2>3. /\ major \in {"VARCHAR", "DOUBLE", "BIGINT", "BOOLEAN", "TIMESTAMP"}
        /\ major # "VARCHAR" => \E i \in DOMAIN types : types[i] = Atomic(major)
        /\ major = "BIGINT" =>
              LET doubles == Cardinality({i \in DOMAIN types : types[i] = Atomic("DOUBLE")})
              IN  doubles = 0 \/ doubles < (n * 3) \div 10
    BY <1>5, <2>1, MajorityIs DEF n, major
  <2>4. ASSUME major # "VARCHAR"
        PROVE  \E i \in 1..N : field(i) \in values /\ InferTypeFromBSON(field(i)) = major
    <3>1. PICK a \in DOMAIN types : types[a] = Atomic(major)
      BY <2>3, <2>4
    <3>2. /\ g[a] \in 1..N
          /\ types[a] = Atomic(InferTypeFromBSON(field(g[a]))) \/ (types[a].list > 0 /\ field(g[a])[1] = "array")
      BY TypesComeFrom
    <3>3. ~(types[a].list > 0)
      BY <3>1, AtomicFields
    <3>4. InferTypeFromBSON(field(g[a])) = major
      BY <3>1, <3>2, <3>3, AtomicFields
    <3>5. HasValue(field(g[a]))
      BY <2>4, <3>4 DEF HasValue, InferTypeFromBSON
    <3> QED
      BY <1>1, <3>2, <3>4, <3>5
  <2>5. ASSUME own[1] = "double" PROVE major # "BIGINT"
    <3> SUFFICES ASSUME major = "BIGINT" PROVE FALSE
      OBVIOUS
    <3> DEFINE K == {i \in DOMAIN types : types[i] = Atomic("DOUBLE")}
               x == Cardinality(D)
               y == Cardinality(K)
    <3>1. PICK i \in 1..N : field(i) \in values /\ InferTypeFromBSON(field(i)) = "BIGINT"
      BY <2>4
    <3>2. field(i)[1] = "number"
      BY <3>1, InferredFrom
    <3>3. \A v \in values : v[1] \in {"number", "double"}
      BY <1>2, <1>3, <2>5, <3>1, <3>2 DEF OneKind
    <3>4. \A h \in 1..N : field(h)[1] # "document"
      <4>1. ASSUME NEW h \in 1..N, field(h)[1] = "document" PROVE FALSE
        <5>1. field(h) \in values
          BY <1>1, <4>1 DEF HasValue
        <5> QED
          BY <3>3, <4>1, <5>1
      <4> QED
        BY <4>1
    <3>5. n <= N /\ x <= y /\ x \in Nat /\ y \in Nat
      <4>1. \A h \in 1..N : ElementAt(docs[h], path)[1] # "document"
        BY <3>4
      <4> HIDE DEF field
      <4>2. /\ Len(types) <= N
            /\ DoubleFields(docs, N, path) <= DoubleTypes(types)
            /\ DoubleFields(docs, N, path) \in Nat /\ DoubleTypes(types) \in Nat
        BY <4>1, DoublesCounted
      <4> QED
        BY <4>2 DEF n, field, DoubleFields, DoubleTypes
    <3>6. y = 0 \/ y < (n * 3) \div 10
      BY <2>3
    <3>7. x = 0 \/ 10 * x >= 3 * N
      BY DEF DoubleFields
    <3>8. x # 0
      <4>1. D # {}
        BY <2>5
      <4>2. IsFiniteSet(1..N) /\ D \subseteq 1..N
        BY FS_Interval
      <4> HIDE DEF D
      <4>3. IsFiniteSet(D)
        BY <4>2, FS_Subset
      <4> QED
        BY <4>1, <4>3, FS_EmptySet
    <3> HIDE DEF x, y, K, D
    <3>9. (n * 3) \div 10 <= N
      BY <1>5, <3>5
    <3>10. 10 * ((n * 3) \div 10) <= 3 * n
      BY <1>5
    <3> DEFINE q == (n * 3) \div 10
    <3>11. q \in Nat /\ 10 * q <= 3 * n
      BY <1>5, <3>10
    <3> HIDE DEF q
    <3>12. y < q
      BY <3>5, <3>6, <3>8 DEF q
    <3> QED
      BY <1>5, <3>5, <3>7, <3>8, <3>11, <3>12
  <2>6. Fits(own, major)
    <3>1. CASE major = "VARCHAR"
      BY <3>1 DEF Fits
    <3>2. CASE major # "VARCHAR"
      <4>1. PICK i \in 1..N : field(i) \in values /\ InferTypeFromBSON(field(i)) = major
        BY <2>4, <3>2
      <4> DEFINE other == field(i)
      <4>2. (other[1] \in {"number", "double"} /\ own[1] \in {"number", "double"}) \/ other[1] = own[1]
        BY <1>2, <1>3, <4>1 DEF OneKind
      <4> HIDE DEF field
      <4>3. /\ major = "BIGINT" => other[1] = "number" /\ own[1] # "double"
            /\ major = "DOUBLE" => other[1] \in {"double", "decimal"}
            /\ major = "BOOLEAN" => other[1] = "bool"
            /\ major = "TIMESTAMP" => other[1] = "date"
        BY <2>5, <4>1, InferredFrom
      <4> QED
        BY <2>3, <3>2, <4>2, <4>3 DEF Fits
    <3> QED
      BY <3>1, <3>2
  <2> QED
    BY <2>2, <2>6 DEF type
<1> QED
  BY <1>9, <1>10, <1>11

(* The parts of a pair, which a field is: its kind and its value.              *)
LEMMA PairIs ==
    ASSUME NEW x, NEW y
    PROVE  DOMAIN <<x, y>> = 1..2 /\ <<x, y>>[1] = x /\ <<x, y>>[2] = y
OBVIOUS

(* No other name is "_id" but for case.                                       *)
LEMMA IdAlone ==
    ASSUME NEW S, NEW c \in Seq(S), SameColumn(IdName, c)
    PROVE  c = IdName
<1> DEFINE id == <<"", "id">>
<1>1. DOMAIN id = 1..2 /\ id[1] = "" /\ id[2] = "id"
  BY PairIs
<1> HIDE DEF id
<1>2. DOMAIN Lower(id) = 1..2 /\ Lower(id)[1] = "" /\ Lower(id)[2] = "id"
  <2>1. DOMAIN Lower(id) = 1..2 /\ \A k \in 1..2 : Lower(id)[k] = IF id[k] = "A" THEN "a" ELSE id[k]
    BY <1>1 DEF Lower
  <2>2. Lower(id)[1] = IF id[1] = "A" THEN "a" ELSE id[1]
    BY <2>1
  <2>3. Lower(id)[2] = IF id[2] = "A" THEN "a" ELSE id[2]
    BY <2>1
  <2> QED
    BY <1>1, <2>1, <2>2, <2>3
<1>3. Lower(id) = Lower(c)
  BY Zenon DEF SameColumn, IdName, id
<1>4. DOMAIN c = 1..2 /\ \A k \in 1..2 : Lower(c)[k] = IF c[k] = "A" THEN "a" ELSE c[k]
  BY <1>2, <1>3 DEF Lower
<1>5. c[1] = "" /\ c[2] = "id"
  <2>1. /\ Lower(c)[1] = IF c[1] = "A" THEN "a" ELSE c[1]
        /\ Lower(c)[2] = IF c[2] = "A" THEN "a" ELSE c[2]
    BY <1>4
  <2>2. Lower(c)[1] = "" /\ Lower(c)[2] = "id"
    BY <1>2, <1>3
  <2> QED
    BY <2>1, <2>2
<1>6. c = <<c[1], c[2]>>
  <2>1. Len(c) = 2
    BY <1>4
  <2> QED
    BY <2>1
<1> QED
  BY <1>5, <1>6, Zenon DEF IdName

(* A column that shares its name with no other, up to case, where everything was *)
(* sampled: its types are those of the fields at its path.                  *)
LEMMA SampledColumn ==
    ASSUME BindInv, TypesInv, stage \notin {"bind", "refused"}, ~Explicit, ToSet(seen) = Docs,
           NEW c \in DOMAIN columns, NEW j \in Docs, HasValue(ElementAt(input.docs[j], paths[c])),
           \A i \in Docs : \A p \in PathsOf(input.docs[i]) : Lower(Joined(p)) = Lower(c) => p = paths[c]
    PROVE  /\ c \in DOMAIN fieldTypes
           /\ columns[c] = ResolveTypeConflict(fieldTypes[c])
           /\ paths[c] \in ToSet(PathOrder)
           /\ OnePath(input.docs, Len(input.docs), c, paths[c])
<1> DEFINE docs == input.docs
           path == paths[c]
           A == Seq(STRING)
<1>1. input \in Inputs /\ Docs = 1..Len(docs) /\ Len(docs) \in Nat /\ MaxDepth \in Nat
      /\ \A i \in Docs : PathsOf(docs[i]) \subseteq ToSet(PathOrder)
  BY InputFacts, InferenceAssumption DEF BindInv
<1>2. PathOrder \in Seq(Seq(A) \ {<<>>}) /\ ToSet(PathOrder) \subseteq Seq(A) \ {<<>>}
  <2>1. PathOrder \in Seq(Seq(A) \ {<<>>})
    BY InferenceAssumption
  <2> HIDE DEF A
  <2> QED
    BY <2>1 DEF ToSet
<1>3. DOMAIN fieldTypes = SampledNames
  BY DEF TypesInv, Tally
<1>4. \A i \in Docs : \A p \in PathsOf(docs[i]) : Joined(p) \in DOMAIN fieldTypes
  BY <1>3 DEF SampledNames, NamesIn
<1>5. ElementAt(docs[j], path) # Missing
  BY DEF HasValue, Missing
<1>6. ASSUME NEW i \in Docs, NEW p \in ToSet(PathOrder), Len(p) <= MaxDepth + 1, ElementAt(docs[i], p) # Missing
      PROVE  p \in PathsOf(docs[i])
  <2> HIDE DEF A
  <2> QED
    BY <1>1, <1>2, <1>6, FieldsAreInPaths
<1>7. c \in DOMAIN fieldTypes
  <2>1. CASE c # IdName
    <3>1. PICK i \in ToSet(seen) : path \in PathsNamed(docs[i], c)
      BY <2>1 DEF BindInv, ColumnsNameSample
    <3> QED
      BY <1>4, <3>1 DEF PathsNamed
  <2>2. CASE c = IdName
    <3> SUFFICES ASSUME IdName \notin DOMAIN fieldTypes PROVE FALSE
      BY <2>2
    <3>1. path = IdPath
      BY <2>2 DEF TypesInv
    <3>2. IdPath \in ToSet(PathOrder) /\ Len(IdPath) = 1 /\ Joined(IdPath) = IdName
      BY InferenceAssumption, FlattenOne DEF IdPath, Joined
    <3>3. Len(IdPath) <= MaxDepth + 1
      BY <1>1, <3>2
    <3> QED
      BY <1>4, <1>5, <1>6, <3>1, <3>2, <3>3
  <2> QED
    BY <2>1, <2>2
<1>8. PICK h \in Docs : path \in PathsNamed(docs[h], c)
  BY <1>7 DEF TypesInv
<1>9. path \in PathsOf(docs[h]) /\ Joined(path) = c
  BY <1>8 DEF PathsNamed
<1>10. path \in ToSet(PathOrder) /\ path \in Seq(A) /\ Len(path) <= MaxDepth + 1
  <2>1. PathsOf(docs[h]) \subseteq Seq(A)
    BY <1>1, <1>2
  <2> HIDE DEF A
  <2>2. Len(path) <= MaxDepth + 1
    BY <1>1, <1>9, <2>1, PathsAreShort
  <2> QED
    BY <1>1, <1>9, <2>1, <2>2
<1>11. c \in Seq(STRING)
  BY <1>9, <1>10, FlattenType DEF Joined
<1>12. \A m \in {IdName} \union DOMAIN fieldTypes : SameColumn(m, c) => m = c
  <2>1. ASSUME NEW m \in DOMAIN fieldTypes, SameColumn(m, c) PROVE m = c
    <3>1. PICK i \in Docs : m \in NamesIn(docs[i])
      BY <1>3 DEF SampledNames
    <3>2. PICK p \in PathsOf(docs[i]) : m = Joined(p)
      BY <3>1 DEF NamesIn
    <3>3. p = path
      BY <2>1, <3>2 DEF SameColumn
    <3> QED
      BY <1>9, <3>2, <3>3
  <2>2. ASSUME SameColumn(IdName, c) PROVE IdName = c
    BY <1>11, <2>2, IdAlone
  <2> QED
    BY <2>1, <2>2
<1>13. columns[c] = ResolveTypeConflict(fieldTypes[c])
  BY <1>7, <1>12 DEF TypesInv
<1>14. ASSUME NEW i \in 1..Len(docs)
       PROVE  /\ \/ TypesOf(docs[i], c) = TypesAdded(docs[i], path)
                 \/ TypesOf(docs[i], c) = <<>> /\ ElementAt(docs[i], path) = Missing
              /\ TypedArray(docs[i], path)
  <2>1. i \in Docs
    BY <1>1
  <2>2. PathsNamed(docs[i], c) \subseteq {path}
    BY <2>1 DEF PathsNamed
  <2>3. ElementAt(docs[i], path) # Missing => path \in PathsNamed(docs[i], c)
    BY <1>6, <1>9, <1>10, <2>1 DEF PathsNamed
  <2>4. TypedArray(docs[i], path)
    <3>1. ElementAt(docs[i], path)[1] = "array" => IsArray(ElementAt(docs[i], path)[2])
      BY <1>1, <1>10, <2>1, InferenceAssumption DEF Docs
    <3>2. path \in Seq(A) \ {<<>>} /\ Len(path) <= MaxDepth + 1
      BY <1>2, <1>10
    <3> HIDE DEF A
    <3>3. Len(path) - 1 \in 0..MaxDepth
      BY <1>1, <3>2
    <3> QED
      BY <3>1, <3>3 DEF TypedArray
  <2>5. CASE path \in PathsNamed(docs[i], c)
    BY <2>2, <2>4, <2>5, TypesOfOne
  <2>6. CASE path \notin PathsNamed(docs[i], c)
    <3>1. PathsNamed(docs[i], c) = {}
      BY <2>2, <2>6
    <3> QED
      BY <2>3, <2>4, <2>6, <3>1, TypesOfNone
  <2> QED
    BY <2>5, <2>6
<1>15. OnePath(docs, Len(docs), c, path)
  BY <1>14 DEF OnePath
<1> QED
  BY <1>7, <1>10, <1>13, <1>15

(* Where the whole collection was sampled, values of one kind are shown in full. *)
THEOREM SamplesComeWhole == Spec => []SampleShown
<1>1. ScanInv /\ BindInv /\ TypesInv => SampleShown
  <2> SUFFICES ASSUME ScanInv, BindInv, TypesInv, stage = "done", ~Explicit, ToSet(seen) = Docs,
                      NEW r \in DOMAIN delivered, NEW k \in DOMAIN select,
             LET c == select[k]
                 field(i) == ElementAt(input.docs[i], paths[c])
                 own == field(delivered[r].doc)
                 shared == \E i \in Docs : \E p \in PathsOf(input.docs[i]) : Lower(Joined(p)) = Lower(c) /\ p # paths[c]
                 doubles == Cardinality({i \in Docs : field(i)[1] = "double"})
             IN  /\ Scalar(columns[c]) /\ HasValue(own) /\ ~shared
                 /\ OneKind({field(i) : i \in {j \in Docs : HasValue(field(j))}})
                 /\ doubles = 0 \/ 10 * doubles >= 3 * Len(input.docs)
        PROVE  LET c == select[k]
                   own == ElementAt(input.docs[delivered[r].doc], paths[c])
                   shown == delivered[r].shown[k]
               IN  /\ shown # Null
                   /\ shown[1] = "number" => own[1] = "number"
                   /\ shown[1] = "date" => DateShown(shown[2], own[2])
    BY Zenon DEF SampleShown, DateShown
  <2> DEFINE c == select[k]
             j == delivered[r].doc
             d == input.docs[j]
             own == ElementAt(d, paths[c])
             shown == delivered[r].shown[k]
             N == Len(input.docs)
             base == columns[c].base
  <2>1. Requested /\ Progress /\ ChunkRight /\ ColumnsHavePaths /\ input \in Inputs /\ Docs = 1..N /\ N \in Nat
    BY InputFacts DEF ScanInv, BindInv, Opened
  <2>2. c \in DOMAIN columns /\ j \in Docs
    <3>1. select \in Seq(DOMAIN columns) /\ Rows \in Seq(Docs) /\ DOMAIN Rows = DOMAIN delivered /\ Rows[r] = j
      BY <2>1 DEF Requested, Progress, Rows
    <3> QED
      BY <3>1
  <2>3. Scalar(columns[c]) /\ HasValue(own)
    OBVIOUS
  <2>4. \A i \in Docs : \A p \in PathsOf(input.docs[i]) : Lower(Joined(p)) = Lower(c) => p = paths[c]
    OBVIOUS
  <2>5. /\ c \in DOMAIN fieldTypes
        /\ columns[c] = ResolveTypeConflict(fieldTypes[c])
        /\ paths[c] \in ToSet(PathOrder)
        /\ OnePath(input.docs, N, c, paths[c])
    <3> HIDE DEF c, j
    <3> QED
      BY <2>2, <2>3, <2>4, SampledColumn
  <2>6. /\ IsSequence(fieldTypes[c]) /\ \A t \in ToSet(fieldTypes[c]) : Flat(t)
        /\ \E g : Tallies(input.docs, c, ToSet(seen), fieldTypes[c], g)
    BY <2>5 DEF TypesInv, Tally
  <2>7. PICK g : Tallies(input.docs, c, 1..N, fieldTypes[c], g)
    BY <2>1, <2>6
  <2>8. OneKind({ElementAt(input.docs[i], paths[c]) : i \in {h \in 1..N : HasValue(ElementAt(input.docs[h], paths[c]))}})
    BY <2>1
  <2>9. DoubleFields(input.docs, N, paths[c]) = 0 \/ 10 * DoubleFields(input.docs, N, paths[c]) >= 3 * N
    BY <2>1 DEF DoubleFields
  <2>10. Fits(own, base)
    <3> DEFINE types == fieldTypes[c]
               path == paths[c]
               docs == input.docs
    <3>1. Scalar(ResolveTypeConflict(types)) /\ j \in 1..N /\ HasValue(ElementAt(docs[j], path))
      BY <2>1, <2>2, <2>3, <2>5
    <3>2. IsSequence(types) /\ (\A t \in ToSet(types) : Flat(t)) /\ Tallies(docs, c, 1..N, types, g)
      BY <2>6, <2>7
    <3>3. OnePath(docs, N, c, path)
      BY <2>5
    <3>4. OneKind({ElementAt(docs[i], path) : i \in {h \in 1..N : HasValue(ElementAt(docs[h], path))}})
      BY <2>8
    <3>5. DoubleFields(docs, N, path) = 0 \/ 10 * DoubleFields(docs, N, path) >= 3 * N
      BY <2>9
    <3> HIDE DEF types, path, docs, c, j, N
    <3>6. Fits(ElementAt(docs[j], path), ResolveTypeConflict(types).base)
      BY <2>1, <3>1, <3>2, <3>3, <3>4, <3>5, ColumnFits
    <3> QED
      BY <2>5, <3>6 DEF types, path, docs
  <2>11. own[1] = "date" => own[2] \in Int
    BY <2>1, <2>2, <2>5, InferenceAssumption DEF Docs
  <2>12. /\ IsBSONTypeCompatible(own[1], base) /\ Read(base, own) # Null
         /\ Read(base, own)[1] = "number" => own[1] = "number"
         /\ Read(base, own)[1] = "date" => DateShown(Read(base, own)[2], own[2])
    <3> HIDE DEF own, base
    <3> QED
      BY <2>3, <2>10, <2>11, ReadInFull DEF HasValue
  <2>13. shown = Read(base, own)
    <3>1. ScalarRight(d, c, shown)
      BY <2>1, <2>3 DEF ChunkRight, Right
    <3>2. own # Missing
      BY <2>3 DEF HasValue, Missing
    <3>3. \E p \in projection : IsPrefix(p, paths[c])
      BY <2>1 DEF Requested, ToSet
    <3>4. Element(d, c) = own
      <4> HIDE DEF d, c
      <4> QED
        BY <3>2, <3>3, ElementIs DEF own
    <3>5. ~Violates(d, c)
      <4> HIDE DEF d, c, own
      <4> QED
        BY <2>12, <3>4 DEF Violates, base
    <3>6. ~Leftovers
      BY DEF Leftovers, Enforced
    <3> HIDE DEF d, c, shown
    <3> QED
      BY <3>1, <3>2, <3>5, <3>6 DEF ScalarRight, own, base
  <2> HIDE DEF shown, own, base
  <2>14. /\ shown # Null /\ (shown[1] = "number" => own[1] = "number")
         /\ shown[1] = "date" => DateShown(shown[2], own[2])
    BY <2>12, <2>13
  <2> QED
    BY <2>14 DEF shown, own, base
<1> QED
  BY <1>1, ScanHolds, TypesHold, PTL

=============================================================================
