-------------------------- MODULE InferenceProofs --------------------------
(***************************************************************************)
(* Proofs about SchemaInference: the sequences of types, the type they are  *)
(* resolved to, and how the types of a column are those of the sampled      *)
(* documents, each once.                                                    *)
(***************************************************************************)
EXTENDS SchemaInference, SelectionProofs, FiniteSetTheorems

-----------------------------------------------------------------------------
(* Sequences.                                                               *)

IsSequence(s) == s \in Seq(ToSet(s))

LEMMA OwnSequence ==
    ASSUME NEW A, NEW s \in Seq(A)
    PROVE  IsSequence(s)
<1>1. Len(s) \in Nat /\ DOMAIN s = 1..Len(s) /\ s = [i \in 1..Len(s) |-> s[i]]
  OBVIOUS
<1>2. \A i \in 1..Len(s) : s[i] \in ToSet(s)
  BY <1>1 DEF ToSet
<1> HIDE DEF ToSet
<1>3. s \in [1..Len(s) -> ToSet(s)]
  BY <1>1, <1>2
<1> QED
  BY <1>1, <1>3 DEF IsSequence

LEMMA FunctionSequence ==
    ASSUME NEW n \in Nat, NEW f, f = [i \in 1..n |-> f[i]]
    PROVE  IsSequence(f) /\ Len(f) = n
<1>1. \A i \in 1..n : f[i] \in ToSet(f)
  BY DEF ToSet
<1>2. f \in [1..n -> ToSet(f)]
  BY <1>1
<1> QED
  BY <1>2 DEF IsSequence

LEMMA Concatenated ==
    ASSUME NEW s, NEW t, IsSequence(s), IsSequence(t)
    PROVE  /\ IsSequence(s \o t) /\ DOMAIN (s \o t) = 1..(Len(s) + Len(t))
           /\ Len(s) \in Nat /\ Len(t) \in Nat /\ DOMAIN s = 1..Len(s) /\ DOMAIN t = 1..Len(t)
           /\ \A r \in 1..Len(s) : (s \o t)[r] = s[r]
           /\ \A r \in 1..Len(t) : (s \o t)[Len(s) + r] = t[r]
<1> DEFINE A == ToSet(s) \union ToSet(t)
<1>1. s \in Seq(A) /\ t \in Seq(A)
  BY DEF IsSequence
<1> HIDE DEF A
<1>2. s \o t \in Seq(A)
  BY <1>1
<1>3. IsSequence(s \o t)
  BY <1>2, OwnSequence
<1> QED
  BY <1>1, <1>3

LEMMA AppendRange ==
    ASSUME NEW S, NEW s \in Seq(S), NEW x \in S
    PROVE  Append(s, x) \in Seq(S) /\ ToSet(Append(s, x)) = ToSet(s) \union {x}
<1>1. /\ Append(s, x) \in Seq(S) /\ Len(s) \in Nat
      /\ DOMAIN Append(s, x) = 1..(Len(s) + 1) /\ DOMAIN s = 1..Len(s)
      /\ Append(s, x)[Len(s) + 1] = x /\ \A i \in 1..Len(s) : Append(s, x)[i] = s[i]
  OBVIOUS
<1> DEFINE t == Append(s, x)
<1> HIDE DEF t
<1>2. ToSet(t) = {t[i] : i \in 1..(Len(s) + 1)} /\ ToSet(s) = {s[i] : i \in 1..Len(s)}
  BY <1>1 DEF ToSet, t
<1>3. \A y : y \in ToSet(t) <=> y \in ToSet(s) \union {x}
  <2>1. \A i : i \in 1..(Len(s) + 1) <=> i \in 1..Len(s) \/ i = Len(s) + 1
    BY <1>1
  <2>2. t[Len(s) + 1] = x /\ \A i \in 1..Len(s) : t[i] = s[i]
    BY <1>1 DEF t
  <2> QED
    BY <1>2, <2>1, <2>2
<1> QED
  BY <1>1, <1>3 DEF t

LEMMA FlattenNone ==
    FlattenSeq(<<>>) = <<>>
BY DEF FlattenSeq

LEMMA FlattenOne ==
    ASSUME NEW s
    PROVE  FlattenSeq(<<s>>) = s
<1> DEFINE t == <<s>>
           Eqn(f) == f = [i \in 1..Len(t) |-> IF i = 1 THEN t[i] ELSE f[i - 1] \o t[i]]
           flatten == CHOOSE f : Eqn(f)
<1>1. Len(t) = 1 /\ t[1] = s
  OBVIOUS
<1>2. FlattenSeq(t) = flatten[1]
  BY <1>1 DEF FlattenSeq
<1>3. Eqn([i \in 1..1 |-> s])
  BY <1>1
<1>4. Eqn(flatten)
  <2> HIDE DEF Eqn
  <2> QED
    BY <1>3
<1> HIDE DEF t, flatten
<1>5. flatten[1] = s
  BY <1>1, <1>4
<1> QED
  BY <1>2, <1>5 DEF t

(* Sequences of elements of a set make one sequence of them.                  *)
LEMMA FlattenType ==
    ASSUME NEW S, NEW seqs \in Seq(Seq(S))
    PROVE  FlattenSeq(seqs) \in Seq(S)
<1> DEFINE N == Len(seqs)
           V == Seq(S)
           step == [n \in 1..N |-> [x \in V |-> IF n = 1 THEN seqs[n] ELSE x \o seqs[n]]]
           Eqn(f) == f = [i \in 1..N |-> IF i = 1 THEN seqs[i] ELSE f[i - 1] \o seqs[i]]
           flatten == CHOOSE f : Eqn(f)
<1>1. N \in Nat /\ \A n \in 1..N : seqs[n] \in V
  OBVIOUS
<1>2. CASE N = 0
  BY <1>2 DEF FlattenSeq
<1>3. CASE N # 0
  <2>1. PICK f : Unfolds(f, N, V, <<>>, step)
    <3>1. <<>> \in V
      OBVIOUS
    <3>2. step \in [1..N -> [V -> V]]
      BY <1>1
    <3> HIDE DEF V, step, N
    <3> QED
      BY <1>1, <3>1, <3>2, Recursion
  <2> DEFINE g == [i \in 1..N |-> f[i]]
  <2>2. ASSUME NEW n \in 1..N
        PROVE  g[n] = IF n = 1 THEN seqs[n] ELSE g[n - 1] \o seqs[n]
    <3>1. f[n] = step[n][f[n - 1]] /\ f[n - 1] \in V
      <4>1. n - 1 \in 0..N
        BY <1>1
      <4> HIDE DEF V, step, N
      <4> QED
        BY <2>1, <4>1 DEF Unfolds
    <3> HIDE DEF V
    <3>2. f[n] = IF n = 1 THEN seqs[n] ELSE f[n - 1] \o seqs[n]
      BY <3>1
    <3>3. n # 1 => n - 1 \in 1..N
      BY <1>1
    <3> HIDE DEF N
    <3> QED
      BY <3>2, <3>3
  <2>3. Eqn(g)
    <3> HIDE DEF N
    <3>1. g = [i \in 1..N |-> g[i]]
      OBVIOUS
    <3> HIDE DEF g
    <3> QED
      BY <2>2, <3>1
  <2>4. Eqn(flatten)
    <3> HIDE DEF Eqn
    <3> QED
      BY <2>3
  <2>5. FlattenSeq(seqs) = flatten[N]
    BY <1>3 DEF FlattenSeq
  <2> DEFINE T == {n \in 0..N : n = 0 \/ flatten[n] \in V}
  <2>6. 0..N \subseteq T
    <3>1. 0 \in T
      BY <1>1
    <3>2. ASSUME NEW k \in 0..(N - 1), k \in T PROVE k + 1 \in T
      <4> HIDE DEF flatten
      <4>1. k + 1 \in 1..N /\ k + 1 \in 0..N /\ (k + 1) - 1 = k
        BY <1>1
      <4>2. flatten[k + 1] = IF k + 1 = 1 THEN seqs[k + 1] ELSE flatten[(k + 1) - 1] \o seqs[k + 1]
        BY <2>4, <4>1
      <4>3. seqs[k + 1] \in V
        BY <1>1, <4>1
      <4>4. CASE k = 0
        BY <4>1, <4>2, <4>3, <4>4
      <4>5. CASE k # 0
        <5>1. flatten[k] \in V /\ k + 1 # 1
          BY <3>2, <4>5
        <5>2. flatten[k] \o seqs[k + 1] \in V
          BY <4>3, <5>1
        <5>3. flatten[k + 1] \in V
          BY <4>1, <4>2, <5>1, <5>2
        <5> QED
          BY <4>1, <5>3
      <4> QED
        BY <4>4, <4>5
    <3> HIDE DEF T, N
    <3> QED
      BY <1>1, <3>1, <3>2, SetInduction
  <2>7. N \in 0..N
    BY <1>1
  <2> HIDE DEF N, flatten
  <2> QED
    BY <1>3, <2>5, <2>6, <2>7
<1> QED
  BY <1>2, <1>3

(* A finite set as a sequence.                                              *)
LEMMA SetAsSequence ==
    ASSUME NEW S, IsFiniteSet(S)
    PROVE  /\ Cardinality(S) \in Nat
           /\ SetToSeq(S) \in [1..Cardinality(S) -> S]
           /\ Len(SetToSeq(S)) = Cardinality(S)
<1>1. Cardinality(S) \in Nat /\ ExistsBijection(1..Cardinality(S), S)
  BY FS_CardinalityType
<1>2. \E f \in [1..Cardinality(S) -> S] : IsInjective(f)
  BY <1>1 DEF ExistsBijection, Bijection, Injection
<1>3. SetToSeq(S) \in [1..Cardinality(S) -> S]
  BY <1>2 DEF SetToSeq
<1> QED
  BY <1>1, <1>3

-----------------------------------------------------------------------------
(* Functions that are updated.                                              *)

LEMMA UpdateDomain ==
    ASSUME NEW f, NEW g
    PROVE  DOMAIN Update(f, g) = DOMAIN f \union DOMAIN g
BY DEF Update

LEMMA UpdateNew ==
    ASSUME NEW f, NEW g, NEW x \in DOMAIN g
    PROVE  Update(f, g)[x] = g[x]
BY DEF Update

LEMMA UpdateOld ==
    ASSUME NEW f, NEW g, NEW x \in DOMAIN f, x \notin DOMAIN g
    PROVE  Update(f, g)[x] = f[x]
BY DEF Update

-----------------------------------------------------------------------------
(* The type of several types.                                               *)

AreTypes(types) == IsSequence(types) /\ \A t \in ToSet(types) : t.list \in Nat

LEMMA AtomicFields ==
    ASSUME NEW id
    PROVE  Atomic(id).list = 0 /\ Atomic(id).base = id
BY DEF Atomic

(* What is selected from types are those of them that are in the set.        *)
LEMMA KeptTypes ==
    ASSUME NEW types, AreTypes(types), NEW S
    PROVE  /\ AreTypes(Keep(types, S))
           /\ ToSet(Keep(types, S)) = ToSet(types) \intersect S
           /\ Keep(types, S) = <<>> <=> ToSet(types) \intersect S = {}
<1> DEFINE A == ToSet(types)
           kept == Keep(types, S)
<1>1. types \in Seq(A) /\ Len(types) \in Nat /\ DOMAIN types = 1..Len(types)
  BY DEF AreTypes, IsSequence
<1>2. kept \in Seq(A \intersect S)
  <2> HIDE DEF A
  <2> QED
    BY <1>1, KeepType
<1>3. \A x : (\E i \in 1..Len(kept) : kept[i] = x) <=> x \in S /\ \E i \in 1..Len(types) : types[i] = x
  <2> HIDE DEF A
  <2> QED
    BY <1>1, KeepHolds
<1> HIDE DEF kept
<1>4. DOMAIN kept = 1..Len(kept) /\ Len(kept) \in Nat
  BY <1>2
<1>5. ToSet(kept) = A \intersect S
  BY <1>1, <1>3, <1>4 DEF ToSet
<1>6. IsSequence(kept)
  BY <1>2, OwnSequence
<1>7. kept = <<>> <=> Len(kept) = 0
  BY <1>2
<1>8. ToSet(kept) = {} <=> Len(kept) = 0
  <2>1. Len(kept) # 0 => 1 \in DOMAIN kept
    BY <1>4
  <2>2. Len(kept) = 0 => DOMAIN kept = {}
    BY <1>4
  <2> QED
    BY <2>1, <2>2 DEF ToSet
<1> QED
  BY <1>5, <1>6, <1>7, <1>8 DEF kept, AreTypes

LEMMA GreatestValue ==
    ASSUME NEW n \in Nat \ {0}, NEW f, \A i \in 1..n : f[i] \in Nat
    PROVE  \E i \in 1..n : \A j \in 1..n : f[j] <= f[i]
<1> DEFINE T == {m \in 0..n : m = 0 \/ \E i \in 1..m : \A j \in 1..m : f[j] <= f[i]}
<1>1. 0 \in T
  OBVIOUS
<1>2. ASSUME NEW k \in 0..(n - 1), k \in T PROVE k + 1 \in T
  <2>1. k + 1 \in 1..n /\ \A j \in 1..(k + 1) : j = k + 1 \/ j \in 1..k
    OBVIOUS
  <2>2. CASE k = 0
    BY <2>1, <2>2
  <2>3. CASE k # 0
    <3>1. PICK i \in 1..k : \A j \in 1..k : f[j] <= f[i]
      BY <1>2, <2>3
    <3>2. CASE f[k + 1] <= f[i]
      <4>1. i \in 1..(k + 1) /\ \A j \in 1..(k + 1) : f[j] <= f[i]
        BY <2>1, <3>1, <3>2
      <4> QED
        BY <2>1, <4>1
    <3>3. CASE f[i] <= f[k + 1]
      <4>1. ASSUME NEW j \in 1..(k + 1) PROVE f[j] <= f[k + 1]
        BY <2>1, <3>1, <3>3
      <4> QED
        BY <2>1, <4>1
    <3> QED
      BY <2>1, <3>2, <3>3
  <2> QED
    BY <2>2, <2>3
<1>3. 0..n \subseteq T
  <2> HIDE DEF T
  <2> QED
    BY <1>1, <1>2, SetInduction
<1> QED
  BY <1>3

(* Lists merge into a list.                                                  *)
LEMMA ListsMergeIntoList ==
    ASSUME NEW lists, AreTypes(lists), lists # <<>>, \A t \in ToSet(lists) : t.list > 0
    PROVE  MergedLists(lists).list \in Nat \ {0}
<1> DEFINE deepest == CHOOSE i \in DOMAIN lists :
                        \A j \in DOMAIN lists : /\ lists[j].list <= lists[i].list
                                                /\ j < i => lists[j].list < lists[i].list
           n == Len(lists)
<1>1. n \in Nat \ {0} /\ DOMAIN lists = 1..n /\ \A i \in 1..n : lists[i].list \in Nat \ {0}
  <2>1. lists \in Seq(ToSet(lists))
    BY DEF AreTypes, IsSequence
  <2> QED
    BY <2>1 DEF AreTypes
<1> HIDE DEF n
<1> DEFINE f == [i \in 1..n |-> lists[i].list]
           G == {i \in 1..n : \A j \in 1..n : f[j] <= f[i]}
<1>2. G # {} /\ G \subseteq Nat
  <2>1. \A i \in 1..n : f[i] \in Nat
    BY <1>1
  <2> HIDE DEF f
  <2>2. \E i \in 1..n : \A j \in 1..n : f[j] <= f[i]
    BY <1>1, <2>1, GreatestValue
  <2>3. 1..n \subseteq Nat
    OBVIOUS
  <2> QED
    BY <2>2, <2>3
<1>3. PICK i \in G : \A j \in G : i <= j
  <2> HIDE DEF G
  <2> QED
    BY <1>2, LeastElement
<1>4. ASSUME NEW j \in 1..n PROVE lists[j].list <= lists[i].list /\ (j < i => lists[j].list < lists[i].list)
  <2>1. lists[j].list <= lists[i].list /\ i \in 1..n
    OBVIOUS
  <2>2. ASSUME j < i, lists[j].list = lists[i].list PROVE FALSE
    <3>1. j \in G
      BY <2>2
    <3> QED
      BY <1>1, <1>3, <2>2, <3>1
  <2> QED
    BY <1>1, <2>1, <2>2
<1>5. deepest \in DOMAIN lists
  BY <1>1, <1>3, <1>4
<1> HIDE DEF deepest
<1>6. lists[deepest].list \in Nat \ {0}
  BY <1>1, <1>5
<1>7. \A fields : ListOf(Struct(fields)).list = 1
  BY DEF ListOf, Struct
<1> QED
  BY <1>6, <1>7 DEF MergedLists, deepest

(* Types resolve to one with levels: lists to a list, types that are one to    *)
(* that, and atomic ones by majority.                                        *)
LEMMA Resolved ==
    ASSUME NEW types, AreTypes(types)
    PROVE  /\ ResolveTypeConflict(types).list \in Nat
           /\ \/ types = <<>> /\ ResolveTypeConflict(types) = Atomic("VARCHAR")
              \/ types # <<>> /\ (\A t \in ToSet(types) : t = types[1]) /\ ResolveTypeConflict(types) = types[1]
              \/ ResolveTypeConflict(types).list > 0
              \/ \E t \in ToSet(types) : t.list = 0 /\ t.base = "STRUCT"
              \/ /\ \A t \in ToSet(types) : ~(t.list > 0)
                 /\ \E i, j \in DOMAIN types : types[i] # types[j]
                 /\ ResolveTypeConflict(types) = Atomic(MajorityType(types))
<1> DEFINE L == {t \in ToSet(types) : t.list > 0}
           S == {t \in ToSet(types) : t.list = 0 /\ t.base = "STRUCT"}
           lists == Keep(types, L)
           structs == Keep(types, S)
           same == \A i \in DOMAIN types : types[i] = types[1]
           result == ResolveTypeConflict(types)
<1>1. result = CASE types = <<>> -> Atomic("VARCHAR")
                 [] types # <<>> /\ same -> types[1]
                 [] ~same /\ lists # <<>> -> MergedLists(lists)
                 [] ~same /\ lists = <<>> /\ structs # <<>> -> structs[1]
                 [] OTHER -> Atomic(MajorityType(types))
  BY DEF ResolveTypeConflict
<1>2. /\ AreTypes(lists) /\ ToSet(lists) = L /\ (lists = <<>> <=> L = {})
      /\ AreTypes(structs) /\ ToSet(structs) = S /\ (structs = <<>> <=> S = {})
  <2>1. ToSet(types) \intersect L = L /\ ToSet(types) \intersect S = S
    OBVIOUS
  <2> HIDE DEF L, S
  <2> QED
    BY <2>1, KeptTypes
<1>3. types \in Seq(ToSet(types)) /\ (types # <<>> => 1 \in DOMAIN types) /\ \A t \in ToSet(types) : t.list \in Nat
  BY DEF AreTypes, IsSequence
<1>4. same <=> \A t \in ToSet(types) : t = types[1]
  BY DEF ToSet
<1>5. types = <<>> => same
  OBVIOUS
<1> HIDE DEF lists, structs, same, result
<1>6. CASE types = <<>>
  <2>1. result = Atomic("VARCHAR")
    BY <1>1, <1>5, <1>6
  <2> QED
    BY <1>6, <2>1, AtomicFields DEF result
<1>7. CASE types # <<>> /\ same
  <2>1. result = types[1]
    BY <1>1, <1>7
  <2>2. types[1] \in ToSet(types)
    BY <1>3, <1>7 DEF ToSet
  <2> QED
    BY <1>3, <1>4, <1>7, <2>1, <2>2 DEF result
<1>8. CASE ~same /\ lists # <<>>
  <2>1. result = MergedLists(lists)
    BY <1>1, <1>5, <1>8
  <2>2. result.list \in Nat \ {0}
    BY <1>2, <1>8, <2>1, ListsMergeIntoList
  <2> QED
    BY <2>2 DEF result
<1>9. CASE ~same /\ lists = <<>> /\ structs # <<>>
  <2>1. result = structs[1]
    BY <1>1, <1>5, <1>9
  <2>2. structs[1] \in S
    <3>1. structs \in Seq(S)
      BY <1>2 DEF AreTypes, IsSequence
    <3> HIDE DEF S
    <3> QED
      BY <1>9, <3>1
  <2> QED
    BY <1>3, <2>1, <2>2 DEF result
<1>10. CASE ~same /\ lists = <<>> /\ structs = <<>>
  <2>1. result = Atomic(MajorityType(types))
    BY <1>1, <1>5, <1>10
  <2>2. \E i, j \in DOMAIN types : types[i] # types[j]
    BY <1>3, <1>5, <1>10 DEF same
  <2> QED
    BY <1>2, <1>10, <2>1, <2>2, AtomicFields DEF result
<1> QED
  BY <1>6, <1>7, <1>8, <1>9, <1>10

-----------------------------------------------------------------------------
(* The types a document adds to a column.                                    *)

(* A list, or a type without fields.                                         *)
Flat(t) == t.list \in Nat /\ (t.list > 0 \/ (t = Atomic(t.base) /\ t.base # "STRUCT"))

(* An array as it is sampled, at a path that is not too long.                 *)
TypedArray(d, path) ==
    ElementAt(d, path)[1] = "array" => IsArray(ElementAt(d, path)[2]) /\ Len(path) - 1 \in 0..MaxDepth

LEMMA AtomicFlat ==
    ASSUME NEW field
    PROVE  Flat(Atomic(InferTypeFromBSON(field))) /\ Flat(Atomic("VARCHAR"))
<1>1. InferTypeFromBSON(field) # "STRUCT"
  BY DEF InferTypeFromBSON
<1> QED
  BY <1>1, AtomicFields DEF Flat

LEMMA ArrayFlat ==
    ASSUME NEW elements, IsArray(elements), NEW nesting \in 0..MaxDepth
    PROVE  /\ Flat(InferArrayType(elements, nesting))
           /\ InferArrayType(elements, nesting).list > 0 \/ InferArrayType(elements, nesting) = Atomic("VARCHAR")
<1>1. CASE DOMAIN elements = {}
  BY <1>1, AtomicFlat DEF InferArrayType
<1>2. CASE DOMAIN elements # {}
  <2> DEFINE depth == CHOOSE k \in {Len(p) : p \in DOMAIN elements} : Ones(k) \in DOMAIN elements
             first == elements[Ones(depth)]
             struct == InferStructTypeFromArray(elements, Ones(depth - 1))
             levels == MaxDepth + 2 - nesting
             failed == first[1] = "document" /\ (struct.base = "VARCHAR" \/ depth >= levels)
             result == InferArrayType(elements, nesting)
  <2>1. depth \in Nat \ {0}
    <3>1. PICK p \in DOMAIN elements : Ones(Len(p)) \in DOMAIN elements
      BY <1>2 DEF IsArray
    <3>2. depth \in {Len(q) : q \in DOMAIN elements}
      BY <3>1
    <3>3. \A q \in DOMAIN elements : Len(q) \in Nat \ {0}
      BY DEF IsArray
    <3> HIDE DEF depth
    <3> QED
      BY <3>2, <3>3
  <2>2. result = IF depth > levels THEN [Atomic("VARCHAR") EXCEPT !.list = levels]
                 ELSE IF (failed /\ depth <= 2) \/ (first[1] = "empty" /\ depth = 1) THEN Atomic("VARCHAR")
                 ELSE IF failed THEN [Atomic("VARCHAR") EXCEPT !.list = depth - 1]
                 ELSE IF first[1] = "document" THEN [struct EXCEPT !.list = depth]
                 ELSE [Atomic(InferTypeFromBSON(first)) EXCEPT !.list = depth]
    BY <1>2 DEF InferArrayType
  <2>3. [struct EXCEPT !.list = depth].list = depth
    <3>1. \/ struct = Atomic("VARCHAR")
          \/ \E fields : struct = Struct(fields)
      <4> HIDE DEF depth
      <4> QED
        BY DEF InferStructTypeFromArray
    <3> HIDE DEF struct, depth
    <3> QED
      BY <3>1 DEF Atomic, Struct
  <2>4. \A id, n : [Atomic(id) EXCEPT !.list = n].list = n
    BY DEF Atomic
  <2>5. levels \in Nat \ {0}
    BY InferenceAssumption
  <2> HIDE DEF depth, first, struct, failed, result, levels
  <2>6. \/ result.list = depth
        \/ result = Atomic("VARCHAR")
        \/ result.list = depth - 1 /\ ~(depth <= 2)
        \/ result.list = levels
    <3>1. CASE depth > levels
      BY <2>2, <2>4, <3>1
    <3>2. CASE ~(depth > levels) /\ ((failed /\ depth <= 2) \/ (first[1] = "empty" /\ depth = 1))
      BY <2>2, <3>2
    <3>3. CASE ~(depth > levels) /\ failed /\ ~(depth <= 2)
      <4>1. depth # 1
        BY <2>1, <3>3
      <4>2. result = [Atomic("VARCHAR") EXCEPT !.list = depth - 1]
        BY <2>2, <3>3, <4>1
      <4> QED
        BY <2>4, <3>3, <4>2
    <3>4. CASE ~(depth > levels) /\ ~failed /\ ~(first[1] = "empty" /\ depth = 1)
      <4>1. \/ result = [struct EXCEPT !.list = depth]
            \/ result = [Atomic(InferTypeFromBSON(first)) EXCEPT !.list = depth]
        BY <2>2, <3>4
      <4> QED
        BY <2>3, <2>4, <4>1
    <3> QED
      BY <3>1, <3>2, <3>3, <3>4
  <2> QED
    BY <2>1, <2>5, <2>6, AtomicFlat DEF Flat, result
<1> QED
  BY <1>1, <1>2

LEMMA AddedFlat ==
    ASSUME NEW d, NEW path, TypedArray(d, path)
    PROVE  IsSequence(TypesAdded(d, path)) /\ \A t \in ToSet(TypesAdded(d, path)) : Flat(t)
<1> DEFINE field == ElementAt(d, path)
           n == IF Len(path) > MaxDepth THEN 2 ELSE 1
           texts == [k \in 1..n |-> Atomic("VARCHAR")]
<1>1. TypesAdded(d, path) = CASE field[1] = "document" -> texts
                              [] field[1] = "array" -> <<InferArrayType(field[2], Len(path) - 1)>>
                              [] OTHER -> <<Atomic(InferTypeFromBSON(field))>>
  BY DEF TypesAdded
<1>2. \A t : IsSequence(<<t>>) /\ ToSet(<<t>>) = {t}
  <2> TAKE t
  <2>1. <<t>> \in Seq({t})
    OBVIOUS
  <2>2. DOMAIN <<t>> = {1} /\ <<t>>[1] = t
    OBVIOUS
  <2> QED
    BY <2>1, <2>2, OwnSequence DEF ToSet
<1>3. IsSequence(texts) /\ \A t \in ToSet(texts) : t = Atomic("VARCHAR")
  <2>1. n \in Nat
    OBVIOUS
  <2> HIDE DEF n
  <2>2. texts = [k \in 1..n |-> texts[k]]
    OBVIOUS
  <2>3. \A t \in ToSet(texts) : t = Atomic("VARCHAR")
    BY DEF ToSet
  <2> HIDE DEF texts
  <2> QED
    BY <2>1, <2>2, <2>3, FunctionSequence
<1> HIDE DEF field, texts
<1>4. CASE field[1] = "document"
  <2>1. TypesAdded(d, path) = texts
    BY <1>1, <1>4
  <2> QED
    BY <1>3, <2>1, AtomicFlat
<1>5. CASE field[1] = "array"
  <2>1. TypesAdded(d, path) = <<InferArrayType(field[2], Len(path) - 1)>>
    BY <1>1, <1>5
  <2>2. Flat(InferArrayType(field[2], Len(path) - 1))
    BY <1>5, ArrayFlat DEF field, TypedArray
  <2> QED
    BY <1>2, <2>1, <2>2
<1>6. CASE field[1] \notin {"document", "array"}
  <2>1. TypesAdded(d, path) = <<Atomic(InferTypeFromBSON(field))>>
    BY <1>1, <1>6
  <2> QED
    BY <1>2, <2>1, AtomicFlat
<1> QED
  BY <1>4, <1>5, <1>6

LEMMA TypesOfFlat ==
    ASSUME NEW d, NEW name, IsFiniteSet(PathsNamed(d, name)),
           \A p \in PathsNamed(d, name) : TypedArray(d, p)
    PROVE  IsSequence(TypesOf(d, name)) /\ \A t \in ToSet(TypesOf(d, name)) : Flat(t)
<1> DEFINE P == PathsNamed(d, name)
           n == Cardinality(P)
           order == SetToSeq(P)
           added == [k \in 1..n |-> TypesAdded(d, order[k])]
           S == UNION {ToSet(TypesAdded(d, p)) : p \in P}
<1>1. n \in Nat /\ \A k \in 1..n : order[k] \in P
  <2> HIDE DEF P
  <2> QED
    BY SetAsSequence DEF P
<1> HIDE DEF P, n, order
<1>2. \A t \in S : Flat(t)
  BY AddedFlat DEF P
<1>3. \A p \in P : TypesAdded(d, p) \in Seq(S)
  <2> TAKE p \in P
  <2>1. IsSequence(TypesAdded(d, p))
    BY AddedFlat DEF P
  <2>2. ToSet(TypesAdded(d, p)) \subseteq S
    OBVIOUS
  <2> HIDE DEF S
  <2> QED
    BY <2>1, <2>2 DEF IsSequence
<1> HIDE DEF S
<1>4. added \in Seq(Seq(S))
  BY <1>1, <1>3
<1>5. TypesOf(d, name) = FlattenSeq(added)
  BY DEF TypesOf, P, n, order
<1>6. TypesOf(d, name) \in Seq(S)
  <2> HIDE DEF added
  <2> QED
    BY <1>4, <1>5, FlattenType
<1>7. \A t \in ToSet(TypesOf(d, name)) : t \in S
  BY <1>6 DEF ToSet
<1> QED
  BY <1>2, <1>6, <1>7, OwnSequence

LEMMA TypesOfOne ==
    ASSUME NEW d, NEW name, NEW path, PathsNamed(d, name) = {path}
    PROVE  TypesOf(d, name) = TypesAdded(d, path)
<1> DEFINE P == PathsNamed(d, name)
           order == SetToSeq(P)
           added == [k \in 1..Cardinality(P) |-> TypesAdded(d, order[k])]
<1>1. IsFiniteSet({path}) /\ Cardinality({path}) = 1
  BY FS_Singleton
<1>2. order \in [1..1 -> {path}] /\ Cardinality(P) = 1
  BY <1>1, SetAsSequence
<1>3. added = <<TypesAdded(d, path)>>
  <2> HIDE DEF order, P
  <2>1. order[1] = path
    BY <1>2
  <2> QED
    BY <1>2, <2>1
<1>4. TypesOf(d, name) = FlattenSeq(added)
  BY DEF TypesOf
<1> HIDE DEF added
<1> QED
  BY <1>3, <1>4, FlattenOne

LEMMA TypesOfNone ==
    ASSUME NEW d, NEW name, PathsNamed(d, name) = {}
    PROVE  TypesOf(d, name) = <<>>
<1> DEFINE added == [k \in 1..Cardinality({}) |-> TypesAdded(d, SetToSeq({})[k])]
<1>1. added = <<>>
  BY FS_EmptySet
<1>2. TypesOf(d, name) = FlattenSeq(added)
  BY DEF TypesOf
<1> HIDE DEF added
<1> QED
  BY <1>1, <1>2, FlattenNone

-----------------------------------------------------------------------------
(* Fields and their paths.                                                   *)

(* What leads along a path, one name after another.                          *)
Walks(at, d, path) ==
    /\ at[0] = <<"document", d>>
    /\ \A k \in 1..Len(path) :
          at[k] = IF at[k - 1][1] = "document" THEN FieldOf(at[k - 1][2], path[k]) ELSE Missing

LEMMA ElementWalks ==
    ASSUME NEW d, NEW path, Len(path) \in Nat
    PROVE  \E at : Walks(at, d, path) /\ ElementAt(d, path) = at[Len(path)]
<1> DEFINE n == Len(path)
           Value(x, k) == IF k = 0 THEN <<"document", d>>
                          ELSE IF x[1] = "document" THEN FieldOf(x[2], path[k])
                          ELSE Missing
           Eqn(f, m) == f = [k \in 0..m |-> IF k = 0 THEN <<"document", d>>
                                            ELSE IF f[k - 1][1] = "document" THEN FieldOf(f[k - 1][2], path[k])
                                            ELSE Missing]
           at == CHOOSE f : Eqn(f, n)
           T == {m \in 0..n : \E f : f = [k \in 0..m |-> f[k]] /\ f[0] = Value(<<>>, 0)
                                       /\ \A k \in 1..m : f[k] = Value(f[k - 1], k)}
<1> HIDE DEF n
<1>0. n \in Nat
  BY DEF n
<1>1. 0 \in T
  <2> DEFINE f == [k \in 0..0 |-> Value(<<>>, 0)]
  <2>1. f = [k \in 0..0 |-> f[k]] /\ f[0] = Value(<<>>, 0)
    OBVIOUS
  <2> HIDE DEF f, Value
  <2> QED
    BY <1>0, <2>1
<1>2. ASSUME NEW m \in 0..(n - 1), m \in T PROVE m + 1 \in T
  <2> HIDE DEF Value
  <2>1. PICK f : /\ f = [k \in 0..m |-> f[k]] /\ f[0] = Value(<<>>, 0)
                 /\ \A k \in 1..m : f[k] = Value(f[k - 1], k)
    BY <1>2
  <2> DEFINE g == [k \in 0..(m + 1) |-> IF k = m + 1 THEN Value(f[m], k) ELSE f[k]]
  <2>2. g = [k \in 0..(m + 1) |-> g[k]]
    OBVIOUS
  <2>3. g[0] = Value(<<>>, 0)
    BY <1>0, <2>1
  <2>4. ASSUME NEW k \in 1..(m + 1) PROVE g[k] = Value(g[k - 1], k)
    <3>1. CASE k = m + 1
      BY <1>0, <3>1
    <3>2. CASE k # m + 1
      <4>1. k \in 1..m /\ k - 1 \in 0..(m + 1) /\ k - 1 # m + 1
        BY <1>0, <3>2
      <4>2. g[k] = f[k] /\ g[k - 1] = f[k - 1]
        BY <3>2, <4>1
      <4>3. f[k] = Value(f[k - 1], k)
        BY <2>1, <4>1
      <4> QED
        BY <4>2, <4>3
    <3> QED
      BY <3>1, <3>2
  <2> HIDE DEF g
  <2>5. m + 1 \in 0..n
    BY <1>0
  <2> QED
    BY <2>2, <2>3, <2>4, <2>5
<1>3. n \in T
  <2>1. 0..n \subseteq T
    <3> HIDE DEF T
    <3> QED
      BY <1>0, <1>1, <1>2, SetInduction
  <2> HIDE DEF T
  <2> QED
    BY <1>0, <2>1
<1>4. PICK f : /\ f = [k \in 0..n |-> f[k]] /\ f[0] = Value(<<>>, 0)
               /\ \A k \in 1..n : f[k] = Value(f[k - 1], k)
  BY <1>3
<1>5. Eqn(f, n)
  <2>1. ASSUME NEW k \in 0..n
        PROVE  f[k] = IF k = 0 THEN <<"document", d>>
                      ELSE IF f[k - 1][1] = "document" THEN FieldOf(f[k - 1][2], path[k])
                      ELSE Missing
    <3>1. CASE k = 0
      BY <1>4, <3>1
    <3>2. CASE k # 0
      <4>1. k \in 1..n
        BY <1>0, <3>2
      <4>2. f[k] = Value(f[k - 1], k)
        BY <1>4, <4>1
      <4> QED
        BY <4>2
    <3> QED
      BY <3>1, <3>2
  <2> QED
    BY <1>4, <2>1
<1>6. Eqn(at, n)
  <2> HIDE DEF Eqn
  <2> QED
    BY <1>5
<1>7. ElementAt(d, path) = at[n]
  <2> USE DEF n
  <2> QED
    BY DEF ElementAt
<1> HIDE DEF at
<1>8. at[0] = <<"document", d>>
  BY <1>0, <1>6
<1>9. ASSUME NEW k \in 1..n
      PROVE  at[k] = IF at[k - 1][1] = "document" THEN FieldOf(at[k - 1][2], path[k]) ELSE Missing
  <2>1. k \in 0..n /\ k # 0 /\ k > 0
    BY <1>0
  <2> QED
    BY <1>6, <2>1
<1> QED
  BY <1>7, <1>8, <1>9 DEF Walks, n

LEMMA WalksAlike ==
    ASSUME NEW d, NEW path, Len(path) \in Nat, NEW f, NEW g, Walks(f, d, path), Walks(g, d, path)
    PROVE  \A k \in 0..Len(path) : f[k] = g[k]
<1> DEFINE n == Len(path)
           T == {k \in 0..n : f[k] = g[k]}
<1>1. n \in Nat
  OBVIOUS
<1>2. 0 \in T
  BY DEF Walks
<1>3. ASSUME NEW k \in 0..(n - 1), k \in T PROVE k + 1 \in T
  <2>1. k + 1 \in 1..n /\ k + 1 \in 0..n /\ (k + 1) - 1 = k
    BY <1>1
  <2>2. /\ f[k + 1] = (IF f[k][1] = "document" THEN FieldOf(f[k][2], path[k + 1]) ELSE Missing)
        /\ g[k + 1] = (IF g[k][1] = "document" THEN FieldOf(g[k][2], path[k + 1]) ELSE Missing)
    BY <2>1 DEF Walks
  <2> QED
    BY <1>3, <2>1, <2>2
<1>4. 0..n \subseteq T
  <2> HIDE DEF n, T
  <2> QED
    BY <1>1, <1>2, <1>3, SetInduction
<1> QED
  BY <1>4

(* A name more is a step more.                                               *)
LEMMA ElementBelow ==
    ASSUME NEW d, NEW A, NEW path \in Seq(A), NEW name \in A
    PROVE  ElementAt(d, Append(path, name)) =
              IF ElementAt(d, path)[1] = "document" THEN FieldOf(ElementAt(d, path)[2], name) ELSE Missing
<1> DEFINE n == Len(path)
           longer == Append(path, name)
<1>1. /\ n \in Nat /\ Len(longer) = n + 1 /\ longer[n + 1] = name
      /\ \A k \in 1..n : longer[k] = path[k]
  OBVIOUS
<1> HIDE DEF longer
<1>2. PICK f : Walks(f, d, longer) /\ ElementAt(d, longer) = f[n + 1]
  BY <1>1, ElementWalks
<1>3. PICK g : Walks(g, d, path) /\ ElementAt(d, path) = g[n]
  BY <1>1, ElementWalks
<1>4. Walks(f, d, path)
  <2>1. \A k \in 1..n : k \in 1..(n + 1)
    BY <1>1
  <2> QED
    BY <1>1, <1>2, <2>1 DEF Walks
<1>5. f[n] = g[n]
  <2>1. n \in 0..n
    BY <1>1
  <2> QED
    BY <1>1, <1>3, <1>4, <2>1, WalksAlike
<1>6. n + 1 \in 1..Len(longer) /\ (n + 1) - 1 = n
  BY <1>1
<1>7. f[n + 1] = IF f[n][1] = "document" THEN FieldOf(f[n][2], name) ELSE Missing
  BY <1>1, <1>2, <1>6 DEF Walks
<1> QED
  BY <1>2, <1>3, <1>5, <1>7 DEF longer

LEMMA ElementOfNothing ==
    ASSUME NEW d
    PROVE  ElementAt(d, <<>>) = <<"document", d>>
<1>1. Len(<<>>) = 0
  OBVIOUS
<1> QED
  BY <1>1, ElementWalks DEF Walks

(* The paths of a document, a level of nesting after the other.              *)
ByLevel(f, d) ==
    /\ PathsOf(d) = UNION {f[k] : k \in 1..(MaxDepth + 1)}
    /\ f[1] = {<<name>> : name \in DOMAIN d}
    /\ \A k \in 2..(MaxDepth + 1) :
          f[k] = UNION {{Append(p, name) : name \in DOMAIN ElementAt(d, p)[2]} :
                          p \in {q \in f[k - 1] : ElementAt(d, q)[1] = "document"}}

LEMMA PathsByLevel ==
    ASSUME NEW d, MaxDepth \in Nat
    PROVE  \E f : ByLevel(f, d)
<1> DEFINE n == MaxDepth + 1
           Top == {<<name>> : name \in DOMAIN d}
           Deeper(S) == UNION {{Append(p, name) : name \in DOMAIN ElementAt(d, p)[2]} :
                                 p \in {q \in S : ElementAt(d, q)[1] = "document"}}
           Eqn(f) == f = [k \in 1..n |->
                            IF k = 1 THEN Top
                            ELSE UNION {{Append(p, name) : name \in DOMAIN ElementAt(d, p)[2]} :
                                          p \in {q \in f[k - 1] : ElementAt(d, q)[1] = "document"}}]
           levels == CHOOSE f : Eqn(f)
           T == {m \in 0..n : m = 0 \/ \E f : /\ f = [k \in 1..m |-> f[k]]
                                             /\ \A k \in 1..m : f[k] = IF k = 1 THEN Top ELSE Deeper(f[k - 1])}
<1>0. n \in Nat \ {0}
  OBVIOUS
<1>1. PathsOf(d) = UNION {levels[k] : k \in 1..n}
  BY DEF PathsOf
<1>2. \E f : Eqn(f)
  <2> HIDE DEF n
  <2>1. 0 \in T
    BY <1>0
  <2>2. ASSUME NEW m \in 0..(n - 1), m \in T PROVE m + 1 \in T
    <3> HIDE DEF Top, Deeper
    <3>1. PICK f : m = 0 \/ \A k \in 1..m : f[k] = IF k = 1 THEN Top ELSE Deeper(f[k - 1])
      BY <2>2
    <3> DEFINE g == [k \in 1..(m + 1) |-> IF k # m + 1 THEN f[k] ELSE IF k = 1 THEN Top ELSE Deeper(f[m])]
    <3>2. g = [k \in 1..(m + 1) |-> g[k]]
      OBVIOUS
    <3>3. ASSUME NEW k \in 1..(m + 1) PROVE g[k] = IF k = 1 THEN Top ELSE Deeper(g[k - 1])
      <4>1. CASE k = m + 1
        <5>1. k # 1 => k - 1 \in 1..(m + 1) /\ k - 1 = m /\ m # m + 1
          BY <1>0, <4>1
        <5>2. k # 1 => g[k - 1] = f[m]
          BY <5>1
        <5> QED
          BY <4>1, <5>2
      <4>2. CASE k # m + 1
        <5>1. k \in 1..m /\ (k # 1 => k - 1 \in 1..(m + 1) /\ k - 1 # m + 1)
          BY <1>0, <4>2
        <5>2. k # 1 => g[k - 1] = f[k - 1]
          BY <5>1
        <5> QED
          BY <3>1, <4>2, <5>1, <5>2
      <4> QED
        BY <4>1, <4>2
    <3> HIDE DEF g
    <3>4. m + 1 \in 0..n
      BY <1>0
    <3> QED
      BY <3>2, <3>3, <3>4
  <2>3. n \in T
    <3>1. 0..n \subseteq T
      <4> HIDE DEF T
      <4> QED
        BY <1>0, <2>1, <2>2, SetInduction
    <3> HIDE DEF T
    <3> QED
      BY <1>0, <3>1
  <2>4. PICK f : /\ f = [k \in 1..n |-> f[k]]
                 /\ \A k \in 1..n : f[k] = IF k = 1 THEN Top ELSE Deeper(f[k - 1])
    BY <1>0, <2>3
  <2>5. Eqn(f)
    <3>1. \A k \in 1..n : f[k] = IF k = 1 THEN Top ELSE
             UNION {{Append(p, name) : name \in DOMAIN ElementAt(d, p)[2]} :
                      p \in {q \in f[k - 1] : ElementAt(d, q)[1] = "document"}}
      BY <2>4
    <3> QED
      BY <2>4, <3>1
  <2> HIDE DEF Eqn
  <2> QED
    BY <2>5
<1>3. Eqn(levels)
  <2> HIDE DEF Eqn
  <2> QED
    BY <1>2
<1> HIDE DEF levels
<1>4. levels[1] = Top
  BY <1>0, <1>3
<1>5. ASSUME NEW k \in 2..n PROVE levels[k] = Deeper(levels[k - 1])
  <2>1. k \in 1..n /\ k # 1
    BY <1>0
  <2> QED
    BY <1>3, <2>1
<1> QED
  BY <1>1, <1>4, <1>5 DEF ByLevel


(* A path that leads to a field is a path of the document.                   *)
LEMMA FieldsAreInPaths ==
    ASSUME NEW d, NEW A, NEW path \in Seq(A), path # <<>>, MaxDepth \in Nat, Len(path) <= MaxDepth + 1,
           ElementAt(d, path) # Missing
    PROVE  path \in PathsOf(d)
<1>0. PICK f : ByLevel(f, d)
  BY PathsByLevel
<1> DEFINE n == Len(path)
           before(k) == SubSeq(path, 1, k)
<1>1. n \in Nat \ {0} /\ n <= MaxDepth + 1 /\ \A k \in 1..n : path[k] \in A
  OBVIOUS
<1>2. PICK at : Walks(at, d, path) /\ ElementAt(d, path) = at[n]
  BY <1>1, ElementWalks
<1>3. /\ at[0] = <<"document", d>>
      /\ \A k \in 1..n : at[k] = IF at[k - 1][1] = "document" THEN FieldOf(at[k - 1][2], path[k]) ELSE Missing
  BY <1>2 DEF Walks
<1>4. Missing[1] # "document"
  BY DEF Missing
<1>5. ASSUME NEW k \in 0..n, at[k] = Missing PROVE FALSE
  <2> DEFINE T == {j \in 0..n : j < k \/ at[j] = Missing}
  <2>1. 0 \in T
    BY <1>1, <1>5
  <2>2. ASSUME NEW j \in 0..(n - 1), j \in T PROVE j + 1 \in T
    <3>1. j + 1 \in 1..n /\ (j + 1) - 1 = j /\ j + 1 \in 0..n
      BY <1>1
    <3>2. CASE j + 1 < k
      BY <3>1, <3>2
    <3>3. CASE j + 1 = k
      BY <1>5, <3>1, <3>3
    <3>4. CASE at[j] = Missing
      BY <1>3, <1>4, <3>1, <3>4
    <3> QED
      BY <1>1, <2>2, <3>2, <3>3, <3>4
  <2>3. 0..n \subseteq T
    <3> HIDE DEF T, n
    <3> QED
      BY <1>1, <2>1, <2>2, SetInduction
  <2>4. n \in T
    BY <1>1, <2>3
  <2> HIDE DEF n
  <2>5. at[n] = Missing
    BY <1>1, <2>4
  <2> QED
    BY <1>2, <2>5
<1>6. ASSUME NEW k \in 1..n
      PROVE  at[k - 1][1] = "document" /\ path[k] \in DOMAIN at[k - 1][2]
  <2>1. at[k] # Missing
    <3>1. k \in 0..n
      BY <1>1
    <3> QED
      BY <1>5, <3>1
  <2> QED
    BY <1>3, <2>1 DEF FieldOf
<1>7. ASSUME NEW k \in 1..n
      PROVE  /\ before(k) \in Seq(A) /\ Len(before(k)) = k /\ ElementAt(d, before(k)) = at[k]
             /\ k < n => before(k + 1) = Append(before(k), path[k + 1])
  <2>1. before(k) \in Seq(A) /\ Len(before(k)) = k /\ \A j \in 1..k : before(k)[j] = path[j]
    BY <1>1
  <2>2. k < n => before(k + 1) = Append(before(k), path[k + 1])
    BY <1>1
  <2> DEFINE short == before(k)
  <2> HIDE DEF short
  <2>3. Walks(at, d, short)
    BY <1>1, <1>3, <2>1 DEF Walks, short
  <2>4. Len(short) = k /\ k \in Nat
    BY <2>1 DEF short
  <2>5. PICK g : Walks(g, d, short) /\ ElementAt(d, short) = g[k]
    BY <2>4, ElementWalks
  <2>6. k \in 0..Len(short) /\ Len(short) \in Nat
    BY <2>4
  <2>7. at[k] = g[k]
    BY <2>3, <2>5, <2>6, WalksAlike
  <2> QED
    BY <2>1, <2>2, <2>5, <2>7 DEF short
<1> DEFINE T == {k \in 0..n : k = 0 \/ before(k) \in f[k]}
<1>9. 0 \in T
  BY <1>1
<1>10. ASSUME NEW k \in 0..(n - 1), k \in T PROVE k + 1 \in T
  <2>1. k + 1 \in 1..n /\ (k + 1) - 1 = k /\ k + 1 \in 0..n
    BY <1>1
  <2>2. at[k][1] = "document" /\ path[k + 1] \in DOMAIN at[k][2]
    BY <1>6, <2>1
  <2>3. CASE k = 0
    <3>1. before(1) = <<path[1]>>
      <4>1. 1 \in 1..n
        BY <1>1
      <4>2. before(1) \in Seq(A) /\ Len(before(1)) = 1 /\ before(1)[1] = path[1]
        BY <1>1
      <4> DEFINE short == before(1)
      <4> HIDE DEF short
      <4>3. short \in Seq(A) /\ Len(short) = 1 /\ short[1] = path[1]
        BY <4>2 DEF short
      <4>4. short = <<path[1]>>
        BY <4>3
      <4> QED
        BY <4>4 DEF short
    <3>2. path[1] \in DOMAIN d
      BY <1>3, <2>2, <2>3
    <3> HIDE DEF before
    <3> QED
      BY <1>0, <2>1, <2>3, <3>1, <3>2 DEF ByLevel
  <2>4. CASE k # 0
    <3> HIDE DEF before, n
    <3>1. k \in 1..n /\ k < n /\ before(k) \in f[k] /\ k + 1 \in 2..(MaxDepth + 1)
      BY <1>1, <1>10, <2>4
    <3>2. ElementAt(d, before(k)) = at[k] /\ before(k + 1) = Append(before(k), path[k + 1])
      BY <1>7, <3>1
    <3>3. before(k) \in {q \in f[k] : ElementAt(d, q)[1] = "document"}
      BY <2>2, <3>1, <3>2
    <3>4. f[k + 1] = UNION {{Append(p, name) : name \in DOMAIN ElementAt(d, p)[2]} :
                              p \in {q \in f[k] : ElementAt(d, q)[1] = "document"}}
      BY <1>0, <2>1, <3>1 DEF ByLevel
    <3>5. before(k + 1) \in {Append(before(k), name) : name \in DOMAIN ElementAt(d, before(k))[2]}
      BY <2>2, <3>2
    <3>6. before(k + 1) \in f[k + 1]
      BY <3>3, <3>4, <3>5
    <3> QED
      BY <2>1, <3>6
  <2> QED
    BY <2>3, <2>4
<1>11. 0..n \subseteq T
  <2> HIDE DEF T, n
  <2> QED
    BY <1>1, <1>9, <1>10, SetInduction
<1>12. n \in T /\ before(n) = path
  <2>1. before(n) = path
    BY <1>1
  <2> QED
    BY <1>1, <1>11, <2>1
<1>13. path \in f[n] /\ n \in 1..(MaxDepth + 1)
  <2> HIDE DEF before, n
  <2> QED
    BY <1>1, <1>12
<1> HIDE DEF n
<1> QED
  BY <1>0, <1>13 DEF ByLevel

(* No path is longer than what is flattened.                                 *)
LEMMA PathsAreShort ==
    ASSUME NEW d, NEW B, PathsOf(d) \subseteq Seq(B), MaxDepth \in Nat, NEW path \in PathsOf(d)
    PROVE  Len(path) <= MaxDepth + 1
<1> DEFINE n == MaxDepth + 1
<1>1. PICK f : ByLevel(f, d)
  BY PathsByLevel
<1>2. /\ PathsOf(d) = UNION {f[k] : k \in 1..n}
      /\ f[1] = {<<name>> : name \in DOMAIN d}
      /\ \A k \in 2..n :
            f[k] = UNION {{Append(p, name) : name \in DOMAIN ElementAt(d, p)[2]} :
                            p \in {q \in f[k - 1] : ElementAt(d, q)[1] = "document"}}
  BY <1>1 DEF ByLevel
<1>3. n \in Nat \ {0}
  OBVIOUS
<1> HIDE DEF n
<1> DEFINE T == {k \in 0..n : k = 0 \/ \A p \in f[k] : Len(p) = k}
<1>4. 0 \in T
  BY <1>3
<1>5. ASSUME NEW k \in 0..(n - 1), k \in T PROVE k + 1 \in T
  <2>1. k + 1 \in 1..n /\ (k + 1) - 1 = k /\ k + 1 \in 0..n
    BY <1>3
  <2>2. CASE k = 0
    <3>1. \A name : Len(<<name>>) = 1
      OBVIOUS
    <3> QED
      BY <1>2, <2>1, <2>2, <3>1
  <2>3. CASE k # 0
    <3>1. k \in 1..n /\ k + 1 \in 2..n
      BY <1>3, <2>1, <2>3
    <3>2. ASSUME NEW p \in f[k + 1] PROVE Len(p) = k + 1
      <4>1. PICK q \in f[k] : \E name : p = Append(q, name)
        BY <1>2, <2>1, <3>1
      <4> PICK name : p = Append(q, name)
        BY <4>1
      <4>2. q \in Seq(B) /\ Len(q) = k
        BY <1>2, <1>5, <3>1, <2>3
      <4>3. q \in Seq(B \union {name})
        BY <4>2
      <4>4. Len(Append(q, name)) = Len(q) + 1
        BY <4>3
      <4> QED
        BY <4>2, <4>4
    <3> QED
      BY <2>1, <3>2
  <2> QED
    BY <2>2, <2>3
<1>6. 0..n \subseteq T
  <2> HIDE DEF T
  <2> QED
    BY <1>3, <1>4, <1>5, SetInduction
<1>7. PICK k \in 1..n : path \in f[k]
  BY <1>2
<1>8. k \in T /\ k # 0 /\ k <= n
  BY <1>3, <1>6
<1>9. Len(path) = k
  BY <1>7, <1>8
<1> QED
  BY <1>8, <1>9 DEF n

(* A column's paths in a document are few, and its fields there are fields.    *)
LEMMA SampledPaths ==
    ASSUME NEW in \in Inputs, NEW i \in DOMAIN in.docs, NEW name
    PROVE  /\ IsFiniteSet(PathsNamed(in.docs[i], name))
           /\ \A p \in PathsNamed(in.docs[i], name) : TypedArray(in.docs[i], p)
<1> DEFINE d == in.docs[i]
           n == Len(PathOrder)
           P == ToSet(PathOrder)
<1>1. PathsOf(d) \subseteq P /\ \A p \in P : ElementAt(d, p)[1] = "array" => IsArray(ElementAt(d, p)[2])
  BY InferenceAssumption
<1>2. n \in Nat /\ DOMAIN PathOrder = 1..n /\ PathOrder = [k \in 1..n |-> PathOrder[k]]
  <2>1. PathOrder \in Seq(Seq(Seq(STRING)) \ {<<>>})
    BY InferenceAssumption
  <2> QED
    BY <2>1
<1> HIDE DEF n
<1>3. IsFiniteSet(P)
  <2>1. PathOrder \in Surjection(1..n, P)
    BY <1>2 DEF Surjection, ToSet
  <2>2. IsFiniteSet(1..n)
    BY <1>2, FS_Interval
  <2> HIDE DEF P
  <2> QED
    BY <2>1, <2>2, FS_Surjection
<1> HIDE DEF P, d
<1>4. \A p \in PathsOf(d) : Len(p) - 1 \in 0..MaxDepth
  <2>1. MaxDepth \in Nat /\ \A p \in P : p \in Seq(Seq(STRING)) /\ p # <<>>
    BY InferenceAssumption DEF ToSet, P
  <2> TAKE p \in PathsOf(d)
  <2>2. Len(p) \in Nat \ {0}
    BY <1>1, <2>1
  <2>3. Len(p) <= MaxDepth + 1
    BY <1>1, <2>1, PathsAreShort
  <2> QED
    BY <2>1, <2>2, <2>3
<1>5. PathsNamed(d, name) \subseteq P /\ PathsNamed(d, name) \subseteq PathsOf(d)
  BY <1>1 DEF PathsNamed
<1>6. IsFiniteSet(PathsNamed(d, name))
  BY <1>3, <1>5, FS_Subset
<1> QED
  BY <1>1, <1>4, <1>5, <1>6 DEF d, TypedArray

-----------------------------------------------------------------------------
(* What was collected.                                                       *)

(* Each of the types of a name is one of those a document adds, each type of   *)
(* a sampled document is there, and no document counts twice, but for one    *)
(* that adds several types.                                                *)
Tallies(docs, name, S, types, g) ==
    /\ g \in [DOMAIN types -> S]
    /\ \A k \in DOMAIN types : types[k] \in ToSet(TypesOf(docs[g[k]], name))
    /\ \A i \in S : \A t \in ToSet(TypesOf(docs[i], name)) : \E k \in DOMAIN types : g[k] = i /\ types[k] = t
    /\ \A k, l \in DOMAIN types : g[k] = g[l] /\ k # l => Len(TypesOf(docs[g[k]], name)) > 1

LEMMA TallyNothing ==
    ASSUME NEW docs, NEW name, NEW S, \A i \in S : TypesOf(docs[i], name) = <<>>
    PROVE  Tallies(docs, name, S, <<>>, <<>>)
<1>1. DOMAIN <<>> = {} /\ ToSet(<<>>) = {} /\ <<>> \in [{} -> S]
  BY DEF ToSet
<1> QED
  BY <1>1 DEF Tallies

LEMMA TallyDocument ==
    ASSUME NEW docs, NEW name, NEW S, NEW types, NEW g, Tallies(docs, name, S, types, g), IsSequence(types),
           NEW i, i \notin S, IsSequence(TypesOf(docs[i], name))
    PROVE  \E h : Tallies(docs, name, S \union {i}, types \o TypesOf(docs[i], name), h)
<1> DEFINE added == TypesOf(docs[i], name)
           more == types \o added
           n == Len(types)
           h == [k \in DOMAIN more |-> IF k \in DOMAIN types THEN g[k] ELSE i]
<1>1. /\ n \in Nat /\ Len(added) \in Nat /\ DOMAIN types = 1..n /\ DOMAIN added = 1..Len(added)
      /\ DOMAIN more = 1..(n + Len(added))
      /\ \A r \in 1..n : more[r] = types[r]
      /\ \A r \in 1..Len(added) : more[n + r] = added[r]
  BY Concatenated
<1> HIDE DEF added, more, n
<1>2. /\ g \in [DOMAIN types -> S]
      /\ \A k \in DOMAIN types : types[k] \in ToSet(TypesOf(docs[g[k]], name))
      /\ \A j \in S : \A t \in ToSet(TypesOf(docs[j], name)) : \E k \in DOMAIN types : g[k] = j /\ types[k] = t
      /\ \A k, l \in DOMAIN types : g[k] = g[l] /\ k # l => Len(TypesOf(docs[g[k]], name)) > 1
  BY DEF Tallies
<1>3. ASSUME NEW k \in DOMAIN more
      PROVE  \/ k \in DOMAIN types /\ more[k] = types[k] /\ h[k] = g[k] /\ h[k] \in S
             \/ k \notin DOMAIN types /\ k - n \in DOMAIN added /\ more[k] = added[k - n] /\ h[k] = i
  <2>1. CASE k \in DOMAIN types
    BY <1>1, <1>2, <2>1
  <2>2. CASE k \notin DOMAIN types
    <3>1. k - n \in 1..Len(added) /\ n + (k - n) = k
      BY <1>1, <2>2
    <3> QED
      BY <1>1, <2>2, <3>1
  <2> QED
    BY <2>1, <2>2
<1>4. \A k \in DOMAIN types : k \in DOMAIN more
  BY <1>1
<1>5. h = [k \in DOMAIN more |-> h[k]]
  OBVIOUS
<1> HIDE DEF h
<1>6. h \in [DOMAIN more -> S \union {i}]
  BY <1>3, <1>5
<1>7. ASSUME NEW k \in DOMAIN more PROVE more[k] \in ToSet(TypesOf(docs[h[k]], name))
  BY <1>2, <1>3 DEF ToSet, added
<1>8. ASSUME NEW j \in S \union {i}, NEW t \in ToSet(TypesOf(docs[j], name))
      PROVE  \E k \in DOMAIN more : h[k] = j /\ more[k] = t
  <2>1. CASE j \in S
    <3>1. PICK k \in DOMAIN types : g[k] = j /\ types[k] = t
      BY <1>2, <2>1
    <3> QED
      BY <1>3, <1>4, <3>1
  <2>2. CASE j = i
    <3>1. PICK r \in DOMAIN added : added[r] = t
      BY <2>2 DEF ToSet, added
    <3>2. n + r \in DOMAIN more /\ n + r \notin DOMAIN types
      BY <1>1
    <3>3. more[n + r] = t
      BY <1>1, <3>1
    <3> QED
      BY <1>3, <2>2, <3>2, <3>3
  <2> QED
    BY <2>1, <2>2
<1>9. ASSUME NEW k \in DOMAIN more, NEW l \in DOMAIN more, h[k] = h[l], k # l
      PROVE  Len(TypesOf(docs[h[k]], name)) > 1
  <2>1. CASE k \in DOMAIN types
    <3>1. l \in DOMAIN types /\ h[k] = g[k] /\ h[l] = g[l]
      BY <1>3, <1>9, <2>1
    <3> QED
      BY <1>2, <1>9, <2>1, <3>1
  <2>2. CASE k \notin DOMAIN types
    <3>1. /\ h[k] = i /\ k - n \in DOMAIN added
          /\ h[l] = i /\ l - n \in DOMAIN added
      BY <1>3, <1>9, <2>2
    <3>2. k - n \in 1..Len(added) /\ l - n \in 1..Len(added) /\ k - n # l - n
      BY <1>1, <1>9, <3>1
    <3>3. Len(added) > 1
      BY <1>1, <3>2
    <3> QED
      BY <3>1, <3>3 DEF added
  <2> QED
    BY <2>1, <2>2
<1>10. Tallies(docs, name, S \union {i}, more, h)
  BY <1>6, <1>7, <1>8, <1>9 DEF Tallies
<1> QED
  BY <1>10 DEF more, added

SampledNames == UNION {NamesIn(input.docs[i]) : i \in ToSet(seen)}

(* The types collected for each name are those of the documents sampled so    *)
(* far; find gives the documents in their order.                           *)
Tally ==
    ~Explicit =>
       /\ input \in Inputs /\ seen \in Seq(Docs)
       /\ attempt \in {"sample", "find"}
       /\ attempt = "find" => \A k \in DOMAIN seen : seen[k] = k
       /\ DOMAIN fieldTypes = SampledNames
       /\ \A name \in DOMAIN fieldTypes :
             /\ IsSequence(fieldTypes[name]) /\ \A t \in ToSet(fieldTypes[name]) : Flat(t)
             /\ \E g : Tallies(input.docs, name, ToSet(seen), fieldTypes[name], g)

LEMMA TallyInit == BindInit => Tally
<1> SUFFICES ASSUME BindInit PROVE Tally
  OBVIOUS
<1>1. input \in Inputs /\ seen = <<>> /\ fieldTypes = <<>> /\ attempt = "sample"
  BY DEF BindInit
<1>2. ToSet(seen) = {} /\ DOMAIN fieldTypes = {} /\ seen \in Seq(Docs)
  BY <1>1 DEF ToSet
<1> QED
  BY <1>1, <1>2 DEF Tally, SampledNames

LEMMA TallySample ==
    ASSUME Tally, SampleDocument
    PROVE  Tally'
<1>1. /\ ~Explicit /\ UNCHANGED <<input, attempt>>
      /\ \E i \in Docs : /\ IF attempt = "sample" THEN i \notin ToSet(seen) ELSE i = Len(seen) + 1
                         /\ CollectFieldPaths(i)
  BY DEF SampleDocument
<1>2. PICK i \in Docs : /\ IF attempt = "sample" THEN i \notin ToSet(seen) ELSE i = Len(seen) + 1
                        /\ CollectFieldPaths(i)
  BY <1>1
<1> DEFINE d == input.docs[i]
           before(name) == IF name \in DOMAIN fieldTypes THEN fieldTypes[name] ELSE <<>>
           new == [name \in NamesIn(d) |-> before(name) \o TypesOf(d, name)]
<1>3. seen' = Append(seen, i) /\ fieldTypes' = Update(fieldTypes, new)
  BY <1>2 DEF CollectFieldPaths
<1>4. /\ input \in Inputs /\ seen \in Seq(Docs) /\ attempt \in {"sample", "find"}
      /\ attempt = "find" => \A k \in DOMAIN seen : seen[k] = k
      /\ DOMAIN fieldTypes = SampledNames
      /\ \A name \in DOMAIN fieldTypes :
            /\ IsSequence(fieldTypes[name]) /\ \A t \in ToSet(fieldTypes[name]) : Flat(t)
            /\ \E g : Tallies(input.docs, name, ToSet(seen), fieldTypes[name], g)
  BY <1>1 DEF Tally
<1>5. /\ seen' \in Seq(Docs) /\ ToSet(seen') = ToSet(seen) \union {i}
  BY <1>3, <1>4, AppendRange
<1>6. /\ attempt = "find" => \A k \in DOMAIN seen' : seen'[k] = k
      /\ attempt \in {"sample", "find"} => i \notin ToSet(seen)
  <2>1. /\ DOMAIN seen = 1..Len(seen) /\ Len(seen) \in Nat /\ DOMAIN seen' = 1..(Len(seen) + 1)
        /\ seen'[Len(seen) + 1] = i /\ \A k \in 1..Len(seen) : seen'[k] = seen[k]
    BY <1>3, <1>4
  <2>2. \A k \in 1..(Len(seen) + 1) : k \in 1..Len(seen) \/ k = Len(seen) + 1
    BY <2>1
  <2>3. ASSUME attempt = "find" PROVE i = Len(seen) + 1 /\ \A k \in DOMAIN seen' : seen'[k] = k
    BY <1>2, <1>4, <2>1, <2>2, <2>3
  <2>4. ASSUME attempt = "find", i \in ToSet(seen) PROVE FALSE
    <3>1. PICK k \in 1..Len(seen) : seen[k] = i
      BY <2>1, <2>4 DEF ToSet
    <3> QED
      BY <1>4, <2>1, <2>3, <2>4, <3>1
  <2> QED
    BY <1>2, <2>3, <2>4
<1> HIDE DEF d
<1>7. SampledNames' = SampledNames \union NamesIn(d)
  BY <1>1, <1>5 DEF SampledNames, d
<1>8. DOMAIN new = NamesIn(d) /\ \A name \in NamesIn(d) : new[name] = before(name) \o TypesOf(d, name)
  OBVIOUS
<1> HIDE DEF new
<1>9. DOMAIN fieldTypes' = SampledNames'
  BY <1>3, <1>4, <1>7, <1>8, UpdateDomain
<1>10. \A name : IsSequence(TypesOf(d, name)) /\ \A t \in ToSet(TypesOf(d, name)) : Flat(t)
  <2> TAKE name
  <2>1. i \in DOMAIN input.docs
    BY DEF Docs
  <2>2. /\ IsFiniteSet(PathsNamed(d, name))
        /\ \A p \in PathsNamed(d, name) : TypedArray(d, p)
    BY <1>4, <2>1, SampledPaths DEF d
  <2> QED
    BY <2>2, TypesOfFlat
<1>11. \A name : name \notin NamesIn(d) => TypesOf(d, name) = <<>>
  <2> TAKE name
  <2>1. ASSUME name \notin NamesIn(d) PROVE PathsNamed(d, name) = {}
    BY <2>1 DEF NamesIn, PathsNamed
  <2> QED
    BY <2>1, TypesOfNone
<1>12. ASSUME NEW name
       PROVE  IsSequence(before(name)) /\ (\A t \in ToSet(before(name)) : Flat(t))
              /\ \E g : Tallies(input.docs, name, ToSet(seen), before(name), g)
  <2>1. CASE name \in DOMAIN fieldTypes
    BY <1>4, <2>1
  <2>2. CASE name \notin DOMAIN fieldTypes
    <3>1. ASSUME NEW j \in ToSet(seen) PROVE TypesOf(input.docs[j], name) = <<>>
      <4>1. PathsNamed(input.docs[j], name) = {}
        BY <1>4, <2>2 DEF NamesIn, PathsNamed, SampledNames
      <4> QED
        BY <4>1, TypesOfNone
    <3>2. Tallies(input.docs, name, ToSet(seen), <<>>, <<>>)
      BY <3>1, TallyNothing
    <3>3. before(name) = <<>> /\ ToSet(<<>>) = {} /\ IsSequence(<<>>)
      BY <2>2 DEF ToSet, IsSequence
    <3> HIDE DEF before
    <3> QED
      BY <3>2, <3>3
  <2> QED
    BY <2>1, <2>2
<1>13. ASSUME attempt \in {"sample", "find"}, NEW name \in DOMAIN fieldTypes'
       PROVE  /\ IsSequence(fieldTypes'[name]) /\ \A t \in ToSet(fieldTypes'[name]) : Flat(t)
              /\ \E g : Tallies(input.docs, name, ToSet(seen'), fieldTypes'[name], g)
  <2> HIDE DEF before
  <2> DEFINE types == before(name) \o TypesOf(d, name)
  <2>1. fieldTypes'[name] = types
    <3>1. CASE name \in NamesIn(d)
      BY <1>3, <1>8, <3>1, UpdateNew
    <3>2. CASE name \notin NamesIn(d)
      <4>1. name \in DOMAIN fieldTypes /\ name \notin DOMAIN new
        BY <1>4, <1>7, <1>8, <1>9, <3>2
      <4>2. fieldTypes'[name] = fieldTypes[name]
        BY <1>3, <4>1, UpdateOld
      <4>3. before(name) = fieldTypes[name] /\ TypesOf(d, name) = <<>>
        BY <1>11, <3>2, <4>1 DEF before
      <4>4. fieldTypes[name] \o <<>> = fieldTypes[name]
        <5>1. fieldTypes[name] \in Seq(ToSet(fieldTypes[name]))
          BY <1>4, <4>1 DEF IsSequence
        <5> QED
          BY <5>1
      <4> QED
        BY <4>2, <4>3, <4>4
    <3> QED
      BY <3>1, <3>2
  <2>2. IsSequence(types) /\ \A t \in ToSet(types) : t \in ToSet(before(name)) \/ t \in ToSet(TypesOf(d, name))
    <3>1. IsSequence(before(name)) /\ IsSequence(TypesOf(d, name))
      BY <1>10, <1>12
    <3>2. ASSUME NEW t \in ToSet(types) PROVE t \in ToSet(before(name)) \/ t \in ToSet(TypesOf(d, name))
      <4> DEFINE A == ToSet(before(name)) \union ToSet(TypesOf(d, name))
      <4>1. before(name) \in Seq(A) /\ TypesOf(d, name) \in Seq(A)
        BY <3>1 DEF IsSequence
      <4> HIDE DEF A
      <4>2. types \in Seq(A)
        BY <4>1
      <4>3. t \in A
        <5> HIDE DEF types
        <5> QED
          BY <3>2, <4>2 DEF ToSet
      <4> QED
        BY <4>3 DEF A
    <3> QED
      BY <3>1, <3>2, Concatenated
  <2>3. \A t \in ToSet(types) : Flat(t)
    BY <1>10, <1>12, <2>2
  <2>4. \E h : Tallies(input.docs, name, ToSet(seen) \union {i}, types, h)
    <3>1. PICK g : Tallies(input.docs, name, ToSet(seen), before(name), g)
      BY <1>12
    <3>2. i \notin ToSet(seen) /\ IsSequence(TypesOf(input.docs[i], name)) /\ IsSequence(before(name))
      BY <1>6, <1>10, <1>12, <1>13 DEF d
    <3> QED
      BY <3>1, <3>2, TallyDocument DEF d
  <2> HIDE DEF types
  <2> QED
    BY <1>5, <2>1, <2>2, <2>3, <2>4
<1>14. CASE attempt \in {"sample", "find"}
  <2>1. Docs' = Docs /\ input' = input /\ attempt' = attempt
    BY <1>1 DEF Docs
  <2>2. ASSUME NEW name \in DOMAIN fieldTypes'
        PROVE  (/\ IsSequence(fieldTypes[name]) /\ \A t \in ToSet(fieldTypes[name]) : Flat(t)
                /\ \E g : Tallies(input.docs, name, ToSet(seen), fieldTypes[name], g))'
    <3>1. /\ IsSequence(fieldTypes'[name]) /\ \A t \in ToSet(fieldTypes'[name]) : Flat(t)
          /\ \E g : Tallies(input.docs, name, ToSet(seen'), fieldTypes'[name], g)
      BY <1>13, <1>14
    <3> QED
      BY <2>1, <3>1 DEF IsSequence
  <2>3. input' \in Inputs /\ seen' \in Seq(Docs') /\ DOMAIN fieldTypes' = SampledNames'
        /\ attempt' \in {"sample", "find"} /\ (attempt' = "find" => \A k \in DOMAIN seen' : seen'[k] = k)
    BY <1>4, <1>5, <1>6, <1>9, <1>14, <2>1
  <2> QED
    BY <2>2, <2>3 DEF Tally
<1> QED
  BY <1>4, <1>14

(* Merged types have levels; without another name nothing is merged.          *)
LEMMA MergedIs ==
    ASSUME NEW types, NEW name, NEW others, Len(others) \in Nat, AreTypes(types[name]),
           \A k \in 1..Len(others) : AreTypes(types[others[k]])
    PROVE  /\ MergedType(types, name, others).list \in Nat
           /\ Len(others) = 0 => MergedType(types, name, others) = ResolveTypeConflict(types[name])
<1> DEFINE n == Len(others)
           alone == ResolveTypeConflict(types[name])
           With(type, k) == ResolveTypeConflict(<<type>> \o types[others[k]])
           Eqn(f) == f = [k \in 0..n |-> IF k = 0 THEN ResolveTypeConflict(types[name])
                                         ELSE ResolveTypeConflict(<<f[k - 1]>> \o types[others[k]])]
           type == CHOOSE f : Eqn(f)
           T == {m \in 0..n : \E f : /\ f = [k \in 0..m |-> f[k]] /\ f[0] = alone
                                     /\ \A k \in 1..m : f[k] = With(f[k - 1], k)}
<1>1. MergedType(types, name, others) = type[n]
  BY DEF MergedType
<1> HIDE DEF n
<1>2. n \in Nat
  BY DEF n
<1>3. \E f : Eqn(f)
  <2>1. 0 \in T
    <3> HIDE DEF alone
    <3> DEFINE f == [k \in 0..0 |-> alone]
    <3>1. f = [k \in 0..0 |-> f[k]] /\ f[0] = alone
      OBVIOUS
    <3> HIDE DEF f
    <3> QED
      BY <1>2, <3>1
  <2>2. ASSUME NEW m \in 0..(n - 1), m \in T PROVE m + 1 \in T
    <3> HIDE DEF With, alone
    <3>1. PICK f : f[0] = alone /\ \A k \in 1..m : f[k] = With(f[k - 1], k)
      BY <2>2
    <3> DEFINE g == [k \in 0..(m + 1) |-> IF k = m + 1 THEN With(f[m], k) ELSE f[k]]
    <3>2. g = [k \in 0..(m + 1) |-> g[k]]
      OBVIOUS
    <3>3. g[0] = alone
      BY <1>2, <3>1
    <3>4. ASSUME NEW k \in 1..(m + 1) PROVE g[k] = With(g[k - 1], k)
      <4>1. CASE k = m + 1
        BY <1>2, <4>1
      <4>2. CASE k # m + 1
        <5>1. k \in 1..m /\ k - 1 \in 0..(m + 1) /\ k - 1 # m + 1 /\ k \in 0..(m + 1)
          BY <1>2, <4>2
        <5>2. g[k] = f[k] /\ g[k - 1] = f[k - 1]
          BY <4>2, <5>1
        <5>3. f[k] = With(f[k - 1], k)
          BY <3>1, <5>1
        <5> QED
          BY <5>2, <5>3
      <4> QED
        BY <4>1, <4>2
    <3> HIDE DEF g
    <3>5. m + 1 \in 0..n
      BY <1>2
    <3> QED
      BY <3>2, <3>3, <3>4, <3>5
  <2>3. n \in T
    <3>1. 0..n \subseteq T
      <4> HIDE DEF T
      <4> QED
        BY <1>2, <2>1, <2>2, SetInduction
    <3> HIDE DEF T
    <3> QED
      BY <1>2, <3>1
  <2>4. PICK f : /\ f = [k \in 0..n |-> f[k]] /\ f[0] = alone
                 /\ \A k \in 1..n : f[k] = With(f[k - 1], k)
    BY <2>3
  <2>5. Eqn(f)
    <3>1. ASSUME NEW k \in 0..n
          PROVE  f[k] = IF k = 0 THEN ResolveTypeConflict(types[name])
                        ELSE ResolveTypeConflict(<<f[k - 1]>> \o types[others[k]])
      <4>1. CASE k = 0
        BY <2>4, <4>1
      <4>2. CASE k # 0
        <5>1. k \in 1..n
          BY <1>2, <4>2
        <5> QED
          BY <2>4, <4>2, <5>1
      <4> QED
        BY <4>1, <4>2
    <3> QED
      BY <2>4, <3>1
  <2> HIDE DEF Eqn
  <2> QED
    BY <2>5
<1>4. Eqn(type)
  <2> HIDE DEF Eqn
  <2> QED
    BY <1>3
<1> HIDE DEF type
<1>5. type[0] = alone
  BY <1>2, <1>4
<1>6. ASSUME NEW k \in 1..n PROVE type[k] = With(type[k - 1], k)
  <2>1. k \in 0..n /\ k # 0
    BY <1>2
  <2> QED
    BY <1>4, <2>1
<1> HIDE DEF Eqn
<1> DEFINE U == {k \in 0..n : type[k].list \in Nat}
<1>7. 0 \in U
  <2> HIDE DEF type
  <2>1. alone.list \in Nat
    BY Resolved
  <2> HIDE DEF alone
  <2> QED
    BY <1>2, <1>5, <2>1
<1>8. ASSUME NEW k \in 0..(n - 1), k \in U PROVE k + 1 \in U
  <2>1. k + 1 \in 1..n /\ k + 1 \in 0..n /\ (k + 1) - 1 = k
    BY <1>2
  <2> DEFINE more == types[others[k + 1]]
             all == <<type[k]>> \o more
  <2>2. AreTypes(more)
    BY <2>1 DEF n
  <2>3. AreTypes(all)
    <3> DEFINE A == {type[k]} \union ToSet(more)
    <3>1. more \in Seq(A) /\ <<type[k]>> \in Seq(A)
      BY <2>2 DEF AreTypes, IsSequence
    <3>2. \A t \in A : t.list \in Nat
      BY <1>8, <2>2 DEF AreTypes
    <3> HIDE DEF A, more
    <3>3. all \in Seq(A)
      BY <3>1
    <3> HIDE DEF all
    <3>4. ToSet(all) \subseteq A
      BY <3>3 DEF ToSet
    <3> QED
      BY <3>2, <3>3, <3>4, OwnSequence DEF AreTypes
  <2>4. type[k + 1] = ResolveTypeConflict(all)
    BY <1>6, <2>1
  <2> HIDE DEF all
  <2>5. ResolveTypeConflict(all).list \in Nat
    BY <2>3, Resolved
  <2> QED
    BY <2>1, <2>4, <2>5
<1>9. n \in U
  <2>1. 0..n \subseteq U
    <3> HIDE DEF U
    <3> QED
      BY <1>2, <1>7, <1>8, SetInduction
  <2> HIDE DEF U
  <2> QED
    BY <1>2, <2>1
<1> QED
  BY <1>1, <1>5, <1>9 DEF n

(* What wins among several types without fields: only types that are among      *)
(* them, or text; integers over doubles if these are less than three in ten. *)
LEMMA MajorityIs ==
    ASSUME NEW types, NEW n \in Nat, n >= 2, DOMAIN types = 1..n, Len(types) = n
    PROVE  /\ MajorityType(types) \in {"VARCHAR", "DOUBLE", "BIGINT", "BOOLEAN", "TIMESTAMP"}
           /\ MajorityType(types) # "VARCHAR" => \E i \in DOMAIN types : types[i] = Atomic(MajorityType(types))
           /\ MajorityType(types) = "BIGINT" =>
                 LET doubles == Cardinality({i \in DOMAIN types : types[i] = Atomic("DOUBLE")})
                 IN  doubles = 0 \/ doubles < (n * 3) \div 10
<1> DEFINE Those(id) == {i \in DOMAIN types : types[i] = Atomic(id)}
           count(id) == Cardinality(Those(id))
<1>1. \A id : count(id) \in Nat /\ (count(id) > 0 => \E i \in DOMAIN types : types[i] = Atomic(id))
  <2> TAKE id
  <2>1. IsFiniteSet(1..n)
    BY FS_Interval
  <2>2. Those(id) \subseteq 1..n
    OBVIOUS
  <2> DEFINE S == Those(id)
  <2>3. S = {} \/ \E i \in DOMAIN types : types[i] = Atomic(id)
    OBVIOUS
  <2> HIDE DEF S
  <2>4. IsFiniteSet(S)
    BY <2>1, <2>2, FS_Subset DEF S
  <2>5. Cardinality(S) \in Nat /\ (S = {} => Cardinality(S) = 0)
    BY <2>4, FS_CardinalityType, FS_EmptySet
  <2> QED
    BY <2>3, <2>5 DEF S
<1> DEFINE v == count("VARCHAR")
           d == count("DOUBLE")
           b == count("BIGINT")
           o == count("BOOLEAN")
           t == count("TIMESTAMP")
           most == (n * 7) \div 10
           some == (n * 3) \div 10
           preferred == << <<"VARCHAR", v > most>>,
                           <<"DOUBLE", d > 0 /\ d >= some>>,
                           <<"BIGINT", b > 0 /\ b >= some>>,
                           <<"BOOLEAN", o >= most>>,
                           <<"TIMESTAMP", t >= most>>,
                           <<"DOUBLE", d > 0>>, <<"BIGINT", b > 0>>,
                           <<"BOOLEAN", o > 0>>, <<"TIMESTAMP", t > 0>>,
                           <<"VARCHAR", TRUE>> >>
           winner == CHOOSE i \in DOMAIN preferred : preferred[i][2] /\ \A j \in 1..(i - 1) : ~preferred[j][2]
           result == MajorityType(types)
<1>2. most > 0 /\ most \in Nat /\ some \in Nat
  OBVIOUS
<1>3. v \in Nat /\ d \in Nat /\ b \in Nat /\ o \in Nat /\ t \in Nat
  BY <1>1
<1>4. result = preferred[winner][1]
  BY DEF MajorityType
<1>5. /\ count("VARCHAR") = v /\ count("DOUBLE") = d /\ count("BIGINT") = b /\ count("BOOLEAN") = o
      /\ count("TIMESTAMP") = t
  OBVIOUS
<1> HIDE DEF count, v, d, b, o, t, most, some, result, winner
<1>6. /\ DOMAIN preferred = 1..10
      /\ preferred[1][1] = "VARCHAR" /\ preferred[2][1] = "DOUBLE" /\ preferred[3][1] = "BIGINT"
      /\ preferred[4][1] = "BOOLEAN" /\ preferred[5][1] = "TIMESTAMP" /\ preferred[6][1] = "DOUBLE"
      /\ preferred[7][1] = "BIGINT" /\ preferred[8][1] = "BOOLEAN" /\ preferred[9][1] = "TIMESTAMP"
      /\ preferred[10][1] = "VARCHAR"
  OBVIOUS
<1>7. /\ preferred[2][2] = (d > 0 /\ d >= some) /\ preferred[3][2] = (b > 0 /\ b >= some)
      /\ preferred[4][2] = (o >= most) /\ preferred[5][2] = (t >= most)
      /\ preferred[6][2] = (d > 0) /\ preferred[7][2] = (b > 0)
      /\ preferred[8][2] = (o > 0) /\ preferred[9][2] = (t > 0) /\ preferred[10][2] = TRUE
  BY Zenon
<1> HIDE DEF preferred
<1>8. winner \in 1..10 /\ preferred[winner][2] /\ \A j \in 1..(winner - 1) : ~preferred[j][2]
  <2> DEFINE W == {i \in 1..10 : preferred[i][2]}
  <2>1. preferred[10][2]
    BY <1>7
  <2>2. 10 \in W /\ W \subseteq Nat
    BY <2>1
  <2>3. PICK i \in W : \A j \in W : i <= j
    <3> HIDE DEF W
    <3> QED
      BY <2>2, LeastElement
  <2>4. \A j \in 1..(i - 1) : j \in 1..10 /\ j \notin W
    BY <2>3
  <2>5. \A j \in 1..(i - 1) : ~preferred[j][2]
    BY <2>4
  <2>6. i \in DOMAIN preferred /\ preferred[i][2]
    BY <1>6
  <2> QED
    BY <1>6, <2>5, <2>6 DEF winner
<1>13. winner \in {1, 2, 3, 4, 5, 6, 7, 8, 9, 10} /\ (winner \in {3, 7} => ~preferred[2][2])
  BY <1>8
<1>14. ~preferred[2][2] => d = 0 \/ d < some
  <2>1. ~preferred[2][2] => ~(d > 0 /\ d >= some)
    BY <1>7, Zenon
  <2> HIDE DEF preferred
  <2>2. ~(d > 0 /\ d >= some) => d = 0 \/ d < some
    BY <1>2, <1>3
  <2> QED
    BY <2>1, <2>2, Zenon
<1>9. \/ result = "VARCHAR"
      \/ result = "DOUBLE" /\ d > 0
      \/ result = "BIGINT" /\ b > 0 /\ (d = 0 \/ d < some)
      \/ result = "BOOLEAN" /\ o > 0
      \/ result = "TIMESTAMP" /\ t > 0
  <2>1. CASE winner \in {1, 10}
    BY <1>4, <1>6, <2>1
  <2>2. CASE winner \in {2, 6}
    <3>1. d > 0
      BY <1>7, <1>8, <2>2
    <3> QED
      BY <1>4, <1>6, <2>2, <3>1
  <2>3. CASE winner \in {3, 7}
    <3>1. b > 0
      BY <1>7, <1>8, <2>3
    <3> QED
      BY <1>4, <1>6, <1>13, <1>14, <2>3, <3>1
  <2>4. CASE winner \in {4, 8}
    <3>1. o >= most \/ o > 0
      BY <1>7, <1>8, <2>4
    <3>2. o > 0
      BY <1>2, <1>3, <3>1
    <3> QED
      BY <1>4, <1>6, <2>4, <3>2
  <2>5. CASE winner \in {5, 9}
    <3>1. t >= most \/ t > 0
      BY <1>7, <1>8, <2>5
    <3>2. t > 0
      BY <1>2, <1>3, <3>1
    <3> QED
      BY <1>4, <1>6, <2>5, <3>2
  <2> QED
    BY <1>13, <2>1, <2>2, <2>3, <2>4, <2>5
<1>10. result # "VARCHAR" => count(result) > 0
  BY <1>5, <1>9
<1>11. result # "VARCHAR" => \E i \in DOMAIN types : types[i] = Atomic(result)
  BY <1>1, <1>10
<1>12. d = Cardinality({i \in DOMAIN types : types[i] = Atomic("DOUBLE")}) /\ some = (n * 3) \div 10
  BY DEF d, count, some
<1> QED
  BY <1>9, <1>11, <1>12 DEF result

-----------------------------------------------------------------------------
(* The types of a column and the fields they come from.                       *)

(* The types a field adds: one of its own, but for lists, and two texts of a   *)
(* document that is too deep.                                              *)
LEMMA AddedIs ==
    ASSUME NEW d, NEW path, TypedArray(d, path)
    PROVE  /\ TypesAdded(d, path) # <<>>
           /\ ToSet(TypesAdded(d, path)) # {}
           /\ ElementAt(d, path)[1] # "document" => Len(TypesAdded(d, path)) = 1
           /\ \A t \in ToSet(TypesAdded(d, path)) :
                 t = Atomic(InferTypeFromBSON(ElementAt(d, path))) \/ (t.list > 0 /\ ElementAt(d, path)[1] = "array")
<1> DEFINE field == ElementAt(d, path)
           n == IF Len(path) > MaxDepth THEN 2 ELSE 1
           texts == [k \in 1..n |-> Atomic("VARCHAR")]
           added == TypesAdded(d, path)
           text == Atomic("VARCHAR")
           own == Atomic(InferTypeFromBSON(field))
<1>1. added = CASE field[1] = "document" -> texts
                [] field[1] = "array" -> <<InferArrayType(field[2], Len(path) - 1)>>
                [] OTHER -> <<own>>
  BY DEF TypesAdded
<1>2. \A t : ToSet(<<t>>) = {t} /\ <<t>> # <<>> /\ Len(<<t>>) = 1
  <2> TAKE t
  <2>1. DOMAIN <<t>> = {1} /\ <<t>>[1] = t
    OBVIOUS
  <2> QED
    BY <2>1 DEF ToSet
<1>3. field[1] \in {"document", "array"} => own = text
  BY DEF InferTypeFromBSON
<1>4. CASE field[1] = "document"
  <2>1. added = texts /\ 1 \in 1..n /\ own = text
    BY <1>1, <1>3, <1>4
  <2>2. DOMAIN texts = 1..n /\ \A k \in 1..n : texts[k] = text
    OBVIOUS
  <2> HIDE DEF texts, n, text, own, added
  <2>3. ToSet(added) = {own}
    BY <2>1, <2>2 DEF ToSet
  <2>4. added # <<>>
    <3>1. 1 \in DOMAIN added /\ DOMAIN <<>> = {}
      BY <2>1, <2>2
    <3> QED
      BY <3>1
  <2> QED
    BY <1>4, <2>3, <2>4 DEF added, own
<1>5. CASE field[1] = "array"
  <2> DEFINE list == InferArrayType(field[2], Len(path) - 1)
  <2>1. list.list > 0 \/ list = text
    BY <1>5, ArrayFlat DEF TypedArray
  <2>2. added = <<list>> /\ own = text
    BY <1>1, <1>3, <1>5
  <2> HIDE DEF list, text, own, added
  <2> QED
    BY <1>2, <1>5, <2>1, <2>2 DEF added, own
<1>6. CASE field[1] \notin {"document", "array"}
  <2>1. added = <<own>>
    BY <1>1, <1>6
  <2> HIDE DEF own, added
  <2> QED
    BY <1>2, <2>1 DEF own, added
<1> QED
  BY <1>4, <1>5, <1>6

(* What a field alone is inferred to be: BIGINT and DOUBLE of numbers only.    *)
LEMMA InferredFrom ==
    ASSUME NEW field
    PROVE  /\ InferTypeFromBSON(field) \in {"VARCHAR", "BIGINT", "DOUBLE", "BOOLEAN", "BLOB", "DATE", "TIMESTAMP"}
           /\ InferTypeFromBSON(field) = "BIGINT" <=> field[1] = "number"
           /\ InferTypeFromBSON(field) = "DOUBLE" <=> field[1] \in {"double", "decimal"}
           /\ InferTypeFromBSON(field) = "BOOLEAN" <=> field[1] = "bool"
           /\ InferTypeFromBSON(field) = "BLOB" <=> field[1] = "binary"
           /\ InferTypeFromBSON(field) = "TIMESTAMP" => field[1] = "date"
           /\ InferTypeFromBSON(field) = "DATE" => field[1] = "date" /\ AtMidnight(field[2])
BY DEF InferTypeFromBSON

(* The documents' fields for a column: each adds its types once.               *)
OnePath(docs, N, name, path) ==
    \A i \in 1..N :
       /\ \/ TypesOf(docs[i], name) = TypesAdded(docs[i], path)
          \/ TypesOf(docs[i], name) = <<>> /\ ElementAt(docs[i], path) = Missing
       /\ TypedArray(docs[i], path)

(* Each type that was collected is one of a document's field.                 *)
LEMMA TypesComeFrom ==
    ASSUME NEW docs, NEW N, NEW name, NEW path, OnePath(docs, N, name, path),
           NEW types, NEW g, Tallies(docs, name, 1..N, types, g), NEW k \in DOMAIN types
    PROVE  /\ g[k] \in 1..N
           /\ \/ types[k] = Atomic(InferTypeFromBSON(ElementAt(docs[g[k]], path)))
              \/ types[k].list > 0 /\ ElementAt(docs[g[k]], path)[1] = "array"
<1>1. g[k] \in 1..N /\ types[k] \in ToSet(TypesOf(docs[g[k]], name))
  BY DEF Tallies
<1> DEFINE i == g[k]
           d == docs[i]
<1>2. TypesOf(d, name) # <<>>
  <2>1. ToSet(<<>>) = {}
    BY DEF ToSet
  <2> QED
    BY <1>1, <2>1
<1>3. TypesOf(d, name) = TypesAdded(d, path) /\ TypedArray(d, path)
  BY <1>1, <1>2 DEF OnePath
<1>4. \A t \in ToSet(TypesAdded(d, path)) :
         t = Atomic(InferTypeFromBSON(ElementAt(d, path))) \/ (t.list > 0 /\ ElementAt(d, path)[1] = "array")
  <2> HIDE DEF d
  <2> QED
    BY <1>3, AddedIs
<1> QED
  BY <1>1, <1>3, <1>4

(* The type of each field was collected.                                      *)
LEMMA TypesHaveAll ==
    ASSUME NEW docs, NEW N, NEW name, NEW path, OnePath(docs, N, name, path),
           NEW types, NEW g, Tallies(docs, name, 1..N, types, g), NEW i \in 1..N, ElementAt(docs[i], path) # Missing
    PROVE  \E k \in DOMAIN types :
              /\ g[k] = i
              /\ \/ types[k] = Atomic(InferTypeFromBSON(ElementAt(docs[i], path)))
                 \/ types[k].list > 0 /\ ElementAt(docs[i], path)[1] = "array"
<1>1. TypesOf(docs[i], name) = TypesAdded(docs[i], path)
  BY DEF OnePath
<1>2. ToSet(TypesAdded(docs[i], path)) # {}
  <2>1. TypedArray(docs[i], path)
    BY DEF OnePath
  <2> QED
    BY <2>1, AddedIs
<1>3. PICK t \in ToSet(TypesOf(docs[i], name)) : TRUE
  BY <1>1, <1>2
<1>4. PICK k \in DOMAIN types : g[k] = i /\ types[k] = t
  BY <1>3 DEF Tallies
<1> QED
  BY <1>4, TypesComeFrom

DoubleFields(docs, N, path) == Cardinality({i \in 1..N : ElementAt(docs[i], path)[1] = "double"})
DoubleTypes(types) == Cardinality({k \in DOMAIN types : types[k] = Atomic("DOUBLE")})

(* No more types than documents, if no field is a document, and no fewer that *)
(* are DOUBLE than fields that are doubles.                                 *)
LEMMA DoublesCounted ==
    ASSUME NEW docs, NEW N \in Nat, NEW name, NEW path, OnePath(docs, N, name, path),
           NEW types, IsSequence(types), NEW g, Tallies(docs, name, 1..N, types, g),
           \A i \in 1..N : ElementAt(docs[i], path)[1] # "document"
    PROVE  /\ Len(types) <= N
           /\ DoubleFields(docs, N, path) <= DoubleTypes(types)
           /\ DoubleFields(docs, N, path) \in Nat /\ DoubleTypes(types) \in Nat
<1> DEFINE D == {i \in 1..N : ElementAt(docs[i], path)[1] = "double"}
           K == {k \in DOMAIN types : types[k] = Atomic("DOUBLE")}
           n == Len(types)
           f == [i \in D |-> CHOOSE k \in K : g[k] = i]
<1>1. n \in Nat /\ DOMAIN types = 1..n
  BY DEF IsSequence
<1> HIDE DEF n
<1>2. IsFiniteSet(1..N) /\ Cardinality(1..N) = N /\ IsFiniteSet(1..n) /\ Cardinality(1..n) = n
  BY <1>1, FS_Interval
<1>3. n <= N
  <2>1. ASSUME NEW i \in 1..N PROVE ~(Len(TypesOf(docs[i], name)) > 1)
    <3>1. CASE TypesOf(docs[i], name) = <<>>
      BY <3>1
    <3>2. CASE TypesOf(docs[i], name) = TypesAdded(docs[i], path)
      <4>1. TypedArray(docs[i], path)
        BY DEF OnePath
      <4>2. Len(TypesAdded(docs[i], path)) = 1
        BY <4>1, AddedIs
      <4> QED
        BY <3>2, <4>2
    <3> QED
      BY <3>1, <3>2 DEF OnePath
  <2>2. g \in [1..n -> 1..N]
    BY <1>1 DEF Tallies
  <2>3. \A k, l \in 1..n : g[k] = g[l] => k = l
    BY <1>1, <2>1, <2>2 DEF Tallies
  <2>4. g \in Injection(1..n, 1..N)
    BY <2>2, <2>3 DEF Injection, IsInjective
  <2> QED
    BY <1>2, <2>4, FS_Injection
<1>4. D \subseteq 1..N /\ K \subseteq 1..n
  BY <1>1
<1>5. ASSUME NEW i \in D PROVE \E k \in K : g[k] = i
  <2>1. i \in 1..N /\ ElementAt(docs[i], path)[1] = "double"
    OBVIOUS
  <2>2. ElementAt(docs[i], path) # Missing
    BY <2>1 DEF Missing
  <2>3. PICK k \in DOMAIN types :
              /\ g[k] = i
              /\ \/ types[k] = Atomic(InferTypeFromBSON(ElementAt(docs[i], path)))
                 \/ types[k].list > 0 /\ ElementAt(docs[i], path)[1] = "array"
    BY <2>1, <2>2, TypesHaveAll
  <2>4. InferTypeFromBSON(ElementAt(docs[i], path)) = "DOUBLE"
    BY <2>1, InferredFrom
  <2> QED
    BY <2>1, <2>3, <2>4
<1> HIDE DEF D, K
<1>6. \A i \in D : f[i] \in K /\ g[f[i]] = i
  BY <1>5
<1>7. f \in [D -> K]
  <2>1. f = [i \in D |-> f[i]]
    OBVIOUS
  <2> HIDE DEF f
  <2> QED
    BY <1>6, <2>1
<1> HIDE DEF f
<1>8. f \in Injection(D, K)
  BY <1>6, <1>7 DEF Injection, IsInjective
<1>9. IsFiniteSet(D) /\ IsFiniteSet(K)
  BY <1>2, <1>4, FS_Subset
<1>10. Cardinality(D) <= Cardinality(K) /\ Cardinality(D) \in Nat /\ Cardinality(K) \in Nat
  BY <1>8, <1>9, FS_Injection, FS_CardinalityType
<1> QED
  BY <1>3, <1>10 DEF D, K, n, DoubleFields, DoubleTypes

=============================================================================
