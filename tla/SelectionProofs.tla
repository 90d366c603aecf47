--------------------------- MODULE SelectionProofs ---------------------------
(* What a selection from a sequence is, holds and preserves.  The library's  *)
(* induction takes a property as parameter, which the provers cannot         *)
(* instantiate; here it is a set, and every induction goes back to least     *)
(* elements.                                                                 *)
EXTENDS Selection, Functions, WellFoundedInduction, TLAPS

(* Every set of naturals has a least element, the source of all inductions.  *)
LEMMA LeastElement ==
    ASSUME NEW T, T \subseteq Nat, T # {}
    PROVE  \E x \in T : \A y \in T : x <= y
<1> DEFINE R == OpToRel(<, Nat)
<1>1. IsWellFoundedOn(R, Nat)
  BY NatLessThanWellFounded
<1>2. PICK x \in T : \A y \in T : ~(<<y, x>> \in R)
  <2> HIDE DEF R
  <2> QED
    BY <1>1, WFMin
<1>3. ASSUME NEW y \in T PROVE x <= y
  <2>1. ~(<<y, x>> \in R)
    BY <1>2
  <2>2. ~(y < x)
    BY <2>1 DEF OpToRel
  <2> QED
    BY <2>2
<1> QED
  BY <1>2, <1>3

(* Induction up to a bound, over the set of the numbers it has reached.      *)
LEMMA SetInduction ==
    ASSUME NEW n \in Nat, NEW T, 0 \in T, \A k \in 0..(n-1) : k \in T => k + 1 \in T
    PROVE  0..n \subseteq T
<1> SUFFICES ASSUME (0..n) \ T # {} PROVE FALSE
  OBVIOUS
<1>1. PICK x \in (0..n) \ T : \A y \in (0..n) \ T : x <= y
  <2>1. (0..n) \ T \subseteq Nat
    OBVIOUS
  <2> QED
    BY <2>1, LeastElement
<1>2. x # 0 /\ x - 1 \in 0..(n-1)
  BY <1>1
<1>3. x - 1 \in T
  BY <1>1, <1>2
<1> QED
  BY <1>1, <1>2, <1>3

(* A sequence of values of a set is given by its first and by the step from  *)
(* each to the next: what makes a recursive function one of its equation.    *)
Unfolds(f, n, S, base, step) ==
    /\ f \in [0..n -> S]
    /\ f[0] = base
    /\ \A k \in 1..n : f[k] = step[k][f[k-1]]

(* Every base and every step have such a sequence.                           *)
LEMMA Recursion ==
    ASSUME NEW n \in Nat, NEW S, NEW base \in S, NEW step \in [1..n -> [S -> S]]
    PROVE  \E f : Unfolds(f, n, S, base, step)
<1> DEFINE T == {m \in 0..n : \E f : Unfolds(f, m, S, base, step)}
<1>1. 0 \in T
  <2>1. Unfolds([i \in 0..0 |-> base], 0, S, base, step)
    BY DEF Unfolds
  <2> QED
    BY <2>1
<1>2. ASSUME NEW m \in 0..(n-1), m \in T PROVE m + 1 \in T
  <2>1. PICK f : Unfolds(f, m, S, base, step)
    BY <1>2
  <2> DEFINE g == [i \in 0..(m+1) |-> IF i = m + 1 THEN step[i][f[m]] ELSE f[i]]
  <2>2. g \in [0..(m+1) -> S]
    <3>1. step[m+1][f[m]] \in S
      BY <2>1 DEF Unfolds
    <3> QED
      BY <2>1, <3>1 DEF Unfolds
  <2>3. g[0] = base
    BY <2>1 DEF Unfolds
  <2>4. ASSUME NEW k \in 1..(m+1) PROVE g[k] = step[k][g[k-1]]
    BY <2>1 DEF Unfolds
  <2>5. Unfolds(g, m + 1, S, base, step)
    BY <2>2, <2>3, <2>4 DEF Unfolds
  <2> QED
    BY <2>5
<1>3. 0..n \subseteq T
  <2> HIDE DEF T
  <2> QED
    BY <1>1, <1>2, SetInduction
<1> QED
  BY <1>3

(* What Keep computes on the way, one element of the sequence after another. *)
Keeps(f, s, S) ==
    /\ f[0] = <<>>
    /\ \A n \in 1..Len(s) : f[n] = IF s[n] \in S THEN Append(f[n-1], s[n]) ELSE f[n-1]

(* Keep computes that, in sequences of selected elements.                    *)
LEMMA KeepDef ==
    ASSUME NEW A, NEW s \in Seq(A), NEW S
    PROVE  \E f \in [0..Len(s) -> Seq(A \intersect S)] : Keeps(f, s, S) /\ Keep(s, S) = f[Len(s)]
<1> DEFINE V == Seq(A \intersect S)
           step == [k \in 1..Len(s) |-> [x \in V |-> IF s[k] \in S THEN Append(x, s[k]) ELSE x]]
           Eqn(f) == f = [n \in 0..Len(s) |->
                            IF n = 0 THEN <<>>
                            ELSE IF s[n] \in S THEN Append(f[n-1], s[n])
                            ELSE f[n-1]]
           kept == CHOOSE f : Eqn(f)
<1>0. Len(s) \in Nat /\ \A n \in 1..Len(s) : s[n] \in A
  OBVIOUS
<1>1. step \in [1..Len(s) -> [V -> V]]
  BY <1>0
<1>2. PICK f : Unfolds(f, Len(s), V, <<>>, step)
  <2>1. <<>> \in V
    OBVIOUS
  <2> HIDE DEF V, step
  <2> QED
    BY <1>0, <1>1, <2>1, Recursion
<1>3. ASSUME NEW n \in 1..Len(s)
      PROVE  f[n] = IF s[n] \in S THEN Append(f[n-1], s[n]) ELSE f[n-1]
  <2> HIDE DEF V
  <2>1. n - 1 \in 0..Len(s) /\ f[n-1] \in V
    BY <1>0, <1>2 DEF Unfolds
  <2>2. f[n] = step[n][f[n-1]]
    BY <1>2 DEF Unfolds
  <2> QED
    BY <2>1, <2>2
<1>4. Eqn(f)
  <2>1. ASSUME NEW n \in 0..Len(s)
        PROVE  f[n] = IF n = 0 THEN <<>> ELSE IF s[n] \in S THEN Append(f[n-1], s[n]) ELSE f[n-1]
    <3>1. CASE n = 0
      BY <1>2, <3>1 DEF Unfolds
    <3>2. CASE n # 0
      <4>1. n \in 1..Len(s)
        BY <1>0, <3>2
      <4> QED
        BY <1>3, <3>2, <4>1
    <3> QED
      BY <3>1, <3>2
  <2> HIDE DEF V
  <2>2. f = [n \in 0..Len(s) |-> f[n]]
    BY <1>2 DEF Unfolds
  <2> QED
    BY <2>1, <2>2
<1>5. Eqn(kept)
  <2> HIDE DEF Eqn
  <2> QED
    BY <1>4
<1>6. Keep(s, S) = kept[Len(s)]
  BY DEF Keep
<1> HIDE DEF kept, V
<1>7. \A n \in 0..Len(s) : kept[n] = f[n]
  <2> DEFINE T == {n \in 0..Len(s) : kept[n] = f[n]}
  <2>1. 0 \in T
    BY <1>0, <1>2, <1>5 DEF Unfolds
  <2>2. ASSUME NEW k \in 0..(Len(s) - 1), k \in T PROVE k + 1 \in T
    <3>1. k + 1 \in 1..Len(s) /\ k + 1 \in 0..Len(s) /\ (k + 1) - 1 = k
      BY <1>0
    <3>2. kept[k + 1] = IF s[k + 1] \in S THEN Append(kept[k], s[k + 1]) ELSE kept[k]
      <4>1. kept[k + 1] = IF k + 1 = 0 THEN <<>>
                          ELSE IF s[k + 1] \in S THEN Append(kept[(k + 1) - 1], s[k + 1])
                          ELSE kept[(k + 1) - 1]
        BY <1>5, <3>1
      <4>2. k + 1 # 0
        BY <1>0
      <4> QED
        BY <3>1, <4>1, <4>2
    <3> QED
      BY <1>3, <3>1, <3>2, <2>2
  <2>3. 0..Len(s) \subseteq T
    <3> HIDE DEF T
    <3> QED
      BY <1>0, <2>1, <2>2, SetInduction
  <2> QED
    BY <2>3
<1> QED
  BY <1>0, <1>2, <1>3, <1>6, <1>7 DEF V, Unfolds, Keeps

(* Nothing else computes it: whatever takes these steps gives Keep.          *)
LEMMA KeepIs ==
    ASSUME NEW A, NEW s \in Seq(A), NEW S, NEW g, Keeps(g, s, S)
    PROVE  Keep(s, S) = g[Len(s)]
<1>1. PICK f \in [0..Len(s) -> Seq(A \intersect S)] : Keeps(f, s, S) /\ Keep(s, S) = f[Len(s)]
  BY KeepDef
<1> DEFINE T == {n \in 0..Len(s) : g[n] = f[n]}
<1>2. Len(s) \in Nat
  OBVIOUS
<1>3. 0 \in T
  BY <1>1, <1>2 DEF Keeps
<1>4. ASSUME NEW k \in 0..(Len(s) - 1), k \in T PROVE k + 1 \in T
  <2>1. k + 1 \in 1..Len(s) /\ k + 1 \in 0..Len(s) /\ (k + 1) - 1 = k
    BY <1>2
  <2>2. /\ g[k + 1] = IF s[k + 1] \in S THEN Append(g[k], s[k + 1]) ELSE g[k]
        /\ f[k + 1] = IF s[k + 1] \in S THEN Append(f[k], s[k + 1]) ELSE f[k]
    BY <1>1, <2>1 DEF Keeps
  <2> QED
    BY <1>4, <2>1, <2>2
<1>5. 0..Len(s) \subseteq T
  <2> HIDE DEF T
  <2> QED
    BY <1>2, <1>3, <1>4, SetInduction
<1> QED
  BY <1>1, <1>2, <1>5

-----------------------------------------------------------------------------
(* What Keep gives.                                                          *)

(* Elements of the sequence that are in the set.                             *)
LEMMA KeepType ==
    ASSUME NEW A, NEW s \in Seq(A), NEW S
    PROVE  Keep(s, S) \in Seq(A \intersect S)
<1>1. Len(s) \in 0..Len(s)
  OBVIOUS
<1> QED
  BY <1>1, KeepDef

(* So a sequence over the same elements.                                     *)
LEMMA KeepSeq ==
    ASSUME NEW A, NEW s \in Seq(A), NEW S
    PROVE  Keep(s, S) \in Seq(A)
<1>1. \A q \in Seq(A \intersect S) : q \in Seq(A)
  OBVIOUS
<1> QED
  BY <1>1, KeepType

(* Nothing to select from.                                                   *)
LEMMA KeepEmpty ==
    ASSUME NEW S
    PROVE  Keep(<<>>, S) = <<>>
<1> DEFINE g == [n \in {0} |-> <<>>]
<1>1. <<>> \in Seq({}) /\ Len(<<>>) = 0
  OBVIOUS
<1>2. Keeps(g, <<>>, S)
  BY <1>1 DEF Keeps
<1> HIDE DEF g
<1>3. Keep(<<>>, S) = g[0]
  BY <1>1, <1>2, KeepIs
<1> QED
  BY <1>3 DEF g

(* One more element counts if it is in the set.                              *)
LEMMA KeepAppend ==
    ASSUME NEW A, NEW s \in Seq(A), NEW x \in A, NEW S
    PROVE  Keep(Append(s, x), S) = IF x \in S THEN Append(Keep(s, S), x) ELSE Keep(s, S)
<1> DEFINE t == Append(s, x)
<1>1. t \in Seq(A) /\ Len(t) = Len(s) + 1 /\ Len(s) \in Nat /\ t[Len(s) + 1] = x
      /\ \A n \in 1..Len(s) : t[n] = s[n]
  OBVIOUS
<1> HIDE DEF t
<1>2. PICK f \in [0..Len(t) -> Seq(A \intersect S)] : Keeps(f, t, S) /\ Keep(t, S) = f[Len(t)]
  BY <1>1, KeepDef
<1>3. Keeps(f, s, S)
  BY <1>1, <1>2 DEF Keeps
<1>4. Keep(s, S) = f[Len(s)]
  BY <1>3, KeepIs
<1>5. f[Len(s) + 1] = IF t[Len(s) + 1] \in S THEN Append(f[Len(s)], t[Len(s) + 1]) ELSE f[Len(s)]
  <2>1. Len(s) + 1 \in 1..Len(t) /\ (Len(s) + 1) - 1 = Len(s)
    BY <1>1
  <2> QED
    BY <1>2, <2>1 DEF Keeps
<1> QED
  BY <1>1, <1>2, <1>4, <1>5 DEF t

(* Appending to the second of two sequences, and to both.                    *)
LEMMA AppendToConcat ==
    ASSUME NEW A, NEW a \in Seq(A), NEW b \in Seq(A), NEW x \in A
    PROVE  a \o Append(b, x) = Append(a \o b, x)
OBVIOUS

(* Selecting from two sequences, one after the other: how chunks add up.     *)
LEMMA KeepConcat ==
    ASSUME NEW A, NEW s \in Seq(A), NEW t \in Seq(A), NEW S
    PROVE  Keep(s \o t, S) = Keep(s, S) \o Keep(t, S)
<1> DEFINE u == s \o t
           V == Seq(A \intersect S)
<1>1. /\ u \in Seq(A) /\ Len(u) = Len(s) + Len(t) /\ Len(s) \in Nat /\ Len(t) \in Nat
      /\ \A n \in 1..Len(s) : u[n] = s[n]
      /\ \A n \in 1..Len(t) : u[Len(s) + n] = t[n]
  OBVIOUS
<1>2. PICK f \in [0..Len(s) -> V] : Keeps(f, s, S) /\ Keep(s, S) = f[Len(s)]
  BY KeepDef
<1>3. PICK h \in [0..Len(t) -> V] : Keeps(h, t, S) /\ Keep(t, S) = h[Len(t)]
  BY KeepDef
<1> HIDE DEF u
<1> DEFINE g == [n \in 0..Len(u) |-> IF n <= Len(s) THEN f[n] ELSE f[Len(s)] \o h[n - Len(s)]]
<1>4. g[0] = <<>>
  BY <1>1, <1>2 DEF Keeps
<1>5. ASSUME NEW n \in 1..Len(u) PROVE g[n] = IF u[n] \in S THEN Append(g[n-1], u[n]) ELSE g[n-1]
  <2>1. CASE n <= Len(s)
    <3>1. n \in 1..Len(s) /\ g[n] = f[n] /\ g[n-1] = f[n-1] /\ u[n] = s[n]
      BY <1>1, <2>1
    <3> QED
      BY <1>2, <3>1 DEF Keeps
  <2>2. CASE n > Len(s)
    <3> DEFINE k == n - Len(s)
    <3>1. k \in 1..Len(t) /\ u[n] = t[k] /\ k - 1 \in 0..Len(t) /\ k \in 0..Len(t)
      <4>1. n = Len(s) + k /\ k \in 1..Len(t)
        BY <1>1, <2>2
      <4>2. u[Len(s) + k] = t[k]
        <5> HIDE DEF k
        <5> QED
          BY <1>1, <4>1
      <4> HIDE DEF k
      <4> QED
        BY <1>1, <4>1, <4>2
    <3>2. f[Len(s)] \in V /\ h[k-1] \in V /\ h[k] \in V
      <4>1. Len(s) \in 0..Len(s)
        BY <1>1
      <4> HIDE DEF V, k
      <4> QED
        BY <3>1, <4>1
    <3>3. h[k] = IF t[k] \in S THEN Append(h[k-1], t[k]) ELSE h[k-1]
      BY <1>3, <3>1 DEF Keeps
    <3>4. g[n] = f[Len(s)] \o h[k]
      BY <1>1, <2>2
    <3>5. g[n-1] = f[Len(s)] \o h[k-1]
      <4>1. CASE n - 1 > Len(s)
        BY <1>1, <2>2, <4>1
      <4>2. CASE n - 1 = Len(s)
        <5>1. k = 1 /\ h[k-1] = <<>>
          BY <1>1, <1>3, <4>2 DEF Keeps
        <5>2. g[n-1] = f[Len(s)]
          BY <1>1, <4>2
        <5>3. f[Len(s)] \o <<>> = f[Len(s)]
          BY <3>2
        <5> QED
          BY <5>1, <5>2, <5>3
      <4> QED
        BY <1>1, <2>2, <4>1, <4>2, SMTT(30)
    <3>6. ASSUME t[k] \in S PROVE f[Len(s)] \o Append(h[k-1], t[k]) = Append(f[Len(s)] \o h[k-1], t[k])
      <4>1. t[k] \in A \intersect S
        <5>1. t[k] \in A
          BY <3>1
        <5> QED
          BY <5>1, <3>6
      <4>2. f[Len(s)] \in Seq(A \intersect S) /\ h[k-1] \in Seq(A \intersect S)
        BY <3>2
      <4> DEFINE a == f[Len(s)]
                 b == h[k-1]
                 x == t[k]
      <4>3. a \in Seq(A \intersect S) /\ b \in Seq(A \intersect S) /\ x \in A \intersect S
        BY <4>1, <4>2
      <4> HIDE DEF a, b, x
      <4>4. a \o Append(b, x) = Append(a \o b, x)
        BY <4>3, AppendToConcat
      <4> QED
        BY <4>4 DEF a, b, x
    <3> HIDE DEF k, g, V
    <3> QED
      BY <3>1, <3>3, <3>4, <3>5, <3>6
  <2> QED
    BY <1>1, <2>1, <2>2
<1>6. Keeps(g, u, S)
  BY <1>4, <1>5 DEF Keeps
<1>7. Keep(u, S) = g[Len(u)]
  <2> HIDE DEF g
  <2> QED
    BY <1>1, <1>6, KeepIs
<1>8. g[Len(u)] = f[Len(s)] \o h[Len(t)]
  <2>1. CASE Len(t) = 0
    <3>1. h[Len(t)] = <<>> /\ Len(u) = Len(s) /\ f[Len(s)] \in V
      BY <1>1, <1>3, <2>1 DEF Keeps
    <3> QED
      BY <1>1, <3>1
  <2>2. CASE Len(t) # 0
    BY <1>1, <2>2
  <2> QED
    BY <2>1, <2>2
<1> QED
  BY <1>2, <1>3, <1>7, <1>8 DEF u

(* A set of all elements selects the sequence.                               *)
LEMMA KeepAll ==
    ASSUME NEW A, NEW s \in Seq(A), NEW S, A \subseteq S
    PROVE  Keep(s, S) = s
<1> DEFINE g == [n \in 0..Len(s) |-> SubSeq(s, 1, n)]
<1>1. Len(s) \in Nat
  OBVIOUS
<1>2. g[0] = <<>>
  BY <1>1
<1>3. ASSUME NEW n \in 1..Len(s) PROVE g[n] = IF s[n] \in S THEN Append(g[n-1], s[n]) ELSE g[n-1]
  <2>1. s[n] \in S
    OBVIOUS
  <2>2. SubSeq(s, 1, n) = Append(SubSeq(s, 1, n-1), s[n])
    OBVIOUS
  <2> QED
    BY <1>1, <2>1, <2>2
<1>4. Keep(s, S) = g[Len(s)]
  BY <1>2, <1>3, KeepIs DEF Keeps
<1> QED
  BY <1>1, <1>4

(* What is in the set beside the elements does not matter.                   *)
LEMMA KeepOnly ==
    ASSUME NEW A, NEW s \in Seq(A), NEW S, NEW R, S \intersect A = R \intersect A
    PROVE  Keep(s, S) = Keep(s, R)
<1>1. PICK f \in [0..Len(s) -> Seq(A \intersect S)] : Keeps(f, s, S) /\ Keep(s, S) = f[Len(s)]
  BY KeepDef
<1>2. \A n \in 1..Len(s) : s[n] \in S <=> s[n] \in R
  OBVIOUS
<1>3. Keeps(f, s, R)
  BY <1>1, <1>2 DEF Keeps
<1> QED
  BY <1>1, <1>3, KeepIs

(* Every selected element is an element in the set, and the other way round. *)
LEMMA KeepHolds ==
    ASSUME NEW A, NEW s \in Seq(A), NEW S
    PROVE  \A x : (\E i \in 1..Len(Keep(s, S)) : Keep(s, S)[i] = x)
                     <=> x \in S /\ \E i \in 1..Len(s) : s[i] = x
<1>1. PICK f \in [0..Len(s) -> Seq(A \intersect S)] : Keeps(f, s, S) /\ Keep(s, S) = f[Len(s)]
  BY KeepDef
<1> DEFINE Holds(n) == \A x : (\E i \in 1..Len(f[n]) : f[n][i] = x)
                                <=> x \in S /\ \E i \in 1..n : s[i] = x
           T == {n \in 0..Len(s) : Holds(n)}
<1>2. Len(s) \in Nat
  OBVIOUS
<1>3. 0 \in T
  BY <1>1, <1>2 DEF Keeps
<1>4. ASSUME NEW k \in 0..(Len(s) - 1), k \in T PROVE k + 1 \in T
  <2> DEFINE y == s[k + 1]
             a == f[k]
             b == f[k + 1]
  <2>1. k + 1 \in 1..Len(s) /\ k + 1 \in 0..Len(s) /\ k \in 0..Len(s) /\ (k + 1) - 1 = k
    BY <1>2
  <2>2. b = IF y \in S THEN Append(a, y) ELSE a
    BY <1>1, <2>1 DEF Keeps
  <2>3. a \in Seq(A \intersect S) /\ y \in A
    BY <1>1, <2>1
  <2>4. ASSUME NEW x
        PROVE  (\E i \in 1..Len(b) : b[i] = x)
                  <=> (\E i \in 1..Len(a) : a[i] = x) \/ (y \in S /\ x = y)
    <3> HIDE DEF a, b, y
    <3>1. CASE y \in S
      <4>1. /\ b = Append(a, y) /\ Len(b) = Len(a) + 1 /\ b[Len(a) + 1] = y /\ Len(a) \in Nat
            /\ \A i \in 1..Len(a) : b[i] = a[i]
        BY <2>2, <2>3, <3>1
      <4> QED
        BY <3>1, <4>1
    <3>2. CASE y \notin S
      BY <2>2, <3>2
    <3> QED
      BY <3>1, <3>2
  <2>5. ASSUME NEW x
        PROVE  (\E i \in 1..(k + 1) : s[i] = x) <=> (\E i \in 1..k : s[i] = x) \/ x = y
    BY <2>1
  <2>6. Holds(k)
    BY <1>4
  <2>7. Holds(k + 1)
    <3>1. \A x : (\E i \in 1..Len(a) : a[i] = x) <=> x \in S /\ \E i \in 1..k : s[i] = x
      BY <2>6
    <3> HIDE DEF a, y
    <3> SUFFICES \A x : (\E i \in 1..Len(b) : b[i] = x)
                          <=> x \in S /\ \E i \in 1..(k + 1) : s[i] = x
      BY DEF Holds
    <3> HIDE DEF b
    <3> QED
      BY <2>4, <2>5, <3>1
  <2> HIDE DEF Holds
  <2> QED
    BY <2>1, <2>7
<1>5. 0..Len(s) \subseteq T
  <2> HIDE DEF T
  <2> QED
    BY <1>2, <1>3, <1>4, SetInduction
<1>6. Holds(Len(s))
  <2> HIDE DEF Holds
  <2> QED
    BY <1>2, <1>5
<1> QED
  BY <1>1, <1>6

(* So its range is that of the sequence, cut to the set.                     *)
LEMMA KeepRange ==
    ASSUME NEW A, NEW s \in Seq(A), NEW S
    PROVE  Range(Keep(s, S)) = Range(s) \intersect S
<1>1. Keep(s, S) \in Seq(A \intersect S)
  BY KeepType
<1>2. /\ Range(s) = {s[i] : i \in 1..Len(s)}
      /\ Range(Keep(s, S)) = {Keep(s, S)[i] : i \in 1..Len(Keep(s, S))}
  BY <1>1 DEF Range
<1> QED
  BY <1>2, KeepHolds

=============================================================================
