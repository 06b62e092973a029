---------------------------- MODULE SumTheorems ----------------------------
(***************************************************************************)
(* What SumFunction and FlattenSeq compute.  Both are recursive functions, *)
(* so everything about them goes by induction.                             *)
(***************************************************************************)
EXTENDS Integers, FiniteSets, Functions, SequencesExt, FiniteSetTheorems, SequenceTheorems, TLAPS

-----------------------------------------------------------------------------
(* Induction.  The theorems of the library take a predicate, which the     *)
(* provers cannot be given; this one takes a set.                          *)

LEMMA LeastOfFinite ==
  ASSUME NEW S \in SUBSET Nat, S # {}
  PROVE  \E n \in S : \A m \in S : n <= m
  <1> DEFINE upto(n) == {m \in S : m <= n}
             T == {upto(n) : n \in S}
  <1>1. \A n \in S : IsFiniteSet(upto(n))
    BY FS_BoundedSetOfNaturals
  <1>2. T \subseteq FiniteSubsetsOf(S) /\ T # {}
    BY <1>1 DEF FiniteSubsetsOf
  <1>3. PICK X \in T : \A Y \in T : <<Y, X>> \notin StrictSubsetOrdering(S)
    <2> HIDE DEF T
    <2> QED BY <1>2, FS_StrictSubsetOrderingWellFounded, WFMin
  <1>4. PICK n \in S : X = upto(n)
    OBVIOUS
  <1>5. ASSUME NEW m \in S, m < n PROVE FALSE
    <2>1. m \in Nat /\ n \in Nat /\ \A k \in S : k \in Nat
      OBVIOUS
    <2>2. upto(m) \subseteq upto(n) /\ n \in upto(n) /\ n \notin upto(m)
      <3>1. \A k \in S : k <= m => k <= n
        BY <1>5, <2>1
      <3>2. n <= n /\ ~(n <= m)
        BY <1>5, <2>1
      <3> QED BY <3>1, <3>2
    <2>3. <<upto(m), X>> \in StrictSubsetOrdering(S)
      BY <1>4, <2>2 DEF StrictSubsetOrdering
    <2> QED BY <1>3, <2>3
  <1> QED BY <1>5

LEMMA SetInduction ==
  ASSUME NEW S \in SUBSET Nat, 0 \in S, \A n \in S : n + 1 \in S
  PROVE  S = Nat
  <1> SUFFICES ASSUME Nat \ S # {} PROVE FALSE
    OBVIOUS
  <1>1. PICK n \in Nat \ S : \A m \in Nat \ S : n <= m
    BY LeastOfFinite
  <1>2. n - 1 \in S /\ n = (n - 1) + 1
    BY <1>1
  <1> QED BY <1>1, <1>2

-----------------------------------------------------------------------------
(* Sums                                                                    *)

Some(s) == CHOOSE x \in s : TRUE

\* What the recursive definition of a sum of f asks of a function of the sets D.
Adds(it, f, D) ==
  it = [s \in D |-> IF s = {} THEN 0 ELSE f[Some(s)] + it[s \ {Some(s)}]]

SumsUp(it, f, S) == Adds(it, f, SUBSET S)

LEMMA SumDefined ==
  ASSUME NEW f, NEW S
  PROVE  SumFunctionOnSet(f, S) = (CHOOSE it : SumsUp(it, f, S))[S]
  BY DEF SumFunctionOnSet, FoldFunctionOnSet, MapThenFoldSet, SumsUp, Adds, Some

LEMMA Smaller ==
  ASSUME NEW S, IsFiniteSet(S)
  PROVE  /\ Cardinality(S) \in Nat
         /\ Cardinality(S) = 0 <=> S = {}
         /\ S # {} => Some(S) \in S
         /\ \A x \in S : IsFiniteSet(S \ {x}) /\ Cardinality(S \ {x}) = Cardinality(S) - 1
  BY FS_CardinalityType, FS_EmptySet, FS_RemoveElement DEF Some

LEMMA SumExists ==
  ASSUME NEW f, NEW S, IsFiniteSet(S)
  PROVE  \E it : SumsUp(it, f, S)
  <1> DEFINE upto(n) == {s \in SUBSET S : Cardinality(s) <= n}
             N == {n \in Nat : \E it : Adds(it, f, upto(n))}
  <1>1. \A s \in SUBSET S : IsFiniteSet(s) /\ Cardinality(s) \in Nat
    BY FS_Subset, FS_CardinalityType
  <1>2. 0 \in N
    <2> DEFINE it == [s \in upto(0) |-> 0]
    <2>1. \A s \in upto(0) : s = {}
      <3> SUFFICES ASSUME NEW s \in upto(0) PROVE s = {}
        OBVIOUS
      <3>1. Cardinality(s) = 0 /\ IsFiniteSet(s)
        BY <1>1
      <3> QED BY <3>1, Smaller
    <2>2. Adds(it, f, upto(0))
      BY <2>1 DEF Adds
    <2> QED BY <2>2
  <1>3. ASSUME NEW n \in N PROVE n + 1 \in N
    <2>1. PICK it : Adds(it, f, upto(n))
      OBVIOUS
    <2> DEFINE val(s) == IF s = {} THEN 0 ELSE f[Some(s)] + it[s \ {Some(s)}]
               more == [s \in upto(n + 1) |-> val(s)]
    <2>2. \A s \in upto(n) : it[s] = val(s) /\ s \in upto(n + 1)
      <3>1. \A s \in upto(n) : it[s] = val(s)
        BY <2>1 DEF Adds
      <3>2. \A s \in upto(n) : Cardinality(s) <= n + 1
        BY <1>1
      <3> QED BY <3>1, <3>2
    <2>3. \A s \in upto(n) : more[s] = it[s]
      <3> HIDE DEF val, upto
      <3> QED BY <2>2
    <2>4. \A s \in upto(n + 1) : s # {} => s \ {Some(s)} \in upto(n)
      <3> SUFFICES ASSUME NEW s \in SUBSET S, Cardinality(s) <= n + 1, s # {}
                   PROVE  Cardinality(s \ {Some(s)}) <= n
        OBVIOUS
      <3>1. IsFiniteSet(s)
        BY <1>1
      <3>2. Some(s) \in s /\ Cardinality(s) \in Nat
        BY <3>1, Smaller
      <3>3. Cardinality(s \ {Some(s)}) = Cardinality(s) - 1
        BY <3>1, <3>2, Smaller
      <3> QED BY <3>2, <3>3
    <2>5. \A s \in upto(n + 1) :
            val(s) = IF s = {} THEN 0 ELSE f[Some(s)] + more[s \ {Some(s)}]
      <3> HIDE DEF more, upto
      <3> QED BY <2>3, <2>4
    <2> DEFINE again == [s \in upto(n + 1) |-> IF s = {} THEN 0 ELSE f[Some(s)] + more[s \ {Some(s)}]]
    <2>6. more = again
      <3> HIDE DEF val, upto
      <3> QED BY <2>5
    <2>7. Adds(more, f, upto(n + 1))
      BY <2>6 DEF Adds
    <2>8. \E i : Adds(i, f, upto(n + 1))
      <3> HIDE DEF more, upto
      <3> QED BY <2>7
    <2> HIDE DEF upto
    <2> QED BY <2>8
  <1>4. Cardinality(S) \in N
    <2> HIDE DEF N
    <2>1. N \in SUBSET Nat
      BY DEF N
    <2>2. N = Nat
      BY <1>2, <1>3, <2>1, SetInduction
    <2> QED BY <2>2, FS_CardinalityType
  <1>5. upto(Cardinality(S)) = SUBSET S
    BY FS_Subset
  <1>6. PICK it : Adds(it, f, upto(Cardinality(S)))
    BY <1>4
  <1> HIDE DEF upto
  <1> QED BY <1>5, <1>6 DEF SumsUp

LEMMA SumUnique ==
  ASSUME NEW f, NEW S, IsFiniteSet(S), NEW T \in SUBSET S,
         NEW it, SumsUp(it, f, S), NEW jt, SumsUp(jt, f, T)
  PROVE  it[T] = jt[T]
  <1> DEFINE N == {n \in Nat : \A s \in SUBSET T : Cardinality(s) = n => it[s] = jt[s]}
  <1>1. \A s \in SUBSET T : IsFiniteSet(s) /\ Cardinality(s) \in Nat
    BY FS_Subset, FS_CardinalityType
  <1>2. 0 \in N
    <2> SUFFICES ASSUME NEW s \in SUBSET T, Cardinality(s) = 0 PROVE it[s] = jt[s]
      OBVIOUS
    <2>1. s = {} /\ s \in SUBSET S
      BY <1>1, Smaller
    <2> QED BY <2>1 DEF SumsUp, Adds
  <1>3. ASSUME NEW n \in N PROVE n + 1 \in N
    <2> SUFFICES ASSUME NEW s \in SUBSET T, Cardinality(s) = n + 1 PROVE it[s] = jt[s]
      OBVIOUS
    <2> DEFINE rest == s \ {Some(s)}
    <2>1. s # {} /\ Some(s) \in s
      BY <1>1, Smaller
    <2>2. rest \in SUBSET T /\ Cardinality(rest) = n
      BY <1>1, <2>1, Smaller
    <2>3. it[rest] = jt[rest]
      BY <2>2
    <2>4. it[s] = f[Some(s)] + it[rest]
      <3>1. s \in SUBSET S
        OBVIOUS
      <3> QED BY <2>1, <3>1 DEF SumsUp, Adds
    <2>5. jt[s] = f[Some(s)] + jt[rest]
      BY <2>1 DEF SumsUp, Adds
    <2> QED BY <2>3, <2>4, <2>5
  <1>4. N = Nat
    <2> HIDE DEF N
    <2>1. N \in SUBSET Nat
      BY DEF N
    <2> QED BY <1>2, <1>3, <2>1, SetInduction
  <1> QED BY <1>1, <1>4

LEMMA SumEquation ==
  ASSUME NEW f, NEW S, IsFiniteSet(S)
  PROVE  SumFunctionOnSet(f, S) =
           IF S = {} THEN 0 ELSE f[Some(S)] + SumFunctionOnSet(f, S \ {Some(S)})
  <1>0. PICK R : R = S \ {Some(S)}
    OBVIOUS
  <1>1. IsFiniteSet(R) /\ R \in SUBSET S /\ S \in SUBSET S
    BY <1>0, FS_Subset
  <1>2. PICK it : it = (CHOOSE i : SumsUp(i, f, S))
    OBVIOUS
  <1>3. SumsUp(it, f, S)
    BY <1>2, SumExists
  <1>4. PICK jt : jt = (CHOOSE i : SumsUp(i, f, R))
    OBVIOUS
  <1>5. SumsUp(jt, f, R)
    BY <1>1, <1>4, SumExists
  <1>6. it[R] = jt[R]
    BY <1>1, <1>3, <1>5, SumUnique
  <1>7. it[S] = SumFunctionOnSet(f, S) /\ jt[R] = SumFunctionOnSet(f, R)
    BY <1>2, <1>4, SumDefined
  <1>8. it[S] = IF S = {} THEN 0 ELSE f[Some(S)] + it[R]
    BY <1>0, <1>1, <1>3 DEF SumsUp, Adds
  <1> QED BY <1>0, <1>6, <1>7, <1>8

LEMMA SumEmpty ==
  ASSUME NEW f
  PROVE  SumFunctionOnSet(f, {}) = 0
  BY SumEquation, FS_EmptySet

LEMMA SumNat ==
  ASSUME NEW f, NEW S, IsFiniteSet(S), \A x \in S : f[x] \in Nat
  PROVE  SumFunctionOnSet(f, S) \in Nat
  <1> DEFINE sum(s) == SumFunctionOnSet(f, s)
             N == {n \in Nat : \A s \in SUBSET S : Cardinality(s) = n => sum(s) \in Nat}
  <1>1. \A s \in SUBSET S : IsFiniteSet(s) /\ Cardinality(s) \in Nat
    BY FS_Subset, FS_CardinalityType
  <1>2. \A s \in SUBSET S : sum(s) = IF s = {} THEN 0 ELSE f[Some(s)] + sum(s \ {Some(s)})
    BY <1>1, SumEquation
  <1> HIDE DEF sum
  <1>3. 0 \in N
    BY <1>1, <1>2, Smaller
  <1>4. ASSUME NEW n \in N PROVE n + 1 \in N
    <2> SUFFICES ASSUME NEW s \in SUBSET S, Cardinality(s) = n + 1 PROVE sum(s) \in Nat
      OBVIOUS
    <2>1. PICK r : r = s \ {Some(s)}
      OBVIOUS
    <2>2. s # {} /\ Some(s) \in s
      BY <1>1, Smaller
    <2>3. r \in SUBSET S /\ Cardinality(r) = n
      BY <1>1, <2>1, <2>2, Smaller
    <2>4. sum(r) \in Nat
      BY <2>3
    <2> QED BY <1>2, <2>1, <2>2, <2>4
  <1>5. N = Nat
    <2> HIDE DEF N
    <2>1. N \in SUBSET Nat
      BY DEF N
    <2> QED BY <1>3, <1>4, <2>1, SetInduction
  <1>6. sum(S) \in Nat
    BY <1>1, <1>5
  <1> QED BY <1>6 DEF sum

\* The order in which a sum is taken makes no difference.
LEMMA SumStep ==
  ASSUME NEW f, NEW S, IsFiniteSet(S), \A x \in S : f[x] \in Nat, NEW x \in S
  PROVE  SumFunctionOnSet(f, S) = f[x] + SumFunctionOnSet(f, S \ {x})
  <1> DEFINE sum(s) == SumFunctionOnSet(f, s)
             N == {n \in Nat : \A s \in SUBSET S : Cardinality(s) = n =>
                                 \A y \in s : sum(s) = f[y] + sum(s \ {y})}
  <1>1. \A s \in SUBSET S : IsFiniteSet(s) /\ Cardinality(s) \in Nat
    BY FS_Subset, FS_CardinalityType
  <1>2. \A s \in SUBSET S : sum(s) = IF s = {} THEN 0 ELSE f[Some(s)] + sum(s \ {Some(s)})
    BY <1>1, SumEquation
  <1>3. \A s \in SUBSET S : sum(s) \in Nat
    BY <1>1, SumNat
  <1> HIDE DEF sum
  <1>4. 0 \in N
    BY <1>1, Smaller
  <1>5. ASSUME NEW n \in N PROVE n + 1 \in N
    <2> SUFFICES ASSUME NEW s \in SUBSET S, Cardinality(s) = n + 1, NEW y \in s
                 PROVE  sum(s) = f[y] + sum(s \ {y})
      OBVIOUS
    <2>1. PICK c : c = Some(s)
      OBVIOUS
    <2>2. c \in s /\ s # {}
      BY <1>1, <2>1, Smaller
    <2>3. PICK r, q : r = s \ {c} /\ q = s \ {y}
      OBVIOUS
    <2>4. sum(s) = f[c] + sum(r)
      BY <1>2, <2>1, <2>2, <2>3
    <2>5. CASE y = c
      BY <2>3, <2>4, <2>5
    <2>6. CASE y # c
      <3>1. r \in SUBSET S /\ Cardinality(r) = n /\ q \in SUBSET S /\ Cardinality(q) = n
        BY <1>1, <2>2, <2>3, Smaller
      <3>2. y \in r /\ c \in q /\ r \ {y} = q \ {c} /\ r \ {y} \in SUBSET S
        BY <2>2, <2>3, <2>6
      <3>3. sum(r) = f[y] + sum(r \ {y}) /\ sum(q) = f[c] + sum(r \ {y})
        BY <3>1, <3>2
      <3>4. f[y] \in Nat /\ f[c] \in Nat /\ sum(r \ {y}) \in Nat
        BY <1>3, <2>2, <3>2
      <3> QED BY <2>3, <2>4, <3>3, <3>4
    <2> QED BY <2>5, <2>6
  <1>6. N = Nat
    <2> HIDE DEF N
    <2>1. N \in SUBSET Nat
      BY DEF N
    <2> QED BY <1>4, <1>5, <2>1, SetInduction
  <1>7. sum(S) = f[x] + sum(S \ {x})
    BY <1>1, <1>6
  <1> QED BY <1>7 DEF sum

\* Sums whose terms correspond one to one are equal.
LEMMA SumBijection ==
  ASSUME NEW f, NEW S, IsFiniteSet(S), NEW g, NEW T, IsFiniteSet(T),
         NEW h \in [S -> T],
         \A x, y \in S : h[x] = h[y] => x = y,
         \A z \in T : \E x \in S : h[x] = z,
         \A x \in S : f[x] \in Nat /\ g[h[x]] = f[x]
  PROVE  SumFunctionOnSet(f, S) = SumFunctionOnSet(g, T)
  <1> DEFINE image(s) == {h[x] : x \in s}
             sum(s) == SumFunctionOnSet(f, s)
             gum(t) == SumFunctionOnSet(g, t)
             N == {n \in Nat : \A s \in SUBSET S : Cardinality(s) = n => sum(s) = gum(image(s))}
  <1>1. \A s \in SUBSET S : IsFiniteSet(s) /\ Cardinality(s) \in Nat
    BY FS_Subset, FS_CardinalityType
  <1>2. \A s \in SUBSET S : sum(s) = IF s = {} THEN 0 ELSE f[Some(s)] + sum(s \ {Some(s)})
    BY <1>1, SumEquation
  <1>3. \A t \in SUBSET T : \A z \in t : gum(t) = g[z] + gum(t \ {z})
    <2>1. \A z \in T : g[z] \in Nat
      OBVIOUS
    <2>2. \A t \in SUBSET T : IsFiniteSet(t)
      BY FS_Subset
    <2> SUFFICES ASSUME NEW t \in SUBSET T, NEW z \in t PROVE gum(t) = g[z] + gum(t \ {z})
      OBVIOUS
    <2>3. IsFiniteSet(t) /\ \A y \in t : g[y] \in Nat
      BY <2>1, <2>2
    <2> HIDE DEF gum
    <2> QED BY <2>3, SumStep DEF gum
  <1>4. gum({}) = 0
    BY SumEmpty
  <1> HIDE DEF sum, gum
  <1>5. 0 \in N
    <2> SUFFICES ASSUME NEW s \in SUBSET S, Cardinality(s) = 0 PROVE sum(s) = gum(image(s))
      OBVIOUS
    <2>1. s = {}
      BY <1>1, Smaller
    <2>2. image(s) = {}
      BY <2>1
    <2> QED BY <1>2, <1>4, <2>1, <2>2
  <1>6. ASSUME NEW n \in N PROVE n + 1 \in N
    <2> SUFFICES ASSUME NEW s \in SUBSET S, Cardinality(s) = n + 1 PROVE sum(s) = gum(image(s))
      OBVIOUS
    <2>1. PICK c, r : c = Some(s) /\ r = s \ {c}
      OBVIOUS
    <2>2. s # {} /\ c \in s
      BY <1>1, <2>1, Smaller
    <2>3. r \in SUBSET S /\ Cardinality(r) = n
      <3>1. IsFiniteSet(s)
        BY <1>1
      <3>2. Cardinality(s \ {c}) = Cardinality(s) - 1
        BY <2>2, <3>1, Smaller
      <3> QED BY <2>1, <3>2
    <2>4. sum(r) = gum(image(r))
      BY <2>3
    <2>5. image(s) \in SUBSET T /\ h[c] \in image(s) /\ image(s) \ {h[c]} = image(r)
      BY <2>1, <2>2
    <2>6. gum(image(s)) = g[h[c]] + gum(image(r))
      <3>1. PICK t : t = image(s)
        OBVIOUS
      <3>2. t \in SUBSET T /\ h[c] \in t /\ t \ {h[c]} = image(r)
        BY <2>5, <3>1
      <3> HIDE DEF image
      <3> QED BY <1>3, <3>1, <3>2
    <2>7. sum(s) = f[c] + sum(r)
      BY <1>2, <2>1, <2>2
    <2> QED BY <2>2, <2>4, <2>6, <2>7
  <1>7. N = Nat
    <2> HIDE DEF N
    <2>1. N \in SUBSET Nat
      BY DEF N
    <2> QED BY <1>5, <1>6, <2>1, SetInduction
  <1>8. image(S) = T
    OBVIOUS
  <1>9. sum(S) = gum(T)
    <2>1. Cardinality(S) \in N /\ S \in SUBSET S
      BY <1>7, FS_CardinalityType
    <2> HIDE DEF image
    <2> QED BY <1>8, <2>1
  <1> QED BY <1>9 DEF sum, gum

LEMMA SumSame ==
  ASSUME NEW f, NEW g, NEW S, IsFiniteSet(S), \A x \in S : f[x] \in Nat /\ g[x] = f[x]
  PROVE  SumFunctionOnSet(f, S) = SumFunctionOnSet(g, S)
  <1>1. PICK h : h = [x \in S |-> x]
    OBVIOUS
  <1>2. h \in [S -> S] /\ \A x \in S : h[x] = x
    BY <1>1
  <1> QED BY <1>2, SumBijection

\* What is zero need not be summed up.
LEMMA SumZeros ==
  ASSUME NEW f, NEW S, IsFiniteSet(S), \A x \in S : f[x] \in Nat,
         NEW T \in SUBSET S, \A x \in S \ T : f[x] = 0
  PROVE  SumFunctionOnSet(f, S) = SumFunctionOnSet(f, T)
  <1> DEFINE sum(s) == SumFunctionOnSet(f, s)
             N == {n \in Nat : \A s \in SUBSET S : Cardinality(s) = n => sum(s) = sum(s \cap T)}
  <1>1. \A s \in SUBSET S : IsFiniteSet(s) /\ Cardinality(s) \in Nat
    BY FS_Subset, FS_CardinalityType
  <1>2. ASSUME NEW s \in SUBSET S, NEW x \in s
        PROVE  sum(s) = f[x] + sum(s \ {x}) /\ sum(s \ {x}) \in Nat
    <2>1. PICK t : t = s \ {x}
      OBVIOUS
    <2>2. t \in SUBSET S /\ IsFiniteSet(s) /\ IsFiniteSet(t)
      BY <1>1, <2>1
    <2>3. (\A y \in s : f[y] \in Nat) /\ \A y \in t : f[y] \in Nat
      BY <2>2
    <2>4. sum(s) = f[x] + sum(s \ {x})
      BY <2>2, <2>3, SumStep
    <2>5. sum(t) \in Nat
      BY <2>2, <2>3, SumNat
    <2> QED BY <2>1, <2>4, <2>5
  <1> HIDE DEF sum
  <1>3. 0 \in N
    <2>1. \A s \in SUBSET S : Cardinality(s) = 0 => s = {} /\ s \cap T = {}
      BY <1>1, Smaller
    <2> QED BY <2>1
  <1>4. ASSUME NEW n \in N PROVE n + 1 \in N
    <2> SUFFICES ASSUME NEW s \in SUBSET S, Cardinality(s) = n + 1 PROVE sum(s) = sum(s \cap T)
      OBVIOUS
    <2>1. PICK x \in s : Cardinality(s \ {x}) = n
      <3>1. s # {}
        BY <1>1, Smaller
      <3>2. \A x \in s : Cardinality(s \ {x}) = (n + 1) - 1
        BY <1>1, Smaller
      <3> QED BY <3>1, <3>2
    <2>2. PICK t : t = s \ {x}
      OBVIOUS
    <2>3. t \in SUBSET S /\ sum(t) = sum(t \cap T)
      BY <2>1, <2>2
    <2>4. sum(s) = f[x] + sum(t) /\ sum(t) \in Nat
      BY <1>2, <2>2
    <2>5. CASE x \in T
      <3>1. PICK u : u = s \cap T
        OBVIOUS
      <3>2. u \in SUBSET S /\ x \in u /\ u \ {x} = t \cap T
        BY <2>2, <2>5, <3>1
      <3>3. sum(u) = f[x] + sum(t \cap T)
        BY <1>2, <3>2
      <3> QED BY <2>3, <2>4, <3>1, <3>3
    <2>6. CASE x \notin T
      <3>1. f[x] = 0 /\ s \cap T = t \cap T
        BY <2>2, <2>6
      <3>2. sum(s) = sum(t)
        BY <2>4, <3>1
      <3>3. sum(s \cap T) = sum(t \cap T)
        BY <3>1
      <3> QED BY <2>3, <3>2, <3>3
    <2> QED BY <2>5, <2>6
  <1>5. N = Nat
    <2> HIDE DEF N
    <2>1. N \in SUBSET Nat
      BY DEF N
    <2> QED BY <1>3, <1>4, <2>1, SetInduction
  <1>6. sum(S) = sum(S \cap T)
    <2>1. Cardinality(S) \in N /\ S \in SUBSET S
      BY <1>1, <1>5
    <2> QED BY <2>1
  <1>7. S \cap T = T
    OBVIOUS
  <1> QED BY <1>6, <1>7 DEF sum

-----------------------------------------------------------------------------
(* Sequences of sequences                                                  *)

\* What the recursive definition of FlattenSeq asks of a function of the first
\* n places.
Flattens(fl, m, n) ==
  fl = [i \in 1..n |-> IF i = 1 THEN m[i] ELSE fl[i - 1] \o m[i]]

LEMMA FlattenExists ==
  ASSUME NEW m, NEW n \in Nat
  PROVE  \E fl : Flattens(fl, m, n)
  <1> DEFINE S == {k \in Nat : \E fl : Flattens(fl, m, k)}
  <1>1. 0 \in S
    <2> DEFINE e == [i \in 1..0 |-> m[i]]
    <2>1. e = [i \in 1..0 |-> IF i = 1 THEN m[i] ELSE e[i - 1] \o m[i]]
      OBVIOUS
    <2> QED BY <2>1 DEF Flattens
  <1>2. ASSUME NEW k \in S PROVE k + 1 \in S
    <2>1. PICK fl : Flattens(fl, m, k)
      OBVIOUS
    <2> DEFINE next(i) == IF i = 1 THEN m[i] ELSE fl[i - 1] \o m[i]
               more == [i \in 1..(k + 1) |-> next(i)]
    <2>2. \A i \in 1..k : more[i] = fl[i]
      <3>1. \A i \in 1..k : fl[i] = next(i)
        BY <2>1 DEF Flattens
      <3>2. \A i \in 1..k : i \in 1..(k + 1)
        OBVIOUS
      <3> HIDE DEF next
      <3> QED BY <3>1, <3>2
    <2>3. \A i \in 1..(k + 1) : i # 1 => more[i - 1] = fl[i - 1]
      <3> HIDE DEF more
      <3>1. \A i \in 1..(k + 1) : i # 1 => i - 1 \in 1..k
        OBVIOUS
      <3> QED BY <2>2, <3>1
    <2>4. \A i \in 1..(k + 1) : next(i) = IF i = 1 THEN m[i] ELSE more[i - 1] \o m[i]
      BY <2>3
    <2> DEFINE again == [i \in 1..(k + 1) |-> IF i = 1 THEN m[i] ELSE more[i - 1] \o m[i]]
    <2>5. more = again
      <3> HIDE DEF next
      <3> QED BY <2>4
    <2>6. Flattens(more, m, k + 1)
      BY <2>5 DEF Flattens
    <2> QED BY <2>6
  <1>3. S = Nat
    <2> HIDE DEF S
    <2>1. S \in SUBSET Nat
      BY DEF S
    <2> QED BY <1>1, <1>2, <2>1, SetInduction
  <1> QED BY <1>3

LEMMA FlattenDefined ==
  ASSUME NEW X, NEW n \in Nat, NEW m \in [1..n -> Seq(X)]
  PROVE  \E fl : Flattens(fl, m, n) /\ FlattenSeq(m) = IF n = 0 THEN <<>> ELSE fl[n]
  <1>1. m \in Seq(Seq(X)) /\ Len(m) = n
    BY IsASeq
  <1>2. PICK fl : fl = (CHOOSE f : Flattens(f, m, n))
    OBVIOUS
  <1>3. Flattens(fl, m, n)
    BY <1>2, FlattenExists
  <1>4. n = 0 => FlattenSeq(m) = <<>>
    BY <1>1, EmptySeq DEF FlattenSeq
  <1>5. n # 0 => FlattenSeq(m) = fl[n]
    BY <1>1, <1>2 DEF FlattenSeq, Flattens
  <1> QED BY <1>3, <1>4, <1>5

LEMMA FlattenedSeqs ==
  ASSUME NEW X, NEW n \in Nat, NEW m \in [1..n -> Seq(X)], NEW fl, Flattens(fl, m, n)
  PROVE  \A i \in 1..n : fl[i] \in Seq(X)
  <1> DEFINE S == {k \in Nat : \A i \in 1..n : i <= k => fl[i] \in Seq(X)}
  <1>1. \A i \in 1..n : fl[i] = IF i = 1 THEN m[i] ELSE fl[i - 1] \o m[i]
    BY DEF Flattens
  <1>2. 0 \in S
    OBVIOUS
  <1>3. ASSUME NEW k \in S PROVE k + 1 \in S
    <2> SUFFICES ASSUME NEW i \in 1..n, i <= k + 1 PROVE fl[i] \in Seq(X)
      OBVIOUS
    <2>1. CASE i = 1
      BY <1>1, <2>1
    <2>2. CASE i # 1
      <3>1. i - 1 \in 1..n /\ i - 1 <= k
        BY <2>2
      <3>2. fl[i - 1] \in Seq(X) /\ m[i] \in Seq(X)
        BY <3>1
      <3>3. fl[i] = fl[i - 1] \o m[i]
        BY <1>1, <2>2
      <3> QED BY <3>2, <3>3, ConcatProperties
    <2> QED BY <2>1, <2>2
  <1>4. S = Nat
    <2> HIDE DEF S
    <2>1. S \in SUBSET Nat
      BY DEF S
    <2> QED BY <1>2, <1>3, <2>1, SetInduction
  <1>5. n \in S
    BY <1>4
  <1> QED BY <1>5

LEMMA FlattenType ==
  ASSUME NEW X, NEW n \in Nat, NEW m \in [1..n -> Seq(X)]
  PROVE  FlattenSeq(m) \in Seq(X)
  <1>1. PICK fl : Flattens(fl, m, n) /\ FlattenSeq(m) = IF n = 0 THEN <<>> ELSE fl[n]
    BY FlattenDefined
  <1>2. \A i \in 1..n : fl[i] \in Seq(X)
    BY <1>1, FlattenedSeqs
  <1>3. <<>> \in Seq(X)
    BY EmptySeq
  <1> QED BY <1>1, <1>2, <1>3

LEMMA FlattenStep ==
  ASSUME NEW X, NEW n \in Nat, NEW m \in [1..(n + 1) -> Seq(X)]
  PROVE  FlattenSeq(m) = FlattenSeq([i \in 1..n |-> m[i]]) \o m[n + 1]
  <1>1. PICK k : k = [i \in 1..n |-> m[i]]
    OBVIOUS
  <1>2. k \in [1..n -> Seq(X)] /\ \A i \in 1..n : k[i] = m[i]
    BY <1>1
  <1>3. PICK fl : Flattens(fl, m, n + 1) /\ FlattenSeq(m) = fl[n + 1]
    BY FlattenDefined
  <1>4. PICK gl : Flattens(gl, k, n) /\ FlattenSeq(k) = IF n = 0 THEN <<>> ELSE gl[n]
    BY <1>2, FlattenDefined
  <1>5. \A i \in 1..(n + 1) : fl[i] = IF i = 1 THEN m[i] ELSE fl[i - 1] \o m[i]
    BY <1>3 DEF Flattens
  <1>6. \A i \in 1..n : gl[i] = IF i = 1 THEN k[i] ELSE gl[i - 1] \o k[i]
    BY <1>4 DEF Flattens
  <1>7. \A i \in 1..n : fl[i] = gl[i]
    <2> DEFINE S == {j \in Nat : \A i \in 1..n : i <= j => fl[i] = gl[i]}
    <2>1. 0 \in S
      OBVIOUS
    <2>2. ASSUME NEW j \in S PROVE j + 1 \in S
      <3> SUFFICES ASSUME NEW i \in 1..n, i <= j + 1 PROVE fl[i] = gl[i]
        OBVIOUS
      <3>1. i \in 1..(n + 1) /\ k[i] = m[i]
        BY <1>2
      <3>2. CASE i = 1
        BY <1>5, <1>6, <3>1, <3>2
      <3>3. CASE i # 1
        <4>1. i - 1 \in 1..n /\ i - 1 <= j
          BY <3>3
        <4>2. fl[i - 1] = gl[i - 1]
          BY <4>1
        <4>3. fl[i] = fl[i - 1] \o m[i]
          BY <1>5, <3>1, <3>3
        <4>4. gl[i] = gl[i - 1] \o k[i]
          BY <1>6, <3>3
        <4> QED BY <3>1, <4>2, <4>3, <4>4
      <3> QED BY <3>2, <3>3
    <2>3. S = Nat
      <3> HIDE DEF S
      <3>1. S \in SUBSET Nat
        BY DEF S
      <3> QED BY <2>1, <2>2, <3>1, SetInduction
    <2>4. n \in S
      BY <2>3
    <2> QED BY <2>4
  <1>8. CASE n = 0
    <2>1. fl[n + 1] = m[1] /\ m[1] \in Seq(X)
      BY <1>5, <1>8
    <2>2. FlattenSeq(k) = <<>>
      BY <1>4, <1>8
    <2> QED BY <1>1, <1>3, <1>8, <2>1, <2>2, ConcatEmptySeq
  <1>9. CASE n # 0
    <2>1. fl[n + 1] = fl[n] \o m[n + 1]
      <3>1. n + 1 \in 1..(n + 1) /\ n + 1 # 1 /\ (n + 1) - 1 = n
        BY <1>9
      <3>2. fl[n + 1] = fl[(n + 1) - 1] \o m[n + 1]
        BY <1>5, <3>1
      <3> QED BY <3>1, <3>2
    <2>2. fl[n] = FlattenSeq(k)
      BY <1>4, <1>7, <1>9
    <2> QED BY <1>1, <1>3, <2>1, <2>2
  <1> QED BY <1>8, <1>9

-----------------------------------------------------------------------------
(* Prefixes                                                                *)

LEMMA SumPrefix ==
  ASSUME NEW n \in Nat, NEW f, \A i \in 1..n : f[i] \in Nat
  PROVE  /\ SumFunctionOnSet(f, 1..0) = 0
         /\ \A k \in 1..n : SumFunctionOnSet(f, 1..k) = SumFunctionOnSet(f, 1..(k - 1)) + f[k]
         /\ \A k \in 0..n : SumFunctionOnSet(f, 1..k) \in Nat
  <1>1. 1..0 = {}
    OBVIOUS
  <1>2. ASSUME NEW k \in 0..n PROVE IsFiniteSet(1..k) /\ \A i \in 1..k : f[i] \in Nat
    BY FS_Interval
  <1>3. ASSUME NEW k \in 0..n PROVE SumFunctionOnSet(f, 1..k) \in Nat
    BY <1>2, SumNat
  <1>4. ASSUME NEW k \in 1..n
        PROVE  SumFunctionOnSet(f, 1..k) = SumFunctionOnSet(f, 1..(k - 1)) + f[k]
    <2>1. k \in 0..n /\ k - 1 \in 0..n /\ k \in 1..k
      OBVIOUS
    <2>2. (1..k) \ {k} = 1..(k - 1)
      OBVIOUS
    <2>3. SumFunctionOnSet(f, 1..k) = f[k] + SumFunctionOnSet(f, (1..k) \ {k})
      <3>1. PICK D : D = 1..k
        OBVIOUS
      <3>2. IsFiniteSet(D) /\ (\A i \in D : f[i] \in Nat) /\ k \in D
        BY <1>2, <2>1, <3>1
      <3>3. SumFunctionOnSet(f, D) = f[k] + SumFunctionOnSet(f, D \ {k})
        BY <3>2, SumStep
      <3> QED BY <3>1, <3>3
    <2>4. f[k] \in Nat /\ SumFunctionOnSet(f, 1..(k - 1)) \in Nat
      BY <1>3, <2>1
    <2>5. SumFunctionOnSet(f, 1..k) = f[k] + SumFunctionOnSet(f, 1..(k - 1))
      BY <2>2, <2>3, Zenon
    <2>6. \A a, b \in Nat : a + b = b + a
      OBVIOUS
    <2> QED BY <2>4, <2>5, <2>6
  <1> QED BY <1>1, <1>3, <1>4, SumEmpty

LEMMA FlattenPrefix ==
  ASSUME NEW X, NEW n \in Nat, NEW m \in [1..n -> Seq(X)]
  PROVE  /\ FlattenSeq([i \in 1..0 |-> m[i]]) = <<>>
         /\ \A k \in 1..n :
              FlattenSeq([i \in 1..k |-> m[i]]) =
                FlattenSeq([i \in 1..(k - 1) |-> m[i]]) \o m[k]
         /\ \A k \in 0..n : FlattenSeq([i \in 1..k |-> m[i]]) \in Seq(X)
  <1>1. ASSUME NEW k \in 0..n PROVE FlattenSeq([i \in 1..k |-> m[i]]) \in Seq(X)
    <2>1. PICK p : p = [i \in 1..k |-> m[i]]
      OBVIOUS
    <2>2. p \in [1..k -> Seq(X)] /\ k \in Nat
      BY <2>1
    <2> QED BY <2>1, <2>2, FlattenType
  <1>2. ASSUME NEW k \in 1..n
        PROVE  FlattenSeq([i \in 1..k |-> m[i]]) =
                 FlattenSeq([i \in 1..(k - 1) |-> m[i]]) \o m[k]
    <2>1. PICK p, j : p = [i \in 1..k |-> m[i]] /\ j = k - 1
      OBVIOUS
    <2>2. j \in Nat /\ k = j + 1 /\ p \in [1..(j + 1) -> Seq(X)] /\ p[k] = m[k]
      BY <2>1
    <2>3. [i \in 1..j |-> p[i]] = [i \in 1..j |-> m[i]]
      BY <2>1, <2>2
    <2>4. FlattenSeq(p) = FlattenSeq([i \in 1..j |-> p[i]]) \o p[j + 1]
      BY <2>2, FlattenStep
    <2>5. FlattenSeq(p) = FlattenSeq([i \in 1..j |-> m[i]]) \o m[k]
      BY <2>2, <2>3, <2>4
    <2> QED BY <2>1, <2>5
  <1>3. FlattenSeq([i \in 1..0 |-> m[i]]) = <<>>
    <2>1. PICK p : p = [i \in 1..0 |-> m[i]]
      OBVIOUS
    <2>2. p \in [1..0 -> Seq(X)]
      BY <2>1
    <2>3. \E fl : FlattenSeq(p) = <<>>
      BY <2>2, FlattenDefined
    <2> QED BY <2>1, <2>3
  <1> QED BY <1>1, <1>2, <1>3
=============================================================================
