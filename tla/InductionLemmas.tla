--------------------------- MODULE InductionLemmas ---------------------------
(***************************************************************************)
(* Induction in the form the proofs of the other modules use it: over sets *)
(* in place of predicates.  Everything rests on the well-foundedness of    *)
(* strict inclusion on finite sets.  A sum over a finite set, which the    *)
(* models compute by a fold, is the number of its units.                   *)
(***************************************************************************)
EXTENDS Integers, FiniteSets, FiniteSetTheorems, WellFoundedInduction, TLAPS

(* Every nonempty set of natural numbers has a least element. *)
LEMMA LeastNatural ==
  ASSUME NEW S \in SUBSET Nat, S # {}
  PROVE  \E m \in S : \A k \in S : m <= k
<1> DEFINE Below(k) == 0 .. k - 1
           T == {Below(k) : k \in S}
<1>1. T \subseteq FiniteSubsetsOf(Nat)
  <2> SUFFICES ASSUME NEW k \in S PROVE Below(k) \in FiniteSubsetsOf(Nat)
    OBVIOUS
  <2>1. IsFiniteSet(Below(k))
    BY FS_Interval
  <2> QED
    BY <2>1 DEF FiniteSubsetsOf
<1>2. IsWellFoundedOn(StrictSubsetOrdering(Nat), FiniteSubsetsOf(Nat))
  BY FS_StrictSubsetOrderingWellFounded
<1>3. T # {}
  OBVIOUS
<1>4. PICK x \in T : \A y \in T : <<y, x>> \notin StrictSubsetOrdering(Nat)
  <2> HIDE DEF T
  <2> QED
    BY <1>1, <1>2, <1>3, WFMin
<1>5. PICK m \in S : x = Below(m)
  BY <1>4
<1>6. ASSUME NEW k \in S PROVE m <= k
  <2> SUFFICES ASSUME k < m PROVE FALSE
    OBVIOUS
  <2>1. Below(k) \in T
    OBVIOUS
  <2>2. /\ Below(k) \in SUBSET Nat /\ Below(m) \in SUBSET Nat
        /\ Below(k) \subseteq Below(m)
        /\ k \in Below(m) /\ k \notin Below(k)
    OBVIOUS
  <2>3. <<Below(k), Below(m)>> \in StrictSubsetOrdering(Nat)
    <3> HIDE DEF Below
    <3> QED
      BY <2>2 DEF StrictSubsetOrdering
  <2> QED
    BY <1>4, <1>5, <2>1, <2>3
<1> QED
  BY <1>6

(* A nonempty set of natural numbers with a bound has a greatest element. *)
LEMMA GreatestNatural ==
  ASSUME NEW S \in SUBSET Nat, S # {}, NEW bound \in Nat, \A k \in S : k <= bound
  PROVE  \E m \in S : \A k \in S : k <= m
<1> DEFINE T == {k \in Nat : \A j \in S : j <= k}
<1>1. T \in SUBSET Nat /\ bound \in T
  OBVIOUS
<1>2. PICK m \in T : \A k \in T : m <= k
  <2> HIDE DEF T
  <2> QED
    BY <1>1, LeastNatural
<1>3. m \in S
  <2> SUFFICES ASSUME m \notin S PROVE FALSE
    OBVIOUS
  <2>1. PICK j \in S : TRUE
    OBVIOUS
  <2>2. \A k \in S : k < m
    BY <1>2
  <2>3. m \in Nat /\ m - 1 \in Nat
    BY <2>1, <2>2
  <2>4. m - 1 \in T
    BY <2>2, <2>3
  <2> QED
    BY <1>2, <2>3, <2>4
<1> QED
  BY <1>2, <1>3

(* Induction over the natural numbers. *)
LEMMA NaturalInduction ==
  ASSUME NEW S \in SUBSET Nat, 0 \in S, \A n \in S : n + 1 \in S
  PROVE  S = Nat
<1> SUFFICES ASSUME Nat \ S # {} PROVE FALSE
  OBVIOUS
<1>1. PICK m \in Nat \ S : \A k \in Nat \ S : m <= k
  <2> DEFINE C == Nat \ S
  <2>1. C \in SUBSET Nat /\ C # {}
    OBVIOUS
  <2> HIDE DEF C
  <2>2. \E m \in C : \A k \in C : m <= k
    BY <2>1, LeastNatural
  <2> QED
    BY <2>2 DEF C
<1>2. m - 1 \in S
  BY <1>1
<1> QED
  BY <1>1, <1>2

(* Induction over the subsets of a finite set. *)
LEMMA SubsetInduction ==
  ASSUME NEW S, IsFiniteSet(S), NEW P \in SUBSET (SUBSET S),
         {} \in P,
         \A T \in SUBSET S : T # {} /\ (\A U \in SUBSET T : U # T => U \in P) => T \in P
  PROVE  P = SUBSET S
<1> DEFINE C == (SUBSET S) \ P
<1> SUFFICES ASSUME C # {} PROVE FALSE
  OBVIOUS
<1>1. C \subseteq FiniteSubsetsOf(S)
  BY FS_FiniteSubsetsOfFinite
<1>2. IsWellFoundedOn(StrictSubsetOrdering(S), FiniteSubsetsOf(S))
  BY FS_StrictSubsetOrderingWellFounded
<1>3. PICK T \in C : \A U \in C : <<U, T>> \notin StrictSubsetOrdering(S)
  <2> HIDE DEF C
  <2> QED
    BY <1>1, <1>2, WFMin
<1>4. ASSUME NEW U \in SUBSET T, U # T PROVE U \in P
  BY <1>3, <1>4 DEF StrictSubsetOrdering
<1> QED
  BY <1>3, <1>4

(* A one-to-one correspondence keeps the cardinality. *)
LEMMA SameSize ==
  ASSUME NEW S, NEW T, IsFiniteSet(S), NEW f \in [S -> T],
         \A x, y \in S : f[x] = f[y] => x = y,
         \A t \in T : \E x \in S : f[x] = t
  PROVE  IsFiniteSet(T) /\ Cardinality(T) = Cardinality(S)
<1>1. f \in Bijection(S, T)
  BY DEF Bijection, Injection, Surjection, IsInjective
<1>2. ExistsBijection(S, T)
  BY <1>1 DEF ExistsBijection
<1> QED
  BY <1>2, FS_Bijection

-----------------------------------------------------------------------------
(* The units that the elements of s are worth under v, and how many they are. *)
Units(v, s) == {p \in s \X Nat : p[2] < v[p[1]]}

Total(v, s) == Cardinality(Units(v, s))

(* The fold the community modules compute a sum with. *)
IsSum(f, v, S) ==
  f = [s \in SUBSET S |-> IF s = {} THEN 0
                          ELSE LET x == CHOOSE x \in s : TRUE
                               IN  v[x] + f[s \ {x}]]

LEMMA TotalEmpty ==
  ASSUME NEW v
  PROVE  Units(v, {}) = {} /\ Total(v, {}) = 0
<1>1. Units(v, {}) = {}
  BY DEF Units
<1> QED
  BY <1>1, FS_EmptySet DEF Total

(* An element taken out of a set takes its own units with it. *)
LEMMA UnitsRemove ==
  ASSUME NEW s, NEW x \in s, NEW v, v[x] \in Nat, IsFiniteSet(Units(v, s \ {x}))
  PROVE  /\ IsFiniteSet(Units(v, s))
         /\ Total(v, s) = v[x] + Total(v, s \ {x})
         /\ Total(v, s \ {x}) \in Nat
<1> DEFINE A == Units(v, s \ {x})
           I == 0 .. v[x] - 1
           B == {x} \X I
<1>1. IsFiniteSet(I) /\ Cardinality(I) = v[x]
  BY FS_Interval, SMTT(30)
<1>2. IsFiniteSet({x}) /\ Cardinality({x}) = 1
  BY FS_Singleton
<1>3. IsFiniteSet(B) /\ Cardinality(B) = v[x]
  <2> HIDE DEF I
  <2>1. IsFiniteSet(B) /\ Cardinality(B) = 1 * Cardinality(I)
    BY <1>1, <1>2, FS_Product
  <2> QED
    BY <1>1, <2>1
<1>4. Units(v, s) = A \cup B
  <2>1. ASSUME NEW p \in Units(v, s) PROVE p \in A \cup B
    <3>1. PICK y \in s, k \in Nat : p = <<y, k>> /\ k < v[y]
      BY DEF Units
    <3>2. CASE y = x
      BY <3>1, <3>2
    <3>3. CASE y # x
      BY <3>1, <3>3 DEF Units
    <3> QED
      BY <3>2, <3>3
  <2>2. ASSUME NEW p \in A PROVE p \in Units(v, s)
    BY DEF Units
  <2>3. ASSUME NEW p \in B PROVE p \in Units(v, s)
    <3>1. PICK k \in I : p = <<x, k>>
      OBVIOUS
    <3>2. k \in Nat /\ k < v[x]
      OBVIOUS
    <3> QED
      BY <3>1, <3>2 DEF Units
  <2> QED
    BY <2>1, <2>2, <2>3
<1>5. A \cap B = {}
  BY DEF Units
<1>6. IsFiniteSet(A) /\ Cardinality(A) \in Nat
  BY FS_CardinalityType
<1> HIDE DEF A, B
<1>7. /\ IsFiniteSet(A \cup B)
      /\ Cardinality(A \cup B) = Cardinality(A) + Cardinality(B) - Cardinality(A \cap B)
  BY <1>3, <1>6, FS_Union
<1>8. Cardinality(A \cap B) = 0
  BY <1>5, FS_EmptySet
<1>9. Cardinality(A \cup B) = v[x] + Cardinality(A)
  BY <1>3, <1>6, <1>7, <1>8
<1> QED
  BY <1>4, <1>6, <1>7, <1>9 DEF Total, A

LEMMA UnitsFinite ==
  ASSUME NEW S, IsFiniteSet(S), NEW v, \A x \in S : v[x] \in Nat
  PROVE  \A s \in SUBSET S : IsFiniteSet(Units(v, s))
<1> DEFINE P == {s \in SUBSET S : IsFiniteSet(Units(v, s))}
<1>1. {} \in P
  BY TotalEmpty, FS_EmptySet
<1>2. ASSUME NEW T \in SUBSET S, T # {}, \A U \in SUBSET T : U # T => U \in P
      PROVE  T \in P
  <2>1. PICK x \in T : TRUE
    BY <1>2
  <2>2. IsFiniteSet(Units(v, T \ {x}))
    BY <1>2
  <2>3. v[x] \in Nat
    OBVIOUS
  <2>4. IsFiniteSet(Units(v, T))
    BY <2>2, <2>3, UnitsRemove
  <2> QED
    BY <2>4
<1>3. P \in SUBSET (SUBSET S)
  OBVIOUS
<1>4. P = SUBSET S
  <2> HIDE DEF P
  <2> QED
    BY <1>1, <1>2, <1>3, SubsetInduction
<1> QED
  BY <1>4

(* The laws of a sum: it is a natural number, and one element adds its value. *)
LEMMA TotalRemove ==
  ASSUME NEW S, IsFiniteSet(S), NEW v, \A x \in S : v[x] \in Nat, NEW x \in S
  PROVE  /\ Total(v, S) \in Nat /\ Total(v, S \ {x}) \in Nat
         /\ Total(v, S) = v[x] + Total(v, S \ {x})
<1>1. S \in SUBSET S /\ S \ {x} \in SUBSET S
  OBVIOUS
<1>2. IsFiniteSet(Units(v, S \ {x})) /\ v[x] \in Nat
  BY <1>1, UnitsFinite
<1>3. Total(v, S) = v[x] + Total(v, S \ {x}) /\ Total(v, S \ {x}) \in Nat
  BY <1>2, UnitsRemove
<1> QED
  BY <1>2, <1>3

(* Only the values of the elements matter. *)
LEMMA TotalSame ==
  ASSUME NEW S, NEW v, NEW w, \A x \in S : v[x] = w[x]
  PROVE  Total(v, S) = Total(w, S)
<1>1. Units(v, S) = Units(w, S)
  BY DEF Units
<1> QED
  BY <1>1 DEF Total

(* The fold is well defined, and counts the units. *)
LEMMA SumIsTotal ==
  ASSUME NEW S, IsFiniteSet(S), NEW v, \A x \in S : v[x] \in Nat
  PROVE  /\ IsSum([s \in SUBSET S |-> Total(v, s)], v, S)
         /\ \A f : IsSum(f, v, S) => f[S] = Total(v, S)
<1> DEFINE g == [s \in SUBSET S |-> Total(v, s)]
<1>0. ASSUME NEW s \in SUBSET S, NEW x \in s
      PROVE  Total(v, s) = v[x] + Total(v, s \ {x})
  <2>1. IsFiniteSet(s)
    BY FS_Subset
  <2> QED
    BY <2>1, TotalRemove
<1>1. ASSUME NEW s \in SUBSET S
      PROVE  g[s] = IF s = {} THEN 0
                    ELSE LET x == CHOOSE x \in s : TRUE IN v[x] + g[s \ {x}]
  <2>1. CASE s = {}
    BY <2>1, TotalEmpty
  <2>2. CASE s # {}
    <3> DEFINE x == CHOOSE x \in s : TRUE
    <3>1. x \in s
      BY <2>2
    <3>2. s \ {x} \in SUBSET S
      OBVIOUS
    <3>3. Total(v, s) = v[x] + Total(v, s \ {x})
      <4> HIDE DEF x
      <4> QED
        BY <3>1, <1>0
    <3> QED
      BY <2>2, <3>2, <3>3
  <2> QED
    BY <2>1, <2>2
<1>2. IsSum(g, v, S)
  <2> DEFINE h == [s \in SUBSET S |-> IF s = {} THEN 0
                     ELSE LET x == CHOOSE x \in s : TRUE IN v[x] + g[s \ {x}]]
  <2>1. \A s \in SUBSET S : g[s] = h[s]
    BY <1>1
  <2>2. g = [s \in SUBSET S |-> g[s]] /\ h = [s \in SUBSET S |-> h[s]]
    OBVIOUS
  <2>3. g = h
    <3> HIDE DEF g, h
    <3> QED
      BY <2>1, <2>2
  <2> QED
    BY <2>3 DEF IsSum
<1>3. ASSUME NEW f, IsSum(f, v, S) PROVE f[S] = Total(v, S)
  <2> DEFINE P == {s \in SUBSET S : f[s] = Total(v, s)}
  <2>0. \A s \in SUBSET S : f[s] = IF s = {} THEN 0
                              ELSE LET x == CHOOSE x \in s : TRUE IN v[x] + f[s \ {x}]
    BY <1>3 DEF IsSum
  <2>1. {} \in P
    BY <2>0, TotalEmpty
  <2>2. ASSUME NEW T \in SUBSET S, T # {}, \A U \in SUBSET T : U # T => U \in P
        PROVE  T \in P
    <3> DEFINE x == CHOOSE x \in T : TRUE
    <3>1. x \in T
      BY <2>2
    <3>2. f[T] = v[x] + f[T \ {x}]
      BY <2>0, <2>2
    <3>3. f[T \ {x}] = Total(v, T \ {x})
      BY <2>2, <3>1
    <3>4. Total(v, T) = v[x] + Total(v, T \ {x})
      <4> HIDE DEF x
      <4> QED
        BY <3>1, <1>0
    <3> QED
      BY <3>2, <3>3, <3>4
  <2>3. P \in SUBSET (SUBSET S)
    OBVIOUS
  <2>4. P = SUBSET S
    <3> HIDE DEF P
    <3> QED
      BY <2>1, <2>2, <2>3, SubsetInduction
  <2> QED
    BY <2>4
<1> QED
  BY <1>2, <1>3

(* A sum is at most the number of elements times a bound on their values. *)
LEMMA TotalBound ==
  ASSUME NEW S, IsFiniteSet(S), NEW v, NEW r \in Nat, \A x \in S : v[x] \in Nat /\ v[x] <= r
  PROVE  Total(v, S) <= Cardinality(S) * r
<1> DEFINE I == 0 .. r - 1
           B == S \X I
<1>1. IsFiniteSet(I) /\ Cardinality(I) = r
  BY FS_Interval
<1> HIDE DEF I
<1>2. IsFiniteSet(B) /\ Cardinality(B) = Cardinality(S) * r
  BY <1>1, FS_Product
<1>3. Units(v, S) \in SUBSET B
  <2> SUFFICES ASSUME NEW p \in Units(v, S) PROVE p \in B
    OBVIOUS
  <2>1. PICK y \in S, k \in Nat : p = <<y, k>> /\ k < v[y]
    BY DEF Units
  <2>2. k \in I
    BY <2>1 DEF I
  <2> QED
    BY <2>1, <2>2
<1> HIDE DEF B
<1> QED
  BY <1>2, <1>3, FS_Subset DEF Total

(* Two sets without a common element. *)
LEMMA TotalUnion ==
  ASSUME NEW A, NEW B, IsFiniteSet(A), IsFiniteSet(B), A \cap B = {},
         NEW v, \A x \in A \cup B : v[x] \in Nat
  PROVE  /\ Total(v, A) \in Nat /\ Total(v, B) \in Nat
         /\ Total(v, A \cup B) = Total(v, A) + Total(v, B)
<1> DEFINE U == Units(v, A)
           W == Units(v, B)
<1>1. IsFiniteSet(U) /\ IsFiniteSet(W)
  <2>1. (\A x \in A : v[x] \in Nat) /\ (\A x \in B : v[x] \in Nat)
        /\ A \in SUBSET A /\ B \in SUBSET B
    OBVIOUS
  <2> QED
    BY <2>1, UnitsFinite
<1>2. Cardinality(U) \in Nat /\ Cardinality(W) \in Nat
  BY <1>1, FS_CardinalityType
<1>3. U \cap W = {}
  BY DEF Units
<1>4. Units(v, A \cup B) = U \cup W
  BY DEF Units
<1> HIDE DEF U, W
<1>5. Cardinality(U \cup W) = Cardinality(U) + Cardinality(W) - Cardinality(U \cap W)
  BY <1>1, FS_Union
<1>6. Cardinality(U \cap W) = 0
  BY <1>3, FS_EmptySet
<1>7. Cardinality(U \cup W) = Cardinality(U) + Cardinality(W)
  BY <1>2, <1>5, <1>6
<1> QED
  BY <1>2, <1>4, <1>7 DEF Total, U, W

(* What a one-to-one renaming of the elements keeps. *)
LEMMA TotalRenamed ==
  ASSUME NEW S, NEW T, IsFiniteSet(S), NEW f \in [S -> T],
         \A x, y \in S : f[x] = f[y] => x = y,
         \A t \in T : \E x \in S : f[x] = t,
         NEW v, NEW w, \A x \in S : v[x] \in Nat /\ w[f[x]] = v[x]
  PROVE  Total(w, T) = Total(v, S)
<1> DEFINE g == [p \in Units(v, S) |-> <<f[p[1]], p[2]>>]
<1>1. IsFiniteSet(Units(v, S))
  <2>1. S \in SUBSET S
    OBVIOUS
  <2> QED
    BY <2>1, UnitsFinite
<1>2. g \in [Units(v, S) -> Units(w, T)]
  BY DEF Units
<1>3. \A x, y \in Units(v, S) : g[x] = g[y] => x = y
  <2> SUFFICES ASSUME NEW x \in Units(v, S), NEW y \in Units(v, S), g[x] = g[y] PROVE x = y
    OBVIOUS
  <2>1. PICK a \in S, k \in Nat : x = <<a, k>>
    BY DEF Units
  <2>2. PICK b \in S, l \in Nat : y = <<b, l>>
    BY DEF Units
  <2>3. g[x] = <<f[a], k>> /\ g[y] = <<f[b], l>>
    BY <2>1, <2>2
  <2> QED
    BY <2>1, <2>2, <2>3
<1>4. \A t \in Units(w, T) : \E x \in Units(v, S) : g[x] = t
  <2> SUFFICES ASSUME NEW t \in Units(w, T) PROVE \E x \in Units(v, S) : g[x] = t
    OBVIOUS
  <2>1. PICK c \in T, k \in Nat : t = <<c, k>> /\ k < w[c]
    BY DEF Units
  <2>2. PICK a \in S : f[a] = c
    OBVIOUS
  <2>3. <<a, k>> \in Units(v, S) /\ <<a, k>>[1] = a /\ <<a, k>>[2] = k
    BY <2>1, <2>2 DEF Units
  <2>4. g[<<a, k>>] = <<f[a], k>>
    BY <2>3
  <2> QED
    BY <2>1, <2>2, <2>3, <2>4
<1> HIDE DEF g
<1> QED
  BY <1>1, <1>2, <1>3, <1>4, SameSize DEF Total
==============================================================================
