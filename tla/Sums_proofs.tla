----------------------------- MODULE Sums_proofs -----------------------------
(***************************************************************************)
(* What the folds behind Score and MaxScore compute, for every finite set  *)
(* of suits.  A fold over a function removes a chosen element of the       *)
(* domain at a time; a fact about all the partial sums is shown by looking *)
(* at a smallest set that would be an exception.                           *)
(***************************************************************************)
EXTENDS Sums, FiniteSetTheorems, WellFoundedInduction, TLAPS

-----------------------------------------------------------------------------
(* The recursion *)

\* The element a fold takes first.
Chosen(s) == CHOOSE x \in s : TRUE

\* One unfolding of the fold of f, with g for the smaller sets.
Unfold(f, g, s) == IF s = {} THEN 0 ELSE f[Chosen(s)] + g[s \ {Chosen(s)}]

\* The sums of f over the subsets of its domain, as Sum defines them.
Partial(f) == CHOOSE g : g = [s \in SUBSET DOMAIN f |-> Unfold(f, g, s)]

\* Sum is the partial sum over the whole domain.
LEMMA SumIsPartial ==
  ASSUME NEW f
  PROVE  Sum(f) = Partial(f)[DOMAIN f]
BY DEF Sum, FoldFunction, FoldFunctionOnSet, MapThenFoldSet, Partial, Unfold, Chosen

\* A set that is not empty has a chosen element.
LEMMA ChosenIn ==
  ASSUME NEW s, s # {}
  PROVE  Chosen(s) \in s
BY DEF Chosen

\* A set of naturals that is not empty has a least element.
LEMMA Least ==
  ASSUME NEW T \in SUBSET Nat, T # {}
  PROVE  \E n \in T : \A m \in T : n <= m
<1>1. PICK n \in T : \A m \in T : ~(<<m, n>> \in OpToRel(<, Nat))
  BY NatLessThanWellFounded, WFMin
<1>2. \A m \in T : n <= m
  <2> SUFFICES ASSUME NEW m \in T, m < n PROVE FALSE
    OBVIOUS
  <2>1. <<m, n>> \in OpToRel(<, Nat)
    BY DEF OpToRel
  <2>2. QED
    BY <1>1, <2>1
<1>3. QED
  BY <1>2

\* A finite set without one of its elements is one smaller.
LEMMA OneLess ==
  ASSUME NEW s, IsFiniteSet(s), s # {}
  PROVE  /\ IsFiniteSet(s \ {Chosen(s)})
         /\ Cardinality(s) \in Nat /\ Cardinality(s) > 0
         /\ Cardinality(s \ {Chosen(s)}) = Cardinality(s) - 1
<1>1. Chosen(s) \in s
  BY ChosenIn
<1>2. Cardinality(s) \in Nat
  BY FS_CardinalityType
<1>3. IsFiniteSet(s \ {Chosen(s)}) /\ Cardinality(s \ {Chosen(s)}) = Cardinality(s) - 1
  BY <1>1, FS_RemoveElement
<1>4. Cardinality(s \ {Chosen(s)}) \in Nat
  BY <1>3, FS_CardinalityType
<1>5. QED
  BY <1>2, <1>3, <1>4

\* Induction over the subsets of a finite set, for a set G of them.
LEMMA SubsetInduction ==
  ASSUME NEW S, IsFiniteSet(S), NEW G, {} \in G,
         \A s \in SUBSET S : s # {} /\ s \ {Chosen(s)} \in G => s \in G
  PROVE  \A s \in SUBSET S : s \in G
<1> DEFINE T == {Cardinality(s) : s \in (SUBSET S) \ G}
<1> SUFFICES ASSUME T # {} PROVE FALSE
  OBVIOUS
<1>1. \A s \in SUBSET S : IsFiniteSet(s) /\ Cardinality(s) \in Nat
  BY FS_Subset, FS_CardinalityType
<1>2. PICK n \in T : \A m \in T : n <= m
  <2>1. T \subseteq Nat
    BY <1>1
  <2>2. QED
    BY <2>1, Least
<1>3. PICK s \in (SUBSET S) \ G : n = Cardinality(s)
  BY <1>2
<1>4. s # {}
  OBVIOUS
<1>5. Cardinality(s \ {Chosen(s)}) = n - 1 /\ n \in Nat
  BY <1>1, <1>3, <1>4, OneLess
<1>6. n - 1 \notin T
  BY <1>2, <1>5
<1>7. s \ {Chosen(s)} \in G
  BY <1>5, <1>6
<1>8. QED
  BY <1>3, <1>4, <1>7

\* The recursion that defines the partial sums has a solution.
LEMMA PartialUnfolds ==
  ASSUME NEW f, IsFiniteSet(DOMAIN f)
  PROVE  \A s \in SUBSET DOMAIN f : Partial(f)[s] = Unfold(f, Partial(f), s)
<1> DEFINE S        == DOMAIN f
           Small(n) == {s \in SUBSET S : Cardinality(s) <= n}
           Sol(n)   == \E g : g = [s \in Small(n) |-> Unfold(f, g, s)]
           T        == {n \in Nat : ~Sol(n)}
<1>1. \A s \in SUBSET S : IsFiniteSet(s) /\ Cardinality(s) \in Nat
  BY FS_Subset, FS_CardinalityType
<1>2. ASSUME NEW n \in Nat, NEW s \in Small(n), s # {}
      PROVE  s \ {Chosen(s)} \in Small(n - 1) /\ s \ {Chosen(s)} \in Small(n)
  <2>1. Cardinality(s) <= n /\ s \ {Chosen(s)} \in SUBSET S
    OBVIOUS
  <2>2. Cardinality(s) \in Nat /\ Cardinality(s \ {Chosen(s)}) = Cardinality(s) - 1
    BY <1>1, <1>2, OneLess
  <2>3. QED
    BY <2>1, <2>2
<1>3. T = {}
  <2> SUFFICES ASSUME T # {} PROVE FALSE
    OBVIOUS
  <2>1. PICK n \in T : \A m \in T : n <= m
    BY Least
  <2>2. n \in Nat /\ ~Sol(n)
    OBVIOUS
  <2>3. CASE n = 0
    <3> DEFINE g == [s \in Small(n) |-> 0]
    <3>1. ASSUME NEW s \in Small(n)
          PROVE  Unfold(f, g, s) = 0
      <4>1. IsFiniteSet(s) /\ ~(Cardinality(s) > 0)
        BY <1>1, <2>3
      <4>2. s = {}
        BY <4>1, OneLess
      <4>3. QED
        BY <4>2 DEF Unfold
    <3>2. g = [s \in Small(n) |-> Unfold(f, g, s)]
      BY <3>1
    <3>3. QED
      BY <2>2, <3>2
  <2>4. CASE n # 0
    <3>1. n - 1 \in Nat /\ ~(n - 1 \in T)
      <4>1. n - 1 \in Nat /\ ~(n <= n - 1)
        BY <2>2, <2>4
      <4> HIDE DEF T
      <4>2. QED
        BY <2>1, <4>1
    <3>2. PICK g : g = [s \in Small(n - 1) |-> Unfold(f, g, s)]
      BY <3>1
    <3> DEFINE h == [s \in Small(n) |-> Unfold(f, g, s)]
    <3> HIDE DEF Small
    <3>3. ASSUME NEW s \in Small(n)
          PROVE  Unfold(f, g, s) = Unfold(f, h, s)
      <4>1. CASE s = {}
        BY <4>1 DEF Unfold
      <4>2. CASE s # {}
        <5> DEFINE r == s \ {Chosen(s)}
        <5>1. r \in Small(n - 1) /\ r \in Small(n)
          BY <1>2, <2>2, <4>2
        <5>2. g[r] = Unfold(f, g, r)
          BY <3>2, <5>1
        <5>3. h[r] = Unfold(f, g, r)
          BY <5>1
        <5>4. QED
          BY <4>2, <5>2, <5>3 DEF Unfold
      <4>3. QED
        BY <4>1, <4>2
    <3>4. h = [s \in Small(n) |-> Unfold(f, h, s)]
      BY <3>3
    <3>5. QED
      BY <2>2, <3>4
  <2>5. QED
    BY <2>3, <2>4
<1>4. Cardinality(S) \in Nat /\ Sol(Cardinality(S))
  BY <1>1, <1>3
<1>5. Small(Cardinality(S)) = SUBSET S
  <2>1. \A s \in SUBSET S : Cardinality(s) <= Cardinality(S)
    BY FS_Subset
  <2>2. QED
    BY <2>1
<1>6. \E g : g = [s \in SUBSET S |-> Unfold(f, g, s)]
  BY <1>4, <1>5
<1>7. Partial(f) = [s \in SUBSET S |-> Unfold(f, Partial(f), s)]
  BY <1>6 DEF Partial
<1>8. QED
  BY <1>7

-----------------------------------------------------------------------------
(* Sums of integers *)

\* Pointwise order carries over to sums, and equal sums leave no room for a difference.
LEMMA SumOrder ==
  ASSUME NEW D, IsFiniteSet(D), NEW f \in [D -> Int], NEW g \in [D -> Int],
         \A x \in D : f[x] <= g[x]
  PROVE  /\ Sum(f) \in Int /\ Sum(g) \in Int
         /\ Sum(f) <= Sum(g)
         /\ Sum(f) = Sum(g) => f = g
<1> DEFINE F(s) == Partial(f)[s]
           H(s) == Partial(g)[s]
           Fits(s) == /\ F(s) \in Int /\ H(s) \in Int /\ F(s) <= H(s)
                      /\ F(s) = H(s) => \A x \in s : f[x] = g[x]
           G == {s \in SUBSET D : Fits(s)}
<1>1. DOMAIN f = D /\ DOMAIN g = D
  OBVIOUS
<1>2. \A s \in SUBSET D : /\ F(s) = IF s = {} THEN 0 ELSE f[Chosen(s)] + F(s \ {Chosen(s)})
                          /\ H(s) = IF s = {} THEN 0 ELSE g[Chosen(s)] + H(s \ {Chosen(s)})
  BY <1>1, PartialUnfolds DEF Unfold
<1> HIDE DEF F, H
<1>3. {} \in G
  <2>1. F({}) = 0 /\ H({}) = 0
    BY <1>2
  <2>2. Fits({})
    BY <2>1
  <2>3. QED
    BY <2>2
<1>4. ASSUME NEW s \in SUBSET D, s # {}, s \ {Chosen(s)} \in G
      PROVE  s \in G
  <2> DEFINE c == Chosen(s)
             r == s \ {c}
  <2>1. c \in s /\ c \in D
    BY <1>4, ChosenIn
  <2>2. F(s) = f[c] + F(r) /\ H(s) = g[c] + H(r)
    BY <1>2, <1>4
  <2>3. f[c] \in Int /\ g[c] \in Int /\ f[c] <= g[c]
    BY <2>1
  <2>4. Fits(r)
    BY <1>4
  <2>5. F(s) \in Int /\ H(s) \in Int /\ F(s) <= H(s)
    BY <2>2, <2>3, <2>4
  <2>6. ASSUME F(s) = H(s), NEW x \in s
        PROVE  f[x] = g[x]
    <3>1. F(r) = H(r) /\ f[c] = g[c]
      BY <2>2, <2>3, <2>4, <2>6
    <3>2. QED
      BY <2>4, <3>1
  <2>7. QED
    BY <2>5, <2>6
<1>5. D \in G
  <2> HIDE DEF G
  <2>1. \A s \in SUBSET D : s \in G
    BY <1>3, <1>4, SubsetInduction
  <2>2. QED
    BY <2>1
<1>6. Sum(f) = F(D) /\ Sum(g) = H(D)
  BY <1>1, SumIsPartial DEF F, H
<1>7. (\A x \in D : f[x] = g[x]) => f = g
  OBVIOUS
<1>8. QED
  BY <1>5, <1>6, <1>7

\* The sum of a constant function.
LEMMA SumConstant ==
  ASSUME NEW D, IsFiniteSet(D), NEW n \in Int
  PROVE  Sum([x \in D |-> n]) = Cardinality(D) * n
<1> DEFINE f == [x \in D |-> n]
           F(s) == Partial(f)[s]
           G == {s \in SUBSET D : F(s) = Cardinality(s) * n}
<1>1. DOMAIN f = D
  OBVIOUS
<1>2. \A s \in SUBSET D : F(s) = IF s = {} THEN 0 ELSE f[Chosen(s)] + F(s \ {Chosen(s)})
  BY <1>1, PartialUnfolds DEF Unfold
<1>3. Sum(f) = F(D)
  BY <1>1, SumIsPartial
<1> HIDE DEF F
<1>4. {} \in G
  <2>1. F({}) = 0 /\ Cardinality({}) = 0
    BY <1>2, FS_EmptySet
  <2>2. QED
    BY <2>1
<1>5. ASSUME NEW s \in SUBSET D, s # {}, s \ {Chosen(s)} \in G
      PROVE  s \in G
  <2> DEFINE c == Chosen(s)
             r == s \ {c}
  <2>1. f[c] = n
    BY <1>5, ChosenIn
  <2>2. IsFiniteSet(s)
    BY FS_Subset
  <2>3. Cardinality(s) \in Nat /\ Cardinality(r) = Cardinality(s) - 1
    BY <1>5, <2>2, OneLess
  <2>4. F(r) = Cardinality(r) * n
    BY <1>5
  <2>5. F(s) = n + F(r)
    BY <1>2, <1>5, <2>1
  <2>6. \A k \in Nat : n + (k - 1) * n = k * n
    BY Z3
  <2>7. QED
    BY <2>3, <2>4, <2>5, <2>6
<1>6. D \in G
  <2> HIDE DEF G
  <2>1. \A s \in SUBSET D : s \in G
    BY <1>4, <1>5, SubsetInduction
  <2>2. QED
    BY <2>1
<1>7. QED
  BY <1>3, <1>6

\* The sum of g is one more than that of f.
OneApart(f, g) == Sum(f) \in Int /\ Sum(g) = Sum(f) + 1

\* A function that is one larger at one place has a sum one larger.
LEMMA SumOneMore ==
  ASSUME NEW D, IsFiniteSet(D), NEW f \in [D -> Int], NEW g \in [D -> Int], NEW c \in D,
         g[c] = f[c] + 1, \A x \in D \ {c} : g[x] = f[x]
  PROVE  OneApart(f, g)
<1> DEFINE F(s) == Partial(f)[s]
           H(s) == Partial(g)[s]
           Fits(s) == F(s) \in Int /\ H(s) = F(s) + (IF c \in s THEN 1 ELSE 0)
           G == {s \in SUBSET D : Fits(s)}
<1>1. DOMAIN f = D /\ DOMAIN g = D
  OBVIOUS
<1>2. \A s \in SUBSET D : /\ F(s) = IF s = {} THEN 0 ELSE f[Chosen(s)] + F(s \ {Chosen(s)})
                          /\ H(s) = IF s = {} THEN 0 ELSE g[Chosen(s)] + H(s \ {Chosen(s)})
  BY <1>1, PartialUnfolds DEF Unfold
<1> HIDE DEF F, H
<1>3. {} \in G
  BY <1>2
<1>4. ASSUME NEW s \in SUBSET D, s # {}, s \ {Chosen(s)} \in G
      PROVE  s \in G
  <2> DEFINE k == Chosen(s)
             r == s \ {k}
  <2>1. k \in s /\ k \in D
    BY <1>4, ChosenIn
  <2>2. F(s) = f[k] + F(r) /\ H(s) = g[k] + H(r)
    BY <1>2, <1>4
  <2>3. Fits(r) /\ f[k] \in Int
    BY <1>4, <2>1
  <2>4. CASE k = c
    BY <2>1, <2>2, <2>3, <2>4
  <2>5. CASE k # c
    <3>1. g[k] = f[k] /\ (c \in s <=> c \in r)
      BY <2>1, <2>5
    <3>2. QED
      BY <2>2, <2>3, <3>1
  <2>6. QED
    BY <2>4, <2>5
<1>5. D \in G
  <2> HIDE DEF G
  <2>1. \A s \in SUBSET D : s \in G
    BY <1>3, <1>4, SubsetInduction
  <2>2. QED
    BY <2>1
<1>6. Sum(f) = F(D) /\ Sum(g) = H(D)
  BY <1>1, SumIsPartial DEF F, H
<1>7. QED
  BY <1>5, <1>6 DEF OneApart
=============================================================================
