----------------------------- MODULE Sums_proofs -----------------------------
(***************************************************************************)
(* Sums over finite sets: SumFunctionOnSet(f, S) of the community modules,  *)
(* by which the components add up quantities, and set and number induction  *)
(* in the form the proofs use it, with a set in the place of the predicate; *)
(* and the rounding of Decimals.                                            *)
(***************************************************************************)
EXTENDS Decimals, FiniteSetTheorems, TLAPS

-----------------------------------------------------------------------------
(* Induction *)

\* A set of natural numbers that is not empty has a least member.
LEMMA LeastNatural ==
  ASSUME NEW T, T \subseteq Nat, T # {}
  PROVE  \E n \in T : \A m \in T : n <= m
<1>0. PICK R : R = OpToRel(<, Nat)
  OBVIOUS
<1>1. IsWellFoundedOn(R, Nat)
  BY <1>0, NatLessThanWellFounded
<1>2. \A i, j \in Nat : i < j => <<i, j>> \in R
  BY <1>0 DEF OpToRel
<1>3. PICK n \in T : \A m \in T : ~(<<m, n>> \in R)
  BY <1>1, WFMin
<1>4. \A m \in T : m \in Nat /\ n \in Nat /\ ~(m < n)
  BY <1>2, <1>3
<1>5. QED
  BY <1>4

\* Induction over the natural numbers.
LEMMA NumberInduction ==
  ASSUME NEW P, 0 \in P, \A n \in Nat : n \in P => n + 1 \in P
  PROVE  Nat \subseteq P
<1> SUFFICES ASSUME Nat \ P # {} PROVE FALSE
  OBVIOUS
<1>1. PICK n \in Nat \ P : \A m \in Nat \ P : n <= m
  BY LeastNatural
<1>2. n # 0 /\ n - 1 \in Nat /\ ~(n <= n - 1)
  BY <1>1
<1>3. n - 1 \in P
  BY <1>1, <1>2
<1>4. (n - 1) + 1 \in P
  BY <1>2, <1>3
<1>5. QED
  BY <1>1, <1>4

\* Induction over the subsets of a finite set: what holds for a set if it holds for
\* all smaller ones holds for all.
LEMMA SubsetInduction ==
  ASSUME NEW S, IsFiniteSet(S), NEW P,
         \A T \in SUBSET S : (\A U \in SUBSET T : U # T => U \in P) => T \in P
  PROVE  S \in P
<1> SUFFICES ASSUME S \notin P PROVE FALSE
  OBVIOUS
<1>0. PICK Bad : Bad = {T \in SUBSET S : T \notin P}
  OBVIOUS
<1>a. PICK R : R = StrictSubsetOrdering(S)
  OBVIOUS
<1>1. IsWellFoundedOn(R, FiniteSubsetsOf(S))
  BY <1>a, FS_StrictSubsetOrderingWellFounded
<1>2. Bad \subseteq FiniteSubsetsOf(S) /\ Bad # {}
  BY <1>0, FS_FiniteSubsetsOfFinite
<1>3. \A T, U \in SUBSET S : U \subseteq T /\ U # T => <<U, T>> \in R
  BY <1>a DEF StrictSubsetOrdering
<1>4. PICK T \in Bad : \A U \in Bad : ~(<<U, T>> \in R)
  BY <1>1, <1>2, WFMin
<1>5. ASSUME NEW U \in SUBSET T, U # T PROVE U \in P
  <2>1. T \in SUBSET S /\ U \in SUBSET S
    BY <1>0
  <2>2. <<U, T>> \in R
    BY <1>3, <1>5, <2>1
  <2>3. U \notin Bad
    BY <1>4, <2>2
  <2>4. QED
    BY <1>0, <2>1, <2>3
<1>6. QED
  BY <1>0, <1>4, <1>5

\* A finite set of natural numbers has a greatest one.
LEMMA GreatestNatural ==
  ASSUME NEW S, S \subseteq Nat, IsFiniteSet(S), S # {}
  PROVE  \E n \in S : \A m \in S : m <= n
<1>1. PICK P : P = {T \in SUBSET S : T = {} \/ \E n \in T : \A m \in T : m <= n}
  OBVIOUS
<1>2. ASSUME NEW T \in SUBSET S, \A U \in SUBSET T : U # T => U \in P
      PROVE  T \in P
  <2>1. CASE T = {}
    BY <1>1, <2>1
  <2>2. CASE T # {}
    <3>1. PICK x \in T : TRUE
      BY <2>2
    <3>2. PICK U : U = T \ {x}
      OBVIOUS
    <3>3. U \in P /\ U \in SUBSET T
      BY <1>2, <3>1, <3>2
    <3>4. CASE U = {}
      BY <1>1, <3>1, <3>2, <3>4
    <3>5. CASE U # {}
      <4>1. PICK n \in U : \A m \in U : m <= n
        BY <1>1, <3>3, <3>5
      <4>2. \A m \in T : m = x \/ m \in U
        BY <3>2
      <4>3. n \in T /\ n \in Nat /\ x \in Nat
        BY <3>1, <3>3, <4>1
      <4>4. CASE x <= n
        BY <1>1, <4>1, <4>2, <4>3, <4>4
      <4>5. CASE n <= x
        <5>1. \A m \in T : m <= x
          BY <3>3, <4>1, <4>2, <4>3, <4>5
        <5>2. QED
          BY <1>1, <3>1, <5>1
      <4>6. QED
        BY <4>3, <4>4, <4>5
    <3>6. QED
      BY <3>4, <3>5
  <2>3. QED
    BY <2>1, <2>2
<1>3. S \in P
  BY <1>2, SubsetInduction
<1>4. QED
  BY <1>1, <1>3

-----------------------------------------------------------------------------
(* What SumFunctionOnSet computes *)

\* The member of S that the fold takes next.
Pick(S) == CHOOSE x \in S : TRUE

\* What is picked from a set that is not empty is in it.
LEMMA PickIn == ASSUME NEW S, S # {} PROVE Pick(S) \in S
BY DEF Pick

\* h holds the partial sums of f over the subsets of S.
PartialSums(f, S, h) ==
  h = [s \in SUBSET S |-> IF s = {} THEN 0 ELSE f[Pick(s)] + h[s \ {Pick(s)}]]

\* The sum is the value at S of the function that the fold chooses.
LEMMA SumByPartialSums ==
  ASSUME NEW f, NEW S
  PROVE  SumFunctionOnSet(f, S) = (CHOOSE h : PartialSums(f, S, h))[S]
BY DEF SumFunctionOnSet, FoldFunctionOnSet, MapThenFoldSet, PartialSums, Pick

\* h holds them for the subsets that have at most n members.
PartialSumsUpto(f, S, n, h) ==
  /\ h = [s \in SUBSET S |-> h[s]]
  /\ h[{}] = 0
  /\ \A s \in SUBSET S : s # {} /\ Cardinality(s) <= n
       => h[s] = f[Pick(s)] + h[s \ {Pick(s)}]

\* Over a finite set there are partial sums.
LEMMA PartialSumsExist ==
  ASSUME NEW f, NEW S, IsFiniteSet(S)
  PROVE  \E h : PartialSums(f, S, h)
<1>1. PICK P : P = {n \in Nat : \E h : PartialSumsUpto(f, S, n, h)}
  OBVIOUS
<1>2. \A s \in SUBSET S : /\ IsFiniteSet(s) /\ Cardinality(s) \in Nat
                          /\ Cardinality(s) <= Cardinality(S)
                          /\ Cardinality(s) = 0 => s = {}
                          /\ s # {} => /\ Pick(s) \in s
                                       /\ Cardinality(s \ {Pick(s)}) = Cardinality(s) - 1
  BY FS_Subset, FS_CardinalityType, FS_EmptySet, FS_RemoveElement, PickIn
<1>3. 0 \in P
  <2>1. PICK h : h = [s \in SUBSET S |-> 0]
    OBVIOUS
  <2>2. ASSUME NEW s \in SUBSET S, Cardinality(s) <= 0 PROVE s = {}
    <3>1. Cardinality(s) \in Nat
      BY <1>2
    <3>2. Cardinality(s) = 0
      BY <2>2, <3>1
    <3>3. QED
      BY <1>2, <3>2
  <2>3. PartialSumsUpto(f, S, 0, h)
    BY <2>1, <2>2 DEF PartialSumsUpto
  <2>4. QED
    BY <1>1, <2>3
<1>4. ASSUME NEW n \in Nat, n \in P PROVE n + 1 \in P
  <2>1. PICK h : PartialSumsUpto(f, S, n, h)
    BY <1>1, <1>4
  <2>2. PICK g : g = [s \in SUBSET S |-> IF Cardinality(s) <= n THEN h[s]
                                       ELSE f[Pick(s)] + h[s \ {Pick(s)}]]
    OBVIOUS
  <2>3. g[{}] = 0
    BY <2>1, <2>2, FS_EmptySet DEF PartialSumsUpto
  <2>4. ASSUME NEW s \in SUBSET S, s # {}, Cardinality(s) <= n + 1
        PROVE  g[s] = f[Pick(s)] + g[s \ {Pick(s)}]
    <3>1. s \ {Pick(s)} \in SUBSET S /\ Cardinality(s \ {Pick(s)}) <= n
      BY <1>2, <2>4
    <3>2. g[s \ {Pick(s)}] = h[s \ {Pick(s)}]
      BY <2>2, <3>1
    <3>3. CASE Cardinality(s) <= n
      BY <2>1, <2>2, <2>4, <3>2, <3>3 DEF PartialSumsUpto
    <3>4. CASE ~(Cardinality(s) <= n)
      BY <2>2, <3>2, <3>4
    <3>5. QED
      BY <3>3, <3>4
  <2>5. PartialSumsUpto(f, S, n + 1, g)
    <3>1. g = [s \in SUBSET S |-> g[s]]
      BY <2>2
    <3>2. QED
      BY <2>3, <2>4, <3>1 DEF PartialSumsUpto
  <2>6. QED
    BY <1>1, <2>5
<1>5. Cardinality(S) \in P
  BY <1>2, <1>3, <1>4, NumberInduction
<1>6. PICK h : PartialSumsUpto(f, S, Cardinality(S), h)
  BY <1>1, <1>5
<1>7. PartialSums(f, S, h)
  <2>1. \A s \in SUBSET S :
          h[s] = IF s = {} THEN 0 ELSE f[Pick(s)] + h[s \ {Pick(s)}]
    BY <1>2, <1>6 DEF PartialSumsUpto
  <2>2. QED
    BY <1>6, <2>1 DEF PartialSums, PartialSumsUpto
<1>8. QED
  BY <1>7

\* Partial sums over two sets agree where both are defined.
LEMMA PartialSumsAgree ==
  ASSUME NEW f, NEW g, NEW S, NEW T, IsFiniteSet(S), NEW h, NEW k,
         S \subseteq T, \A x \in S : f[x] = g[x],
         PartialSums(f, S, h), PartialSums(g, T, k)
  PROVE  h[S] = k[S]
<1>1. PICK P : P = {s \in SUBSET S : h[s] = k[s]}
  OBVIOUS
<1>2. ASSUME NEW s \in SUBSET S, \A u \in SUBSET s : u # s => u \in P
      PROVE  s \in P
  <2>1. CASE s = {}
    BY <1>1, <2>1 DEF PartialSums
  <2>2. CASE s # {}
    <3>1. Pick(s) \in s
      BY <2>2, PickIn
    <3>2. s \ {Pick(s)} \in P
      BY <1>2, <3>1
    <3>3. h[s] = f[Pick(s)] + h[s \ {Pick(s)}]
      BY <2>2 DEF PartialSums
    <3>4. k[s] = g[Pick(s)] + k[s \ {Pick(s)}]
      BY <2>2 DEF PartialSums
    <3>5. QED
      BY <1>1, <3>1, <3>2, <3>3, <3>4
  <2>3. QED
    BY <2>1, <2>2
<1>3. S \in P
  BY <1>2, SubsetInduction
<1>4. QED
  BY <1>1, <1>3

\* A sum depends on nothing but the set and the values on it.
LEMMA SumSame ==
  ASSUME NEW f, NEW g, NEW S, IsFiniteSet(S), \A x \in S : f[x] = g[x]
  PROVE  SumFunctionOnSet(f, S) = SumFunctionOnSet(g, S)
<1>1. PICK h : h = CHOOSE q : PartialSums(f, S, q)
  OBVIOUS
<1>2. PICK k : k = CHOOSE q : PartialSums(g, S, q)
  OBVIOUS
<1>3. PartialSums(f, S, h) /\ PartialSums(g, S, k)
  BY <1>1, <1>2, PartialSumsExist
<1>4. h[S] = k[S]
  BY <1>3, PartialSumsAgree
<1>5. QED
  BY <1>1, <1>2, <1>4, SumByPartialSums

\* The sum over nothing is 0; any other is what comes first and the sum of the rest.
LEMMA SumUnfold ==
  ASSUME NEW f, NEW S, IsFiniteSet(S)
  PROVE  SumFunctionOnSet(f, S) =
           IF S = {} THEN 0 ELSE f[Pick(S)] + SumFunctionOnSet(f, S \ {Pick(S)})
<1>1. PICK h : h = CHOOSE q : PartialSums(f, S, q)
  OBVIOUS
<1>2. PartialSums(f, S, h) /\ SumFunctionOnSet(f, S) = h[S]
  BY <1>1, PartialSumsExist, SumByPartialSums
<1>3. h[S] = IF S = {} THEN 0 ELSE f[Pick(S)] + h[S \ {Pick(S)}]
  BY <1>2 DEF PartialSums
<1>4. SumFunctionOnSet(f, S \ {Pick(S)}) = h[S \ {Pick(S)}]
  <2>1. PICK T : T = S \ {Pick(S)}
    OBVIOUS
  <2>2. IsFiniteSet(T) /\ T \subseteq S
    BY <2>1, FS_Subset
  <2>3. PICK k : k = CHOOSE q : PartialSums(f, T, q)
    OBVIOUS
  <2>4. PartialSums(f, T, k) /\ SumFunctionOnSet(f, T) = k[T]
    BY <2>2, <2>3, PartialSumsExist, SumByPartialSums
  <2>5. k[T] = h[T]
    BY <1>2, <2>2, <2>4, PartialSumsAgree
  <2>6. QED
    BY <2>1, <2>4, <2>5
<1>5. QED
  BY <1>2, <1>3, <1>4

-----------------------------------------------------------------------------
(* What sums of integers do *)

\* The sum over nothing.
LEMMA SumEmpty == ASSUME NEW f PROVE SumFunctionOnSet(f, {}) = 0
BY SumUnfold, FS_EmptySet

\* A sum of integers is an integer.
LEMMA SumInt ==
  ASSUME NEW f, NEW S, IsFiniteSet(S), \A x \in S : f[x] \in Int
  PROVE  SumFunctionOnSet(f, S) \in Int
<1>1. PICK P : P = {s \in SUBSET S : SumFunctionOnSet(f, s) \in Int}
  OBVIOUS
<1>2. ASSUME NEW s \in SUBSET S, \A u \in SUBSET s : u # s => u \in P
      PROVE  s \in P
  <2>1. CASE s = {}
    BY <1>1, <2>1, SumEmpty
  <2>2. CASE s # {}
    <3>1. Pick(s) \in s /\ IsFiniteSet(s)
      BY <2>2, PickIn, FS_Subset
    <3>2. SumFunctionOnSet(f, s \ {Pick(s)}) \in Int
      BY <1>1, <1>2, <3>1
    <3>3. SumFunctionOnSet(f, s) \in Int
      BY <2>2, <3>1, <3>2, SumUnfold
    <3>4. QED
      BY <1>1, <3>3
  <2>3. QED
    BY <2>1, <2>2
<1>3. S \in P
  BY <1>2, SubsetInduction
<1>4. QED
  BY <1>1, <1>3

\* Any member may be taken out of a sum first.
LEMMA SumRemove ==
  ASSUME NEW f, NEW S, IsFiniteSet(S), \A x \in S : f[x] \in Int, NEW e \in S
  PROVE  SumFunctionOnSet(f, S) = f[e] + SumFunctionOnSet(f, S \ {e})
<1>1. PICK P : P = {s \in SUBSET S : \A x \in s :
                      SumFunctionOnSet(f, s) = f[x] + SumFunctionOnSet(f, s \ {x})}
  OBVIOUS
<1>2. ASSUME NEW s \in SUBSET S, \A u \in SUBSET s : u # s => u \in P
      PROVE  s \in P
  <2>1. ASSUME NEW x \in s
        PROVE  SumFunctionOnSet(f, s) = f[x] + SumFunctionOnSet(f, s \ {x})
    <3>1. PICK p : p = Pick(s)
      OBVIOUS
    <3>2. p \in s /\ s # {} /\ IsFiniteSet(s) /\ IsFiniteSet(s \ {x})
      BY <2>1, <3>1, PickIn, FS_Subset
    <3>3. SumFunctionOnSet(f, s) = f[p] + SumFunctionOnSet(f, s \ {p})
      BY <3>1, <3>2, SumUnfold
    <3>4. CASE x = p
      BY <3>3, <3>4
    <3>5. CASE x # p
      <4>1. s \ {p} \in P /\ s \ {x} \in P
        BY <1>2, <2>1, <3>2
      <4>2. PICK u : u = (s \ {p}) \ {x}
        OBVIOUS
      <4>3. u = (s \ {x}) \ {p} /\ u \in SUBSET S /\ IsFiniteSet(u)
        BY <4>2, FS_Subset
      <4>4. x \in s \ {p} /\ p \in s \ {x}
        BY <2>1, <3>2, <3>5
      <4>5. SumFunctionOnSet(f, s \ {p}) = f[x] + SumFunctionOnSet(f, u)
        BY <1>1, <4>1, <4>2, <4>4
      <4>6. SumFunctionOnSet(f, s \ {x}) = f[p] + SumFunctionOnSet(f, u)
        BY <1>1, <4>1, <4>3, <4>4
      <4>7. SumFunctionOnSet(f, u) \in Int /\ f[x] \in Int /\ f[p] \in Int
        BY <2>1, <3>2, <4>3, SumInt
      <4>8. SumFunctionOnSet(f, s) = f[p] + (f[x] + SumFunctionOnSet(f, u))
        BY <3>3, <4>5
      <4>9. QED
        BY <4>6, <4>7, <4>8
    <3>6. QED
      BY <3>4, <3>5
  <2>2. QED
    BY <1>1, <2>1
<1>3. S \in P
  BY <1>2, SubsetInduction
<1>4. QED
  BY <1>1, <1>3

\* One more member.
LEMMA SumAdd ==
  ASSUME NEW f, NEW S, IsFiniteSet(S), \A x \in S : f[x] \in Int,
         NEW e, e \notin S, f[e] \in Int
  PROVE  SumFunctionOnSet(f, S \cup {e}) = SumFunctionOnSet(f, S) + f[e]
<1>1. PICK T : T = S \cup {e}
  OBVIOUS
<1>2. IsFiniteSet(T) /\ e \in T /\ T \ {e} = S /\ \A x \in T : f[x] \in Int
  BY <1>1, FS_AddElement
<1>3. SumFunctionOnSet(f, T) = f[e] + SumFunctionOnSet(f, S)
  BY <1>2, SumRemove
<1>4. SumFunctionOnSet(f, S) \in Int
  BY SumInt
<1>5. QED
  BY <1>1, <1>3, <1>4

\* One member.
LEMMA SumOne ==
  ASSUME NEW f, NEW e, f[e] \in Int
  PROVE  SumFunctionOnSet(f, {e}) = f[e]
<1>1. SumFunctionOnSet(f, {} \cup {e}) = SumFunctionOnSet(f, {}) + f[e]
  BY SumAdd, FS_EmptySet
<1>2. {} \cup {e} = {e}
  OBVIOUS
<1>3. QED
  BY <1>1, <1>2, SumEmpty

\* The sum over two sets without a common member.
LEMMA SumUnion ==
  ASSUME NEW f, NEW S, NEW T, IsFiniteSet(S), IsFiniteSet(T), S \cap T = {},
         \A x \in S \cup T : f[x] \in Int
  PROVE  SumFunctionOnSet(f, S \cup T) = SumFunctionOnSet(f, S) + SumFunctionOnSet(f, T)
<1>1. PICK P : P = {t \in SUBSET T : SumFunctionOnSet(f, S \cup t)
                                      = SumFunctionOnSet(f, S) + SumFunctionOnSet(f, t)}
  OBVIOUS
<1>2. SumFunctionOnSet(f, S) \in Int
  BY SumInt
<1>3. ASSUME NEW t \in SUBSET T, \A u \in SUBSET t : u # t => u \in P
      PROVE  t \in P
  <2>1. CASE t = {}
    BY <1>1, <1>2, <2>1, SumEmpty
  <2>2. CASE t # {}
    <3>1. PICK e \in t : TRUE
      BY <2>2
    <3>2. PICK u : u = t \ {e}
      OBVIOUS
    <3>3. u \in P /\ u \in SUBSET T /\ e \notin u /\ t = u \cup {e}
      BY <1>3, <3>1, <3>2
    <3>4. IsFiniteSet(u) /\ IsFiniteSet(S \cup u)
      BY <3>3, FS_Subset, FS_Union
    <3>5. e \notin S \cup u /\ f[e] \in Int /\ \A x \in S \cup u : f[x] \in Int
      BY <3>1, <3>3
    <3>6. SumFunctionOnSet(f, t) = SumFunctionOnSet(f, u) + f[e]
      BY <3>3, <3>4, <3>5, SumAdd
    <3>7. SumFunctionOnSet(f, (S \cup u) \cup {e}) = SumFunctionOnSet(f, S \cup u) + f[e]
      BY <3>4, <3>5, SumAdd
    <3>8. (S \cup u) \cup {e} = S \cup t
      BY <3>3
    <3>9. SumFunctionOnSet(f, S \cup t) = SumFunctionOnSet(f, S \cup u) + f[e]
      BY <3>7, <3>8
    <3>10. SumFunctionOnSet(f, u) \in Int
      BY <3>4, <3>5, SumInt
    <3>11. SumFunctionOnSet(f, S \cup u) = SumFunctionOnSet(f, S) + SumFunctionOnSet(f, u)
      BY <1>1, <3>3
    <3>12. SumFunctionOnSet(f, S \cup t) = SumFunctionOnSet(f, S) + SumFunctionOnSet(f, t)
      BY <1>2, <3>5, <3>6, <3>9, <3>10, <3>11
    <3>13. QED
      BY <1>1, <3>12
  <2>3. QED
    BY <2>1, <2>2
<1>4. T \in P
  BY <1>3, SubsetInduction
<1>5. QED
  BY <1>1, <1>4

\* A sum over a set with a part of it apart.
LEMMA SumPart ==
  ASSUME NEW f, NEW S, IsFiniteSet(S), NEW T \in SUBSET S, \A x \in S : f[x] \in Int
  PROVE  SumFunctionOnSet(f, S) = SumFunctionOnSet(f, T) + SumFunctionOnSet(f, S \ T)
<1>1. PICK U : U = S \ T
  OBVIOUS
<1>2. IsFiniteSet(T) /\ IsFiniteSet(U) /\ T \cap U = {} /\ T \cup U = S
  BY <1>1, FS_Subset
<1>3. SumFunctionOnSet(f, T \cup U) = SumFunctionOnSet(f, T) + SumFunctionOnSet(f, U)
  BY <1>2, SumUnion
<1>4. QED
  BY <1>1, <1>2, <1>3

\* Greater values make no smaller sum.
LEMMA SumMonotonic ==
  ASSUME NEW f, NEW g, NEW S, IsFiniteSet(S),
         \A x \in S : f[x] \in Int /\ g[x] \in Int /\ f[x] <= g[x]
  PROVE  SumFunctionOnSet(f, S) <= SumFunctionOnSet(g, S)
<1>1. PICK P : P = {s \in SUBSET S : SumFunctionOnSet(f, s) <= SumFunctionOnSet(g, s)}
  OBVIOUS
<1>2. ASSUME NEW s \in SUBSET S, \A u \in SUBSET s : u # s => u \in P
      PROVE  s \in P
  <2>1. CASE s = {}
    BY <1>1, <2>1, SumEmpty
  <2>2. CASE s # {}
    <3>1. PICK u : u = s \ {Pick(s)}
      OBVIOUS
    <3>2. Pick(s) \in s /\ IsFiniteSet(s) /\ u \in P /\ u \in SUBSET S /\ IsFiniteSet(u)
      BY <1>2, <2>2, <3>1, PickIn, FS_Subset
    <3>3. SumFunctionOnSet(f, u) \in Int /\ SumFunctionOnSet(g, u) \in Int
      BY <3>2, SumInt
    <3>4. /\ SumFunctionOnSet(f, s) = f[Pick(s)] + SumFunctionOnSet(f, u)
          /\ SumFunctionOnSet(g, s) = g[Pick(s)] + SumFunctionOnSet(g, u)
      BY <2>2, <3>1, <3>2, SumUnfold
    <3>5. SumFunctionOnSet(f, u) <= SumFunctionOnSet(g, u)
      BY <1>1, <3>2
    <3>6. f[Pick(s)] \in Int /\ g[Pick(s)] \in Int /\ f[Pick(s)] <= g[Pick(s)]
      BY <3>2
    <3>7. SumFunctionOnSet(f, s) <= SumFunctionOnSet(g, s)
      BY <3>3, <3>4, <3>5, <3>6
    <3>8. QED
      BY <1>1, <3>7
  <2>3. QED
    BY <2>1, <2>2
<1>3. S \in P
  BY <1>2, SubsetInduction
<1>4. QED
  BY <1>1, <1>3

\* A sum of natural numbers is one, and no part of it is more than the whole.
LEMMA SumNat ==
  ASSUME NEW f, NEW S, IsFiniteSet(S), \A x \in S : f[x] \in Nat
  PROVE  /\ SumFunctionOnSet(f, S) \in Nat
         /\ \A T \in SUBSET S : SumFunctionOnSet(f, T) <= SumFunctionOnSet(f, S)
         /\ \A x \in S : f[x] <= SumFunctionOnSet(f, S)
<1>1. ASSUME NEW T \in SUBSET S PROVE SumFunctionOnSet(f, T) \in Nat
  <2>1. PICK P : P = {s \in SUBSET T : SumFunctionOnSet(f, s) \in Nat}
    OBVIOUS
  <2>2. IsFiniteSet(T)
    BY FS_Subset
  <2>3. ASSUME NEW s \in SUBSET T, \A u \in SUBSET s : u # s => u \in P
        PROVE  s \in P
    <3>1. CASE s = {}
      BY <2>1, <3>1, SumEmpty
    <3>2. CASE s # {}
      <4>1. Pick(s) \in s /\ IsFiniteSet(s) /\ f[Pick(s)] \in Nat
        BY <2>2, <3>2, PickIn, FS_Subset
      <4>2. SumFunctionOnSet(f, s \ {Pick(s)}) \in Nat
        BY <2>1, <2>3, <4>1
      <4>3. SumFunctionOnSet(f, s) \in Nat
        BY <3>2, <4>1, <4>2, SumUnfold
      <4>4. QED
        BY <2>1, <4>3
    <3>3. QED
      BY <3>1, <3>2
  <2>4. T \in P
    BY <2>2, <2>3, SubsetInduction
  <2>5. QED
    BY <2>1, <2>4
<1>2. ASSUME NEW T \in SUBSET S
      PROVE  SumFunctionOnSet(f, T) <= SumFunctionOnSet(f, S)
  <2>1. SumFunctionOnSet(f, S) = SumFunctionOnSet(f, T) + SumFunctionOnSet(f, S \ T)
    BY SumPart
  <2>2. SumFunctionOnSet(f, T) \in Nat /\ SumFunctionOnSet(f, S \ T) \in Nat
    BY <1>1
  <2>3. QED
    BY <2>1, <2>2
<1>3. ASSUME NEW x \in S PROVE f[x] <= SumFunctionOnSet(f, S)
  <2>1. SumFunctionOnSet(f, {x}) = f[x]
    BY SumOne
  <2>2. QED
    BY <1>2, <2>1
<1>4. QED
  BY <1>1, <1>2, <1>3

\* A sum of nothing but zeros.
LEMMA SumZero ==
  ASSUME NEW f, NEW S, IsFiniteSet(S), \A x \in S : f[x] = 0
  PROVE  SumFunctionOnSet(f, S) = 0
<1>1. PICK P : P = {T \in SUBSET S : SumFunctionOnSet(f, T) = 0}
  OBVIOUS
<1>2. ASSUME NEW T \in SUBSET S, \A U \in SUBSET T : U # T => U \in P
      PROVE  T \in P
  <2>1. CASE T = {}
    BY <1>1, <2>1, SumEmpty
  <2>2. CASE T # {}
    <3>1. PICK x \in T : TRUE
      BY <2>2
    <3>2. SumFunctionOnSet(f, T \ {x}) = 0
      BY <1>1, <1>2, <3>1
    <3>3. IsFiniteSet(T) /\ \A y \in T : f[y] \in Int
      BY FS_Subset
    <3>4. SumFunctionOnSet(f, T) = f[x] + SumFunctionOnSet(f, T \ {x})
      BY <3>1, <3>3, SumRemove
    <3>5. SumFunctionOnSet(f, T) = 0
      BY <3>1, <3>2, <3>4
    <3>6. QED
      BY <1>1, <3>5
  <2>3. QED
    BY <2>1, <2>2
<1>3. S \in P
  BY <1>2, SubsetInduction
<1>4. QED
  BY <1>1, <1>3

\* A sum with a common factor.
LEMMA Distributes == ASSUME NEW k \in Int, NEW a \in Int, NEW b \in Int
                     PROVE  k * (a + b) = k * a + k * b /\ k * a \in Int /\ k * b \in Int
OBVIOUS

LEMMA SumScaled ==
  ASSUME NEW k \in Int, NEW f, NEW g, NEW S, IsFiniteSet(S),
         \A x \in S : f[x] \in Int /\ g[x] = k * f[x]
  PROVE  SumFunctionOnSet(g, S) = k * SumFunctionOnSet(f, S)
<1>1. PICK P : P = {s \in SUBSET S : SumFunctionOnSet(g, s) = k * SumFunctionOnSet(f, s)}
  OBVIOUS
<1>2. ASSUME NEW s \in SUBSET S, \A u \in SUBSET s : u # s => u \in P
      PROVE  s \in P
  <2>1. CASE s = {}
    BY <1>1, <2>1, SumEmpty
  <2>2. CASE s # {}
    <3>1. PICK e : e = Pick(s)
      OBVIOUS
    <3>2. PICK u : u = s \ {e}
      OBVIOUS
    <3>3. e \in s /\ IsFiniteSet(s) /\ u \in P /\ u \in SUBSET S /\ IsFiniteSet(u)
      BY <1>2, <2>2, <3>1, <3>2, PickIn, FS_Subset
    <3>4. PICK rest \in Int : rest = SumFunctionOnSet(f, u)
      BY <3>3, SumInt
    <3>5. PICK first \in Int : first = f[e]
      BY <3>3
    <3>6. SumFunctionOnSet(f, s) = first + rest
      BY <2>2, <3>1, <3>2, <3>3, <3>4, <3>5, SumUnfold
    <3>7. SumFunctionOnSet(g, s) = g[e] + SumFunctionOnSet(g, u)
      BY <2>2, <3>1, <3>2, <3>3, SumUnfold
    <3>8. g[e] = k * first /\ SumFunctionOnSet(g, u) = k * rest
      BY <1>1, <3>3, <3>4, <3>5
    <3>9. k * (first + rest) = k * first + k * rest
      BY Distributes
    <3>10. SumFunctionOnSet(g, s) = k * SumFunctionOnSet(f, s)
      BY <3>6, <3>7, <3>8, <3>9
    <3>11. QED
      BY <1>1, <3>10
  <2>3. QED
    BY <2>1, <2>2
<1>3. S \in P
  BY <1>2, SubsetInduction
<1>4. QED
  BY <1>1, <1>3

\* The image of a finite set is finite.
LEMMA ImageFinite ==
  ASSUME NEW h, NEW S, IsFiniteSet(S)
  PROVE  IsFiniteSet({h[x] : x \in S})
<1>1. PICK P : P = {T \in SUBSET S : IsFiniteSet({h[x] : x \in T})}
  OBVIOUS
<1>2. ASSUME NEW T \in SUBSET S, \A U \in SUBSET T : U # T => U \in P
      PROVE  T \in P
  <2>1. CASE T = {}
    <3>1. {h[x] : x \in T} = {}
      BY <2>1
    <3>2. QED
      BY <1>1, <3>1, FS_EmptySet
  <2>2. CASE T # {}
    <3>1. PICK e \in T : TRUE
      BY <2>2
    <3>2. IsFiniteSet({h[x] : x \in T \ {e}})
      BY <1>1, <1>2, <3>1
    <3>3. {h[x] : x \in T} = {h[x] : x \in T \ {e}} \cup {h[e]}
      BY <3>1
    <3>4. PICK I : I = {h[x] : x \in T \ {e}}
      OBVIOUS
    <3>5. IsFiniteSet(I \cup {h[e]})
      BY <3>2, <3>4, FS_AddElement
    <3>6. QED
      BY <1>1, <3>3, <3>4, <3>5
  <2>3. QED
    BY <2>1, <2>2
<1>3. S \in P
  BY <1>2, SubsetInduction
<1>4. QED
  BY <1>1, <1>3

\* The sum over the image of a set under an injective function.
LEMMA SumImage ==
  ASSUME NEW f, NEW g, NEW h, NEW S, IsFiniteSet(S),
         \A x, y \in S : h[x] = h[y] => x = y,
         \A x \in S : g[x] \in Int /\ f[h[x]] = g[x]
  PROVE  /\ IsFiniteSet({h[x] : x \in S})
         /\ SumFunctionOnSet(f, {h[x] : x \in S}) = SumFunctionOnSet(g, S)
<1>1. PICK P : P = {T \in SUBSET S :
                      /\ IsFiniteSet({h[x] : x \in T})
                      /\ SumFunctionOnSet(f, {h[x] : x \in T}) = SumFunctionOnSet(g, T)}
  OBVIOUS
<1>2. ASSUME NEW T \in SUBSET S, \A U \in SUBSET T : U # T => U \in P
      PROVE  T \in P
  <2>1. CASE T = {}
    <3>1. {h[x] : x \in T} = {}
      BY <2>1
    <3>2. QED
      BY <1>1, <2>1, <3>1, SumEmpty, FS_EmptySet
  <2>2. CASE T # {}
    <3>1. PICK e \in T : TRUE
      BY <2>2
    <3>2. PICK U : U = T \ {e}
      OBVIOUS
    <3>3. PICK I : I = {h[x] : x \in U}
      OBVIOUS
    <3>4. U \in SUBSET T /\ U # T /\ e \notin U /\ T = U \cup {e} /\ IsFiniteSet(U)
      BY <3>1, <3>2, FS_Subset
    <3>5. IsFiniteSet(I) /\ SumFunctionOnSet(f, I) = SumFunctionOnSet(g, U)
      BY <1>1, <1>2, <3>3, <3>4
    <3>6. {h[x] : x \in T} = I \cup {h[e]} /\ h[e] \notin I
      BY <3>1, <3>2, <3>3, <3>4
    <3>7. \A y \in I : f[y] \in Int
      BY <3>3, <3>4
    <3>8. f[h[e]] = g[e] /\ g[e] \in Int /\ \A x \in U : g[x] \in Int
      BY <3>1, <3>4
    <3>9. SumFunctionOnSet(f, I \cup {h[e]}) = SumFunctionOnSet(f, I) + f[h[e]]
      BY <3>5, <3>6, <3>7, <3>8, SumAdd
    <3>10. SumFunctionOnSet(g, U \cup {e}) = SumFunctionOnSet(g, U) + g[e]
      BY <3>4, <3>8, SumAdd
    <3>11. IsFiniteSet(I \cup {h[e]})
      BY <3>5, FS_AddElement
    <3>12. SumFunctionOnSet(f, {h[x] : x \in T}) = SumFunctionOnSet(g, T)
      BY <3>4, <3>5, <3>6, <3>8, <3>9, <3>10
    <3>13. QED
      BY <1>1, <3>6, <3>11, <3>12
  <2>3. QED
    BY <2>1, <2>2
<1>3. S \in P
  BY <1>2, SubsetInduction
<1>4. QED
  BY <1>1, <1>3
-----------------------------------------------------------------------------
(* What is made of pieces *)

Pieces(f, S) == UNION {f[x] : x \in S}

LEMMA PiecesSplit ==
  ASSUME NEW f, NEW S, NEW e \in S
  PROVE  Pieces(f, S) = Pieces(f, S \ {e}) \cup f[e]
  BY DEF Pieces

LEMMA PiecesOfNone == ASSUME NEW f PROVE Pieces(f, {}) = {}
  BY DEF Pieces

\* As many pieces as there are members, none of them larger than n.
LEMMA PiecesBound ==
  ASSUME NEW f, NEW S, IsFiniteSet(S), NEW n \in Nat,
         \A x \in S : IsFiniteSet(f[x]) /\ Cardinality(f[x]) <= n
  PROVE  IsFiniteSet(Pieces(f, S)) /\ Cardinality(Pieces(f, S)) <= Cardinality(S) * n
<1>1. PICK P : P = {T \in SUBSET S :
                      IsFiniteSet(Pieces(f, T)) /\ Cardinality(Pieces(f, T)) <= Cardinality(T) * n}
  OBVIOUS
<1>2. ASSUME NEW T \in SUBSET S, \A U \in SUBSET T : U # T => U \in P
      PROVE  T \in P
  <2>0. IsFiniteSet(T) /\ Cardinality(T) \in Nat
    BY FS_Subset, FS_CardinalityType
  <2>1. CASE T = {}
    <3>1. Pieces(f, T) = {} /\ IsFiniteSet({}) /\ Cardinality({}) = 0
      BY <2>1, PiecesOfNone, FS_EmptySet
    <3>2. 0 <= 0 * n
      OBVIOUS
    <3> QED
      BY <1>1, <2>1, <3>1, <3>2
  <2>2. CASE T # {}
    <3>1. PICK e \in T : TRUE
      BY <2>2
    <3>2. PICK U : U = T \ {e}
      OBVIOUS
    <3>3. U \in P
      BY <1>2, <3>1, <3>2
    <3>4. IsFiniteSet(U) /\ Cardinality(U) \in Nat /\ Cardinality(T) = Cardinality(U) + 1
      <4>1. /\ IsFiniteSet(T \ {e})
            /\ Cardinality(T \ {e}) = IF e \in T THEN Cardinality(T) - 1 ELSE Cardinality(T)
        BY <2>0, FS_RemoveElement
      <4>2. Cardinality(T \ {e}) \in Nat
        BY <4>1, FS_CardinalityType
      <4> QED
        BY <2>0, <3>1, <3>2, <4>1, <4>2
    <3>5. Pieces(f, T) = Pieces(f, U) \cup f[e]
      BY <3>1, <3>2, PiecesSplit
    <3>6. IsFiniteSet(Pieces(f, U)) /\ Cardinality(Pieces(f, U)) <= Cardinality(U) * n
      BY <1>1, <3>3
    <3>7. e \in S /\ IsFiniteSet(f[e]) /\ Cardinality(f[e]) <= n
      BY <3>1
    <3>8. /\ IsFiniteSet(Pieces(f, U) \cup f[e])
          /\ Cardinality(Pieces(f, U) \cup f[e]) =
               Cardinality(Pieces(f, U)) + Cardinality(f[e]) - Cardinality(Pieces(f, U) \cap f[e])
      BY <3>6, <3>7, FS_Union
    <3>9. IsFiniteSet(Pieces(f, U) \cap f[e])
      BY <3>6, FS_Subset
    <3>10. /\ Cardinality(Pieces(f, U)) \in Nat /\ Cardinality(f[e]) \in Nat
           /\ Cardinality(Pieces(f, U) \cap f[e]) \in Nat
      BY <3>6, <3>7, <3>9, FS_CardinalityType
    <3>11. (Cardinality(U) + 1) * n = Cardinality(U) * n + n /\ Cardinality(U) * n \in Nat
      BY <3>4
    <3>12. Cardinality(Pieces(f, T)) <= Cardinality(T) * n
      BY <3>4, <3>5, <3>6, <3>7, <3>8, <3>10, <3>11
    <3> QED
      BY <1>1, <3>5, <3>8, <3>12
  <2> QED
    BY <2>1, <2>2
<1>3. S \in P
  BY <1>2, SubsetInduction
<1> QED
  BY <1>1, <1>3

-----------------------------------------------------------------------------
(* Sums over parts *)

\* There are as many members as a sum of ones tells.
LEMMA SumOfOnes ==
  ASSUME NEW f, NEW S, IsFiniteSet(S), \A x \in S : f[x] = 1
  PROVE  SumFunctionOnSet(f, S) = Cardinality(S)
<1>1. PICK P : P = {T \in SUBSET S : SumFunctionOnSet(f, T) = Cardinality(T)}
  OBVIOUS
<1>2. ASSUME NEW T \in SUBSET S, \A U \in SUBSET T : U # T => U \in P
      PROVE  T \in P
  <2>1. CASE T = {}
    BY <1>1, <2>1, SumEmpty, FS_EmptySet
  <2>2. CASE T # {}
    <3>1. PICK e \in T : TRUE
      BY <2>2
    <3>2. IsFiniteSet(T) /\ Cardinality(T) \in Nat
      BY FS_Subset, FS_CardinalityType
    <3>3. SumFunctionOnSet(f, T) = f[e] + SumFunctionOnSet(f, T \ {e})
      BY <3>2, SumRemove
    <3>4. T \ {e} \in P
      BY <1>2
    <3>5. SumFunctionOnSet(f, T \ {e}) = Cardinality(T \ {e})
      BY <1>1, <3>4
    <3>6. Cardinality(T \ {e}) = Cardinality(T) - 1
      BY <3>2, FS_RemoveElement
    <3>7. SumFunctionOnSet(f, T) = Cardinality(T)
      BY <3>2, <3>3, <3>5, <3>6
    <3> QED
      BY <1>1, <3>7
  <2> QED
    BY <2>1, <2>2
<1>3. S \in P
  BY <1>2, SubsetInduction
<1> QED
  BY <1>1, <1>3

\* The members of S that h takes into D.
TakenInto(h, S, D) == {x \in S : h[x] \in D}

\* h divides S into parts, and g tells the sum of f over each of them.
Parts(f, g, h, S, B) ==
  /\ \A x \in S : f[x] \in Int /\ h[x] \in B
  /\ \A b \in B : g[b] = SumFunctionOnSet(f, TakenInto(h, S, {b}))

\* A sum can be taken part by part.
LEMMA SumByParts ==
  ASSUME NEW f, NEW g, NEW h, NEW S, NEW B, IsFiniteSet(S), IsFiniteSet(B), Parts(f, g, h, S, B)
  PROVE  SumFunctionOnSet(g, B) = SumFunctionOnSet(f, S)
<1>0. /\ \A x \in S : f[x] \in Int /\ h[x] \in B
      /\ \A b \in B : g[b] = SumFunctionOnSet(f, TakenInto(h, S, {b}))
  BY DEF Parts
<1>1. PICK P : P = {D \in SUBSET B : SumFunctionOnSet(g, D) = SumFunctionOnSet(f, TakenInto(h, S, D))}
  OBVIOUS
<1>2. \A D : IsFiniteSet(TakenInto(h, S, D)) /\ TakenInto(h, S, D) \in SUBSET S
  BY FS_Subset DEF TakenInto
<1>3. \A D : SumFunctionOnSet(f, TakenInto(h, S, D)) \in Int
  <2> SUFFICES ASSUME NEW D PROVE SumFunctionOnSet(f, TakenInto(h, S, D)) \in Int
    OBVIOUS
  <2>1. \A x \in TakenInto(h, S, D) : f[x] \in Int
    BY <1>0, <1>2
  <2> QED
    BY <1>2, <2>1, SumInt
<1>4. ASSUME NEW D \in SUBSET B, \A U \in SUBSET D : U # D => U \in P
      PROVE  D \in P
  <2>1. CASE D = {}
    <3>1. TakenInto(h, S, D) = {}
      BY <2>1 DEF TakenInto
    <3>2. SumFunctionOnSet(g, D) = SumFunctionOnSet(f, TakenInto(h, S, D))
      BY <2>1, <3>1, SumEmpty
    <3> QED
      BY <1>1, <3>2
  <2>2. CASE D # {}
    <3>1. PICK b \in D : TRUE
      BY <2>2
    <3>2. PICK C : C = D \ {b}
      OBVIOUS
    <3>3. IsFiniteSet(D)
      BY FS_Subset
    <3>4. SumFunctionOnSet(g, D) = g[b] + SumFunctionOnSet(g, C)
      <4>1. \A x \in D : g[x] \in Int
        BY <1>0, <1>3
      <4> QED
        BY <3>2, <3>3, <4>1, SumRemove
    <3>5. SumFunctionOnSet(g, C) = SumFunctionOnSet(f, TakenInto(h, S, C))
      <4>1. C \in P
        BY <1>4, <3>1, <3>2
      <4> QED
        BY <1>1, <4>1
    <3>6. TakenInto(h, S, C) \cup TakenInto(h, S, {b}) = TakenInto(h, S, D) /\ TakenInto(h, S, C) \cap TakenInto(h, S, {b}) = {}
      BY <3>2 DEF TakenInto
    <3>7. SumFunctionOnSet(f, TakenInto(h, S, C) \cup TakenInto(h, S, {b})) =
            SumFunctionOnSet(f, TakenInto(h, S, C)) + SumFunctionOnSet(f, TakenInto(h, S, {b}))
      <4>1. \A x \in TakenInto(h, S, C) \cup TakenInto(h, S, {b}) : f[x] \in Int
        BY <1>0, <1>2
      <4> QED
        BY <1>2, <3>6, <4>1, SumUnion
    <3>8. SumFunctionOnSet(f, TakenInto(h, S, C)) \in Int /\ g[b] \in Int
      BY <1>0, <1>3
    <3>9. g[b] = SumFunctionOnSet(f, TakenInto(h, S, {b}))
      BY <1>0
    <3>10. SumFunctionOnSet(f, TakenInto(h, S, D)) = SumFunctionOnSet(f, TakenInto(h, S, C)) + g[b]
      BY <3>6, <3>7, <3>9
    <3>11. SumFunctionOnSet(g, D) = SumFunctionOnSet(f, TakenInto(h, S, D))
      BY <3>4, <3>5, <3>8, <3>10
    <3> QED
      BY <1>1, <3>11
  <2> QED
    BY <2>1, <2>2
<1>5. B \in P
  BY <1>4, SubsetInduction
<1>6. TakenInto(h, S, B) = S
  BY <1>0 DEF TakenInto
<1> QED
  BY <1>1, <1>5, <1>6

\* There are no more images than members.
LEMMA ImageBound ==
  ASSUME NEW h, NEW S, IsFiniteSet(S)
  PROVE  Cardinality({h[x] : x \in S}) <= Cardinality(S)
<1>1. PICK T : T = {h[x] : x \in S}
  OBVIOUS
<1>2. PICK q : q = [x \in S |-> h[x]]
  OBVIOUS
<1>3. q \in Surjection(S, T)
  BY <1>1, <1>2 DEF Surjection
<1> QED
  BY <1>1, <1>3, FS_Surjection

-----------------------------------------------------------------------------
(* Rounding (Decimals). *)

\* A quotient and what is left over.
LEMMA Quotient ==
  ASSUME NEW a \in Int, NEW n \in Nat \ {0}
  PROVE  a \div n \in Int /\ n * (a \div n) <= a /\ a < n * (a \div n) + n
OBVIOUS

\* There is only one such quotient.
LEMMA QuotientIs ==
  ASSUME NEW a \in Int, NEW n \in Nat \ {0}, NEW q \in Int, n * q <= a, a < n * q + n
  PROVE  a \div n = q
OBVIOUS

\* StepMultiples of a step are added and subtracted as their factors are.
LEMMA StepMultiples ==
  ASSUME NEW n \in Nat, NEW p \in Int, NEW q \in Int
  PROVE  /\ n * p \in Int /\ n * q \in Int
         /\ n * (p + q) = n * p + n * q
         /\ n * (p - q) = n * p - n * q
         /\ n * (p - q + 1) = n * p - n * q + n
OBVIOUS

\* A rounded value is a multiple of the step, at most half a step from the value, and
\* below it by less than that.
LEMMA Rounding ==
  ASSUME NEW v \in Int, NEW step \in Nat \ {0}
  PROVE  /\ Steps(v, step) \in Int /\ Nearest(v, step) \in Int
         /\ Nearest(v, step) <= v + step \div 2
         /\ v + step \div 2 < Nearest(v, step) + step
BY Quotient DEF Steps, Nearest

\* What lies that near is what the value is rounded to.
LEMMA RoundsTo ==
  ASSUME NEW v \in Int, NEW step \in Nat \ {0}, NEW k \in Int,
         step * k <= v + step \div 2, v + step \div 2 < step * k + step
  PROVE  Steps(v, step) = k /\ Nearest(v, step) = step * k
<1>1. step \div 2 \in Int
  OBVIOUS
<1>2. Steps(v, step) = k
  BY <1>1, QuotientIs DEF Steps
<1>3. QED
  BY <1>2 DEF Nearest

\* StepMultiples of the step stay as they are.
LEMMA MultipleStays ==
  ASSUME NEW step \in Nat \ {0}, NEW k \in Int
  PROVE  Nearest(step * k, step) = step * k
<1>1. /\ step * k \in Int /\ step \div 2 \in Int
      /\ 0 <= step \div 2 /\ step \div 2 < step
  BY StepMultiples
<1>2. PICK v \in Int : v = step * k
  BY <1>1
<1>3. step * k <= v + step \div 2 /\ v + step \div 2 < step * k + step
  BY <1>1, <1>2
<1>4. Nearest(v, step) = step * k
  BY <1>3, RoundsTo
<1>5. QED
  BY <1>2, <1>4

\* No value that is not negative is rounded to less than nothing.
LEMMA RoundedNat ==
  ASSUME NEW v \in Nat, NEW step \in Nat \ {0}
  PROVE  Steps(v, step) \in Nat /\ Nearest(v, step) \in Nat
<1> DEFINE k == Steps(v, step)
<1>1. k \in Int /\ v + step \div 2 < step * k + step /\ step \div 2 \in Nat
  BY Rounding DEF Nearest
<1>2. ASSUME k < 0 PROVE FALSE
  <2>1. k + 1 <= 0
    BY <1>1, <1>2
  <2>2. step * (k + 1) = step * k + step /\ step * (k + 1) <= 0
    BY <1>1, <2>1
  <2>3. QED
    BY <1>1, <2>2
<1>3. k \in Nat
  BY <1>1, <1>2
<1>4. QED
  BY <1>3 DEF Nearest

\* What is added to a multiple of the step is rounded for itself.
LEMMA RoundedAbove ==
  ASSUME NEW step \in Nat \ {0}, NEW b \in Int, Nearest(b, step) = b, NEW x \in Int
  PROVE  Nearest(b + x, step) = b + Nearest(x, step)
<1> DEFINE m == Steps(b, step)
           k == Steps(x, step)
<1>1. /\ m \in Int /\ b = step * m
      /\ k \in Int /\ Nearest(x, step) = step * k
      /\ step * k <= x + step \div 2 /\ x + step \div 2 < step * k + step
  BY Rounding DEF Nearest
<1> HIDE DEF m, k
<1>2. step * (m + k) = step * m + step * k /\ m + k \in Int /\ step * m \in Int /\ step * k \in Int
  BY <1>1, StepMultiples
<1>3. /\ step * (m + k) <= (b + x) + step \div 2
      /\ (b + x) + step \div 2 < step * (m + k) + step
  BY <1>1, <1>2
<1>4. Nearest(b + x, step) = step * (m + k)
  BY <1>2, <1>3, RoundsTo
<1>5. QED
  BY <1>1, <1>2, <1>4

\* What is taken from one too, unless it lies in the middle between two steps: then the
\* rest is rounded up as well.
LEMMA RoundedBelow ==
  ASSUME NEW step \in Nat \ {0}, NEW b \in Int, Nearest(b, step) = b, NEW x \in Int
  PROVE  Nearest(b - x, step) =
           b - Nearest(x, step) + (IF 2 * (Nearest(x, step) - x) = step THEN step ELSE 0)
<1> DEFINE m == Steps(b, step)
           k == Steps(x, step)
<1>1. /\ m \in Int /\ b = step * m
      /\ k \in Int /\ Nearest(x, step) = step * k
      /\ step * k <= x + step \div 2 /\ x + step \div 2 < step * k + step
  BY Rounding DEF Nearest
<1> HIDE DEF m, k
<1>2. /\ m - k \in Int /\ m - k + 1 \in Int /\ step * m \in Int /\ step * k \in Int
      /\ step * (m - k) = step * m - step * k
      /\ step * (m - k + 1) = step * m - step * k + step
  BY <1>1, StepMultiples
<1>3. step = 2 * (step \div 2) \/ step = 2 * (step \div 2) + 1
  OBVIOUS
<1>4. CASE 2 * (step * k - x) = step
  <2>1. /\ step * (m - k + 1) <= (b - x) + step \div 2
        /\ (b - x) + step \div 2 < step * (m - k + 1) + step
    BY <1>1, <1>2, <1>3, <1>4
  <2>2. Nearest(b - x, step) = step * (m - k + 1)
    BY <1>2, <2>1, RoundsTo
  <2>3. QED
    BY <1>1, <1>2, <1>4, <2>2
<1>5. CASE 2 * (step * k - x) # step
  <2>1. /\ step * (m - k) <= (b - x) + step \div 2
        /\ (b - x) + step \div 2 < step * (m - k) + step
    BY <1>1, <1>2, <1>3, <1>5
  <2>2. Nearest(b - x, step) = step * (m - k)
    BY <1>2, <2>1, RoundsTo
  <2>3. QED
    BY <1>1, <1>2, <1>5, <2>2
<1>6. QED
  BY <1>4, <1>5

\* What is parsed is not negative, and exact for numbers that an f64 holds.
LEMMA ParsedNat ==
  ASSUME NEW a \in Nat, NEW precision \in Nat \ {0}, NEW x \in Parsed(a, precision)
  PROVE  /\ x \in Nat /\ a \div precision \in Nat
         /\ a - a \div precision <= x /\ x <= a + a \div precision
<1>1. precision * (a \div precision) <= a /\ a \div precision \in Int
      /\ a < precision * (a \div precision) + precision
  BY Quotient
<1>2. a \div precision \in Nat
  OBVIOUS
<1>3. a \div precision <= a
  <2> PICK q \in Nat : q = a \div precision
    BY <1>2
  <2>1. q <= precision * q
    OBVIOUS
  <2>2. QED
    BY <1>1, <2>1
<1>4. QED
  BY <1>2, <1>3 DEF Parsed
=============================================================================
