---------------------------- MODULE RewriteProofs ----------------------------
(***************************************************************************)
(* Theorems about my_opt_rewrite.cc, for covers and netlists of any size.   *)
(* First the algebraic division: it rests on what the test that each        *)
(* candidate for the quotient has to pass amounts to.  Then the loop: every *)
(* iteration keeps the function of every signal.  The argument goes from a  *)
(* root down to its leaves (the closure is the least set that is closed,    *)
(* and without loops every signal has one value), on to the cover, which    *)
(* the factorization keeps, and up again through the pieces of new logic    *)
(* that are built from it, under names that no other signal has.            *)
(***************************************************************************)
EXTENDS Rewrite, FiniteSetTheorems, FunctionTheorems, NaturalsInduction,
        WellFoundedInduction, SequenceTheorems, TLAPS

\* Every product of quotient and divisor is a consistent cube of the dividend.
LEMMA ProductsAreCubes ==
  ASSUME NEW dividend, NEW divisor, NEW first,
         NEW q \in quotient(dividend, divisor, first), NEW d \in divisor
  PROVE  consistent(q \cup d) /\ q \cup d \in dividend
  BY DEF quotient

\* The division is exact: nothing is lost and nothing is covered twice.
LEMMA DivisionLaws ==
  ASSUME NEW dividend, NEW divisor, NEW first,
         NEW r, r = algebraic_division(dividend, divisor, first)
  PROVE  LET products == covered_products(r.quotient, divisor)
         IN  /\ products \cap r.remainder = {}
             /\ products \cup r.remainder = dividend
             /\ \A cube \in products : consistent(cube)
<1>1. r.quotient = quotient(dividend, divisor, first)
  BY DEF algebraic_division
<1>2. r.remainder = dividend \ covered_products(r.quotient, divisor)
  BY DEF algebraic_division
<1>3. \A cube \in covered_products(r.quotient, divisor) :
        consistent(cube) /\ cube \in dividend
  BY <1>1, ProductsAreCubes DEF covered_products
<1> QED BY <1>2, <1>3

\* The invariant of the runs: behind every candidate, of every root, in every
\* module that the loop passes through, the division is exact.
THEOREM DivisionIsExact == Spec => []DivisionExact
<1>1. DivisionExact
  <2> SUFFICES ASSUME NEW cover, NEW f \in candidates(cover, MaxKernelLiterals)
               PROVE  LET products == covered_products(f.quotient, f.divisor)
                      IN  /\ products \cap f.remainder = {}
                          /\ products \cup f.remainder = cover
                          /\ \A cube \in products : consistent(cube)
    BY DEF DivisionExact
  <2>1. PICK d, first, r :
          /\ r = algebraic_division(cover, d, first)
          /\ f.divisor = d /\ f.quotient = r.quotient /\ f.remainder = r.remainder
    BY DEF candidates, factorization
  <2> QED BY <2>1, DivisionLaws
<1> QED BY <1>1, PTL

\* The quotient is the largest one: every cube that shares no literal with the
\* first cube of the divisor and whose products are all in the dividend is in it.
\* Which cube comes first matters only for quotients that share literals.
THEOREM QuotientIsLargest ==
  ASSUME NEW dividend, NEW divisor, NEW first \in divisor, NEW q, q \cap first = {},
         \A d \in divisor : consistent(q \cup d) /\ q \cup d \in dividend
  PROVE  q \in quotient(dividend, divisor, first)
<1>1. q \cup first \in {c \in dividend : contains(c, first)}
  BY DEF contains
<1>2. q = (q \cup first) \ first
  OBVIOUS
<1> QED BY <1>1, <1>2 DEF quotient

-----------------------------------------------------------------------------

\* The function of a cover under an $or root and under an $and root, where m gives
\* the values of the signals and a literal <<x, neg>> holds if m[x] # neg.
holds(l, m) == m[l[1]] # l[2]
sum_of_products(cover, m) == \E cube \in cover : \A l \in cube : holds(l, m)
product_of_sums(cover, m) == \A cube \in cover : \E l \in cube : holds(l, m)

\* quotient * divisor + remainder computes what the dividend does: the factored
\* form of an $or root, and, with sums and products exchanged, of an $and root.
THEOREM FactoringKeepsFunction ==
  ASSUME NEW dividend, NEW divisor, NEW first, NEW m, NEW r,
         r = algebraic_division(dividend, divisor, first)
  PROVE  /\ sum_of_products(dividend, m)
              <=> \/ sum_of_products(r.quotient, m) /\ sum_of_products(divisor, m)
                  \/ sum_of_products(r.remainder, m)
         /\ product_of_sums(dividend, m)
              <=> /\ product_of_sums(r.quotient, m) \/ product_of_sums(divisor, m)
                  /\ product_of_sums(r.remainder, m)
<1> DEFINE products == covered_products(r.quotient, divisor)
<1>1. products \cup r.remainder = dividend
  BY DivisionLaws
<1>2. \A x \in r.quotient, d \in divisor : x \cup d \in products
  BY DEF covered_products
<1>3. \A cube \in products : \E x \in r.quotient, d \in divisor : cube = x \cup d
  BY DEF covered_products
<1> HIDE DEF products
<1>4. sum_of_products(products, m)
        <=> sum_of_products(r.quotient, m) /\ sum_of_products(divisor, m)
  <2>1. ASSUME NEW x \in r.quotient, NEW d \in divisor,
               \A l \in x : holds(l, m), \A l \in d : holds(l, m)
        PROVE  \A l \in x \cup d : holds(l, m)
    BY <2>1
  <2>2. ASSUME NEW x, NEW d, \A l \in x \cup d : holds(l, m)
        PROVE  (\A l \in x : holds(l, m)) /\ (\A l \in d : holds(l, m))
    BY <2>2
  <2>3. ASSUME sum_of_products(r.quotient, m), sum_of_products(divisor, m)
        PROVE  sum_of_products(products, m)
    <3>1. PICK x \in r.quotient : \A l \in x : holds(l, m)
      BY <2>3 DEF sum_of_products
    <3>2. PICK d \in divisor : \A l \in d : holds(l, m)
      BY <2>3 DEF sum_of_products
    <3>3. x \cup d \in products /\ \A l \in x \cup d : holds(l, m)
      BY <1>2, <2>1, <3>1, <3>2
    <3> QED BY <3>3 DEF sum_of_products
  <2>4. ASSUME sum_of_products(products, m)
        PROVE  sum_of_products(r.quotient, m) /\ sum_of_products(divisor, m)
    <3>1. PICK cube \in products : \A l \in cube : holds(l, m)
      BY <2>4 DEF sum_of_products
    <3>2. PICK x \in r.quotient, d \in divisor : cube = x \cup d
      BY <1>3, <3>1
    <3> QED BY <2>2, <3>1, <3>2 DEF sum_of_products
  <2> QED BY <2>3, <2>4
<1>5. product_of_sums(products, m)
        <=> product_of_sums(r.quotient, m) \/ product_of_sums(divisor, m)
  <2>1. ASSUME NEW x, NEW d
        PROVE  (\E l \in x \cup d : holds(l, m))
                 <=> (\E l \in x : holds(l, m)) \/ (\E l \in d : holds(l, m))
    OBVIOUS
  <2>2. ASSUME product_of_sums(products, m), ~product_of_sums(r.quotient, m)
        PROVE  product_of_sums(divisor, m)
    <3>1. PICK x \in r.quotient : ~ \E l \in x : holds(l, m)
      BY <2>2 DEF product_of_sums
    <3>2. ASSUME NEW d \in divisor
          PROVE  \E l \in d : holds(l, m)
      BY <1>2, <2>1, <2>2, <3>1 DEF product_of_sums
    <3> QED BY <3>2 DEF product_of_sums
  <2>3. ASSUME product_of_sums(r.quotient, m) \/ product_of_sums(divisor, m)
        PROVE  product_of_sums(products, m)
    <3>1. ASSUME NEW cube \in products
          PROVE  \E l \in cube : holds(l, m)
      <4>1. PICK x \in r.quotient, d \in divisor : cube = x \cup d
        BY <1>3
      <4>2. (\E l \in x : holds(l, m)) \/ (\E l \in d : holds(l, m))
        BY <2>3 DEF product_of_sums
      <4> QED BY <2>1, <4>1, <4>2
    <3> QED BY <3>1 DEF product_of_sums
  <2> QED BY <2>2, <2>3
<1> QED BY <1>1, <1>4, <1>5 DEF sum_of_products, product_of_sums

-----------------------------------------------------------------------------
(* Sets and sequences of sets.                                            *)

\* A nonempty set of natural numbers has a least one.
LEMMA LeastNatural ==
  ASSUME NEW S \in SUBSET Nat, S # {}
  PROVE  \E n \in S : \A k \in S : n <= k
<1> DEFINE R == {p \in Nat \X Nat : p[1] < p[2]}
<1>1. PICK n \in S : \A k \in S : <<k, n>> \notin R
  <2>1. IsWellFoundedOn(R, Nat)
    BY NatLessThanWellFounded DEF OpToRel
  <2> HIDE DEF R
  <2> QED  BY <2>1, WFMin
<1>2. \A k \in S : ~(k < n)
  BY <1>1
<1> QED  BY <1>2

\* A nonempty family of subsets of a finite set has a minimal member.
LEMMA MinimalSubset ==
  ASSUME NEW U, IsFiniteSet(U), NEW T \in SUBSET SUBSET U, T # {}
  PROVE  \E X \in T : \A Y \in T : Y \subseteq X => Y = X
<1>1. IsWellFoundedOn(StrictSubsetOrdering(U), SUBSET U)
  BY FS_StrictSubsetOrderingWellFounded, FS_FiniteSubsetsOfFinite
<1>2. PICK X \in T : \A Y \in T : <<Y, X>> \notin StrictSubsetOrdering(U)
  BY <1>1, WFMin
<1>3. X \in SUBSET U /\ \A Y \in T : Y \in SUBSET U
  OBVIOUS
<1>4. ASSUME NEW Y \in T, Y \subseteq X, Y # X PROVE FALSE
  BY <1>2, <1>3, <1>4 DEF StrictSubsetOrdering
<1> QED  BY <1>4

\* The image of a finite set under a function is finite, and smaller only if the
\* function takes two elements to the same one.
LEMMA FiniteImage ==
  ASSUME NEW S, IsFiniteSet(S), NEW f, DOMAIN f = S, NEW T, T = {f[x] : x \in S}
  PROVE  /\ IsFiniteSet(T)
         /\ (\A x, y \in S : f[x] = f[y] => x = y) => Cardinality(T) = Cardinality(S)
<1> DEFINE g == [x \in S |-> f[x]]
<1>1. g \in [S -> T] /\ \A x \in S : g[x] = f[x]
  OBVIOUS
<1> HIDE DEF g
<1>2. g \in Surjection(S, T)
  BY <1>1 DEF Surjection
<1>3. (\A x, y \in S : f[x] = f[y] => x = y) => g \in Injection(S, T)
  BY <1>1 DEF Injection, IsInjective
<1> QED  BY <1>2, <1>3, FS_Surjection

\* There is a sequence of sets that begins with a set and goes on by a function.
Iterates(f, a, h) == f = [n \in Nat |-> IF n = 0 THEN a ELSE h[f[n - 1]]]

\* A sequence that is defined by its first element and a step exists.
LEMMA IterationExists ==
  ASSUME NEW A, NEW a \in A, NEW h \in [A -> A]
  PROVE  \E f \in [Nat -> A] : Iterates(f, a, h)
<1> DEFINE Upto(g, n) == /\ g \in [0 .. n -> A] /\ g[0] = a
                         /\ \A i \in 1 .. n : g[i] = h[g[i - 1]]
           T == {n \in Nat : ~\E g : Upto(g, n)}
<1>1. T = {}
  <2> SUFFICES ASSUME T # {} PROVE FALSE
    OBVIOUS
  <2>1. PICK n \in T : \A m \in T : n <= m
    <3>1. T \in SUBSET Nat
      OBVIOUS
    <3> HIDE DEF T
    <3> QED  BY <3>1, LeastNatural
  <2>2. n # 0
    <3>1. Upto([i \in 0 .. 0 |-> a], 0)
      OBVIOUS
    <3> QED  BY <2>1, <3>1
  <2>3. n - 1 \in Nat /\ n - 1 \notin T /\ n \in Nat
    <3>1. n \in Nat
      BY <2>1
    <3> HIDE DEF T
    <3> QED  BY <2>1, <2>2, <3>1
  <2>4. PICK g : Upto(g, n - 1)
    BY <2>3
  <2> DEFINE f == [i \in 0 .. n |-> IF i = n THEN h[g[n - 1]] ELSE g[i]]
  <2>5. g[n - 1] \in A /\ h[g[n - 1]] \in A
    BY <2>3, <2>4
  <2>6. f \in [0 .. n -> A] /\ f[0] = a /\ f[n] = h[f[n - 1]]
    BY <2>2, <2>3, <2>4, <2>5
  <2>7. \A i \in 1 .. n : f[i] = h[f[i - 1]]
    <3> SUFFICES ASSUME NEW i \in 1 .. n, i # n PROVE f[i] = h[f[i - 1]]
      BY <2>6
    <3>1. i \in 1 .. n - 1 /\ i \in 0 .. n /\ i - 1 \in 0 .. n /\ i - 1 # n
      BY <2>3
    <3> QED  BY <2>4, <3>1
  <2>8. Upto(f, n)
    <3> HIDE DEF f
    <3> QED  BY <2>6, <2>7
  <2> QED  BY <2>1, <2>8
<1> DEFINE G == [n \in Nat |-> CHOOSE g : Upto(g, n)]
           f == [n \in Nat |-> G[n][n]]
<1>2. \A n \in Nat : Upto(G[n], n)
  BY <1>1
<1> HIDE DEF G
<1>3. ASSUME NEW n \in Nat, NEW m \in Nat, n <= m
      PROVE  G[m][n] = G[n][n]
  <2> DEFINE D == {i \in 0 .. n : G[m][i] # G[n][i]}
  <2> SUFFICES ASSUME D # {} PROVE FALSE
    BY <1>3
  <2>1. PICK i \in D : \A j \in D : i <= j
    <3>1. D \in SUBSET Nat
      OBVIOUS
    <3> HIDE DEF D
    <3> QED  BY <3>1, LeastNatural
  <2>2. i # 0
    BY <1>2, <2>1
  <2>3. i \in 1 .. n /\ i \in 1 .. m /\ i - 1 \in 0 .. n /\ i - 1 \notin D
    BY <1>3, <2>1, <2>2
  <2> QED  BY <1>2, <2>1, <2>3
<1>4. ASSUME NEW n \in Nat PROVE f[n] \in A
  <2>1. Upto(G[n], n)
    BY <1>2
  <2> QED  BY <2>1
<1>5. ASSUME NEW n \in Nat, n # 0 PROVE f[n] = h[f[n - 1]]
  <2>1. n - 1 \in Nat /\ n \in 1 .. n /\ n - 1 <= n
    BY <1>5
  <2>2. Upto(G[n], n) /\ G[n][n - 1] = G[n - 1][n - 1]
    BY <1>2, <1>3, <2>1
  <2> QED  BY <2>1, <2>2
<1>6. f[0] = a
  BY <1>2
<1>7. f \in [Nat -> A]
  BY <1>4
<1> HIDE DEF f
<1> QED  BY <1>5, <1>6, <1>7 DEF Iterates

-----------------------------------------------------------------------------
(* The closure of a signal.                                                *)

Name == Seq(Nat)
Cells == [type : {"$and", "$or", "$not"}, a : Name, b : Name, y : Name]

spread(netlist, type, X) ==
  X \cup UNION {operands(c) : c \in {d \in netlist : d.type = type /\ d.y \in X}}

\* The sets that `closure' iterates.
Reaches(f, netlist, type, sig) ==
  /\ f \in [Nat -> SUBSET Name] /\ f[0] = {sig}
  /\ \A n \in Nat : f[n + 1] = spread(netlist, type, f[n])
  /\ closure(netlist, type, sig) = f[Cardinality(netlist)]

\* `closure' is the last set of such a sequence.
LEMMA ClosureIterates ==
  ASSUME NEW N, N \subseteq Cells, NEW type, NEW sig \in Name
  PROVE  \E f : Reaches(f, N, type, sig)
<1> DEFINE h == [X \in SUBSET Name |-> spread(N, type, X)]
           Eq(f) == f = [n \in Nat |-> IF n = 0 THEN {sig} ELSE spread(N, type, f[n - 1])]
           F == CHOOSE f : Eq(f)
<1>1. h \in [SUBSET Name -> SUBSET Name]
  BY DEF spread, operands, Cells
<1>2. PICK g \in [Nat -> SUBSET Name] : Iterates(g, {sig}, h)
  <2>1. {sig} \in SUBSET Name
    OBVIOUS
  <2> HIDE DEF h
  <2> QED  BY <1>1, <2>1, IterationExists
<1>3. Eq(g)
  <2>1. g = [n \in Nat |-> IF n = 0 THEN {sig} ELSE h[g[n - 1]]]
    BY <1>2 DEF Iterates
  <2>2. \A n \in Nat : n # 0 => n - 1 \in Nat /\ h[g[n - 1]] = spread(N, type, g[n - 1])
    BY <1>2
  <2> HIDE DEF h
  <2> QED  BY <2>1, <2>2
<1>4. Eq(F)
  <2> HIDE DEF Eq
  <2> QED  BY <1>3
<1>5. closure(N, type, sig) = F[Cardinality(N)]
  BY DEF closure, spread
<1> HIDE DEF F
<1>6. F[0] = {sig} /\ \A n \in Nat : F[n + 1] = spread(N, type, F[n])
  <2>1. F[0] = {sig}
    BY <1>4
  <2>2. ASSUME NEW n \in Nat PROVE F[n + 1] = spread(N, type, F[n])
    <3>1. n + 1 \in Nat /\ n + 1 # 0 /\ (n + 1) - 1 = n
      OBVIOUS
    <3> QED  BY <1>4, <3>1
  <2> QED  BY <2>1, <2>2
<1>7. F \in [Nat -> SUBSET Name]
  <2> DEFINE T == {n \in Nat : F[n] \notin SUBSET Name}
  <2>1. T = {}
    <3> SUFFICES ASSUME T # {} PROVE FALSE
      OBVIOUS
    <3>1. PICK n \in T : \A m \in T : n <= m
      <4>1. T \in SUBSET Nat
        OBVIOUS
      <4> HIDE DEF T
      <4> QED  BY <4>1, LeastNatural
    <3>2. n # 0
      BY <1>6, <3>1
    <3>3. n - 1 \in Nat /\ n - 1 \notin T /\ (n - 1) + 1 = n
      BY <3>1, <3>2
    <3>4. F[n - 1] \in SUBSET Name /\ F[n] = spread(N, type, F[n - 1])
      BY <1>6, <3>3
    <3>5. F[n] \in SUBSET Name
      BY <3>4 DEF spread, operands, Cells
    <3> QED  BY <3>1, <3>5
  <2>2. DOMAIN F = Nat /\ F = [n \in Nat |-> F[n]]
    BY <1>4
  <2> QED  BY <2>1, <2>2
<1> QED  BY <1>5, <1>6, <1>7 DEF Reaches

\* The closure is the least set with the signal that is closed under the operands of
\* the cells of the type: as many steps as there are cells are enough.
LEMMA ClosureIsLeast ==
  ASSUME NEW N, IsFiniteSet(N), N \subseteq Cells, NEW type, NEW sig \in Name,
         NEW C, C = closure(N, type, sig)
  PROVE  /\ sig \in C /\ C \subseteq Name
         /\ \A c \in N : c.type = type /\ c.y \in C => operands(c) \subseteq C
         /\ \A W : (/\ sig \in W
                    /\ \A c \in N : c.type = type /\ c.y \in W => operands(c) \subseteq W)
                   => C \subseteq W
<1>a. PICK f : Reaches(f, N, type, sig)
  BY ClosureIterates
<1>1. /\ f \in [Nat -> SUBSET Name] /\ f[0] = {sig}
      /\ \A n \in Nat : f[n + 1] = spread(N, type, f[n])
  BY <1>a DEF Reaches
<1>0. C = f[Cardinality(N)]
  BY <1>a DEF Reaches
<1> DEFINE k == Cardinality(N)
           met(n) == {c \in N : c.type = type /\ c.y \in f[n]}
           next(n) == UNION {operands(c) : c \in met(n)}
<1>2. k \in Nat
  BY FS_CardinalityType
<1>3. \A n \in Nat : f[n + 1] = f[n] \cup next(n)
  BY <1>1 DEF spread
<1>4. \A n \in Nat : IsFiniteSet(met(n)) /\ Cardinality(met(n)) \in Nat /\ Cardinality(met(n)) <= k
  BY FS_Subset, FS_CardinalityType
<1>5. \A n \in Nat : Cardinality(met(n)) < n + 1 => next(n) \subseteq f[n]
  <2> DEFINE T == {n \in Nat : Cardinality(met(n)) < n + 1 /\ ~(next(n) \subseteq f[n])}
  <2> SUFFICES ASSUME T # {} PROVE FALSE
    OBVIOUS
  <2>1. PICK n \in T : \A m \in T : n <= m
    <3>1. T \in SUBSET Nat
      OBVIOUS
    <3> HIDE DEF T
    <3> QED  BY <3>1, LeastNatural
  <2>2. n \in Nat /\ Cardinality(met(n)) < n + 1 /\ ~(next(n) \subseteq f[n])
    BY <2>1
  <2>3. n # 0
    <3> SUFFICES ASSUME n = 0 PROVE FALSE
      OBVIOUS
    <3>1. Cardinality(met(n)) = 0
      BY <1>4, <2>2
    <3>2. met(n) = {}
      <4> HIDE DEF met
      <4> QED  BY <1>4, <2>2, <3>1, FS_EmptySet
    <3> QED  BY <2>2, <3>2
  <2>4. n - 1 \in Nat /\ n - 1 \notin T /\ (n - 1) + 1 = n
    BY <2>1, <2>2, <2>3
  <2>5. f[n] = f[n - 1] \cup next(n - 1)
    BY <1>3, <2>4
  <2>6. met(n - 1) \subseteq met(n)
    BY <2>5
  <2>7. Cardinality(met(n - 1)) <= Cardinality(met(n))
        /\ (Cardinality(met(n - 1)) = Cardinality(met(n)) => met(n - 1) = met(n))
    <3> HIDE DEF met
    <3> QED  BY <1>4, <2>2, <2>6, FS_Subset
  <2>8. met(n - 1) = met(n)
    <3>1. CASE next(n - 1) \subseteq f[n - 1]
      <4>1. f[n] = f[n - 1]
        <5> HIDE DEF next
        <5> QED  BY <2>5, <3>1
      <4> QED  BY <4>1
    <3>2. CASE ~(next(n - 1) \subseteq f[n - 1])
      <4>1. ~(Cardinality(met(n - 1)) < (n - 1) + 1)
        <5> HIDE DEF met, next
        <5> QED  BY <2>4, <3>2
      <4> HIDE DEF met, next
      <4> QED  BY <1>4, <2>2, <2>4, <2>7, <4>1
    <3> QED  BY <3>1, <3>2
  <2>9. next(n) = next(n - 1)
    BY <2>8
  <2> HIDE DEF next, met
  <2> QED  BY <2>2, <2>5, <2>9
<1>6. next(k) \subseteq f[k]
  <2>1. Cardinality(met(k)) < k + 1
    <3> HIDE DEF met
    <3> QED  BY <1>2, <1>4
  <2> HIDE DEF next, met
  <2> QED  BY <1>2, <1>5, <2>1
<1>7. \A n \in Nat : f[n] \subseteq f[n + 1]
  BY <1>3
<1>8. sig \in C
  <2> DEFINE T == {n \in Nat : sig \notin f[n]}
  <2>1. T = {}
    <3> SUFFICES ASSUME T # {} PROVE FALSE
      OBVIOUS
    <3>1. PICK n \in T : \A m \in T : n <= m
      <4>1. T \in SUBSET Nat
        OBVIOUS
      <4> HIDE DEF T
      <4> QED  BY <4>1, LeastNatural
    <3>2. n # 0
      BY <1>1, <3>1
    <3>3. n - 1 \in Nat /\ n - 1 \notin T /\ (n - 1) + 1 = n
      BY <3>1, <3>2
    <3>4. sig \in f[n - 1] /\ f[n - 1] \subseteq f[n]
      BY <1>7, <3>3
    <3> QED  BY <3>1, <3>4
  <2> QED  BY <1>0, <1>2, <2>1
<1>9. C \subseteq Name
  BY <1>0, <1>1, <1>2
<1>10. \A c \in N : c.type = type /\ c.y \in C => operands(c) \subseteq C
  BY <1>0, <1>6
<1>11. ASSUME NEW W, sig \in W,
              \A c \in N : c.type = type /\ c.y \in W => operands(c) \subseteq W
       PROVE  C \subseteq W
  <2> DEFINE T == {n \in Nat : ~(f[n] \subseteq W)}
  <2>1. T = {}
    <3> SUFFICES ASSUME T # {} PROVE FALSE
      OBVIOUS
    <3>1. PICK n \in T : \A m \in T : n <= m
      <4>1. T \in SUBSET Nat
        OBVIOUS
      <4> HIDE DEF T
      <4> QED  BY <4>1, LeastNatural
    <3>2. n # 0
      BY <1>1, <1>11, <3>1
    <3>3. n - 1 \in Nat /\ n - 1 \notin T /\ (n - 1) + 1 = n
      BY <3>1, <3>2
    <3>4. f[n - 1] \subseteq W /\ f[n] = f[n - 1] \cup next(n - 1)
      BY <1>3, <3>3
    <3>5. next(n - 1) \subseteq W
      BY <1>11, <3>4
    <3> HIDE DEF next
    <3> QED  BY <3>1, <3>4, <3>5
  <2> QED  BY <1>0, <1>2, <2>1
<1> QED  BY <1>8, <1>9, <1>10, <1>11

-----------------------------------------------------------------------------
(* What a module computes, as the set of its true signals.                 *)

WellMade(N, I) ==
  /\ IsFiniteSet(N) /\ N \subseteq Cells /\ I \subseteq Name
  /\ \A c, d \in N : c.y = d.y => c = d
  /\ \A c \in N : operands(c) \subseteq driven(N) \cup I \cup Constants
  /\ driven(N) \cap (I \cup Constants) = {} /\ I \cap Constants = {}
  /\ loop_free(N)

\* The output that a cell has if the signals in T are true.
on(c, T) ==
  \/ c.type = "$and" /\ c.a \in T /\ c.b \in T
  \/ c.type = "$or" /\ (c.a \in T \/ c.b \in T)
  \/ c.type = "$not" /\ c.a \notin T

Holds(netlist, T) == \A c \in netlist : c.y \in T <=> on(c, T)

Given(I, input, T) ==
  One \in T /\ Zero \notin T /\ \A x \in I : x \in T <=> input[x] = TRUE

Computes(T, N, I, input) == Given(I, input, T) /\ Holds(N, T)

\* Without loops there is such a set: the cells are evaluated one after the other,
\* each after those it reads.
LEMMA TruthExists ==
  ASSUME NEW N, NEW I, WellMade(N, I), NEW input
  PROVE  \E T : Computes(T, N, I, input)
<1> DEFINE Left(E) == /\ \A c \in N \ E : operands(c) \cap driven(E) = {}
                      /\ \E T : Given(I, input, T) /\ Holds(N \ E, T)
           F == {E \in SUBSET N : Left(E)}
<1>1. Left(N)
  <2> DEFINE T == {One} \cup {x \in I : input[x] = TRUE}
  <2>1. Zero # One
    BY DEF Zero, One
  <2>2. Given(I, input, T)
    BY <2>1 DEF Given, WellMade, Constants
  <2>3. N \ N = {}
    OBVIOUS
  <2>4. Holds(N \ N, T)
    BY <2>3 DEF Holds
  <2> HIDE DEF T
  <2> QED  BY <2>2, <2>3, <2>4
<1>2. PICK E \in F : \A D \in F : D \subseteq E => D = E
  <2>1. IsFiniteSet(N) /\ F \in SUBSET SUBSET N /\ N \in F
    BY <1>1 DEF WellMade
  <2> HIDE DEF F
  <2> QED  BY <2>1, MinimalSubset
<1>3. E \in SUBSET N /\ Left(E)
  BY <1>2
<1>4. PICK T : Given(I, input, T) /\ Holds(N \ E, T)
  BY <1>3
<1>5. CASE E = {}
  BY <1>4, <1>5 DEF Computes
<1>6. CASE E # {}
  <2>1. PICK c \in E : operands(c) \cap driven(E) = {}
    BY <1>3, <1>6 DEF WellMade, loop_free
  <2> DEFINE D == E \ {c}
             S == IF on(c, T) THEN T \cup {c.y} ELSE T \ {c.y}
  <2>2. c \in N /\ c.y \notin I \cup Constants /\ c.y \in driven(E)
    BY <1>3, <2>1 DEF WellMade, driven
  <2>3. Given(I, input, S)
    BY <1>4, <2>2 DEF Given, Constants
  <2>4. \A d \in N \ D : c.y \notin operands(d)
    BY <1>3, <2>1, <2>2
  <2>5. \A x : x # c.y => (x \in S <=> x \in T)
    OBVIOUS
  <2>6. c.y \in S <=> on(c, T)
    OBVIOUS
  <2> HIDE DEF S
  <2>7. \A d \in N \ D : on(d, S) <=> on(d, T)
    BY <2>4, <2>5 DEF on, operands
  <2>8. Holds(N \ D, S)
    <3> SUFFICES ASSUME NEW d \in N \ D PROVE d.y \in S <=> on(d, S)
      BY DEF Holds
    <3>1. CASE d = c
      BY <2>6, <2>7, <3>1
    <3>2. CASE d # c
      <4>1. d.y # c.y /\ d \in N \ E
        BY <2>2, <3>2 DEF WellMade
      <4>2. d.y \in T <=> on(d, T)
        BY <1>4, <4>1 DEF Holds
      <4> QED  BY <2>5, <2>7, <4>1, <4>2
    <3> QED  BY <3>1, <3>2
  <2>9. \A d \in N \ D : operands(d) \cap driven(D) = {}
    BY <1>3, <2>1 DEF driven
  <2>10. D \in F
    BY <1>3, <2>3, <2>8, <2>9
  <2>11. D # E /\ D \subseteq E
    BY <2>1
  <2> HIDE DEF D, F
  <2> QED  BY <1>2, <2>10, <2>11
<1> QED  BY <1>5, <1>6

signals(N, input) ==
  Constants \cup DOMAIN input \cup UNION {operands(c) \cup {c.y} : c \in N}

\* One step of the recursion in `Values'.
value_of(N, input, f, x) ==
  IF x \in Constants THEN x = One
  ELSE IF x \in DOMAIN input THEN input[x]
  ELSE LET c == CHOOSE c \in N : c.y = x
       IN  CASE c.type = "$and" -> f[c.a] /\ f[c.b]
             [] c.type = "$or"  -> f[c.a] \/ f[c.b]
             [] c.type = "$not" -> ~f[c.a]

\* The step of the recursion at the output of a cell.
LEMMA ValueOfCell ==
  ASSUME NEW N, NEW I, WellMade(N, I), NEW input \in [I -> BOOLEAN], NEW f, NEW c \in N
  PROVE  /\ c.type = "$and" => value_of(N, input, f, c.y) = (f[c.a] /\ f[c.b])
         /\ c.type = "$or" => value_of(N, input, f, c.y) = (f[c.a] \/ f[c.b])
         /\ c.type = "$not" => value_of(N, input, f, c.y) = ~f[c.a]
<1>1. c.y \notin Constants /\ c.y \notin DOMAIN input
  BY DEF WellMade, driven
<1>2. (CHOOSE d \in N : d.y = c.y) = c
  BY DEF WellMade
<1>3. value_of(N, input, f, c.y) = CASE c.type = "$and" -> f[c.a] /\ f[c.b]
                                     [] c.type = "$or"  -> f[c.a] \/ f[c.b]
                                     [] c.type = "$not" -> ~f[c.a]
  BY <1>1, <1>2 DEF value_of
<1> QED  BY <1>3

\* The step of the recursion at the constants, and the signals it ranges over.
LEMMA ValueOfOther ==
  ASSUME NEW N, NEW I, WellMade(N, I), NEW input \in [I -> BOOLEAN], NEW f
  PROVE  /\ value_of(N, input, f, One) = TRUE /\ value_of(N, input, f, Zero) = FALSE
         /\ signals(N, input) = Constants \cup I \cup driven(N)
<1>1. One # Zero
  BY DEF One, Zero
<1>2. DOMAIN input = I
  OBVIOUS
<1>3. signals(N, input) = Constants \cup I \cup driven(N)
  BY <1>2 DEF signals, driven, WellMade
<1> QED  BY <1>1, <1>3 DEF value_of, Constants

\* The step of the recursion at an input.
LEMMA ValueOfInput ==
  ASSUME NEW N, NEW I, WellMade(N, I), NEW input \in [I -> BOOLEAN], NEW f, NEW x \in I
  PROVE  value_of(N, input, f, x) = input[x]
<1>1. x \in DOMAIN input /\ x \notin Constants
  BY DEF WellMade
<1> QED  BY <1>1 DEF value_of

\* `Values' is what the true signals say: the CHOOSE behind its recursion has a solution.
LEMMA ValuesCompute ==
  ASSUME NEW N, NEW I, WellMade(N, I), NEW input \in [I -> BOOLEAN]
  PROVE  \E T : Computes(T, N, I, input) /\ \A x \in driven(N) : Values(N, input)[x] = (x \in T)
<1> DEFINE S == signals(N, input)
           Eq(f) == f = [x \in S |-> value_of(N, input, f, x)]
           V == CHOOSE f : Eq(f)
<1>1. Values(N, input) = V
  BY DEF Values, signals, value_of
<1>2. S = Constants \cup I \cup driven(N)
  BY ValueOfOther
<1>3. PICK T : Computes(T, N, I, input)
  BY TruthExists
<1> DEFINE f == [x \in S |-> IF x \in T THEN TRUE ELSE FALSE]
<1>a. \A x \in S : f[x] \in BOOLEAN /\ (f[x] <=> x \in T)
  OBVIOUS
<1>4. Eq(f)
  <2>1. ASSUME NEW x \in S PROVE f[x] = value_of(N, input, f, x)
    <3> HIDE DEF f
    <3>1. CASE x \in Constants
      <4>1. One \in T /\ Zero \notin T
        BY <1>3 DEF Computes, Given
      <4>2. value_of(N, input, f, One) = TRUE /\ value_of(N, input, f, Zero) = FALSE
        BY ValueOfOther, Zenon
      <4>3. CASE x = One
        BY <1>a, <4>1, <4>2, <4>3
      <4>4. CASE x = Zero
        <5>1. f[Zero] = FALSE
          BY <1>a, <4>1, <4>4
        <5> QED  BY <4>2, <4>4, <5>1
      <4> QED  BY <3>1, <4>3, <4>4 DEF Constants
    <3>2. CASE x \in I
      <4>1. x \in T <=> input[x] = TRUE
        BY <1>3, <3>2 DEF Computes, Given
      <4>2. value_of(N, input, f, x) = input[x] /\ input[x] \in BOOLEAN
        BY <3>2, ValueOfInput
      <4> QED  BY <1>a, <4>1, <4>2
    <3>3. CASE x \in driven(N)
      <4>1. PICK c \in N : x = c.y
        BY <3>3 DEF driven
      <4>2. c.a \in S /\ c.b \in S
        BY <1>2 DEF WellMade, operands
      <4>3. c.y \in T <=> on(c, T)
        BY <1>3 DEF Computes, Holds
      <4>4. c.type \in {"$and", "$or", "$not"}
        BY DEF WellMade, Cells
      <4>5. CASE c.type = "$and"
        <5>1. f[c.y] <=> f[c.a] /\ f[c.b]
          BY <1>a, <4>1, <4>2, <4>3, <4>5 DEF on
        <5>2. value_of(N, input, f, c.y) = (f[c.a] /\ f[c.b])
          BY <4>5, ValueOfCell
        <5> QED  BY <1>a, <4>1, <5>1, <5>2
      <4>6. CASE c.type = "$or"
        <5>1. f[c.y] <=> f[c.a] \/ f[c.b]
          BY <1>a, <4>1, <4>2, <4>3, <4>6 DEF on
        <5>2. value_of(N, input, f, c.y) = (f[c.a] \/ f[c.b])
          BY <4>6, ValueOfCell
        <5> QED  BY <1>a, <4>1, <5>1, <5>2
      <4>7. CASE c.type = "$not"
        <5>1. f[c.y] <=> ~f[c.a]
          BY <1>a, <4>1, <4>2, <4>3, <4>7 DEF on
        <5>2. value_of(N, input, f, c.y) = ~f[c.a]
          BY <4>7, ValueOfCell
        <5> QED  BY <1>a, <4>1, <5>1, <5>2
      <4> QED  BY <4>4, <4>5, <4>6, <4>7
    <3> QED  BY <1>2, <3>1, <3>2, <3>3
  <2>2. f = [x \in S |-> f[x]]
    OBVIOUS
  <2> HIDE DEF f, S
  <2> QED  BY <2>1, <2>2
<1>5. Eq(V)
  <2> HIDE DEF Eq, f
  <2> QED  BY <1>4
<1> HIDE DEF V, S
<1>6. \A x \in S : V[x] = value_of(N, input, V, x)
  BY <1>5
<1>7. V[One] = TRUE /\ V[Zero] = FALSE /\ \A x \in I : V[x] = input[x]
  <2>1. One \in S /\ Zero \in S /\ I \subseteq S
    BY <1>2 DEF Constants
  <2>2. /\ value_of(N, input, V, One) = TRUE /\ value_of(N, input, V, Zero) = FALSE
        /\ \A x \in I : value_of(N, input, V, x) = input[x]
    <3>1. value_of(N, input, V, One) = TRUE /\ value_of(N, input, V, Zero) = FALSE
      BY ValueOfOther, Zenon
    <3>2. \A x \in I : value_of(N, input, V, x) = input[x]
      BY ValueOfInput
    <3> QED  BY <3>1, <3>2
  <2>3. V[One] = TRUE
    BY <1>6, <2>1, <2>2
  <2>4. V[Zero] = FALSE
    BY <1>6, <2>1, <2>2
  <2> QED  BY <1>6, <2>1, <2>2, <2>3, <2>4
<1>8. ASSUME NEW c \in N
      PROVE  /\ c.type = "$and" => V[c.y] = (V[c.a] /\ V[c.b])
             /\ c.type = "$or" => V[c.y] = (V[c.a] \/ V[c.b])
             /\ c.type = "$not" => V[c.y] = ~V[c.a]
             /\ c.type \in {"$and", "$or", "$not"}
             /\ c.a \in S /\ c.b \in S /\ c.y \in S
  <2>1. c.y \in S /\ c.a \in S /\ c.b \in S
    BY <1>2 DEF driven, WellMade, operands
  <2>2. V[c.y] = value_of(N, input, V, c.y)
    BY <1>6, <2>1
  <2>3. c.type \in {"$and", "$or", "$not"}
    BY DEF WellMade, Cells
  <2> QED  BY <2>1, <2>2, <2>3, ValueOfCell
<1>9. \A x \in S : V[x] \in BOOLEAN
  <2>1. \A x \in I : V[x] \in BOOLEAN
    BY <1>7
  <2>2. ASSUME NEW c \in N PROVE V[c.y] \in BOOLEAN
    BY <1>8
  <2> QED  BY <1>2, <1>7, <2>1, <2>2 DEF driven, Constants
<1> DEFINE U == {x \in S : V[x] = TRUE}
<1>10. \A x \in S : V[x] = (x \in U)
  BY <1>9
<1>11. Given(I, input, U)
  <2>1. One \in S /\ Zero \in S /\ I \subseteq S
    BY <1>2 DEF Constants
  <2> QED  BY <1>7, <2>1 DEF Given
<1> HIDE DEF U
<1>12. ASSUME NEW c \in N PROVE c.y \in U <=> on(c, U)
  <2>1. V[c.y] = (c.y \in U) /\ V[c.a] = (c.a \in U) /\ V[c.b] = (c.b \in U)
    BY <1>8, <1>10
  <2>2. CASE c.type = "$and"
    BY <1>8, <2>1, <2>2 DEF on
  <2>3. CASE c.type = "$or"
    BY <1>8, <2>1, <2>3 DEF on
  <2>4. CASE c.type = "$not"
    BY <1>8, <2>1, <2>4 DEF on
  <2> QED  BY <1>8, <2>2, <2>3, <2>4
<1>13. \A x \in driven(N) : V[x] = (x \in U)
  BY <1>2, <1>10
<1> QED  BY <1>1, <1>11, <1>12, <1>13 DEF Computes, Holds

-----------------------------------------------------------------------------
(* What depends on a root.                                                 *)

Known(N, I) == driven(N) \cup I \cup Constants

\* All signals of a module are names.
LEMMA KnownNames ==
  ASSUME NEW N, NEW I, WellMade(N, I)
  PROVE  Known(N, I) \subseteq Name
<1>1. Zero \in Name /\ One \in Name
  BY DEF Zero, One, Name
<1>2. driven(N) \subseteq Name /\ I \subseteq Name
  BY DEF WellMade, Cells, driven
<1> QED  BY <1>1, <1>2 DEF Known, Constants

\* The signals that are computed from a signal, and the signal itself.
upward(N, W) == \A c \in N : operands(c) \cap W # {} => c.y \in W
above(N, r) == {x \in Name : \A W \in SUBSET Name : r \in W /\ upward(N, W) => x \in W}

\* A root does not depend on itself.
LEMMA AboveRoot ==
  ASSUME NEW N, NEW I, WellMade(N, I), NEW root \in N, NEW U, U = above(N, root.y)
  PROVE  /\ root.y \in U /\ U \subseteq driven(N)
         /\ \A c \in N : c.y \notin U => operands(c) \cap U = {}
         /\ operands(root) \cap U = {}
<1>1. \A c \in N : c.y \in Name /\ operands(c) \subseteq Name
  BY DEF WellMade, Cells, operands
<1>2. root.y \in U
  BY <1>1 DEF above
<1>3. \A W \in SUBSET Name : root.y \in W /\ upward(N, W) => U \subseteq W
  BY DEF above
<1>4. U \subseteq driven(N)
  <2>1. driven(N) \in SUBSET Name /\ root.y \in driven(N) /\ upward(N, driven(N))
    BY <1>1 DEF driven, upward
  <2> QED  BY <1>3, <2>1
<1>5. upward(N, U)
  <2> SUFFICES ASSUME NEW c \in N, NEW x \in operands(c), x \in U PROVE c.y \in U
    BY DEF upward
  <2> SUFFICES ASSUME NEW W \in SUBSET Name, root.y \in W, upward(N, W) PROVE c.y \in W
    BY <1>1 DEF above
  <2>1. x \in W
    BY <1>3
  <2> QED  BY <2>1 DEF upward
<1>6. operands(root) \cap U = {}
  <2> SUFFICES ASSUME operands(root) \cap U # {} PROVE FALSE
    OBVIOUS
  <2> DEFINE T == {c \in N : c.y \in U}
  <2>1. driven(T) = U
    BY <1>4 DEF driven
  <2>2. T \in SUBSET N /\ T # {}
    BY <1>2
  <2>3. PICK c \in T : operands(c) \cap driven(T) = {}
    <3> HIDE DEF T
    <3> QED  BY <2>2 DEF WellMade, loop_free
  <2>4. c \in N /\ c.y \in U /\ operands(c) \cap U = {} /\ c # root
    BY <2>1, <2>3
  <2> DEFINE W == U \ {c.y}
  <2>5. W \in SUBSET Name
    BY DEF above
  <2>6. root.y \in W
    BY <1>2, <2>4 DEF WellMade
  <2>7. upward(N, W)
    <3> SUFFICES ASSUME NEW d \in N, operands(d) \cap W # {} PROVE d.y \in W
      BY DEF upward
    <3>1. d.y \in U
      BY <1>5 DEF upward
    <3>2. d # c
      BY <2>4
    <3> QED  BY <2>4, <3>1, <3>2 DEF WellMade
  <2> HIDE DEF W
  <2>8. U \subseteq W
    BY <1>3, <2>5, <2>6, <2>7
  <2> QED  BY <2>4, <2>8 DEF W
<1> QED  BY <1>2, <1>4, <1>5, <1>6 DEF upward

\* What is found below a signal: known signals, finitely many, none above the root if
\* the signal is not.
LEMMA BelowSignal ==
  ASSUME NEW N, NEW I, WellMade(N, I), NEW root \in N, NEW U, U = above(N, root.y),
         NEW type, NEW sig \in Known(N, I), NEW C, C = closure(N, type, sig)
  PROVE  /\ IsFiniteSet(C) /\ C \subseteq Known(N, I) /\ sig \in C /\ C \subseteq Name
         /\ sig \notin U => C \cap U = {}
         /\ sig = root.y => C \cap U \subseteq {root.y}
<1>1. IsFiniteSet(N) /\ N \subseteq Cells
  BY DEF WellMade
<1>2. Known(N, I) \subseteq Name
  BY KnownNames
<1>3. /\ sig \in C /\ C \subseteq Name
      /\ \A W : (/\ sig \in W
                 /\ \A c \in N : c.type = type /\ c.y \in W => operands(c) \subseteq W)
                => C \subseteq W
  BY <1>1, <1>2, ClosureIsLeast
<1>4. \A c \in N : operands(c) \subseteq Known(N, I)
  BY DEF WellMade, Known
<1>5. C \subseteq Known(N, I)
  BY <1>3, <1>4
<1>6. IsFiniteSet(C)
  <2> DEFINE f == [c \in N |-> operands(c)]
             S == {f[c] : c \in N}
             W == {sig} \cup UNION S
  <2>1. \A c \in N : f[c] = operands(c) /\ IsFiniteSet(f[c])
    <3>1. \A c \in N : operands(c) = {c.a} \cup {c.b}
      BY DEF operands
    <3>2. \A c \in N : IsFiniteSet({c.a} \cup {c.b})
      BY FS_Singleton, FS_Union
    <3> QED  BY <3>1, <3>2
  <2>2. IsFiniteSet(S)
    <3>1. DOMAIN f = N
      OBVIOUS
    <3> HIDE DEF f
    <3> QED  BY <1>1, <3>1, FiniteImage
  <2>3. \A X \in S : IsFiniteSet(X)
    BY <2>1
  <2>4. IsFiniteSet(UNION S)
    <3> HIDE DEF S
    <3> QED  BY <2>2, <2>3, FS_UNION
  <2>5. IsFiniteSet(W)
    <3> HIDE DEF S
    <3> QED  BY <2>4, FS_Singleton, FS_Union
  <2>6. \A c \in N : operands(c) \subseteq W
    BY <2>1
  <2>7. C \subseteq W
    <3>1. sig \in W
      OBVIOUS
    <3> HIDE DEF W
    <3> QED  BY <1>3, <2>6, <3>1
  <2> HIDE DEF W
  <2> QED  BY <2>5, <2>7, FS_Subset
<1>7. ASSUME sig \notin U PROVE C \cap U = {}
  <2> DEFINE W == Name \ U
  <2>1. sig \in W
    BY <1>2, <1>7
  <2>2. \A c \in N : c.y \in W => operands(c) \subseteq W
    <3>1. \A c \in N : c.y \notin U => operands(c) \cap U = {}
      BY AboveRoot
    <3> QED  BY <1>2, <1>4, <3>1
  <2>3. C \subseteq W
    <3> HIDE DEF W
    <3> QED  BY <1>3, <2>1, <2>2
  <2> QED  BY <2>3
<1>8. ASSUME sig = root.y PROVE C \cap U \subseteq {root.y}
  <2> DEFINE W == {root.y} \cup (Name \ U)
  <2>1. \A c \in N : c.y \in W => operands(c) \subseteq W
    <3>1. /\ \A c \in N : c.y \notin U => operands(c) \cap U = {}
          /\ operands(root) \cap U = {}
      BY AboveRoot
    <3>2. \A c \in N : c.y = root.y => c = root
      BY DEF WellMade
    <3> QED  BY <1>2, <1>4, <3>1, <3>2
  <2>2. sig \in W
    BY <1>8
  <2>3. C \subseteq W
    <3> HIDE DEF W
    <3> QED  BY <1>3, <2>1, <2>2
  <2> QED  BY <2>3
<1> QED  BY <1>3, <1>5, <1>6, <1>7, <1>8

-----------------------------------------------------------------------------
(* What a cover computes.  For an $or a signal decides if it is 1, for an  *)
(* $and if it is 0: the output of such a cell is hot if an operand is.     *)

hot(type, T, x) == IF type = "$or" THEN x \in T ELSE x \notin T
hot_literals(type, T) ==
  {l \in Name \X BOOLEAN : IF l[2] THEN ~hot(type, T, l[1]) ELSE hot(type, T, l[1])}

\* A signal is hot if and only if one of the leaves is.
LEMMA LeavesDecide ==
  ASSUME NEW N, NEW I, WellMade(N, I), NEW T, Holds(N, T),
         NEW type \in {"$and", "$or"}, NEW sig \in Name
  PROVE  hot(type, T, sig) <=> \E x \in leaves(N, type, sig) : hot(type, T, x)
<1> DEFINE C == closure(N, type, sig)
           inner == inner_cells(N, type, sig)
           leaf == leaves(N, type, sig)
<1>1. /\ sig \in C /\ C \subseteq Name
      /\ \A c \in N : c.type = type /\ c.y \in C => operands(c) \subseteq C
      /\ \A W : (/\ sig \in W
                 /\ \A c \in N : c.type = type /\ c.y \in W => operands(c) \subseteq W)
                => C \subseteq W
  <2>1. IsFiniteSet(N) /\ N \subseteq Cells
    BY DEF WellMade
  <2> QED  BY <2>1, ClosureIsLeast
<1>2. inner = {c \in N : c.type = type /\ c.y \in C} /\ leaf = {x \in C : x \notin {c.y : c \in inner}}
  BY DEF inner_cells, leaves
<1>3. \A c \in N : c.type = type => (hot(type, T, c.y) <=> \E x \in operands(c) : hot(type, T, x))
  <2> SUFFICES ASSUME NEW c \in N, c.type = type
               PROVE  hot(type, T, c.y) <=> \E x \in operands(c) : hot(type, T, x)
    OBVIOUS
  <2>1. c.y \in T <=> on(c, T)
    BY DEF Holds
  <2>2. CASE type = "$or"
    BY <2>1, <2>2 DEF on, hot, operands
  <2>3. CASE type = "$and"
    BY <2>1, <2>3 DEF on, hot, operands
  <2> QED  BY <2>2, <2>3
<1> HIDE DEF C, inner, leaf
<1>4. ASSUME ~hot(type, T, sig), NEW x \in leaf PROVE ~hot(type, T, x)
  <2> DEFINE W == {z \in Name : ~hot(type, T, z)}
  <2>1. sig \in W
    BY <1>4
  <2>2. \A c \in N : c.type = type /\ c.y \in W => operands(c) \subseteq W
    <3>1. \A c \in N : operands(c) \subseteq Name
      BY DEF WellMade, Cells, operands
    <3> QED  BY <1>3, <3>1
  <2>3. C \subseteq W
    <3> HIDE DEF W
    <3> QED  BY <1>1, <2>1, <2>2
  <2> QED  BY <1>2, <2>3
<1>5. ASSUME hot(type, T, sig), \A x \in leaf : ~hot(type, T, x) PROVE FALSE
  <2> DEFINE S == {c \in N : c.type = type /\ c.y \in C /\ hot(type, T, c.y)}
  <2>1. \A x \in C : hot(type, T, x) => x \in driven(S)
    BY <1>2, <1>5 DEF driven
  <2>2. S \in SUBSET N /\ S # {}
    BY <1>1, <1>5, <2>1 DEF driven
  <2>3. PICK c \in S : operands(c) \cap driven(S) = {}
    <3> HIDE DEF S
    <3> QED  BY <2>2 DEF WellMade, loop_free
  <2>4. PICK x \in operands(c) : hot(type, T, x)
    BY <1>3
  <2>5. x \in C
    BY <1>1
  <2> HIDE DEF S
  <2> QED  BY <2>1, <2>3, <2>4, <2>5
<1> QED  BY <1>4, <1>5 DEF leaf

\* What `literal' gives for an inverter and for any other leaf.
LEMMA LiteralFields ==
  ASSUME NEW S, NEW x \in S, NEW neg \in BOOLEAN, NEW l, l = <<x, neg>>
  PROVE  l \in S \X BOOLEAN /\ l[1] = x /\ l[2] = neg
  OBVIOUS

\* A literal is hot if and only if the leaf is that it stands for.
LEMMA LiteralOfLeaf ==
  ASSUME NEW N, NEW I, WellMade(N, I), NEW T, Holds(N, T),
         NEW type \in {"$and", "$or"}, NEW leaf \in Known(N, I),
         NEW root \in N, NEW U, U = above(N, root.y)
  PROVE  LET l == literal(N, leaf)
         IN  /\ l \in Known(N, I) \X BOOLEAN /\ l \in Name \X BOOLEAN
             /\ l \in hot_literals(type, T) <=> hot(type, T, leaf)
             /\ leaf \notin U => l[1] \notin U
<1> DEFINE l == literal(N, leaf)
<1> HIDE DEF l
<1> SUFFICES /\ l \in Known(N, I) \X BOOLEAN /\ l \in Name \X BOOLEAN
             /\ l \in hot_literals(type, T) <=> hot(type, T, leaf)
             /\ leaf \notin U => l[1] \notin U
  BY DEF l
<1>1. Known(N, I) \subseteq Name
  BY KnownNames
<1>2. CASE \E c \in N : c.type = "$not" /\ c.y = leaf
  <2>1. PICK c \in N : c.type = "$not" /\ c.y = leaf /\ l = <<c.a, TRUE>>
    BY <1>2 DEF literal, l
  <2>2. l = <<c.a, TRUE>>
    BY <2>1
  <2>3. c.a \in operands(c) /\ c.a \in Known(N, I)
    BY <2>1 DEF WellMade, Known, operands
  <2>4. leaf \in T <=> c.a \notin T
    BY <2>1 DEF Holds, on
  <2>5. l \in hot_literals(type, T) <=> ~hot(type, T, c.a)
    <3>1. l \in Name \X BOOLEAN /\ l[1] = c.a /\ l[2] = TRUE
      <4>1. c.a \in Name
        BY <1>1, <2>3
      <4> QED  BY <2>2, <4>1, LiteralFields
    <3> QED  BY <3>1 DEF hot_literals
  <2>6. leaf \notin U => c.a \notin U
    BY <2>1, <2>3, AboveRoot
  <2>7. l \in Known(N, I) \X BOOLEAN /\ l \in Name \X BOOLEAN /\ l[1] = c.a
    <3>1. c.a \in Known(N, I) /\ c.a \in Name
      BY <1>1, <2>3
    <3> QED  BY <2>2, <3>1, LiteralFields
  <2>8. ~hot(type, T, c.a) <=> hot(type, T, leaf)
    BY <2>4 DEF hot
  <2> QED  BY <2>5, <2>6, <2>7, <2>8
<1>3. CASE ~ \E c \in N : c.type = "$not" /\ c.y = leaf
  <2>1. l = <<leaf, FALSE>>
    BY <1>3 DEF literal, l
  <2>2. l \in Known(N, I) \X BOOLEAN /\ l \in Name \X BOOLEAN /\ l[1] = leaf /\ l[2] = FALSE
    <3>1. leaf \in Name
      BY <1>1
    <3> QED  BY <2>1, <3>1, LiteralFields
  <2> QED  BY <2>2 DEF hot_literals
<1> QED  BY <1>2, <1>3

-----------------------------------------------------------------------------
(* The cover of a root.                                                    *)

\* Some cube of the cover has all its literals hot.
fires(cover, type, T) == \E cube \in cover : cube \subseteq hot_literals(type, T)

IsCover(cover, L) ==
  IsFiniteSet(cover) /\ \A cube \in cover : IsFiniteSet(cube) /\ cube \subseteq L \X BOOLEAN

\* The leaves and the literals below a root depend on nothing above it.
LEMMA LeavesOfRoot ==
  ASSUME NEW N, NEW I, WellMade(N, I), NEW root \in N, NEW U, U = above(N, root.y),
         NEW sig \in Known(N, I), NEW type, NEW S, S = leaves(N, type, sig),
         sig \notin U \/ (sig = root.y /\ type = root.type)
  PROVE  IsFiniteSet(S) /\ S \subseteq Known(N, I) \ U
<1> DEFINE C == closure(N, type, sig)
<1>1. /\ IsFiniteSet(C) /\ C \subseteq Known(N, I) /\ sig \in C
      /\ sig \notin U => C \cap U = {}
      /\ sig = root.y => C \cap U \subseteq {root.y}
  BY BelowSignal
<1>2. S = {x \in C : x \notin {c.y : c \in inner_cells(N, type, sig)}}
  BY DEF leaves
<1>3. sig = root.y /\ type = root.type => root \in inner_cells(N, type, sig)
  BY <1>1 DEF inner_cells
<1> HIDE DEF C
<1>4. S \subseteq C
  BY <1>2
<1>5. IsFiniteSet(S)
  BY <1>1, <1>4, FS_Subset
<1> QED  BY <1>1, <1>2, <1>3, <1>5

\* The literals of a term are finitely many and depend on nothing above the root.
LEMMA LiteralsOfTerm ==
  ASSUME NEW N, NEW I, WellMade(N, I), NEW root \in N, NEW U, U = above(N, root.y),
         NEW sig \in Known(N, I), sig \notin U, NEW type,
         NEW S, S = {literal(N, leaf) : leaf \in leaves(N, type, sig)}
  PROVE  IsFiniteSet(S) /\ S \subseteq (Known(N, I) \ U) \X BOOLEAN
<1> DEFINE X == leaves(N, type, sig)
           f == [leaf \in X |-> literal(N, leaf)]
<1>1. IsFiniteSet(X) /\ X \subseteq Known(N, I) \ U
  BY LeavesOfRoot
<1>2. IsFiniteSet(S)
  <2>1. DOMAIN f = X /\ S = {f[x] : x \in X}
    OBVIOUS
  <2> HIDE DEF f, X
  <2> QED  BY <1>1, <2>1, FiniteImage
<1>3. ASSUME NEW leaf \in X PROVE literal(N, leaf) \in (Known(N, I) \ U) \X BOOLEAN
  <2> DEFINE l == literal(N, leaf)
  <2>1. leaf \in Known(N, I) /\ leaf \notin U
    BY <1>1
  <2>2. PICK input, T : Computes(T, N, I, input)
    BY TruthExists
  <2>3. Holds(N, T)
    BY <2>2 DEF Computes
  <2>4. l \in Known(N, I) \X BOOLEAN /\ l[1] \notin U
    <3>1. "$or" \in {"$and", "$or"}
      OBVIOUS
    <3> QED  BY <2>1, <2>3, <3>1, LiteralOfLeaf, Zenon
  <2> HIDE DEF l
  <2>5. l \in (Known(N, I) \ U) \X BOOLEAN
    BY <2>4
  <2> QED  BY <2>5 DEF l
<1> QED  BY <1>2, <1>3

\* So are those of the cover, without the constants.
LEMMA CoverFits ==
  ASSUME NEW N, NEW I, WellMade(N, I), NEW root \in N, root.type \in {"$and", "$or"},
         NEW U, U = above(N, root.y)
  PROVE  IsCover(cover_of(N, root), Known(N, I) \ (U \cup Constants))
<1> DEFINE X == leaves(N, root.type, root.y)
           child == child_op(root)
           term(leaf) == collect_term(N, child, leaf)
           f == [leaf \in X |-> term(leaf)]
           A == {f[x] : x \in X}
           B == {t \in A : ~t.zero}
           g == [t \in B |-> t.literals]
           D == {g[t] : t \in B}
<1>1. IsFiniteSet(X) /\ X \subseteq Known(N, I) \ U
  <2>1. root.y \in Known(N, I)
    BY DEF Known, driven
  <2> QED  BY <2>1, LeavesOfRoot
<1>2. cover_of(N, root) = D
  BY DEF cover_of, collect_cover, root_op
<1>3. IsFiniteSet(D)
  <2>1. DOMAIN f = X
    OBVIOUS
  <2>2. IsFiniteSet(A)
    <3> HIDE DEF f, X
    <3> QED  BY <1>1, <2>1, FiniteImage
  <2>3. IsFiniteSet(B) /\ DOMAIN g = B
    <3>1. B \subseteq A
      OBVIOUS
    <3> HIDE DEF A
    <3> QED  BY <2>2, <3>1, FS_Subset
  <2> HIDE DEF g, B
  <2> QED  BY <2>3, FiniteImage
<1>4. ASSUME NEW leaf \in X
      PROVE  /\ IsFiniteSet(term(leaf).literals)
             /\ term(leaf).literals \subseteq (Known(N, I) \ (U \cup Constants)) \X BOOLEAN
  <2> DEFINE S == {literal(N, x) : x \in leaves(N, child, leaf)}
  <2>1. IsFiniteSet(S) /\ S \subseteq (Known(N, I) \ U) \X BOOLEAN
    BY <1>1, LiteralsOfTerm
  <2>2. term(leaf).literals = {l \in S : l[1] \notin Constants}
    BY DEF collect_term, add_literals
  <2> HIDE DEF S, term
  <2>3. IsFiniteSet(term(leaf).literals)
    BY <2>1, <2>2, FS_Subset
  <2> QED  BY <2>1, <2>2, <2>3
<1>5. \A cube \in D : \E leaf \in X : cube = term(leaf).literals
  OBVIOUS
<1> HIDE DEF D, X, term
<1> QED  BY <1>2, <1>3, <1>4, <1>5 DEF IsCover

-----------------------------------------------------------------------------

\* Constants and contradictions among the literals of a term are dropped with care.
LEMMA LiteralsDecide ==
  ASSUME NEW type \in {"$and", "$or"}, NEW T, One \in T, Zero \notin T,
         NEW S, S \subseteq Name \X BOOLEAN,
         type = "$and" => \A l \in S : l[1] \notin Constants
  PROVE  LET t == add_literals(S)
         IN  S \subseteq hot_literals(type, T)
               <=> ~t.zero /\ t.literals \subseteq hot_literals(type, T)
<1> DEFINE t == add_literals(S)
           H == hot_literals(type, T)
<1>1. t.literals = {l \in S : l[1] \notin Constants}
  BY DEF add_literals
<1>2. t.zero <=> \/ ~consistent(S)
                 \/ \E l \in S : l[1] \in Constants /\ ((l[1] = One) <=> l[2] = TRUE)
  <2>1. t.zero <=> \/ ~consistent(S)
                   \/ \E l \in S : l[1] \in Constants /\ (l[1] = One) = l[2]
    BY Zenon DEF add_literals
  <2>2. \A l \in S : l[2] = TRUE \/ l[2] = FALSE
    OBVIOUS
  <2>3. \A l \in S : (l[1] = One) = l[2] <=> ((l[1] = One) <=> l[2] = TRUE)
    BY <2>2
  <2> QED  BY <2>1, <2>3
<1>3. \A l \in S : l \in H <=> IF l[2] THEN ~hot(type, T, l[1]) ELSE hot(type, T, l[1])
  BY DEF hot_literals
<1>4. ASSUME S \subseteq H PROVE consistent(S)
  <2> SUFFICES ASSUME NEW l \in S, NEW k \in S, l[1] = k[1] PROVE l[2] = k[2]
    BY DEF consistent
  <2>1. (l[2] = TRUE \/ l[2] = FALSE) /\ (k[2] = TRUE \/ k[2] = FALSE)
    OBVIOUS
  <2> HIDE DEF H
  <2>2. l \in H /\ k \in H
    BY <1>4
  <2> QED  BY <1>3, <2>1, <2>2
<1>5. ASSUME NEW l \in S, l[1] \in Constants
      PROVE  l \in H <=> ~((l[1] = One) <=> l[2] = TRUE)
  <2>1. type = "$or"
    BY <1>5
  <2>2. l[2] = TRUE \/ l[2] = FALSE
    OBVIOUS
  <2>3. hot(type, T, l[1]) <=> l[1] = One
    BY <1>5, <2>1 DEF hot, Constants
  <2> HIDE DEF H
  <2> QED  BY <1>3, <2>2, <2>3
<1> HIDE DEF t, H
<1>6. ASSUME S \subseteq H PROVE ~t.zero /\ t.literals \subseteq H
  BY <1>1, <1>2, <1>4, <1>5, <1>6
<1>7. ASSUME ~t.zero, t.literals \subseteq H, NEW l \in S PROVE l \in H
  BY <1>1, <1>2, <1>5, <1>7
<1> QED  BY <1>6, <1>7 DEF t, H

\* The cover has the function of the root, unless a product of sums has a constant.
LEMMA CoverDecides ==
  ASSUME NEW N, NEW I, WellMade(N, I), NEW root \in N, root.type \in {"$and", "$or"},
         ~constant_in_sums(N), NEW T, Holds(N, T), One \in T, Zero \notin T
  PROVE  hot(root.type, T, root.y) <=> fires(cover_of(N, root), root.type, T)
<1> DEFINE type == root.type
           child == child_op(root)
           H == hot_literals(type, T)
           U == above(N, root.y)
           X == leaves(N, type, root.y)
           lits(leaf) == {literal(N, x) : x \in leaves(N, child, leaf)}
           term(leaf) == add_literals(lits(leaf))
<1>1. root.y \in Known(N, I) /\ Known(N, I) \subseteq Name
  BY KnownNames DEF Known, driven
<1>2. X \subseteq Known(N, I) \ U
  BY <1>1, LeavesOfRoot
<1>3. child \in {"$and", "$or"} /\ \A x : hot(child, T, x) <=> ~hot(type, T, x)
  BY DEF child_op, hot
<1>4. hot(type, T, root.y) <=> \E leaf \in X : hot(type, T, leaf)
  BY <1>1, LeavesDecide
<1>5. ASSUME NEW leaf \in X
      PROVE  hot(type, T, leaf) <=> ~term(leaf).zero /\ term(leaf).literals \subseteq H
  <2> DEFINE Y == leaves(N, child, leaf)
             S == lits(leaf)
  <2>1. Y \subseteq Known(N, I) \ U
    BY <1>2, LeavesOfRoot
  <2>2. hot(child, T, leaf) <=> \E x \in Y : hot(child, T, x)
    BY <1>1, <1>2, <1>3, LeavesDecide
  <2>3. hot(type, T, leaf) <=> \A x \in Y : hot(type, T, x)
    <3> HIDE DEF Y
    <3> QED  BY <1>3, <2>2
  <2>4. \A x \in Y : literal(N, x) \in H <=> hot(type, T, x)
    BY <2>1, LiteralOfLeaf
  <2>5. hot(type, T, leaf) <=> S \subseteq H
    <3>1. S = {literal(N, x) : x \in Y}
      OBVIOUS
    <3> HIDE DEF S, Y, H
    <3> QED  BY <2>3, <2>4, <3>1
  <2>6. S \subseteq Name \X BOOLEAN
    <3>1. S \subseteq (Known(N, I) \ U) \X BOOLEAN
      BY <1>2, LiteralsOfTerm
    <3> HIDE DEF S
    <3> QED  BY <1>1, <3>1
  <2>7. type = "$and" => \A l \in S : l[1] \notin Constants
    <3> SUFFICES ASSUME type = "$and", NEW x \in Y PROVE literal(N, x)[1] \notin Constants
      OBVIOUS
    <3>1. child = "$or"
      BY DEF child_op
    <3> QED  BY <3>1 DEF constant_in_sums
  <2>8. S \subseteq H <=> ~term(leaf).zero /\ term(leaf).literals \subseteq H
    <3> HIDE DEF S
    <3>1. S \subseteq H <=> ~add_literals(S).zero /\ add_literals(S).literals \subseteq H
      BY <2>6, <2>7, LiteralsDecide
    <3> QED  BY <3>1 DEF S
  <2> QED  BY <2>5, <2>8
<1>6. cover_of(N, root) = {t.literals : t \in {t \in {term(leaf) : leaf \in X} : ~t.zero}}
  BY DEF cover_of, collect_cover, root_op, collect_term
<1>7. (\E cube \in cover_of(N, root) : cube \subseteq H)
        <=> \E leaf \in X : ~term(leaf).zero /\ term(leaf).literals \subseteq H
  <2> HIDE DEF X, H, term
  <2> QED  BY <1>6
<1> HIDE DEF X, H, term
<1> QED  BY <1>4, <1>5, <1>7 DEF H, fires

-----------------------------------------------------------------------------
(* Names for new signals.                                                  *)

Under(at) == {x \in Name : Len(x) > Len(at) /\ \A i \in 1 .. Len(at) : x[i] = at[i]}
sub(at, i) == at \o <<i>>
Deep(at) == {x \in Under(at) : Len(x) > Len(at) + 1}

\* The names that begin with two different prefixes of one length are different.
LEMMA NewNames ==
  ASSUME NEW at \in Name, NEW i \in Nat, NEW j \in Nat
  PROVE  /\ sub(at, i) \in Name /\ sub(at, i) \in Under(at) /\ sub(at, i) \notin Deep(at)
         /\ sub(at, i) = sub(at, j) => i = j
         /\ Under(sub(at, i)) \subseteq Deep(at)
         /\ i # j => Under(sub(at, i)) \cap Under(sub(at, j)) = {}
<1> DEFINE n == Len(at)
<1>1. n \in Nat
  BY LenProperties DEF Name
<1>2. \A k \in Nat : /\ at \o <<k>> \in Name /\ Len(at \o <<k>>) = n + 1
                     /\ \A m \in 1 .. n : (at \o <<k>>)[m] = at[m]
                     /\ (at \o <<k>>)[n + 1] = k
  <2> SUFFICES ASSUME NEW k \in Nat
               PROVE  /\ at \o <<k>> \in Name /\ Len(at \o <<k>>) = n + 1
                      /\ \A m \in 1 .. n : (at \o <<k>>)[m] = at[m]
                      /\ (at \o <<k>>)[n + 1] = k
    OBVIOUS
  <2>1. at \in Seq(Nat) /\ <<k>> \in Seq(Nat)
    BY DEF Name
  <2> QED  BY <1>1, <2>1 DEF Name
<1> DEFINE s == at \o <<i>>
           t == at \o <<j>>
<1>3. /\ s \in Name /\ Len(s) = n + 1 /\ (\A m \in 1 .. n : s[m] = at[m]) /\ s[n + 1] = i
      /\ t \in Name /\ Len(t) = n + 1 /\ (\A m \in 1 .. n : t[m] = at[m]) /\ t[n + 1] = j
  BY <1>2
<1> HIDE DEF s, t
<1>4. s \in Under(at) /\ s \notin Deep(at)
  BY <1>1, <1>3 DEF Under, Deep
<1>5. s = t => i = j
  BY <1>3
<1>6. ASSUME NEW x \in Under(s) PROVE x \in Deep(at) /\ x[n + 1] = i
  <2>1. x \in Name /\ Len(x) > n + 1 /\ \A m \in 1 .. n + 1 : x[m] = s[m]
    BY <1>3 DEF Under
  <2>2. \A m \in 1 .. n : m \in 1 .. n + 1
    BY <1>1
  <2>3. n + 1 \in 1 .. n + 1 /\ Len(x) \in Nat
    BY <1>1, <2>1, LenProperties DEF Name
  <2> QED  BY <1>1, <1>3, <2>1, <2>2, <2>3 DEF Under, Deep
<1>7. ASSUME NEW x \in Under(t) PROVE x[n + 1] = j
  <2>1. \A m \in 1 .. n + 1 : x[m] = t[m]
    BY <1>3 DEF Under
  <2>2. n + 1 \in 1 .. n + 1
    BY <1>1
  <2> QED  BY <1>3, <2>1, <2>2
<1> QED  BY <1>3, <1>4, <1>5, <1>6, <1>7 DEF s, t, sub

-----------------------------------------------------------------------------
(* A piece of new logic: its cells drive signals of V and read signals of  *)
(* L and each other, without loops; nothing inside reads its output.       *)

Piece(p, V, L) ==
  /\ IsFiniteSet(p.net) /\ p.net \subseteq Cells /\ driven(p.net) \subseteq V
  /\ \A c, d \in p.net : c.y = d.y => c = d
  /\ \A c \in p.net : operands(c) \subseteq L \cup driven(p.net)
  /\ p.out \in L \cup driven(p.net)
  /\ p.out \in driven(p.net) => \A c \in p.net : p.out \notin operands(c)
  /\ loop_free(p.net)

\* Pieces that drive different signals.
Apart(pieces, n, V, L, at) ==
  /\ n \in Nat \ {0} /\ Len(pieces) = n /\ at \in Name
  /\ \A i \in 1 .. n : Piece(pieces[i], V[i], L) /\ V[i] \subseteq Deep(at)
  /\ \A i, j \in 1 .. n : i # j => V[i] \cap V[j] = {}
  /\ L \subseteq Name /\ L \cap Under(at) = {}

\* The signals of the chain that joins pieces, and its cells.
chain_signal(pieces, at, i) == IF i = 1 THEN pieces[1].out ELSE sub(at, i)
chain_cell(type, pieces, at, i) ==
  cell(type, chain_signal(pieces, at, i - 1), pieces[i].out, chain_signal(pieces, at, i))

\* The fields of a new cell.
LEMMA CellFields ==
  ASSUME NEW type, NEW a, NEW b, NEW y, NEW c, c = cell(type, a, b, y)
  PROVE  /\ c.type = type /\ c.a = a /\ c.b = b /\ c.y = y /\ operands(c) = {a, b}
         /\ type \in {"$and", "$or", "$not"} /\ a \in Name /\ b \in Name /\ y \in Name
              => c \in Cells
  BY DEF cell, operands, Cells

\* The cells and the output of joined pieces in terms of their chain.
Joined(p, type, pieces, n, at) ==
  /\ p.net = {chain_cell(type, pieces, at, i) : i \in 2 .. n}
               \cup UNION {pieces[i].net : i \in 1 .. n}
  /\ p.out = chain_signal(pieces, at, n)

\* `join' makes them.
LEMMA JoinParts ==
  ASSUME NEW pieces, NEW n \in Nat \ {0}, Len(pieces) = n, NEW type, NEW at,
         NEW p, p = join(type, pieces, at)
  PROVE  Joined(p, type, pieces, n, at)
<1> DEFINE acc == [i \in 1 .. n |-> IF i = 1 THEN pieces[1].out ELSE sub(at, i)]
<1>1. /\ p.net = {cell(type, acc[i - 1], pieces[i].out, acc[i]) : i \in 2 .. n}
                   \cup UNION {pieces[i].net : i \in 1 .. n}
      /\ p.out = acc[n]
  BY DEF join, sub
<1>2. \A i \in 1 .. n : acc[i] = chain_signal(pieces, at, i)
  BY DEF chain_signal
<1>3. n \in 1 .. n /\ \A i \in 2 .. n : i \in 1 .. n /\ i - 1 \in 1 .. n
  OBVIOUS
<1> HIDE DEF acc
<1> QED  BY <1>1, <1>2, <1>3 DEF Joined, chain_cell

\* Every cell of the chain is among the new cells.
LEMMA ChainInJoin ==
  ASSUME NEW pieces, NEW n \in Nat \ {0}, Len(pieces) = n, NEW type, NEW at, NEW k \in 2 .. n
  PROVE  chain_cell(type, pieces, at, k) \in join(type, pieces, at).net
<1>1. PICK p : p = join(type, pieces, at)
  OBVIOUS
<1>2. Joined(p, type, pieces, n, at)
  BY <1>1, JoinParts
<1>3. chain_cell(type, pieces, at, k) \in p.net
  BY <1>2 DEF Joined
<1> QED  BY <1>1, <1>3

\* Where the signals of the chain are.
LEMMA ChainCells ==
  ASSUME NEW pieces, NEW n, NEW V, NEW L, NEW at, Apart(pieces, n, V, L, at), NEW type,
         NEW i \in 2 .. n, NEW c, c = chain_cell(type, pieces, at, i)
  PROVE  /\ c \in join(type, pieces, at).net /\ c.type = type
         /\ c.a = chain_signal(pieces, at, i - 1) /\ c.b = pieces[i].out /\ c.y = sub(at, i)
<1>1. n \in Nat \ {0} /\ Len(pieces) = n
  BY DEF Apart
<1>2. i # 1
  BY <1>1
<1>3. chain_signal(pieces, at, i) = sub(at, i)
  BY <1>2 DEF chain_signal
<1>4. c \in join(type, pieces, at).net
  BY <1>1, ChainInJoin
<1> QED  BY <1>3, <1>4 DEF chain_cell, cell

\* The signals of the chain are new names, different from each other.
LEMMA ChainSignals ==
  ASSUME NEW pieces, NEW n, NEW V, NEW L, NEW at, Apart(pieces, n, V, L, at),
         NEW i \in 2 .. n
  PROVE  /\ sub(at, i) \in Under(at) /\ sub(at, i) \notin Deep(at) \cup L
         /\ pieces[i].out \in L \cup Deep(at) /\ pieces[1].out \in L \cup Deep(at)
         /\ chain_signal(pieces, at, i - 1) =
               IF i = 2 THEN pieces[1].out ELSE sub(at, i - 1)
<1>1. n \in Nat \ {0} /\ at \in Name /\ L \cap Under(at) = {}
  BY DEF Apart
<1>2. i \in Nat /\ i \in 1 .. n /\ 1 \in 1 .. n /\ (i - 1 = 1 <=> i = 2)
  BY <1>1
<1>3. pieces[i].out \in L \cup Deep(at) /\ pieces[1].out \in L \cup Deep(at)
  BY <1>2 DEF Apart, Piece
<1>4. sub(at, i) \in Under(at) /\ sub(at, i) \notin Deep(at)
  BY <1>1, <1>2, NewNames, Zenon
<1> QED  BY <1>1, <1>2, <1>3, <1>4 DEF chain_signal

\* What the cells of joined pieces are.
LEMMA JoinCells ==
  ASSUME NEW pieces, NEW n, NEW V, NEW L, NEW at, Apart(pieces, n, V, L, at),
         NEW type \in {"$and", "$or"}, NEW p, p = join(type, pieces, at), NEW c \in p.net
  PROVE  \/ \E i \in 1 .. n : c \in pieces[i].net
         \/ \E i \in 2 .. n : c = chain_cell(type, pieces, at, i)
<1>1. n \in Nat \ {0} /\ Len(pieces) = n
  BY DEF Apart
<1>2. Joined(p, type, pieces, n, at)
  BY <1>1, JoinParts
<1> QED  BY <1>2 DEF Joined

\* Joined pieces drive new signals only, each with one cell.
LEMMA JoinDrives ==
  ASSUME NEW pieces, NEW n, NEW V, NEW L, NEW at, Apart(pieces, n, V, L, at),
         NEW type \in {"$and", "$or"}, NEW p, p = join(type, pieces, at)
  PROVE  /\ IsFiniteSet(p.net) /\ p.net \subseteq Cells /\ driven(p.net) \subseteq Under(at)
         /\ \A c, d \in p.net : c.y = d.y => c = d
         /\ \A i \in 1 .. n : pieces[i].net \subseteq p.net
<1>0. n \in Nat \ {0} /\ Len(pieces) = n /\ at \in Name /\ L \subseteq Name
  BY DEF Apart
<1>j. Joined(p, type, pieces, n, at)
  BY <1>0, JoinParts
<1>1. \A i \in 1 .. n : pieces[i].net \subseteq p.net
  BY <1>j DEF Joined
<1>2. \A i \in 1 .. n : \A c \in pieces[i].net : c.y \in V[i] /\ c.y \in Deep(at) /\ c \in Cells
  BY DEF Apart, Piece, driven
<1>3. \A i \in 2 .. n : \A c : c = chain_cell(type, pieces, at, i)
        => c.y = sub(at, i) /\ c.y \in Under(at) /\ c.y \notin Deep(at)
  <2> SUFFICES ASSUME NEW i \in 2 .. n, NEW c, c = chain_cell(type, pieces, at, i)
               PROVE  c.y = sub(at, i) /\ c.y \in Under(at) /\ c.y \notin Deep(at)
    OBVIOUS
  <2>1. c.y = sub(at, i)
    BY ChainCells
  <2>2. sub(at, i) \in Under(at) /\ sub(at, i) \notin Deep(at)
    BY ChainSignals
  <2> QED  BY <2>1, <2>2
<1>4. driven(p.net) \subseteq Under(at)
  <2> SUFFICES ASSUME NEW c \in p.net PROVE c.y \in Under(at)
    BY DEF driven
  <2>1. \/ \E i \in 1 .. n : c \in pieces[i].net
        \/ \E i \in 2 .. n : c = chain_cell(type, pieces, at, i)
    BY JoinCells
  <2> QED  BY <1>2, <1>3, <2>1 DEF Deep
<1>5. p.net \subseteq Cells
  <2> SUFFICES ASSUME NEW c \in p.net PROVE c \in Cells
    OBVIOUS
  <2>1. CASE \E i \in 1 .. n : c \in pieces[i].net
    BY <1>2, <2>1
  <2>2. CASE \E i \in 2 .. n : c = chain_cell(type, pieces, at, i)
    <3>1. PICK i \in 2 .. n : c = chain_cell(type, pieces, at, i)
      BY <2>2
    <3>2. i \in 1 .. n /\ i \in Nat /\ i - 1 \in Nat /\ 1 \in 1 .. n
      BY <1>0
    <3>3. \A j \in 1 .. n : pieces[j].out \in Name
      BY <1>0 DEF Apart, Piece, Deep, Under
    <3>4. \A j \in Nat : sub(at, j) \in Name
      BY <1>0, NewNames
    <3>5. chain_signal(pieces, at, i - 1) \in Name /\ chain_signal(pieces, at, i) \in Name
      BY <3>2, <3>3, <3>4 DEF chain_signal
    <3> QED  BY <3>1, <3>2, <3>3, <3>5, CellFields DEF chain_cell
  <2> QED  BY <2>1, <2>2, JoinCells
<1>6. IsFiniteSet(p.net)
  <2> DEFINE f == [i \in 1 .. n |-> pieces[i].net]
             F == {f[i] : i \in 1 .. n}
             g == [i \in 2 .. n |-> chain_cell(type, pieces, at, i)]
             G == {g[i] : i \in 2 .. n}
  <2>1. p.net = G \cup UNION F
    BY <1>j DEF Joined
  <2>2. IsFiniteSet(1 .. n) /\ IsFiniteSet(2 .. n)
    BY <1>0, FS_Interval
  <2>3. DOMAIN f = 1 .. n /\ DOMAIN g = 2 .. n
    OBVIOUS
  <2>4. \A X \in F : IsFiniteSet(X)
    BY DEF Apart, Piece
  <2> HIDE DEF f, g
  <2>5. IsFiniteSet(F) /\ IsFiniteSet(G)
    BY <2>2, <2>3, FiniteImage
  <2> HIDE DEF F, G
  <2>6. IsFiniteSet(UNION F)
    BY <2>4, <2>5, FS_UNION
  <2> DEFINE M == UNION F
  <2>7. p.net = G \cup M /\ IsFiniteSet(M)
    BY <2>1, <2>6
  <2> HIDE DEF M
  <2> QED  BY <2>5, <2>7, FS_Union
<1>7. ASSUME NEW c \in p.net, NEW d \in p.net, c.y = d.y PROVE c = d
  <2>1. ASSUME NEW i \in 1 .. n, c \in pieces[i].net PROVE c = d
    <3>1. PICK j \in 1 .. n : d \in pieces[j].net
      <4>1. c.y \in Deep(at)
        BY <1>2, <2>1
      <4>2. ~ \E j \in 2 .. n : d = chain_cell(type, pieces, at, j)
        BY <1>3, <1>7, <4>1
      <4> QED  BY <4>2, JoinCells
    <3>2. i = j
      BY <1>2, <1>7, <2>1, <3>1 DEF Apart
    <3> QED  BY <1>7, <2>1, <3>1, <3>2 DEF Apart, Piece
  <2>2. ASSUME NEW i \in 2 .. n, c = chain_cell(type, pieces, at, i) PROVE c = d
    <3>1. PICK j \in 2 .. n : d = chain_cell(type, pieces, at, j)
      <4>1. c.y \notin Deep(at)
        BY <1>3, <2>2
      <4>2. ~ \E j \in 1 .. n : d \in pieces[j].net
        BY <1>2, <1>7, <4>1
      <4> QED  BY <4>2, JoinCells
    <3>2. i \in Nat /\ j \in Nat
      OBVIOUS
    <3>3. sub(at, i) = sub(at, j)
      BY <1>3, <1>7, <2>2, <3>1
    <3>4. i = j
      BY <1>0, <3>2, <3>3, NewNames
    <3> QED  BY <2>2, <3>1, <3>4
  <2> QED  BY <2>1, <2>2, JoinCells
<1> QED  BY <1>1, <1>4, <1>5, <1>6, <1>7

\* What the cells of joined pieces read.
LEMMA JoinReads ==
  ASSUME NEW pieces, NEW n, NEW V, NEW L, NEW at, Apart(pieces, n, V, L, at),
         NEW type \in {"$and", "$or"}, NEW p, p = join(type, pieces, at)
  PROVE  /\ \A i \in 1 .. n : pieces[i].out \in L \cup driven(p.net)
         /\ \A c \in p.net : operands(c) \subseteq L \cup driven(p.net)
         /\ p.out \in L \cup driven(p.net)
         /\ n > 1 => p.out \in driven(p.net)
         /\ n = 1 => p.out = pieces[1].out /\ p.net = pieces[1].net
         /\ p.out \in driven(p.net) => \A c \in p.net : p.out \notin operands(c)
<1>0. n \in Nat \ {0} /\ Len(pieces) = n /\ at \in Name
  BY DEF Apart
<1>1. \A i \in 1 .. n : pieces[i].net \subseteq p.net
  BY JoinDrives
<1>2. \A i \in 1 .. n : driven(pieces[i].net) \subseteq driven(p.net)
  BY <1>1 DEF driven
<1>3. \A i \in 1 .. n : pieces[i].out \in L \cup driven(p.net)
  BY <1>2 DEF Apart, Piece
<1>4. \A i \in 2 .. n : sub(at, i) \in driven(p.net)
  <2> SUFFICES ASSUME NEW i \in 2 .. n PROVE sub(at, i) \in driven(p.net)
    OBVIOUS
  <2> DEFINE c == chain_cell(type, pieces, at, i)
  <2>1. c \in join(type, pieces, at).net /\ c.y = sub(at, i)
    BY ChainCells
  <2> HIDE DEF c
  <2> QED  BY <2>1 DEF driven
<1>5. \A i \in 1 .. n : chain_signal(pieces, at, i) \in L \cup driven(p.net)
  <2>1. \A i \in 1 .. n : i # 1 => i \in 2 .. n
    OBVIOUS
  <2> QED  BY <1>3, <1>4, <2>1 DEF chain_signal
<1>6. ASSUME NEW c \in p.net PROVE operands(c) \subseteq L \cup driven(p.net)
  <2>1. ASSUME NEW i \in 1 .. n, c \in pieces[i].net PROVE operands(c) \subseteq L \cup driven(p.net)
    BY <1>2, <2>1 DEF Apart, Piece
  <2>2. ASSUME NEW i \in 2 .. n, c = chain_cell(type, pieces, at, i)
        PROVE  operands(c) \subseteq L \cup driven(p.net)
    <3>1. i \in 1 .. n /\ i - 1 \in 1 .. n
      BY <1>0
    <3>2. c.a = chain_signal(pieces, at, i - 1) /\ c.b = pieces[i].out
      BY <2>2, ChainCells
    <3> QED  BY <1>3, <1>5, <3>1, <3>2 DEF operands
  <2> QED  BY <2>1, <2>2, JoinCells
<1>j. Joined(p, type, pieces, n, at)
  BY <1>0, JoinParts
<1>7. p.out = chain_signal(pieces, at, n)
  BY <1>j DEF Joined
<1>8. n > 1 => n \in 2 .. n /\ p.out = sub(at, n)
  BY <1>0, <1>7 DEF chain_signal
<1>a. p.net = {chain_cell(type, pieces, at, i) : i \in 2 .. n}
                  \cup UNION {pieces[i].net : i \in 1 .. n}
  BY <1>j DEF Joined
<1>9. n = 1 => p.out = pieces[1].out /\ p.net = pieces[1].net
  <2> SUFFICES ASSUME n = 1 PROVE p.out = pieces[1].out /\ p.net = pieces[1].net
    OBVIOUS
  <2>1. 1 .. n = {1} /\ 2 .. n = {}
    OBVIOUS
  <2> QED  BY <1>7, <1>a, <2>1 DEF chain_signal
<1>10. ASSUME n > 1, NEW c \in p.net PROVE p.out \notin operands(c)
  <2>1. p.out = sub(at, n) /\ p.out \in Under(at) /\ p.out \notin Deep(at) \cup L
    BY <1>8, <1>10, ChainSignals
  <2>2. ASSUME NEW i \in 1 .. n, c \in pieces[i].net PROVE p.out \notin operands(c)
    BY <2>1, <2>2 DEF Apart, Piece
  <2>3. ASSUME NEW i \in 2 .. n, c = chain_cell(type, pieces, at, i) PROVE p.out \notin operands(c)
    <3>1. c.a = chain_signal(pieces, at, i - 1) /\ c.b = pieces[i].out
      BY <2>3, ChainCells
    <3>2. /\ pieces[i].out \in L \cup Deep(at) /\ pieces[1].out \in L \cup Deep(at)
          /\ chain_signal(pieces, at, i - 1) =
               IF i = 2 THEN pieces[1].out ELSE sub(at, i - 1)
      BY ChainSignals
    <3>3. sub(at, i - 1) # sub(at, n)
      <4>1. i - 1 \in Nat /\ n \in Nat /\ i - 1 # n
        BY <1>0
      <4> QED  BY <1>0, <4>1, NewNames, Zenon
    <3> QED  BY <2>1, <3>1, <3>2, <3>3 DEF operands
  <2> QED  BY <2>2, <2>3, JoinCells
<1>11. n = 1 \/ n > 1
  BY <1>0
<1>12. ASSUME p.out \in driven(p.net), n = 1, NEW c \in p.net PROVE p.out \notin operands(c)
  <2>1. 1 \in 1 .. n
    BY <1>0
  <2> QED  BY <1>9, <1>12, <2>1 DEF Apart, Piece
<1> QED  BY <1>3, <1>4, <1>6, <1>8, <1>9, <1>10, <1>11, <1>12

\* Joined pieces have no loop: the pieces come first, then the chain in order.
LEMMA JoinLoopFree ==
  ASSUME NEW pieces, NEW n, NEW V, NEW L, NEW at, Apart(pieces, n, V, L, at),
         NEW type \in {"$and", "$or"}, NEW p, p = join(type, pieces, at)
  PROVE  loop_free(p.net)
<1>0. n \in Nat \ {0} /\ at \in Name /\ L \cap Under(at) = {}
  BY DEF Apart
<1>1. driven(p.net) \subseteq Under(at) /\ \A c, d \in p.net : c.y = d.y => c = d
  BY JoinDrives
<1> SUFFICES ASSUME NEW S \in SUBSET p.net, S # {}
             PROVE  \E c \in S : operands(c) \cap driven(S) = {}
  BY DEF loop_free
<1>2. ASSUME NEW i \in 1 .. n, S \cap pieces[i].net # {}
      PROVE  \E c \in S : operands(c) \cap driven(S) = {}
  <2> DEFINE X == S \cap pieces[i].net
  <2>1. /\ loop_free(pieces[i].net) /\ pieces[i].net \subseteq p.net
        /\ \A c \in pieces[i].net : operands(c) \subseteq L \cup driven(pieces[i].net)
    <3>1. pieces[i].net \subseteq p.net
      BY JoinDrives
    <3> QED  BY <3>1 DEF Apart, Piece
  <2>2. PICK c \in X : operands(c) \cap driven(X) = {}
    <3>1. X \in SUBSET pieces[i].net /\ X # {}
      BY <1>2
    <3> HIDE DEF X
    <3> QED  BY <2>1, <3>1 DEF loop_free
  <2>3. ASSUME NEW d \in S, d.y \in operands(c) PROVE FALSE
    <3>1. d.y \in driven(pieces[i].net)
      BY <1>0, <1>1, <2>1, <2>3 DEF driven
    <3>2. d \in pieces[i].net
      BY <1>1, <2>1, <3>1 DEF driven
    <3> QED  BY <2>2, <2>3, <3>2 DEF driven
  <2> QED  BY <2>2, <2>3 DEF driven
<1>3. ASSUME \A i \in 1 .. n : S \cap pieces[i].net = {}
      PROVE  \E c \in S : operands(c) \cap driven(S) = {}
  <2>1. \A c \in S : \E i \in 2 .. n : c = chain_cell(type, pieces, at, i)
    BY <1>3, JoinCells
  <2> DEFINE X == {i \in 2 .. n : chain_cell(type, pieces, at, i) \in S}
  <2>2. PICK i \in X : \A j \in X : i <= j
    <3>1. X \in SUBSET Nat /\ X # {}
      BY <2>1
    <3> HIDE DEF X
    <3> QED  BY <3>1, LeastNatural
  <2>3. i \in 2 .. n /\ i \in Nat /\ i - 1 \in Nat /\ i - 1 \notin X
    BY <2>2
  <2> DEFINE c == chain_cell(type, pieces, at, i)
  <2>4. c \in S
    BY <2>2
  <2>5. c.a = chain_signal(pieces, at, i - 1) /\ c.b = pieces[i].out
    BY <2>3, ChainCells
  <2>6. /\ pieces[i].out \in L \cup Deep(at) /\ pieces[1].out \in L \cup Deep(at)
        /\ chain_signal(pieces, at, i - 1) =
             IF i = 2 THEN pieces[1].out ELSE sub(at, i - 1)
    BY <2>3, ChainSignals
  <2>7. ASSUME NEW d \in S, d.y \in operands(c) PROVE FALSE
    <3>1. PICK j \in 2 .. n : d = chain_cell(type, pieces, at, j)
      BY <2>1
    <3>2. d.y = sub(at, j)
      BY <3>1, ChainCells
    <3>3. sub(at, j) \notin Deep(at) \cup L
      BY ChainSignals
    <3>4. sub(at, j) = sub(at, i - 1)
      BY <2>5, <2>6, <2>7, <3>2, <3>3 DEF operands
    <3>5. j \in Nat
      OBVIOUS
    <3>6. j = i - 1
      BY <1>0, <2>3, <3>4, <3>5, NewNames
    <3> QED  BY <2>3, <3>1, <3>6
  <2> HIDE DEF c
  <2> QED  BY <2>4, <2>7 DEF driven
<1> QED  BY <1>2, <1>3

\* Pieces that are joined make a piece.
LEMMA JoinPiece ==
  ASSUME NEW pieces, NEW n, NEW V, NEW L, NEW at, Apart(pieces, n, V, L, at),
         NEW type \in {"$and", "$or"}, NEW p, p = join(type, pieces, at)
  PROVE  Piece(p, Under(at), L) /\ (n > 1 => p.out \in driven(p.net))
<1>1. /\ IsFiniteSet(p.net) /\ p.net \subseteq Cells /\ driven(p.net) \subseteq Under(at)
      /\ \A c, d \in p.net : c.y = d.y => c = d
  BY JoinDrives
<1>2. /\ \A c \in p.net : operands(c) \subseteq L \cup driven(p.net)
      /\ p.out \in L \cup driven(p.net)
      /\ n > 1 => p.out \in driven(p.net)
      /\ p.out \in driven(p.net) => \A c \in p.net : p.out \notin operands(c)
  BY JoinReads
<1>3. loop_free(p.net)
  BY JoinLoopFree
<1> QED  BY <1>1, <1>2, <1>3 DEF Piece

-----------------------------------------------------------------------------

\* A binary cell of a type is hot if one of its operands is; hot is 1 for $or and 0 for $and.
LEMMA HotCell ==
  ASSUME NEW T, NEW c, c.type \in {"$and", "$or"}, c.y \in T <=> on(c, T)
  PROVE  hot(c.type, T, c.y) <=> hot(c.type, T, c.a) \/ hot(c.type, T, c.b)
  BY DEF hot, on

all_hold(pieces, T) == \A i \in 1 .. Len(pieces) : Holds(pieces[i].net, T)
some_hot(pieces, type, T) == \E i \in 1 .. Len(pieces) : hot(type, T, pieces[i].out)

\* Joined pieces are hot if one of them is.
LEMMA JoinHot ==
  ASSUME NEW pieces, NEW n, NEW V, NEW L, NEW at, Apart(pieces, n, V, L, at),
         NEW type \in {"$and", "$or"}, NEW p, p = join(type, pieces, at),
         NEW T, Holds(p.net, T)
  PROVE  /\ all_hold(pieces, T)
         /\ hot(type, T, p.out) <=> some_hot(pieces, type, T)
<1>0. n \in Nat \ {0} /\ Len(pieces) = n
  BY DEF Apart
<1>1. \A i \in 1 .. n : Holds(pieces[i].net, T)
  BY JoinDrives DEF Holds
<1> DEFINE one(i) == hot(type, T, chain_signal(pieces, at, i))
                       <=> \E j \in 1 .. i : hot(type, T, pieces[j].out)
           X == {i \in 1 .. n : ~one(i)}
<1>2. one(1)
  <2>1. 1 .. 1 = {1}
    OBVIOUS
  <2> QED  BY <2>1 DEF chain_signal
<1>3. ASSUME NEW i \in 2 .. n, one(i - 1) PROVE one(i)
  <2> DEFINE c == chain_cell(type, pieces, at, i)
             y == chain_signal(pieces, at, i)
  <2>1. /\ c \in p.net /\ c.type = type
        /\ c.a = chain_signal(pieces, at, i - 1) /\ c.b = pieces[i].out
    BY ChainCells
  <2>2. c.y = y
    BY CellFields DEF chain_cell
  <2> HIDE DEF c, y
  <2>3. hot(type, T, c.y) <=> hot(type, T, c.a) \/ hot(type, T, c.b)
    BY <2>1, HotCell DEF Holds
  <2>4. 1 .. i = (1 .. i - 1) \cup {i}
    BY <1>0
  <2>5. hot(type, T, y) <=> hot(type, T, chain_signal(pieces, at, i - 1)) \/ hot(type, T, pieces[i].out)
    BY <2>1, <2>2, <2>3
  <2>6. (\E j \in 1 .. i : hot(type, T, pieces[j].out))
          <=> (\E j \in 1 .. i - 1 : hot(type, T, pieces[j].out)) \/ hot(type, T, pieces[i].out)
    BY <2>4
  <2> QED  BY <1>3, <2>5, <2>6 DEF y
<1>4. X = {}
  <2> SUFFICES ASSUME X # {} PROVE FALSE
    OBVIOUS
  <2>1. PICK i \in X : \A j \in X : i <= j
    <3>1. X \in SUBSET Nat
      BY <1>0
    <3> HIDE DEF X
    <3> QED  BY <3>1, LeastNatural
  <2>2. i # 1
    BY <1>2, <2>1
  <2>3. i \in 2 .. n /\ i - 1 \in 1 .. n /\ i - 1 \notin X
    <3>1. i \in 1 .. n
      BY <2>1
    <3> HIDE DEF X
    <3> QED  BY <1>0, <2>1, <2>2, <3>1
  <2>4. one(i - 1)
    BY <2>3
  <2>5. one(i)
    <3> HIDE DEF one
    <3> QED  BY <1>3, <2>3, <2>4
  <2> QED  BY <2>1, <2>5
<1>5. one(n)
  <2>1. n \in 1 .. n
    BY <1>0
  <2> HIDE DEF one
  <2> QED  BY <1>4, <2>1
<1>j. Joined(p, type, pieces, n, at)
  BY <1>0, JoinParts
<1>6. p.out = chain_signal(pieces, at, n)
  BY <1>j DEF Joined
<1> QED  BY <1>0, <1>1, <1>5, <1>6 DEF all_hold, some_hot

-----------------------------------------------------------------------------
(* Sequences of pieces.                                                    *)

\* A function on 1 .. n is a sequence of n elements.
LEMMA FunctionLength ==
  ASSUME NEW n \in Nat, NEW S, NEW s \in [1 .. n -> S]
  PROVE  s \in Seq(S) /\ Len(s) = n
<1>1. s \in Seq(S) /\ DOMAIN s = 1 .. n
  BY SeqDef
<1>2. Len(s) \in Nat /\ DOMAIN s = 1 .. Len(s)
  BY <1>1, LenProperties
<1>3. Len(s) = n
  BY <1>1, <1>2
<1> QED  BY <1>1, <1>3

\* SetToSeq lists every element of a finite set once.
LEMMA ListOfSet ==
  ASSUME NEW S, IsFiniteSet(S), NEW s, s = SetToSeq(S)
  PROVE  /\ Len(s) = Cardinality(S) /\ Len(s) \in Nat
         /\ \A i \in 1 .. Len(s) : s[i] \in S
         /\ \A x \in S : \E i \in 1 .. Len(s) : s[i] = x
<1> DEFINE n == Cardinality(S)
<1>1. n \in Nat /\ ExistsBijection(1 .. n, S)
  BY FS_CardinalityType
<1>2. PICK f : f \in Bijection(1 .. n, S)
  BY <1>1 DEF ExistsBijection
<1>3. f \in [1 .. n -> S] /\ IsInjective(f)
  BY <1>2, Zenon DEF Bijection, Injection, IsInjective
<1>4. s \in [1 .. n -> S] /\ IsInjective(s)
  <2> DEFINE I == {g \in [1 .. n -> S] : IsInjective(g)}
  <2>1. s = CHOOSE g \in I : TRUE
    <3>1. s = CHOOSE g \in [1 .. n -> S] : IsInjective(g)
      BY DEF SetToSeq
    <3> QED  BY <1>3, <3>1
  <2> QED  BY <1>3, <2>1
<1> HIDE DEF n
<1>5. Len(s) = n
  BY <1>1, <1>4, FunctionLength
<1>6. IsFiniteSet(1 .. n) /\ Cardinality(1 .. n) = n
  BY <1>1, FS_Interval
<1>7. s \in Injection(1 .. n, S)
  BY <1>4, Zenon DEF Injection, IsInjective
<1>8. s \in Surjection(1 .. n, S)
  BY <1>6, <1>7, FS_Injection DEF n
<1> QED  BY <1>1, <1>4, <1>5, <1>8 DEF n, Surjection

-----------------------------------------------------------------------------
(* The pieces that are built.                                              *)

\* There is room for new signals under a name.
Room(L, at) ==
  at \in Name /\ L \subseteq Name /\ Constants \subseteq L /\ L \cap Under(at) = {}

\* There is room under every longer name.
LEMMA RoomBelow ==
  ASSUME NEW L, NEW at, Room(L, at), NEW i \in Nat
  PROVE  Room(L, sub(at, i)) /\ sub(at, i) \in Under(at) /\ sub(at, i) \notin L
<1>1. sub(at, i) \in Name /\ sub(at, i) \in Under(at) /\ Under(sub(at, i)) \subseteq Deep(at)
  BY NewNames DEF Room
<1> QED  BY <1>1 DEF Room, Deep

\* Pieces built under different names are apart.
LEMMA PiecesApart ==
  ASSUME NEW L, NEW at, Room(L, at), NEW n \in Nat \ {0}, NEW pieces, Len(pieces) = n,
         \A i \in 1 .. n : Piece(pieces[i], Under(sub(at, i)), L)
  PROVE  \E V : Apart(pieces, n, V, L, at)
<1> DEFINE V == [i \in 1 .. n |-> Under(sub(at, i))]
<1>1. \A i \in 1 .. n : V[i] = Under(sub(at, i)) /\ i \in Nat
  OBVIOUS
<1>2. \A i \in Nat : Under(sub(at, i)) \subseteq Deep(at)
  BY NewNames DEF Room
<1>3. \A i, j \in Nat : i # j => Under(sub(at, i)) \cap Under(sub(at, j)) = {}
  BY NewNames DEF Room
<1>4. \A i \in 1 .. n : Piece(pieces[i], V[i], L) /\ V[i] \subseteq Deep(at)
  BY <1>1, <1>2
<1>5. \A i, j \in 1 .. n : i # j => V[i] \cap V[j] = {}
  BY <1>1, <1>3
<1> HIDE DEF V
<1>6. Apart(pieces, n, V, L, at)
  BY <1>4, <1>5 DEF Apart, Room
<1> QED  BY <1>6

\* A piece without cells.
LEMMA WirePiece ==
  ASSUME NEW x, NEW V, NEW L, x \in L, NEW p, p.net = {}, p.out = x
  PROVE  Piece(p, V, L)
<1>1. IsFiniteSet({}) /\ driven({}) = {} /\ loop_free({})
  BY FS_EmptySet DEF driven, loop_free
<1> QED  BY <1>1 DEF Piece

\* A literal as a piece: a wire or an inverter.
LEMMA LiteralPiece ==
  ASSUME NEW L, NEW at, Room(L, at), NEW lit \in L \X BOOLEAN,
         NEW p, p = build_literal(lit, at)
  PROVE  /\ Piece(p, Under(at), L)
         /\ \A T : Holds(p.net, T) =>
              \A type \in {"$and", "$or"} :
                hot(type, T, p.out) <=> lit \in hot_literals(type, T)
<1>1. lit[1] \in L /\ lit[1] \in Name /\ lit \in Name \X BOOLEAN
      /\ (lit[2] = TRUE \/ lit[2] = FALSE)
  BY DEF Room
<1>2. CASE lit[2] = FALSE
  <2>1. p.net = {} /\ p.out = lit[1]
    BY <1>2 DEF build_literal
  <2>2. Piece(p, Under(at), L)
    BY <1>1, <2>1, WirePiece
  <2> QED  BY <1>1, <1>2, <2>1, <2>2 DEF hot_literals
<1>3. CASE lit[2] = TRUE
  <2> DEFINE x == lit[1]
             y == sub(at, 0)
             c == cell("$not", x, x, y)
  <2>1. y \in Under(at) /\ y \notin L /\ y \in Name
    BY RoomBelow DEF Room
  <2>2. p.net = {c} /\ p.out = y
    BY <1>3 DEF build_literal, sub
  <2>3. c.type = "$not" /\ c.a = x /\ c.y = y /\ operands(c) = {x} /\ c \in Cells
    BY <1>1, <2>1 DEF cell, operands, Cells
  <2> HIDE DEF c, x, y
  <2>4. IsFiniteSet({c}) /\ driven({c}) = {y}
    <3>1. IsFiniteSet({c})
      BY FS_Singleton
    <3>2. driven({c}) = {y}
      BY <2>3 DEF driven
    <3> QED  BY <3>1, <3>2
  <2>5. x \in L /\ x # y
    BY <1>1, <2>1 DEF x
  <2>6. loop_free({c})
    <3> SUFFICES ASSUME NEW S \in SUBSET {c}, S # {}
                 PROVE  \E d \in S : operands(d) \cap driven(S) = {}
      BY DEF loop_free
    <3>1. S = {c}
      OBVIOUS
    <3> QED  BY <2>3, <2>4, <2>5, <3>1
  <2>7. Piece(p, Under(at), L)
    BY <2>1, <2>2, <2>3, <2>4, <2>5, <2>6 DEF Piece
  <2>8. ASSUME NEW T, Holds(p.net, T), NEW type \in {"$and", "$or"}
        PROVE  hot(type, T, p.out) <=> lit \in hot_literals(type, T)
    <3>1. y \in T <=> x \notin T
      BY <2>2, <2>3, <2>8 DEF Holds, on
    <3>2. hot(type, T, y) <=> ~hot(type, T, x)
      BY <3>1 DEF hot
    <3> QED  BY <1>1, <1>3, <2>2, <3>2 DEF hot_literals, x
  <2> QED  BY <2>7, <2>8
<1> QED  BY <1>1, <1>2, <1>3

\* The output of a piece is hot if the cover fires.
Realizes(p, cover, type) ==
  \A T : Holds(p.net, T) /\ One \in T /\ Zero \notin T
          => (hot(type, T, p.out) <=> fires(cover, type, T))

\* A cube of literals, as a piece for the type that is dual to the root's.
LEMMA CubePiece ==
  ASSUME NEW L, NEW at, Room(L, at), NEW type \in {"$and", "$or"}, NEW child \in {"$and", "$or"},
         child # type, NEW cube, IsFiniteSet(cube), cube \subseteq L \X BOOLEAN,
         NEW p, p = build_cube(cube, child, at)
  PROVE  Piece(p, Under(at), L) /\ Realizes(p, {cube}, type)
<1>0. \A T, x : hot(child, T, x) <=> ~hot(type, T, x)
  BY DEF hot
<1>a. \A T : fires({cube}, type, T) <=> cube \subseteq hot_literals(type, T)
  BY DEF fires
<1>1. CASE cube = {}
  <2>1. p.net = {} /\ p.out = IF child = "$and" THEN One ELSE Zero
    BY <1>1 DEF build_cube, identity
  <2>2. p.out \in L
    BY <2>1 DEF Room, Constants
  <2>3. Piece(p, Under(at), L)
    BY <2>1, <2>2, WirePiece
  <2>4. \A T : One \in T /\ Zero \notin T => hot(type, T, p.out)
    BY <2>1 DEF hot
  <2> QED  BY <1>1, <1>a, <2>3, <2>4 DEF Realizes
<1>2. CASE cube # {}
  <2> DEFINE lits == SetToSeq(cube)
             n == Len(lits)
             pieces == [i \in 1 .. n |-> build_literal(lits[i], at \o <<i>>)]
  <2>1. /\ n \in Nat /\ (\A i \in 1 .. n : lits[i] \in cube)
        /\ \A x \in cube : \E i \in 1 .. n : lits[i] = x
    BY ListOfSet
  <2>2. p = join(child, pieces, at)
    BY <1>2 DEF build_cube
  <2> HIDE DEF lits
  <2>3. n # 0
    BY <1>2, <2>1
  <2>4. \A i \in 1 .. n : pieces[i] = build_literal(lits[i], sub(at, i))
    BY DEF sub
  <2>5. Len(pieces) = n
    <3>1. pieces \in [1 .. n -> {pieces[i] : i \in 1 .. n}]
      OBVIOUS
    <3> HIDE DEF pieces
    <3> QED  BY <2>1, <3>1, FunctionLength
  <2> HIDE DEF pieces
  <2>6. ASSUME NEW i \in 1 .. n
        PROVE  /\ Piece(pieces[i], Under(sub(at, i)), L)
               /\ \A T : Holds(pieces[i].net, T) =>
                    (hot(type, T, pieces[i].out) <=> lits[i] \in hot_literals(type, T))
    <3>1. Room(L, sub(at, i)) /\ lits[i] \in L \X BOOLEAN
      BY <2>1, RoomBelow
    <3> QED  BY <2>4, <3>1, LiteralPiece
  <2>7. n \in Nat \ {0}
    BY <2>1, <2>3
  <2> HIDE DEF n
  <2>8. PICK V : Apart(pieces, n, V, L, at)
    BY <2>5, <2>6, <2>7, PiecesApart
  <2>9. Piece(p, Under(at), L)
    BY <2>2, <2>8, JoinPiece
  <2>10. ASSUME NEW T, Holds(p.net, T)
         PROVE  hot(type, T, p.out) <=> cube \subseteq hot_literals(type, T)
    <3>1. all_hold(pieces, T) /\ (hot(child, T, p.out) <=> some_hot(pieces, child, T))
      BY <2>2, <2>8, <2>10, JoinHot
    <3>2. \A i \in 1 .. n : hot(type, T, pieces[i].out) <=> lits[i] \in hot_literals(type, T)
      BY <2>5, <2>6, <3>1 DEF all_hold
    <3>3. hot(type, T, p.out) <=> \A i \in 1 .. n : lits[i] \in hot_literals(type, T)
      BY <1>0, <2>5, <3>1, <3>2 DEF some_hot
    <3> QED  BY <2>1, <3>3 DEF n
  <2> QED  BY <1>a, <2>9, <2>10 DEF Realizes
<1> QED  BY <1>1, <1>2

\* The cubes of a cover, each as a piece.
made(pieces, i, cube, child, at) == pieces[i] = build_cube(cube, child, sub(at, i))

\* `build_cubes' makes one piece for each cube.
LEMMA CubesList ==
  ASSUME NEW cover, IsFiniteSet(cover), NEW child, NEW at,
         NEW pieces, pieces = build_cubes(cover, child, at)
  PROVE  /\ Len(pieces) = Cardinality(cover) /\ Len(pieces) \in Nat
         /\ \A i \in 1 .. Len(pieces) : \E cube \in cover : made(pieces, i, cube, child, at)
         /\ \A cube \in cover : \E i \in 1 .. Len(pieces) : made(pieces, i, cube, child, at)
         /\ \E S : pieces \in [1 .. Len(pieces) -> S]
<1> DEFINE cubes == SetToSeq(cover)
           n == Len(cubes)
<1>1. /\ n = Cardinality(cover) /\ n \in Nat /\ (\A i \in 1 .. n : cubes[i] \in cover)
      /\ \A x \in cover : \E i \in 1 .. n : cubes[i] = x
  BY ListOfSet
<1>2. pieces = [i \in 1 .. n |-> build_cube(cubes[i], child, sub(at, i))]
  BY DEF build_cubes, sub
<1> HIDE DEF cubes
<1>3. pieces \in [1 .. n -> {pieces[i] : i \in 1 .. n}]
  BY <1>2
<1>4. Len(pieces) = n
  BY <1>1, <1>3, FunctionLength
<1>5. \A i \in 1 .. n : made(pieces, i, cubes[i], child, at)
  BY <1>2 DEF made
<1> HIDE DEF n
<1> QED  BY <1>1, <1>3, <1>4, <1>5

\* These pieces are what the cover says.
LEMMA CubesPieces ==
  ASSUME NEW L, NEW at, Room(L, at), NEW type \in {"$and", "$or"}, NEW child \in {"$and", "$or"},
         child # type, NEW cover, IsCover(cover, L),
         NEW pieces, pieces = build_cubes(cover, child, at)
  PROVE  /\ \A i \in 1 .. Len(pieces) : Piece(pieces[i], Under(sub(at, i)), L)
         /\ \A T : all_hold(pieces, T) /\ One \in T /\ Zero \notin T
                   => (some_hot(pieces, type, T) <=> fires(cover, type, T))
<1> DEFINE n == Len(pieces)
<1>1. /\ n \in Nat
      /\ \A i \in 1 .. n : \E cube \in cover : made(pieces, i, cube, child, at)
      /\ \A cube \in cover : \E i \in 1 .. n : made(pieces, i, cube, child, at)
  BY CubesList DEF IsCover
<1>2. ASSUME NEW i \in 1 .. n, NEW cube \in cover, made(pieces, i, cube, child, at)
      PROVE  Piece(pieces[i], Under(sub(at, i)), L) /\ Realizes(pieces[i], {cube}, type)
  <2>1. i \in Nat
    BY <1>1
  <2>2. Room(L, sub(at, i))
    BY <2>1, RoomBelow
  <2>3. IsFiniteSet(cube) /\ cube \subseteq L \X BOOLEAN
    BY DEF IsCover
  <2> QED  BY <1>2, <2>2, <2>3, CubePiece DEF made
<1>3. ASSUME NEW T, all_hold(pieces, T), One \in T, Zero \notin T
      PROVE  some_hot(pieces, type, T) <=> fires(cover, type, T)
  <2>1. ASSUME NEW i \in 1 .. n, NEW cube \in cover, made(pieces, i, cube, child, at)
        PROVE  hot(type, T, pieces[i].out) <=> cube \subseteq hot_literals(type, T)
    <3>1. Realizes(pieces[i], {cube}, type) /\ Holds(pieces[i].net, T)
      BY <1>2, <1>3, <2>1 DEF all_hold
    <3> QED  BY <1>3, <3>1 DEF Realizes, fires
  <2>2. ASSUME some_hot(pieces, type, T) PROVE fires(cover, type, T)
    <3>1. PICK i \in 1 .. n : hot(type, T, pieces[i].out)
      BY <2>2 DEF some_hot
    <3>2. PICK cube \in cover : made(pieces, i, cube, child, at)
      BY <1>1
    <3> QED  BY <2>1, <3>1, <3>2 DEF fires
  <2>3. ASSUME fires(cover, type, T) PROVE some_hot(pieces, type, T)
    <3>1. PICK cube \in cover : cube \subseteq hot_literals(type, T)
      BY <2>3 DEF fires
    <3>2. PICK i \in 1 .. n : made(pieces, i, cube, child, at)
      BY <1>1
    <3> QED  BY <2>1, <3>1, <3>2 DEF some_hot
  <2> QED  BY <2>2, <2>3
<1>4. \A i \in 1 .. n : Piece(pieces[i], Under(sub(at, i)), L)
  BY <1>1, <1>2
<1> QED  BY <1>3, <1>4

\* A cover as a piece, with a cell of its own if it has more than one cube.
LEMMA CoverPiece ==
  ASSUME NEW L, NEW at, Room(L, at), NEW type \in {"$and", "$or"}, NEW child \in {"$and", "$or"},
         child # type, NEW cover, IsCover(cover, L), cover # {},
         NEW p, p = build_cover(cover, type, child, at)
  PROVE  /\ Piece(p, Under(at), L) /\ Realizes(p, cover, type)
         /\ Cardinality(cover) > 1 => p.out \in driven(p.net)
<1> DEFINE pieces == build_cubes(cover, child, at)
           n == Len(pieces)
<1>1. n = Cardinality(cover) /\ n \in Nat
  BY CubesList DEF IsCover
<1>2. /\ \A i \in 1 .. n : Piece(pieces[i], Under(sub(at, i)), L)
      /\ \A T : all_hold(pieces, T) /\ One \in T /\ Zero \notin T
                => (some_hot(pieces, type, T) <=> fires(cover, type, T))
  BY CubesPieces
<1>3. p = join(type, pieces, at)
  BY DEF build_cover
<1> HIDE DEF pieces
<1>4. n \in Nat \ {0}
  BY <1>1, FS_EmptySet DEF IsCover
<1>5. PICK V : Apart(pieces, n, V, L, at)
  BY <1>2, <1>4, PiecesApart
<1>6. Piece(p, Under(at), L) /\ (n > 1 => p.out \in driven(p.net))
  BY <1>3, <1>5, JoinPiece
<1>7. ASSUME NEW T, Holds(p.net, T)
      PROVE  all_hold(pieces, T) /\ (hot(type, T, p.out) <=> some_hot(pieces, type, T))
  BY <1>3, <1>5, <1>7, JoinHot
<1>8. Realizes(p, cover, type)
  BY <1>2, <1>7 DEF Realizes
<1> QED  BY <1>1, <1>6, <1>8

\* Quotient times divisor.
LEMMA ProductPiece ==
  ASSUME NEW L, NEW at, Room(L, at), NEW type \in {"$and", "$or"}, NEW child \in {"$and", "$or"},
         child # type, NEW factor,
         IsCover(factor.quotient, L), factor.quotient # {},
         IsCover(factor.divisor, L), factor.divisor # {},
         NEW p, p = build_product(factor, type, child, at)
  PROVE  /\ Piece(p, Under(at), L)
         /\ \A T : Holds(p.net, T) /\ One \in T /\ Zero \notin T =>
              (hot(type, T, p.out)
                 <=> fires(factor.quotient, type, T) /\ fires(factor.divisor, type, T))
         /\ \/ is_child_identity(factor.quotient) /\ Cardinality(factor.divisor) <= 1
            \/ is_child_identity(factor.divisor) /\ Cardinality(factor.quotient) <= 1
            \/ p.out \in driven(p.net)
<1> DEFINE q == factor.quotient
           d == factor.divisor
<1>0. Cardinality(q) \in Nat /\ Cardinality(d) \in Nat
  BY FS_CardinalityType DEF IsCover
<1>a. \A cover, T : is_child_identity(cover) => fires(cover, type, T)
  BY DEF is_child_identity, fires
<1>1. CASE is_child_identity(q)
  <2>1. p = build_cover(d, type, child, at)
    <3>1. CASE ~is_child_identity(d)
      BY <1>1, <3>1 DEF build_product
    <3>2. CASE is_child_identity(d)
      <4>1. build_cover(q, type, child, at) = build_cover(d, type, child, at)
        <5>1. q = d
          BY <1>1, <3>2 DEF is_child_identity
        <5> QED  BY <5>1
      <4> QED  BY <1>1, <4>1 DEF build_product
    <3> QED  BY <3>1, <3>2
  <2>2. /\ Piece(p, Under(at), L) /\ Realizes(p, d, type)
        /\ Cardinality(d) > 1 => p.out \in driven(p.net)
    BY <2>1, CoverPiece
  <2>3. Cardinality(d) <= 1 \/ p.out \in driven(p.net)
    BY <1>0, <2>2
  <2> QED  BY <1>1, <1>a, <2>2, <2>3 DEF Realizes
<1>2. CASE ~is_child_identity(q) /\ is_child_identity(d)
  <2>1. p = build_cover(q, type, child, at)
    BY <1>2 DEF build_product
  <2>2. /\ Piece(p, Under(at), L) /\ Realizes(p, q, type)
        /\ Cardinality(q) > 1 => p.out \in driven(p.net)
    BY <2>1, CoverPiece
  <2>3. Cardinality(q) <= 1 \/ p.out \in driven(p.net)
    BY <1>0, <2>2
  <2> QED  BY <1>2, <1>a, <2>2, <2>3 DEF Realizes
<1>3. CASE ~is_child_identity(q) /\ ~is_child_identity(d)
  <2>1. PICK a, b : a = build_cover(q, type, child, sub(at, 1)) /\ b = build_cover(d, type, child, sub(at, 2))
    OBVIOUS
  <2> DEFINE pieces == <<a, b>>
  <2>2. p = join(child, pieces, at)
    BY <1>3, <2>1 DEF build_product, sub
  <2>3. Piece(a, Under(sub(at, 1)), L) /\ Realizes(a, q, type)
    <3>1. Room(L, sub(at, 1))
      BY RoomBelow
    <3> QED  BY <2>1, <3>1, CoverPiece
  <2>4. Piece(b, Under(sub(at, 2)), L) /\ Realizes(b, d, type)
    <3>1. Room(L, sub(at, 2))
      BY RoomBelow
    <3> QED  BY <2>1, <3>1, CoverPiece
  <2>5. Len(pieces) = 2 /\ pieces[1] = a /\ pieces[2] = b
    OBVIOUS
  <2> HIDE DEF pieces
  <2>6. PICK V : Apart(pieces, 2, V, L, at)
    <3>1. \A i \in 1 .. 2 : i = 1 \/ i = 2
      OBVIOUS
    <3>2. \A i \in 1 .. 2 : Piece(pieces[i], Under(sub(at, i)), L)
      BY <2>3, <2>4, <2>5, <3>1
    <3>3. 2 \in Nat \ {0}
      OBVIOUS
    <3> QED  BY <2>5, <3>2, <3>3, PiecesApart
  <2>7. Piece(p, Under(at), L) /\ p.out \in driven(p.net)
    <3>1. Piece(p, Under(at), L) /\ (2 > 1 => p.out \in driven(p.net))
      BY <2>2, <2>6, JoinPiece
    <3> QED  BY <3>1
  <2>8. ASSUME NEW T, Holds(p.net, T), One \in T, Zero \notin T
        PROVE  hot(type, T, p.out) <=> fires(q, type, T) /\ fires(d, type, T)
    <3>1. all_hold(pieces, T) /\ (hot(child, T, p.out) <=> some_hot(pieces, child, T))
      BY <2>2, <2>6, <2>8, JoinHot
    <3>2. Holds(a.net, T) /\ Holds(b.net, T)
      BY <2>5, <3>1 DEF all_hold
    <3>3. some_hot(pieces, child, T) <=> hot(child, T, a.out) \/ hot(child, T, b.out)
      <4>1. \A i \in 1 .. 2 : i = 1 \/ i = 2
        OBVIOUS
      <4>2. 1 \in 1 .. 2 /\ 2 \in 1 .. 2
        OBVIOUS
      <4> QED  BY <2>5, <4>1, <4>2 DEF some_hot
    <3>4. \A x : hot(child, T, x) <=> ~hot(type, T, x)
      BY DEF hot
    <3>5. hot(type, T, a.out) <=> fires(q, type, T)
      BY <2>3, <2>8, <3>2 DEF Realizes
    <3>6. hot(type, T, b.out) <=> fires(d, type, T)
      BY <2>4, <2>8, <3>2 DEF Realizes
    <3> QED  BY <3>1, <3>3, <3>4, <3>5, <3>6
  <2> QED  BY <2>7, <2>8
<1> QED  BY <1>1, <1>2, <1>3

\* A sequence with one element more.
LEMMA AppendOne ==
  ASSUME NEW S, NEW m \in Nat, NEW s \in [1 .. m -> S], NEW x, NEW t, t = s \o <<x>>
  PROVE  /\ Len(t) = m + 1 /\ t[m + 1] = x
         /\ \A i \in 1 .. m : t[i] = s[i]
<1> DEFINE X == S \cup {x}
<1>1. s \in [1 .. m -> X]
  OBVIOUS
<1>2. s \in Seq(X) /\ Len(s) = m
  BY <1>1, FunctionLength
<1>3. <<x>> \in Seq(X) /\ Len(<<x>>) = 1 /\ <<x>>[1] = x
  OBVIOUS
<1> HIDE DEF X
<1>4. /\ Len(t) = m + 1
      /\ \A i \in 1 .. m + 1 : t[i] = IF i <= m THEN s[i] ELSE <<x>>[i - m]
  <2>1. /\ Len(s \o <<x>>) = Len(s) + Len(<<x>>)
        /\ \A i \in 1 .. Len(s) + Len(<<x>>) : (s \o <<x>>)[i] =
                     IF i <= Len(s) THEN s[i] ELSE <<x>>[i - Len(s)]
    BY <1>2, <1>3, ConcatProperties
  <2> QED  BY <1>2, <1>3, <2>1
<1>5. m + 1 \in 1 .. m + 1 /\ ~(m + 1 <= m) /\ (m + 1) - m = 1
  OBVIOUS
<1> QED  BY <1>3, <1>4, <1>5

\* The remainder's cubes and the product.
LEMMA FactoredParts ==
  ASSUME NEW L, NEW at, Room(L, at), NEW type \in {"$and", "$or"}, NEW child \in {"$and", "$or"},
         child # type, NEW factor, IsCover(factor.remainder, L),
         NEW r, r = build_cubes(factor.remainder, child, sub(at, 1)),
         NEW m, m = Len(r), NEW prod, prod = build_product(factor, type, child, sub(at, 2)),
         Piece(prod, Under(sub(at, 2)), L)
  PROVE  /\ m = Cardinality(factor.remainder)
         /\ \E V, pieces : /\ Apart(pieces, m + 1, V, L, at)
                           /\ build_factored(factor, type, child, at) = join(type, pieces, at)
                           /\ pieces[m + 1] = prod /\ \A i \in 1 .. m : pieces[i] = r[i]
<1>1. m = Cardinality(factor.remainder) /\ m \in Nat
  BY CubesList DEF IsCover
<1>2. PICK S : r \in [1 .. m -> S]
  BY CubesList DEF IsCover
<1>3. PICK pieces : pieces = r \o <<prod>>
  OBVIOUS
<1>4. build_factored(factor, type, child, at) = join(type, pieces, at)
  BY <1>3 DEF build_factored, sub
<1>5. /\ Len(pieces) = m + 1 /\ pieces[m + 1] = prod
      /\ \A i \in 1 .. m : pieces[i] = r[i]
  BY <1>1, <1>2, <1>3, AppendOne
<1>6. Room(L, sub(at, 1))
  BY RoomBelow
<1>7. \A i \in 1 .. m : Piece(r[i], Under(sub(sub(at, 1), i)), L)
  BY <1>6, CubesPieces
<1> DEFINE one == sub(at, 1)
           v(i) == IF i = m + 1 THEN Under(sub(at, 2)) ELSE Under(sub(one, i))
           V == [i \in 1 .. m + 1 |-> v(i)]
<1>8. /\ at \in Name /\ one \in Name /\ Under(one) \subseteq Deep(at)
      /\ Under(sub(at, 2)) \subseteq Deep(at) /\ Under(one) \cap Under(sub(at, 2)) = {}
  <2>1. at \in Name /\ 1 \in Nat /\ 2 \in Nat /\ 1 # 2
    BY DEF Room
  <2> QED  BY <2>1, NewNames
<1> HIDE DEF one
<1>9. /\ \A i \in Nat : Under(sub(one, i)) \subseteq Under(one)
      /\ \A i, j \in Nat : i # j => Under(sub(one, i)) \cap Under(sub(one, j)) = {}
  BY <1>8, NewNames DEF Deep
<1>10. \A i \in 1 .. m + 1 : /\ V[i] = v(i) /\ (i = m + 1 \/ i \in 1 .. m) /\ i \in Nat
                             /\ i \in 1 .. m => i # m + 1
  BY <1>1
<1> HIDE DEF V
<1>11. \A i \in 1 .. m + 1 : Piece(pieces[i], V[i], L)
  BY <1>5, <1>7, <1>10 DEF one
<1>12. \A i \in 1 .. m + 1 : V[i] \subseteq Deep(at)
  BY <1>8, <1>9, <1>10
<1>13. \A i, j \in 1 .. m + 1 : i # j => V[i] \cap V[j] = {}
  <2> SUFFICES ASSUME NEW i \in 1 .. m + 1, NEW j \in 1 .. m + 1, i # j
               PROVE  V[i] \cap V[j] = {}
    OBVIOUS
  <2>1. CASE i = m + 1
    BY <1>8, <1>9, <1>10, <2>1
  <2>2. CASE j = m + 1
    BY <1>8, <1>9, <1>10, <2>2
  <2>3. CASE i # m + 1 /\ j # m + 1
    BY <1>9, <1>10, <2>3
  <2> QED  BY <2>1, <2>2, <2>3
<1>14. Apart(pieces, m + 1, V, L, at)
  <2>1. m + 1 \in Nat \ {0}
    BY <1>1
  <2> QED  BY <1>5, <1>11, <1>12, <1>13, <2>1 DEF Apart, Room
<1> QED  BY <1>1, <1>4, <1>5, <1>14

\* The factored form has the function of quotient * divisor + remainder, and its output
\* is a new signal unless nothing is factored.
LEMMA FactoredPiece ==
  ASSUME NEW L, NEW at, Room(L, at), NEW type \in {"$and", "$or"}, NEW child \in {"$and", "$or"},
         child # type, NEW factor, IsCover(factor.remainder, L),
         IsCover(factor.quotient, L), factor.quotient # {},
         IsCover(factor.divisor, L), factor.divisor # {},
         NEW p, p = build_factored(factor, type, child, at)
  PROVE  /\ Piece(p, Under(at), L)
         /\ \A T : Holds(p.net, T) /\ One \in T /\ Zero \notin T =>
              (hot(type, T, p.out)
                 <=> \/ fires(factor.quotient, type, T) /\ fires(factor.divisor, type, T)
                     \/ fires(factor.remainder, type, T))
         /\ \/ /\ factor.remainder = {}
               /\ \/ is_child_identity(factor.quotient) /\ Cardinality(factor.divisor) <= 1
                  \/ is_child_identity(factor.divisor) /\ Cardinality(factor.quotient) <= 1
            \/ p.out \in driven(p.net)
<1>1. PICK r, m, prod : /\ r = build_cubes(factor.remainder, child, sub(at, 1)) /\ m = Len(r)
                        /\ prod = build_product(factor, type, child, sub(at, 2))
  OBVIOUS
<1>2. Room(L, sub(at, 1)) /\ Room(L, sub(at, 2))
  BY RoomBelow
<1>3. /\ Piece(prod, Under(sub(at, 2)), L)
      /\ \A T : Holds(prod.net, T) /\ One \in T /\ Zero \notin T =>
           (hot(type, T, prod.out)
              <=> fires(factor.quotient, type, T) /\ fires(factor.divisor, type, T))
      /\ \/ is_child_identity(factor.quotient) /\ Cardinality(factor.divisor) <= 1
         \/ is_child_identity(factor.divisor) /\ Cardinality(factor.quotient) <= 1
         \/ prod.out \in driven(prod.net)
  BY <1>1, <1>2, ProductPiece
<1>4. m = Cardinality(factor.remainder)
  BY <1>1, <1>3, FactoredParts
<1>5. PICK V, pieces : /\ Apart(pieces, m + 1, V, L, at)
                       /\ p = join(type, pieces, at)
                       /\ pieces[m + 1] = prod /\ \A i \in 1 .. m : pieces[i] = r[i]
  BY <1>1, <1>3, FactoredParts
<1>6. m \in Nat /\ (m = 0 => factor.remainder = {})
  BY <1>4, FS_CardinalityType, FS_EmptySet DEF IsCover
<1>7. Piece(p, Under(at), L) /\ (m + 1 > 1 => p.out \in driven(p.net))
  BY <1>5, JoinPiece
<1>8. m + 1 = 1 => p.out = pieces[1].out /\ p.net = pieces[1].net
  BY <1>5, JoinReads
<1>9. \A T : all_hold(r, T) /\ One \in T /\ Zero \notin T
             => (some_hot(r, type, T) <=> fires(factor.remainder, type, T))
  BY <1>1, <1>2, CubesPieces
<1>10. Len(pieces) = m + 1
  BY <1>5 DEF Apart
<1>11. ASSUME NEW T, Holds(p.net, T), One \in T, Zero \notin T
       PROVE  hot(type, T, p.out)
                <=> \/ fires(factor.quotient, type, T) /\ fires(factor.divisor, type, T)
                    \/ fires(factor.remainder, type, T)
  <2>1. all_hold(pieces, T) /\ (hot(type, T, p.out) <=> some_hot(pieces, type, T))
    BY <1>5, <1>11, JoinHot
  <2>2. \A i \in 1 .. m + 1 : i \in 1 .. m \/ i = m + 1
    BY <1>6
  <2>3. m + 1 \in 1 .. m + 1 /\ \A i \in 1 .. m : i \in 1 .. m + 1
    BY <1>6
  <2>4. all_hold(r, T) /\ Holds(prod.net, T)
    BY <1>1, <1>5, <1>10, <2>1, <2>3 DEF all_hold
  <2>5. some_hot(pieces, type, T) <=> some_hot(r, type, T) \/ hot(type, T, prod.out)
    BY <1>1, <1>5, <1>10, <2>2, <2>3 DEF some_hot
  <2> QED  BY <1>3, <1>9, <1>11, <2>1, <2>4, <2>5
<1>12. ASSUME prod.out \in driven(prod.net) PROVE p.out \in driven(p.net)
  <2>1. CASE m = 0
    BY <1>5, <1>8, <1>12, <2>1
  <2>2. CASE m # 0
    BY <1>6, <1>7, <2>2
  <2> QED  BY <2>1, <2>2
<1>13. factor.remainder # {} => p.out \in driven(p.net)
  BY <1>6, <1>7, <1>4, FS_EmptySet
<1> QED  BY <1>3, <1>7, <1>11, <1>12, <1>13

-----------------------------------------------------------------------------
(* The cost of a cover is a natural number: a sum, as a fold computes it.  *)

pick(X) == CHOOSE x \in X : TRUE

IsSum(F, U, w) ==
  F = [X \in SUBSET U |-> IF X = {} THEN 0 ELSE w[pick(X)] + F[X \ {pick(X)}]]

\* One step of such a sum.
LEMMA SumStep ==
  ASSUME NEW U, NEW w, NEW F, IsSum(F, U, w), NEW X \in SUBSET U
  PROVE  /\ X = {} => F[X] = 0
         /\ X # {} => /\ pick(X) \in X
                      /\ F[X] = w[pick(X)] + F[X \ {pick(X)}]
<1>1. X # {} => pick(X) \in X
  BY DEF pick
<1>2. F[X] = IF X = {} THEN 0 ELSE w[pick(X)] + F[X \ {pick(X)}]
  BY DEF IsSum
<1> QED  BY <1>1, <1>2

(* Two such sums agree on the sets that both are defined on.               *)
LEMMA SumUnique ==
  ASSUME NEW U, IsFiniteSet(U), NEW A \in SUBSET U, NEW B \in SUBSET U, NEW w,
         NEW F, IsSum(F, A, w), NEW G, IsSum(G, B, w)
  PROVE  \A X \in SUBSET (A \cap B) : F[X] = G[X]
<1> DEFINE T == {X \in SUBSET (A \cap B) : F[X] # G[X]}
<1> SUFFICES ASSUME T # {} PROVE FALSE
  OBVIOUS
<1>1. PICK X \in T : \A Y \in T : Y \subseteq X => Y = X
  <2>1. T \in SUBSET SUBSET U
    OBVIOUS
  <2> HIDE DEF T
  <2> QED  BY <2>1, MinimalSubset
<1>2. X \in SUBSET A /\ X \in SUBSET B /\ F[X] # G[X]
  BY <1>1
<1>3. X # {} /\ pick(X) \in X
  BY <1>2, SumStep
<1>4. X \ {pick(X)} \notin T
  BY <1>1, <1>3
<1>5. F[X \ {pick(X)}] = G[X \ {pick(X)}]
  BY <1>2, <1>4
<1> QED  BY <1>2, <1>3, <1>5, SumStep

(* There is such a sum of natural weights, and it is a natural number.     *)
LEMMA SumExists ==
  ASSUME NEW U, IsFiniteSet(U), NEW w \in [U -> Nat]
  PROVE  \E F \in [SUBSET U -> Nat] : IsSum(F, U, w)
<1> DEFINE Good(V) == \E F \in [SUBSET V -> Nat] : IsSum(F, V, w)
           T == {V \in SUBSET U : ~Good(V)}
<1> SUFFICES ASSUME T # {} PROVE FALSE
  OBVIOUS
<1>1. PICK V \in T : \A Y \in T : Y \subseteq V => Y = V
  <2>1. T \in SUBSET SUBSET U
    OBVIOUS
  <2> HIDE DEF T
  <2> QED  BY <2>1, MinimalSubset
<1>2. V \in SUBSET U /\ ~Good(V) /\ \A Y \in SUBSET V : Y # V => Good(Y)
  BY <1>1
<1> DEFINE sums(Y) == {F \in [SUBSET Y -> Nat] : IsSum(F, Y, w)}
           v == [Y \in SUBSET V |-> (CHOOSE F \in sums(Y) : TRUE)[Y]]
<1>3. ASSUME NEW Y \in SUBSET V, Y # V
      PROVE  /\ v[Y] \in Nat
             /\ v[Y] = IF Y = {} THEN 0 ELSE w[pick(Y)] + v[Y \ {pick(Y)}]
  <2>1. PICK F \in sums(Y) : v[Y] = F[Y]
    <3>1. sums(Y) # {}
      BY <1>2, <1>3
    <3> QED  BY <3>1
  <2>2. v[Y] \in Nat /\ IsSum(F, Y, w)
    BY <2>1
  <2>3. Y = {} => v[Y] = 0
    BY <2>1, <2>2, SumStep
  <2>4. ASSUME Y # {} PROVE v[Y] = w[pick(Y)] + v[Y \ {pick(Y)}]
    <3> DEFINE Z == Y \ {pick(Y)}
    <3>1. F[Y] = w[pick(Y)] + F[Z] /\ Z \in SUBSET V /\ Z # V /\ Z \subseteq Y
      BY <2>2, <2>4, SumStep
    <3>2. PICK G \in sums(Z) : v[Z] = G[Z]
      <4>1. sums(Z) # {}
        BY <1>2, <3>1
      <4> HIDE DEF Z
      <4> QED  BY <3>1, <4>1
    <3>3. G[Z] = F[Z]
      <4>1. Z \in SUBSET U /\ Y \in SUBSET U /\ IsSum(G, Z, w) /\ Z \in SUBSET (Z \cap Y)
        BY <1>2, <3>1, <3>2
      <4> HIDE DEF Z
      <4> QED  BY <2>2, <4>1, SumUnique
    <3> QED  BY <2>1, <3>1, <3>2, <3>3
  <2> QED  BY <2>2, <2>3, <2>4
<1> DEFINE G == [Y \in SUBSET V |-> IF Y # V THEN v[Y]
                                    ELSE IF V = {} THEN 0
                                    ELSE w[pick(V)] + v[V \ {pick(V)}]]
<1>4. V # {} => pick(V) \in V /\ w[pick(V)] \in Nat /\ V \ {pick(V)} # V
                /\ v[V \ {pick(V)}] \in Nat
  <2> SUFFICES ASSUME V # {}
               PROVE  pick(V) \in V /\ w[pick(V)] \in Nat /\ V \ {pick(V)} # V
                      /\ v[V \ {pick(V)}] \in Nat
    OBVIOUS
  <2>1. pick(V) \in V
    BY DEF pick
  <2>2. w[pick(V)] \in Nat /\ V \ {pick(V)} # V /\ V \ {pick(V)} \in SUBSET V
    BY <1>2, <2>1
  <2> HIDE DEF v
  <2> QED  BY <1>3, <2>1, <2>2
<1> DEFINE g(Y) == IF Y # V THEN v[Y] ELSE IF V = {} THEN 0 ELSE w[pick(V)] + v[V \ {pick(V)}]
<1>5. G \in [SUBSET V -> Nat]
  <2>1. ASSUME NEW Y \in SUBSET V PROVE g(Y) \in Nat
    <3> HIDE DEF v
    <3>1. CASE Y # V
      BY <1>3, <3>1
    <3>2. CASE Y = V /\ V = {}
      BY <3>2
    <3>3. CASE Y = V /\ V # {}
      <4>1. w[pick(V)] + v[V \ {pick(V)}] \in Nat
        BY <1>4, <3>3
      <4> QED  BY <3>3, <4>1
    <3> QED  BY <3>1, <3>2, <3>3
  <2>2. G = [Y \in SUBSET V |-> g(Y)]
    OBVIOUS
  <2> HIDE DEF g, G
  <2> QED  BY <2>1, <2>2
<1>6. ASSUME NEW Y \in SUBSET V
      PROVE  G[Y] = IF Y = {} THEN 0 ELSE w[pick(Y)] + G[Y \ {pick(Y)}]
  <2>1. Y # {} => pick(Y) \in Y /\ Y \ {pick(Y)} \in SUBSET V /\ Y \ {pick(Y)} # V
    BY DEF pick
  <2>2. Y # {} => G[Y \ {pick(Y)}] = v[Y \ {pick(Y)}]
    <3> HIDE DEF v
    <3> QED  BY <2>1
  <2>3. G[Y] = IF Y # V THEN v[Y] ELSE IF V = {} THEN 0 ELSE w[pick(V)] + v[V \ {pick(V)}]
    <3> HIDE DEF v
    <3> QED  OBVIOUS
  <2>4. CASE Y # V
    <3> HIDE DEF v, G
    <3> QED  BY <1>3, <2>2, <2>3, <2>4
  <2>5. CASE Y = V
    <3> HIDE DEF v, G
    <3> QED  BY <2>2, <2>3, <2>5
  <2> QED  BY <2>4, <2>5
<1>7. IsSum(G, V, w)
  <2>1. G = [Y \in SUBSET V |-> G[Y]]
    BY <1>5
  <2>2. G = [Y \in SUBSET V |-> IF Y = {} THEN 0 ELSE w[pick(Y)] + G[Y \ {pick(Y)}]]
    <3> HIDE DEF G
    <3> QED  BY <1>6, <2>1
  <2> HIDE DEF G
  <2> QED  BY <2>2 DEF IsSum
<1> QED  BY <1>2, <1>5, <1>7

\* The cost of a cover is a natural number.
LEMMA CostIsNatural ==
  ASSUME NEW S, IsFiniteSet(S), \A x \in S : IsFiniteSet(x)
  PROVE  MapThenSumSet(cube_cost, S) \in Nat
<1> DEFINE w == [x \in S |-> cube_cost(x)]
<1>1. w \in [S -> Nat] /\ \A x \in S : w[x] = cube_cost(x)
  <2>1. \A x \in S : Cardinality(x) \in Nat
    BY FS_CardinalityType
  <2>2. \A x \in S : cube_cost(x) \in Nat
    BY <2>1 DEF cube_cost, nary_cost
  <2> QED  BY <2>2
<1> HIDE DEF w
<1>2. PICK F \in [SUBSET S -> Nat] : IsSum(F, S, w)
  BY <1>1, SumExists
<1> DEFINE Eq(g) == g = [s \in SUBSET S |->
                           IF s = {} THEN 0 ELSE cube_cost(CHOOSE x \in s : TRUE)
                                                 + g[s \ {CHOOSE x \in s : TRUE}]]
           G == CHOOSE g : Eq(g)
<1>3. MapThenSumSet(cube_cost, S) = G[S]
  BY DEF MapThenSumSet, MapThenFoldSet
<1>4. [s \in SUBSET S |-> IF s = {} THEN 0 ELSE cube_cost(pick(s)) + F[s \ {pick(s)}]]
      = [s \in SUBSET S |-> IF s = {} THEN 0 ELSE w[pick(s)] + F[s \ {pick(s)}]]
  <2>1. \A s \in SUBSET S : s # {} => pick(s) \in s /\ w[pick(s)] = cube_cost(pick(s))
    BY <1>1 DEF pick
  <2> QED  BY <2>1
<1>5. Eq(F)
  BY <1>2, <1>4 DEF IsSum, pick
<1>6. Eq(G)
  <2> HIDE DEF Eq
  <2> QED  BY <1>5
<1> HIDE DEF G
<1>7. IsSum(G, S, w)
  <2>1. G = [s \in SUBSET S |-> IF s = {} THEN 0 ELSE cube_cost(pick(s)) + G[s \ {pick(s)}]]
    BY <1>6 DEF pick
  <2>2. [s \in SUBSET S |-> IF s = {} THEN 0 ELSE cube_cost(pick(s)) + G[s \ {pick(s)}]]
        = [s \in SUBSET S |-> IF s = {} THEN 0 ELSE w[pick(s)] + G[s \ {pick(s)}]]
    <3>1. \A s \in SUBSET S : s # {} => pick(s) \in s /\ w[pick(s)] = cube_cost(pick(s))
      BY <1>1 DEF pick
    <3> QED  BY <3>1
  <2> QED  BY <2>1, <2>2 DEF IsSum
<1>8. G[S] = F[S]
  <2>1. S \in SUBSET S /\ S \in SUBSET (S \cap S)
    OBVIOUS
  <2> QED  BY <1>2, <1>7, <2>1, SumUnique
<1>9. F[S] \in Nat
  BY <1>2
<1> QED  BY <1>3, <1>8, <1>9

-----------------------------------------------------------------------------
(* The candidates.                                                         *)

\* Taking literals away from cubes leaves a cover.
LEMMA CubesWithout ==
  ASSUME NEW L, NEW cover, IsCover(cover, L), NEW c, NEW S \in SUBSET cover,
         NEW X, X \subseteq {cube \ c : cube \in S}
  PROVE  IsCover(X, L)
<1> DEFINE f == [cube \in S |-> cube \ c]
           Y == {f[x] : x \in S}
<1>1. IsFiniteSet(S) /\ DOMAIN f = S
  BY FS_Subset DEF IsCover
<1>2. IsFiniteSet(Y)
  <2> HIDE DEF f
  <2> QED  BY <1>1, FiniteImage
<1>3. X \subseteq Y
  OBVIOUS
<1>4. IsFiniteSet(X)
  <2> HIDE DEF Y
  <2> QED  BY <1>2, <1>3, FS_Subset
<1>5. ASSUME NEW x \in X PROVE IsFiniteSet(x) /\ x \subseteq L \X BOOLEAN
  <2>1. PICK cube \in S : x = cube \ c
    BY <1>5
  <2>2. IsFiniteSet(cube) /\ cube \subseteq L \X BOOLEAN /\ x \subseteq cube
    BY <2>1 DEF IsCover
  <2> QED  BY <2>2, FS_Subset
<1> QED  BY <1>4, <1>5 DEF IsCover

\* Every divisor that is tried is a cover, and not empty.
LEMMA DivisorFits ==
  ASSUME NEW L, NEW cover, IsCover(cover, L), NEW max, NEW d \in divisors(cover, max)
  PROVE  IsCover(d, L) /\ d # {}
<1>1. PICK c, k : /\ c \in SUBSET (UNION cover) /\ k = divide_by_cube(cover, c).quotient
                  /\ Cardinality(k) >= 2 /\ d \in {k, {c}}
  BY DEF divisors, enumerate_kernels, kernel_pairs
<1>2. IsCover(k, L)
  <2>1. k \subseteq {cube \ c : cube \in {x \in cover : contains(x, c)}}
    BY <1>1 DEF divide_by_cube
  <2>2. {x \in cover : contains(x, c)} \in SUBSET cover
    OBVIOUS
  <2> QED  BY <2>1, <2>2, CubesWithout
<1>3. k # {}
  BY <1>1, FS_EmptySet
<1>4. IsCover({c}, L)
  <2>1. IsFiniteSet(UNION cover)
    BY FS_UNION DEF IsCover
  <2>2. IsFiniteSet(c) /\ c \subseteq L \X BOOLEAN
    <3>1. UNION cover \subseteq L \X BOOLEAN
      BY DEF IsCover
    <3> QED  BY <1>1, <2>1, <3>1, FS_Subset
  <2> QED  BY <2>2, FS_Singleton DEF IsCover
<1> QED  BY <1>1, <1>2, <1>3, <1>4

\* Every factorization consists of covers and has the function of the dividend.
LEMMA FactorFits ==
  ASSUME NEW L, NEW cover, IsCover(cover, L), Cardinality(cover) >= 2,
         NEW factor \in candidates(cover, MaxKernelLiterals)
  PROVE  /\ IsCover(factor.remainder, L) /\ IsCover(factor.quotient, L) /\ IsCover(factor.divisor, L)
         /\ factor.quotient # {} /\ factor.divisor # {}
         /\ \A type, T : fires(cover, type, T)
              <=> \/ fires(factor.quotient, type, T) /\ fires(factor.divisor, type, T)
                  \/ fires(factor.remainder, type, T)
         /\ factor.remainder = {} =>
              /\ is_child_identity(factor.quotient) => factor.divisor = cover
              /\ is_child_identity(factor.divisor) => factor.quotient = cover
         /\ factor.gain \in Int
<1>1. PICK d, first : d \in divisors(cover, MaxKernelLiterals)
                        /\ factor = factorization(cover, d, first)
  BY DEF candidates
<1>2. PICK r : r = algebraic_division(cover, d, first)
  OBVIOUS
<1>3. /\ factor.divisor = d /\ factor.quotient = r.quotient /\ factor.remainder = r.remainder
      /\ factor.gain = cover_cost(cover) - factored_cost(r.quotient, d, r.remainder)
  BY <1>1, <1>2 DEF factorization
<1>4. IsCover(d, L) /\ d # {}
  BY <1>1, DivisorFits
<1>5. r.quotient # {}
  BY <1>3 DEF candidates
<1>6. IsCover(r.quotient, L)
  <2>1. r.quotient \subseteq {cube \ first : cube \in {x \in cover : contains(x, first)}}
    BY <1>2 DEF algebraic_division, quotient
  <2>2. {x \in cover : contains(x, first)} \in SUBSET cover
    OBVIOUS
  <2> QED  BY <2>1, <2>2, CubesWithout
<1>7. IsCover(r.remainder, L)
  <2>1. r.remainder \subseteq cover
    BY <1>2 DEF algebraic_division
  <2> QED  BY <2>1, FS_Subset DEF IsCover
<1> DEFINE products == covered_products(r.quotient, d)
<1>8. products \cup r.remainder = cover
  BY <1>2, DivisionLaws
<1>9. /\ \A x \in r.quotient, y \in d : x \cup y \in products
      /\ \A cube \in products : \E x \in r.quotient, y \in d : cube = x \cup y
  BY DEF covered_products
<1> HIDE DEF products
<1>10. ASSUME NEW type, NEW T
       PROVE  fires(cover, type, T) <=> \/ fires(r.quotient, type, T) /\ fires(d, type, T)
                                       \/ fires(r.remainder, type, T)
  <2> DEFINE H == hot_literals(type, T)
  <2>1. \A x, y : x \cup y \subseteq H <=> x \subseteq H /\ y \subseteq H
    OBVIOUS
  <2> HIDE DEF H
  <2>2. (\E cube \in products : cube \subseteq H)
          <=> (\E x \in r.quotient : x \subseteq H) /\ (\E y \in d : y \subseteq H)
    <3>1. ASSUME NEW cube \in products, cube \subseteq H
          PROVE  (\E x \in r.quotient : x \subseteq H) /\ (\E y \in d : y \subseteq H)
      BY <1>9, <2>1, <3>1
    <3>2. ASSUME NEW x \in r.quotient, x \subseteq H, NEW y \in d, y \subseteq H
          PROVE  \E cube \in products : cube \subseteq H
      <4>1. x \cup y \in products /\ x \cup y \subseteq H
        BY <1>9, <2>1, <3>2
      <4> QED  BY <4>1
    <3> QED  BY <3>1, <3>2
  <2>3. (\E cube \in cover : cube \subseteq H)
          <=> (\E cube \in products : cube \subseteq H) \/ (\E cube \in r.remainder : cube \subseteq H)
    BY <1>8
  <2> QED  BY <2>2, <2>3 DEF fires, H
<1>11. ASSUME r.remainder = {}
       PROVE  /\ is_child_identity(r.quotient) => d = cover
              /\ is_child_identity(d) => r.quotient = cover
  <2>1. products = cover
    BY <1>8, <1>11
  <2>2. r.quotient = {{}} => products = d
    BY DEF products, covered_products
  <2>3. d = {{}} => products = r.quotient
    BY DEF products, covered_products
  <2> QED  BY <2>1, <2>2, <2>3 DEF is_child_identity
<1>12. \A x : IsCover(x, L) => Cardinality(x) \in Nat /\ MapThenSumSet(cube_cost, x) \in Nat
  BY FS_CardinalityType, CostIsNatural DEF IsCover
<1>13. \A x : IsCover(x, L) => cover_cost(x) \in Nat /\ part_cost(x) \in Nat
  BY <1>12 DEF cover_cost, part_cost, nary_cost
<1>14. factor.gain \in Int
  <2>1. factored_cost(r.quotient, d, r.remainder) \in Nat
    BY <1>4, <1>6, <1>7, <1>12, <1>13 DEF factored_cost, nary_cost
  <2> QED  BY <1>3, <1>13, <2>1
<1> QED  BY <1>3, <1>4, <1>5, <1>6, <1>7, <1>10, <1>11, <1>14

-----------------------------------------------------------------------------
(* A piece of new logic takes the place of a root.                         *)

renamed(c, p, root) == IF c.y = p.out THEN [c EXCEPT !.y = root.y] ELSE c

\* What a new piece may read: the signals that do not depend on the root.
Below(N, I, root) == Known(N, I) \ above(N, root.y)

Replaces(N, I, root, at, p, M) ==
  /\ WellMade(N, I) /\ root \in N
  /\ at \in Name /\ Known(N, I) \cap Under(at) = {}
  /\ Piece(p, Under(at), Below(N, I, root)) /\ p.out \in driven(p.net)
  /\ M = (N \ {root}) \cup {renamed(c, p, root) : c \in p.net}

\* A new cell on its way into the module.
LEMMA RenamedCell ==
  ASSUME NEW N, NEW I, NEW root, NEW at, NEW p, NEW M, Replaces(N, I, root, at, p, M),
         NEW c \in p.net, NEW r, r = renamed(c, p, root)
  PROVE  /\ r \in Cells /\ r \in M /\ r.type = c.type /\ r.a = c.a /\ r.b = c.b
         /\ operands(r) = operands(c)
         /\ c.y = p.out => r.y = root.y
         /\ c.y # p.out => r.y = c.y
         /\ c.y \in Under(at) /\ c.y \notin Known(N, I)
         /\ operands(c) \subseteq Below(N, I, root) \cup (driven(p.net) \ {p.out})
         /\ root.y \in Name /\ root.y \in Known(N, I) /\ root.y \notin Under(at)
<1>1. c \in Cells /\ root \in Cells /\ root.y \in Known(N, I) /\ c.y \in driven(p.net)
  BY DEF Replaces, Piece, WellMade, Known, driven
<1>2. c = [type |-> c.type, a |-> c.a, b |-> c.b, y |-> c.y] /\ root.y \in Name
  BY <1>1 DEF Cells
<1>3. [c EXCEPT !.y = root.y] = [type |-> c.type, a |-> c.a, b |-> c.b, y |-> root.y]
  BY <1>2
<1>4. /\ r \in Cells /\ r.type = c.type /\ r.a = c.a /\ r.b = c.b
      /\ c.y = p.out => r.y = root.y
      /\ c.y # p.out => r.y = c.y
  <2>1. CASE c.y = p.out
    <3>1. r = [type |-> c.type, a |-> c.a, b |-> c.b, y |-> root.y]
      BY <1>3, <2>1 DEF renamed
    <3> QED  BY <1>1, <1>2, <2>1, <3>1 DEF Cells
  <2>2. CASE c.y # p.out
    BY <1>1, <2>2 DEF renamed
  <2> QED  BY <2>1, <2>2
<1>5. operands(r) = operands(c)
  BY <1>4 DEF operands
<1>6. r \in M
  BY DEF Replaces
<1>7. /\ c.y \in Under(at) /\ c.y \notin Known(N, I) /\ root.y \notin Under(at)
      /\ operands(c) \subseteq Below(N, I, root) \cup (driven(p.net) \ {p.out})
  BY <1>1 DEF Replaces, Piece
<1> QED  BY <1>1, <1>2, <1>4, <1>5, <1>6, <1>7

\* The cells of the module afterwards.
LEMMA ReplacedCells ==
  ASSUME NEW N, NEW I, NEW root, NEW at, NEW p, NEW M, Replaces(N, I, root, at, p, M),
         NEW d \in M
  PROVE  (d \in N /\ d # root) \/ \E c \in p.net : d = renamed(c, p, root)
  BY DEF Replaces

\* What is driven before stays driven, by one cell; the rest is new.
LEMMA ReplacedDrives ==
  ASSUME NEW N, NEW I, NEW root, NEW at, NEW p, NEW M, Replaces(N, I, root, at, p, M)
  PROVE  /\ driven(N) \subseteq driven(M) /\ driven(M) \subseteq driven(N) \cup Under(at)
         /\ driven(p.net) \ {p.out} \subseteq driven(M)
         /\ \A c, d \in M : c.y = d.y => c = d
<1>1. N \ {root} \subseteq M
  BY DEF Replaces
<1>2. root.y \in driven(M)
  <2>1. PICK c \in p.net : c.y = p.out
    BY DEF Replaces, driven
  <2> DEFINE r == renamed(c, p, root)
  <2>2. r \in M /\ r.y = root.y
    BY <2>1, RenamedCell
  <2> HIDE DEF r
  <2> QED  BY <2>2 DEF driven
<1>3. driven(N) \subseteq driven(M)
  BY <1>1, <1>2 DEF driven
<1>4. driven(p.net) \ {p.out} \subseteq driven(M)
  <2> SUFFICES ASSUME NEW c \in p.net, c.y # p.out PROVE c.y \in driven(M)
    BY DEF driven
  <2> DEFINE r == renamed(c, p, root)
  <2>1. r \in M /\ r.y = c.y
    BY RenamedCell
  <2> HIDE DEF r
  <2> QED  BY <2>1 DEF driven
<1>5. \A c \in p.net : renamed(c, p, root).y \in {root.y} \cup Under(at)
  <2> SUFFICES ASSUME NEW c \in p.net PROVE renamed(c, p, root).y \in {root.y} \cup Under(at)
    OBVIOUS
  <2> QED  BY RenamedCell
<1>6. driven(M) \subseteq driven(N) \cup Under(at)
  <2>1. root.y \in driven(N)
    BY DEF Replaces, driven
  <2> QED  BY <1>5, <2>1, ReplacedCells DEF driven
<1>7. ASSUME NEW c \in M, NEW d \in M, c.y = d.y PROVE c = d
  <2>1. \A e \in N : e.y \in driven(N) /\ e.y \in Known(N, I)
    BY DEF driven, Known
  <2>2. \A e, f \in N : e.y = f.y => e = f
    BY DEF Replaces, WellMade
  <2>3. \A e, f \in p.net : e.y = f.y => e = f
    BY DEF Replaces, Piece
  <2>4. Known(N, I) \cap Under(at) = {} /\ root \in N
    BY DEF Replaces
  <2>5. ASSUME NEW e \in N, e # root, NEW f \in p.net PROVE e.y # renamed(f, p, root).y
    BY <1>5, <2>1, <2>2, <2>4, <2>5
  <2>6. ASSUME NEW e \in p.net, NEW f \in p.net,
               renamed(e, p, root).y = renamed(f, p, root).y
        PROVE  e = f
    <3>1. /\ e.y \in Under(at) /\ root.y \notin Under(at)
          /\ e.y = p.out => renamed(e, p, root).y = root.y
          /\ e.y # p.out => renamed(e, p, root).y = e.y
      BY RenamedCell
    <3>2. /\ f.y \in Under(at)
          /\ f.y = p.out => renamed(f, p, root).y = root.y
          /\ f.y # p.out => renamed(f, p, root).y = f.y
      BY RenamedCell
    <3> QED  BY <2>3, <2>6, <3>1, <3>2
  <2> QED  BY <1>7, <2>2, <2>5, <2>6, ReplacedCells
<1> QED  BY <1>3, <1>4, <1>6, <1>7

\* No loop appears: old cells that do not depend on the root come first, then the new
\* cells, then the rest.
LEMMA ReplacedLoopFree ==
  ASSUME NEW N, NEW I, NEW root, NEW at, NEW p, NEW M, Replaces(N, I, root, at, p, M)
  PROVE  loop_free(M)
<1> DEFINE U == above(N, root.y)
           old(S) == {c \in S : c \in N /\ c.y \notin U}
           new(S) == {c \in p.net : renamed(c, p, root) \in S}
<1>0. WellMade(N, I) /\ root \in N /\ Known(N, I) \cap Under(at) = {}
  BY DEF Replaces
<1>1. /\ root.y \in U /\ U \subseteq driven(N)
      /\ \A c \in N : c.y \notin U => operands(c) \cap U = {}
  BY <1>0, AboveRoot
<1>2. \A c \in N : operands(c) \subseteq Known(N, I)
  BY <1>0 DEF WellMade, Known
<1>3. Below(N, I, root) = Known(N, I) \ U
  BY DEF Below
<1> HIDE DEF U
<1>4. driven(N) \subseteq Known(N, I)
  BY DEF Known
<1>5. \A c \in p.net : /\ renamed(c, p, root).y = root.y \/ renamed(c, p, root).y = c.y
                       /\ c.y \in Under(at)
                       /\ operands(renamed(c, p, root)) = operands(c)
                       /\ operands(c) \subseteq (Known(N, I) \ U) \cup (driven(p.net) \ {p.out})
  <2> SUFFICES ASSUME NEW c \in p.net
               PROVE  /\ renamed(c, p, root).y = root.y \/ renamed(c, p, root).y = c.y
                      /\ c.y \in Under(at)
                      /\ operands(renamed(c, p, root)) = operands(c)
                      /\ operands(c) \subseteq (Known(N, I) \ U) \cup (driven(p.net) \ {p.out})
    OBVIOUS
  <2> QED  BY <1>3, RenamedCell
<1> SUFFICES ASSUME NEW S \in SUBSET M, S # {}
             PROVE  \E c \in S : operands(c) \cap driven(S) = {}
  BY DEF loop_free
<1>6. \A d \in S : d \in N \/ \E c \in new(S) : d = renamed(c, p, root)
  BY ReplacedCells
<1>7. ASSUME old(S) # {} PROVE \E c \in S : operands(c) \cap driven(S) = {}
  <2>1. PICK c \in old(S) : operands(c) \cap driven(old(S)) = {}
    <3>1. old(S) \in SUBSET N /\ old(S) # {}
      BY <1>7
    <3> HIDE DEF old
    <3> QED  BY <1>0, <3>1 DEF WellMade, loop_free
  <2>2. c \in N /\ c \in S /\ operands(c) \cap U = {} /\ operands(c) \subseteq Known(N, I)
    BY <1>1, <1>2
  <2>3. ASSUME NEW d \in S, d.y \in operands(c) PROVE FALSE
    <3>1. d \in N
      BY <1>0, <1>1, <1>5, <1>6, <2>2, <2>3
    <3>2. d \in old(S)
      BY <2>2, <2>3, <3>1
    <3> HIDE DEF old
    <3> QED  BY <2>1, <2>3, <3>2 DEF driven
  <2> QED  BY <2>2, <2>3 DEF driven
<1>8. ASSUME old(S) = {}, new(S) # {} PROVE \E c \in S : operands(c) \cap driven(S) = {}
  <2>1. PICK c \in new(S) : operands(c) \cap driven(new(S)) = {}
    <3>1. new(S) \in SUBSET p.net /\ new(S) # {} /\ loop_free(p.net)
      BY <1>8 DEF Replaces, Piece
    <3> HIDE DEF new
    <3> QED  BY <3>1 DEF loop_free
  <2> DEFINE r == renamed(c, p, root)
  <2>2. /\ c \in p.net /\ r \in S /\ operands(r) = operands(c)
        /\ operands(c) \subseteq (Known(N, I) \ U) \cup (driven(p.net) \ {p.out})
    BY <1>5
  <2>3. ASSUME NEW d \in S, d.y \in operands(c) PROVE FALSE
    <3>1. driven(p.net) \subseteq Under(at)
      BY DEF Replaces, Piece
    <3>2. d.y \in (Known(N, I) \ U) \cup Under(at)
      BY <2>2, <2>3, <3>1
    <3>3. CASE d \in N
      <4>1. d.y \in U
        BY <1>8, <3>3
      <4> QED  BY <1>0, <1>1, <1>4, <3>2, <4>1
    <3>4. CASE \E e \in new(S) : d = renamed(e, p, root)
      <4>1. PICK e \in new(S) : d = renamed(e, p, root)
        BY <3>4
      <4>2. d.y = root.y \/ d.y = e.y
        BY <1>5, <4>1
      <4>3. d.y # root.y
        BY <1>0, <1>1, <1>4, <3>2
      <4>4. d.y \in driven(new(S))
        BY <4>2, <4>3 DEF driven
      <4> HIDE DEF new
      <4> QED  BY <2>1, <2>3, <4>4
    <3> QED  BY <1>6, <3>3, <3>4
  <2> HIDE DEF r
  <2> QED  BY <2>2, <2>3 DEF driven
<1>9. ASSUME old(S) = {}, new(S) = {} PROVE \E c \in S : operands(c) \cap driven(S) = {}
  <2>1. S \in SUBSET N
    <3> HIDE DEF new
    <3> QED  BY <1>6, <1>9
  <2> QED  BY <1>0, <2>1 DEF WellMade, loop_free
<1> QED  BY <1>7, <1>8, <1>9

\* The module stays well made.
LEMMA ReplacedWellMade ==
  ASSUME NEW N, NEW I, NEW root, NEW at, NEW p, NEW M, Replaces(N, I, root, at, p, M)
  PROVE  WellMade(M, I)
<1>0. WellMade(N, I) /\ root \in N /\ Known(N, I) \cap Under(at) = {}
  BY DEF Replaces
<1>1. /\ driven(N) \subseteq driven(M) /\ driven(M) \subseteq driven(N) \cup Under(at)
      /\ driven(p.net) \ {p.out} \subseteq driven(M)
      /\ \A c, d \in M : c.y = d.y => c = d
  BY ReplacedDrives
<1>2. loop_free(M)
  BY ReplacedLoopFree
<1>3. \A c \in p.net : LET r == renamed(c, p, root)
                       IN  r \in Cells /\ operands(r) \subseteq driven(M) \cup I \cup Constants
  <2> SUFFICES ASSUME NEW c \in p.net
               PROVE  /\ renamed(c, p, root) \in Cells
                      /\ operands(renamed(c, p, root)) \subseteq driven(M) \cup I \cup Constants
    OBVIOUS
  <2>1. /\ renamed(c, p, root) \in Cells
        /\ operands(renamed(c, p, root)) \subseteq Below(N, I, root) \cup (driven(p.net) \ {p.out})
    BY RenamedCell
  <2>2. Below(N, I, root) \subseteq driven(N) \cup I \cup Constants
    BY DEF Below, Known
  <2> QED  BY <1>1, <2>1, <2>2
<1>4. \A c \in N : c \in Cells /\ operands(c) \subseteq driven(M) \cup I \cup Constants
  BY <1>0, <1>1 DEF WellMade
<1>5. \A d \in M : d \in Cells /\ operands(d) \subseteq driven(M) \cup I \cup Constants
  BY <1>3, <1>4, ReplacedCells
<1>6. IsFiniteSet(M)
  <2> DEFINE f == [c \in p.net |-> renamed(c, p, root)]
             R == {f[c] : c \in p.net}
             K == N \ {root}
  <2>1. IsFiniteSet(p.net) /\ DOMAIN f = p.net /\ M = K \cup R
    BY DEF Replaces, Piece
  <2>2. IsFiniteSet(R)
    <3> HIDE DEF f
    <3> QED  BY <2>1, FiniteImage
  <2>3. IsFiniteSet(K)
    BY <1>0, FS_Subset DEF WellMade
  <2> HIDE DEF K, R
  <2> QED  BY <2>1, <2>2, <2>3, FS_Union
<1>7. driven(M) \cap (I \cup Constants) = {} /\ I \subseteq Name /\ I \cap Constants = {}
  BY <1>0, <1>1 DEF WellMade, Known
<1> QED  BY <1>1, <1>2, <1>5, <1>6, <1>7 DEF WellMade

\* Cells that are fed by nothing but each other and the inputs have one behaviour.
LEMMA SameValues ==
  ASSUME NEW N, NEW I, WellMade(N, I), NEW input, NEW T, Computes(T, N, I, input),
         NEW T1, Given(I, input, T1), NEW W \in SUBSET N,
         \A c \in W : operands(c) \subseteq driven(W) \cup I \cup Constants,
         Holds(W, T1)
  PROVE  \A x \in driven(W) \cup I \cup Constants : x \in T <=> x \in T1
<1> DEFINE S == {c \in W : ~(c.y \in T <=> c.y \in T1)}
<1>1. \A x \in I \cup Constants : x \in T <=> x \in T1
  BY DEF Computes, Given, Constants
<1>2. S = {}
  <2> SUFFICES ASSUME S # {} PROVE FALSE
    OBVIOUS
  <2>1. PICK c \in S : operands(c) \cap driven(S) = {}
    <3>1. S \in SUBSET N
      OBVIOUS
    <3> HIDE DEF S
    <3> QED  BY <3>1 DEF WellMade, loop_free
  <2>2. \A x \in operands(c) : x \in T <=> x \in T1
    <3> SUFFICES ASSUME NEW x \in operands(c), x \in driven(W) PROVE x \in T <=> x \in T1
      BY <1>1
    <3>1. PICK d \in W : d.y = x
      BY DEF driven
    <3>2. d \notin S
      <4> HIDE DEF S
      <4> QED  BY <2>1, <3>1 DEF driven
    <3> QED  BY <3>1, <3>2
  <2>3. on(c, T) <=> on(c, T1)
    BY <2>2 DEF on, operands
  <2>4. (c.y \in T <=> on(c, T)) /\ (c.y \in T1 <=> on(c, T1))
    BY DEF Computes, Holds
  <2> QED  BY <2>3, <2>4
<1> QED  BY <1>1, <1>2 DEF driven

\* A cover fires alike for sets that agree on its signals.
LEMMA FiresAgree ==
  ASSUME NEW X, X \subseteq Name, NEW cover, IsCover(cover, X), NEW T, NEW T1,
         \A x \in X : x \in T <=> x \in T1, NEW type
  PROVE  fires(cover, type, T) <=> fires(cover, type, T1)
<1>1. \A x \in X : hot(type, T, x) <=> hot(type, T1, x)
  BY DEF hot
<1>2. \A l \in X \X BOOLEAN : l \in hot_literals(type, T) <=> l \in hot_literals(type, T1)
  <2> SUFFICES ASSUME NEW l \in X \X BOOLEAN
               PROVE  l \in hot_literals(type, T) <=> l \in hot_literals(type, T1)
    OBVIOUS
  <2>1. l[1] \in X /\ l \in Name \X BOOLEAN
    OBVIOUS
  <2> QED  BY <1>1, <2>1 DEF hot_literals
<1>3. \A cube \in cover : cube \subseteq hot_literals(type, T) <=> cube \subseteq hot_literals(type, T1)
  BY <1>2 DEF IsCover
<1> QED  BY <1>3 DEF fires

\* If the root and the piece have the function of one cover, no signal changes.
LEMMA ReplacedFunction ==
  ASSUME NEW N, NEW I, NEW root, NEW at, NEW p, NEW M, Replaces(N, I, root, at, p, M),
         NEW type \in {"$and", "$or"}, NEW cover, IsCover(cover, Below(N, I, root)),
         \A T : Holds(N, T) /\ One \in T /\ Zero \notin T
           => (hot(type, T, root.y) <=> fires(cover, type, T)),
         Realizes(p, cover, type),
         NEW input, NEW T, Computes(T, N, I, input), NEW T1, Computes(T1, M, I, input)
  PROVE  \A x \in driven(N) : x \in T <=> x \in T1
<1> DEFINE U == above(N, root.y)
           W == {c \in N : c.y \notin U}
           out == p.out
<1>0. WellMade(N, I) /\ root \in N /\ Known(N, I) \cap Under(at) = {} /\ out \in Under(at)
  BY DEF Replaces, Piece
<1>1. /\ root.y \in U /\ U \subseteq driven(N) /\ operands(root) \cap U = {}
      /\ \A c \in N : c.y \notin U => operands(c) \cap U = {}
  BY <1>0, AboveRoot
<1>2. Below(N, I, root) = Known(N, I) \ U /\ Known(N, I) \subseteq Name
  BY <1>0, KnownNames DEF Below
<1>3. \A c \in N : operands(c) \subseteq Known(N, I)
  BY <1>0 DEF WellMade, Known
<1> HIDE DEF U, out
<1>4. \A c \in N : c # root => (c.y \in T1 <=> on(c, T1))
  BY DEF Replaces, Computes, Holds
<1>5. Given(I, input, T) /\ Given(I, input, T1) /\ Holds(N, T)
  BY DEF Computes
<1>6. \A x \in Known(N, I) \ U : x \in T <=> x \in T1
  <2>1. Known(N, I) \ U \subseteq driven(W) \cup I \cup Constants
    BY DEF Known, driven
  <2>2. \A c \in W : operands(c) \subseteq driven(W) \cup I \cup Constants
    BY <1>1, <1>3, <2>1
  <2>3. Holds(W, T1)
    BY <1>1, <1>4 DEF Holds
  <2>4. W \in SUBSET N
    OBVIOUS
  <2> HIDE DEF W
  <2> QED  BY <1>0, <1>5, <2>1, <2>2, <2>3, <2>4, SameValues
<1> DEFINE T2 == IF root.y \in T1 THEN T1 \cup {out} ELSE T1 \ {out}
<1>7. (out \in T2 <=> root.y \in T1) /\ \A x : x # out => (x \in T2 <=> x \in T1)
  OBVIOUS
<1> HIDE DEF T2
<1>8. Holds(p.net, T2)
  <2> SUFFICES ASSUME NEW c \in p.net PROVE c.y \in T2 <=> on(c, T2)
    BY DEF Holds
  <2> DEFINE r == renamed(c, p, root)
  <2>1. /\ r \in M /\ r.type = c.type /\ r.a = c.a /\ r.b = c.b
        /\ c.y = out => r.y = root.y
        /\ c.y # out => r.y = c.y
    BY RenamedCell DEF out
  <2>2. out \notin operands(c)
    BY DEF Replaces, Piece, out
  <2> HIDE DEF r
  <2>3. r.y \in T1 <=> on(r, T1)
    BY <2>1 DEF Computes, Holds
  <2>4. on(r, T1) <=> on(c, T1)
    BY <2>1 DEF on
  <2>5. on(c, T1) <=> on(c, T2)
    BY <1>7, <2>2 DEF on, operands
  <2> QED  BY <1>7, <2>1, <2>3, <2>4, <2>5
<1>9. One \in T2 /\ Zero \notin T2
  <2>1. One \in Known(N, I) /\ Zero \in Known(N, I)
    BY DEF Known, Constants
  <2> QED  BY <1>0, <1>5, <1>7, <2>1 DEF Given
<1>10. fires(cover, type, T2) <=> fires(cover, type, T)
  <2>1. \A x \in Below(N, I, root) : x \in T2 <=> x \in T
    BY <1>0, <1>2, <1>6, <1>7
  <2>2. Below(N, I, root) \subseteq Name
    BY <1>2
  <2> QED  BY <2>1, <2>2, FiresAgree
<1>11. hot(type, T2, out) <=> fires(cover, type, T2)
  BY <1>8, <1>9 DEF Realizes, out
<1>12. hot(type, T, root.y) <=> fires(cover, type, T)
  BY <1>5 DEF Given
<1>13. root.y \in T <=> root.y \in T1
  BY <1>7, <1>10, <1>11, <1>12 DEF hot
<1>14. on(root, T) <=> on(root, T1)
  <2>1. \A x \in operands(root) : x \in T <=> x \in T1
    BY <1>0, <1>1, <1>3, <1>6
  <2> QED  BY <2>1 DEF on, operands
<1>15. Holds(N, T1)
  BY <1>0, <1>4, <1>5, <1>13, <1>14 DEF Holds
<1>16. N \in SUBSET N /\ \A c \in N : operands(c) \subseteq driven(N) \cup I \cup Constants
  BY <1>0 DEF WellMade
<1> QED  BY <1>0, <1>5, <1>15, <1>16, SameValues

-----------------------------------------------------------------------------
(* One rewriting.                                                          *)

\* New names were made by earlier iterations; a module's own names are short.
fresh(N, n) == \A x \in driven(N) : Len(x) = 1 \/ (Len(x) >= 2 /\ x[1] <= n)

\* A cover over some signals is one over more.
LEMMA CoverOverMore ==
  ASSUME NEW cover, NEW L, IsCover(cover, L), NEW M, L \subseteq M
  PROVE  IsCover(cover, M)
<1> SUFFICES ASSUME NEW cube \in cover PROVE cube \subseteq M \X BOOLEAN
  BY DEF IsCover
<1>1. cube \subseteq L \X BOOLEAN
  BY DEF IsCover
<1> QED  BY <1>1

\* The names of the next iteration are not in the module.
LEMMA NextNamesAreNew ==
  ASSUME NEW N, NEW I, WellMade(N, I), \A x \in I : Len(x) = 1,
         NEW n \in Nat, fresh(N, n), NEW at, at = <<n + 1>>
  PROVE  /\ at \in Name /\ Known(N, I) \cap Under(at) = {}
         /\ \A x \in Under(at) : Len(x) >= 2 /\ x[1] <= n + 1
<1>1. at \in Name /\ Len(at) = 1 /\ at[1] = n + 1
  BY DEF Name
<1>2. ASSUME NEW x \in Under(at) PROVE Len(x) >= 2 /\ x[1] = n + 1
  <2>1. x \in Name /\ Len(x) > 1 /\ \A i \in 1 .. 1 : x[i] = at[i]
    BY <1>1 DEF Under
  <2>2. Len(x) \in Nat /\ 1 \in 1 .. 1
    BY <2>1 DEF Name
  <2> QED  BY <1>1, <2>1, <2>2
<1>3. ASSUME NEW x \in Known(N, I), x \in Under(at) PROVE FALSE
  <2>0. Len(x) >= 2 /\ x[1] = n + 1
    BY <1>2, <1>3
  <2>1. CASE x \in driven(N)
    <3>1. Len(x) = 1 \/ x[1] <= n
      BY <2>1 DEF fresh
    <3>2. \A k : k = n + 1 => ~(k <= n)
      OBVIOUS
    <3>3. CASE Len(x) = 1
      BY <2>0, <3>3
    <3>4. CASE x[1] <= n
      BY <2>0, <3>2, <3>4, Zenon
    <3> QED  BY <3>1, <3>3, <3>4
  <2>2. CASE x \in I
    <3>1. Len(x) = 1
      BY <2>2
    <3> QED  BY <2>0, <3>1
  <2>3. CASE x \in Constants
    <3>1. Len(x) = 1
      BY <2>3 DEF Constants, Zero, One
    <3> QED  BY <2>0, <3>1
  <2> QED  BY <1>3, <2>1, <2>2, <2>3 DEF Known
<1>4. \A x \in Under(at) : Len(x) >= 2 /\ x[1] <= n + 1
  BY <1>2
<1> QED  BY <1>1, <1>3, <1>4

\* What a root, a factorization of it and the cells built from this have to do with
\* each other.
LEMMA RewritingReplaces ==
  ASSUME NEW N, NEW I, WellMade(N, I), NEW root \in N,
         NEW factor \in find_rewrite_candidate(N, root, MaxKernelLiterals),
         NEW at, at \in Name, Known(N, I) \cap Under(at) = {},
         NEW p, p = build_factored(factor, root.type, child_op(root), at)
  PROVE  /\ root.type \in {"$and", "$or"}
         /\ Replaces(N, I, root, at, p, apply(N, root, factor, at))
         /\ IsCover(cover_of(N, root), Below(N, I, root))
         /\ Realizes(p, cover_of(N, root), root.type)
         /\ factor.gain \in Int /\ factor.gain > 0
<1> DEFINE type == root.type
           child == child_op(root)
           cover == cover_of(N, root)
           L == Below(N, I, root)
<1>1. /\ type \in {"$and", "$or"} /\ Cardinality(cover) >= 2
      /\ factor \in candidates(cover, MaxKernelLiterals) /\ factor.gain > 0
  BY DEF find_rewrite_candidate, find_best_candidate
<1>2. child \in {"$and", "$or"} /\ child # type
  BY <1>1 DEF child_op
<1>3. above(N, root.y) \subseteq driven(N) /\ L = Known(N, I) \ above(N, root.y)
  BY AboveRoot DEF Below
<1>4. Room(L, at)
  <2>1. Constants \subseteq L
    BY <1>3 DEF WellMade, Known
  <2> QED  BY <1>3, <2>1, KnownNames DEF Room
<1>5. IsCover(cover, L)
  <2>1. IsCover(cover, Known(N, I) \ (above(N, root.y) \cup Constants))
    BY <1>1, CoverFits
  <2>2. Known(N, I) \ (above(N, root.y) \cup Constants) \subseteq L
    BY <1>3
  <2> HIDE DEF L, cover
  <2> QED  BY <2>1, <2>2, CoverOverMore
<1> HIDE DEF type, child, cover, L
<1>6. p = build_factored(factor, type, child, at)
  BY DEF type, child
<1>7. /\ IsCover(factor.remainder, L) /\ IsCover(factor.quotient, L) /\ IsCover(factor.divisor, L)
      /\ factor.quotient # {} /\ factor.divisor # {}
      /\ \A t, T : fires(cover, t, T)
           <=> \/ fires(factor.quotient, t, T) /\ fires(factor.divisor, t, T)
               \/ fires(factor.remainder, t, T)
      /\ factor.remainder = {} =>
           /\ is_child_identity(factor.quotient) => factor.divisor = cover
           /\ is_child_identity(factor.divisor) => factor.quotient = cover
      /\ factor.gain \in Int
  BY <1>1, <1>5, FactorFits
<1>8. /\ Piece(p, Under(at), L)
      /\ \A T : Holds(p.net, T) /\ One \in T /\ Zero \notin T =>
           (hot(type, T, p.out)
              <=> \/ fires(factor.quotient, type, T) /\ fires(factor.divisor, type, T)
                  \/ fires(factor.remainder, type, T))
      /\ \/ /\ factor.remainder = {}
            /\ \/ is_child_identity(factor.quotient) /\ Cardinality(factor.divisor) <= 1
               \/ is_child_identity(factor.divisor) /\ Cardinality(factor.quotient) <= 1
         \/ p.out \in driven(p.net)
  BY <1>1, <1>2, <1>4, <1>6, <1>7, FactoredPiece
<1>9. p.out \in driven(p.net)
  <2>1. Cardinality(cover) \in Nat
    BY <1>5, FS_CardinalityType DEF IsCover
  <2> QED  BY <1>1, <1>7, <1>8, <2>1
<1>10. Realizes(p, cover, type)
  BY <1>7, <1>8 DEF Realizes
<1>11. apply(N, root, factor, at) = (N \ {root}) \cup {renamed(c, p, root) : c \in p.net}
  <2>1. p = build_factored(factor, root_op(root), child_op(root), at)
    BY DEF root_op
  <2> QED  BY <2>1 DEF apply, renamed
<1>12. Replaces(N, I, root, at, p, apply(N, root, factor, at))
  BY <1>8, <1>9, <1>11 DEF Replaces, L
<1> QED  BY <1>1, <1>5, <1>7, <1>10, <1>12 DEF type, child, cover, L

-----------------------------------------------------------------------------
(* The invariant, and the theorems.                                        *)

IInv ==
  /\ original \in Netlists
  /\ WellMade(cells, original.inputs)
  /\ original.outputs \subseteq Known(cells, original.inputs)
  /\ fresh(cells, iter)
  /\ iter \in 0 .. original.max_iter /\ total_gain \in Nat
  /\ phase \in {"LOOP", "DONE"}

\* What is assumed of a module, in the terms of the proofs.
LEMMA OfNetlist ==
  ASSUME NEW n \in Netlists
  PROVE  /\ WellMade(n.cells, n.inputs)
         /\ n.outputs \subseteq Known(n.cells, n.inputs)
         /\ \A x \in driven(n.cells) \cup n.inputs : Len(x) = 1
         /\ n.max_iter \in Nat
<1>1. /\ IsFiniteSet(n.cells)
      /\ n.cells \subseteq [type : {"$and", "$or", "$not"}, a : Seq(Nat), b : Seq(Nat), y : Seq(Nat)]
      /\ \A c, d \in n.cells : c.y = d.y => c = d
      /\ n.outputs \cup UNION {operands(c) : c \in n.cells}
           \subseteq driven(n.cells) \cup (n.inputs \cup Constants)
      /\ driven(n.cells) \cap (n.inputs \cup Constants) = {} /\ n.inputs \cap Constants = {}
      /\ \A x \in driven(n.cells) \cup n.inputs : x \in Seq(Nat) /\ Len(x) = 1
      /\ loop_free(n.cells)
      /\ n.max_iter \in Nat
  BY NetlistsAssumption
<1>2. /\ n.outputs \subseteq driven(n.cells) \cup n.inputs \cup Constants
      /\ \A c \in n.cells : operands(c) \subseteq driven(n.cells) \cup n.inputs \cup Constants
  BY <1>1
<1>3. n.cells \subseteq Cells /\ n.inputs \subseteq Name
  BY <1>1 DEF Cells, Name
<1> QED  BY <1>1, <1>2, <1>3 DEF WellMade, Known

\* The invariant holds at first,
LEMMA InitInvariant == Init => IInv
<1> SUFFICES ASSUME Init PROVE IInv
  OBVIOUS
<1>1. /\ original \in Netlists /\ cells = original.cells
      /\ iter = 0 /\ total_gain = 0 /\ phase = "LOOP"
  BY DEF Init
<1>2. /\ WellMade(cells, original.inputs)
      /\ original.outputs \subseteq Known(cells, original.inputs)
      /\ \A x \in driven(cells) \cup original.inputs : Len(x) = 1
      /\ original.max_iter \in Nat
  BY <1>1, OfNetlist
<1> QED  BY <1>1, <1>2 DEF IInv, fresh

\* What the step of an iteration takes and makes.
LEMMA RewriteRootReplaces ==
  ASSUME IInv, RewriteRoot
  PROVE  \E root, factor, p :
           /\ root \in cells /\ root.type \in {"$and", "$or"}
           /\ Replaces(cells, original.inputs, root, <<iter + 1>>, p, cells')
           /\ IsCover(cover_of(cells, root), Below(cells, original.inputs, root))
           /\ Realizes(p, cover_of(cells, root), root.type)
           /\ factor.gain \in Int /\ factor.gain > 0
           /\ total_gain' = total_gain + factor.gain
<1>1. PICK root \in cells : \E factor \in find_rewrite_candidate(cells, root, MaxKernelLiterals) :
        /\ cells' = apply(cells, root, factor, <<iter + 1>>)
        /\ total_gain' = total_gain + factor.gain
  BY DEF RewriteRoot
<1>b. PICK factor \in find_rewrite_candidate(cells, root, MaxKernelLiterals) :
        /\ cells' = apply(cells, root, factor, <<iter + 1>>)
        /\ total_gain' = total_gain + factor.gain
  BY <1>1
<1>2. PICK at : at = <<iter + 1>>
  OBVIOUS
<1>3. PICK p : p = build_factored(factor, root.type, child_op(root), at)
  OBVIOUS
<1>4. /\ WellMade(cells, original.inputs) /\ iter \in Nat /\ fresh(cells, iter)
      /\ \A x \in original.inputs : Len(x) = 1
  <2>1. original.max_iter \in Nat /\ \A x \in original.inputs : Len(x) = 1
    BY OfNetlist DEF IInv
  <2> QED  BY <2>1 DEF IInv
<1>5. at \in Name /\ Known(cells, original.inputs) \cap Under(at) = {}
  BY <1>2, <1>4, NextNamesAreNew
<1>6. /\ root.type \in {"$and", "$or"}
      /\ Replaces(cells, original.inputs, root, at, p, apply(cells, root, factor, at))
      /\ IsCover(cover_of(cells, root), Below(cells, original.inputs, root))
      /\ Realizes(p, cover_of(cells, root), root.type)
      /\ factor.gain \in Int /\ factor.gain > 0
  BY <1>3, <1>4, <1>5, RewritingReplaces
<1>7. Replaces(cells, original.inputs, root, <<iter + 1>>, p, cells')
  BY <1>b, <1>2, <1>6
<1> QED  BY <1>b, <1>6, <1>7

\* is kept by every step: the one that changes cells is that of an iteration,
LEMMA StepInvariant == IInv /\ [Next]_vars => IInv'
<1> SUFFICES ASSUME IInv, [Next]_vars PROVE IInv'
  OBVIOUS
<1>0. original.max_iter \in Nat /\ \A x \in original.inputs : Len(x) = 1
  BY OfNetlist DEF IInv
<1>1. CASE RewriteRoot
  <2>1. PICK root, factor, p :
           /\ Replaces(cells, original.inputs, root, <<iter + 1>>, p, cells')
           /\ factor.gain \in Int /\ factor.gain > 0
           /\ total_gain' = total_gain + factor.gain
    BY <1>1, RewriteRootReplaces
  <2>2. /\ original' = original /\ iter' = iter + 1 /\ phase' = phase
        /\ iter < original.max_iter
    BY <1>1 DEF RewriteRoot
  <2>3. WellMade(cells', original.inputs)
    BY <2>1, ReplacedWellMade
  <2>4. /\ driven(cells) \subseteq driven(cells')
        /\ driven(cells') \subseteq driven(cells) \cup Under(<<iter + 1>>)
    BY <2>1, ReplacedDrives
  <2>5. original.outputs \subseteq Known(cells', original.inputs)
    BY <2>4 DEF IInv, Known
  <2>6. fresh(cells', iter + 1)
    <3>1. iter \in Nat /\ driven(cells) \subseteq Name
      BY KnownNames DEF IInv, Known
    <3>2. \A x \in Under(<<iter + 1>>) : Len(x) >= 2 /\ x[1] <= iter + 1
      BY <1>0, <3>1, NextNamesAreNew DEF IInv
    <3>3. ASSUME NEW x \in driven(cells) PROVE Len(x) = 1 \/ (Len(x) >= 2 /\ x[1] <= iter + 1)
      <4>1. Len(x) = 1 \/ (Len(x) >= 2 /\ x[1] <= iter)
        BY DEF IInv, fresh
      <4>2. Len(x) >= 2 => x[1] \in Nat
        BY <3>1 DEF Name
      <4> QED  BY <3>1, <4>1, <4>2
    <3> QED  BY <2>4, <3>2, <3>3 DEF fresh
  <2>7. total_gain' \in Nat
    BY <2>1 DEF IInv
  <2> QED  BY <1>0, <2>2, <2>3, <2>5, <2>6, <2>7 DEF IInv
<1>2. CASE NothingLeft
  BY <1>2 DEF IInv, NothingLeft
<1>3. CASE IterationsUsed
  BY <1>3 DEF IInv, IterationsUsed
<1>4. CASE Terminated \/ UNCHANGED vars
  BY <1>4 DEF IInv, Terminated, vars
<1> QED  BY <1>1, <1>2, <1>3, <1>4 DEF Next

\* and implies the type invariant.
LEMMA InvariantTypes == IInv => TypeOK
<1> SUFFICES ASSUME IInv PROVE TypeOK
  OBVIOUS
<1>1. /\ IsFiniteSet(cells) /\ cells \subseteq Cells
      /\ \A c, d \in cells : c.y = d.y => c = d
      /\ \A c \in cells : operands(c) \subseteq driven(cells) \cup original.inputs \cup Constants
  BY DEF IInv, WellMade
<1>2. Cardinality(driven(cells)) = Cardinality(cells)
  <2> DEFINE f == [c \in cells |-> c.y]
  <2>1. driven(cells) = {f[c] : c \in cells}
    BY DEF driven
  <2>2. DOMAIN f = cells /\ \A c, d \in cells : f[c] = f[d] => c = d
    BY <1>1
  <2> HIDE DEF f
  <2> QED  BY <1>1, <2>1, <2>2, FiniteImage
<1>3. cells \subseteq [type : {"$and", "$or", "$not"}, a : Seq(Nat), b : Seq(Nat), y : Seq(Nat)]
  BY <1>1 DEF Cells, Name
<1>4. original.outputs \cup UNION {operands(c) : c \in cells}
        \subseteq driven(cells) \cup original.inputs \cup Constants
  BY <1>1 DEF IInv, Known
<1> QED  BY <1>2, <1>3, <1>4 DEF IInv, TypeOK

\* A rewriting keeps the value of every signal.
LEMMA RewritingKeepsFunction ==
  ASSUME IInv, RewriteRoot, ~constant_in_sums(cells)
  PROVE  same_function(cells, cells')
<1>1. PICK root, p :
        /\ root \in cells /\ root.type \in {"$and", "$or"}
        /\ Replaces(cells, original.inputs, root, <<iter + 1>>, p, cells')
        /\ IsCover(cover_of(cells, root), Below(cells, original.inputs, root))
        /\ Realizes(p, cover_of(cells, root), root.type)
  BY RewriteRootReplaces
<1>2. WellMade(cells, original.inputs) /\ WellMade(cells', original.inputs)
  BY <1>1, ReplacedWellMade DEF IInv
<1>3. \A T : Holds(cells, T) /\ One \in T /\ Zero \notin T
        => (hot(root.type, T, root.y) <=> fires(cover_of(cells, root), root.type, T))
  BY <1>1, <1>2, CoverDecides
<1> SUFFICES ASSUME NEW input \in [original.inputs -> BOOLEAN],
                    NEW x \in driven(cells) \cap driven(cells')
             PROVE  Values(cells', input)[x] = Values(cells, input)[x]
  BY DEF same_function
<1>4. PICK T : /\ Computes(T, cells, original.inputs, input)
               /\ \A y \in driven(cells) : Values(cells, input)[y] = (y \in T)
  BY <1>2, ValuesCompute
<1>5. PICK T1 : /\ Computes(T1, cells', original.inputs, input)
                /\ \A y \in driven(cells') : Values(cells', input)[y] = (y \in T1)
  BY <1>2, ValuesCompute
<1>6. x \in T <=> x \in T1
  BY <1>1, <1>3, <1>4, <1>5, ReplacedFunction
<1>7. Values(cells, input)[x] = (x \in T) /\ Values(cells', input)[x] = (x \in T1)
  BY <1>4, <1>5
<1>8. (x \in T1) = (x \in T)
  BY <1>6
<1> QED  BY <1>7, <1>8, Zenon

\* The type invariant: every signal keeps its only driver.
THEOREM TypeCorrect == Spec => []TypeOK
<1> QED  BY InitInvariant, StepInvariant, InvariantTypes, PTL DEF Spec

\* Whatever root and whatever factorization is taken, in whatever order, the function
\* of every signal is kept, on every netlist.
THEOREM FunctionIsKept == Spec => FunctionKept
<1>1. IInv /\ [Next]_vars =>
        [TypeOK' /\ (~constant_in_sums(cells) => same_function(cells, cells'))]_vars
  <2> SUFFICES ASSUME IInv, Next, vars' # vars
               PROVE  TypeOK' /\ (~constant_in_sums(cells) => same_function(cells, cells'))
    OBVIOUS
  <2>1. TypeOK'
    BY StepInvariant, InvariantTypes, PTL
  <2>2. ASSUME ~constant_in_sums(cells) PROVE same_function(cells, cells')
    <3>1. CASE RewriteRoot
      BY <2>2, <3>1, RewritingKeepsFunction
    <3>2. CASE NothingLeft \/ IterationsUsed
      <4>1. cells' = cells
        BY <3>2 DEF NothingLeft, IterationsUsed
      <4> QED  BY <4>1 DEF same_function
    <3>3. CASE Terminated
      BY <3>3 DEF Terminated
    <3> QED  BY <3>1, <3>2, <3>3 DEF Next
  <2> QED  BY <2>1, <2>2
<1> QED  BY <1>1, InitInvariant, StepInvariant, PTL DEF Spec, FunctionKept

=============================================================================
