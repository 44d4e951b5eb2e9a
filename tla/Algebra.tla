------------------------------- MODULE Algebra -------------------------------
(***************************************************************************)
(* The algebra of sums of products on which the multi-level passes of      *)
(* my_opt_rewrite.cc rest: cubes, covers, division, kernels and the cost    *)
(* estimate.  A literal is a pair <<signal, neg>>, a cube the set of its    *)
(* literals, a cover the set of its cubes.  The code keeps cubes in maps    *)
(* from the name of a signal and marks those that contain a literal and its *)
(* negation as zero; normalize_cover removes these and the duplicates, so   *)
(* that a normalized cover is a set of consistent cubes.  The same cube is  *)
(* a product under an $or root and a sum under an $and root.               *)
(***************************************************************************)
EXTENDS Integers, FiniteSets, FiniteSetsExt

consistent(cube) == \A l, k \in cube : l[1] = k[1] => l[2] = k[2]

\* cube_contains_cube: the cube is a multiple of the divisor.
contains(cube, divisor) == divisor \subseteq cube

divide_by_cube(dividend, divisor) ==
  [quotient  |-> {cube \ divisor : cube \in {c \in dividend : contains(c, divisor)}},
   remainder |-> {cube \in dividend : ~contains(cube, divisor)}]

\* Faulty variant: a zero product is taken to be in the dividend.
quotient_with_zero_products(dividend, divisor, first) ==
  {q \in {cube \ first : cube \in {c \in dividend : contains(c, first)}} :
     \A d \in divisor : consistent(q \cup d) => q \cup d \in dividend}

\* The quotient by a divisor of several cubes.  What is left of the multiples
\* of its first cube is kept if all its products are cubes of the dividend.
quotient(dividend, divisor, first) ==
  {q \in {cube \ first : cube \in {c \in dividend : contains(c, first)}} :
     \A d \in divisor : consistent(q \cup d) /\ q \cup d \in dividend}

covered_products(q, divisor) == {x \cup d : x \in q, d \in divisor}

algebraic_division(dividend, divisor, first) ==
  LET q == quotient(dividend, divisor, first)
  IN  [quotient  |-> q,
       remainder |-> dividend \ covered_products(q, divisor)]

-----------------------------------------------------------------------------

\* No literal is common to all cubes.
cube_free(cover) == \A l \in UNION cover : \E cube \in cover : l \notin cube

\* Kernels and their co-kernels.  The recursion over the literals leaves out only
\* co-kernels whose quotient has less than two cubes.
kernel_pairs(cover) ==
  {pair \in {[kernel |-> divide_by_cube(cover, c).quotient, cokernel |-> c] :
               c \in {c \in SUBSET (UNION cover) : consistent(c)}} :
     Cardinality(pair.kernel) >= 2 /\ cube_free(pair.kernel)}

enumerate_kernels(cover, max_literals) ==
  IF Cardinality(UNION cover) > max_literals THEN {} ELSE kernel_pairs(cover)

-----------------------------------------------------------------------------

nary_cost(count) == IF count <= 1 THEN 0 ELSE count - 1

cube_cost(cube) == Cardinality(cube) + nary_cost(Cardinality(cube))

cover_cost(cover) == MapThenSumSet(cube_cost, cover) + nary_cost(Cardinality(cover))

is_child_identity(cover) == cover = {{}}

part_cost(cover) == IF is_child_identity(cover) THEN 0 ELSE cover_cost(cover)

\* Faulty variant: the gate that joins the factors costs nothing.
factored_cost_without_join(q, divisor, remainder) ==
  part_cost(q) + part_cost(divisor)
    + nary_cost(Cardinality(remainder) + 1) + MapThenSumSet(cube_cost, remainder)

factored_cost(q, divisor, remainder) ==
  part_cost(q) + part_cost(divisor)
    + (IF is_child_identity(q) \/ is_child_identity(divisor) THEN 0 ELSE 1)
    + nary_cost(Cardinality(remainder) + 1) + MapThenSumSet(cube_cost, remainder)

\* Every kernel and every co-kernel is tried as a divisor.
divisors(cover, max_literals) ==
  LET pairs == enumerate_kernels(cover, max_literals)
  IN  {p.kernel : p \in pairs} \cup {{p.cokernel} : p \in pairs}

factorization(cover, divisor, first) ==
  LET r == algebraic_division(cover, divisor, first)
  IN  [divisor |-> divisor, quotient |-> r.quotient, remainder |-> r.remainder,
       gain |-> cover_cost(cover) - factored_cost(r.quotient, divisor, r.remainder)]

\* The factorizations that find_best_candidate may come across.
candidates(cover, max_literals) ==
  {f \in {factorization(cover, d[1], d[2]) :
            d \in UNION {{x} \X x : x \in divisors(cover, max_literals)}} :
     f.quotient # {}}

\* Each divisor is tried with the cube of it that comes first, the best wins.
\* Which cube that is, and which of two equally good factorizations is met first,
\* depends on the names of the signals: a factorization can win if every other
\* divisor has a cube with which it does no better.
find_best_candidate(cover, max_literals) ==
  LET no_better(divisor, best) ==
        \E first \in divisor :
          LET f == factorization(cover, divisor, first)
          IN  f.quotient = {} \/ f.gain <= best.gain
  IN  {best \in candidates(cover, max_literals) :
         /\ best.gain > 0
         /\ \A divisor \in divisors(cover, max_literals) \ {best.divisor} : no_better(divisor, best)}

=============================================================================
