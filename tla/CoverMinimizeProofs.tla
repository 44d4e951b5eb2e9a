------------------------- MODULE CoverMinimizeProofs -------------------------
(***************************************************************************)
(* Proofs about my_opt_cover, for every support, every matrix of products  *)
(* and every -max_iter: the minimizer never changes the function of the    *)
(* root, ends each round with a prime and irredundant cover, keeps the     *)
(* cheapest matrix it has met, and so does what RootRewrite promises.      *)
(***************************************************************************)
EXTENDS CoverMinimize, FiniteSetsExt, FunctionTheorems, FiniteSetTheorems, TLAPS

-----------------------------------------------------------------------------
(* In place of induction: a proof by least counterexample takes a minimal   *)
(* set for which the claim fails.                                           *)

(* A nonempty family of subsets of a finite set has a minimal member.      *)
LEMMA MinimalSubset ==
  ASSUME NEW U, IsFiniteSet(U), NEW T \in SUBSET SUBSET U, T # {}
  PROVE  \E X \in T : \A Y \in T : Y \subseteq X => Y = X
<1>1. IsWellFoundedOn(StrictSubsetOrdering(U), SUBSET U)
  BY FS_StrictSubsetOrderingWellFounded, FS_FiniteSubsetsOfFinite
<1>2. PICK X \in T : \A Y \in T : <<Y, X>> \notin StrictSubsetOrdering(U)
  BY <1>1, WFMin
<1>3. X \in SUBSET U /\ \A Y \in T : Y \in SUBSET U
  OBVIOUS
<1>4. ASSUME NEW Y \in T, Y \subseteq X, Y # X PROVE FALSE
  BY <1>2, <1>3, <1>4 DEF StrictSubsetOrdering
<1> QED  BY <1>4

-----------------------------------------------------------------------------
(* Finite domains.                                                         *)

LEMMA VarsFinite == IsFiniteSet(Vars)
BY NumVarsAssumption, FS_Interval DEF Vars

LEMMA CubeFinite == IsFiniteSet(Cube)
<1>1. IsFiniteSet(SUBSET Vars)
  BY VarsFinite, FS_SUBSET
<1>2. IsFiniteSet((SUBSET Vars) \X (SUBSET Vars))
  BY <1>1, FS_Product
<1> DEFINE pair == [c \in Cube |-> <<c.val, c.dc>>]
<1>3. pair \in [Cube -> (SUBSET Vars) \X (SUBSET Vars)]
  BY DEF Cube
<1>4. ASSUME NEW c \in Cube, NEW d \in Cube, pair[c] = pair[d] PROVE c = d
  BY <1>4 DEF Cube
<1>5. pair \in Injection(Cube, (SUBSET Vars) \X (SUBSET Vars))
  BY <1>3, <1>4, Zenon DEF Injection, IsInjective
<1> QED  BY <1>2, <1>5, FS_Injection

-----------------------------------------------------------------------------
(* The cost of a cover.                                                    *)

\* The literals of a cover, the second half of its cost.
Literals(cover) == {p \in cover \X Vars : p[2] \notin p[1].dc}

LEMMA CostFinite ==
  ASSUME NEW S \in SUBSET Cube
  PROVE  IsFiniteSet(S) /\ IsFiniteSet(Literals(S))
<1>1. IsFiniteSet(S)
  BY CubeFinite, FS_Subset
<1>2. IsFiniteSet(S \X Vars)
  BY <1>1, VarsFinite, FS_Product
<1> QED  BY <1>1, <1>2, FS_Subset DEF Literals

(* The cost of a cover is a natural number.                                *)
LEMMA CostType ==
  ASSUME NEW S \in SUBSET Cube
  PROVE  sop_cost(S) \in Nat
BY CostFinite, FS_CardinalityType DEF sop_cost, Literals

LEMMA CostEmpty == sop_cost({}) = 0
<1>1. Literals({}) = {}
  BY DEF Literals
<1> QED  BY <1>1, FS_EmptySet DEF sop_cost, Literals

(* A part of a cover costs no more than the cover.                         *)
LEMMA CostMonotone ==
  ASSUME NEW S \in SUBSET Cube, NEW T \in SUBSET S
  PROVE  sop_cost(T) <= sop_cost(S)
<1>1. Literals(T) \subseteq Literals(S)
  BY DEF Literals
<1>2. Cardinality(T) <= Cardinality(S) /\ Cardinality(T) \in Nat
      /\ Cardinality(S) \in Nat
  BY CostFinite, FS_Subset, FS_CardinalityType
<1>3. /\ Cardinality(Literals(T)) <= Cardinality(Literals(S))
      /\ Cardinality(Literals(T)) \in Nat /\ Cardinality(Literals(S)) \in Nat
  BY <1>1, CostFinite, FS_Subset, FS_CardinalityType
<1> QED  BY <1>2, <1>3 DEF sop_cost, Literals

(* Two covers cost at least what their union does, and exactly that when   *)
(* they share no cube.                                                     *)
LEMMA CostUnion ==
  ASSUME NEW S \in SUBSET Cube, NEW T \in SUBSET Cube
  PROVE  /\ sop_cost(S \cup T) <= sop_cost(S) + sop_cost(T)
         /\ S \cap T = {} => sop_cost(S \cup T) = sop_cost(S) + sop_cost(T)
<1>1. Literals(S \cup T) = Literals(S) \cup Literals(T)
  BY DEF Literals
<1>2. S \cap T = {} => Literals(S) \cap Literals(T) = {}
  BY DEF Literals
<1>3. /\ Cardinality(S \cup T) = Cardinality(S) + Cardinality(T) - Cardinality(S \cap T)
      /\ Cardinality(S) \in Nat /\ Cardinality(T) \in Nat
      /\ Cardinality(S \cap T) \in Nat
  BY CostFinite, FS_Union, FS_Intersection, FS_CardinalityType
<1>4. /\ Cardinality(Literals(S \cup T)) = Cardinality(Literals(S))
           + Cardinality(Literals(T)) - Cardinality(Literals(S) \cap Literals(T))
      /\ Cardinality(Literals(S)) \in Nat /\ Cardinality(Literals(T)) \in Nat
      /\ Cardinality(Literals(S) \cap Literals(T)) \in Nat
  BY <1>1, CostFinite, FS_Union, FS_Intersection, FS_CardinalityType
<1>5. S \cap T = {} => Cardinality(S \cap T) = 0
                       /\ Cardinality(Literals(S) \cap Literals(T)) = 0
  BY <1>2, FS_EmptySet
<1>6. \A U : sop_cost(U) = 64 * Cardinality(U) + Cardinality(Literals(U))
  BY DEF sop_cost, Literals
<1> HIDE DEF Literals
<1> QED  BY <1>3, <1>4, <1>5, <1>6

(* A single cube costs 64 and its literals.                                *)
LEMMA CostSingle ==
  ASSUME NEW c \in Cube
  PROVE  literal_count(c) \in Nat /\ sop_cost({c}) = 64 + literal_count(c)
<1> DEFINE L == Vars \ c.dc
           pair == [v \in L |-> <<c, v>>]
<1>1. IsFiniteSet(L)
  BY VarsFinite, FS_Subset
<1>2. pair \in Bijection(L, Literals({c}))
  <2>1. pair \in [L -> Literals({c})]
    BY DEF Literals
  <2>2. \A v, w \in L : pair[v] = pair[w] => v = w
    OBVIOUS
  <2>3. \A p \in Literals({c}) : \E v \in L : pair[v] = p
    BY DEF Literals
  <2> QED  BY <2>1, <2>2, <2>3, Fun_IsBij
<1>3. Cardinality(Literals({c})) = Cardinality(L)
  <2>1. ExistsBijection(L, Literals({c}))
    BY <1>2 DEF ExistsBijection
  <2> QED  BY <1>1, <2>1, FS_Bijection
<1>4. Cardinality(L) \in Nat
  BY <1>1, FS_CardinalityType
<1>5. literal_count(c) = Cardinality(L)
  BY DEF literal_count
<1>6. Cardinality({c}) = 1
  BY FS_Singleton
<1> HIDE DEF L
<1> QED  BY <1>3, <1>4, <1>5, <1>6 DEF sop_cost, Literals

(* A cube that keeps a part of the literals of another costs no more.      *)
LEMMA CostOfFewerLiterals ==
  ASSUME NEW c \in Cube, NEW e \in Cube, c.dc \subseteq e.dc
  PROVE  sop_cost({e}) <= sop_cost({c})
<1>1. literal_count(e) <= literal_count(c)
  <2>1. IsFiniteSet(Vars \ c.dc) /\ Vars \ e.dc \subseteq Vars \ c.dc
    BY VarsFinite, FS_Subset
  <2> QED  BY <2>1, FS_Subset DEF literal_count
<1> QED  BY <1>1, CostSingle

-----------------------------------------------------------------------------
(* Facts about cubes.                                                      *)

(* EXPAND keeps every minterm of the cube; the expanded cube is a cube.    *)
LEMMA ExpandedCube ==
  ASSUME NEW c \in Cube, NEW v \in Vars
  PROVE  /\ expanded(c, v) \in Cube
         /\ \A m \in Minterm : covers(c, m) => covers(expanded(c, v), m)
BY DEF Cube, expanded, covers, Minterm

(* REDUCE adds no minterm; the reduced cube is a cube.                     *)
LEMMA ReducedCube ==
  ASSUME NEW c \in Cube, NEW v \in c.dc, NEW value \in {0, 1}
  PROVE  /\ reduced(c, v, value) \in Cube
         /\ \A m \in Minterm : covers(reduced(c, v, value), m) => covers(c, m)
BY DEF Cube, reduced, covers, Minterm

(* A cube that contains another covers all it covers.                      *)
LEMMA ContainsCovers ==
  ASSUME NEW c \in Cube, NEW d \in Cube, NEW m \in Minterm,
         cover_cube_contains_cube(d, c), covers(c, m)
  PROVE  covers(d, m)
BY DEF Cube, cover_cube_contains_cube, covers, Minterm

LEMMA ContainsTransitive ==
  ASSUME NEW c \in Cube, NEW d \in Cube, NEW e \in Cube,
         cover_cube_contains_cube(e, d), cover_cube_contains_cube(d, c)
  PROVE  cover_cube_contains_cube(e, c)
BY DEF Cube, cover_cube_contains_cube

(* Cubes with the same literal positions contain each other only if equal. *)
LEMMA ContainsStrict ==
  ASSUME NEW d \in Cube, NEW e \in Cube, e # d, cover_cube_contains_cube(e, d)
  PROVE  Vars \ e.dc \subseteq Vars \ d.dc /\ Vars \ e.dc # Vars \ d.dc
<1>1. Vars \ e.dc \subseteq Vars \ d.dc
  BY DEF cover_cube_contains_cube
<1>2. ASSUME Vars \ e.dc = Vars \ d.dc PROVE FALSE
  <2>1. e.dc = d.dc
    BY <1>2 DEF Cube
  <2>2. e.val = d.val
    BY <1>2, <2>1 DEF Cube, cover_cube_contains_cube
  <2> QED  BY <2>1, <2>2 DEF Cube
<1> QED  BY <1>1, <1>2

(* Normalisation drops only cubes whose minterms a kept cube covers.       *)
LEMMA NormalizeKeepsFunction ==
  ASSUME NEW S \in SUBSET Cube
  PROVE  Function(cover_normalize_cube_matrix(S)) = Function(S)
<1> DEFINE N == cover_normalize_cube_matrix(S)
<1>1. N \subseteq S
  BY DEF cover_normalize_cube_matrix
<1>2. ASSUME NEW c \in S, NEW m \in Minterm, covers(c, m)
      PROVE  \E d \in N : covers(d, m)
  <2> DEFINE Above == {d \in S : d = c \/ cover_cube_contains_cube(d, c)}
             T == {Vars \ d.dc : d \in Above}
  <2>1. PICK X \in T : \A Y \in T : Y \subseteq X => Y = X
    <3>1. T \in SUBSET SUBSET Vars /\ T # {}
      OBVIOUS
    <3> HIDE DEF T
    <3> QED  BY <3>1, VarsFinite, MinimalSubset
  <2>2. PICK d \in Above : X = Vars \ d.dc
    BY <2>1
  <2>3. ASSUME NEW e \in S \ {d}, cover_cube_contains_cube(e, d) PROVE FALSE
    <3>1. e \in Above
      BY <2>3, ContainsTransitive
    <3>2. Vars \ e.dc \subseteq X /\ Vars \ e.dc # X
      BY <2>2, <2>3, ContainsStrict
    <3> QED  BY <2>1, <3>1, <3>2
  <2>4. d \in N
    BY <2>3 DEF cover_normalize_cube_matrix
  <2>5. covers(d, m)
    BY <1>2, ContainsCovers
  <2> QED  BY <2>4, <2>5
<1> QED  BY <1>1, <1>2 DEF Function, covered_minterms

-----------------------------------------------------------------------------
(* The inductive invariant.                                                *)

\* What the control of the loops adds to the types.
Shape ==
  /\ \A c, d \in cur : c = d
  /\ phase \in Dropping \cup {"DONE"} => cur = {} /\ done = {}
  /\ phase \in {"EXPAND", "IRREDUNDANT", "REDUCE"} => iter < MaxIter
  /\ phase # "DONE" => ~rewritten

IInv == TypeOK /\ Shape /\ FunctionPreserved

LEMMA InitInv == Init => IInv
<1> SUFFICES ASSUME Init PROVE IInv
  OBVIOUS
<1>1. terms \in SUBSET Cube /\ extra \in Nat
  BY InputsAssumption, ExtraCostsAssumption DEF Init
<1>2. /\ phase = "EXPAND" /\ iter = 0 /\ rewritten = FALSE
      /\ todo = cover_normalize_cube_matrix(terms) /\ best = todo
      /\ cur = {} /\ done = {} /\ before = {}
  BY DEF Init
<1>3. todo \in SUBSET Cube
  BY <1>1, <1>2 DEF cover_normalize_cube_matrix
<1>4. TypeOK
  <2>1. iter \in 0 .. MaxIter
    BY <1>2, MaxIterAssumption
  <2>2. phase \in Expanding /\ rewritten \in BOOLEAN
    BY <1>2 DEF Expanding
  <2> QED  BY <1>1, <1>2, <1>3, <2>1, <2>2, Zenon DEF TypeOK
<1>5. Shape
  BY <1>2, MaxIterAssumption DEF Shape, Dropping
<1>6. FunctionPreserved
  BY <1>1, <1>2, NormalizeKeepsFunction DEF FunctionPreserved, matrix, on_set
<1> QED  BY <1>4, <1>5, <1>6 DEF IInv

LEMMA NextCubeInv == IInv /\ NextCube => IInv'
<1> SUFFICES ASSUME IInv, NextCube PROVE IInv'
  OBVIOUS
<1> USE DEF IInv, NextCube
<1>1. TypeOK'
  BY DEF TypeOK
<1>2. Shape'
  BY DEF Shape, Expanding, Dropping
<1>3. matrix' = matrix
  BY DEF matrix
<1>4. FunctionPreserved'
  BY <1>3 DEF FunctionPreserved, on_set
<1> QED  BY <1>1, <1>2, <1>4

LEMMA ExpandLiteralInv == IInv /\ ExpandLiteral => IInv'
<1> SUFFICES ASSUME IInv, ExpandLiteral PROVE IInv'
  OBVIOUS
<1> USE DEF IInv
<1>1. PICK c \in cur, v \in Vars : expandable(c, v) /\ cur' = {expanded(c, v)}
  BY DEF ExpandLiteral
<1>2. c \in Cube /\ cur = {c}
  BY DEF TypeOK, Shape
<1>3. TypeOK'
  BY <1>1, <1>2, ExpandedCube DEF TypeOK, ExpandLiteral
<1>4. Shape'
  BY <1>1 DEF Shape, ExpandLiteral, Expanding, Dropping
<1>5. Function(matrix') = on_set
  <2>1. \A m \in Minterm : covers(expanded(c, v), m) => m \in on_set
    BY <1>1 DEF expandable, cover_cube_is_valid_implicant, cube_cover_set
  <2>2. \A m \in Minterm : covers(c, m) => covers(expanded(c, v), m)
    BY <1>2, ExpandedCube
  <2>3. matrix = todo \cup {c} \cup done
    BY <1>2 DEF matrix
  <2>4. matrix' = todo \cup {expanded(c, v)} \cup done
    BY <1>1 DEF matrix, ExpandLiteral
  <2>5. Function(matrix) = on_set
    BY DEF FunctionPreserved
  <2> QED  BY <2>1, <2>2, <2>3, <2>4, <2>5 DEF Function, covered_minterms
<1>6. FunctionPreserved'
  BY <1>5 DEF FunctionPreserved, ExpandLiteral, on_set
<1> QED  BY <1>3, <1>4, <1>6

LEMMA ReduceLiteralInv == IInv /\ ReduceLiteral => IInv'
<1> SUFFICES ASSUME IInv, ReduceLiteral PROVE IInv'
  OBVIOUS
<1> USE DEF IInv
<1>1. PICK c \in cur, v \in Vars, value \in {0, 1} :
        reducible(c, v, value) /\ cur' = {reduced(c, v, value)}
  BY DEF ReduceLiteral
<1>2. c \in Cube /\ cur = {c} /\ v \in c.dc
  BY <1>1 DEF TypeOK, Shape, reducible
<1>3. TypeOK'
  BY <1>1, <1>2, ReducedCube DEF TypeOK, ReduceLiteral
<1>4. Shape'
  BY <1>1 DEF Shape, ReduceLiteral, Dropping
<1>5. Function(matrix') = on_set
  <2>1. on_set \subseteq Function(todo \cup done \cup {reduced(c, v, value)})
    BY <1>1 DEF reducible, cover_cubes_cover_on_set
  <2>2. \A m \in Minterm : covers(reduced(c, v, value), m) => covers(c, m)
    BY <1>2, ReducedCube
  <2>3. matrix = todo \cup {c} \cup done
    BY <1>2 DEF matrix
  <2>4. matrix' = todo \cup {reduced(c, v, value)} \cup done
    BY <1>1 DEF matrix, ReduceLiteral
  <2>5. Function(matrix) = on_set
    BY DEF FunctionPreserved
  <2> QED  BY <2>1, <2>2, <2>3, <2>4, <2>5 DEF Function, covered_minterms
<1>6. FunctionPreserved'
  BY <1>5 DEF FunctionPreserved, ReduceLiteral, on_set
<1> QED  BY <1>3, <1>4, <1>6

LEMMA CubeDoneInv == IInv /\ CubeDone => IInv'
<1> SUFFICES ASSUME IInv, CubeDone PROVE IInv'
  OBVIOUS
<1> USE DEF IInv
<1>1. phase \notin Dropping \cup {"DONE"}
  BY DEF CubeDone, Shape
<1>2. TypeOK'
  BY DEF TypeOK, CubeDone
<1>3. Shape'
  BY <1>1 DEF Shape, CubeDone
<1>4. matrix' = matrix
  BY DEF matrix, CubeDone
<1>5. FunctionPreserved'
  BY <1>4 DEF FunctionPreserved, CubeDone, on_set
<1> QED  BY <1>2, <1>3, <1>5

LEMMA ExpandEndInv == IInv /\ ExpandEnd => IInv'
<1> SUFFICES ASSUME IInv, ExpandEnd PROVE IInv'
  OBVIOUS
<1> USE DEF IInv
<1>1. done \in SUBSET Cube /\ matrix = done
  BY DEF TypeOK, ExpandEnd, matrix
<1>2. matrix' = cover_normalize_cube_matrix(done)
  BY DEF ExpandEnd, matrix
<1>3. TypeOK'
  BY <1>1 DEF TypeOK, ExpandEnd, cover_normalize_cube_matrix, Dropping
<1>4. Shape'
  BY DEF Shape, ExpandEnd, Expanding, Dropping
<1>5. FunctionPreserved'
  BY <1>1, <1>2, NormalizeKeepsFunction DEF FunctionPreserved, ExpandEnd, on_set
<1> QED  BY <1>3, <1>4, <1>5

LEMMA DropCubeInv == IInv /\ DropCube => IInv'
<1> SUFFICES ASSUME IInv, DropCube PROVE IInv'
  OBVIOUS
<1> USE DEF IInv
<1>1. PICK c \in todo : redundant(c) /\ todo' = todo \ {c}
  BY DEF DropCube
<1>2. matrix = todo /\ matrix' = todo \ {c}
  BY <1>1 DEF DropCube, Shape, matrix
<1>3. TypeOK'
  BY <1>1 DEF TypeOK, DropCube
<1>4. Shape'
  BY DEF Shape, DropCube
<1>5. Function(todo \ {c}) = on_set
  BY <1>1, <1>2 DEF redundant, cover_cubes_cover_on_set, FunctionPreserved,
                    Function, covered_minterms
<1>6. FunctionPreserved'
  BY <1>2, <1>5 DEF FunctionPreserved, DropCube, on_set
<1> QED  BY <1>3, <1>4, <1>6

LEMMA IrredundantEndInv == IInv /\ IrredundantEnd => IInv'
<1> SUFFICES ASSUME IInv, IrredundantEnd PROVE IInv'
  OBVIOUS
<1> USE DEF IInv
<1>1. matrix = todo /\ matrix' = todo /\ best' \in {todo, best}
  BY DEF IrredundantEnd, Shape, Dropping, matrix
<1>2. TypeOK'
  BY <1>1 DEF TypeOK, IrredundantEnd
<1>3. Shape'
  BY DEF Shape, IrredundantEnd, Dropping
<1>4. FunctionPreserved'
  BY <1>1 DEF FunctionPreserved, IrredundantEnd, on_set
<1> QED  BY <1>2, <1>3, <1>4

LEMMA ReduceEndInv == IInv /\ ReduceEnd => IInv'
<1> SUFFICES ASSUME IInv, ReduceEnd PROVE IInv'
  OBVIOUS
<1> USE DEF IInv
<1> DEFINE after == cover_normalize_cube_matrix(done)
<1>1. done \in SUBSET Cube /\ matrix = done
  BY DEF TypeOK, ReduceEnd, matrix
<1>2. todo' \in {best, after} /\ matrix' = todo'
  BY DEF ReduceEnd, matrix
<1>3. iter' \in 0 .. MaxIter /\ (phase' = "EXPAND" => iter' < MaxIter)
  BY MaxIterAssumption DEF ReduceEnd, Shape, TypeOK
<1>4. TypeOK'
  BY <1>1, <1>2, <1>3
     DEF TypeOK, ReduceEnd, cover_normalize_cube_matrix, Expanding
<1>5. Shape'
  BY <1>3 DEF Shape, ReduceEnd, Dropping
<1>6. FunctionPreserved'
  BY <1>1, <1>2, NormalizeKeepsFunction DEF FunctionPreserved, ReduceEnd, on_set
<1> QED  BY <1>4, <1>5, <1>6

LEMMA FinishInv == IInv /\ Finish => IInv'
<1> SUFFICES ASSUME IInv, Finish PROVE IInv'
  OBVIOUS
<1> USE DEF IInv
<1>1. matrix = todo /\ matrix' = todo /\ best' = todo
  BY DEF Finish, Shape, Dropping, matrix
<1>2. TypeOK'
  BY <1>1 DEF TypeOK, Finish
<1>3. Shape'
  BY DEF Shape, Finish, Dropping
<1>4. FunctionPreserved'
  BY <1>1 DEF FunctionPreserved, Finish, on_set
<1> QED  BY <1>2, <1>3, <1>4

LEMMA StutterInv == IInv /\ UNCHANGED vars => IInv'
BY DEF IInv, TypeOK, Shape, FunctionPreserved, matrix, on_set, vars

THEOREM Invariance == Spec => []IInv
<1>1. IInv /\ [Next]_vars => IInv'
  BY NextCubeInv, ExpandLiteralInv, ReduceLiteralInv, CubeDoneInv, ExpandEndInv,
     DropCubeInv, IrredundantEndInv, ReduceEndInv, FinishInv, StutterInv
     DEF Next, Terminated
<1> QED  BY InitInv, <1>1, PTL DEF Spec

(* Type correctness.                                                       *)
THEOREM TypeCorrect == Spec => []TypeOK
BY Invariance, PTL DEF IInv

(* No step of the minimizer changes the function of the root.              *)
THEOREM FunctionIsPreserved == Spec => []FunctionPreserved
BY Invariance, PTL DEF IInv

-----------------------------------------------------------------------------
(* The result is prime and irredundant.                                    *)

Prime(cube) == \A v \in Vars : ~expandable(cube, v)

\* A cube that EXPAND is done with is prime, and stays so: what can be expanded
\* depends on the on-set alone, and the phases that follow only drop cubes.
PrimesSoFar ==
  /\ phase \in Expanding => \A c \in done : Prime(c)
  /\ phase \in Dropping \cup {"DONE"} => \A c \in todo : Prime(c)
  /\ phase = "DONE" => best = todo /\ \A c \in todo : ~redundant(c)

LEMMA PrimesSoFarInv ==
  PrimesSoFar /\ IInv /\ [Next]_vars => PrimesSoFar'
<1> SUFFICES ASSUME PrimesSoFar, IInv, [Next]_vars PROVE PrimesSoFar'
  OBVIOUS
<1>1. \A c : Prime(c)' <=> Prime(c)
  <2>1. terms' = terms
    BY DEF Next, NextCube, ExpandLiteral, ReduceLiteral, CubeDone, ExpandEnd,
           DropCube, IrredundantEnd, ReduceEnd, Finish, Terminated, vars
  <2> QED
    BY <2>1 DEF Prime, expandable, cover_cube_is_valid_implicant, on_set
<1> USE DEF PrimesSoFar, Expanding, Dropping
<1>2. CASE NextCube
  BY <1>1, <1>2 DEF NextCube
<1>3. CASE ExpandLiteral
  BY <1>1, <1>3 DEF ExpandLiteral
<1>4. CASE ReduceLiteral
  BY <1>4 DEF ReduceLiteral
<1>5. CASE CubeDone
  <2>1. phase \in Expanding => \A c \in cur : Prime(c)
    BY <1>5 DEF CubeDone, Prime
  <2>2. phase \notin Dropping \cup {"DONE"}
    BY <1>5 DEF CubeDone, IInv, Shape
  <2> QED  BY <1>1, <1>5, <2>1, <2>2 DEF CubeDone
<1>6. CASE ExpandEnd
  <2>1. todo' \subseteq done
    BY <1>6 DEF ExpandEnd, cover_normalize_cube_matrix
  <2> QED  BY <1>1, <1>6, <2>1 DEF ExpandEnd
<1>7. CASE DropCube
  BY <1>1, <1>7 DEF DropCube
<1>8. CASE IrredundantEnd
  BY <1>8 DEF IrredundantEnd
<1>9. CASE ReduceEnd
  BY <1>9 DEF ReduceEnd
<1>10. CASE Finish
  <2>1. \A c : redundant(c)' <=> redundant(c)
    BY <1>10 DEF Finish, redundant, cover_cubes_cover_on_set, on_set
  <2> QED  BY <1>1, <1>10, <2>1 DEF Finish
<1>11. CASE UNCHANGED vars
  <2>1. \A c : redundant(c)' <=> redundant(c)
    BY <1>11 DEF vars, redundant, cover_cubes_cover_on_set, on_set
  <2> QED  BY <1>1, <1>11, <2>1 DEF vars
<1> QED
  BY <1>2, <1>3, <1>4, <1>5, <1>6, <1>7, <1>8, <1>9, <1>10, <1>11
     DEF Next, Terminated

(* The cover that replaces a root is prime and irredundant.                *)
THEOREM ResultIsPrimeIrredundant == Spec => []ResultPrimeIrredundant
<1>1. Init => PrimesSoFar
  BY DEF Init, PrimesSoFar, Expanding, Dropping
<1>2. PrimesSoFar => ResultPrimeIrredundant
  BY DEF PrimesSoFar, ResultPrimeIrredundant, Prime, redundant,
         cover_cubes_cover_on_set
<1> QED  BY <1>1, <1>2, PrimesSoFarInv, Invariance, PTL DEF Spec

-----------------------------------------------------------------------------
(* The best matrix never gets dearer.                                      *)

\* The last EXPAND and IRREDUNDANT start from the best matrix.  While a cube
\* is expanded it may meet a cube of the matrix and leave it again, so it is
\* not the cost of the matrix that falls but that of its three parts.
LastRoundIsCheap ==
  phase \in {"FINAL_EXPAND", "FINAL_IRREDUNDANT"} =>
    cover_matrix_cost(todo) + cover_matrix_cost(cur) + cover_matrix_cost(done)
      <= cover_matrix_cost(best)

\* What the parts of the matrix cost is a number, and nothing costs nothing.
LEMMA PartsCost ==
  ASSUME TypeOK
  PROVE  /\ cover_matrix_cost(todo) \in Nat /\ cover_matrix_cost(cur) \in Nat
         /\ cover_matrix_cost(done) \in Nat /\ cover_matrix_cost(best) \in Nat
         /\ cover_matrix_cost({}) = 0
BY CostType, CostEmpty DEF TypeOK, cover_matrix_cost

LEMMA LastRoundIsCheapInv ==
  LastRoundIsCheap /\ IInv /\ IInv' /\ [Next]_vars => LastRoundIsCheap'
<1> SUFFICES ASSUME LastRoundIsCheap, IInv, IInv', [Next]_vars,
                    phase' \in {"FINAL_EXPAND", "FINAL_IRREDUNDANT"}
             PROVE  LastRoundIsCheap'
  BY DEF LastRoundIsCheap
<1> DEFINE cost(cubes) == cover_matrix_cost(cubes)
<1>1. /\ cost(todo) \in Nat /\ cost(cur) \in Nat /\ cost(done) \in Nat
      /\ cost(best) \in Nat /\ cost({}) = 0
  BY PartsCost DEF IInv
<1>2. /\ cost(todo') \in Nat /\ cost(cur') \in Nat /\ cost(done') \in Nat
      /\ cost(best') \in Nat
  BY CostType DEF IInv, TypeOK, cover_matrix_cost
<1>3. /\ todo \in SUBSET Cube /\ cur \in SUBSET Cube /\ done \in SUBSET Cube
  BY DEF IInv, TypeOK
<1> SUFFICES cost(todo') + cost(cur') + cost(done') <= cost(best')
  BY DEF LastRoundIsCheap, cover_matrix_cost
<1> HIDE DEF cost
<1>4. phase \in {"FINAL_EXPAND", "FINAL_IRREDUNDANT"} =>
        cost(todo) + cost(cur) + cost(done) <= cost(best)
  BY DEF LastRoundIsCheap, cost
<1>5. CASE NextCube
  <2>1. PICK c \in todo : cur' = {c} /\ todo' = todo \ {c}
    BY <1>5 DEF NextCube
  <2>2. cost(todo) = cost(todo') + cost(cur')
    <3>1. todo = (todo \ {c}) \cup {c} /\ (todo \ {c}) \cap {c} = {}
      OBVIOUS
    <3> QED  BY <1>3, <2>1, <3>1, CostUnion DEF cost, cover_matrix_cost
  <2>3. cur = {} /\ done' = done /\ best' = best /\ phase' = phase
    BY <1>5 DEF NextCube
  <2> QED  BY <1>1, <1>2, <1>4, <2>2, <2>3
<1>6. CASE ExpandLiteral
  <2>1. PICK c \in cur, v \in Vars : expandable(c, v) /\ cur' = {expanded(c, v)}
    BY <1>6 DEF ExpandLiteral
  <2>2. cur = {c} /\ c \in Cube /\ expanded(c, v) \in Cube
    BY <1>3, <2>1, ExpandedCube DEF IInv, Shape
  <2>3. c.dc \subseteq expanded(c, v).dc
    BY DEF expanded
  <2>4. cost(cur') <= cost(cur)
    BY <2>1, <2>2, <2>3, CostOfFewerLiterals DEF cost, cover_matrix_cost
  <2>5. todo' = todo /\ done' = done /\ best' = best /\ phase' = phase
    BY <1>6 DEF ExpandLiteral
  <2> QED  BY <1>1, <1>2, <1>4, <2>4, <2>5
<1>7. CASE CubeDone
  <2>1. cost(done') <= cost(done) + cost(cur) /\ cur' = {}
    BY <1>3, <1>7, CostUnion DEF CubeDone, cost, cover_matrix_cost
  <2>2. todo' = todo /\ best' = best /\ phase' = phase
    BY <1>7 DEF CubeDone
  <2> QED  BY <1>1, <1>2, <1>4, <2>1, <2>2
<1>8. CASE ExpandEnd
  <2>1. todo' \subseteq done /\ done' = {} /\ cur' = {} /\ todo = {} /\ cur = {}
    BY <1>8 DEF ExpandEnd, cover_normalize_cube_matrix
  <2>2. cost(todo') <= cost(done)
    BY <1>3, <2>1, CostMonotone DEF cost, cover_matrix_cost
  <2>3. best' = best /\ phase = "FINAL_EXPAND"
    BY <1>8 DEF ExpandEnd, Expanding
  <2> QED  BY <1>1, <1>2, <1>4, <2>1, <2>2, <2>3
<1>9. CASE DropCube
  <2>1. todo' \subseteq todo /\ cur' = cur /\ done' = done /\ best' = best
        /\ phase' = phase
    BY <1>9 DEF DropCube
  <2>2. cost(todo') <= cost(todo)
    BY <1>3, <2>1, CostMonotone DEF cost, cover_matrix_cost
  <2> QED  BY <1>1, <1>2, <1>4, <2>1, <2>2
<1>10. CASE ReduceEnd
  <2>1. todo' = best /\ cur' = {} /\ done' = {} /\ best' = best
    BY <1>10 DEF ReduceEnd
  <2> QED  BY <1>1, <2>1
<1>11. CASE UNCHANGED vars
  BY <1>4, <1>11 DEF vars
<1>12. ~ReduceLiteral /\ ~IrredundantEnd /\ ~Finish /\ ~Terminated
  BY DEF ReduceLiteral, IrredundantEnd, Finish, Terminated, vars
<1> QED
  BY <1>5, <1>6, <1>7, <1>8, <1>9, <1>10, <1>11, <1>12 DEF Next

(* No step makes the best matrix dearer.                                   *)
THEOREM BestIsNeverDearer == Spec => BestNeverDearer
<1>1. Init => LastRoundIsCheap
  BY DEF Init, LastRoundIsCheap
<1>2. LastRoundIsCheap /\ IInv /\ [Next]_vars =>
        [cover_matrix_cost(best') <= cover_matrix_cost(best)]_vars
  <2> SUFFICES ASSUME LastRoundIsCheap, IInv, Next
               PROVE  cover_matrix_cost(best') <= cover_matrix_cost(best)
    OBVIOUS
  <2>1. /\ cover_matrix_cost(todo) \in Nat /\ cover_matrix_cost(cur) \in Nat
        /\ cover_matrix_cost(done) \in Nat /\ cover_matrix_cost(best) \in Nat
    BY PartsCost DEF IInv
  <2>2. CASE IrredundantEnd
    BY <2>1, <2>2 DEF IrredundantEnd
  <2>3. CASE Finish
    <3>1. cover_matrix_cost(todo) <= cover_matrix_cost(best)
      BY <2>1, <2>3 DEF Finish, LastRoundIsCheap
    <3> QED  BY <2>3, <3>1 DEF Finish
  <2>4. CASE ~IrredundantEnd /\ ~Finish
    <3>1. best' = best
      BY <2>4 DEF Next, NextCube, ExpandLiteral, ReduceLiteral, CubeDone, ExpandEnd,
                  DropCube, ReduceEnd, Terminated, vars
    <3> QED  BY <2>1, <3>1
  <2> QED  BY <2>2, <2>3, <2>4
<1> QED
  BY <1>1, <1>2, LastRoundIsCheapInv, Invariance, PTL DEF Spec, BestNeverDearer

-----------------------------------------------------------------------------
(* my_opt_cover implements RootRewrite.                                    *)

(* Every step keeps the function of the root, and the one that rewrites it *)
(* makes it cheaper: the refinement promised in CoverMinimize.             *)
THEOREM Refinement == Spec => ImplementsRootRewrite
<1> DEFINE F == Function(IF rewritten THEN best ELSE terms)
           C == IF rewritten THEN cover_matrix_cost(best)
                             ELSE cover_matrix_cost(terms) + extra
<1>1. Init => Root!Init
  <2> SUFFICES ASSUME Init PROVE C \in Nat
    BY DEF Root!Init
  <2>1. TypeOK /\ rewritten = FALSE
    BY InitInv DEF IInv, Init
  <2> QED  BY <2>1, CostType DEF TypeOK, cover_matrix_cost
<1>2. IInv /\ IInv' /\ [Next]_vars => [Root!Next]_<<F, C>>
  <2> SUFFICES ASSUME IInv, IInv', [Next]_vars PROVE [Root!Next]_<<F, C>>
    OBVIOUS
  <2>1. CASE Finish
    <3>1. CASE rewritten'
      <4>1. terms' = terms /\ best' = todo /\ ~rewritten
        BY <2>1 DEF Finish, IInv, Shape
      <4>2. cover_matrix_cost(best') < cover_matrix_cost(terms) + extra
        BY <2>1, <3>1, <4>1 DEF Finish
      <4>3. cover_matrix_cost(best') \in Nat
        <5>1. best' \in SUBSET Cube
          BY DEF IInv, TypeOK
        <5> QED  BY <5>1, CostType DEF cover_matrix_cost
      <4>4. Function(best') = Function(terms)
        BY <4>1 DEF IInv, FunctionPreserved, on_set
      <4> QED
        BY <3>1, <4>1, <4>2, <4>3, <4>4 DEF Root!Next, Root!Rewrite
    <3>2. CASE ~rewritten'
      BY <2>1, <3>2 DEF Finish, IInv, Shape
    <3> QED  BY <3>1, <3>2
  <2>2. CASE ~Finish
    <3>1. terms' = terms /\ extra' = extra /\ rewritten' = rewritten
      BY <2>2 DEF Next, NextCube, ExpandLiteral, ReduceLiteral, CubeDone, ExpandEnd,
                  DropCube, IrredundantEnd, ReduceEnd, Terminated, vars
    <3>2. rewritten => best' = best
      BY <2>2 DEF Next, NextCube, ExpandLiteral, ReduceLiteral, CubeDone, ExpandEnd,
                  DropCube, IrredundantEnd, ReduceEnd, Terminated, vars, IInv, Shape
    <3> QED  BY <3>1, <3>2
  <2> QED  BY <2>1, <2>2
<1> QED
  BY <1>1, <1>2, Invariance, PTL
     DEF Spec, ImplementsRootRewrite, Root!Spec

=============================================================================
