---------------------------- MODULE CoverMinimize ----------------------------
(***************************************************************************)
(* my_opt_cover: heuristic two-level minimization of one $or root.  The    *)
(* products collected under the root form a cube matrix; the loop EXPAND,  *)
(* IRREDUNDANT, REDUCE rewrites the matrix one cube at a time, keeps the   *)
(* cheapest matrix met so far, and a last EXPAND, IRREDUNDANT polishes it. *)
(*                                                                         *)
(* A step of the specification is one accepted change of one cube, or the  *)
(* passage from a cube, or a phase, to the next.  A std::vector of cubes   *)
(* is the set of its elements: `done' and `todo' are the cubes before and  *)
(* after the one the inner loop works on, `cur' that one (a singleton, or  *)
(* empty between two cubes).  The order of the vector matters to REDUCE    *)
(* only, where it is the order left by the last std::sort of IRREDUNDANT.  *)
(***************************************************************************)
EXTENDS Cubes

CONSTANTS MaxIter,    \* -max_iter
          Inputs,     \* the sets of products an $or root may flatten to
          ExtraCosts  \* cost of the terms dropped at once (zero, repeated)

ASSUME MaxIterAssumption == MaxIter \in Nat \ {0}
ASSUME InputsAssumption ==
  \A terms \in Inputs : terms \subseteq Cube /\ terms # {}
ASSUME ExtraCostsAssumption == ExtraCosts \subseteq Nat

VARIABLES
  terms,      \* the nonzero products of the root
  extra,      \* cost of its zero and repeated products
  phase,      \* where cover_matrix_minimize is
  todo, cur, done,
  before,     \* the matrix REDUCE started from
  best,       \* cheapest matrix so far
  iter,       \* rounds of the main loop completed
  rewritten   \* has the root been replaced?

vars == <<terms, extra, phase, todo, cur, done, before, best, iter, rewritten>>

-----------------------------------------------------------------------------

matrix == todo \cup cur \cup done
on_set == Function(terms)

\* sop_cost, computed on the terms that the cubes stand for.
cover_matrix_cost(cubes) == sop_cost(cubes)

cover_cube_is_valid_implicant(cube) == cube_cover_set(cube, Minterm) \subseteq on_set

cover_cubes_cover_on_set(cubes) == on_set \subseteq Function(cubes)

\* Faulty variant: compares the supports and forgets the values.
cover_cube_contains_cube_by_mask(general, specific) == specific.dc \subseteq general.dc

cover_cube_contains_cube(general, specific) ==
  \A v \in Vars \ general.dc :
    v \notin specific.dc /\ (v \in general.val <=> v \in specific.val)

cover_normalize_cube_matrix(cubes) ==
  {c \in cubes : \A d \in cubes \ {c} : ~cover_cube_contains_cube(d, c)}

\* EXPAND drops a literal, REDUCE adds one.
expanded(cube, v) == [val |-> cube.val \ {v}, dc |-> cube.dc \cup {v}]
reduced(cube, v, value) ==
  [val |-> IF value = 1 THEN cube.val \cup {v} ELSE cube.val,
   dc  |-> cube.dc \ {v}]

expandable(cube, v) ==
  v \notin cube.dc /\ cover_cube_is_valid_implicant(expanded(cube, v))
reducible(cube, v, value) ==
  /\ v \in cube.dc
  /\ cover_cubes_cover_on_set(todo \cup done \cup {reduced(cube, v, value)})
redundant(cube) == cover_cubes_cover_on_set(todo \ {cube})

Expanding == {"EXPAND", "FINAL_EXPAND"}
Dropping  == {"IRREDUNDANT", "FINAL_IRREDUNDANT"}

-----------------------------------------------------------------------------

\* cover_build_support takes the support from the literals of the terms, and
\* the root is left alone when it flattens to fewer than two terms.
Init ==
  /\ terms \in Inputs
  /\ UNION {Vars \ c.dc : c \in terms} = Vars
  /\ extra \in ExtraCosts
  /\ Cardinality(terms) >= 2 \/ extra > 0
  /\ phase = "EXPAND"
  /\ todo = cover_normalize_cube_matrix(terms)
  /\ cur = {} /\ done = {} /\ before = {}
  /\ best = todo
  /\ iter = 0
  /\ rewritten = FALSE

\* The inner loops take the cubes of the matrix one by one; REDUCE takes them
\* in the order of the last std::sort, the most literals first.
NextCube ==
  /\ phase \in Expanding \cup {"REDUCE"}
  /\ cur = {}
  /\ \E c \in todo :
       /\ phase = "REDUCE" =>
            \A d \in todo : literal_count(c) >= literal_count(d)
       /\ cur' = {c}
       /\ todo' = todo \ {c}
  /\ UNCHANGED <<terms, extra, phase, done, before, best, iter, rewritten>>

\* The comparator that orders the candidate variables calls all of them
\* equal, which leaves their order to std::sort.
ExpandLiteral ==
  /\ phase \in Expanding
  /\ \E c \in cur, v \in Vars :
       /\ expandable(c, v)
       /\ cur' = {expanded(c, v)}
  /\ UNCHANGED <<terms, extra, phase, todo, done, before, best, iter, rewritten>>

\* The scan of the don't-care variables starts again after each success, so
\* the first variable, and its value 0 before its value 1, is taken.
ReduceLiteral ==
  /\ phase = "REDUCE"
  /\ \E c \in cur, v \in Vars, value \in {0, 1} :
       /\ reducible(c, v, value)
       /\ \A w \in Vars, u \in {0, 1} :
            w < v \/ (w = v /\ u < value) => ~reducible(c, w, u)
       /\ cur' = {reduced(c, v, value)}
  /\ UNCHANGED <<terms, extra, phase, todo, done, before, best, iter, rewritten>>

\* Faulty variant: a cube is left before it is prime.
CubeDone_early ==
  /\ cur # {}
  /\ done' = done \cup cur
  /\ cur' = {}
  /\ UNCHANGED <<terms, extra, phase, todo, before, best, iter, rewritten>>

CubeDone ==
  /\ cur # {}
  /\ \A c \in cur, v \in Vars :
       /\ phase \in Expanding => ~expandable(c, v)
       /\ phase = "REDUCE" => \A value \in {0, 1} : ~reducible(c, v, value)
  /\ done' = done \cup cur
  /\ cur' = {}
  /\ UNCHANGED <<terms, extra, phase, todo, before, best, iter, rewritten>>

ExpandEnd ==
  /\ phase \in Expanding
  /\ todo = {} /\ cur = {}
  /\ phase' = IF phase = "EXPAND" THEN "IRREDUNDANT" ELSE "FINAL_IRREDUNDANT"
  /\ todo' = cover_normalize_cube_matrix(done)
  /\ done' = {}
  /\ UNCHANGED <<terms, extra, cur, before, best, iter, rewritten>>

\* The scan meets the redundant cube with the most literals first.
DropCube ==
  /\ phase \in Dropping
  /\ \E c \in todo :
       /\ redundant(c)
       /\ \A d \in todo : redundant(d) => literal_count(d) <= literal_count(c)
       /\ todo' = todo \ {c}
  /\ UNCHANGED <<terms, extra, phase, cur, done, before, best, iter, rewritten>>

\* Faulty variant: the last matrix is taken for the best one.
IrredundantEnd_takes_last ==
  /\ phase = "IRREDUNDANT"
  /\ \A c \in todo : ~redundant(c)
  /\ best' = todo
  /\ before' = todo
  /\ phase' = "REDUCE"
  /\ UNCHANGED <<terms, extra, todo, cur, done, iter, rewritten>>

IrredundantEnd ==
  /\ phase = "IRREDUNDANT"
  /\ \A c \in todo : ~redundant(c)
  /\ best' = IF cover_matrix_cost(todo) < cover_matrix_cost(best) THEN todo ELSE best
  /\ before' = todo
  /\ phase' = "REDUCE"
  /\ UNCHANGED <<terms, extra, todo, cur, done, iter, rewritten>>

\* Faulty variant: the rounds are not counted.
ReduceEnd_unbounded ==
  LET after == cover_normalize_cube_matrix(done)
      stop  == after = {} \/ after = before
  IN  /\ phase = "REDUCE"
      /\ todo = {} /\ cur = {}
      /\ phase' = IF stop THEN "FINAL_EXPAND" ELSE "EXPAND"
      /\ todo' = IF stop THEN best ELSE after
      /\ done' = {} /\ before' = {}
      /\ UNCHANGED <<terms, extra, cur, best, iter, rewritten>>

\* The loop stops when REDUCE changed nothing, or after MaxIter rounds.
ReduceEnd ==
  LET after == cover_normalize_cube_matrix(done)
      stop  == after = {} \/ after = before \/ iter + 1 = MaxIter
  IN  /\ phase = "REDUCE"
      /\ todo = {} /\ cur = {}
      /\ phase' = IF stop THEN "FINAL_EXPAND" ELSE "EXPAND"
      /\ todo' = IF stop THEN best ELSE after
      /\ done' = {} /\ before' = {}
      /\ iter' = iter + 1
      /\ UNCHANGED <<terms, extra, cur, best, rewritten>>

\* The caller replaces the root only by a strictly cheaper cover.
Finish ==
  /\ phase = "FINAL_IRREDUNDANT"
  /\ \A c \in todo : ~redundant(c)
  /\ phase' = "DONE"
  /\ best' = todo
  /\ rewritten' = (cover_matrix_cost(todo) < cover_matrix_cost(terms) + extra)
  /\ UNCHANGED <<terms, extra, todo, cur, done, before, iter>>

Terminated == phase = "DONE" /\ UNCHANGED vars

Next ==
  \/ NextCube \/ ExpandLiteral \/ ReduceLiteral \/ CubeDone
  \/ ExpandEnd \/ DropCube \/ IrredundantEnd \/ ReduceEnd \/ Finish
  \/ Terminated

Spec == Init /\ [][Next]_vars

\* A pass is one sequential call: it runs to its end.
FairSpec == Spec /\ WF_vars(Next)

-----------------------------------------------------------------------------

TypeOK ==
  /\ terms \in SUBSET Cube
  /\ extra \in Nat
  /\ phase \in Expanding \cup Dropping \cup {"REDUCE", "DONE"}
  /\ todo \in SUBSET Cube /\ cur \in SUBSET Cube /\ done \in SUBSET Cube
  /\ before \in SUBSET Cube /\ best \in SUBSET Cube
  /\ iter \in 0 .. MaxIter
  /\ rewritten \in BOOLEAN

\* No phase may change the function of the root, not even in the middle of a
\* cube: what the matrix and the best matrix so far compute is the on-set of
\* the terms collected under the root.
FunctionPreserved == Function(matrix) = on_set /\ Function(best) = on_set

\* The cover that replaces the root is prime (no literal can be dropped) and
\* irredundant (no cube can).
ResultPrimeIrredundant ==
  phase = "DONE" =>
    /\ \A c \in best, v \in Vars : ~expandable(c, v)
    /\ \A c \in best : redundant(c) = FALSE

\* The best matrix never gets dearer, although REDUCE makes the current one
\* dearer and the last EXPAND works on the best one.
BestNeverDearer ==
  [][cover_matrix_cost(best') <= cover_matrix_cost(best)]_vars

\* Every loop of the minimizer ends.
Terminates == <>(phase = "DONE")

\* my_opt_cover does to a root what a minimizing pass promises.
Root == INSTANCE RootRewrite WITH
          function <- Function(IF rewritten THEN best ELSE terms),
          cost     <- IF rewritten THEN cover_matrix_cost(best)
                                   ELSE cover_matrix_cost(terms) + extra

ImplementsRootRewrite == Root!Spec

=============================================================================
