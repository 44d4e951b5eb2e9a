-------------------------------- MODULE Cubes --------------------------------
(***************************************************************************)
(* The cube algebra shared by the two-level minimizers of my_opt_qm.cc.    *)
(* The code packs a product term of up to 20 support variables into two    *)
(* 32-bit masks, `value' and `dc_mask'; here a mask is the set of the bit  *)
(* positions that are set, so that `a & ~b' is set difference.  A minterm, *)
(* an integer in the code, is the set of the variables that are 1.         *)
(***************************************************************************)
EXTENDS Integers, FiniteSets

CONSTANT NumVars      \* size of the support, bounded by -max_vars

ASSUME NumVarsAssumption == NumVars \in Nat

Vars == 0 .. NumVars - 1

Minterm == SUBSET Vars

\* Every place that sets a bit of dc_mask also clears it in value.
Cube == {c \in [val : SUBSET Vars, dc : SUBSET Vars] : c.val \cap c.dc = {}}

covers(cube, minterm) == minterm \ cube.dc = cube.val

\* The minterms of S that one cube, or some cube of a cover, covers.
cube_cover_set(cube, S) == {m \in S : covers(cube, m)}
covered_minterms(cover, S) == {m \in S : \E c \in cover : covers(c, m)}

literal_count(cube) == Cardinality(Vars \ cube.dc)

\* 64 for each cube and 1 for each of its literals.
sop_cost(cover) ==
  64 * Cardinality(cover)
    + Cardinality({p \in cover \X Vars : p[2] \notin p[1].dc})

\* The function a cover computes: its set of minterms.
Function(cover) == covered_minterms(cover, Minterm)

=============================================================================
