------------------------------ MODULE LocalRules ------------------------------
(***************************************************************************)
(* What my_opt_expr, my_opt_muxtree, my_opt_reduce, my_opt_strength and     *)
(* my_opt_cse do with one cell.  Cells are those of Cones; the ports        *)
(* they see are mapped to their aliases already.  A rule of folding gives   *)
(* the set of what Y is connected to: at most one signal.                   *)
(***************************************************************************)
EXTENDS CellSemantics, SequencesExt, TLC

is_const(sig) == \A i \in DOMAIN sig : sig[i] \in Bit
is_all_bit(sig, b) == \A i \in DOMAIN sig : sig[i] = b

\* The first bit of sig other than b.
first_other(sig, b) == {i \in DOMAIN sig : sig[i] # b /\ \A j \in 1 .. i - 1 : sig[j] = b}

-----------------------------------------------------------------------------
\* my_opt_expr

invert_const(sig) == [i \in DOMAIN sig |-> logic_not(sig[i])]

select(c) ==
  IF is_all_bit(c.S, "0") THEN {c.A} ELSE IF is_all_bit(c.S, "1") THEN {c.B} ELSE {}

absorbing(c, b) == is_all_bit(c.A, b) \/ is_all_bit(c.B, b)

neutral(c, b) == IF is_all_bit(c.A, b) THEN {c.B} ELSE IF is_all_bit(c.B, b) THEN {c.A} ELSE {}

expr_fold(c) ==
  CASE c.type = "$not" -> IF is_const(c.A) THEN {invert_const(c.A)} ELSE {}
    [] c.type = "$mux" -> select(c)
    [] c.type = "$and" -> IF absorbing(c, "0") THEN {fill("0", Len(c.Y))} ELSE neutral(c, "1")
    [] c.type = "$or"  -> IF absorbing(c, "1") THEN {fill("1", Len(c.Y))} ELSE neutral(c, "0")
    [] c.type = "$xor" -> neutral(c, "0")
    [] OTHER -> {}

\* my_opt_muxtree: the first select bit that is set decides.

pmux_word(c, i) == SubSeq(c.B, (i - 1) * Len(c.A) + 1, i * Len(c.A))

pmux_fold(c) ==
  IF is_all_bit(c.S, "0") THEN {c.A}
  ELSE IF ~is_const(c.S) THEN {}
  ELSE {pmux_word(c, i) : i \in {k \in DOMAIN c.S : c.S[k] = "1" /\ \A j \in 1 .. k - 1 : c.S[j] # "1"}}

muxtree_fold(c) ==
  CASE c.type = "$mux" -> select(c) [] c.type = "$pmux" -> pmux_fold(c) [] OTHER -> {}

\* my_opt_reduce: an undefined bit before the deciding one stops the fold.

reduce_until(sig, b) ==
  LET first == first_other(sig, b)
  IN  IF first = {} THEN {b} ELSE {sig[i] : i \in first} \ {"x"}

reduce_value(c) ==
  CASE c.type = "$reduce_and" -> reduce_until(c.A, "1")
    [] c.type \in {"$reduce_or", "$reduce_bool"} -> reduce_until(c.A, "0")
    [] c.type = "$reduce_xor"  -> {reduce_xor(c.A)} \ {"x"}
    [] c.type = "$reduce_xnor" -> {logic_not(reduce_xor(c.A))} \ {"x"}
    [] OTHER -> {}

\* All bits of Y become the result.
reduce_fold(c) == IF is_const(c.A) THEN {fill(v, Len(c.Y)) : v \in reduce_value(c)} ELSE {}

-----------------------------------------------------------------------------
\* my_opt_strength: c becomes the sum of its variable operand shifted to the
\* positions of the ones of its constant operand.  New wires and cells are
\* numbered from n on.

const_to_u64(sig) == Len(sig) \in 1 .. 63 /\ is_const(sig) /\ ~undef(sig)
ones(sig) == {i - 1 : i \in {k \in DOMAIN sig : sig[k] = "1"}}

lowerable(c) ==
  /\ c.type = "$mul" /\ ~c.a_signed /\ ~c.b_signed
  /\ const_to_u64(c.B) \/ const_to_u64(c.A)

\* Faulty variant: the width of the amount itself is never enough for it.
shift_const_width_short(amount) == CHOOSE w \in 1 .. 31 : 2^w >= amount /\ (w = 1 \/ 2^(w - 1) < amount)

shift_const_width(amount) == CHOOSE w \in 1 .. 31 : 2^w > amount /\ (w = 1 \/ 2^(w - 1) <= amount)

new_wire(n, width) == [i \in 1 .. width |-> "$" \o ToString(n) \o "_" \o ToString(i)]

new_cell(n, type, a, b, y) ==
  [name |-> "$" \o ToString(n), type |-> type, A |-> a, B |-> b, S |-> <<>>, Y |-> y,
   a_signed |-> FALSE, b_signed |-> FALSE]

\* The cells to add, and what Y is connected to if they do not drive it.
lower(c, n) ==
  LET constant == IF const_to_u64(c.B) THEN c.B ELSE c.A
      variable == IF const_to_u64(c.B) THEN c.A ELSE c.B
      width    == Len(c.Y)
      base     == extend_u0(variable, width, FALSE)
      at       == SetToSortSeq(ones(constant), <)
      count    == Len(at)
      term(i)  == IF at[i] = 0 THEN base ELSE new_wire(n + i, width)
      sum(i)   == IF i = 1 THEN term(1) ELSE IF i = count THEN c.Y ELSE new_wire(n + count + i, width)
      shift(i) == new_cell(n + i, "$shl", base, big2const(at[i], shift_const_width(at[i])), term(i))
      add(i)   == new_cell(n + count + i, "$add", sum(i - 1), term(i), sum(i))
      shifts   == {i \in 1 .. count : at[i] # 0}
  IN  [cells |-> SetToSeq({shift(i) : i \in shifts}) \o [i \in 1 .. IF count > 1 THEN count - 1 ELSE 0 |-> add(i + 1)],
       value |-> IF count = 0 THEN {fill("0", width)} ELSE IF count = 1 THEN {term(1)} ELSE {},
       next  |-> n + 2 * count + 1]

-----------------------------------------------------------------------------
\* my_opt_cse: cells with equal keys are merged.  The two orders of the
\* operands of a commutative cell make the same key.

mergeable == {"$not", "$and", "$or", "$xor", "$add", "$sub", "$mul", "$shl", "$shr"}
commutative == {"$and", "$or", "$xor", "$add", "$mul"}

\* Faulty variant: no cell is taken as commutative.
build_key_ordered(c) ==
  [type |-> c.type, signed |-> <<c.a_signed, c.b_signed>>, widths |-> <<Len(c.A), Len(c.B), Len(c.Y)>>,
   inputs |-> {<<c.A, c.B>>}]

build_key(c) ==
  [type |-> c.type, signed |-> <<c.a_signed, c.b_signed>>, widths |-> <<Len(c.A), Len(c.B), Len(c.Y)>>,
   inputs |-> {<<c.A, c.B>>} \cup (IF c.type \in commutative THEN {<<c.B, c.A>>} ELSE {})]

=============================================================================
