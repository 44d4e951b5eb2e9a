---------------------------- MODULE CellSemantics ----------------------------
(***************************************************************************)
(* What a cell of the netlist computes: the constant evaluation of Yosys   *)
(* (kernel/calc.cc, dispatched by CellTypes::eval).  The passes of this    *)
(* project are judged against it.  A constant is the sequence of its bits, *)
(* least significant first; a bit is "0", "1" or "x".                      *)
(***************************************************************************)
EXTENDS Integers, Sequences, FiniteSetsExt

Bit == {"0", "1", "x"}

bit(b) == IF b THEN "1" ELSE "0"
fill(b, width) == [i \in 1 .. width |-> b]

undef(arg) == \E i \in 1 .. Len(arg) : arg[i] = "x"

extend_u0(arg, width, is_signed) ==
  LET padding == IF is_signed /\ arg # <<>> THEN arg[Len(arg)] ELSE "0"
  IN  [i \in 1 .. width |-> IF i <= Len(arg) THEN arg[i] ELSE padding]

\* An undefined bit counts as 0 of the magnitude.
const2big(val, as_signed) ==
  LET n        == Len(val)
      negative == as_signed /\ n > 0 /\ val[n] = "1"
      mag(one, S) == MapThenSumSet(LAMBDA i : 2^(i - 1), {i \in S : val[i] = one})
  IN  IF negative THEN -(mag("0", 1 .. n - 1) + 1) ELSE mag("1", 1 .. n)

big2const(val, len) == [i \in 1 .. len |-> bit((val \div 2^(i - 1)) % 2 = 1)]

logic_and(a, b) == IF "0" \in {a, b} THEN "0" ELSE IF "x" \in {a, b} THEN "x" ELSE "1"
logic_or(a, b)  == IF "1" \in {a, b} THEN "1" ELSE IF "x" \in {a, b} THEN "x" ELSE "0"
logic_xor(a, b) == IF "x" \in {a, b} THEN "x" ELSE bit(a # b)
logic_not(a)    == IF a = "x" THEN "x" ELSE bit(a = "0")

-----------------------------------------------------------------------------
\* Results of one bit are zero-extended.

of_bit(b, len) == [i \in 1 .. len |-> IF i = 1 THEN b ELSE "0"]

const_not(a, sa, len) == [i \in 1 .. len |-> logic_not(extend_u0(a, len, sa)[i])]

logic_wrapper(logic_func(_, _), a, b, sa, sb, len) ==
  [i \in 1 .. len |-> logic_func(extend_u0(a, len, sa)[i], extend_u0(b, len, sb)[i])]

reduce_xor(a) == IF undef(a) THEN "x" ELSE bit(Cardinality({i \in 1 .. Len(a) : a[i] = "1"}) % 2 = 1)
reduce_and(a) == IF \E i \in 1 .. Len(a) : a[i] = "0" THEN "0" ELSE IF undef(a) THEN "x" ELSE "1"
reduce_or(a)  == IF \E i \in 1 .. Len(a) : a[i] = "1" THEN "1" ELSE IF undef(a) THEN "x" ELSE "0"

\* The truth value of an operand: a set bit decides, whatever else is undefined.
truth(a) == reduce_or(a)

compare(decided, a, b) == IF undef(a) \/ undef(b) THEN "x" ELSE bit(decided)

const_eq(a, b, signed) ==
  LET n == Max({Len(a), Len(b)})
      p == extend_u0(a, n, signed)
      q == extend_u0(b, n, signed)
  IN  IF \E i \in 1 .. n : {p[i], q[i]} = {"0", "1"} THEN "0"
      ELSE IF undef(p) \/ undef(q) THEN "x" ELSE "1"

\* Positions left of the operand are filled with its last bit if sign_ext.
const_shift_worker(a, b, sign_ext, direction, len) ==
  LET bit_at(pos) == IF pos < 1 THEN "0"
                     ELSE IF pos <= Len(a) THEN a[pos]
                     ELSE IF sign_ext THEN a[Len(a)] ELSE "0"
  IN  IF undef(b) THEN fill("x", len)
      ELSE [i \in 1 .. len |-> bit_at(i + direction * const2big(b, FALSE))]

arithmetic(val, a, b, len) == IF undef(a) \/ undef(b) THEN fill("x", len) ELSE big2const(val, len)

abs(n) == IF n < 0 THEN -n ELSE n

\* Truncating division and its remainder.
quotient(a, b)  == IF (a < 0) = (b < 0) THEN abs(a) \div abs(b) ELSE -(abs(a) \div abs(b))
remainder(a, b) == IF a < 0 THEN -(abs(a) % abs(b)) ELSE abs(a) % abs(b)

divide(op(_, _), p, q, a, b, len) ==
  IF q = 0 THEN fill("x", len) ELSE arithmetic(op(p, q), a, b, len)

const_mux(a, b, s) ==
  CASE s[1] = "0" -> a
    [] s[1] = "1" -> b
    [] s[1] = "x" -> [i \in 1 .. Len(a) |-> IF a[i] = b[i] THEN a[i] ELSE "x"]

const_pmux(a, b, s) ==
  LET set == {i \in 1 .. Len(s) : s[i] = "1"}
      word(i) == SubSeq(b, (i - 1) * Len(a) + 1, i * Len(a))
  IN  IF set = {} /\ ~undef(s) THEN a
      ELSE IF Cardinality(set) = 1 /\ ~undef(s) THEN word(CHOOSE i \in set : TRUE)
      ELSE fill("x", Len(a))

\* Bitwise, arithmetic and comparing cells are signed if both operands are;
\* the unary and the shifting ones if the first operand is.
both_signed(sa, sb) == sa /\ sb

const_bitwise(type, a, b, signed, len) ==
  CASE type = "$and"  -> logic_wrapper(logic_and, a, b, signed, signed, len)
    [] type = "$or"   -> logic_wrapper(logic_or, a, b, signed, signed, len)
    [] type = "$xor"  -> logic_wrapper(logic_xor, a, b, signed, signed, len)
    [] type = "$xnor" -> logic_wrapper(LAMBDA p, q : logic_not(logic_xor(p, q)), a, b, signed, signed, len)

const_bool(type, a, b) ==
  CASE type = "$reduce_and"  -> reduce_and(a)
    [] type \in {"$reduce_or", "$reduce_bool"} -> reduce_or(a)
    [] type = "$reduce_xor"  -> reduce_xor(a)
    [] type = "$reduce_xnor" -> logic_not(reduce_xor(a))
    [] type = "$logic_not"   -> logic_not(truth(a))
    [] type = "$logic_and"   -> logic_and(truth(a), truth(b))
    [] type = "$logic_or"    -> logic_or(truth(a), truth(b))

const_compare(type, a, b, signed) ==
  LET p == const2big(a, signed)
      q == const2big(b, signed)
  IN  CASE type = "$eq" -> const_eq(a, b, signed)
        [] type = "$ne" -> logic_not(const_eq(a, b, signed))
        [] type = "$lt" -> compare(p < q, a, b)
        [] type = "$le" -> compare(p <= q, a, b)
        [] type = "$gt" -> compare(p > q, a, b)
        [] type = "$ge" -> compare(p >= q, a, b)

const_arith(type, a, b, signed, len) ==
  LET p == const2big(a, signed)
      q == const2big(b, signed)
  IN  CASE type = "$add" -> arithmetic(p + q, a, b, len)
        [] type = "$sub" -> arithmetic(p - q, a, b, len)
        [] type = "$mul" -> arithmetic(p * q, a, b, len)
        [] type = "$div" -> divide(quotient, p, q, a, b, len)
        [] type = "$mod" -> divide(remainder, p, q, a, b, len)

\* $sshl and $sshr of an unsigned operand are $shl and $shr.
const_shift(type, a, b, sa, len) ==
  LET wide == Max({len, Len(a)})
  IN  CASE type = "$shl" \/ (type = "$sshl" /\ ~sa) ->
             const_shift_worker(extend_u0(a, len, sa), b, FALSE, -1, len)
        [] type = "$shr" \/ (type = "$sshr" /\ ~sa) ->
             const_shift_worker(extend_u0(a, wide, sa), b, FALSE, 1, len)
        [] type = "$sshl" /\ sa -> const_shift_worker(a, b, TRUE, -1, len)
        [] type = "$sshr" /\ sa -> const_shift_worker(a, b, TRUE, 1, len)

Bitwise2 == {"$and", "$or", "$xor", "$xnor"}
Reductions == {"$reduce_and", "$reduce_or", "$reduce_bool", "$reduce_xor", "$reduce_xnor"}
LogicOps == {"$logic_not", "$logic_and", "$logic_or"}
Comparisons == {"$eq", "$ne", "$lt", "$le", "$gt", "$ge"}
Arithmetic == {"$add", "$sub", "$mul", "$div", "$mod"}
Shifts == {"$shl", "$shr", "$sshl", "$sshr"}

eval_cell(type, a, b, s, sa, sb, len) ==
  CASE type = "$not" -> const_not(a, sa, len)
    [] type = "$pos" -> extend_u0(a, len, sa)
    [] type \in Bitwise2 -> const_bitwise(type, a, b, both_signed(sa, sb), len)
    [] type \in Reductions \cup LogicOps -> of_bit(const_bool(type, a, b), len)
    [] type \in Comparisons -> of_bit(const_compare(type, a, b, both_signed(sa, sb)), len)
    [] type \in Arithmetic -> const_arith(type, a, b, both_signed(sa, sb), len)
    [] type \in Shifts -> const_shift(type, a, b, sa, len)
    [] type = "$mux" -> const_mux(a, b, s)
    [] type = "$pmux" -> const_pmux(a, b, s)

=============================================================================
