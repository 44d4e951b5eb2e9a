------------------------------ MODULE ConeEval ------------------------------
(***************************************************************************)
(* my_opt_qm: the evaluation of the cone of one output bit, by which the   *)
(* pass obtains the truth table it minimizes.  A BitValue of the code is   *)
(* "0", "1" or, when it is not known, "x".  A minterm is the set of        *)
(* support bits that are 1.  Numbers are machine words: unsigned, with     *)
(* wrap-around.                                                            *)
(***************************************************************************)
EXTENDS Cones

CONSTANT WordBits  \* the width of a machine word: 64 in the code

ASSUME WordBitsAssumption == WordBits \in Nat \ {0, 1}

\* bits_to_u64 knows no value that has as many bits as a word.
MaxOperand == WordBits - 1

\* Faulty variant: a narrow operand is extended by its last bit.
normalize_width_signed(bits, width) == extend_u0(bits, width, TRUE)

normalize_width(bits, width) ==
  [i \in 1 .. width |-> IF i <= Len(bits) THEN bits[i] ELSE "0"]

known(bits) == Len(bits) <= MaxOperand /\ ~undef(bits)
to_u64(bits) == MapThenSumSet(LAMBDA i : 2^(i - 1), {i \in 1 .. Len(bits) : bits[i] = "1"})

\* The bit at index i of a word.  To shift by the width of the word or more is
\* undefined: the machine takes the count modulo that width (masks), or gives 0.
word_bit(value, i, masks) ==
  CASE i < WordBits -> bit((value \div 2^i) % 2 = 1)
    [] i >= WordBits /\ masks -> bit((value \div 2^(i % WordBits)) % 2 = 1)
    [] i >= WordBits /\ ~masks -> "0"

u64_to_bits(value, width, masks) == [i \in 1 .. width |-> word_bit(value, i - 1, masks)]

bitwise(type, p, q) ==
  IF "x" \in {p, q} THEN "x"
  ELSE CASE type = "$and"  -> bit(p = "1" /\ q = "1")
         [] type = "$or"   -> bit(p = "1" \/ q = "1")
         [] type = "$xor"  -> bit(p # q)
         [] type = "$xnor" -> bit(p = q)

reduced(type, a) ==
  LET ones == {i \in 1 .. Len(a) : a[i] = "1"}
      odd  == Cardinality(ones) % 2 = 1
  IN  IF undef(a) THEN "x"
      ELSE CASE type = "$reduce_and" -> bit(ones = 1 .. Len(a))
             [] type \in {"$reduce_or", "$reduce_bool"} -> bit(ones # {})
             [] type = "$reduce_xor"  -> bit(odd)
             [] type = "$reduce_xnor" -> bit(~odd)

logic(type, a, b) ==
  IF ~known(a) \/ (type # "$logic_not" /\ ~known(b)) THEN "x"
  ELSE CASE type = "$logic_not" -> bit(to_u64(a) = 0)
         [] type = "$logic_and" -> bit(to_u64(a) # 0 /\ to_u64(b) # 0)
         [] type = "$logic_or"  -> bit(to_u64(a) # 0 \/ to_u64(b) # 0)

wrapped(n) == n % 2^WordBits

result(type, va, vb) ==
  CASE type = "$add" -> wrapped(va + vb)
    [] type = "$sub" -> wrapped(va - vb)
    [] type = "$mul" -> wrapped(va * vb)
    [] type = "$div" -> IF vb = 0 THEN 0 ELSE va \div vb
    [] type = "$mod" -> IF vb = 0 THEN 0 ELSE va % vb
    [] type \in {"$shl", "$sshl"} -> IF vb >= WordBits THEN 0 ELSE wrapped(va * 2^vb)
    [] type \in {"$shr", "$sshr"} -> IF vb >= WordBits THEN 0 ELSE va \div 2^vb

comparison(type, va, vb) ==
  CASE type = "$eq" -> va = vb
    [] type = "$ne" -> va # vb
    [] type = "$lt" -> va < vb
    [] type = "$le" -> va <= vb
    [] type = "$gt" -> va > vb
    [] type = "$ge" -> va >= vb

mux(a, b, s, width) ==
  IF s = <<>> \/ s[1] = "x" THEN fill("x", width)
  ELSE normalize_width(IF s[1] = "1" THEN b ELSE a, width)

Numeric == Arithmetic \cup Shifts \cup Comparisons

\* Cells whose bits the pass can compute; signed arithmetic is given up.
supported(c) ==
  \/ c.type \in {"$not", "$mux"} \cup Bitwise2 \cup Reductions \cup LogicOps
  \/ c.type \in Numeric /\ ~c.a_signed /\ ~c.b_signed

\* Y of one supported cell whose operands have the values a, b and s.
eval(type, a, b, s, width, masks) ==
  LET p == normalize_width(a, width)
      q == normalize_width(b, width)
      numbers == known(a) /\ known(b)
  IN  CASE type = "$not" -> [i \in 1 .. width |-> logic_not(p[i])]
        [] type \in Bitwise2   -> [i \in 1 .. width |-> bitwise(type, p[i], q[i])]
        [] type \in Reductions -> fill(reduced(type, a), width)
        [] type \in LogicOps   -> fill(logic(type, a, b), width)
        [] type \in Arithmetic \cup Shifts ->
             IF numbers THEN u64_to_bits(result(type, to_u64(a), to_u64(b)), width, masks)
             ELSE fill("x", width)
        [] type \in Comparisons ->
             fill(IF numbers THEN bit(comparison(type, to_u64(a), to_u64(b))) ELSE "x", width)
        [] type = "$mux" -> mux(a, b, s, width)

\* The evaluation fails at a cell it does not support and at a cell it is
\* already evaluating.
evaluable(cells, b) ==
  loop_free(cells, b) /\ \A c \in collect_cone_cells(cells, b) : supported(c)

evaluate(c, a, b, s, masks) == eval(c.type, a, b, s, Len(c.Y), masks)

eval_bit(cells, b, minterm, masks) ==
  value_of(LAMBDA c, p, q, s : evaluate(c, p, q, s, masks), LAMBDA q : bit(q \in minterm), cells, b)

=============================================================================
