---------------------------- MODULE MCLocalPasses ----------------------------
(* Instances of LocalPasses: modules of one to six cells over inputs a, b, c. *)
EXTENDS LocalPasses

Cell(n, type, a, b, s, y) ==
  [name |-> n, type |-> type, A |-> a, B |-> b, S |-> s, Y |-> y,
   a_signed |-> FALSE, b_signed |-> FALSE]
Gate(n, type, a, b, y) == Cell(n, type, <<a>>, <<b>>, <<>>, <<y>>)
Mod(cs, outs, passes) == [cells |-> cs, outputs |-> outs, script |-> passes]

local_passes == <<"my_opt_expr", "my_opt_strength", "my_opt_cse">>
folds == <<"my_opt_muxtree", "my_opt_reduce", "my_opt_expr">>

\* Two gates in a row, in both orders, the second one in a loop if q is "y".
Types == {"$and", "$or", "$xor"}
Gates ==
  UNION {LET f == Gate("g1", t, "a", p, "n")
             g == Gate("g2", u, q, "n", "y")
         IN  {Mod(<<f, g>>, <<"y", "n">>, <<"my_opt_expr">> \o local_passes), Mod(<<g, f>>, <<"y">>, local_passes)} :
           t \in Types, u \in Types, p \in {"0", "1", "x", "b"}, q \in {"1", "b", "y"}}

\* Selections whose selects are reductions of constants, and words of two bits.
Selects ==
  {Mod(<<Cell("r", t, <<p, q>>, <<>>, <<>>, <<"s">>), Cell("n", "$not", <<"s">>, <<>>, <<>>, <<"t">>),
         Cell("p", "$pmux", <<"a">>, <<"b", "c">>, <<"s", v>>, <<"y">>),
         Cell("m", "$mux", <<"a", "t">>, <<"y", "s">>, <<w>>, <<"u", "v">>)>>,
       <<"u", "v">>, folds \o folds) :
     t \in Reductions, p \in {"0", "1", "x"}, q \in {"0", "1", "x"}, v \in {"0", "1", "x", "t"}, w \in {"s", "t"}}

\* A product of a word of two bits and a constant, signed or not.
Product(a, b, y, sign) ==
  Mod(<<[Cell("m", "$mul", a, b, <<>>, y) EXCEPT !.a_signed = sign, !.b_signed = sign]>>, y,
      <<"my_opt_strength", "my_opt_cse">>)
Word == <<"a", "b">>
Products ==
  {Product(Word, k, y, sign) : k \in {<<"0", "1">>, <<"1", "1", "1">>, <<"0", "0", "1">>, <<"x", "1">>},
     y \in {<<"y">>, <<"y", "z", "u">>, <<"y", "z", "u", "v">>}, sign \in BOOLEAN}
  \cup {Product(k, Word, <<"y", "z", "u">>, FALSE) : k \in {<<"0", "0">>, <<"1", "0">>, <<"1", "0", "1">>, <<"c", "1">>}}

\* Equal cells that become equal only after the merge of others.
Chains ==
  {Mod(<<Gate("g1", t, "a", "b", "n1"), Gate("g2", t, q, p, "n2"),
         Gate("g3", u, "n1", "c", "m1"), Gate("g4", u, "c", "n2", "m2"),
         Cell("g5", "$not", <<"m1">>, <<>>, <<>>, <<"y">>), Cell("g6", "$not", <<"m2">>, <<>>, <<>>, <<"z">>)>>,
       <<"y", "z">>, <<"my_opt_cse", "my_opt_cse", "my_opt_cse", "my_opt_cse">>) :
     t \in {"$and", "$sub"}, u \in {"$xor", "$shl"}, p \in {"a", "b"}, q \in {"a", "b"}}

\* A flip-flop, whose output q is an input of the logic.
OfRegister(pass) ==
  Mod(<<Cell("ff", "$dff", <<>>, <<>>, <<>>, <<>>), Gate("g", "$and", "q", "1", "d")>>, <<"d">>, <<pass>>)
Registers == {OfRegister(pass) : pass \in Passes}

MCModules == Gates \cup Selects \cup Products \cup Chains \cup Registers
=============================================================================
