----------------------------- MODULE MCRewrite -----------------------------
(* Instances of Rewrite.  Inputs are <<2>> to <<5>>.                          *)
EXTENDS Rewrite

And(y, a, b) == cell("$and", <<a>>, <<b>>, <<y>>)
Or(y, a, b)  == cell("$or", <<a>>, <<b>>, <<y>>)
Not(y, a)    == cell("$not", <<a>>, <<a>>, <<y>>)
Dual(netlist) ==
  {[c EXCEPT !.type = CASE @ = "$and" -> "$or" [] @ = "$or" -> "$and" [] OTHER -> @] :
     c \in netlist}

Net(netlist, outs, n) ==
  [cells |-> netlist, inputs |-> {<<i>> : i \in 2 .. 5},
   outputs |-> {<<x>> : x \in outs}, max_iter |-> n]

\* Two or three products of two literals under one root; an inverter; a product
\* that a second output reads.
Shapes ==
  {{Not(6, 2), And(10, a, b), And(11, c, d), Or(12, 10, 11)} \cup extra :
     a \in {2, 6}, b \in {3, 4}, c \in {1, 2, 6, 10}, d \in {4, 5},
     extra \in {{}} \cup {{And(13, e, 4), Or(14, 12, 13)} : e \in {0, 3, 11}}}

\* ml_algdiv_example of the tests.
AlgdivExample ==
  {And(10, 2, 3), And(11, 10, 4), And(12, 3, 5), And(13, 2, 3), And(14, 2, 5),
   Or(15, 11, 12), Or(16, 13, 14), Or(17, 15, 16)}

Top(netlist) == Max({c.y[1] : c \in netlist})

MCNetlists ==
  {Net(n, {Top(n)}, 32) : n \in Shapes}
    \cup {Net(Dual(n), {Top(n), 10}, 32) : n \in {n \in Shapes : Cardinality(n) > 4}}
    \cup {Net(AlgdivExample, {17}, i) : i \in {1, 32}}
=============================================================================
