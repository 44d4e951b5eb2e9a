----------------------------- MODULE MCCompiler -----------------------------
(* Instances of Compiler: modules with one to three assignments.             *)
EXTENDS Compiler

MCIdents == {"a", "b", "c", "s", "t", "u", "y", "z", "__t1", "__t2"}
Literal(width, value) == [width |-> width, value |-> value]
MCLiterals ==
  [text \in {"0", "2", "1'b1", "2'd2", "2'd3", "3'd5"} |->
     CASE text = "0" -> Literal(0, 0) [] text = "2" -> Literal(0, 2) [] text = "1'b1" -> Literal(1, 1)
       [] text = "2'd2" -> Literal(2, 2) [] text = "2'd3" -> Literal(2, 3) [] text = "3'd5" -> Literal(3, 5)]

-----------------------------------------------------------------------------
\* The text of an expression, with the parentheses that Verilog requires, or
\* with all of them.  Operators of the higher level bind more tightly.

level(node) ==
  CASE node.kind = "ternary" -> 0
    [] node.kind = "binary" ->
         (CASE node.value = "|" -> 1 [] node.value = "^" -> 2 [] node.value = "&" -> 3
            [] node.value \in {"<<", ">>"} -> 4 [] node.value \in {"+", "-"} -> 5 [] node.value = "*" -> 6)
    [] node.kind = "unary" -> 7
    [] OTHER -> 8

RECURSIVE text(_, _, _)
text(node, least, all) ==
  LET inner(i, l) == text(node.operands[i], l, all)
      plain == CASE node.kind = "ternary" -> inner(1, 1) \o <<"?">> \o inner(2, 0) \o <<":">> \o inner(3, 0)
                 [] node.kind = "binary" -> inner(1, level(node)) \o <<node.value>> \o inner(2, level(node) + 1)
                 [] node.kind = "unary" -> <<node.value>> \o inner(1, 8)
                 [] OTHER -> <<node.value>>
  IN  IF level(node) < least \/ (all /\ level(node) < 8) THEN <<"(">> \o plain \o <<")">> ELSE plain

Id(name) == tree("ident", name, <<>>)
Const(c) == tree("const", c, <<>>)
Un(op, x) == tree("unary", op, <<x>>)
Bin(op, x, y) == tree("binary", op, <<x, y>>)
If(x, y, z) == tree("ternary", "?", <<x, y, z>>)

-----------------------------------------------------------------------------

Wires(ns, width) == [i \in DOMAIN ns |-> [name |-> ns[i], width |-> width]]

\* Inputs a, b of two bits and s of one bit, output y of the given width.
Source(assigns, trees_meant, width) ==
  [ports |-> <<"a", "b", "s", "y">>, inputs |-> Wires(<<"a", "b">>, 2) \o Wires(<<"s">>, 1),
   outputs |-> Wires(<<"y">>, width), wires |-> <<>>, assigns |-> assigns, meant |-> trees_meant]
One(t, all, width) == Source(<<[lhs |-> "y", tokens |-> text(t, 0, all)]>>, <<t>>, width)

Ops == {"&", "|", "^", "+", "-", "*", "<<", ">>"}
Pairs == {Bin(op, Id("a"), x) : op \in Ops, x \in {Id("b"), Const("2'd3"), Const("0")}}
Small == Pairs \cup {Un(op, Id("b")) : op \in UnaryOps} \cup {If(Id("s"), Id("a"), Const("2'd3")), Const("2'd2"), Const("3'd5"), Id("a")}
Expressions ==
  {Bin(op, p, q) : op \in Ops, p \in Small, q \in {Id("b")} \cup {Bin(o, Id("b"), Id("s")) : o \in Ops}}
    \cup {Bin(op, Id("b"), p) : op \in Ops, p \in Small}
    \cup {Un(op, p) : op \in UnaryOps, p \in Small}
    \cup {If(c, p, q) : c \in {Id("s"), Bin("|", Id("s"), Const("1'b1")), Id("a")}, p \in Small,
                        q \in {Id("b"), Const("2"), If(Id("s"), Id("b"), Id("a"))}}
    \cup {If(Un("&", p), Id("a"), Id("b")) : p \in Small}
Single == {One(t, all, w) : t \in Expressions, all \in BOOLEAN, w \in {2}}
            \cup {One(t, FALSE, w) : t \in Small, w \in {1, 2, 3}}

\* Any few tokens.
Tokens == UNION {[1 .. n -> {"a", "&", "~", "(", ")", "?", ":"}] : n \in 0 .. 4}
Malformed == {Source(<<[lhs |-> "y", tokens |-> ts]>>, <<>>, 2) : ts \in Tokens}

\* Three assignments in any order over wires t and u, with names of temporaries
\* among the ports or wires, undeclared or repeated names, and missing or repeated
\* ports.
Chain(port, wire, p, q, r, target) ==
  [ports |-> <<"a", "b", "s", port>>, inputs |-> Wires(<<"a", "b">>, 2) \o Wires(<<"s">>, 1),
   outputs |-> Wires(<<port>>, 2), wires |-> Wires(<<wire, "t">>, 2),
   assigns |-> <<[lhs |-> target, tokens |-> text(p, 0, FALSE)],
                 [lhs |-> "t", tokens |-> text(q, 0, FALSE)], [lhs |-> wire, tokens |-> text(r, 0, FALSE)]>>,
   meant |-> <<>>]
Chains ==
  {Chain(port, wire, p, q, r, port) :
     port \in {"y", "__t1", "__t2"}, wire \in {"u", "__t1", "t", "s"},
     p \in {Bin("+", Id("t"), Id("a")), Id("t"), If(Id("s"), Id("u"), Id("t"))},
     q \in {Bin("-", Id("a"), Un("~", Id("b"))), Id("a"), Bin("^", Id("u"), Id("b"))},
     r \in {Bin("*", Id("b"), Id("t")), Id("u"), Const("1'b1")}}
  \cup {Chain("y", "u", Id("t"), Id("a"), Id("b"), target) : target \in {"y", "t", "a", "z"}}
  \cup {[Chain("y", "u", Id("t"), Id("a"), Id("b"), "y") EXCEPT !.ports = p] :
          p \in {<<"a", "b", "y">>, <<"a", "b", "s", "y", "c">>, <<"a", "a", "b", "s", "y">>,
                 <<"y", "s", "b", "a", "y">>, <<"y", "s", "b", "a">>}}

MCSources == Single \cup Malformed \cup Chains
=============================================================================
