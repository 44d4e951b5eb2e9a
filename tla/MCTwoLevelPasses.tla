-------------------------- MODULE MCTwoLevelPasses --------------------------
(* Instances of QmPass and CoverPass, the two passes of my_opt_qm.cc: a      *)
(* script runs one of them on one module.  For my_opt_qm the modules have    *)
(* two to five cells over inputs a, b, c, or one cell of any type; for       *)
(* my_opt_cover three to seven cells over a, b, c.                           *)
EXTENDS QmPass

VARIABLES
  command,          \* the pass that is run
  wires,            \* of CoverPass
  roots_to_remove

CONSTANT CoverModules

\* The passes share what both keep.
Cover == INSTANCE CoverPass WITH
           Modules <- CoverModules, status <- phase, todo <- targets, next <- counter

MCInit ==
  \/ /\ command = "my_opt_qm"
     /\ Init
     /\ wires = <<>> /\ roots_to_remove = {}
  \/ /\ command = "my_opt_cover"
     /\ Cover!Init
     /\ chart = no_chart /\ rewrites = <<>> /\ connected = 0 /\ removals = 0

MCNext ==
  \/ /\ command = "my_opt_qm"
     /\ Next
     /\ UNCHANGED <<command, wires, roots_to_remove>>
  \/ /\ command = "my_opt_cover"
     /\ Cover!Next
     /\ UNCHANGED <<command, chart, rewrites, connected, removals>>

MCSpec == MCInit /\ [][MCNext]_<<vars, command, wires, roots_to_remove>>

-----------------------------------------------------------------------------
\* What the modules state of the pass that is run: see QmPass and CoverPass.

Qm == command = "my_opt_qm"

\* Of my_opt_qm: a bit the pass knows is the bit Yosys computes, and the pass
\* knows the bits of every cell whose operands are defined.
QmEvaluationExact == Qm => KnownIsRight /\ DefinedIsKnown
\* Of my_opt_cover: the outputs keep their functions, and in the end every bit
\* that is read has one driver.
CoverModuleKept == ~Qm => Cover!TypeOK /\ Cover!OneDriver /\ Cover!FunctionKept

-----------------------------------------------------------------------------
Word(n, type, a, b, y) ==
  [name |-> n, type |-> type, A |-> a, B |-> b, S |-> <<>>, Y |-> y,
   a_signed |-> FALSE, b_signed |-> FALSE]
Cell(n, type, a, b, s, y) == [Word(n, type, a, b, y) EXCEPT !.S = s]
Gate(n, type, a, b, y) == Word(n, type, <<a>>, <<b>>, <<y>>)
Not(n, a, y) == Word(n, "$not", <<a>>, <<>>, <<y>>)
QmModule(cs, outs) == [cells |-> cs, outputs |-> outs, max_vars |-> 3, masks |-> FALSE]
CoverModule(cs, outs) == [cells |-> cs, outputs |-> outs, joins |-> <<>>, max_vars |-> 3]

-----------------------------------------------------------------------------
\* my_opt_qm.

\* Two one-bit outputs over three gates, one of which reads the other output,
\* a constant, an undefined bit, or itself (a loop).
Types == {"$and", "$or", "$xor"}
Plain ==
  {QmModule({Gate("g1", t, "a", p, "n"), Gate("g2", u, "n", q, "y"), Gate("g3", "$or", "y", r, "z")}, <<"y", "z">>) :
     t \in Types, u \in Types, p \in {"b", "1"}, q \in {"a", "b", "c", "x", "z"}, r \in {"n", "a"}}

\* An inverter, a $mux and a comparison.
Mixed ==
  {QmModule({Cell("g1", "$not", <<"a">>, <<>>, <<>>, <<"n">>), Cell("g2", "$mux", <<"n">>, <<p>>, <<q>>, <<"y">>),
             Cell("g3", t, <<"a", "b">>, <<p, "c">>, <<>>, <<"z">>)}, <<"y", "z">>) :
     p \in {"a", "b", "0", "x"}, q \in {"a", "c"}, t \in {"$eq", "$lt", "$ne", "$logic_and"}}

\* The outputs are bits of cells with two of them: both bits, or one of them
\* and a gate that reads the other.
Wide(second, third, outs) ==
  QmModule({Cell("w1", "$and", <<"a", "b">>, <<"b", second>>, <<>>, <<"n", "m">>),
            Cell("w2", "$or", <<"n", "m">>, <<"a", third>>, <<>>, <<"y", "z">>),
            Gate("g", "$xor", "z", "c", "u")}, outs)

\* Rewritten as a whole, although a second rewrite finds the root gone.
SharedRoots == {Wide(s, t, <<"y", "z">>) : s \in {"b", "c"}, t \in {"b", "c", "1"}}
Siblings == {Wide("c", "a", <<"y", "u">>), Wide("c", "b", <<"y", "u">>)}

\* Functions of a, b and c with don't-cares, as selections between constants.
Mux(n, a, b, s, y) == Cell(n, "$mux", <<a>>, <<b>>, <<s>>, <<y>>)
Selections ==
  {QmModule({Mux("g1", p, q, "b", "n"), Mux("g2", r, "n", "a", "m"), Mux("g3", t, "m", "c", "y"),
             Gate("g4", "$xor", "y", u, "z")}, <<"y", "z">>) :
     p \in {"0", "1", "x"}, q \in {"0", "1", "x"}, r \in {"0", "1", "x"}, t \in {"b", "a", "1"}, u \in {"a", "1"}}

\* One cell of every type: operands of one to four bits, signed or not, Y of
\* one to six bits.
Unary == {"$not", "$logic_not"} \cup Reductions
Binary == Bitwise2 \cup Comparisons \cup Arithmetic \cup Shifts \cup {"$logic_and", "$logic_or"}
Single(t, la, lb, ls, sa, sb, width) ==
  QmModule({[name |-> "cell", type |-> t, a_signed |-> sa, b_signed |-> sb,
             A |-> SubSeq(<<"a", "b", "c", "v">>, 1, la), B |-> SubSeq(<<"d", "e", "f", "w">>, 1, lb),
             S |-> SubSeq(<<"s">>, 1, ls), Y |-> SubSeq(<<"y1", "y2", "y3", "y4", "y5", "y6">>, 1, width)]},
      <<"y1">>)
Singles ==
  {Single(t, la, 0, 0, sa, FALSE, w) : t \in Unary, la \in 1 .. 3, sa \in BOOLEAN, w \in 1 .. 3}
    \cup {Single(t, la, lb, 0, sa, sa, w) :
            t \in Binary, la \in 1 .. 2, lb \in 1 .. 2, sa \in BOOLEAN, w \in 1 .. 3}
    \cup {Single(t, 3, 3, 0, FALSE, sb, w) : t \in Binary, sb \in BOOLEAN, w \in {2, 4}}
    \cup {[Single(t, la, 3, 0, FALSE, FALSE, w) EXCEPT !.masks = k] :
            t \in Arithmetic \cup Shifts, la \in {3, 4}, w \in {5, 6}, k \in BOOLEAN}
    \cup {Single("$mux", w, w, 1, FALSE, FALSE, w) : w \in 1 .. 2}

QmModules == Plain \cup Mixed \cup Selections \cup SharedRoots \cup Siblings \cup Singles

-----------------------------------------------------------------------------
\* my_opt_cover.

\* Two roots, the second one over the first one and visited before or after it.
Two(t, p, q, r, u) ==
  <<Not("g0", "a", "n"), Gate("g1", t, "a", p, "s"), Gate("g2", "$and", "n", q, "t"),
    Gate("g3", "$or", "s", "t", "z"), Gate("g4", u, "z", r, "v"), Gate("g5", "$or", "z", "v", "y")>>
Reversed(cs) == [i \in DOMAIN cs |-> cs[Len(cs) + 1 - i]]
Nested ==
  UNION {{CoverModule(Two(t, p, q, r, u), <<"z", "y">>), CoverModule(Reversed(Two(t, p, q, r, u)), <<"y", "z">>)} :
     t \in {"$and", "$xor"}, p \in {"b", "1", "0", "x"}, q \in {"b", "c", "y"}, r \in {"s", "c", "n"}, u \in {"$and", "$or"}}

\* Roots whose products have inverted constants, opposite literals, or read a
\* bit of a word; t is another name of c.
Constants ==
  {[CoverModule(<<Not("g1", p, "k"), Not("g2", "a", "n"), Word("w", "$and", <<"a", "b">>, <<"t", "c">>, <<"s", "u">>),
                  Gate("g3", "$and", q, "k", "v"), Gate("g4", "$or", "v", r, "z"), Gate("g5", "$and", "z", "s", "o"),
                  Gate("g6", "$or", "o", "z", "y")>>, <<"y", "z", "u">>) EXCEPT !.joins = << <<"t", "c">> >>] :
     p \in {"0", "1", "x", "n", "b"}, q \in {"a", "n", "s"}, r \in {"n", "a", "t", "k"}}

\* Words where single bits are expected.
Words ==
  {CoverModule(<<Word("w", t, <<"a", "b">>, <<"c">>, y), Gate("g1", "$and", "a", y[1], "s"),
                 Gate("g2", "$or", "s", y[1], "z"), Gate("g3", "$or", "a", "z", "v")>>, <<"z", "v">>) :
     t \in {"$and", "$or", "$not"}, y \in {<<"p">>, <<"p", "q">>}}

MCCoverModules == Nested \cup Constants \cup Words
=============================================================================
