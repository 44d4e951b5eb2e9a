------------------------------- MODULE Rewrite -------------------------------
(***************************************************************************)
(* my_opt_rewrite, my_opt_kernel and my_opt_algdiv on one module: the same *)
(* loop under three names.  Every iteration indexes the module anew, takes *)
(* the first cell whose sum of products ($or root) or product of sums      *)
(* ($and root) can be factored with a gain, builds the factored form out   *)
(* of new cells, and removes the root only.  The rest of the old cone      *)
(* stays in the module until a later pass removes dead cells.              *)
(*                                                                         *)
(* A signal is one bit: a constant, an input, or the output of a cell; its *)
(* name is a sequence of numbers.  Ports that are no single bit make the   *)
(* code give up on a root and are left out.                                *)
(***************************************************************************)
EXTENDS Algebra, SequencesExt

CONSTANTS Netlists,          \* records with the fields cells, inputs, outputs, max_iter
          MaxKernelLiterals  \* -max_kernel_literals

VARIABLES
  original,    \* the module as the pass found it
  cells,       \* records with the fields type, a, b and y; b = a for $not
  iter,
  total_gain,
  phase

vars == <<original, cells, iter, total_gain, phase>>

Zero == <<0>>
One == <<1>>
Constants == {Zero, One}

-----------------------------------------------------------------------------
\* From a root to its cover.

operands(cell) == {cell.a, cell.b}
driven(netlist) == {c.y : c \in netlist}

\* Some cell of any set of cells reads none of them: there is no loop.
loop_free(netlist) ==
  \A S \in SUBSET netlist : S # {} => \E c \in S : operands(c) \cap driven(S) = {}

\* A module is finite and without loops, and what it reads has one driver or is an
\* input or a constant; names that the pass makes (NEW_ID) are longer than its own.
ASSUME NetlistsAssumption ==
  \A n \in Netlists :
    LET sources == n.inputs \cup Constants
    IN  /\ IsFiniteSet(n.cells)
        /\ n.cells \subseteq [type : {"$and", "$or", "$not"}, a : Seq(Nat), b : Seq(Nat), y : Seq(Nat)]
        /\ \A c, d \in n.cells : c.y = d.y => c = d
        /\ n.outputs \cup UNION {operands(c) : c \in n.cells} \subseteq driven(n.cells) \cup sources
        /\ driven(n.cells) \cap sources = {} /\ n.inputs \cap Constants = {}
        /\ \A x \in driven(n.cells) \cup n.inputs : x \in Seq(Nat) /\ Len(x) = 1
        /\ loop_free(n.cells)
        /\ n.max_iter \in Nat

\* The signals met when cells of one type are followed backwards from a signal.
closure(netlist, type, sig) ==
  LET reach[n \in Nat] ==
        IF n = 0 THEN {sig}
        ELSE LET S == reach[n - 1]
             IN  S \cup UNION {operands(c) : c \in {d \in netlist : d.type = type /\ d.y \in S}}
  IN  reach[Cardinality(netlist)]

inner_cells(netlist, type, sig) ==
  LET met == closure(netlist, type, sig)
  IN  {c \in netlist : c.type = type /\ c.y \in met}
leaves(netlist, type, sig) ==
  LET inner == {c.y : c \in inner_cells(netlist, type, sig)}
  IN  {x \in closure(netlist, type, sig) : x \notin inner}

\* `seen': the recursion meets a cell it is still working on.
loop(netlist, type, sig) ==
  \E c \in inner_cells(netlist, type, sig) :
    \E x \in operands(c) : c.y \in closure(netlist, type, x)

\* A leaf as a literal; an inverter is looked through once.
literal(netlist, leaf) ==
  IF \E c \in netlist : c.type = "$not" /\ c.y = leaf
  THEN <<(CHOOSE c \in netlist : c.type = "$not" /\ c.y = leaf).a, TRUE>>
  ELSE <<leaf, FALSE>>

\* add_literal: a constant that makes an $and 0 makes the cube zero, the other
\* constant adds nothing, and so does a literal that is there already.
add_literals(literals) ==
  [literals |-> {l \in literals : l[1] \notin Constants},
   zero     |-> \/ ~consistent(literals)
                \/ \E l \in literals : l[1] \in Constants /\ (l[1] = One) = l[2]]

collect_term(netlist, child_op, sig) ==
  add_literals({literal(netlist, leaf) : leaf \in leaves(netlist, child_op, sig)})

\* collect_cover with normalize_cover.
collect_cover(netlist, root_op, child_op, sig) ==
  {t.literals : t \in {t \in {collect_term(netlist, child_op, leaf) :
                                leaf \in leaves(netlist, root_op, sig)} : ~t.zero}}

collectable(netlist, root_op, child_op, sig) ==
  /\ ~loop(netlist, root_op, sig)
  /\ \A leaf \in leaves(netlist, root_op, sig) : ~loop(netlist, child_op, leaf)

root_op(cell) == cell.type
child_op(cell) == IF cell.type = "$or" THEN "$and" ELSE "$or"

cover_of(netlist, cell) ==
  collect_cover(netlist, root_op(cell), child_op(cell), cell.y)

\* The factorizations of a root, none if it is no candidate.
find_rewrite_candidate(netlist, cell, max_literals) ==
  LET cover == cover_of(netlist, cell)
  IN  IF /\ cell.type \in {"$and", "$or"}
         /\ collectable(netlist, root_op(cell), child_op(cell), cell.y)
         /\ Cardinality(cover) >= 2
      THEN find_best_candidate(cover, max_literals)
      ELSE {}

-----------------------------------------------------------------------------
\* From a factorization back to cells.  A piece of the new logic is a record of its
\* cells and its output; `at' is the prefix of the names (NEW_ID) of its signals.

cell(type, a, b, y) == [type |-> type, a |-> a, b |-> b, y |-> y]

build_literal(lit, at) ==
  IF lit[2] THEN [net |-> {cell("$not", lit[1], lit[1], at \o <<0>>)}, out |-> at \o <<0>>]
  ELSE [net |-> {}, out |-> lit[1]]

\* A sequence of pieces joined by a chain of binary cells.
join(type, pieces, at) ==
  LET n == Len(pieces)
      accum[i \in 1 .. n] == IF i = 1 THEN pieces[1].out ELSE at \o <<i>>
  IN  [net |-> {cell(type, accum[i - 1], pieces[i].out, accum[i]) : i \in 2 .. n}
                 \cup UNION {pieces[i].net : i \in 1 .. n},
       out |-> accum[n]]

identity(op) == [net |-> {}, out |-> IF op = "$and" THEN One ELSE Zero]

build_cube(cube, child, at) ==
  LET lits == SetToSeq(cube)
  IN  IF cube = {} THEN identity(child)
      ELSE join(child, [i \in 1 .. Len(lits) |-> build_literal(lits[i], at \o <<i>>)], at)

build_cubes(cover, child, at) ==
  LET cubes == SetToSeq(cover)
  IN  [i \in 1 .. Len(cubes) |-> build_cube(cubes[i], child, at \o <<i>>)]

build_cover(cover, root, child, at) == join(root, build_cubes(cover, child, at), at)

\* Faulty variant: the two factors are joined like the terms.
build_product_by_root_op(factor, root, child, at) ==
  join(root, <<build_cover(factor.quotient, root, child, at \o <<1>>),
               build_cover(factor.divisor, root, child, at \o <<2>>)>>, at)

build_product(factor, root, child, at) ==
  CASE is_child_identity(factor.quotient) -> build_cover(factor.divisor, root, child, at)
    [] is_child_identity(factor.divisor)  -> build_cover(factor.quotient, root, child, at)
    [] OTHER -> join(child, <<build_cover(factor.quotient, root, child, at \o <<1>>),
                              build_cover(factor.divisor, root, child, at \o <<2>>)>>, at)

build_factored(factor, root, child, at) ==
  join(root, build_cubes(factor.remainder, child, at \o <<1>>)
               \o <<build_product(factor, root, child, at \o <<2>>)>>, at)

\* apply_rewrite_candidate: the last new cell takes the place of the root.  (A
\* factorization with a gain always ends with a new cell; connecting its output
\* to y makes the two wires one.)
apply(netlist, root, factor, at) ==
  LET built == build_factored(factor, root_op(root), child_op(root), at)
  IN  (netlist \ {root})
        \cup {IF c.y = built.out THEN [c EXCEPT !.y = root.y] ELSE c : c \in built.net}

-----------------------------------------------------------------------------

Init ==
  /\ original \in Netlists
  /\ cells = original.cells
  /\ iter = 0 /\ total_gain = 0
  /\ phase = "LOOP"

\* One iteration.  The first candidate in the order of the module's cells is
\* taken, which is that of a hash table.
RewriteRoot ==
  /\ phase = "LOOP" /\ iter < original.max_iter
  /\ \E root \in cells :
       \E factor \in find_rewrite_candidate(cells, root, MaxKernelLiterals) :
         /\ cells' = apply(cells, root, factor, <<iter + 1>>)
         /\ total_gain' = total_gain + factor.gain
  /\ iter' = iter + 1
  /\ UNCHANGED <<original, phase>>

nothing_left ==
  \A root \in cells : find_rewrite_candidate(cells, root, MaxKernelLiterals) = {}

\* Faulty variant: a root that is no candidate ends the search.
NothingLeft_first_root ==
  /\ phase = "LOOP" /\ iter < original.max_iter
  /\ \E root \in cells : find_rewrite_candidate(cells, root, MaxKernelLiterals) = {}
  /\ phase' = "DONE"
  /\ UNCHANGED <<original, cells, iter, total_gain>>

\* The last iteration finds nothing.
NothingLeft ==
  /\ phase = "LOOP" /\ iter < original.max_iter /\ nothing_left
  /\ phase' = "DONE"
  /\ UNCHANGED <<original, cells, iter, total_gain>>

IterationsUsed ==
  /\ phase = "LOOP" /\ iter = original.max_iter
  /\ phase' = "DONE"
  /\ UNCHANGED <<original, cells, iter, total_gain>>

Terminated == phase = "DONE" /\ UNCHANGED vars

Next == RewriteRoot \/ NothingLeft \/ IterationsUsed \/ Terminated

Spec == Init /\ [][Next]_vars

-----------------------------------------------------------------------------

\* What the signals of a netlist without loops compute.
Values(netlist, input) ==
  LET signals == Constants \cup DOMAIN input \cup UNION {operands(c) \cup {c.y} : c \in netlist}
      value[x \in signals] ==
        IF x \in Constants THEN x = One
        ELSE IF x \in DOMAIN input THEN input[x]
        ELSE LET c == CHOOSE c \in netlist : c.y = x
             IN  CASE c.type = "$and" -> value[c.a] /\ value[c.b]
                   [] c.type = "$or"  -> value[c.a] \/ value[c.b]
                   [] c.type = "$not" -> ~value[c.a]
  IN  value

live(netlist) ==
  LET reach[n \in Nat] ==
        IF n = 0 THEN original.outputs
        ELSE LET S == reach[n - 1]
             IN  S \cup UNION {operands(c) : c \in {d \in netlist : d.y \in S}}
  IN  {c \in netlist : c.y \in reach[Cardinality(netlist)]}

\* Every signal has one driver, and whatever is read is driven: new cells do not
\* collide with old ones, and the cone of a removed root stays complete.
TypeOK ==
  /\ original \in Netlists
  /\ cells \subseteq [type : {"$and", "$or", "$not"}, a : Seq(Nat), b : Seq(Nat), y : Seq(Nat)]
  /\ Cardinality(driven(cells)) = Cardinality(cells)
  /\ original.outputs \cup UNION {operands(c) : c \in cells}
       \subseteq driven(cells) \cup original.inputs \cup Constants
  /\ iter \in 0 .. original.max_iter /\ total_gain \in Nat
  /\ phase \in {"LOOP", "DONE"}

same_function(old_cells, new_cells) ==
  \A input \in [original.inputs -> BOOLEAN] :
    LET old == Values(old_cells, input)
        new == Values(new_cells, input)
    IN  \A x \in driven(old_cells) \cap driven(new_cells) : new[x] = old[x]

\* Some product of sums has a constant among its literals, which add_literal treats
\* as it would in a sum of products.
constant_in_sums(netlist) ==
  \E c \in {d \in netlist : d.type = "$and"} :
    \E sum \in leaves(netlist, "$and", c.y) :
      \E leaf \in leaves(netlist, "$or", sum) : literal(netlist, leaf)[1] \in Constants

\* An iteration keeps the function of every signal of the module, whatever root
\* and whatever factorization is taken, unless a product of sums has a constant;
\* every signal keeps its only driver.
FunctionKept ==
  [][TypeOK' /\ (~constant_in_sums(cells) => same_function(cells, cells'))]_vars

\* The division behind each candidate is exact: quotient times divisor gives
\* cubes of the dividend only, and the rest is the remainder.
DivisionExact ==
  \A root \in {c \in cells : c.type \in {"$and", "$or"}} :
    LET cover == cover_of(cells, root)
    IN  \A f \in candidates(cover, MaxKernelLiterals) :
          LET products == covered_products(f.quotient, f.divisor)
          IN  /\ products \cap f.remainder = {}
              /\ products \cup f.remainder = cover
              /\ \A cube \in products : consistent(cube)

\* The size of the logic that the outputs need, in the terms of the estimate: its
\* binary gates and the literals they read.
pins(netlist) == {p \in netlist \X {"a", "b"} : p[1].type # "$not" \/ p[2] = "a"}
read_at(pin) == IF pin[2] = "a" THEN pin[1].a ELSE pin[1].b
gates(netlist) == {c \in netlist : c.type # "$not"}
size(netlist) ==
  LET gate == gates(live(netlist))
  IN  Cardinality(gate)
        + Cardinality({p \in pins(gate) : read_at(p) \notin driven(gate) \cup Constants})

\* No intermediate result has two readers.
fanout_free(netlist) ==
  \A x \in driven(netlist) :
    Cardinality({p \in pins(netlist) : read_at(p) = x})
      + (IF x \in original.outputs THEN 1 ELSE 0) <= 1

\* The gain that the pass claims for a root is real: the logic the outputs need gets
\* smaller by that much, where intermediate results have one reader.  (Where they
\* have more, the old cone stays for the other readers and the gain may be none.)
GainIsReal ==
  [][live(cells') # live(cells) /\ fanout_free(live(cells))
       => size(cells) - size(cells') >= total_gain' - total_gain]_vars

\* Roots are searched again after each rewriting, the cells of old cones
\* included, and yet the loop runs out of candidates before it runs out of
\* iterations (-max_iter is 32 by default).
EndsByItself == original.max_iter = 32 /\ phase = "DONE" => nothing_left

=============================================================================
