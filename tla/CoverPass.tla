------------------------------ MODULE CoverPass ------------------------------
(***************************************************************************)
(* my_opt_cover on one module: every $or with a one-bit output is a root.  *)
(* The $or, $and and $not cells under it are read as a sum of products,    *)
(* over bits where the reading stops; the products are minimized, and the  *)
(* root is rebuilt if that is cheaper.  The output of the root is          *)
(* connected to the new cells at once, while the root stays in the module  *)
(* until all roots were visited: a later root may read an output that two  *)
(* cells drive by then.  Aliases are those of the start of the pass; the   *)
(* index of the drivers follows the connections.  The minimization itself  *)
(* is CoverMinimize; here a root takes any cover by irredundant primes.    *)
(***************************************************************************)
EXTENDS SigMap, SumOfProducts

Cone == INSTANCE Cones

CONSTANT Modules   \* [cells (in their order), outputs, joins, max_vars (1 .. 20)]

VARIABLES
  module,    \* the module as it was
  status,    \* "VISIT", "DONE"
  cells,
  wires,     \* the aliases now
  todo,      \* roots not visited yet
  roots_to_remove,
  next       \* numbers the new wires and cells

vars == <<module, status, cells, wires, todo, roots_to_remove, next>>

-----------------------------------------------------------------------------

\* Connections the module has at first: pairs of bits.
sigmap ==
  LET joins == module.joins
      map[i \in 0 .. Len(joins)] ==
        IF i = 0 THEN <<>> ELSE LET before == map[i - 1] IN joined(before, joins[i][1], joins[i][2])
  IN  map[Len(joins)]

flat(b) == alias(sigmap, b)

\* The cells that drive a bit by the index.  It does not hold constants.
index_drivers(b) ==
  LET now == alias(wires, b)
  IN  {c \in Range(cells) : now \notin Bit /\ now \in Range(aliases(wires, c.Y))}

\* The one cell that drives bit b, if b is all of its output.
cover_driver_cell(b) ==
  LET found == index_drivers(b)
  IN  IF Cardinality(found) = 1 THEN {c \in found : aliases(sigmap, c.Y) = <<b>>} ELSE {}

\* A term of the sum: a cube, and whether it is constantly 0.
Term(pos, neg, zero) == [pos |-> pos, neg |-> neg, zero |-> zero]

cover_literal(b, neg) ==
  IF b \in {"0", "1"} THEN Term({}, {}, b = bit(neg))
  ELSE IF neg THEN Term({}, {b}, FALSE) ELSE Term({b}, {}, FALSE)

\* The product of two terms; a literal met with both signs makes it 0.
product(p, q) ==
  LET pos == p.pos \cup q.pos
      neg == p.neg \cup q.neg
  IN  Term(pos, neg, p.zero \/ q.zero \/ pos \cap neg # {})

\* The readings give a sequence of terms, which is empty if they fail: at a
\* word, and at a cell that is being read already.
RECURSIVE cover_collect_product(_, _)
cover_collect_product(sig, seen) ==
  IF Len(sig) # 1 THEN <<>>
  ELSE LET b == flat(sig[1])
           found == cover_driver_cell(b)
           driver == CHOOSE c \in found : TRUE
           of(port) == cover_collect_product(port, seen \cup {driver.name})
       IN  CASE found = {} -> <<cover_literal(b, FALSE)>>
             [] found # {} /\ driver.name \in seen -> <<>>
             [] found # {} /\ driver.name \notin seen /\ driver.type = "$and" ->
                  LET p == of(driver.A)
                      q == of(driver.B)
                  IN  IF <<>> \in {p, q} THEN <<>> ELSE <<product(p[1], q[1])>>
             [] found # {} /\ driver.name \notin seen /\ driver.type = "$not" ->
                  IF Len(driver.A) # 1 THEN <<>> ELSE <<cover_literal(flat(driver.A[1]), TRUE)>>
             [] OTHER -> <<cover_literal(b, FALSE)>>

RECURSIVE cover_collect_sop(_, _)
cover_collect_sop(sig, seen) ==
  IF Len(sig) # 1 THEN <<>>
  ELSE LET found == {c \in cover_driver_cell(flat(sig[1])) : c.type = "$or"}
           driver == CHOOSE c \in found : TRUE
           of(port) == cover_collect_sop(port, seen \cup {driver.name})
       IN  IF found = {} THEN cover_collect_product(sig, {})
           ELSE IF driver.name \in seen \/ <<>> \in {of(driver.A), of(driver.B)} THEN <<>>
           ELSE of(driver.A) \o of(driver.B)

cubes_of(terms) == {[pos |-> t.pos, neg |-> t.neg] : t \in {u \in Range(terms) : ~u.zero}}

cover_build_support(terms) == UNION {literals(c) : c \in cubes_of(terms)}

cover_terms_to_on_set(terms) ==
  {m \in SUBSET cover_build_support(terms) : \E c \in cubes_of(terms) : covers(c, m)}

cover_matrix_cost(terms) ==
  64 * Len(terms) + MapThenSumSet(LAMBDA i : IF terms[i].zero THEN 0 ELSE Cardinality(literals(terms[i])), DOMAIN terms)

\* The contract of cover_matrix_minimize (CoverMinimize: FunctionPreserved,
\* ResultPrimeIrredundant): primes that cover the on-set, none of them in vain.
minimized(terms) ==
  LET on == cover_terms_to_on_set(terms)
      covered(cover) == {m \in on : \E c \in cover : covers(c, m)}
      all == {cover \in SUBSET primes(on, {}, cover_build_support(terms)) : covered(cover) = on}
  IN  {cover \in all : \A c \in cover : covered(cover \ {c}) # on}

\* The covers a root may be rebuilt from.
candidates(root) ==
  LET y     == aliases(sigmap, root.Y)
      terms == cover_collect_sop(y, {})
      support == cover_build_support(terms)
  IN  IF Len(y) # 1 \/ Len(terms) < 2 \/ Cardinality(support) \notin 1 .. module.max_vars THEN {}
      ELSE {cover \in minimized(terms) : sop_cost(cover) < cover_matrix_cost(terms)}

cover_build_sop(cover, n) == build_sop(cover, n)

-----------------------------------------------------------------------------

Init ==
  /\ module \in Modules
  /\ status = "VISIT"
  /\ cells = module.cells
  /\ wires = sigmap
  /\ todo = SelectSeq(module.cells, LAMBDA c : c.type = "$or")
  /\ roots_to_remove = {}
  /\ next = 1

RewriteRoot ==
  /\ status = "VISIT"
  /\ todo # <<>>
  /\ \E cover \in candidates(todo[1]) :
       LET net == cover_build_sop(cover, next)
       IN  /\ cells' = cells \o SetToSeq(net.cells)
           /\ wires' = connect(wires, aliases(sigmap, todo[1].Y), net.bits)
           /\ next' = net.next
  /\ roots_to_remove' = roots_to_remove \cup {todo[1].name}
  /\ todo' = Tail(todo)
  /\ UNCHANGED <<module, status>>

\* The root stays also where the minimizer misses a cheaper cover.
KeepRoot ==
  /\ status = "VISIT"
  /\ todo # <<>>
  /\ todo' = Tail(todo)
  /\ UNCHANGED <<module, status, cells, wires, roots_to_remove, next>>

\* Faulty variant: the roots stay.
RemoveRoots_kept ==
  /\ status = "VISIT"
  /\ todo = <<>>
  /\ status' = "DONE"
  /\ UNCHANGED <<module, cells, wires, todo, roots_to_remove, next>>

RemoveRoots ==
  /\ status = "VISIT"
  /\ todo = <<>>
  /\ cells' = SelectSeq(cells, LAMBDA c : c.name \notin roots_to_remove)
  /\ status' = "DONE"
  /\ UNCHANGED <<module, wires, todo, roots_to_remove, next>>

Terminated == status = "DONE" /\ UNCHANGED vars

Next == RewriteRoot \/ KeepRoot \/ RemoveRoots \/ Terminated

Spec == Init /\ [][Next]_vars

-----------------------------------------------------------------------------

original == {mapped(sigmap, c) : c \in Range(module.cells)}
netlist == {mapped(wires, c) : c \in Range(cells)}
outputs == Range(aliases(sigmap, module.outputs))

read_bits(cs) == UNION {Cone!operands(c) : c \in cs}

inputs == {b \in read_bits(original) \cup outputs : b \notin Bit /\ Cone!drivers(original, b) = {}}

acyclic == \A c \in original : c \notin Cone!cone_of(original, Cone!feeders(original, c))

reference(c, a, b, s) == eval_cell(c.type, a, b, s, c.a_signed, c.b_signed, Len(c.Y))
leaf(m, q) == IF q \in inputs THEN bit(q \in m) ELSE "x"

Before(b, m) == Cone!value_of(reference, LAMBDA q : leaf(m, q), original, b)
After(b, m) == Cone!value_of(reference, LAMBDA q : leaf(m, q), netlist, alias(wires, b))

-----------------------------------------------------------------------------
\* The new cells are added to the old ones, and the roots to remove are $or
\* cells of the module that were visited.
TypeOK ==
  /\ status \in {"VISIT", "DONE"}
  /\ \A i, j \in DOMAIN cells : cells[i].name = cells[j].name => i = j
  /\ \A c \in Range(module.cells) : c.name \notin roots_to_remove => c \in Range(cells)
  /\ \A c \in Range(module.cells) : c.name \in roots_to_remove => c.type = "$or" /\ c \notin Range(todo)

\* The outputs keep their functions, also those of roots that were read when
\* a root under them had been replaced but not removed.
FunctionKept ==
  status = "DONE" /\ acyclic =>
    \A b \in outputs, m \in SUBSET inputs : Before(b, m) \in {"x", After(b, m)}

\* When the pass ends each bit that is read is a constant, an input, or driven
\* by exactly one cell; the two drivers a replaced root had are gone.
OneDriver ==
  status = "DONE" /\ acyclic =>
    \A b \in read_bits(netlist) \cup Range(aliases(wires, module.outputs)) :
      b \in Bit \cup inputs \/ Cardinality(Cone!drivers(netlist, b)) = 1

=============================================================================
