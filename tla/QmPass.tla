------------------------------- MODULE QmPass -------------------------------
(***************************************************************************)
(* my_opt_qm on one module: every output bit is evaluated for all minterms *)
(* of its support, minimized, and rebuilt as a sum of products when that   *)
(* is cheaper than its cone.  The new cells are added at once; the output  *)
(* bits are connected to them, and their old root cells removed, only      *)
(* after all bits were examined.  QmMinimize has the steps of the          *)
(* minimization; here the primes and the search are what it shows they     *)
(* are, and the prime chart is simplified round by round, as in the code.  *)
(***************************************************************************)
EXTENDS ConeEval, SumOfProducts

CONSTANT Modules   \* [cells, outputs (in the order of the pass), max_vars, masks]

ASSUME ModulesAssumption ==
  \A m \in Modules : m.max_vars \in 1 .. 12 /\ IsInjective(m.outputs)

VARIABLES
  module,     \* the module as it was (the driver index of the pass is its)
  phase,
  targets,    \* output bits still to be examined
  chart,      \* the prime chart of the first of them
  cells,      \* the cells of the module now
  rewrites,   \* the rewrites decided: output bit, replacement, old root
  connected,  \* how many of them are connected
  removals,   \* how many of them had their root removed
  counter     \* numbers the new wires and cells

vars == <<module, phase, targets, chart, cells, rewrites, connected, removals, counter>>

-----------------------------------------------------------------------------
\* The prime chart: its columns, its rows, the columns selected so far, and,
\* for the properties, whether twins were ever met: two columns, or two rows,
\* that remove each other.

columns_of(row, columns) == {p \in columns : covers(p, row)}
rows_of(column, rows) == {m \in rows : covers(column, m)}

select_essential(pc) ==
  LET only(m) == Cardinality(columns_of(m, pc.columns)) = 1
      essential == UNION {columns_of(m, pc.columns) : m \in {k \in pc.rows : only(k)}}
  IN  [pc EXCEPT !.rows = {m \in @ : columns_of(m, essential) = {}}, !.selected = @ \cup essential]

drop_useless(pc) == [pc EXCEPT !.columns = {p \in @ : rows_of(p, pc.rows) # {}}]

drop_columns(pc) ==
  LET dominates(i, j) == /\ i # j
                         /\ rows_of(j, pc.rows) \subseteq rows_of(i, pc.rows)
                         /\ Cardinality(literals(i)) <= Cardinality(literals(j))
  IN  [pc EXCEPT !.columns = {j \in @ : \A i \in @ : ~dominates(i, j)},
                 !.twins = @ \/ \E i, j \in pc.columns : dominates(i, j) /\ dominates(j, i)]

drop_rows(pc) ==
  LET dominates(i, j) == i # j /\ columns_of(i, pc.columns) \subseteq columns_of(j, pc.columns)
  IN  [pc EXCEPT !.rows = {j \in @ : \A i \in @ : ~dominates(i, j)},
                 !.twins = @ \/ \E i, j \in pc.rows : dominates(i, j) /\ dominates(j, i)]

\* Every minterm that is left is covered.
complete_covers(pc) ==
  {pc.selected \cup more :
     more \in {S \in SUBSET pc.columns : \A m \in pc.rows : columns_of(m, S) # {}}}

estimate_network_cost(cover) ==
  MapThenSumSet(LAMBDA c : Cardinality(c.neg) + Max({Cardinality(literals(c)), 1}) - 1, cover)
    + Max({Cardinality(cover), 1}) - 1

-----------------------------------------------------------------------------

no_chart == [on_set |-> {}, columns |-> {}, rows |-> {}, selected |-> {}, twins |-> FALSE]

Init ==
  /\ module \in Modules
  /\ phase = "EXAMINE"
  /\ targets = module.outputs
  /\ chart = no_chart
  /\ cells = module.cells
  /\ rewrites = <<>>
  /\ connected = 0 /\ removals = 0
  /\ counter = 1

known_value(b, m) == eval_bit(module.cells, b, m, module.masks)

table(b, value) == {m \in SUBSET support(module.cells, b) : known_value(b, m) = value}

has_table(b) ==
  /\ evaluable(module.cells, b)
  /\ Cardinality(support(module.cells, b)) \in 1 .. module.max_vars

\* optimize_output_bit gets the truth table and its primes ...
MakeChart ==
  /\ phase = "EXAMINE"
  /\ targets # <<>> /\ has_table(Head(targets))
  /\ \E on \in {table(Head(targets), "1")}, dc \in {table(Head(targets), "x")} :
       chart' = [no_chart EXCEPT !.columns = primes(on, dc, support(module.cells, Head(targets))),
                                 !.rows = on, !.on_set = on]
  /\ phase' = "SIMPLIFY"
  /\ UNCHANGED <<module, targets, cells, rewrites, connected, removals, counter>>

\* ... simplifies the chart until nothing changes ...
SimplifyChart ==
  /\ phase = "SIMPLIFY"
  /\ \E c \in {drop_useless(d) : d \in {select_essential(chart)}} : \E d \in {drop_columns(c)} :
       chart' = drop_rows(d)
  /\ phase' = IF chart' = chart THEN "COVER" ELSE "SIMPLIFY"
  /\ UNCHANGED <<module, targets, cells, rewrites, connected, removals, counter>>

\* ... and takes a cheapest cover, if there is one and its network is cheaper
\* than the cone.
minimum_covers ==
  {cover \in complete_covers(chart) : \A other \in complete_covers(chart) : sop_cost(cover) <= sop_cost(other)}

candidates(b) ==
  {cover \in minimum_covers :
     /\ cover # {} \/ chart.on_set = {}
     /\ estimate_network_cost(cover) < Cardinality(collect_cone_cells(module.cells, b))}

\* optimize_output_bit returned true: the cells are built at once.
MinimizeBit ==
  /\ phase = "COVER"
  /\ \E cover \in candidates(Head(targets)), root \in drivers(module.cells, Head(targets)) :
       \E net \in {build_sop(cover, counter)} :
         /\ cells' = cells \cup net.cells
         /\ counter' = net.next
         /\ rewrites' = Append(rewrites,
               [bit |-> Head(targets), replacement |-> net.bits[1], cover |-> cover,
                added |-> net.cells, root |-> root, twins |-> chart.twins])
  /\ phase' = "EXAMINE"
  /\ targets' = Tail(targets)
  /\ chart' = no_chart
  /\ UNCHANGED <<module, connected, removals>>

SkipBit ==
  /\ \/ phase = "EXAMINE" /\ targets # <<>> /\ ~has_table(Head(targets))
     \/ phase = "COVER" /\ candidates(Head(targets)) = {}
  /\ phase' = "EXAMINE"
  /\ targets' = Tail(targets)
  /\ chart' = no_chart
  /\ UNCHANGED <<module, cells, rewrites, connected, removals, counter>>

\* All output bits are connected to their replacements, before any removal.
Connect ==
  /\ phase = "EXAMINE"
  /\ targets = <<>>
  /\ connected' = Len(rewrites)
  /\ phase' = "REMOVE"
  /\ UNCHANGED <<module, targets, chart, cells, rewrites, removals, counter>>


RemoveRoot ==
  /\ phase = "REMOVE"
  /\ removals < connected
  /\ rewrites[removals + 1].root \in cells
  /\ cells' = cells \ {rewrites[removals + 1].root}
  /\ removals' = removals + 1
  /\ UNCHANGED <<module, phase, targets, chart, rewrites, connected, counter>>

\* The root went with another of its bits.  The test whether it is still there
\* reads the name of the deleted cell: the lookup fails, or the pass crashes.
RootGone ==
  /\ phase = "REMOVE"
  /\ removals < connected
  /\ rewrites[removals + 1].root \notin cells
  /\ \/ removals' = removals + 1 /\ UNCHANGED phase
     \/ phase' = "CRASHED" /\ UNCHANGED removals
  /\ UNCHANGED <<module, targets, chart, cells, rewrites, connected, counter>>

Finish ==
  /\ phase = "REMOVE"
  /\ removals = connected
  /\ phase' = "DONE"
  /\ UNCHANGED <<module, targets, chart, cells, rewrites, connected, removals, counter>>

Terminated == phase \in {"DONE", "CRASHED"} /\ UNCHANGED vars

Next == \/ MakeChart \/ SimplifyChart \/ MinimizeBit \/ SkipBit \/ Connect
        \/ RemoveRoot \/ RootGone \/ Finish \/ Terminated

Spec == Init /\ [][Next]_vars

-----------------------------------------------------------------------------
\* What the module computes, before and after.  Connected output bits are
\* their replacements; a bit that lost its driver is undefined.

inputs == {q \in UNION {operands(c) : c \in module.cells} : q \notin Bit /\ drivers(module.cells, q) = {}}

reference(c, a, b, s) == eval_cell(c.type, a, b, s, c.a_signed, c.b_signed, Len(c.Y))

alias(b) ==
  LET mine == {k \in 1 .. connected : rewrites[k].bit = b}
  IN  IF mine = {} THEN b ELSE rewrites[CHOOSE k \in mine : TRUE].replacement

\* Nothing is claimed of a bit in a loop.
Before(b, m) ==
  IF loop_free(module.cells, b)
  THEN value_of(reference, LAMBDA q : bit(q \in m), module.cells, b) ELSE "x"

\* y may stand where x was expected.
refines(y, x) == x = "x" \/ y = x

read_bits == Range(module.outputs) \cup UNION {operands(c) : c \in cells}

rewritten_bits == {rewrites[k].bit : k \in 1 .. connected}

lost_bits ==
  {b \in read_bits \ rewritten_bits : drivers(module.cells, b) # {} /\ drivers(cells, b) = {}}

\* The replacement of a rewritten bit is wrong for a minterm, because the pass
\* did not read the cells right there, or because the chart had twins and lost
\* the minterm.
rewrite_of(q) == rewrites[CHOOSE k \in 1 .. connected : rewrites[k].bit = q]
replacement_value(q, m) == bit(\E c \in rewrite_of(q).cover : covers(c, m))

spoiled_bits(m) ==
  {q \in rewritten_bits :
     /\ ~refines(replacement_value(q, m), Before(q, m))
     /\ \/ ~refines(known_value(q, m), Before(q, m))
        \/ Before(q, m) = "1" /\ rewrite_of(q).twins}

\* What the outputs compute now, if bits that were lost or spoiled had kept
\* their values.
After(b, m) ==
  LET spared == lost_bits \cup spoiled_bits(m)
      now(q) == IF q \in spared THEN q ELSE alias(q)
      of(sig) == [i \in 1 .. Len(sig) |-> now(sig[i])]
  IN  value_of(reference,
               LAMBDA q : IF q \in inputs \cup spared THEN Before(q, m) ELSE "x",
               {[c EXCEPT !.A = of(@), !.B = of(@), !.S = of(@)] : c \in cells}, now(b))

removed_roots == {rewrites[k].root : k \in 1 .. removals}

-----------------------------------------------------------------------------
\* The rewrites are a subsequence of the output bits, and at any time the
\* cells are the old ones and the new ones less the roots removed so far.
TypeOK ==
  /\ phase \in {"EXAMINE", "SIMPLIFY", "COVER", "REMOVE", "DONE", "CRASHED"}
  /\ IsSuffix(targets, module.outputs)
  /\ \A k \in DOMAIN rewrites : rewrites[k].bit \in Range(module.outputs) \ Range(targets)
  /\ removals \in 0 .. connected /\ connected \in 0 .. Len(rewrites)
  /\ cells = (module.cells \cup UNION {rewrites[k].added : k \in DOMAIN rewrites}) \ removed_roots

\* Every output computes what it computed before, if the lost and the spoiled
\* bits it depends on had their values: a new sum of products is never 1 where
\* its bit was 0, it is 0 where its bit was 1 only after twins, and what was not
\* rewritten reads the same bits as ever.
FunctionKept ==
  phase = "DONE" =>
    \A b \in Range(module.outputs), m \in SUBSET inputs : refines(After(b, m), Before(b, m))

\* A bit loses its driver only with a sibling that was rewritten: the cone
\* under a root stays for its other readers, and no replacement reads a bit
\* that a removed root drives.
OnlySiblingsLost ==
  phase = "DONE" => \A b \in lost_bits : \E root \in removed_roots : b \in Range(root.Y)

\* What is built is what was estimated, and less than the cone has.
EstimateIsBuilt ==
  \A k \in DOMAIN rewrites :
    /\ Cardinality(rewrites[k].added) = estimate_network_cost(rewrites[k].cover)
    /\ Cardinality(rewrites[k].added) < Cardinality(collect_cone_cells(module.cells, rewrites[k].bit))

-----------------------------------------------------------------------------
\* The evaluation of the supported cells of the module, for all values of
\* their operands, beside what Yosys computes.

words(n) == [1 .. n -> Bit]

untouched == phase = "EXAMINE" /\ targets = module.outputs

\* Cells whose Y the pass does not fill as Yosys does: beyond the first bit of
\* a truth value, and beyond a signed operand of a bitwise cell.
zero_extended(c) == c.type \in Reductions \cup LogicOps \cup Comparisons
sign_extended(c) ==
  \/ c.type = "$not" /\ c.a_signed /\ Len(c.A) < Len(c.Y)
  \/ c.type \in Bitwise2 /\ c.a_signed /\ c.b_signed /\ Min({Len(c.A), Len(c.B)}) < Len(c.Y)

\* The bits of Y that the evaluation may be asked for; of a number, those of a
\* machine word.
sound_bits(c) ==
  1 .. CASE sign_extended(c) -> IF c.type = "$not" THEN Len(c.A) ELSE Min({Len(c.A), Len(c.B)})
         [] zero_extended(c) -> 1
         [] c.type \in Arithmetic \cup Shifts -> Min({Len(c.Y), WordBits})
         [] OTHER -> Len(c.Y)

\* Where the operands and the word reach, a bit the pass knows is the bit Yosys
\* computes, also when a number wraps around or is shifted out of its word; a
\* division by zero, which is undefined, may be anything.
KnownIsRight ==
  untouched =>
    \A c \in {d \in module.cells : supported(d)} :
      \A a \in words(Len(c.A)), b \in words(Len(c.B)), s \in words(Len(c.S)) :
        LET y        == evaluate(c, a, b, s, module.masks)
            expected == reference(c, a, b, s)
        IN  \A i \in sound_bits(c) : "x" \in {y[i], expected[i]} \/ y[i] = expected[i]

\* The pass knows every bit of a cell whose operands are defined and no longer
\* than MaxOperand: no minterm becomes a don't-care unless the design has an
\* undefined constant.
DefinedIsKnown ==
  untouched =>
    \A c \in {d \in module.cells : supported(d)} :
      Max({Len(c.A), Len(c.B)}) <= MaxOperand =>
        \A a \in words(Len(c.A)), b \in words(Len(c.B)), s \in words(Len(c.S)) :
          undef(a \o b \o s) \/ ~undef(evaluate(c, a, b, s, module.masks))

=============================================================================
