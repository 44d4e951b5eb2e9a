------------------------------- MODULE Share -------------------------------
(***************************************************************************)
(* my_opt_share: a $mux that selects between the results of two equal      *)
(* binary operations becomes one operation on selected operands.  The pass *)
(* visits the $mux cells in turn; a fold adds cells at once, but the cells *)
(* it replaces stay in the module until the whole loop is done, so later   *)
(* visits see both.  The module's index of ports follows every addition.   *)
(*                                                                         *)
(* A signal is a word with a name, and a port is connected to one signal.  *)
(* Port widths are parameters of an operation, so that operations with     *)
(* equal parameters have operands of equal widths.                         *)
(***************************************************************************)
EXTENDS Integers, FiniteSets

CONSTANTS Netlists,   \* records with the fields cells and inputs
          Word        \* the values of a word: 0 .. Word - 1

NoSignal == <<"none", 0>>
Undefined == Word     \* the value of a signal that nothing drives

ASSUME WordAssumption == Word \in Nat \ {0}

VARIABLES
  original,   \* the module as the pass found it
  cells,      \* records with the fields id, type, params, a, b, s and y
  todo,       \* the selected $mux cells that were not visited
  doomed,     \* muxes_to_remove and cells_to_remove
  folds,      \* total_shared
  phase

vars == <<original, cells, todo, doomed, folds, phase>>

-----------------------------------------------------------------------------

SharedTypes == {"$add", "$sub", "$and", "$or", "$xor", "$mul"}

reads(cell) == {cell.a, cell.b, cell.s} \ {NoSignal}

\* The cells that drive a signal, and the ports (query_ports) that read it.
drivers(signal) == {c \in cells : c.y = signal}
reading_ports(signal) ==
  {p \in cells \X {"a", "b", "s"} :
     CASE p[2] = "a" -> p[1].a = signal
       [] p[2] = "b" -> p[1].b = signal
       [] OTHER      -> p[1].s = signal}

get_single_driver_cell(signal, driver) == drivers(signal) = {driver}

params_match(ca, cb) == ca.params = cb.params

\* Faulty variant: another reader does not matter.
output_read_by_mux(src, mux, port) == <<mux, port>> \in reading_ports(src.y)

\* No other cell reads the output of src.  The module's ports are not asked.
output_exclusive_to_mux(src, mux, port) ==
  /\ reading_ports(src.y) \subseteq {<<mux, port>>} \cup {p \in reading_ports(src.y) : p[1] = src}
  /\ drivers(src.y) = {src}

foldable(mux, ca, cb) ==
  /\ get_single_driver_cell(mux.a, ca) /\ get_single_driver_cell(mux.b, cb)
  /\ ca # cb
  /\ ca.type = cb.type /\ ca.type \in SharedTypes
  /\ params_match(ca, cb)
  /\ output_exclusive_to_mux(ca, mux, "a")
  /\ output_exclusive_to_mux(cb, mux, "b")

\* Module::addMux(name, a, b, s, y) makes the cell y = s ? b : a.
addMux(id, sig_a, sig_b, sig_s, sig_y) ==
  [id |-> id, type |-> "$mux", params |-> "none",
   a |-> sig_a, b |-> sig_b, s |-> sig_s, y |-> sig_y]

new_a(mux) == <<"new_a", mux.id>>
new_b(mux) == <<"new_b", mux.id>>

\* Faulty variant: the operation takes both operands from the first wire.
added_cells_one_operand(mux, ca, cb) ==
  {addMux(<<"mux_a", mux.id>>, cb.a, ca.a, mux.s, new_a(mux)),
   [ca EXCEPT !.id = <<"shared", mux.id>>, !.a = new_a(mux), !.b = new_b(mux), !.y = mux.y]}

added_cells(mux, ca, cb) ==
  {addMux(<<"mux_a", mux.id>>, cb.a, ca.a, mux.s, new_a(mux)),
   addMux(<<"mux_b", mux.id>>, cb.b, ca.b, mux.s, new_b(mux)),
   [ca EXCEPT !.id = <<"shared", mux.id>>, !.a = new_a(mux), !.b = new_b(mux), !.y = mux.y]}

\* A module is a finite set of cells with names of their own; the names that the
\* pass makes for cells and wires (NEW_ID) are not among those of the module.
ASSUME NetlistsAssumption ==
  \A n \in Netlists :
    /\ IsFiniteSet(n.cells)
    /\ \A c \in n.cells :
         c = [id |-> c.id, type |-> c.type, params |-> c.params,
              a |-> c.a, b |-> c.b, s |-> c.s, y |-> c.y]
    /\ \A c \in n.cells : c.y # NoSignal
    /\ \A c, d \in n.cells : c.id = d.id => c = d
    /\ \A c, d \in n.cells :
         /\ c.id \notin {<<"mux_a", d.id>>, <<"mux_b", d.id>>, <<"shared", d.id>>}
         /\ {c.a, c.b, c.s, c.y} \cap {new_a(d), new_b(d)} = {}

-----------------------------------------------------------------------------

Init ==
  /\ original \in Netlists
  /\ cells = original.cells
  /\ todo = {c \in cells : c.type = "$mux"}
  /\ doomed = {} /\ folds = 0
  /\ phase = "VISIT"

Fold ==
  /\ phase = "VISIT"
  /\ \E mux \in todo, ca, cb \in cells :
       /\ foldable(mux, ca, cb)
       /\ cells' = cells \cup added_cells(mux, ca, cb)
       /\ doomed' = doomed \cup {mux, ca, cb}
       /\ todo' = todo \ {mux}
  /\ folds' = folds + 1
  /\ UNCHANGED <<original, phase>>

Skip ==
  /\ phase = "VISIT"
  /\ \E mux \in todo :
       /\ \A ca, cb \in cells : ~foldable(mux, ca, cb)
       /\ todo' = todo \ {mux}
  /\ UNCHANGED <<original, cells, doomed, folds, phase>>

Remove ==
  /\ phase = "VISIT" /\ todo = {}
  /\ cells' = cells \ doomed
  /\ phase' = "DONE"
  /\ UNCHANGED <<original, todo, doomed, folds>>

Terminated == phase = "DONE" /\ UNCHANGED vars

Next == Fold \/ Skip \/ Remove \/ Terminated

Spec == Init /\ [][Next]_vars

-----------------------------------------------------------------------------

\* What the cells of a netlist without loops compute.
Operation(cell, x, y) ==
  CASE cell.type = "$add" -> (x + y) % Word
    [] cell.type = "$sub" -> (x - y) % Word
    [] cell.type = "$mul" -> (x * y) % Word
    [] OTHER -> Undefined

Values(netlist, input) ==
  LET signals == {c.y : c \in netlist} \cup UNION {reads(c) : c \in netlist}
      value[x \in signals] ==
        IF x \in DOMAIN input THEN input[x]
        ELSE IF \A c \in netlist : c.y # x THEN Undefined
        ELSE LET c == CHOOSE d \in netlist : d.y = x
             IN  IF c.type = "$mux"
                 THEN (IF value[c.s] = Undefined THEN Undefined
                       ELSE IF value[c.s] # 0 THEN value[c.b] ELSE value[c.a])
                 ELSE IF value[c.a] = Undefined \/ value[c.b] = Undefined THEN Undefined
                 ELSE Operation(c, value[c.a], value[c.b])
  IN  value

\* Every signal that a cell reads keeps its only driver: the replaced cells go,
\* and nobody is left who reads one of their outputs.  Signals that had no driver
\* of their own (the inputs) or several are excepted, and so is the result of an
\* operation that reads it itself: the pass does not count it as its own reader.
drivers_before(x) == {c \in original.cells : c.y = x}
reads_itself(x) == \E c \in drivers_before(x) : x \in reads(c)
OneDriver ==
  phase = "DONE" =>
    \A x \in UNION {reads(c) : c \in cells} :
      \/ Cardinality(drivers(x)) = 1
      \/ /\ \E c \in original.cells : x \in {c.a, c.b, c.s, c.y}
         /\ Cardinality(drivers_before(x)) # 1 \/ reads_itself(x)

\* No cell is put on the lists of cells to remove twice: the second remove would
\* delete a cell that is gone.  Two selections never claim the same operation.
RemovedOnce == Cardinality(doomed) = 3 * folds

\* The purpose: every fold saves an operation.
OperationsSaved ==
  phase = "DONE" =>
    Cardinality({c \in cells : c.type \in SharedTypes}) + folds
      = Cardinality({c \in original.cells : c.type \in SharedTypes})

\* Help: the $mux is folded "into a single shared op with muxed inputs"; so
\* whatever a cell still computes, it computes what was there before.
FunctionKept ==
  phase = "DONE" =>
    \A input \in [original.inputs -> 0 .. Word - 1] :
      LET old == Values(original.cells, input)
          new == Values(cells, input)
      IN  \A c \in cells : c.y \in DOMAIN old => new[c.y] = old[c.y]

\* A signal is left without a driver only if it is the result of an operation
\* that was shared, and then no cell reads it any more.  (An output port of the
\* module may be connected to it: the index does not count ports as readers.)
LostOnlyIfShared ==
  phase = "DONE" =>
    \A x \in {c.y : c \in original.cells} : drivers(x) = {} =>
      /\ \A c \in drivers_before(x) : c \in doomed /\ c.type \in SharedTypes
      /\ reading_ports(x) = {} \/ reads_itself(x)

\* Only the result of a shared operation loses its driver, and with its readers;
\* every other signal that is read keeps exactly one.
DriversKept == OneDriver /\ LostOnlyIfShared

\* Folds are independent of each other: each removes cells of its own and saves
\* one operation.
FoldsSave == RemovedOnce /\ OperationsSaved

=============================================================================
