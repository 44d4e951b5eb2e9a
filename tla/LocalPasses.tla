------------------------------ MODULE LocalPasses ------------------------------
(***************************************************************************)
(* The local passes on one module, one after the other: my_opt_expr,        *)
(* my_opt_muxtree, my_opt_reduce, my_opt_strength and my_opt_cse.  Each one *)
(* takes the aliases of the wires at its start (SigMap), visits the cells   *)
(* it finds there in their order, connects the outputs of those it         *)
(* replaces at once, and removes these cells at its end.                    *)
(***************************************************************************)
EXTENDS LocalRules, SigMap

Cone == INSTANCE Cones

CONSTANT Modules   \* [cells (in their order), outputs, script (passes)]

Passes == {"my_opt_expr", "my_opt_muxtree", "my_opt_reduce", "my_opt_strength", "my_opt_cse"}

ASSUME ModulesAssumption == \A m \in Modules : Range(m.script) \subseteq Passes

VARIABLES
  module,      \* the module as it was
  status,      \* "READY" between passes, "VISIT", "DONE", "ABORTED"
  script,      \* the passes still to run, the running one first
  cells,
  wires,       \* the connections of the module: every joined bit to its alias
  sigmap,      \* the same, when the pass began
  todo,        \* cells the pass has not visited
  cells_to_remove,
  representative,   \* my_opt_cse: the first cells of their keys
  next              \* numbers the new wires and cells

vars == <<module, status, script, cells, wires, sigmap, todo, cells_to_remove, representative, next>>

-----------------------------------------------------------------------------

Init ==
  /\ module \in Modules
  /\ status = "READY"
  /\ script = module.script
  /\ cells = module.cells
  /\ wires = <<>> /\ sigmap = <<>>
  /\ todo = <<>> /\ cells_to_remove = {} /\ representative = {}
  /\ next = 1

BeginPass ==
  /\ status = "READY"
  /\ script # <<>>
  /\ status' = "VISIT"
  /\ sigmap' = wires
  /\ todo' = cells
  /\ cells_to_remove' = {} /\ representative' = {}
  /\ UNCHANGED <<module, script, cells, wires, next>>

visiting(pass) == status = "VISIT" /\ todo # <<>> /\ script[1] = pass
visited == mapped(sigmap, todo[1])

\* my_opt_expr, my_opt_muxtree and my_opt_reduce read port Y of every cell
\* before they look at its type; the last one port A as well.
folding == {"my_opt_expr", "my_opt_muxtree", "my_opt_reduce"}
readable(pass, c) == c.Y # <<>> /\ (pass = "my_opt_reduce" => c.A # <<>>)

fold(pass, c) ==
  CASE pass = "my_opt_expr"    -> expr_fold(c)
    [] pass = "my_opt_muxtree" -> muxtree_fold(c)
    [] pass = "my_opt_reduce"  -> reduce_fold(c)

Fold ==
  \E pass \in folding :
    /\ visiting(pass)
    /\ readable(pass, visited)
    /\ \E sig \in fold(pass, visited) :
         /\ Len(sig) = Len(visited.Y)
         /\ wires' = connect(wires, visited.Y, sig)
    /\ cells_to_remove' = cells_to_remove \cup {visited.name}
    /\ todo' = Tail(todo)
    /\ UNCHANGED <<module, status, script, cells, sigmap, representative, next>>

\* A port that is missing raises an exception, a signal of another width than
\* Y fails an assertion of connect.
Abort ==
  \E pass \in folding :
    /\ visiting(pass)
    /\ \/ ~readable(pass, visited)
       \/ \E sig \in fold(pass, visited) : Len(sig) # Len(visited.Y)
    /\ status' = "ABORTED"
    /\ UNCHANGED <<module, script, cells, wires, sigmap, todo, cells_to_remove, representative, next>>

LowerMul ==
  /\ visiting("my_opt_strength")
  /\ lowerable(visited)
  /\ LET lowered == lower(visited, next)
     IN  /\ cells' = cells \o lowered.cells
         /\ wires' = IF lowered.value = {} THEN wires
                     ELSE connect(wires, visited.Y, CHOOSE sig \in lowered.value : TRUE)
         /\ next' = lowered.next
  /\ cells_to_remove' = cells_to_remove \cup {visited.name}
  /\ todo' = Tail(todo)
  /\ UNCHANGED <<module, status, script, sigmap, representative>>

Merge ==
  /\ visiting("my_opt_cse")
  /\ \E r \in representative :
       /\ visited.type \in mergeable
       /\ build_key(r) = build_key(visited)
       /\ wires' = connect(wires, visited.Y, r.Y)
  /\ cells_to_remove' = cells_to_remove \cup {visited.name}
  /\ todo' = Tail(todo)
  /\ UNCHANGED <<module, status, script, cells, sigmap, representative, next>>

Represent ==
  /\ visiting("my_opt_cse")
  /\ visited.type \in mergeable
  /\ \A r \in representative : build_key(r) # build_key(visited)
  /\ representative' = representative \cup {visited}
  /\ todo' = Tail(todo)
  /\ UNCHANGED <<module, status, script, cells, wires, sigmap, cells_to_remove, next>>

Keep ==
  /\ \/ \E pass \in folding : visiting(pass) /\ readable(pass, visited) /\ fold(pass, visited) = {}
     \/ visiting("my_opt_strength") /\ ~lowerable(visited)
     \/ visiting("my_opt_cse") /\ visited.type \notin mergeable
  /\ todo' = Tail(todo)
  /\ UNCHANGED <<module, status, script, cells, wires, sigmap, cells_to_remove, representative, next>>

EndPass ==
  /\ status = "VISIT" /\ todo = <<>>
  /\ cells' = SelectSeq(cells, LAMBDA c : c.name \notin cells_to_remove)
  /\ script' = Tail(script)
  /\ status' = "READY"
  /\ UNCHANGED <<module, wires, sigmap, todo, cells_to_remove, representative, next>>

Finish ==
  /\ status = "READY" /\ script = <<>>
  /\ status' = "DONE"
  /\ UNCHANGED <<module, script, cells, wires, sigmap, todo, cells_to_remove, representative, next>>

Terminated == status \in {"DONE", "ABORTED"} /\ UNCHANGED vars

Next == \/ BeginPass \/ Fold \/ Abort \/ LowerMul \/ Merge \/ Represent \/ Keep
        \/ EndPass \/ Finish \/ Terminated

Spec == Init /\ [][Next]_vars

-----------------------------------------------------------------------------

between == status \in {"READY", "DONE"}
netlist == {mapped(wires, cells[i]) : i \in DOMAIN cells}
original == Range(module.cells)

readers(cs) == UNION {Cone!operands(c) : c \in cs}

inputs == {b \in readers(original) \cup Range(module.outputs) :
             b \notin Bit /\ Cone!drivers(original, b) = {}}

reference(c, a, b, s) == eval_cell(c.type, a, b, s, c.a_signed, c.b_signed, Len(c.Y))

\* Nothing is claimed of a bit in a loop.
Before(b, m) ==
  IF Cone!loop_free(original, b)
  THEN Cone!value_of(reference, LAMBDA q : bit(q \in m), original, b) ELSE "x"
After(b, m) ==
  Cone!value_of(reference, LAMBDA q : IF q \in inputs THEN bit(q \in m) ELSE "x", netlist, alias(wires, b))

SameFunction ==
  \A b \in Range(module.outputs) : Cone!loop_free(original, b) =>
    \A m \in SUBSET inputs : Before(b, m) \in {"x", After(b, m)}

\* The operands of a bitwise cell are as wide as its Y, that of a reduction
\* is one bit.
fits(c) ==
  /\ c.type \in {"$and", "$or", "$xor"} => Len(c.A) = Len(c.Y) /\ Len(c.B) = Len(c.Y)
  /\ c.type = "$not" => Len(c.A) = Len(c.Y)
  /\ c.type \in Reductions => Len(c.Y) = 1

acyclic == \A c \in original : c \notin Cone!cone_of(original, Cone!feeders(original, c))

finished == module.script[Len(module.script) - Len(script)]

equal(c, d) ==
  /\ c.type = d.type /\ c.type \in mergeable
  /\ <<c.a_signed, c.b_signed, Len(c.Y)>> = <<d.a_signed, d.b_signed, Len(d.Y)>>
  /\ \/ <<c.A, c.B>> = <<d.A, d.B>>
     \/ c.type \in commutative /\ Len(c.A) = Len(c.B) /\ <<c.A, c.B>> = <<d.B, d.A>>

-----------------------------------------------------------------------------
\* Cells have different names, and those to remove are cells of the module.
TypeOK ==
  /\ status \in {"READY", "VISIT", "DONE", "ABORTED"}
  /\ IsSuffix(script, module.script)
  /\ \A i, j \in DOMAIN cells : cells[i].name = cells[j].name => i = j
  /\ status = "VISIT" => cells_to_remove \subseteq {cells[i].name : i \in DOMAIN cells}
  /\ \A b \in DOMAIN wires : alias(wires, wires[b]) = wires[b]

\* After every pass the module computes what it computed at first, although
\* the passes see aliases that are out of date, and cells that another
\* connection has made redundant; if the cells have the widths the rules assume.
FunctionKept == between /\ (\A c \in original : fits(c)) => SameFunction

\* After every pass each bit that is read, directly or through its aliases,
\* is a constant, an input of the module, or driven by exactly one cell.
OneDriver ==
  between /\ acyclic =>
    \A b \in readers(netlist) \cup Range(aliases(wires, module.outputs)) :
      b \in Bit \cup inputs \/ Cardinality(Cone!drivers(netlist, b)) = 1

\* The passes leave a module in which every bit that is read has its driver and
\* its function.
ModuleKept == TypeOK /\ OneDriver /\ FunctionKept

\* A run of my_opt_cse merges only what was equal before it; run again until it
\* finds nothing, it leaves no two equal cells, however long the chains of
\* cells that became equal by a merge.
AllMergedInTheEnd ==
  between /\ script # module.script /\ finished = "my_opt_cse" /\ cells_to_remove = {} =>
    \A c, d \in netlist : equal(c, d) => c = d

=============================================================================
