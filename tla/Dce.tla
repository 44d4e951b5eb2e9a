-------------------------------- MODULE Dce --------------------------------
(***************************************************************************)
(* my_opt_dce: removes the cells whose outputs nothing reads.  The pass    *)
(* counts the uses of every bit once, and from then on keeps the counts up *)
(* to date while a work queue of dead cells is emptied.  A cell may wait   *)
(* in the queue more than once: every bit of it that dies puts it there.   *)
(*                                                                         *)
(* A pin is one position of a port that counts as a use of the bit         *)
(* connected there: a position of an input port of a cell that CellTypes   *)
(* knows, of any port of a cell it does not know (flip-flops and           *)
(* submodules), or of an output port of the module.                        *)
(***************************************************************************)
EXTENDS Integers, FiniteSets, SequencesExt

CONSTANTS Cell, Bit, Port,
          Module,    \* the owner of the module's output ports
          NoCell,
          Netlists   \* records with the fields candidates, out and pins

Pin == [owner : Cell \cup {Module}, port : Port, bit : Bit]

ASSUME CellAssumption == IsFiniteSet(Cell) /\ Module \notin Cell /\ NoCell \notin Cell

ASSUME NetlistsAssumption ==
  \A n \in Netlists :
    /\ n.candidates \subseteq Cell
    /\ n.out \in [Cell -> SUBSET Bit]
    /\ n.pins \subseteq Pin /\ IsFiniteSet(n.pins)

VARIABLES
  candidates,   \* the selected cells of a supported combinational type
  out,          \* the bits that a cell drives
  pins,
  bit_driver,   \* the candidate that drives a bit
  uses,         \* the use counts
  dead_queue,
  removed,
  releasing,    \* the pins of the removed cell that are still to be released
  phase

netlist == <<candidates, out, pins, bit_driver>>
vars == <<candidates, out, pins, bit_driver, uses, dead_queue, removed,
          releasing, phase>>

-----------------------------------------------------------------------------

pins_of(cell) == {p \in pins : p.owner = cell}
pins_on(bit)  == {p \in pins : p.bit = bit}

use_count(bit) == Cardinality(pins_on(bit))

\* Faulty variant: one dead output is enough.
some_output_is_dead(cell) == \E b \in out[cell] : uses[b] = 0

outputs_are_dead(cell) == \A b \in out[cell] : uses[b] = 0

-----------------------------------------------------------------------------

\* Of several candidates that drive a bit the map keeps the last one it met.
Init ==
  /\ \E n \in Netlists :
       candidates = n.candidates /\ out = n.out /\ pins = n.pins
  /\ bit_driver \in [Bit -> candidates \cup {NoCell}]
  /\ \A b \in Bit :
       IF \E c \in candidates : b \in out[c]
       THEN bit_driver[b] # NoCell /\ b \in out[bit_driver[b]]
       ELSE bit_driver[b] = NoCell
  /\ uses = [b \in Bit |-> use_count(b)]
  /\ dead_queue \in SetToSeqs({c \in candidates : outputs_are_dead(c)})
  /\ removed = {}
  /\ releasing = {}
  /\ phase = "QUEUE"

\* Faulty variant: a cell that was removed already is removed again.
Pop_again ==
  LET cell == Head(dead_queue)
      take == outputs_are_dead(cell)
  IN  /\ phase = "QUEUE" /\ releasing = {} /\ dead_queue # <<>>
      /\ dead_queue' = Tail(dead_queue)
      /\ removed' = IF take THEN removed \cup {cell} ELSE removed
      /\ releasing' = IF take THEN pins_of(cell) ELSE {}
      /\ UNCHANGED <<netlist, uses, phase>>

\* Faulty variant: a cell that is still in use is put back.
Pop_requeues ==
  LET cell == Head(dead_queue)
      take == cell \notin removed /\ outputs_are_dead(cell)
  IN  /\ phase = "QUEUE" /\ releasing = {} /\ dead_queue # <<>>
      /\ dead_queue' = IF outputs_are_dead(cell) THEN Tail(dead_queue)
                       ELSE Append(Tail(dead_queue), cell)
      /\ removed' = IF take THEN removed \cup {cell} ELSE removed
      /\ releasing' = IF take THEN pins_of(cell) ELSE {}
      /\ UNCHANGED <<netlist, uses, phase>>

Pop ==
  LET cell == Head(dead_queue)
      take == cell \notin removed /\ outputs_are_dead(cell)
  IN  /\ phase = "QUEUE" /\ releasing = {} /\ dead_queue # <<>>
      /\ dead_queue' = Tail(dead_queue)
      /\ removed' = IF take THEN removed \cup {cell} ELSE removed
      /\ releasing' = IF take THEN pins_of(cell) ELSE {}
      /\ UNCHANGED <<netlist, uses, phase>>

\* Faulty variant: no driver is queued.
Release_without_queueing ==
  \E p \in releasing :
    /\ releasing' = releasing \ {p}
    /\ uses' = [uses EXCEPT ![p.bit] = IF @ = 0 THEN 0 ELSE @ - 1]
    /\ UNCHANGED <<netlist, dead_queue, removed, phase>>

\* The loop over the input bits of a removed cell gives one use back.
Release ==
  \E p \in releasing :
    /\ releasing' = releasing \ {p}
    /\ uses' = [uses EXCEPT ![p.bit] = IF @ = 0 THEN 0 ELSE @ - 1]
    /\ dead_queue' = IF uses[p.bit] = 1 /\ bit_driver[p.bit] # NoCell
                     THEN Append(dead_queue, bit_driver[p.bit]) ELSE dead_queue
    /\ UNCHANGED <<netlist, removed, phase>>

\* The removed cells leave the module.
Finish ==
  /\ phase = "QUEUE" /\ releasing = {} /\ dead_queue = <<>>
  /\ phase' = "DONE"
  /\ UNCHANGED <<netlist, uses, dead_queue, removed, releasing>>

Terminated == phase = "DONE" /\ UNCHANGED vars

Next == Pop \/ Release \/ Finish \/ Terminated

Spec == Init /\ [][Next]_vars

\* A pass is one sequential call: it runs to its end.
FairSpec == Spec /\ WF_vars(Next)

-----------------------------------------------------------------------------

TypeOK ==
  /\ candidates \in SUBSET Cell
  /\ out \in [Cell -> SUBSET Bit]
  /\ pins \in SUBSET Pin
  /\ bit_driver \in [Bit -> candidates \cup {NoCell}]
  /\ uses \in [Bit -> Nat]
  /\ dead_queue \in Seq(candidates)
  /\ removed \in SUBSET candidates
  /\ releasing \in SUBSET pins
  /\ phase \in {"QUEUE", "DONE"}

\* The counts stay exact: a bit has as many uses as there are pins on it that
\* belong to cells still there, or that the removed cell has not given back.
UsesExact ==
  \A b \in Bit :
    uses[b] = Cardinality({p \in pins_on(b) : p.owner \notin removed \/ p \in releasing})

\* Nothing that stays reads what is removed: neither a cell, whatever its
\* type, nor an output port of the module.
NoDanglingReader ==
  \A c \in removed, p \in pins : p.bit \in out[c] => p.owner \in removed

\* "Removed recursively": the cells removed are the least set that contains
\* every candidate whose readers are all in it, so that the order of the work
\* queue does not matter.  (Needs a single candidate as driver of each bit.)
Closed(S) ==
  \A c \in candidates :
    (\A p \in pins : p.bit \in out[c] => p.owner \in S) => c \in S
SingleDriver ==
  \A c, d \in candidates : out[c] \cap out[d] # {} => c = d

RemovesLeastClosed ==
  phase = "DONE" /\ SingleDriver =>
    /\ Closed(removed)
    /\ \A S \in SUBSET candidates : Closed(S) => removed \subseteq S

\* The queue runs empty although cells are queued again.
Terminates == <>(phase = "DONE")

=============================================================================
