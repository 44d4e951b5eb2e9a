------------------------------- MODULE Timing -------------------------------
(***************************************************************************)
(* my_opt_timing: static timing analysis of the selected combinational     *)
(* cells of a module.  The pass                                            *)
(*   BUILD     makes the graph: who feeds whom, and the delay of a cell,   *)
(*   SORT      orders it topologically (falling back on the order of the   *)
(*             selection when there is a loop),                            *)
(*   ARRIVAL   propagates arrival times forwards,                          *)
(*   REQUIRED  propagates required times backwards from the endpoints,     *)
(*   TRACE     follows the critical predecessors from the worst endpoint.  *)
(* Every cell drives one bit and reads a bit at most once; a bit is named  *)
(* by its driver, and Source stands for the bits that no cell drives.      *)
(***************************************************************************)
EXTENDS Integers, FiniteSets, FiniteSetsExt, SequencesExt

CONSTANTS Cell,
          Source,
          NoCell,
          Netlists,    \* records: seq, reads, outputs, base and fixed
          Selections,  \* the timed cells, in the order of module->selected_cells()
          Clocks,      \* values of -clock; 0 stands for its absence
          FreeFanout   \* the fanout that costs no delay, 4 in the code

Bits == Cell \cup {Source}

ASSUME CellAssumption == IsFiniteSet(Cell) /\ Source \notin Cell /\ NoCell \notin Cell
ASSUME NetlistsAssumption ==
  \A n \in Netlists :
    /\ n.seq \subseteq Cell
    /\ n.reads \in [Cell -> SUBSET Bits]
    /\ n.outputs \subseteq Bits
    /\ n.base \in [Cell -> Nat \ {0}]
    /\ n.fixed \subseteq Cell
ASSUME SelectionsAssumption == \A s \in Selections : s \in Seq(Cell) /\ IsInjective(s)
ASSUME ClocksAssumption == Clocks \subseteq Nat
ASSUME FreeFanoutAssumption == FreeFanout \in Nat \ {0}

VARIABLES
  seq,            \* the sequential cells
  reads,          \* the bits on a cell's input ports
  outputs,        \* the bits of the output ports
  base, fixed,    \* delays by type and width, or fixed by an option
  clock_period,
  cells,          \* the timed cells in the order of the selection
  phase,
  indegree,
  order,          \* during SORT the vector `ready', of which order is a prefix
  next,           \* index of the loop's next cell
  arrival, critical_pred, required,
  path            \* the reported path, from its end

design == <<seq, reads, outputs, base, fixed, clock_period, cells>>
vars == <<seq, reads, outputs, base, fixed, clock_period, cells, phase,
          indegree, order, next, arrival, critical_pred, required, path>>

-----------------------------------------------------------------------------

UNREACHED == 1073741823   \* 0x3fffffff

\* CellTypes::setup_internals knows no flip-flop and no latch.
cell_known(cell) == cell \notin seq
is_sequential_cell(cell) == cell \in seq

input_bits(cell)  == IF cell_known(cell) THEN reads[cell] ELSE {}
output_bits(cell) == IF cell_known(cell) THEN {cell} ELSE {}

driven(bit) == \E c \in Cell : bit \in output_bits(c)
nodes == ToSet(cells)

fanin(cell)  == {p \in nodes \ {cell} : p \in input_bits(cell) /\ driven(p)}
fanout(cell) == {s \in nodes : cell \in fanin(s)}

\* The loads that slow a cell down, its own inputs among them.
load(cell) == Cardinality({c \in Cell : cell \in input_bits(c)})
                + IF cell \in outputs THEN 1 ELSE 0
delay(cell) ==
  base[cell] + IF cell \notin fixed /\ load(cell) > FreeFanout
               THEN (load(cell) - 1) \div FreeFanout ELSE 0

\* The drivers of the endpoints; NoCell for one that no timed cell drives.
timed_driver(bit) == IF bit \in nodes THEN bit ELSE NoCell
output_endpoints == {timed_driver(b) : b \in outputs}
seq_endpoints ==
  {timed_driver(b) : b \in UNION {input_bits(c) : c \in {d \in Cell : is_sequential_cell(d)}}}

open_endpoints ==
  {c \in nodes : fanout(c) = {} /\ c \notin output_endpoints \cup seq_endpoints}
endpoints == output_endpoints \cup seq_endpoints \cup open_endpoints

end_arrival(endpoint) == IF endpoint = NoCell THEN 0 ELSE arrival[endpoint]

worst_arrival == Max({0} \cup {arrival[c] : c \in nodes})
required_time == IF clock_period > 0 THEN clock_period ELSE worst_arrival

slack(cell) == required[cell] - arrival[cell]
end_slack(endpoint) == required_time - end_arrival(endpoint)

-----------------------------------------------------------------------------

Init ==
  /\ \E n \in Netlists :
       /\ seq = n.seq /\ reads = n.reads /\ outputs = n.outputs
       /\ base = n.base /\ fixed = n.fixed
  /\ clock_period \in Clocks
  /\ cells \in Selections
  /\ cells # <<>> /\ \A c \in nodes : cell_known(c)
  /\ phase = "BUILD"
  /\ indegree = [c \in Cell |-> 0]
  /\ order = <<>> /\ next = 1
  /\ arrival = [c \in Cell |-> 0]
  /\ critical_pred = [c \in Cell |-> NoCell]
  /\ required = [c \in Cell |-> UNREACHED]
  /\ path = <<>>

\* The first cells in the order are those without a predecessor; among them
\* any order, as the cells of a module have no order but an accidental one.
Build ==
  /\ phase = "BUILD"
  /\ indegree' = [c \in Cell |-> IF c \in nodes THEN Cardinality(fanin(c)) ELSE 0]
  /\ order' \in SetToSeqs({c \in nodes : fanin(c) = {}})
  /\ phase' = "SORT"
  /\ UNCHANGED <<design, next, arrival, critical_pred, required, path>>

\* Faulty variant: a cell is ready after its first predecessor.
SortCell_early ==
  LET cell  == order[next]
      freed == fanout(cell) \ ToSet(order)
  IN  /\ phase = "SORT" /\ next <= Len(order)
      /\ indegree' = [c \in Cell |-> IF c \in fanout(cell) THEN indegree[c] - 1 ELSE indegree[c]]
      /\ \E s \in SetToSeqs(freed) : order' = order \o s
      /\ next' = next + 1
      /\ UNCHANGED <<design, phase, arrival, critical_pred, required, path>>

\* The successors of a cell are visited in the order of their addresses.
SortCell ==
  LET cell  == order[next]
      freed == {s \in fanout(cell) : indegree[s] = 1}
  IN  /\ phase = "SORT" /\ next <= Len(order)
      /\ indegree' = [c \in Cell |-> IF c \in fanout(cell) THEN indegree[c] - 1 ELSE indegree[c]]
      /\ \E s \in SetToSeqs(freed) : order' = order \o s
      /\ next' = next + 1
      /\ UNCHANGED <<design, phase, arrival, critical_pred, required, path>>

SortEnd ==
  /\ phase = "SORT" /\ next > Len(order)
  /\ order' = IF Len(order) = Len(cells) THEN order ELSE cells
  /\ phase' = "ARRIVAL"
  /\ next' = 1
  /\ UNCHANGED <<design, indegree, arrival, critical_pred, required, path>>

\* Faulty variants: the earliest predecessor counts; any predecessor is noted
\* as the critical one.
ArrivalCell_earliest ==
  LET cell == order[next]
  IN  /\ phase = "ARRIVAL" /\ next <= Len(order)
      /\ IF fanin(cell) = {}
         THEN /\ critical_pred' = critical_pred
              /\ arrival' = [arrival EXCEPT ![cell] = delay(cell)]
         ELSE \E p \in fanin(cell) :
                /\ \A q \in fanin(cell) : arrival[p] <= arrival[q]
                /\ critical_pred' = [critical_pred EXCEPT ![cell] = p]
                /\ arrival' = [arrival EXCEPT ![cell] = arrival[p] + delay(cell)]
      /\ next' = next + 1
      /\ UNCHANGED <<design, phase, indegree, order, required, path>>

ArrivalCell_any_pred ==
  LET cell == order[next]
  IN  /\ phase = "ARRIVAL" /\ next <= Len(order)
      /\ IF fanin(cell) = {}
         THEN /\ critical_pred' = critical_pred
              /\ arrival' = [arrival EXCEPT ![cell] = delay(cell)]
         ELSE \E p, r \in fanin(cell) :
                /\ \A q \in fanin(cell) : arrival[q] <= arrival[p]
                /\ critical_pred' = [critical_pred EXCEPT ![cell] = r]
                /\ arrival' = [arrival EXCEPT ![cell] = arrival[p] + delay(cell)]
      /\ next' = next + 1
      /\ UNCHANGED <<design, phase, indegree, order, required, path>>

\* Of two predecessors with the same arrival the one with the lower address
\* is kept.
ArrivalCell ==
  LET cell == order[next]
  IN  /\ phase = "ARRIVAL" /\ next <= Len(order)
      /\ IF fanin(cell) = {}
         THEN /\ critical_pred' = critical_pred
              /\ arrival' = [arrival EXCEPT ![cell] = delay(cell)]
         ELSE \E p \in fanin(cell) :
                /\ \A q \in fanin(cell) : arrival[q] <= arrival[p]
                /\ critical_pred' = [critical_pred EXCEPT ![cell] = p]
                /\ arrival' = [arrival EXCEPT ![cell] = arrival[p] + delay(cell)]
      /\ next' = next + 1
      /\ UNCHANGED <<design, phase, indegree, order, required, path>>

\* compute_required starts from the endpoints; a required time that does not
\* lie below UNREACHED leaves no trace.
ArrivalEnd ==
  /\ phase = "ARRIVAL" /\ next > Len(order)
  /\ required' = [c \in Cell |-> IF c \in endpoints /\ required_time < UNREACHED
                                 THEN required_time ELSE UNREACHED]
  /\ phase' = "REQUIRED"
  /\ next' = Len(order)
  /\ UNCHANGED <<design, indegree, order, arrival, critical_pred, path>>

\* Faulty variant: the predecessor's delay is taken off, not the cell's.
RequiredCell_other_delay ==
  LET cell == order[next]
  IN  /\ phase = "REQUIRED" /\ next >= 1
      /\ required' =
           [c \in Cell |->
              IF c \in fanin(cell) /\ required[cell] # UNREACHED
                   /\ required[cell] - delay(c) < required[c]
              THEN required[cell] - delay(c) ELSE required[c]]
      /\ next' = next - 1
      /\ UNCHANGED <<design, phase, indegree, order, arrival, critical_pred, path>>

RequiredCell ==
  LET cell == order[next]
  IN  /\ phase = "REQUIRED" /\ next >= 1
      /\ required' =
           [c \in Cell |->
              IF c \in fanin(cell) /\ required[cell] # UNREACHED
                   /\ required[cell] - delay(cell) < required[c]
              THEN required[cell] - delay(cell) ELSE required[c]]
      /\ next' = next - 1
      /\ UNCHANGED <<design, phase, indegree, order, arrival, critical_pred, path>>

\* The path of the report ends at an endpoint with the least slack.
RequiredEnd ==
  /\ phase = "REQUIRED" /\ next = 0
  /\ required' = [c \in Cell |-> IF c \in nodes /\ required[c] = UNREACHED
                                 THEN required_time ELSE required[c]]
  /\ IF endpoints = {} THEN path' = <<>>
     ELSE \E e \in endpoints :
            /\ \A f \in endpoints : end_slack(e) <= end_slack(f)
            /\ path' = IF e = NoCell THEN <<>> ELSE <<e>>
  /\ phase' = IF path' = <<>> THEN "DONE" ELSE "TRACE"
  /\ UNCHANGED <<design, indegree, order, next, arrival, critical_pred>>

\* Faulty variant: the cells met before are forgotten.
TracePath_unseen ==
  LET pred == critical_pred[Last(path)]
  IN  /\ phase = "TRACE"
      /\ IF pred = NoCell
         THEN phase' = "DONE" /\ UNCHANGED path
         ELSE path' = <<pred>> /\ UNCHANGED phase
      /\ UNCHANGED <<design, indegree, order, next, arrival, critical_pred, required>>

\* A cell met before ends the path: with a loop the predecessors may form one.
TracePath ==
  LET pred == critical_pred[Last(path)]
  IN  /\ phase = "TRACE"
      /\ IF pred = NoCell \/ pred \in ToSet(path)
         THEN phase' = "DONE" /\ UNCHANGED path
         ELSE path' = Append(path, pred) /\ UNCHANGED phase
      /\ UNCHANGED <<design, indegree, order, next, arrival, critical_pred, required>>

Terminated == phase = "DONE" /\ UNCHANGED vars

Next ==
  \/ Build \/ SortCell \/ SortEnd \/ ArrivalCell \/ ArrivalEnd
  \/ RequiredCell \/ RequiredEnd \/ TracePath \/ Terminated

Spec == Init /\ [][Next]_vars

\* A pass is one sequential call: it runs to its end.
FairSpec == Spec /\ WF_vars(Next)

-----------------------------------------------------------------------------

TypeOK ==
  /\ seq \in SUBSET Cell /\ outputs \in SUBSET Bits /\ fixed \in SUBSET Cell
  /\ reads \in [Cell -> SUBSET Bits]
  /\ base \in [Cell -> Nat \ {0}]
  /\ clock_period \in Nat
  /\ cells \in Seq(Cell) /\ order \in Seq(Cell) /\ path \in Seq(Cell)
  /\ phase \in {"BUILD", "SORT", "ARRIVAL", "REQUIRED", "TRACE", "DONE"}
  /\ indegree \in [Cell -> Nat]
  /\ next \in Nat
  /\ arrival \in [Cell -> Nat]
  /\ critical_pred \in [Cell -> Cell \cup {NoCell}]
  /\ required \in [Cell -> Int]

Acyclic ==
  \A S \in (SUBSET nodes) \ {{}} : \E c \in S : fanin(c) \cap S = {}

\* The order has every timed cell once, and, if the graph has no loop, each
\* after all its predecessors.
Topological(s) == \A i \in DOMAIN s : fanin(s[i]) \subseteq {s[j] : j \in 1 .. i - 1}
OrderRight ==
  phase \notin {"BUILD", "SORT"} =>
    /\ ToSet(order) = nodes /\ IsInjective(order)
    /\ IF Acyclic THEN Topological(order) ELSE order = cells

\* The reference: paths of the graph, and what they cost.
Paths ==
  {s \in SetToAllKPermutations(nodes) :
     s # <<>> /\ \A i \in 1 .. Len(s) - 1 : s[i] \in fanin(s[i + 1])}
cost(s) == MapThenSumSet(delay, ToSet(s))

\* A loop-free graph is analysed exactly: a cell's arrival time is the cost
\* of the dearest path that ends there ...
ArrivalIsLongestPath ==
  phase = "DONE" /\ Acyclic =>
    \A c \in nodes : arrival[c] = Max({cost(s) : s \in {t \in Paths : Last(t) = c}})

\* ... and its slack is what the dearest path through it to any endpoint
\* leaves of the required time, unless that is as large as the mark of the
\* cells that no required time has reached.
SlackIsExact ==
  phase = "DONE" /\ Acyclic /\ required_time < UNREACHED =>
    \A c \in nodes :
      LET left == {required_time - cost(s) : s \in {t \in Paths :
                     c \in ToSet(t) /\ Last(t) \in endpoints}}
      IN  slack(c) \in left /\ \A l \in left : slack(c) <= l

\* The reported critical path is a path of the graph, from a cell without
\* predecessors to the worst endpoint; its delays add up to the arrival time
\* there, and every cell on it has the slack of the endpoint.
CriticalPathExplained ==
  phase = "DONE" /\ Acyclic /\ path # <<>> =>
    /\ Reverse(path) \in Paths
    /\ fanin(Last(path)) = {}
    /\ cost(path) = arrival[path[1]]
    /\ required_time < UNREACHED => \A c \in ToSet(path) : slack(c) = end_slack(path[1])

\* Help: without -clock the required time is the "worst arrival, so worst
\* slack is 0".  With a loop the worst arrival may be that of a cell that
\* reaches no endpoint; the pass warns of loops.
WorstSlackIsZero ==
  phase = "DONE" /\ Acyclic /\ clock_period = 0 =>
    Min({end_slack(e) : e \in endpoints}) = 0

\* Required times and slacks are those of the paths, at every cell and at the
\* worst endpoint.
SlacksAreRight == SlackIsExact /\ WorstSlackIsZero

\* The pass walks the graph in an order it can rely on.
GraphIsSorted == TypeOK /\ OrderRight

\* No loop of the netlist keeps the analysis from ending.
Terminates == <>(phase = "DONE")

=============================================================================
