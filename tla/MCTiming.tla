------------------------------ MODULE MCTiming ------------------------------
(* Instances of Timing.                                                     *)
EXTENDS Timing

CONSTANTS a, b, c, d

\* A register r that reads one of the gates.
Register(r, gate, reading) == [x \in Cell |-> IF x = r THEN {gate} ELSE reading[x]]

Delays(p, q, r, s) == [x \in Cell |-> CASE x = a -> p [] x = b -> q [] x = c -> r [] OTHER -> s]

\* Every graph of three gates, loops included; the fourth cell is a register.
Loops ==
  {[seq |-> {d}, reads |-> Register(d, a, f), outputs |-> o \cup {Source},
    base |-> w, fixed |-> {b}] :
     f \in {g \in [Cell -> SUBSET {a, b, c}] : \A x \in Cell : x \notin g[x]
                                                /\ (x = d => g[x] = {})},
     o \in {{}, {c}, {a, c}},
     w \in {Delays(1, 1, 1, 1), Delays(3, 1, 2, 1)}}

\* Every graph of four gates in which the edges go from a to d.
Above == [x \in {a, b, c, d} |-> CASE x = a -> {} [] x = b -> {a} [] x = c -> {a, b}
                                   [] OTHER -> {a, b, c}]
Dags ==
  {[seq |-> {}, reads |-> f, outputs |-> o, base |-> w, fixed |-> {}] :
     f \in {g \in [Cell -> SUBSET {a, b, c}] : \A x \in Cell : g[x] \subseteq Above[x]},
     o \in {{d}, {b, Source}},
     w \in {Delays(1, 2, 1, 3), Delays(2, 1, 3, 1)}}

MCNetlists == Loops \cup Dags
MCSelections == {<<c, a, b>>, <<d, b, c, a>>, <<b, d>>}
=============================================================================
