-------------------------------- MODULE Cones --------------------------------
(***************************************************************************)
(* Cones of a netlist and what they compute.  A bit is a constant or a     *)
(* wire bit.  A cell is a record: its name, its type, the bits of its      *)
(* ports A, B, S and Y, and whether A and B are signed.  The operators     *)
(* take the cells of a module as their first argument.                     *)
(***************************************************************************)
EXTENDS CellSemantics, Functions

drivers(cells, b) == {c \in cells : b \in Range(c.Y)}
operands(c) == Range(c.A) \cup Range(c.B) \cup Range(c.S)
feeders(cells, c) == UNION {drivers(cells, b) : b \in operands(c)}

\* The cells from which the cells of S are reached, S included.
cone_of(cells, S) ==
  LET grow[n \in 0 .. Cardinality(cells)] ==
        IF n = 0 THEN S
        ELSE LET before == grow[n - 1] IN before \cup UNION {feeders(cells, c) : c \in before}
  IN  grow[Cardinality(cells)]

collect_cone_cells(cells, b) == cone_of(cells, drivers(cells, b))

\* A bit that no known cell drives is a variable.
support(cells, b) ==
  {q \in {b} \cup UNION {operands(c) : c \in collect_cone_cells(cells, b)} :
     q \notin Bit /\ drivers(cells, q) = {}}

loop_free(cells, b) ==
  \A c \in collect_cone_cells(cells, b) : c \notin cone_of(cells, feeders(cells, c))

\* The value of bit b if Y of every cell is obtained by cell_value, and
\* undriven bits by leaf.
value_of(cell_value(_, _, _, _), leaf(_), cells, b) ==
  LET bits == {b} \cup UNION {operands(c) \cup Range(c.Y) : c \in cells}
      value[q \in bits] ==
        IF q \in Bit THEN q
        ELSE IF drivers(cells, q) = {} THEN leaf(q)
        ELSE LET c == CHOOSE d \in drivers(cells, q) : TRUE
                 of(sig) == [i \in 1 .. Len(sig) |-> value[sig[i]]]
                 y == cell_value(c, of(c.A), of(c.B), of(c.S))
             IN  y[CHOOSE i \in 1 .. Len(c.Y) : c.Y[i] = q]
  IN  value[b]

=============================================================================
