----------------------------- MODULE ShareProofs -----------------------------
(***************************************************************************)
(* Proofs about my_opt_share, for every module: folds never claim a cell   *)
(* twice, whatever they add and leave in the module until the end, and     *)
(* take the driver only of what nobody reads any more.                     *)
(***************************************************************************)
EXTENDS Share, FiniteSetTheorems, FunctionTheorems, TLAPS

-----------------------------------------------------------------------------
(* The folds so far.  A fold is the selection and the two operations it    *)
(* replaces.                                                               *)

replaced(f) == {f.mux, f.ca, f.cb}
added(f) == added_cells(f.mux, f.ca, f.cb)

shared_cell(f) ==
  [f.ca EXCEPT !.id = <<"shared", f.mux.id>>, !.a = new_a(f.mux), !.b = new_b(f.mux),
               !.y = f.mux.y]

\* The module with all the cells it ever had.
whole(F) == original.cells \cup UNION {added(f) : f \in F}

\* Only the selection reads the result of an operation, at the one port or at
\* the other, unless the operation reads its result itself.
OnlyAtA(netlist, op, mux) ==
  \A c \in netlist : c # op => /\ c.a = op.y => c = mux
                               /\ c.b # op.y /\ c.s # op.y
OnlyAtB(netlist, op, mux) ==
  \A c \in netlist : c # op => /\ c.b = op.y => c = mux
                               /\ c.a # op.y /\ c.s # op.y

\* What a fold replaces: a selection between two equal operations.
IsFold(f) ==
  /\ f = [mux |-> f.mux, ca |-> f.ca, cb |-> f.cb]
  /\ replaced(f) \subseteq original.cells
  /\ f.mux.type = "$mux" /\ f.mux \notin todo
  /\ f.ca.type \in SharedTypes /\ f.cb.type \in SharedTypes /\ f.ca # f.cb
  /\ f.mux.a = f.ca.y /\ f.mux.b = f.cb.y

FoldsCounted(F) == IsFiniteSet(F) /\ Cardinality(F) = folds
FoldsFaithful(F) == \A f \in F : IsFold(f)
FoldsApart(F) == \A f, g \in F : f # g => replaced(f) \cap replaced(g) = {}
DoomedAre(F) == doomed = UNION {replaced(f) : f \in F}
CellsAre(F) == cells = IF phase = "DONE" THEN whole(F) \ doomed ELSE whole(F)
ReadersAre(F) ==
  \A f \in F : /\ ~reads_itself(f.ca.y) => OnlyAtA(whole(F), f.ca, f.mux)
               /\ ~reads_itself(f.cb.y) => OnlyAtB(whole(F), f.cb, f.mux)

Folded(F) ==
  /\ FoldsCounted(F) /\ FoldsFaithful(F) /\ FoldsApart(F)
  /\ DoomedAre(F) /\ CellsAre(F) /\ ReadersAre(F)

IInv ==
  /\ original \in Netlists
  /\ todo \subseteq {c \in original.cells : c.type = "$mux"}
  /\ phase \in {"VISIT", "DONE"}
  /\ \E F : Folded(F)

-----------------------------------------------------------------------------
(* What a fold adds.                                                       *)

\* The fields of the three cells.
LEMMA AddedCells ==
  ASSUME original \in Netlists, NEW f, f.ca \in original.cells, NEW c \in added(f)
  PROVE  \/ /\ c.id = <<"mux_a", f.mux.id>> /\ c.type = "$mux" /\ c.y = new_a(f.mux)
            /\ c.a = f.cb.a /\ c.b = f.ca.a /\ c.s = f.mux.s
         \/ /\ c.id = <<"mux_b", f.mux.id>> /\ c.type = "$mux" /\ c.y = new_b(f.mux)
            /\ c.a = f.cb.b /\ c.b = f.ca.b /\ c.s = f.mux.s
         \/ /\ c = shared_cell(f)
            /\ c.id = <<"shared", f.mux.id>> /\ c.type = f.ca.type /\ c.y = f.mux.y
            /\ c.a = new_a(f.mux) /\ c.b = new_b(f.mux) /\ c.s = f.ca.s
<1>1. f.ca = [id |-> f.ca.id, type |-> f.ca.type, params |-> f.ca.params,
              a |-> f.ca.a, b |-> f.ca.b, s |-> f.ca.s, y |-> f.ca.y]
  BY NetlistsAssumption
<1>2. /\ shared_cell(f).id = <<"shared", f.mux.id>> /\ shared_cell(f).type = f.ca.type
      /\ shared_cell(f).y = f.mux.y /\ shared_cell(f).a = new_a(f.mux)
      /\ shared_cell(f).b = new_b(f.mux) /\ shared_cell(f).s = f.ca.s
  BY <1>1 DEF shared_cell
<1>3. CASE c = addMux(<<"mux_a", f.mux.id>>, f.cb.a, f.ca.a, f.mux.s, new_a(f.mux))
  BY <1>3 DEF addMux
<1>4. CASE c = addMux(<<"mux_b", f.mux.id>>, f.cb.b, f.ca.b, f.mux.s, new_b(f.mux))
  BY <1>4 DEF addMux
<1>5. CASE c = shared_cell(f)
  BY <1>2, <1>5
<1> QED  BY <1>3, <1>4, <1>5 DEF added, added_cells, shared_cell

\* The new cells are new: their names are those of no cell of the module, nor
\* are they the names of what another fold adds, and so for the new wires.
LEMMA AddedAreNew ==
  ASSUME original \in Netlists, NEW f, replaced(f) \subseteq original.cells,
         NEW c \in added(f)
  PROVE  /\ c \notin original.cells
         /\ \A e \in original.cells : {e.a, e.b, e.s, e.y} \cap {new_a(f.mux), new_b(f.mux)} = {}
<1>1. f.mux \in original.cells /\ f.ca \in original.cells
  BY DEF replaced
<1>2. c.id \in {<<"mux_a", f.mux.id>>, <<"mux_b", f.mux.id>>, <<"shared", f.mux.id>>}
  BY <1>1, AddedCells
<1> QED  BY <1>1, <1>2, NetlistsAssumption

\* Folds with different selections add different cells and wires.
LEMMA AddedApart ==
  ASSUME original \in Netlists, NEW f, replaced(f) \subseteq original.cells,
         NEW g, replaced(g) \subseteq original.cells, f.mux # g.mux
  PROVE  /\ added(f) \cap added(g) = {}
         /\ {new_a(f.mux), new_b(f.mux)} \cap {new_a(g.mux), new_b(g.mux)} = {}
<1>1. /\ f.mux \in original.cells /\ f.ca \in original.cells
      /\ g.mux \in original.cells /\ g.ca \in original.cells
  BY DEF replaced
<1>2. f.mux.id # g.mux.id
  BY <1>1, NetlistsAssumption
<1>3. \A c \in added(f) :
        c.id \in {<<"mux_a", f.mux.id>>, <<"mux_b", f.mux.id>>, <<"shared", f.mux.id>>}
  BY <1>1, AddedCells
<1>4. \A c \in added(g) :
        c.id \in {<<"mux_a", g.mux.id>>, <<"mux_b", g.mux.id>>, <<"shared", g.mux.id>>}
  BY <1>1, AddedCells
<1>5. added(f) \cap added(g) = {}
  BY <1>2, <1>3, <1>4
<1> QED  BY <1>2, <1>5 DEF new_a, new_b

-----------------------------------------------------------------------------
(* A fold claims cells that no other fold has claimed.                     *)

\* What the test of the pass says of the readers, port by port.
LEMMA ExclusiveReaders ==
  ASSUME NEW op, NEW mux
  PROVE  /\ output_exclusive_to_mux(op, mux, "a") =>
              OnlyAtA(cells, op, mux) /\ drivers(op.y) = {op}
         /\ output_exclusive_to_mux(op, mux, "b") =>
              OnlyAtB(cells, op, mux) /\ drivers(op.y) = {op}
<1>1. ASSUME NEW port \in {"a", "b"}, output_exclusive_to_mux(op, mux, port),
             NEW c \in cells, NEW at \in {"a", "b", "s"}, <<c, at>> \in reading_ports(op.y)
      PROVE  c = op \/ (c = mux /\ at = port)
  BY <1>1 DEF output_exclusive_to_mux
<1>2. \A c \in cells : /\ c.a = op.y => <<c, "a">> \in reading_ports(op.y)
                       /\ c.b = op.y => <<c, "b">> \in reading_ports(op.y)
                       /\ c.s = op.y => <<c, "s">> \in reading_ports(op.y)
  BY DEF reading_ports
<1>3. \A port : output_exclusive_to_mux(op, mux, port) => drivers(op.y) = {op}
  BY DEF output_exclusive_to_mux
<1>4. output_exclusive_to_mux(op, mux, "a") => OnlyAtA(cells, op, mux)
  BY <1>1, <1>2 DEF OnlyAtA
<1>5. output_exclusive_to_mux(op, mux, "b") => OnlyAtB(cells, op, mux)
  BY <1>1, <1>2 DEF OnlyAtB
<1> QED  BY <1>3, <1>4, <1>5

\* The operations of a fold are cells of the module as it was, and were not
\* claimed: the selection that claimed them still reads them.
LEMMA ClaimIsNew ==
  ASSUME IInv, phase = "VISIT", NEW F, Folded(F),
         NEW mux \in todo, NEW ca \in cells, NEW cb \in cells, foldable(mux, ca, cb)
  PROVE  /\ mux \in original.cells /\ mux.type = "$mux" /\ mux \notin doomed
         /\ ca \in original.cells \ doomed /\ cb \in original.cells \ doomed
         /\ ca.type \in SharedTypes /\ cb.type \in SharedTypes /\ ca # cb
         /\ mux.a = ca.y /\ mux.b = cb.y
         /\ OnlyAtA(cells, ca, mux) /\ OnlyAtB(cells, cb, mux)
<1>1. /\ drivers(mux.a) = {ca} /\ drivers(mux.b) = {cb} /\ ca # cb
      /\ ca.type \in SharedTypes /\ cb.type \in SharedTypes
      /\ output_exclusive_to_mux(ca, mux, "a") /\ output_exclusive_to_mux(cb, mux, "b")
  BY DEF foldable, get_single_driver_cell
<1>2. mux.a = ca.y /\ mux.b = cb.y
  BY <1>1 DEF drivers
<1>3. mux \in original.cells /\ mux.type = "$mux"
  BY DEF IInv
<1>4. "$mux" \notin SharedTypes
  BY DEF SharedTypes
<1>5. cells = whole(F) /\ original \in Netlists /\ original.cells \subseteq cells
  BY DEF Folded, FoldsCounted, FoldsFaithful, FoldsApart, DoomedAre, CellsAre, ReadersAre, IInv, whole
<1>6. OnlyAtA(cells, ca, mux) /\ OnlyAtB(cells, cb, mux)
  BY <1>1, ExclusiveReaders
<1>7. ASSUME NEW f \in F
      PROVE  /\ f.mux \in cells /\ f.mux \in original.cells /\ f.ca \in original.cells
             /\ f.mux.type = "$mux" /\ f.mux # mux /\ replaced(f) \subseteq original.cells
             /\ f.mux.a = f.ca.y /\ f.mux.b = f.cb.y
             /\ f.ca.type # "$mux" /\ f.cb.type # "$mux"
  BY <1>4, <1>5 DEF Folded, FoldsCounted, FoldsFaithful, FoldsApart, DoomedAre, CellsAre, ReadersAre, IsFold, replaced
<1>8. mux \notin doomed
  BY <1>3, <1>7 DEF Folded, FoldsCounted, FoldsFaithful, FoldsApart, DoomedAre, CellsAre, ReadersAre, replaced
<1>9. ASSUME NEW op \in {ca, cb}
      PROVE  op \in original.cells
  <2>1. op \in cells /\ op.type \in SharedTypes /\ \E x : drivers(x) = {op}
    BY <1>1
  <2>2. ASSUME NEW f \in F, op \in added(f)
        PROVE  FALSE
    <3>1. op.y = f.mux.y
      BY <1>4, <1>5, <1>7, <2>1, <2>2, AddedCells
    <3>2. f.mux \in drivers(op.y)
      BY <1>7, <3>1 DEF drivers
    <3>3. drivers(op.y) = {op}
      BY <2>1 DEF drivers
    <3>4. f.mux = op
      BY <3>2, <3>3
    <3> QED  BY <1>4, <1>7, <2>1, <3>4
  <2> QED  BY <1>5, <2>1, <2>2 DEF whole
<1>10. ca \notin doomed
  <2>1. ASSUME NEW f \in F, ca \in replaced(f) PROVE FALSE
    BY <1>1, <1>4, <1>6, <1>7, <2>1 DEF OnlyAtA, replaced
  <2> QED  BY <2>1 DEF Folded, FoldsCounted, FoldsFaithful, FoldsApart, DoomedAre, CellsAre, ReadersAre
<1>11. cb \notin doomed
  <2>1. ASSUME NEW f \in F, cb \in replaced(f) PROVE FALSE
    BY <1>1, <1>4, <1>6, <1>7, <2>1 DEF OnlyAtB, replaced
  <2> QED  BY <2>1 DEF Folded, FoldsCounted, FoldsFaithful, FoldsApart, DoomedAre, CellsAre, ReadersAre
<1> QED  BY <1>1, <1>2, <1>3, <1>6, <1>8, <1>9, <1>10, <1>11

-----------------------------------------------------------------------------
(* The invariant.                                                          *)

\* Later folds make no new readers of an operation that was claimed: what they
\* read was read before, by cells that they replace.
LEMMA NoNewReader ==
  ASSUME original \in Netlists, NEW netlist, original.cells \subseteq netlist,
         NEW f, replaced(f) \subseteq original.cells,
         NEW op \in original.cells, NEW mux \in original.cells, mux.type = "$mux",
         op.type \in SharedTypes, f.mux.type = "$mux",
         f.ca.type \in SharedTypes, f.cb.type \in SharedTypes,
         ~reads_itself(op.y)
  PROVE  /\ OnlyAtA(netlist, op, mux) /\ f.mux # op /\ (f.mux = mux => mux.s # op.y)
              => OnlyAtA(netlist \cup added(f), op, mux)
         /\ OnlyAtB(netlist, op, mux) /\ f.mux # op /\ (f.mux = mux => mux.s # op.y)
              => OnlyAtB(netlist \cup added(f), op, mux)
<1>1. f.mux \in netlist /\ f.ca \in netlist /\ f.cb \in netlist /\ f.ca \in original.cells
  BY DEF replaced
<1>2. "$mux" \notin SharedTypes
  BY DEF SharedTypes
<1>3. op.y # NoSignal /\ op.a # op.y /\ op.b # op.y /\ op.s # op.y
  <2>1. op.y # NoSignal
    BY NetlistsAssumption
  <2> QED  BY <2>1 DEF reads_itself, drivers_before, reads
<1>4. new_a(f.mux) # op.y /\ new_b(f.mux) # op.y
  <2>1. {op.a, op.b, op.s, op.y} \cap {new_a(f.mux), new_b(f.mux)} = {}
    BY NetlistsAssumption DEF replaced
  <2> QED  BY <2>1
<1>5. ASSUME NEW c \in added(f), OnlyAtA(netlist, op, mux) \/ OnlyAtB(netlist, op, mux),
             f.mux # op
      PROVE  c.a # op.y /\ c.b # op.y /\ c.s # op.y
  <2>1. /\ f.ca.a # op.y /\ f.ca.b # op.y /\ f.ca.s # op.y
        /\ f.cb.a # op.y /\ f.cb.b # op.y
    BY <1>1, <1>2, <1>3, <1>5 DEF OnlyAtA, OnlyAtB
  <2>2. f.mux.s # op.y
    BY <1>1, <1>5 DEF OnlyAtA, OnlyAtB
  <2> QED  BY <1>1, <1>4, <2>1, <2>2, AddedCells
<1> QED  BY <1>5 DEF OnlyAtA, OnlyAtB

LEMMA FoldKeeps ==
  ASSUME IInv, Fold
  PROVE  IInv'
<1>1. PICK mux \in todo, ca \in cells, cb \in cells :
        /\ foldable(mux, ca, cb)
        /\ cells' = cells \cup added_cells(mux, ca, cb)
        /\ doomed' = doomed \cup {mux, ca, cb}
        /\ todo' = todo \ {mux}
  BY DEF Fold
<1>2. phase = "VISIT" /\ phase' = phase /\ original' = original /\ folds' = folds + 1
  BY DEF Fold
<1>3. PICK F : Folded(F)
  BY DEF IInv
<1>4. original \in Netlists /\ cells = whole(F) /\ original.cells \subseteq whole(F)
  BY <1>2, <1>3 DEF IInv, Folded, FoldsCounted, FoldsFaithful, FoldsApart, DoomedAre, CellsAre, ReadersAre, whole
<1>5. /\ mux \in original.cells /\ mux.type = "$mux" /\ mux \notin doomed
      /\ ca \in original.cells \ doomed /\ cb \in original.cells \ doomed
      /\ ca.type \in SharedTypes /\ cb.type \in SharedTypes /\ ca # cb
      /\ mux.a = ca.y /\ mux.b = cb.y
      /\ OnlyAtA(cells, ca, mux) /\ OnlyAtB(cells, cb, mux)
  BY <1>1, <1>2, <1>3, ClaimIsNew
<1>f. PICK f0 : f0 = [mux |-> mux, ca |-> ca, cb |-> cb]
  OBVIOUS
<1>g. PICK G : G = F \cup {f0}
  OBVIOUS
<1>6. "$mux" \notin SharedTypes
  BY DEF SharedTypes
<1>7. IsFold(f0)'
  BY <1>f, <1>1, <1>2, <1>5 DEF IsFold, replaced
<1>8. \A f \in F : IsFold(f)'
  BY <1>1, <1>2, <1>3 DEF Folded, FoldsCounted, FoldsFaithful, FoldsApart, DoomedAre, CellsAre, ReadersAre, IsFold
<1>9. replaced(f0) = {mux, ca, cb} /\ added(f0) = added_cells(mux, ca, cb)
  BY <1>f DEF replaced, added
<1>10. \A f \in F : replaced(f) \subseteq doomed
  BY <1>3 DEF Folded, FoldsCounted, FoldsFaithful, FoldsApart, DoomedAre, CellsAre, ReadersAre
<1>11. \A f \in F : replaced(f) \cap replaced(f0) = {}
  BY <1>5, <1>9, <1>10
<1>12. f0 \notin F
  BY <1>9, <1>11
<1>13. IsFiniteSet(G) /\ Cardinality(G) = folds'
  BY <1>2, <1>3, <1>12, <1>g, FS_AddElement DEF Folded, FoldsCounted, FoldsFaithful, FoldsApart, DoomedAre, CellsAre, ReadersAre
<1>14. \A f, g \in G : f # g => replaced(f) \cap replaced(g) = {}
  BY <1>3, <1>11, <1>g DEF Folded, FoldsCounted, FoldsFaithful, FoldsApart, DoomedAre, CellsAre, ReadersAre
<1>15. doomed' = UNION {replaced(f) : f \in G}
  BY <1>1, <1>3, <1>9, <1>g DEF Folded, FoldsCounted, FoldsFaithful, FoldsApart, DoomedAre, CellsAre, ReadersAre
<1>16. whole(G)' = whole(F) \cup added(f0) /\ whole(G)' = cells'
  BY <1>1, <1>2, <1>4, <1>9, <1>g DEF whole
<1>17. /\ f0.mux = mux /\ f0.ca = ca /\ f0.cb = cb
       /\ replaced(f0) \subseteq original.cells
  BY <1>f, <1>5, <1>9
<1> DEFINE netlist == whole(F) \cup added(f0)
<1>18. ASSUME NEW f \in F
       PROVE  /\ ~reads_itself(f.ca.y) => OnlyAtA(netlist, f.ca, f.mux)
              /\ ~reads_itself(f.cb.y) => OnlyAtB(netlist, f.cb, f.mux)
  <2>1. /\ f.ca \in original.cells /\ f.cb \in original.cells /\ f.mux \in original.cells
        /\ f.mux.type = "$mux" /\ f.ca.type \in SharedTypes /\ f.cb.type \in SharedTypes
        /\ f.mux # mux /\ f.ca # mux /\ f.cb # mux
    BY <1>3, <1>5, <1>10 DEF Folded, FoldsFaithful, IsFold, replaced
  <2>2. /\ ~reads_itself(f.ca.y) => OnlyAtA(whole(F), f.ca, f.mux)
        /\ ~reads_itself(f.cb.y) => OnlyAtB(whole(F), f.cb, f.mux)
    BY <1>3 DEF Folded, ReadersAre
  <2> QED  BY <1>4, <1>5, <1>17, <2>1, <2>2, NoNewReader
<1>19. /\ ~reads_itself(ca.y) => OnlyAtA(netlist, ca, mux)
       /\ ~reads_itself(cb.y) => OnlyAtB(netlist, cb, mux)
  <2>1. mux.s # ca.y /\ mux.s # cb.y /\ mux # ca /\ mux # cb
    BY <1>4, <1>5, <1>6 DEF OnlyAtA, OnlyAtB
  <2> QED  BY <1>4, <1>5, <1>17, <2>1, NoNewReader
<1>20. Folded(G)'
  <2>1. \A f \in G : IsFold(f)'
    BY <1>7, <1>8, <1>g
  <2>2. \A f \in G : /\ ~reads_itself(f.ca.y) => OnlyAtA(netlist, f.ca, f.mux)
                     /\ ~reads_itself(f.cb.y) => OnlyAtB(netlist, f.cb, f.mux)
    BY <1>17, <1>18, <1>19, <1>g
  <2>3. phase' # "DONE"
    BY <1>2
  <2>4. FoldsCounted(G)'
    BY <1>13 DEF FoldsCounted
  <2>5. FoldsApart(G)'
    BY <1>14 DEF FoldsApart, replaced
  <2>6. DoomedAre(G)'
    BY <1>15 DEF DoomedAre, replaced
  <2>7. CellsAre(G)'
    BY <1>16, <2>3 DEF CellsAre
  <2>8. FoldsFaithful(G)'
    BY <2>1 DEF FoldsFaithful
  <2>9. ReadersAre(G)'
    <3>1. netlist = whole(G)'
      BY <1>16
    <3> HIDE DEF netlist
    <3> QED  BY <1>2, <2>2, <3>1 DEF ReadersAre, OnlyAtA, OnlyAtB, reads_itself, drivers_before
  <2> QED  BY <2>4, <2>5, <2>6, <2>7, <2>8, <2>9 DEF Folded
<1>21. todo' \subseteq {c \in original'.cells : c.type = "$mux"}
  BY <1>1, <1>2 DEF IInv
<1> QED  BY <1>2, <1>4, <1>20, <1>21 DEF IInv

LEMMA InitInv == Init => IInv
<1> SUFFICES ASSUME Init PROVE IInv
  OBVIOUS
<1>1. Folded({})
  <2>1. whole({}) = cells /\ doomed = {} /\ folds = 0 /\ phase # "DONE"
    BY DEF Init, whole
  <2> QED  BY <2>1, FS_EmptySet DEF Folded, FoldsCounted, FoldsFaithful, FoldsApart, DoomedAre, CellsAre, ReadersAre
<1> QED  BY <1>1 DEF Init, IInv

LEMMA NextInv == IInv /\ [Next]_vars => IInv'
<1> SUFFICES ASSUME IInv, [Next]_vars PROVE IInv'
  OBVIOUS
<1>1. PICK F : Folded(F)
  BY DEF IInv
<1>2. CASE Fold
  BY <1>2, FoldKeeps
<1>3. CASE Skip
  <2>1. /\ UNCHANGED <<original, cells, doomed, folds, phase>> /\ todo' \subseteq todo
    BY <1>3 DEF Skip
  <2>2. Folded(F)'
    BY <1>1, <2>1 DEF Folded, FoldsCounted, FoldsFaithful, FoldsApart, DoomedAre, CellsAre, ReadersAre, replaced, IsFold, whole, OnlyAtA, OnlyAtB,
           reads_itself, drivers_before
  <2> QED  BY <2>1, <2>2 DEF IInv
<1>4. CASE Remove
  <2>1. /\ UNCHANGED <<original, todo, doomed, folds>> /\ phase = "VISIT" /\ phase' = "DONE"
        /\ cells' = cells \ doomed
    BY <1>4 DEF Remove
  <2>2. Folded(F)'
    BY <1>1, <2>1 DEF Folded, FoldsCounted, FoldsFaithful, FoldsApart, DoomedAre, CellsAre, ReadersAre, replaced, IsFold, whole, OnlyAtA, OnlyAtB,
           reads_itself, drivers_before
  <2> QED  BY <2>1, <2>2 DEF IInv
<1>5. CASE UNCHANGED vars
  <2>1. Folded(F)'
    BY <1>1, <1>5
       DEF vars, Folded, FoldsCounted, FoldsFaithful, FoldsApart, DoomedAre, CellsAre, ReadersAre, replaced, IsFold, whole, OnlyAtA, OnlyAtB, reads_itself, drivers_before
  <2> QED  BY <1>5, <2>1 DEF IInv, vars
<1> QED  BY <1>2, <1>3, <1>4, <1>5 DEF Next, Terminated

THEOREM Invariance == Spec => []IInv
BY InitInv, NextInv, PTL DEF Spec

-----------------------------------------------------------------------------
(* What a fold saves.                                                      *)

\* One-to-one images have the size of the set.
LEMMA ImageSize ==
  ASSUME NEW F, IsFiniteSet(F), NEW h, \A f, g \in F : h[f] = h[g] => f = g
  PROVE  LET T == {h[f] : f \in F} IN IsFiniteSet(T) /\ Cardinality(T) = Cardinality(F)
<1> DEFINE T == {h[f] : f \in F}
           b == [f \in F |-> h[f]]
<1>1. b \in Bijection(F, T)
  BY DEF Bijection, Injection, Surjection, IsInjective
<1>2. ExistsBijection(F, T)
  BY <1>1 DEF ExistsBijection
<1> QED  BY <1>2, FS_Bijection

Selections(F) == {f.mux : f \in F}
FirstOperations(F) == {f.ca : f \in F}
SecondOperations(F) == {f.cb : f \in F}
SharedCells(F) == {shared_cell(f) : f \in F}

\* The four families of cells that folds are about.
LEMMA Families ==
  ASSUME IInv, NEW F, Folded(F)
  PROVE  /\ \A f, g \in F : f.mux = g.mux => f = g
         /\ Cardinality(Selections(F)) = folds /\ IsFiniteSet(Selections(F))
         /\ Cardinality(FirstOperations(F)) = folds /\ IsFiniteSet(FirstOperations(F))
         /\ Cardinality(SecondOperations(F)) = folds /\ IsFiniteSet(SecondOperations(F))
         /\ Cardinality(SharedCells(F)) = folds /\ IsFiniteSet(SharedCells(F))
         /\ Selections(F) \cap (FirstOperations(F) \cup SecondOperations(F)) = {}
         /\ FirstOperations(F) \cap SecondOperations(F) = {}
         /\ doomed = Selections(F) \cup FirstOperations(F) \cup SecondOperations(F)
         /\ doomed \subseteq original.cells /\ SharedCells(F) \cap original.cells = {}
<1>1. /\ IsFiniteSet(F) /\ Cardinality(F) = folds /\ original \in Netlists
      /\ \A f, g \in F : f # g => replaced(f) \cap replaced(g) = {}
      /\ doomed = UNION {replaced(f) : f \in F}
  BY DEF Folded, FoldsCounted, FoldsApart, DoomedAre, IInv
<1>2. \A f \in F : /\ replaced(f) \subseteq original.cells
                   /\ f.mux.type = "$mux" /\ f.ca.type # "$mux" /\ f.cb.type # "$mux"
                   /\ f.ca # f.cb /\ f.ca \in original.cells
  BY DEF Folded, FoldsFaithful, IsFold, SharedTypes, replaced
<1>3. \A f, g \in F : \/ f = g
                      \/ /\ f.mux # g.mux /\ f.ca # g.ca /\ f.cb # g.cb /\ f.ca # g.cb
  BY <1>1 DEF replaced
<1>4. \A f, g \in F : shared_cell(f) = shared_cell(g) => f = g
  <2>1. \A f \in F : shared_cell(f) \in added(f)
    BY DEF shared_cell, added, added_cells
  <2> QED  BY <1>1, <1>2, <1>3, <2>1, AddedApart
<1>5. Cardinality(Selections(F)) = folds /\ IsFiniteSet(Selections(F))
  <2> DEFINE h == [f \in F |-> f.mux]
  <2>1. \A f, g \in F : h[f] = h[g] => f = g
    BY <1>3
  <2>2. Selections(F) = {h[f] : f \in F}
    BY DEF Selections
  <2> HIDE DEF h
  <2> QED  BY <1>1, <2>1, <2>2, ImageSize
<1>6. Cardinality(FirstOperations(F)) = folds /\ IsFiniteSet(FirstOperations(F))
  <2> DEFINE h == [f \in F |-> f.ca]
  <2>1. \A f, g \in F : h[f] = h[g] => f = g
    BY <1>3
  <2>2. FirstOperations(F) = {h[f] : f \in F}
    BY DEF FirstOperations
  <2> HIDE DEF h
  <2> QED  BY <1>1, <2>1, <2>2, ImageSize
<1>7. Cardinality(SecondOperations(F)) = folds /\ IsFiniteSet(SecondOperations(F))
  <2> DEFINE h == [f \in F |-> f.cb]
  <2>1. \A f, g \in F : h[f] = h[g] => f = g
    BY <1>3
  <2>2. SecondOperations(F) = {h[f] : f \in F}
    BY DEF SecondOperations
  <2> HIDE DEF h
  <2> QED  BY <1>1, <2>1, <2>2, ImageSize
<1>8. Cardinality(SharedCells(F)) = folds /\ IsFiniteSet(SharedCells(F))
  <2> DEFINE h == [f \in F |-> shared_cell(f)]
  <2>1. \A f, g \in F : h[f] = h[g] => f = g
    BY <1>4
  <2>2. SharedCells(F) = {h[f] : f \in F}
    BY DEF SharedCells
  <2> HIDE DEF h
  <2> QED  BY <1>1, <2>1, <2>2, ImageSize
<1>9. /\ Selections(F) \cap (FirstOperations(F) \cup SecondOperations(F)) = {}
      /\ FirstOperations(F) \cap SecondOperations(F) = {}
  BY <1>2, <1>3 DEF Selections, FirstOperations, SecondOperations
<1>10. doomed = Selections(F) \cup FirstOperations(F) \cup SecondOperations(F)
  BY <1>1 DEF replaced, Selections, FirstOperations, SecondOperations
<1>11. doomed \subseteq original.cells
  BY <1>1, <1>2
<1>12. SharedCells(F) \cap original.cells = {}
  <2>1. \A f \in F : shared_cell(f) \in added(f)
    BY DEF shared_cell, added, added_cells
  <2> QED  BY <1>1, <1>2, <2>1, AddedAreNew DEF SharedCells
<1> QED  BY <1>3, <1>5, <1>6, <1>7, <1>8, <1>9, <1>10, <1>11, <1>12

\* Three cells are doomed per fold.
LEMMA DoomedOnce == IInv => RemovedOnce
<1> SUFFICES ASSUME IInv PROVE RemovedOnce
  OBVIOUS
<1>1. PICK F : Folded(F)
  BY DEF IInv
<1> DEFINE M == Selections(F)
           A == FirstOperations(F)
           B == SecondOperations(F)
<1>2. /\ IsFiniteSet(M) /\ Cardinality(M) = folds /\ IsFiniteSet(A) /\ Cardinality(A) = folds
      /\ IsFiniteSet(B) /\ Cardinality(B) = folds
      /\ M \cap (A \cup B) = {} /\ A \cap B = {} /\ doomed = M \cup (A \cup B)
  BY <1>1, Families
<1> HIDE DEF M, A, B
<1>3. folds \in Nat
  BY <1>2, FS_CardinalityType
<1>4. IsFiniteSet(A \cup B) /\ Cardinality(A \cup B) = 2 * folds
  BY <1>2, <1>3, FS_Union, FS_EmptySet
<1>5. Cardinality(M \cup (A \cup B)) = 3 * folds
  <2> DEFINE X == A \cup B
  <2>1. IsFiniteSet(X) /\ Cardinality(X) = 2 * folds /\ M \cap X = {}
    BY <1>2, <1>4
  <2> HIDE DEF X
  <2>2. Cardinality(M \cup X) = Cardinality(M) + Cardinality(X) - Cardinality({})
    BY <1>2, <2>1, FS_Union
  <2>3. Cardinality(M \cup X) = 3 * folds
    BY <1>2, <1>3, <2>1, <2>2, FS_EmptySet
  <2> QED  BY <2>3 DEF X
<1> QED  BY <1>2, <1>5 DEF RemovedOnce

\* The operations at the end: those that were not replaced, and the shared ones.
LEMMA OperationsLeft ==
  ASSUME IInv, phase = "DONE", NEW F, Folded(F)
  PROVE  {c \in cells : c.type \in SharedTypes} =
           ({c \in original.cells : c.type \in SharedTypes}
              \ (FirstOperations(F) \cup SecondOperations(F))) \cup SharedCells(F)
<1>1. cells = whole(F) \ doomed /\ original \in Netlists
  BY DEF Folded, CellsAre, IInv
<1>2. \A f \in F : /\ replaced(f) \subseteq original.cells
                   /\ f.mux.type = "$mux" /\ f.ca.type \in SharedTypes
                   /\ f.ca \in original.cells
  BY DEF Folded, FoldsFaithful, IsFold, replaced
<1>3. "$mux" \notin SharedTypes
  BY DEF SharedTypes
<1>4. \A c \in Selections(F) : c.type \notin SharedTypes
  BY <1>2, <1>3 DEF Selections
<1>5. /\ doomed = Selections(F) \cup FirstOperations(F) \cup SecondOperations(F)
      /\ doomed \subseteq original.cells /\ SharedCells(F) \cap original.cells = {}
  BY Families
<1>6. ASSUME NEW c \in SharedCells(F)
      PROVE  c \in cells /\ c.type \in SharedTypes
  <2>1. PICK f \in F : c = shared_cell(f)
    BY DEF SharedCells
  <2>2. c \in added(f)
    BY <2>1 DEF shared_cell, added, added_cells
  <2>3. c.type \in SharedTypes
    <3>1. f.ca = [id |-> f.ca.id, type |-> f.ca.type, params |-> f.ca.params,
                  a |-> f.ca.a, b |-> f.ca.b, s |-> f.ca.s, y |-> f.ca.y]
      BY <1>1, <1>2, NetlistsAssumption
    <3> QED  BY <1>2, <2>1, <3>1 DEF shared_cell
  <2> QED  BY <1>1, <1>5, <2>2, <2>3 DEF whole
<1>7. ASSUME NEW c \in cells, c.type \in SharedTypes, c \notin original.cells
      PROVE  c \in SharedCells(F)
  <2>1. PICK f \in F : c \in added(f)
    BY <1>1, <1>7 DEF whole
  <2>2. c = shared_cell(f)
    BY <1>1, <1>2, <1>3, <1>7, <2>1, AddedCells
  <2> QED  BY <2>2 DEF SharedCells
<1>8. original.cells \subseteq whole(F)
  BY DEF whole
<1> QED  BY <1>1, <1>4, <1>5, <1>6, <1>7, <1>8

\* Every fold saves an operation.
LEMMA OperationsAreSaved == IInv => OperationsSaved
<1> SUFFICES ASSUME IInv, phase = "DONE"
    PROVE  Cardinality({c \in cells : c.type \in SharedTypes}) + folds
             = Cardinality({c \in original.cells : c.type \in SharedTypes})
  BY DEF OperationsSaved
<1>1. PICK F : Folded(F)
  BY DEF IInv
<1> DEFINE O == {c \in original.cells : c.type \in SharedTypes}
           A == FirstOperations(F)
           B == SecondOperations(F)
           N == SharedCells(F)
<1>2. /\ IsFiniteSet(A) /\ Cardinality(A) = folds /\ IsFiniteSet(B) /\ Cardinality(B) = folds
      /\ IsFiniteSet(N) /\ Cardinality(N) = folds /\ A \cap B = {}
      /\ N \cap original.cells = {}
  BY <1>1, Families
<1>3. {c \in cells : c.type \in SharedTypes} = (O \ (A \cup B)) \cup N
  BY <1>1, OperationsLeft
<1>4. A \cup B \subseteq O
  BY <1>1 DEF Folded, FoldsFaithful, IsFold, replaced, FirstOperations, SecondOperations
<1>5. IsFiniteSet(O)
  <2>1. IsFiniteSet(original.cells)
    BY NetlistsAssumption DEF IInv
  <2> QED  BY <2>1, FS_Subset
<1>6. O \cap N = {}
  BY <1>2
<1> HIDE DEF O, A, B, N
<1>7. folds \in Nat /\ Cardinality(O) \in Nat
  BY <1>2, <1>5, FS_CardinalityType
<1>8. IsFiniteSet(A \cup B) /\ Cardinality(A \cup B) = 2 * folds
  BY <1>2, <1>7, FS_Union, FS_EmptySet
<1> DEFINE X == A \cup B
           K == O \ X
<1>9. X \subseteq O /\ K \cap N = {} /\ IsFiniteSet(X) /\ Cardinality(X) = 2 * folds
  BY <1>4, <1>6, <1>8
<1>10. /\ IsFiniteSet(K)
       /\ Cardinality(K) = Cardinality(O) - 2 * folds
  <2> HIDE DEF X
  <2>1. O \cap X = X
    BY <1>9
  <2>2. IsFiniteSet(O \ X) /\ Cardinality(O \ X) = Cardinality(O) - Cardinality(O \cap X)
    BY <1>5, FS_Difference
  <2> QED  BY <1>9, <2>1, <2>2
<1>11. Cardinality(K \cup N) = Cardinality(O) - 2 * folds + folds
  <2> HIDE DEF K
  <2>1. Cardinality(K \cup N) = Cardinality(K) + Cardinality(N) - Cardinality({})
    BY <1>2, <1>9, <1>10, FS_Union
  <2> QED  BY <1>2, <1>7, <1>10, <2>1, FS_EmptySet
<1>12. Cardinality(O) - 2 * folds + folds + folds = Cardinality(O)
  BY <1>7
<1> QED  BY <1>3, <1>11, <1>12 DEF O

\* However the module is connected, no cell is claimed by two folds, and each fold
\* saves exactly one operation.
THEOREM FoldsAlwaysSave == Spec => []FoldsSave
<1>1. IInv => FoldsSave
  BY DoomedOnce, OperationsAreSaved DEF FoldsSave
<1> QED  BY <1>1, Invariance, PTL

-----------------------------------------------------------------------------
(* Who drives a signal when the cells are gone.                            *)

\* What the invariant says of the finished module.
LEMMA Finished ==
  ASSUME IInv, phase = "DONE", NEW F, Folded(F)
  PROVE  /\ original \in Netlists /\ cells = whole(F) \ doomed
         /\ original.cells \subseteq whole(F)
         /\ \A f \in F : /\ replaced(f) \subseteq original.cells \cap doomed
                         /\ f.mux \in original.cells /\ f.ca \in original.cells
                         /\ f.mux.type = "$mux"
                         /\ f.ca.type \in SharedTypes /\ f.cb.type \in SharedTypes
         /\ \A f, g \in F : f.mux = g.mux => f = g
         /\ \A c \in doomed : \E f \in F : c \in replaced(f)
         /\ \A f \in F : added(f) \cap original.cells = {} /\ added(f) \subseteq cells
<1>1. /\ original \in Netlists /\ cells = whole(F) \ doomed
      /\ doomed = UNION {replaced(f) : f \in F}
  BY DEF IInv, Folded, CellsAre, DoomedAre
<1>2. \A f \in F : /\ replaced(f) \subseteq original.cells
                   /\ f.mux \in original.cells /\ f.ca \in original.cells
                   /\ f.mux.type = "$mux"
                   /\ f.ca.type \in SharedTypes /\ f.cb.type \in SharedTypes
  BY DEF Folded, FoldsFaithful, IsFold, replaced
<1>3. \A f, g \in F : f.mux = g.mux => f = g
  BY Families
<1>4. \A f \in F : added(f) \cap original.cells = {}
  BY <1>1, <1>2, AddedAreNew
<1>5. doomed \subseteq original.cells
  BY <1>1, <1>2
<1>6. \A f \in F : added(f) \subseteq cells
  BY <1>1, <1>4, <1>5 DEF whole
<1>7. original.cells \subseteq whole(F)
  BY DEF whole
<1>8. \A f \in F : replaced(f) \subseteq doomed
  BY <1>1
<1>9. \A c \in doomed : \E f \in F : c \in replaced(f)
  BY <1>1
<1> QED  BY <1>1, <1>2, <1>3, <1>4, <1>6, <1>7, <1>8, <1>9

\* No cell that is left reads the result of a replaced operation.
LEMMA NobodyReads ==
  ASSUME IInv, phase = "DONE", NEW F, Folded(F), NEW f \in F,
         NEW op \in {f.ca, f.cb}, ~reads_itself(op.y), NEW c \in cells
  PROVE  c.a # op.y /\ c.b # op.y /\ c.s # op.y
<1>1. /\ cells = whole(F) \ doomed /\ {f.mux, f.ca, f.cb} \subseteq doomed
  BY Finished DEF replaced
<1>2. c \in whole(F) /\ c # f.mux /\ c # f.ca /\ c # f.cb
  BY <1>1
<1>3. /\ ~reads_itself(f.ca.y) => OnlyAtA(whole(F), f.ca, f.mux)
      /\ ~reads_itself(f.cb.y) => OnlyAtB(whole(F), f.cb, f.mux)
  BY DEF Folded, ReadersAre
<1>4. CASE op = f.ca
  BY <1>2, <1>3, <1>4 DEF OnlyAtA
<1>5. CASE op = f.cb
  BY <1>2, <1>3, <1>5 DEF OnlyAtB
<1> QED  BY <1>4, <1>5

\* A signal of the module as it was is driven by its old drivers that are left and
\* by the shared operations of the selections that drove it.
LEMMA OldSignal ==
  ASSUME IInv, phase = "DONE", NEW F, Folded(F), NEW x,
         \E e \in original.cells : x \in {e.a, e.b, e.s, e.y},
         NEW d \in cells, d.y = x
  PROVE  \/ d \in drivers_before(x) \ doomed
         \/ \E f \in F : d = shared_cell(f) /\ f.mux \in drivers_before(x)
<1>1. d \in whole(F) /\ d \notin doomed
  BY Finished
<1>2. CASE d \in original.cells
  BY <1>1, <1>2 DEF drivers_before
<1>3. ASSUME NEW f \in F, d \in added(f)
      PROVE  d = shared_cell(f) /\ f.mux \in drivers_before(x)
  <2>1. /\ original \in Netlists /\ replaced(f) \subseteq original.cells
        /\ f.ca \in original.cells /\ f.mux \in original.cells
    BY Finished
  <2>2. x # new_a(f.mux) /\ x # new_b(f.mux)
    <3>1. PICK e \in original.cells : x \in {e.a, e.b, e.s, e.y}
      OBVIOUS
    <3>2. {e.a, e.b, e.s, e.y} \cap {new_a(f.mux), new_b(f.mux)} = {}
      BY <1>3, <2>1, AddedAreNew
    <3> QED  BY <3>1, <3>2
  <2>3. d = shared_cell(f) /\ d.y = f.mux.y
    BY <1>3, <2>1, <2>2, AddedCells
  <2> QED  BY <2>1, <2>3 DEF drivers_before
<1> QED  BY <1>1, <1>2, <1>3 DEF whole

\* The shared operation of a fold drives what its selection drove.
LEMMA SharedDrives ==
  ASSUME IInv, phase = "DONE", NEW F, Folded(F), NEW f \in F
  PROVE  shared_cell(f) \in drivers(f.mux.y)
<1>1. /\ f.ca \in original.cells /\ original \in Netlists /\ added(f) \subseteq cells
  BY Finished
<1>2. shared_cell(f) \in cells
  BY <1>1 DEF shared_cell, added, added_cells
<1>3. shared_cell(f).y = f.mux.y
  <2>1. f.ca = [id |-> f.ca.id, type |-> f.ca.type, params |-> f.ca.params,
                a |-> f.ca.a, b |-> f.ca.b, s |-> f.ca.s, y |-> f.ca.y]
    BY <1>1, NetlistsAssumption
  <2> QED  BY <2>1 DEF shared_cell
<1> QED  BY <1>2, <1>3 DEF drivers

\* A wire of the pass has one driver, the new selection that was made for it.
LEMMA NewWire ==
  ASSUME IInv, phase = "DONE", NEW F, Folded(F), NEW f \in F,
         NEW x \in {new_a(f.mux), new_b(f.mux)}
  PROVE  Cardinality(drivers(x)) = 1
<1>1. /\ original \in Netlists /\ added(f) \subseteq cells
      /\ \A g \in F : /\ replaced(g) \subseteq original.cells
                      /\ g.ca \in original.cells /\ g.mux \in original.cells
      /\ \A g \in F : f.mux = g.mux => f = g
      /\ cells \subseteq whole(F)
  BY Finished
<1> DEFINE ma == addMux(<<"mux_a", f.mux.id>>, f.cb.a, f.ca.a, f.mux.s, new_a(f.mux))
           mb == addMux(<<"mux_b", f.mux.id>>, f.cb.b, f.ca.b, f.mux.s, new_b(f.mux))
<1>2. /\ ma \in cells /\ ma.y = new_a(f.mux) /\ mb \in cells /\ mb.y = new_b(f.mux)
  BY <1>1 DEF added, added_cells, addMux
<1>3. new_a(f.mux) # new_b(f.mux)
  BY DEF new_a, new_b
<1>4. \A e \in original.cells : {e.a, e.b, e.s, e.y} \cap {new_a(f.mux), new_b(f.mux)} = {}
  <2>1. ma \in added(f)
    BY DEF added, added_cells
  <2> QED  BY <1>1, <2>1, AddedAreNew
<1>5. ASSUME NEW d \in cells, d.y = x
      PROVE  d \in added(f) /\ d.y # f.mux.y
  <2>1. d \notin original.cells
    BY <1>4, <1>5
  <2>2. PICK g \in F : d \in added(g)
    BY <1>1, <2>1 DEF whole
  <2>3. d.y # g.mux.y
    BY <1>1, <1>4, <1>5
  <2>4. d.y \in {new_a(g.mux), new_b(g.mux)}
    BY <1>1, <2>2, <2>3, AddedCells
  <2>5. g = f
    BY <1>1, <1>5, <2>4, AddedApart
  <2> QED  BY <2>2, <2>3, <2>5
<1>6. \A d \in added(f) : d.y # f.mux.y => d = ma \/ d = mb
  <2>1. \A d \in added(f) : d = ma \/ d = mb \/ d = shared_cell(f)
    BY DEF added, added_cells, shared_cell
  <2>2. shared_cell(f).y = f.mux.y
    BY SharedDrives DEF drivers
  <2> QED  BY <2>1, <2>2
<1> HIDE DEF ma, mb
<1>7. drivers(x) = {ma} \/ drivers(x) = {mb}
  BY <1>2, <1>3, <1>5, <1>6 DEF drivers
<1> QED  BY <1>7, FS_Singleton

\* Every signal that is read keeps its one driver.
LEMMA OneDriverLeft == IInv => OneDriver
<1> SUFFICES ASSUME IInv, phase = "DONE", NEW c \in cells, NEW x \in reads(c)
    PROVE  \/ Cardinality(drivers(x)) = 1
           \/ /\ \E e \in original.cells : x \in {e.a, e.b, e.s, e.y}
              /\ Cardinality(drivers_before(x)) # 1 \/ reads_itself(x)
  BY DEF OneDriver
<1>1. PICK F : Folded(F)
  BY DEF IInv
<1>2. x \in {c.a, c.b, c.s}
  BY DEF reads
<1>3. CASE ~\E e \in original.cells : x \in {e.a, e.b, e.s, e.y}
  <2>1. PICK f \in F : c \in added(f)
    BY <1>1, <1>2, <1>3, Finished DEF whole
  <2>2. /\ original \in Netlists
        /\ f.ca \in original.cells /\ f.cb \in original.cells /\ f.mux \in original.cells
    BY <1>1, Finished DEF replaced
  <2>3. x \in {new_a(f.mux), new_b(f.mux)}
    BY <1>2, <1>3, <2>1, <2>2, AddedCells
  <2> QED  BY <1>1, <2>3, NewWire
<1>4. CASE /\ \E e \in original.cells : x \in {e.a, e.b, e.s, e.y}
           /\ Cardinality(drivers_before(x)) = 1 /\ ~reads_itself(x)
  <2>1. PICK d : drivers_before(x) = {d}
    <3>1. IsFiniteSet(original.cells)
      BY NetlistsAssumption DEF IInv
    <3>2. IsFiniteSet(drivers_before(x))
      BY <3>1, FS_Subset DEF drivers_before
    <3> QED  BY <1>4, <3>2, FS_Singleton
  <2>2. d \in original.cells /\ d.y = x
    BY <2>1 DEF drivers_before
  <2>3. ASSUME NEW e \in cells, e.y = x
        PROVE  \/ e = d /\ d \notin doomed
               \/ \E f \in F : e = shared_cell(f) /\ f.mux = d
    BY <1>1, <1>4, <2>1, <2>3, OldSignal
  <2>4. CASE d \notin doomed
    <3>1. d \in drivers(x)
      BY <1>1, <2>2, <2>4, Finished DEF drivers
    <3>2. \A f \in F : f.mux \in doomed
      BY <1>1, Finished DEF replaced
    <3>3. drivers(x) = {d}
      BY <2>3, <2>4, <3>1, <3>2 DEF drivers
    <3> QED  BY <3>3, FS_Singleton
  <2>5. ASSUME NEW f \in F, d = f.mux PROVE Cardinality(drivers(x)) = 1
    <3>1. shared_cell(f) \in drivers(x)
      BY <1>1, <2>2, <2>5, SharedDrives
    <3>2. d \in doomed /\ \A g \in F : f.mux = g.mux => f = g
      BY <1>1, <2>5, Finished DEF replaced
    <3>3. drivers(x) = {shared_cell(f)}
      BY <2>3, <2>5, <3>1, <3>2 DEF drivers
    <3> QED  BY <3>3, FS_Singleton
  <2>6. ASSUME NEW f \in F, d \in {f.ca, f.cb} PROVE FALSE
    BY <1>1, <1>2, <1>4, <2>2, <2>6, NobodyReads
  <2>7. d \in doomed => \E f \in F : d \in {f.mux, f.ca, f.cb}
    BY <1>1, Finished DEF replaced
  <2> QED  BY <2>4, <2>5, <2>6, <2>7
<1> QED  BY <1>3, <1>4

\* Only the result of an operation that was replaced is left without a driver.
LEMMA OnlySharedLost == IInv => LostOnlyIfShared
<1> SUFFICES ASSUME IInv, phase = "DONE", NEW e \in original.cells, drivers(e.y) = {}
    PROVE  /\ \A c \in drivers_before(e.y) : c \in doomed /\ c.type \in SharedTypes
           /\ reading_ports(e.y) = {} \/ reads_itself(e.y)
  BY DEF LostOnlyIfShared
<1>1. PICK F : Folded(F)
  BY DEF IInv
<1>2. ASSUME NEW c \in drivers_before(e.y)
      PROVE  c \in doomed /\ \E f \in F : c \in {f.ca, f.cb} /\ c.type \in SharedTypes
  <2>1. c \in original.cells /\ c.y = e.y
    BY DEF drivers_before
  <2>2. c \in doomed
    BY <1>1, <2>1, Finished DEF drivers
  <2>3. PICK f \in F : c \in replaced(f)
    BY <1>1, <2>2, Finished
  <2>4. c # f.mux
    BY <1>1, <2>1, SharedDrives
  <2>5. f.ca.type \in SharedTypes /\ f.cb.type \in SharedTypes
    BY <1>1, Finished
  <2> QED  BY <2>2, <2>3, <2>4, <2>5 DEF replaced
<1>3. ASSUME ~reads_itself(e.y), NEW p \in reading_ports(e.y) PROVE FALSE
  <2>1. /\ p[1] \in cells
        /\ p[1].a = e.y \/ p[1].b = e.y \/ p[1].s = e.y
    BY DEF reading_ports
  <2>2. e \in drivers_before(e.y)
    BY DEF drivers_before
  <2>3. PICK f \in F : e \in {f.ca, f.cb}
    BY <1>2, <2>2
  <2> QED  BY <1>1, <1>3, <2>1, <2>3, NobodyReads
<1> QED  BY <1>2, <1>3

\* However the module is connected: whatever is read keeps exactly one driver, and
\* what loses its driver is the result of a replaced operation, with no reader.
THEOREM DriversAreAlwaysKept == Spec => []DriversKept
<1>1. IInv => DriversKept
  BY OneDriverLeft, OnlySharedLost DEF DriversKept
<1> QED  BY <1>1, Invariance, PTL

=============================================================================
