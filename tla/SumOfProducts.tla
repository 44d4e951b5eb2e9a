---------------------------- MODULE SumOfProducts ----------------------------
(***************************************************************************)
(* Sums of products over named bits, and the cells built from them, as     *)
(* my_opt_qm and my_opt_cover share them.  A cube has the variables it      *)
(* needs 1 and those it needs 0.                                           *)
(***************************************************************************)
EXTENDS Integers, FiniteSetsExt, SequencesExt, TLC

covers(cube, minterm) == cube.pos \subseteq minterm /\ cube.neg \cap minterm = {}
literals(cube) == cube.pos \cup cube.neg

cubes(V) == {c \in [pos : SUBSET V, neg : SUBSET V] : c.pos \cap c.neg = {}}

primes(on, dc, V) ==
  LET implicants == {c \in cubes(V) : \A m \in SUBSET V : covers(c, m) => m \in on \cup dc}
  IN  {c \in implicants : \A d \in implicants :
         d.pos \subseteq c.pos /\ d.neg \subseteq c.neg => d = c}

sop_cost(cover) == 64 * Cardinality(cover) + MapThenSumSet(LAMBDA c : Cardinality(literals(c)), cover)

-----------------------------------------------------------------------------
\* The new cells.  A signal under construction comes with the cells it needs
\* and the next free number.

gate(type, n, a, b) ==
  [name |-> "$" \o ToString(n), type |-> type, A |-> <<a>>, B |-> b, S |-> <<>>,
   Y |-> <<"$" \o ToString(n)>>, a_signed |-> FALSE, b_signed |-> FALSE]

inverted(net, v) ==
  LET inv == gate("$not", net.next, v, <<>>)
  IN  [bits |-> Append(net.bits, inv.name), cells |-> net.cells \cup {inv}, next |-> net.next + 1]

\* The bits of net from position k on become one bit, by two-input gates.
accumulate(type, net, k) ==
  LET rest == SubSeq(net.bits, k, Len(net.bits))
      step(acc, b) ==
        LET g == gate(type, acc.next, acc.out, <<b>>)
        IN  [out |-> g.name, cells |-> acc.cells \cup {g}, next |-> acc.next + 1]
      all == FoldLeft(step, [out |-> rest[1], cells |-> net.cells, next |-> net.next], Tail(rest))
  IN  [bits |-> Append(SubSeq(net.bits, 1, k - 1), all.out), cells |-> all.cells, next |-> all.next]

build_cube(net, cube) ==
  LET k == Len(net.bits) + 1
      plain == [net EXCEPT !.bits = @ \o SetToSeq(cube.pos)]
      factors == FoldSet(LAMBDA v, acc : inverted(acc, v), plain, cube.neg)
  IN  IF literals(cube) = {} THEN [net EXCEPT !.bits = Append(@, "1")]
      ELSE accumulate("$and", factors, k)

build_sop(cover, n) ==
  LET empty == [bits |-> <<>>, cells |-> {}, next |-> n]
      terms == FoldSet(LAMBDA c, acc : build_cube(acc, c), empty, cover)
  IN  IF cover = {} THEN [empty EXCEPT !.bits = <<"0">>] ELSE accumulate("$or", terms, 1)

=============================================================================
