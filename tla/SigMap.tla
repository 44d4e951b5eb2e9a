-------------------------------- MODULE SigMap --------------------------------
(***************************************************************************)
(* Connections of a module.  They join bits; every joined bit has an alias *)
(* that stands for all bits joined with it.  A map takes bits to their     *)
(* aliases; a bit it does not hold is its own.                             *)
(***************************************************************************)
EXTENDS CellSemantics, TLC

alias(map, b) == IF b \in DOMAIN map THEN map[b] ELSE b
aliases(map, sig) == [i \in DOMAIN sig |-> alias(map, sig[i])]
mapped(map, c) ==
  [c EXCEPT !.A = aliases(map, @), !.B = aliases(map, @), !.S = aliases(map, @), !.Y = aliases(map, @)]

\* Bits p and q become one; of the two a constant stays.
joined(map, p, q) ==
  LET from == IF alias(map, p) \in Bit THEN alias(map, q) ELSE alias(map, p)
      to   == IF alias(map, p) \in Bit THEN alias(map, p) ELSE alias(map, q)
      members == {from} \cup {b \in DOMAIN map : map[b] = from}
  IN  IF from = to \/ from \in Bit THEN map ELSE [b \in members |-> to] @@ map

connect(map, first, second) ==
  LET after[i \in 0 .. Len(first)] ==
        IF i = 0 THEN map ELSE LET before == after[i - 1] IN joined(before, first[i], second[i])
  IN  after[Len(first)]

=============================================================================
