----------------------------- MODULE MCWebFlow ------------------------------
(* Instances of WebFlow: a page with up to two runs beside one with one run. *)
EXTENDS WebFlow

CONSTANTS p1, p2

MCProfiles ==
  [q \in {"compiler", "basic", "full"} |->
     CASE q = "compiler" -> <<>>
       [] q = "basic" -> <<"expr", "dce">>
       [] q = "full" -> <<"dce", "rewrite", "cleanup", "timing">>]

Ask(source, profile, algorithms) == [source |-> source, profile |-> profile, algorithms |-> algorithms]

\* One run of any algorithms; two runs of few, the first possibly refused; two
\* pages at a time.
Alone == {[p1 |-> <<Ask("logic", "full", ids)>>, p2 |-> <<>>] : ids \in SUBSET Range(MCProfiles["full"])}
Twice == {[p1 |-> <<x, y>>, p2 |-> <<>>] : x \in {Ask("logic", "compiler", {}), Ask("logic", "basic", {"dce"})},
                                           y \in {Ask("arith", "compiler", {}), Ask("", "basic", {"expr"})}}
Beside == {[p1 |-> <<Ask("logic", "compiler", {})>>, p2 |-> <<Ask("arith", "compiler", {})>>]}

MCUsers == {[p \in Pages |-> IF p = p1 THEN u.p1 ELSE u.p2] : u \in Alone \cup Twice \cup Beside}
=============================================================================
