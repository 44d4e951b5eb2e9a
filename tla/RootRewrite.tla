----------------------------- MODULE RootRewrite -----------------------------
(***************************************************************************)
(* What a minimizing pass promises about one root it works on: the root    *)
(* keeps its function, and it is rewritten, if at all, for something       *)
(* cheaper by the pass's own cost estimate.                                *)
(***************************************************************************)
EXTENDS Integers

VARIABLES function,   \* the minterms on which the root is 1
          cost        \* the pass's estimate of the logic under the root

Init == cost \in Nat

Rewrite ==
  /\ function' = function
  /\ cost' \in Nat
  /\ cost' < cost

Next == Rewrite

Spec == Init /\ [][Next]_<<function, cost>>

=============================================================================
