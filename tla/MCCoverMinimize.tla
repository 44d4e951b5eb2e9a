--------------------------- MODULE MCCoverMinimize ---------------------------
(* Instances of CoverMinimize with four variables: the sets of two or three *)
(* products over the first three, of which one is positive (renaming and    *)
(* negating variables takes every other set of products with as many        *)
(* elements to one of these), all of them with the fourth variable as a     *)
(* further literal, and two matrices that need four variables.              *)
EXTENDS CoverMinimize

Guarded == {c \in Cube : 3 \in c.val}
Positive == {c \in Guarded : c.val = Vars \ c.dc}
ThreeVariables == {{a, b, c} : a \in Positive, b, c \in Guarded}
MCExtraCosts == {1}

\* Two matrices whose second round, REDUCE and EXPAND, ends dearer than the
\* first.  A cube is given by the variables that occur positively, negatively.
Of(positive, negative) ==
  [val |-> positive, dc |-> Vars \ (positive \cup negative)]
Rebounding ==
  {{Of({1}, {3}), Of({}, {0, 1, 3}), Of({0, 3}, {2}), Of({2}, {1, 3})},
   {Of({0}, {3}), Of({0, 3}, {2}), Of({0}, {1}), Of({1, 3}, {0})}}

MCInputs == ThreeVariables \cup Rebounding
=============================================================================
