------------------------------ MODULE MCOptLoop ------------------------------
(* Instances of OptLoop: every option alone, and the pairs with -fast or -full. *)
EXTENDS OptLoop

Options ==
  opt_expr_options \cup opt_dff_options \cup opt_merge_options \cup opt_clean_options \cup {"-fast", "-noff"}

MCOptionSets ==
  {{}} \cup {{o} : o \in Options} \cup {{o, "-fast"} : o \in Options}
       \cup {{"-full", "-noff"}, {"-noff", "-purge"}}
=============================================================================
