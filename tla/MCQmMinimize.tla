---------------------------- MODULE MCQmMinimize ----------------------------
(* Instances of QmMinimize.                                                 *)
EXTENDS QmMinimize

\* All truth tables over NumVars variables.
AllFunctions ==
  {[on |-> {m \in Minterm : f[m] = 1}, dc |-> {m \in Minterm : f[m] = 2}] :
     f \in [Minterm -> 0 .. 2]}
=============================================================================
