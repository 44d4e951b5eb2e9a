------------------------------ MODULE MCShare ------------------------------
(* Instances of Share: three operations and two selections, connected in    *)
(* many ways, the second selection possibly behind the first.               *)
EXTENDS Share

W(name) == <<name, 0>>
Op(id, type, params, x, y, out) ==
  [id |-> W(id), type |-> type, params |-> params, a |-> W(x), b |-> W(y),
   s |-> NoSignal, y |-> W(out)]
Mux(id, x, y, sel, out) == addMux(W(id), W(x), W(y), W(sel), W(out))

Candidates ==
  {[cells |-> {Op("o1", t, "p", "i1", "i2", "t1"), Op("o2", t2, p2, "i2", x2, "t2"),
               Op("o3", t, "p", x3, "i2", "t3"),
               Mux("m1", a1, b1, "s1", "y"), Mux("m2", a2, b2, s2, z)},
    inputs |-> {W("i1"), W("i2"), W("s1"), W("s2")}] :
     t \in {"$sub"}, t2 \in {"$sub", "$add"}, p2 \in {"p", "q"}, x2 \in {"i1", "t1", "t2"},
     x3 \in {"i1", "y", "t1"}, a1 \in {"t1", "t3", "i1"}, b1 \in {"t2", "t1"},
     a2 \in {"t1", "y", "t3"}, b2 \in {"t2", "t3"}, s2 \in {"s2", "t1"}, z \in {"z", "y"}}

\* Those without a loop and with one driver per signal.
MCNetlists ==
  {n \in Candidates :
     /\ \A S \in (SUBSET n.cells) \ {{}} : \E c \in S : \A d \in S : d.y \notin reads(c)
     /\ \A c, d \in n.cells : c.y = d.y => c = d}
=============================================================================
