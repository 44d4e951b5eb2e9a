------------------------------- MODULE MCDce -------------------------------
(* An instance of Dce: three gates and a flip-flop.  Gate 1 is two bits     *)
(* wide and drives bits 1 and 2, gates 2 and 3 drive bits 3 and 4.  Every   *)
(* way to connect one port of gate 1 and two ports of gates 2 and 3, loops  *)
(* included; the flip-flop, of which all ports count as uses, reads one     *)
(* bit; gate 3 may be unselected.                                           *)
EXTENDS Dce

MCCell == 1 .. 4
MCBit == 1 .. 4
MCPort == {"A", "B"}
Drives == [c \in MCCell |-> CASE c = 1 -> {1, 2} [] c = 2 -> {3} [] c = 3 -> {4}
                              [] OTHER -> {}]

Reads(cell, port, bits) == {[owner |-> cell, port |-> port, bit |-> b] : b \in bits}

\* At most one bit.
Maybe(bits) == {{}} \cup {{b} : b \in bits}

MCNetlists ==
  {[candidates |-> gates, out |-> Drives,
    pins |-> Reads(1, "A", a1) \cup Reads(2, "A", a2) \cup Reads(2, "B", b2)
               \cup Reads(3, "A", a3) \cup Reads(3, "B", b3)
               \cup Reads(4, "A", q) \cup Reads(Module, "A", y)] :
     gates \in {1 .. 3, 1 .. 2},
     a1 \in Maybe({3, 4}), a2 \in Maybe(MCBit), b2 \in Maybe({1, 2}),
     a3 \in Maybe(MCBit), b3 \in Maybe({1, 3}),
     q \in Maybe({2, 3}), y \in Maybe({1, 3, 4})}
=============================================================================
