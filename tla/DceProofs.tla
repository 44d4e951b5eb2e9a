----------------------------- MODULE DceProofs -----------------------------
(***************************************************************************)
(* Proofs about my_opt_dce, for every netlist: the use counts stay exact,  *)
(* nothing that stays reads what is removed, and the set of removed cells  *)
(* is the least one that the definition of a dead cell allows.             *)
(***************************************************************************)
EXTENDS Dce, SequenceTheorems, FiniteSetTheorems, TLAPS

(* Elements of a queue.                                                    *)
LEMMA ToSetAppend ==
  ASSUME NEW S, NEW q \in Seq(S), NEW x \in S
  PROVE  /\ Append(q, x) \in Seq(S)
         /\ ToSet(Append(q, x)) = ToSet(q) \cup {x}
<1>1. /\ Append(q, x) \in Seq(S) /\ Len(Append(q, x)) = Len(q) + 1
      /\ \A i \in 1 .. Len(q) : Append(q, x)[i] = q[i]
      /\ Append(q, x)[Len(q) + 1] = x
  BY AppendProperties
<1>2. /\ DOMAIN q = 1 .. Len(q) /\ Len(q) \in Nat
      /\ DOMAIN Append(q, x) = 1 .. Len(q) + 1
  BY <1>1, LenProperties
<1> QED  BY <1>1, <1>2 DEF ToSet

LEMMA ToSetTail ==
  ASSUME NEW S, NEW q \in Seq(S), q # <<>>
  PROVE  /\ Head(q) \in S /\ Tail(q) \in Seq(S)
         /\ ToSet(q) \subseteq ToSet(Tail(q)) \cup {Head(q)}
<1>1. /\ Head(q) \in S /\ Tail(q) \in Seq(S) /\ Len(Tail(q)) = Len(q) - 1
      /\ \A i \in 1 .. Len(Tail(q)) : Tail(q)[i] = q[i + 1]
  BY HeadTailProperties
<1>2. /\ DOMAIN q = 1 .. Len(q) /\ Len(q) \in Nat
      /\ DOMAIN Tail(q) = 1 .. Len(q) - 1
  BY <1>1, LenProperties
<1>3. ASSUME NEW i \in 1 .. Len(q) PROVE q[i] \in ToSet(Tail(q)) \cup {Head(q)}
  <2>1. CASE i = 1
    BY <2>1
  <2>2. CASE i # 1
    <3>1. i - 1 \in 1 .. Len(q) - 1 /\ i - 1 + 1 = i
      BY <1>2, <2>2
    <3>2. Tail(q)[i - 1] = q[i]
      BY <1>1, <3>1
    <3> QED  BY <1>2, <3>1, <3>2 DEF ToSet
  <2> QED  BY <2>1, <2>2
<1> QED  BY <1>1, <1>2, <1>3 DEF ToSet

(* A sequence without repetitions, as long as a finite set is large, has   *)
(* every element of the set.                                               *)
LEMMA SetToSeqsElements ==
  ASSUME NEW S, IsFiniteSet(S), NEW q \in SetToSeqs(S)
  PROVE  q \in Seq(S) /\ ToSet(q) = S
<1> DEFINE n == Cardinality(S)
<1>1. n \in Nat /\ IsFiniteSet(1 .. n) /\ Cardinality(1 .. n) = n
  BY FS_CardinalityType, FS_Interval
<1>2. q \in [1 .. n -> S] /\ \A i, j \in 1 .. n : i # j => q[i] # q[j]
  BY DEF SetToSeqs
<1>3. q \in Injection(1 .. n, S)
  BY <1>2 DEF Injection, IsInjective
<1>4. q \in Surjection(1 .. n, S)
  BY <1>1, <1>3, FS_Injection
<1> HIDE DEF n
<1>5. q \in Seq(S)
  BY <1>1, <1>2
<1>6. \A s \in S : \E i \in 1 .. n : q[i] = s
  BY <1>4 DEF Surjection
<1> QED  BY <1>2, <1>5, <1>6 DEF ToSet

-----------------------------------------------------------------------------

(* The pins whose use of a bit is still counted.                           *)
counted(b) == {p \in pins_on(b) : p.owner \notin removed \/ p \in releasing}

(* Net: what Init chose.  Forced: no closed set spares a removed cell.     *)
(* Queued: with one driver for each bit, a dead cell that is still there   *)
(* is in the queue.                                                        *)
Net ==
  /\ IsFiniteSet(pins)
  /\ \A b \in Bit :
       /\ bit_driver[b] # NoCell => b \in out[bit_driver[b]]
       /\ (\E c \in candidates : b \in out[c]) => bit_driver[b] # NoCell
Releasing == \A p \in releasing : p.owner \in removed
Forced == \A S \in SUBSET candidates : Closed(S) => removed \subseteq S
Queued ==
  SingleDriver =>
    \A c \in candidates \ removed : outputs_are_dead(c) => c \in ToSet(dead_queue)
Stopped == phase = "DONE" => dead_queue = <<>> /\ releasing = {}

IInv ==
  /\ TypeOK /\ UsesExact /\ NoDanglingReader
  /\ Net /\ Releasing /\ Forced /\ Queued /\ Stopped

(* A bit whose count is zero is read by removed cells only, and they have  *)
(* given their uses back; and conversely.                                  *)
LEMMA ZeroUses ==
  ASSUME IInv, NEW b \in Bit
  PROVE  /\ IsFiniteSet(counted(b)) /\ uses[b] = Cardinality(counted(b))
         /\ uses[b] \in Nat
         /\ uses[b] = 0 <=> counted(b) = {}
<1>1. counted(b) \in SUBSET pins
  BY DEF counted, pins_on
<1>2. IsFiniteSet(counted(b))
  BY <1>1, FS_Subset DEF IInv, Net
<1>3. uses[b] = Cardinality(counted(b))
  BY DEF IInv, UsesExact, counted
<1> QED  BY <1>2, <1>3, FS_EmptySet, FS_CardinalityType

LEMMA InitInv == Init => IInv
<1> SUFFICES ASSUME Init PROVE IInv
  OBVIOUS
<1>1. PICK n \in Netlists : candidates = n.candidates /\ out = n.out /\ pins = n.pins
  BY DEF Init
<1>2. /\ candidates \in SUBSET Cell /\ out \in [Cell -> SUBSET Bit]
      /\ pins \in SUBSET Pin /\ IsFiniteSet(pins)
  BY <1>1, NetlistsAssumption
<1>3. /\ removed = {} /\ releasing = {} /\ phase = "QUEUE"
      /\ bit_driver \in [Bit -> candidates \cup {NoCell}]
      /\ uses = [b \in Bit |-> Cardinality(pins_on(b))]
  BY DEF Init, use_count
<1>4. uses \in [Bit -> Nat]
  <2>1. ASSUME NEW b \in Bit PROVE Cardinality(pins_on(b)) \in Nat
    BY <1>2, FS_Subset, FS_CardinalityType DEF pins_on
  <2> QED  BY <1>3, <2>1
<1>5. UsesExact
  <2>1. \A b \in Bit : {p \in pins_on(b) : p.owner \notin removed \/ p \in releasing}
                         = pins_on(b)
    BY <1>3
  <2> QED  BY <1>3, <2>1 DEF UsesExact
<1> DEFINE Dead == {c \in candidates : outputs_are_dead(c)}
<1>6. dead_queue \in Seq(Dead) /\ ToSet(dead_queue) = Dead
  <2>1. IsFiniteSet(Dead)
    BY <1>2, CellAssumption, FS_Subset
  <2>2. dead_queue \in SetToSeqs(Dead)
    BY DEF Init
  <2> HIDE DEF Dead
  <2> QED  BY <2>1, <2>2, SetToSeqsElements
<1>7. dead_queue \in Seq(candidates)
  BY <1>6, SeqMonotonic
<1>8. Net
  <2>1. \A b \in Bit :
          IF \E c \in candidates : b \in out[c]
          THEN bit_driver[b] # NoCell /\ b \in out[bit_driver[b]]
          ELSE bit_driver[b] = NoCell
    BY DEF Init
  <2> QED  BY <1>2, <2>1 DEF Net
<1> QED
  BY <1>2, <1>3, <1>4, <1>5, <1>6, <1>7, <1>8
  DEF IInv, TypeOK, NoDanglingReader, Releasing, Forced, Queued, Stopped

LEMMA PopInv == IInv /\ Pop => IInv'
<1> SUFFICES ASSUME IInv, Pop PROVE IInv'
  OBVIOUS
<1> DEFINE cell == Head(dead_queue)
           take == cell \notin removed /\ outputs_are_dead(cell)
<1>1. /\ phase = "QUEUE" /\ releasing = {} /\ dead_queue # <<>>
      /\ dead_queue' = Tail(dead_queue)
      /\ removed' = IF take THEN removed \cup {cell} ELSE removed
      /\ releasing' = IF take THEN pins_of(cell) ELSE {}
      /\ UNCHANGED <<candidates, out, pins, bit_driver, uses, phase>>
  BY DEF Pop, netlist
<1>2. /\ cell \in candidates /\ dead_queue' \in Seq(candidates)
      /\ ToSet(dead_queue) \subseteq ToSet(dead_queue') \cup {cell}
  BY <1>1, ToSetTail DEF IInv, TypeOK
<1>3. take => \A p \in pins : p.bit \in out[cell] => p.owner \in removed
  <2> SUFFICES ASSUME take, NEW p \in pins, p.bit \in out[cell] PROVE p.owner \in removed
    OBVIOUS
  <2>1. p.bit \in Bit /\ uses[p.bit] = 0
    BY <1>2 DEF outputs_are_dead, IInv, TypeOK
  <2>2. counted(p.bit) = {}
    BY <2>1, ZeroUses
  <2> QED  BY <2>2 DEF counted, pins_on
<1> HIDE DEF cell
<1>4. TypeOK'
  <2>1. releasing' \in SUBSET pins
    BY <1>1 DEF pins_of
  <2> QED  BY <1>1, <1>2, <2>1 DEF IInv, TypeOK
<1>5. UsesExact'
  <2>1. \A b \in Bit :
          {p \in pins_on(b)' : p.owner \notin removed' \/ p \in releasing'}
            = {p \in pins_on(b) : p.owner \notin removed \/ p \in releasing}
    BY <1>1 DEF pins_of, pins_on
  <2> QED  BY <1>1, <2>1 DEF IInv, UsesExact
<1>6. NoDanglingReader'
  BY <1>1, <1>3 DEF IInv, NoDanglingReader
<1>7. Net' /\ Releasing' /\ Stopped'
  BY <1>1 DEF IInv, Net, Releasing, Stopped, pins_of
<1>8. Forced'
  <2> SUFFICES ASSUME NEW S \in SUBSET candidates, Closed(S) PROVE removed' \subseteq S
    BY <1>1 DEF Forced, Closed
  <2>1. removed \subseteq S
    BY DEF IInv, Forced
  <2>2. take => cell \in S
    BY <1>2, <1>3, <2>1 DEF Closed
  <2> QED  BY <1>1, <2>1, <2>2
<1>9. Queued'
  <2> SUFFICES ASSUME SingleDriver,
                      NEW c \in candidates, c \notin removed', outputs_are_dead(c)
               PROVE  c \in ToSet(dead_queue')
    BY <1>1 DEF Queued, SingleDriver, outputs_are_dead
  <2>1. c \notin removed
    BY <1>1
  <2>2. c \in ToSet(dead_queue)
    BY <2>1 DEF IInv, Queued
  <2> QED  BY <1>1, <1>2, <2>1, <2>2
<1> QED  BY <1>4, <1>5, <1>6, <1>7, <1>8, <1>9 DEF IInv

LEMMA ReleaseInv == IInv /\ Release => IInv'
<1> SUFFICES ASSUME IInv, Release PROVE IInv'
  OBVIOUS
<1>1. PICK p \in releasing :
        /\ releasing' = releasing \ {p}
        /\ uses' = [uses EXCEPT ![p.bit] = IF uses[p.bit] = 0 THEN 0 ELSE uses[p.bit] - 1]
        /\ dead_queue' = IF uses[p.bit] = 1 /\ bit_driver[p.bit] # NoCell
                         THEN Append(dead_queue, bit_driver[p.bit]) ELSE dead_queue
        /\ UNCHANGED <<candidates, out, pins, bit_driver, removed, phase>>
  BY DEF Release, netlist
<1>2. /\ p \in pins /\ p.bit \in Bit /\ p.owner \in removed
      /\ bit_driver[p.bit] \in candidates \cup {NoCell}
      /\ uses \in [Bit -> Nat] /\ dead_queue \in Seq(candidates)
  BY DEF IInv, TypeOK, Releasing, Pin
<1>3. p \in counted(p.bit)
  BY <1>2 DEF counted, pins_on
<1>4. \A b \in Bit : counted(b)' = IF b = p.bit THEN counted(b) \ {p} ELSE counted(b)
  BY <1>1, <1>2 DEF counted, pins_on
<1>5. uses[p.bit] # 0 /\ Cardinality(counted(p.bit) \ {p}) = uses[p.bit] - 1
  <2> DEFINE C == counted(p.bit)
  <2>1. IsFiniteSet(C) /\ uses[p.bit] = Cardinality(C) /\ (uses[p.bit] = 0 <=> C = {})
    BY <1>2, ZeroUses
  <2>2. p \in C
    BY <1>3
  <2> HIDE DEF C
  <2>3. Cardinality(C \ {p}) = Cardinality(C) - 1
    BY <2>1, <2>2, FS_RemoveElement
  <2>4. uses[p.bit] # 0 /\ Cardinality(C \ {p}) = uses[p.bit] - 1
    BY <2>1, <2>2, <2>3
  <2> QED  BY <2>4 DEF C
<1>6. uses' \in [Bit -> Nat] /\ uses' = [uses EXCEPT ![p.bit] = uses[p.bit] - 1]
  BY <1>1, <1>2, <1>5
<1>7. UsesExact'
  <2> SUFFICES ASSUME NEW b \in Bit PROVE uses'[b] = Cardinality(counted(b)')
    BY DEF UsesExact, counted
  <2>1. CASE b = p.bit
    BY <1>2, <1>4, <1>5, <1>6, <2>1
  <2>2. CASE b # p.bit
    BY <1>2, <1>4, <1>6, <2>2, ZeroUses
  <2> QED  BY <2>1, <2>2
<1>8. /\ dead_queue' \in Seq(candidates)
      /\ ToSet(dead_queue) \subseteq ToSet(dead_queue')
      /\ uses[p.bit] = 1 /\ bit_driver[p.bit] # NoCell
           => bit_driver[p.bit] \in ToSet(dead_queue')
  <2>1. CASE uses[p.bit] = 1 /\ bit_driver[p.bit] # NoCell
    BY <1>1, <1>2, <2>1, ToSetAppend
  <2>2. CASE ~(uses[p.bit] = 1 /\ bit_driver[p.bit] # NoCell)
    BY <1>1, <1>2, <2>2
  <2> QED  BY <2>1, <2>2
<1>9. TypeOK'
  BY <1>1, <1>6, <1>8 DEF IInv, TypeOK
<1>10. NoDanglingReader' /\ Net' /\ Releasing' /\ Forced'
  BY <1>1 DEF IInv, NoDanglingReader, Net, Releasing, Forced, Closed
<1>11. Stopped'
  BY <1>1 DEF IInv, Stopped
<1>12. Queued'
  <2> SUFFICES ASSUME SingleDriver,
                      NEW c \in candidates, c \notin removed, outputs_are_dead(c)'
               PROVE  c \in ToSet(dead_queue')
    BY <1>1 DEF Queued, SingleDriver
  <2>1. CASE p.bit \in out[c]
    <3>1. uses'[p.bit] = 0
      BY <1>1, <2>1 DEF outputs_are_dead
    <3>2. uses[p.bit] = 1
      BY <1>2, <1>5, <1>6, <3>1
    <3>3. bit_driver[p.bit] \in candidates /\ p.bit \in out[bit_driver[p.bit]]
      BY <1>2, <2>1 DEF IInv, Net
    <3>4. bit_driver[p.bit] = c
      BY <2>1, <3>3 DEF SingleDriver
    <3> QED  BY <1>2, <1>8, <3>2, <3>3, <3>4, CellAssumption DEF IInv, TypeOK
  <2>2. CASE p.bit \notin out[c]
    <3>1. outputs_are_dead(c)
      BY <1>1, <1>6, <1>2, <2>2 DEF outputs_are_dead, IInv, TypeOK
    <3> QED  BY <1>8, <3>1 DEF IInv, Queued
  <2> QED  BY <2>1, <2>2
<1> QED  BY <1>7, <1>9, <1>10, <1>11, <1>12 DEF IInv

LEMMA FinishInv == IInv /\ (Finish \/ UNCHANGED vars) => IInv'
<1> SUFFICES ASSUME IInv, Finish \/ UNCHANGED vars PROVE IInv'
  OBVIOUS
<1>1. /\ UNCHANGED <<candidates, out, pins, bit_driver, uses, dead_queue, removed, releasing>>
      /\ phase' \in {"QUEUE", "DONE"}
      /\ Stopped'
  BY DEF Finish, netlist, vars, IInv, TypeOK, Stopped
<1>2. TypeOK' /\ UsesExact' /\ NoDanglingReader'
  BY <1>1 DEF IInv, TypeOK, UsesExact, NoDanglingReader, pins_on
<1>3. Net' /\ Releasing' /\ Forced' /\ Queued'
  BY <1>1 DEF IInv, Net, Releasing, Forced, Closed, Queued, SingleDriver, outputs_are_dead
<1> QED  BY <1>1, <1>2, <1>3 DEF IInv

THEOREM Invariance == Spec => []IInv
<1>1. IInv /\ [Next]_vars => IInv'
  BY PopInv, ReleaseInv, FinishInv DEF Next, Terminated
<1> QED  BY InitInv, <1>1, PTL DEF Spec

(* When the queue is empty, no cell that stays is dead.                    *)
LEMMA InvRemovesLeastClosed == IInv => RemovesLeastClosed
<1> SUFFICES ASSUME IInv, phase = "DONE", SingleDriver PROVE Closed(removed)
  BY DEF RemovesLeastClosed, IInv, Forced
<1>1. dead_queue = <<>> /\ releasing = {}
  BY DEF IInv, Stopped
<1>2. ToSet(dead_queue) = {}
  BY <1>1 DEF ToSet
<1> SUFFICES ASSUME NEW c \in candidates,
                    \A p \in pins : p.bit \in out[c] => p.owner \in removed
             PROVE  c \in removed
  BY DEF Closed
<1>3. ASSUME NEW b \in out[c] PROVE uses[b] = 0
  <2>1. b \in Bit
    BY DEF IInv, TypeOK
  <2>2. counted(b) = {}
    BY <1>1 DEF counted, pins_on
  <2> QED  BY <2>1, <2>2, ZeroUses
<1>4. outputs_are_dead(c)
  BY <1>3 DEF outputs_are_dead
<1> QED  BY <1>2, <1>4 DEF IInv, Queued

-----------------------------------------------------------------------------

(* Type correctness.                                                       *)
THEOREM TypeCorrect == Spec => []TypeOK
BY Invariance, PTL DEF IInv

(* The counters that decide what is dead never drift from the netlist.     *)
THEOREM CountsStayExact == Spec => []UsesExact
BY Invariance, PTL DEF IInv

(* The pass never leaves a reader of a removed cell behind.                *)
THEOREM NothingDangles == Spec => []NoDanglingReader
BY Invariance, PTL DEF IInv

(* Whatever the order of the queue, the same cells are removed, and none   *)
(* of them is forgotten.                                                   *)
THEOREM LeastClosedIsRemoved == Spec => []RemovesLeastClosed
BY Invariance, InvRemovesLeastClosed, PTL

=============================================================================
