---------------------------- MODULE TimingProofs ----------------------------
(***************************************************************************)
(* Proofs about my_opt_timing, for every netlist, selection and clock: the *)
(* sort is Kahn's algorithm, the arrival times are those of the longest    *)
(* paths, the slacks those of the paths to the endpoints, and the reported *)
(* path is a critical one.                                                 *)
(***************************************************************************)
EXTENDS Timing, FiniteSetsExt, SequenceTheorems, FiniteSetTheorems, NaturalsInduction, TLAPS

-----------------------------------------------------------------------------
(* Facts that stand in for induction: a proof by least counterexample takes *)
(* the least number, or a minimal set, for which the claim fails.           *)

(* A nonempty set of naturals has a least element.                         *)
LEMMA LeastNatural ==
  ASSUME NEW S \in SUBSET Nat, S # {}
  PROVE  \E n \in S : \A k \in S : n <= k
<1> DEFINE R == {p \in Nat \X Nat : p[1] < p[2]}
<1>1. PICK n \in S : \A k \in S : <<k, n>> \notin R
  <2>1. IsWellFoundedOn(R, Nat)
    BY NatLessThanWellFounded DEF OpToRel
  <2> HIDE DEF R
  <2> QED  BY <2>1, WFMin
<1>2. \A k \in S : ~(k < n)
  BY <1>1
<1> QED  BY <1>2

(* A nonempty family of subsets of a finite set has a minimal member.      *)
LEMMA MinimalSubset ==
  ASSUME NEW U, IsFiniteSet(U), NEW T \in SUBSET SUBSET U, T # {}
  PROVE  \E X \in T : \A Y \in T : Y \subseteq X => Y = X
<1>1. IsWellFoundedOn(StrictSubsetOrdering(U), SUBSET U)
  BY FS_StrictSubsetOrderingWellFounded, FS_FiniteSubsetsOfFinite
<1>2. PICK X \in T : \A Y \in T : <<Y, X>> \notin StrictSubsetOrdering(U)
  BY <1>1, WFMin
<1>3. X \in SUBSET U /\ \A Y \in T : Y \in SUBSET U
  OBVIOUS
<1>4. ASSUME NEW Y \in T, Y \subseteq X, Y # X PROVE FALSE
  BY <1>2, <1>3, <1>4 DEF StrictSubsetOrdering
<1> QED  BY <1>4

(* A nonempty finite set of integers has a greatest element.               *)
LEMMA MaxIsGreatest ==
  ASSUME NEW S, \A y \in S : y \in Int, IsFiniteSet(S), S # {}
  PROVE  Max(S) \in S /\ \A y \in S : Max(S) >= y
<1> DEFINE T == {X \in SUBSET S : X # {} /\ ~\E m \in X : \A y \in X : m >= y}
<1>1. T = {}
  <2> SUFFICES ASSUME T # {} PROVE FALSE
    OBVIOUS
  <2>1. PICK X \in T : \A Y \in T : Y \subseteq X => Y = X
    <3>1. T \in SUBSET SUBSET S /\ T # {} /\ IsFiniteSet(S)
      OBVIOUS
    <3> HIDE DEF T
    <3> QED  BY <3>1, MinimalSubset
  <2>2. PICK x \in X : TRUE
    BY <2>1
  <2>3. X \ {x} # {}
    BY <2>1, <2>2
  <2>4. X \ {x} \notin T
    BY <2>1, <2>2
  <2>5. PICK m \in X \ {x} : \A y \in X \ {x} : m >= y
    BY <2>1, <2>3, <2>4
  <2>6. x \in Int /\ \A y \in X : y \in Int
    BY <2>1
  <2>7. CASE x >= m
    BY <2>1, <2>2, <2>5, <2>6, <2>7
  <2>8. CASE ~(x >= m)
    BY <2>1, <2>2, <2>5, <2>6, <2>8
  <2> QED  BY <2>7, <2>8
<1>2. S \notin T
  BY <1>1
<1> QED  BY <1>2 DEF Max

-----------------------------------------------------------------------------
(* The sum of the weights of a set, as a fold computes it: it takes the    *)
(* elements out one after the other, each time the one that CHOOSE names.  *)

pick(X) == CHOOSE x \in X : TRUE

IsSum(F, U, w) ==
  F = [X \in SUBSET U |-> IF X = {} THEN 0 ELSE w[pick(X)] + F[X \ {pick(X)}]]

LEMMA SumStep ==
  ASSUME NEW U, NEW w, NEW F, IsSum(F, U, w), NEW X \in SUBSET U
  PROVE  /\ X = {} => F[X] = 0
         /\ X # {} => /\ pick(X) \in X
                      /\ F[X] = w[pick(X)] + F[X \ {pick(X)}]
<1>1. X # {} => pick(X) \in X
  BY DEF pick
<1>2. F[X] = IF X = {} THEN 0 ELSE w[pick(X)] + F[X \ {pick(X)}]
  BY DEF IsSum
<1> QED  BY <1>1, <1>2

(* Two such sums agree on the sets that both are defined on.               *)
LEMMA SumUnique ==
  ASSUME NEW U, IsFiniteSet(U), NEW A \in SUBSET U, NEW B \in SUBSET U, NEW w,
         NEW F, IsSum(F, A, w), NEW G, IsSum(G, B, w)
  PROVE  \A X \in SUBSET (A \cap B) : F[X] = G[X]
<1> DEFINE T == {X \in SUBSET (A \cap B) : F[X] # G[X]}
<1> SUFFICES ASSUME T # {} PROVE FALSE
  OBVIOUS
<1>1. PICK X \in T : \A Y \in T : Y \subseteq X => Y = X
  <2>1. T \in SUBSET SUBSET U
    OBVIOUS
  <2> HIDE DEF T
  <2> QED  BY <2>1, MinimalSubset
<1>2. X \in SUBSET A /\ X \in SUBSET B /\ F[X] # G[X]
  BY <1>1
<1>3. X # {} /\ pick(X) \in X
  BY <1>2, SumStep
<1>4. X \ {pick(X)} \notin T
  BY <1>1, <1>3
<1>5. F[X \ {pick(X)}] = G[X \ {pick(X)}]
  BY <1>2, <1>4
<1> QED  BY <1>2, <1>3, <1>5, SumStep

(* There is such a sum of natural weights, and it is a natural number.     *)
LEMMA SumExists ==
  ASSUME NEW U, IsFiniteSet(U), NEW w \in [U -> Nat]
  PROVE  \E F \in [SUBSET U -> Nat] : IsSum(F, U, w)
<1> DEFINE Good(V) == \E F \in [SUBSET V -> Nat] : IsSum(F, V, w)
           T == {V \in SUBSET U : ~Good(V)}
<1> SUFFICES ASSUME T # {} PROVE FALSE
  OBVIOUS
<1>1. PICK V \in T : \A Y \in T : Y \subseteq V => Y = V
  <2>1. T \in SUBSET SUBSET U
    OBVIOUS
  <2> HIDE DEF T
  <2> QED  BY <2>1, MinimalSubset
<1>2. V \in SUBSET U /\ ~Good(V) /\ \A Y \in SUBSET V : Y # V => Good(Y)
  BY <1>1
<1> DEFINE sums(Y) == {F \in [SUBSET Y -> Nat] : IsSum(F, Y, w)}
           v == [Y \in SUBSET V |-> (CHOOSE F \in sums(Y) : TRUE)[Y]]
<1>3. ASSUME NEW Y \in SUBSET V, Y # V
      PROVE  /\ v[Y] \in Nat
             /\ v[Y] = IF Y = {} THEN 0 ELSE w[pick(Y)] + v[Y \ {pick(Y)}]
  <2>1. PICK F \in sums(Y) : v[Y] = F[Y]
    <3>1. sums(Y) # {}
      BY <1>2, <1>3
    <3> QED  BY <3>1
  <2>2. v[Y] \in Nat /\ IsSum(F, Y, w)
    BY <2>1
  <2>3. Y = {} => v[Y] = 0
    BY <2>1, <2>2, SumStep
  <2>4. ASSUME Y # {} PROVE v[Y] = w[pick(Y)] + v[Y \ {pick(Y)}]
    <3> DEFINE Z == Y \ {pick(Y)}
    <3>1. F[Y] = w[pick(Y)] + F[Z] /\ Z \in SUBSET V /\ Z # V /\ Z \subseteq Y
      BY <2>2, <2>4, SumStep
    <3>2. PICK G \in sums(Z) : v[Z] = G[Z]
      <4>1. sums(Z) # {}
        BY <1>2, <3>1
      <4> HIDE DEF Z
      <4> QED  BY <3>1, <4>1
    <3>3. G[Z] = F[Z]
      <4>1. Z \in SUBSET U /\ Y \in SUBSET U /\ IsSum(G, Z, w) /\ Z \in SUBSET (Z \cap Y)
        BY <1>2, <3>1, <3>2
      <4> HIDE DEF Z
      <4> QED  BY <2>2, <4>1, SumUnique
    <3> QED  BY <2>1, <3>1, <3>2, <3>3
  <2> QED  BY <2>2, <2>3, <2>4
<1> DEFINE G == [Y \in SUBSET V |-> IF Y # V THEN v[Y]
                                    ELSE IF V = {} THEN 0
                                    ELSE w[pick(V)] + v[V \ {pick(V)}]]
<1>4. V # {} => pick(V) \in V /\ w[pick(V)] \in Nat /\ V \ {pick(V)} # V
                /\ v[V \ {pick(V)}] \in Nat
  <2> SUFFICES ASSUME V # {}
               PROVE  pick(V) \in V /\ w[pick(V)] \in Nat /\ V \ {pick(V)} # V
                      /\ v[V \ {pick(V)}] \in Nat
    OBVIOUS
  <2>1. pick(V) \in V
    BY DEF pick
  <2>2. w[pick(V)] \in Nat /\ V \ {pick(V)} # V /\ V \ {pick(V)} \in SUBSET V
    BY <1>2, <2>1
  <2> HIDE DEF v
  <2> QED  BY <1>3, <2>1, <2>2
<1> DEFINE g(Y) == IF Y # V THEN v[Y] ELSE IF V = {} THEN 0 ELSE w[pick(V)] + v[V \ {pick(V)}]
<1>5. G \in [SUBSET V -> Nat]
  <2>1. ASSUME NEW Y \in SUBSET V PROVE g(Y) \in Nat
    <3> HIDE DEF v
    <3>1. CASE Y # V
      BY <1>3, <3>1
    <3>2. CASE Y = V /\ V = {}
      BY <3>2
    <3>3. CASE Y = V /\ V # {}
      <4>1. w[pick(V)] + v[V \ {pick(V)}] \in Nat
        BY <1>4, <3>3
      <4> QED  BY <3>3, <4>1
    <3> QED  BY <3>1, <3>2, <3>3
  <2>2. G = [Y \in SUBSET V |-> g(Y)]
    OBVIOUS
  <2> HIDE DEF g, G
  <2> QED  BY <2>1, <2>2
<1>6. ASSUME NEW Y \in SUBSET V
      PROVE  G[Y] = IF Y = {} THEN 0 ELSE w[pick(Y)] + G[Y \ {pick(Y)}]
  <2>1. Y # {} => pick(Y) \in Y /\ Y \ {pick(Y)} \in SUBSET V /\ Y \ {pick(Y)} # V
    BY DEF pick
  <2>2. Y # {} => G[Y \ {pick(Y)}] = v[Y \ {pick(Y)}]
    <3> HIDE DEF v
    <3> QED  BY <2>1
  <2>3. G[Y] = IF Y # V THEN v[Y] ELSE IF V = {} THEN 0 ELSE w[pick(V)] + v[V \ {pick(V)}]
    <3> HIDE DEF v
    <3> QED  OBVIOUS
  <2>4. CASE Y # V
    <3> HIDE DEF v, G
    <3> QED  BY <1>3, <2>2, <2>3, <2>4
  <2>5. CASE Y = V
    <3> HIDE DEF v, G
    <3> QED  BY <2>2, <2>3, <2>5
  <2> QED  BY <2>4, <2>5
<1>7. IsSum(G, V, w)
  <2>1. G = [Y \in SUBSET V |-> G[Y]]
    BY <1>5
  <2>2. G = [Y \in SUBSET V |-> IF Y = {} THEN 0 ELSE w[pick(Y)] + G[Y \ {pick(Y)}]]
    <3> HIDE DEF G
    <3> QED  BY <1>6, <2>1
  <2> HIDE DEF G
  <2> QED  BY <2>2 DEF IsSum
<1> QED  BY <1>2, <1>5, <1>7

(* The order does not matter: any element may be taken out first.          *)
LEMMA SumRemove ==
  ASSUME NEW U, IsFiniteSet(U), NEW w \in [U -> Nat],
         NEW F \in [SUBSET U -> Nat], IsSum(F, U, w)
  PROVE  \A X \in SUBSET U : \A x \in X : F[X] = w[x] + F[X \ {x}]
<1> DEFINE T == {X \in SUBSET U : \E x \in X : F[X] # w[x] + F[X \ {x}]}
<1> SUFFICES ASSUME T # {} PROVE FALSE
  OBVIOUS
<1>1. PICK X \in T : \A Y \in T : Y \subseteq X => Y = X
  <2>1. T \in SUBSET SUBSET U
    OBVIOUS
  <2> HIDE DEF T
  <2> QED  BY <2>1, MinimalSubset
<1>2. PICK x \in X : F[X] # w[x] + F[X \ {x}]
  BY <1>1
<1> DEFINE y == pick(X)
<1>3. X \in SUBSET U /\ y \in X /\ F[X] = w[y] + F[X \ {y}]
  BY <1>1, <1>2, SumStep
<1>4. x # y
  BY <1>2, <1>3
<1>5. X \ {y} \notin T /\ X \ {x} \notin T
  BY <1>1, <1>2, <1>3
<1> HIDE DEF y
<1>6. F[X \ {y}] = w[x] + F[(X \ {y}) \ {x}]
  BY <1>2, <1>3, <1>4, <1>5
<1>7. F[X \ {x}] = w[y] + F[(X \ {x}) \ {y}]
  BY <1>2, <1>3, <1>4, <1>5
<1>8. (X \ {y}) \ {x} = (X \ {x}) \ {y}
  OBVIOUS
<1> DEFINE a == w[x]
           b == w[y]
           c == F[(X \ {x}) \ {y}]
<1>9. a \in Nat /\ b \in Nat /\ c \in Nat
  BY <1>2, <1>3
<1>10. F[X] = b + (a + c) /\ F[X \ {x}] = b + c
  BY <1>3, <1>6, <1>7, <1>8
<1> HIDE DEF a, b, c
<1>11. b + (a + c) = a + (b + c)
  BY <1>9
<1> QED  BY <1>2, <1>10, <1>11 DEF a


-----------------------------------------------------------------------------
(* Facts about sequences.                                                  *)

(* What SetToSeqs yields lists each element of the set once.               *)
LEMMA SetToSeqsLists ==
  ASSUME NEW S, IsFiniteSet(S), NEW s \in SetToSeqs(S)
  PROVE  /\ s \in Seq(S) /\ Len(s) = Cardinality(S) /\ DOMAIN s = 1 .. Len(s)
         /\ ToSet(s) = S
         /\ \A i, j \in 1 .. Len(s) : s[i] = s[j] => i = j
<1> DEFINE n == Cardinality(S)
<1>1. n \in Nat /\ s \in [1 .. n -> S] /\ \A i, j \in 1 .. n : i # j => s[i] # s[j]
  BY FS_CardinalityType DEF SetToSeqs
<1>2. s \in Seq(S) /\ Len(s) = n /\ DOMAIN s = 1 .. n
  BY <1>1, SeqDef, LenProperties
<1>3. IsFiniteSet(1 .. n) /\ Cardinality(1 .. n) = n
  BY <1>1, FS_Interval
<1>4. s \in Injection(1 .. n, S)
  BY <1>1, Zenon DEF Injection, IsInjective
<1>5. s \in Surjection(1 .. n, S)
  BY <1>3, <1>4, FS_Injection
<1>6. ToSet(s) = S
  BY <1>1, <1>2, <1>5 DEF ToSet, Surjection
<1> QED  BY <1>1, <1>2, <1>6

(* A sequence without repetitions is as long as the set of its elements.   *)
LEMMA InjectiveLength ==
  ASSUME NEW S, NEW s \in Seq(S), IsInjective(s)
  PROVE  IsFiniteSet(ToSet(s)) /\ Cardinality(ToSet(s)) = Len(s)
<1>1. Len(s) \in Nat /\ DOMAIN s = 1 .. Len(s)
  BY LenProperties
<1>2. IsFiniteSet(1 .. Len(s)) /\ Cardinality(1 .. Len(s)) = Len(s)
  BY <1>1, FS_Interval
<1>3. s \in [1 .. Len(s) -> ToSet(s)]
  BY <1>1, LenProperties DEF ToSet
<1>4. s \in Surjection(1 .. Len(s), ToSet(s)) /\ s \in Injection(1 .. Len(s), ToSet(s))
  BY <1>1, <1>3, Zenon DEF Surjection, Injection, IsInjective, ToSet
<1> QED  BY <1>2, <1>4, FS_Surjection

-----------------------------------------------------------------------------
(* The graph.                                                              *)

Timed == {"SORT", "ARRIVAL"}

\* The input of the pass, which no step changes, and the loop indices.
Design ==
  /\ TypeOK
  /\ IsInjective(cells) /\ cells # <<>>
  /\ phase \in Timed => next >= 1
  /\ phase = "REQUIRED" => next <= Len(order)
  /\ phase = "TRACE" => path # <<>>

\* What the definitions of the graph say of its sets and delays.
LEMMA GraphFacts ==
  ASSUME TypeOK
  PROVE  /\ nodes \subseteq Cell /\ IsFiniteSet(nodes)
         /\ \A c : /\ fanin(c) \subseteq nodes \ {c} /\ IsFiniteSet(fanin(c))
                   /\ fanout(c) \subseteq nodes
                   /\ \A s : s \in fanout(c) <=> s \in nodes /\ c \in fanin(s)
         /\ endpoints \subseteq nodes \cup {NoCell}
         /\ \A c \in Cell : delay(c) \in Nat \ {0}
<1>1. nodes \subseteq Cell /\ IsFiniteSet(nodes)
  <2>1. nodes \subseteq Cell
    BY LenProperties DEF TypeOK, nodes, ToSet
  <2> QED  BY <2>1, CellAssumption, FS_Subset
<1>2. \A c : fanin(c) \subseteq nodes \ {c} /\ fanout(c) \subseteq nodes
             /\ \A s : s \in fanout(c) <=> s \in nodes /\ c \in fanin(s)
  BY DEF fanin, fanout
<1>3. \A c : IsFiniteSet(fanin(c))
  BY <1>1, <1>2, FS_Subset
<1>4. endpoints \subseteq nodes \cup {NoCell}
  BY DEF endpoints, output_endpoints, seq_endpoints, open_endpoints, timed_driver
<1>5. ASSUME NEW c \in Cell PROVE delay(c) \in Nat \ {0}
  <2> DEFINE readers == {d \in Cell : c \in input_bits(d)}
  <2>1. Cardinality(readers) \in Nat
    BY CellAssumption, FS_Subset, FS_CardinalityType
  <2>2. load(c) \in Nat
    BY <2>1 DEF load
  <2>3. base[c] \in Nat \ {0}
    BY DEF TypeOK
  <2>4. load(c) > FreeFanout => (load(c) - 1) \div FreeFanout \in Nat
    BY <2>2, FreeFanoutAssumption
  <2> QED  BY <2>3, <2>4 DEF delay
<1> QED  BY <1>1, <1>2, <1>3, <1>4, <1>5

\* The worst arrival time is the greatest there is, and natural.
LEMMA WorstArrival ==
  ASSUME TypeOK
  PROVE  /\ worst_arrival \in Nat /\ required_time \in Nat
         /\ \A c \in nodes : arrival[c] <= worst_arrival
         /\ worst_arrival = 0 \/ \E c \in nodes : worst_arrival = arrival[c]
<1> DEFINE S == {0} \cup {arrival[c] : c \in nodes}
<1>1. \A c \in nodes : arrival[c] \in Nat
  BY GraphFacts DEF TypeOK
<1>2. IsFiniteSet(S)
  <2>1. IsFiniteSet({arrival[c] : c \in nodes})
    <3> DEFINE f == [c \in nodes |-> arrival[c]]
    <3>1. f \in Surjection(nodes, {arrival[c] : c \in nodes})
      BY DEF Surjection
    <3> HIDE DEF f
    <3> QED  BY <3>1, GraphFacts, FS_Surjection
  <2> QED  BY <2>1, FS_Singleton, FS_Union
<1>3. S \in SUBSET Nat /\ (\A y \in S : y \in Int) /\ S # {}
  BY <1>1
<1>4. Max(S) \in S /\ \A y \in S : Max(S) >= y
  <2> HIDE DEF S
  <2> QED  BY <1>2, <1>3, MaxIsGreatest
<1> DEFINE w == Max(S)
<1>5. w \in Nat /\ (w = 0 \/ \E c \in nodes : w = arrival[c])
      /\ \A c \in nodes : arrival[c] <= w
  <2> HIDE DEF w
  <2>1. w \in S /\ \A y \in S : w >= y
    BY <1>4 DEF w
  <2> QED  BY <1>1, <1>3, <2>1
<1>6. worst_arrival = w
  BY DEF worst_arrival
<1>7. required_time \in Nat
  BY <1>5, <1>6 DEF required_time, TypeOK
<1> HIDE DEF w
<1> QED  BY <1>5, <1>6, <1>7

\* No step changes the graph.
LEMMA GraphStays ==
  ASSUME UNCHANGED design
  PROVE  /\ nodes' = nodes /\ (Acyclic' <=> Acyclic)
         /\ output_endpoints' = output_endpoints /\ seq_endpoints' = seq_endpoints
         /\ open_endpoints' = open_endpoints /\ endpoints' = endpoints
         /\ \A c : fanin(c)' = fanin(c) /\ fanout(c)' = fanout(c) /\ delay(c)' = delay(c)
<1> USE DEF design
<1>1. nodes' = nodes
  BY DEF nodes
<1>2. \A c : input_bits(c)' = input_bits(c) /\ output_bits(c)' = output_bits(c)
  BY DEF input_bits, output_bits, cell_known
<1>3. \A b : driven(b)' <=> driven(b)
  BY <1>2 DEF driven
<1>4. \A c : fanin(c)' = fanin(c)
  BY <1>1, <1>2, <1>3 DEF fanin
<1>5. \A c : fanout(c)' = fanout(c)
  BY <1>1, <1>4 DEF fanout
<1>6. \A c : load(c)' = load(c)
  BY <1>2 DEF load
<1>7. \A c : delay(c)' = delay(c)
  BY <1>6 DEF delay
<1>8. Acyclic' <=> Acyclic
  BY <1>1, <1>4 DEF Acyclic
<1>9. output_endpoints' = output_endpoints
  BY <1>1 DEF output_endpoints, timed_driver
<1>10. seq_endpoints' = seq_endpoints
  BY <1>1, <1>2 DEF seq_endpoints, timed_driver, is_sequential_cell
<1>11. open_endpoints' = open_endpoints
  BY <1>1, <1>5, <1>9, <1>10 DEF open_endpoints
<1> QED
  BY <1>1, <1>4, <1>5, <1>7, <1>8, <1>9, <1>10, <1>11 DEF endpoints

-----------------------------------------------------------------------------
(* The types.                                                              *)

\* The pass starts with a well-typed design.
LEMMA InitDesign == Init => Design
<1> SUFFICES ASSUME Init PROVE Design
  OBVIOUS
<1>1. PICK n \in Netlists : /\ seq = n.seq /\ reads = n.reads /\ outputs = n.outputs
                            /\ base = n.base /\ fixed = n.fixed
  BY DEF Init
<1>2. /\ seq \in SUBSET Cell /\ outputs \in SUBSET Bits /\ fixed \in SUBSET Cell
      /\ reads \in [Cell -> SUBSET Bits] /\ base \in [Cell -> Nat \ {0}]
  BY <1>1, NetlistsAssumption
<1>3. clock_period \in Nat /\ cells \in Seq(Cell) /\ IsInjective(cells) /\ cells # <<>>
  BY ClocksAssumption, SelectionsAssumption DEF Init
<1>4. /\ phase = "BUILD" /\ next = 1 /\ order = <<>> /\ path = <<>>
      /\ indegree = [c \in Cell |-> 0] /\ arrival = [c \in Cell |-> 0]
      /\ critical_pred = [c \in Cell |-> NoCell]
      /\ required = [c \in Cell |-> UNREACHED]
  BY DEF Init
<1>5. order \in Seq(Cell) /\ path \in Seq(Cell)
  BY <1>4
<1>6. TypeOK
  BY <1>2, <1>3, <1>4, <1>5 DEF TypeOK, UNREACHED
<1> QED  BY <1>3, <1>4, <1>6 DEF Design, Timed

\* A sequence that is appended to another.
LEMMA ConcatLists ==
  ASSUME NEW S, NEW s \in Seq(S), NEW t \in Seq(S)
  PROVE  /\ s \o t \in Seq(S) /\ Len(s \o t) = Len(s) + Len(t)
         /\ \A i \in 1 .. Len(s) : (s \o t)[i] = s[i]
         /\ \A i \in Len(s) + 1 .. Len(s) + Len(t) : (s \o t)[i] = t[i - Len(s)]
         /\ ToSet(s \o t) = ToSet(s) \cup ToSet(t)
<1>1. /\ Len(s) \in Nat /\ Len(t) \in Nat /\ DOMAIN s = 1 .. Len(s)
      /\ DOMAIN t = 1 .. Len(t)
  BY LenProperties
<1>2. /\ s \o t \in Seq(S) /\ Len(s \o t) = Len(s) + Len(t)
      /\ \A i \in 1 .. Len(s) + Len(t) :
           (s \o t)[i] = IF i <= Len(s) THEN s[i] ELSE t[i - Len(s)]
  BY ConcatProperties
<1>3. /\ \A i \in 1 .. Len(s) : (s \o t)[i] = s[i]
      /\ \A i \in Len(s) + 1 .. Len(s) + Len(t) : (s \o t)[i] = t[i - Len(s)]
  BY <1>1, <1>2
<1>4. DOMAIN (s \o t) = 1 .. Len(s) + Len(t)
  BY <1>2, LenProperties
<1>5. ToSet(s \o t) \subseteq ToSet(s) \cup ToSet(t)
  BY <1>1, <1>2, <1>4 DEF ToSet
<1>6. ASSUME NEW i \in 1 .. Len(t) PROVE t[i] \in ToSet(s \o t)
  <2>1. i + Len(s) \in 1 .. Len(s) + Len(t) /\ (s \o t)[i + Len(s)] = t[i]
    BY <1>1, <1>2
  <2> QED  BY <1>4, <2>1 DEF ToSet
<1>7. ToSet(s) \subseteq ToSet(s \o t)
  BY <1>1, <1>3, <1>4 DEF ToSet
<1>8. ToSet(t) \subseteq ToSet(s \o t)
  BY <1>1, <1>6 DEF ToSet
<1> QED  BY <1>2, <1>3, <1>5, <1>7, <1>8

\* A finished predecessor lowers a successor's indegree by one.
LEMMA SuccessorCount ==
  ASSUME TypeOK, NEW cell \in nodes, NEW c \in fanout(cell), NEW D,
         cell \notin D, indegree[c] = Cardinality(fanin(c) \ D)
  PROVE  /\ indegree[c] - 1 \in Nat
         /\ indegree[c] - 1 = Cardinality(fanin(c) \ (D \cup {cell}))
         /\ indegree[c] = 1 <=> fanin(c) \ D = {cell}
<1> DEFINE F == fanin(c) \ D
<1>1. cell \in F /\ IsFiniteSet(F) /\ fanin(c) \ (D \cup {cell}) = F \ {cell}
  BY GraphFacts, FS_Subset
<1>2. IsFiniteSet(F \ {cell}) /\ Cardinality(F \ {cell}) = Cardinality(F) - 1
      /\ Cardinality(F \ {cell}) \in Nat
  BY <1>1, FS_RemoveElement, FS_CardinalityType
<1>3. Cardinality(F) = 1 <=> \E x : F = {x}
  BY <1>1, FS_Singleton
<1>4. Cardinality(F) = 1 <=> F = {cell}
  BY <1>1, <1>3
<1> QED  BY <1>1, <1>2, <1>4

\* Kahn's algorithm: the cells before `next' are done; the indegrees count the
\* predecessors that are not; the cells without any are those in the order.
done == {order[j] : j \in 1 .. next - 1}

Kahn ==
  /\ IsInjective(order) /\ ToSet(order) \subseteq nodes
  /\ next <= Len(order) + 1
  /\ \A c \in nodes : indegree[c] = Cardinality(fanin(c) \ done)
  /\ \A c \in nodes : c \in ToSet(order) <=> fanin(c) \subseteq done
  /\ Topological(order)

SortInv ==
  /\ Design
  /\ phase = "BUILD" => next = 1
  /\ phase = "SORT" => Kahn
  /\ OrderRight

(* The first cells are those without predecessors.                         *)
LEMMA BuildSorts ==
  ASSUME SortInv, Build
  PROVE  Design' /\ Kahn'
<1> DEFINE S == {c \in nodes : fanin(c) = {}}
<1>1. /\ UNCHANGED design /\ phase = "BUILD" /\ phase' = "SORT" /\ next' = 1
      /\ UNCHANGED <<arrival, critical_pred, required, path>>
      /\ indegree' = [c \in Cell |-> IF c \in nodes THEN Cardinality(fanin(c)) ELSE 0]
      /\ order' \in SetToSeqs(S)
  BY DEF Build, SortInv
<1>2. TypeOK
  BY DEF SortInv, Design
<1>3. /\ nodes \subseteq Cell /\ S \subseteq nodes /\ IsFiniteSet(S)
      /\ \A c : IsFiniteSet(fanin(c)) /\ Cardinality(fanin(c)) \in Nat
  BY <1>2, GraphFacts, FS_Subset, FS_CardinalityType
<1>4. /\ order' \in Seq(S) /\ DOMAIN order' = 1 .. Len(order') /\ Len(order') \in Nat
      /\ ToSet(order') = S
      /\ \A i, j \in 1 .. Len(order') : order'[i] = order'[j] => i = j
  <2>1. order' \in Seq(S) /\ DOMAIN order' = 1 .. Len(order') /\ ToSet(order') = S
        /\ \A i, j \in 1 .. Len(order') : order'[i] = order'[j] => i = j
    <3> HIDE DEF S
    <3> QED  BY <1>1, <1>3, SetToSeqsLists
  <2> QED  BY <2>1, LenProperties
<1>5. order' \in Seq(Cell)
  BY <1>3, <1>4, SeqMonotonic
<1>6. indegree' \in [Cell -> Nat]
  BY <1>1, <1>3
<1>7. TypeOK'
  BY <1>1, <1>2, <1>5, <1>6 DEF TypeOK, design
<1>8. Design'
  BY <1>1, <1>7 DEF Design, SortInv, Timed, design
<1>9. /\ nodes' = nodes /\ \A c : fanin(c)' = fanin(c)
  BY <1>1, GraphStays
<1>10. done' = {}
  BY <1>1 DEF done
<1>11. \A c \in nodes : indegree'[c] = Cardinality(fanin(c) \ {})
  BY <1>1, <1>3
<1>12. \A c \in nodes : c \in ToSet(order') <=> fanin(c) \subseteq {}
  BY <1>4
<1>13. Topological(order)'
  <2>1. \A i \in DOMAIN order' : fanin(order'[i]) = {}
    BY <1>4 DEF ToSet
  <2> QED  BY <1>9, <2>1 DEF Topological
<1>14. IsInjective(order')
  BY <1>4 DEF IsInjective
<1> QED  BY <1>1, <1>3, <1>4, <1>8, <1>9, <1>10, <1>11, <1>12, <1>13, <1>14 DEF Kahn

(* A cell that is done frees the successors of which it was the last       *)
(* predecessor.                                                            *)
LEMMA SortCellSorts ==
  ASSUME SortInv, SortCell
  PROVE  Design' /\ Kahn'
<1> DEFINE cell == order[next]
           freed == {s \in fanout(cell) : indegree[s] = 1}
           n == Len(order)
<1>1. /\ UNCHANGED design /\ phase = "SORT" /\ phase' = "SORT" /\ next' = next + 1
      /\ UNCHANGED <<arrival, critical_pred, required, path>>
      /\ next <= Len(order)
      /\ indegree' = [c \in Cell |-> IF c \in fanout(cell) THEN indegree[c] - 1 ELSE indegree[c]]
  BY DEF SortCell
<1>2. PICK s \in SetToSeqs(freed) : order' = order \o s
  BY DEF SortCell
<1>3. TypeOK /\ Kahn /\ next \in Nat /\ next >= 1
  BY <1>1 DEF SortInv, Design, Timed, TypeOK
<1>4. /\ n \in Nat /\ next \in 1 .. n /\ order \in Seq(Cell) /\ DOMAIN order = 1 .. n
      /\ ToSet(order) \subseteq nodes
      /\ \A i, j \in 1 .. n : order[i] = order[j] => i = j
  <2>1. order \in Seq(Cell)
    BY <1>3 DEF TypeOK
  <2>2. n \in Nat /\ DOMAIN order = 1 .. n
    BY <2>1, LenProperties
  <2> QED  BY <1>1, <1>3, <2>1, <2>2 DEF Kahn, IsInjective
<1>5. cell \in nodes /\ cell \in ToSet(order) /\ cell \notin done
  <2>1. cell \in ToSet(order)
    BY <1>4 DEF ToSet
  <2>2. \A j \in 1 .. next - 1 : j \in 1 .. n /\ j # next
    BY <1>4
  <2> QED  BY <1>4, <2>1, <2>2 DEF done
<1>6. /\ nodes \subseteq Cell /\ freed \subseteq nodes /\ IsFiniteSet(freed)
      /\ \A c : /\ IsFiniteSet(fanin(c))
                /\ \A x : x \in fanout(c) <=> x \in nodes /\ c \in fanin(x)
  BY <1>3, GraphFacts, FS_Subset
<1>7. /\ s \in Seq(freed) /\ DOMAIN s = 1 .. Len(s) /\ Len(s) \in Nat /\ ToSet(s) = freed
      /\ \A i, j \in 1 .. Len(s) : s[i] = s[j] => i = j
  <2>1. /\ s \in Seq(freed) /\ DOMAIN s = 1 .. Len(s) /\ ToSet(s) = freed
        /\ \A i, j \in 1 .. Len(s) : s[i] = s[j] => i = j
    <3> HIDE DEF freed
    <3> QED  BY <1>2, <1>6, SetToSeqsLists
  <2> QED  BY <2>1, LenProperties
<1>8. s \in Seq(Cell)
  BY <1>6, <1>7, SeqMonotonic
<1>9. /\ order' \in Seq(Cell) /\ Len(order') = n + Len(s)
      /\ \A i \in 1 .. n : order'[i] = order[i]
      /\ \A i \in n + 1 .. n + Len(s) : order'[i] = s[i - n]
      /\ ToSet(order') = ToSet(order) \cup freed
      /\ DOMAIN order' = 1 .. n + Len(s)
  <2>1. /\ order' \in Seq(Cell) /\ Len(order') = n + Len(s)
        /\ \A i \in 1 .. n : order'[i] = order[i]
        /\ \A i \in n + 1 .. n + Len(s) : order'[i] = s[i - n]
        /\ ToSet(order') = ToSet(order) \cup ToSet(s)
    BY <1>2, <1>4, <1>8, ConcatLists
  <2> QED  BY <1>7, <2>1, LenProperties
<1>10. done' = done \cup {cell}
  <2>1. \A j \in 1 .. next : j \in 1 .. n /\ (j \in 1 .. next - 1 \/ j = next)
    BY <1>4
  <2>2. 1 .. next' - 1 = 1 .. next
    BY <1>1, <1>4
  <2>3. done' = {order'[j] : j \in 1 .. next}
    BY <2>2 DEF done
  <2>4. \A j \in 1 .. next : order'[j] = order[j]
    BY <1>9, <2>1
  <2>5. next \in 1 .. next /\ \A j \in 1 .. next - 1 : j \in 1 .. next
    BY <1>4
  <2> QED  BY <2>1, <2>3, <2>4, <2>5 DEF done
<1>11. /\ nodes' = nodes /\ \A c : fanin(c)' = fanin(c)
  BY <1>1, GraphStays
<1>12. ASSUME NEW c \in nodes
       PROVE  /\ indegree'[c] \in Nat
              /\ indegree'[c] = Cardinality(fanin(c) \ (done \cup {cell}))
              /\ c \in freed <=> fanin(c) \ done = {cell}
  <2>1. indegree[c] = Cardinality(fanin(c) \ done) /\ indegree[c] \in Nat /\ c \in Cell
    BY <1>3, <1>6 DEF Kahn, TypeOK
  <2>2. CASE c \in fanout(cell)
    <3>1. /\ indegree[c] - 1 \in Nat
          /\ indegree[c] - 1 = Cardinality(fanin(c) \ (done \cup {cell}))
          /\ indegree[c] = 1 <=> fanin(c) \ done = {cell}
      <4> HIDE DEF cell
      <4> QED  BY <1>3, <1>5, <2>1, <2>2, SuccessorCount
    <3> QED  BY <1>1, <2>1, <2>2, <3>1
  <2>3. CASE c \notin fanout(cell)
    <3>1. cell \notin fanin(c)
      BY <1>6, <2>3
    <3>2. fanin(c) \ (done \cup {cell}) = fanin(c) \ done
      BY <3>1
    <3> QED  BY <1>1, <2>1, <2>3, <3>1, <3>2
  <2> QED  BY <2>2, <2>3
<1>13. \A c \in nodes : c \in ToSet(order') <=> fanin(c) \subseteq done \cup {cell}
  <2> SUFFICES ASSUME NEW c \in nodes
               PROVE  c \in ToSet(order) \cup freed <=> fanin(c) \subseteq done \cup {cell}
    BY <1>9
  <2>1. c \in ToSet(order) <=> fanin(c) \subseteq done
    BY <1>3 DEF Kahn
  <2>2. c \in freed <=> fanin(c) \ done = {cell}
    BY <1>12
  <2> QED  BY <2>1, <2>2
<1>14. \A i, j \in 1 .. n + Len(s) : order'[i] = order'[j] => i = j
  <2> SUFFICES ASSUME NEW i \in 1 .. n + Len(s), NEW j \in 1 .. n + Len(s),
                      order'[i] = order'[j]
               PROVE  i = j
    OBVIOUS
  <2>1. \A k \in 1 .. n + Len(s) :
          \/ k \in 1 .. n /\ order'[k] = order[k] /\ order'[k] \in ToSet(order)
          \/ k \in n + 1 .. n + Len(s) /\ k - n \in 1 .. Len(s)
             /\ order'[k] = s[k - n] /\ order'[k] \in freed
    <3> SUFFICES ASSUME NEW k \in 1 .. n + Len(s)
                 PROVE  \/ k \in 1 .. n /\ order'[k] = order[k] /\ order'[k] \in ToSet(order)
                        \/ k \in n + 1 .. n + Len(s) /\ k - n \in 1 .. Len(s)
                           /\ order'[k] = s[k - n] /\ order'[k] \in freed
      OBVIOUS
    <3>1. k \in 1 .. n \/ (k \in n + 1 .. n + Len(s) /\ k - n \in 1 .. Len(s))
      BY <1>4, <1>7
    <3>2. k \in 1 .. n => order[k] \in ToSet(order)
      BY <1>4 DEF ToSet
    <3>3. \A x \in 1 .. Len(s) : s[x] \in freed
      BY <1>7 DEF ToSet
    <3> HIDE DEF freed
    <3> QED  BY <1>9, <3>1, <3>2, <3>3
  <2>2. ToSet(order) \cap freed = {}
    <3>1. \A c \in freed : c \notin ToSet(order)
      <4> SUFFICES ASSUME NEW c \in freed PROVE c \notin ToSet(order)
        OBVIOUS
      <4>1. c \in nodes /\ fanin(c) \ done = {cell}
        BY <1>6, <1>12
      <4> QED  BY <1>3, <4>1 DEF Kahn
    <3> QED  BY <3>1
  <2>3. i - n = j - n => i = j
    BY <1>4, <1>7
  <2> HIDE DEF freed, n
  <2> QED  BY <1>4, <1>7, <2>1, <2>2, <2>3
<1>15. Topological(order)'
  <2> SUFFICES ASSUME NEW i \in 1 .. n + Len(s)
               PROVE  fanin(order'[i]) \subseteq {order'[j] : j \in 1 .. i - 1}
    BY <1>9, <1>11 DEF Topological
  <2>1. CASE i \in 1 .. n
    <3>1. fanin(order[i]) \subseteq {order[j] : j \in 1 .. i - 1}
      BY <1>3, <1>4, <2>1 DEF Kahn, Topological
    <3>2. \A j \in 1 .. i - 1 : order'[j] = order[j]
      BY <1>4, <1>9, <2>1
    <3>3. order'[i] = order[i]
      BY <1>9, <2>1
    <3> QED  BY <3>1, <3>2, <3>3
  <2>2. CASE i \notin 1 .. n
    <3>1. i \in n + 1 .. n + Len(s) /\ i - n \in 1 .. Len(s)
      BY <1>4, <1>7, <2>2
    <3>2. order'[i] \in freed
      BY <1>7, <1>9, <3>1 DEF ToSet
    <3>3. fanin(order'[i]) \subseteq done \cup {cell}
      BY <1>6, <1>12, <3>2
    <3>4. \A j \in 1 .. next' - 1 : j \in 1 .. i - 1
      BY <1>1, <1>4, <3>1
    <3> HIDE DEF cell
    <3> QED  BY <1>10, <3>3, <3>4 DEF done
  <2> QED  BY <2>1, <2>2
<1>16. TypeOK'
  <2>1. indegree' \in [Cell -> Nat]
    <3> SUFFICES ASSUME NEW c \in Cell PROVE indegree'[c] \in Nat
      BY <1>1
    <3>1. CASE c \in nodes
      BY <1>12, <3>1
    <3>2. CASE c \notin nodes
      BY <1>1, <1>3, <1>6, <3>2 DEF TypeOK
    <3> QED  BY <3>1, <3>2
  <2>2. next' \in Nat
    BY <1>1, <1>3
  <2> QED  BY <1>1, <1>3, <1>9, <2>1, <2>2 DEF TypeOK, design
<1>17. Design'
  <2>1. next' >= 1
    BY <1>1, <1>3
  <2> QED  BY <1>1, <1>16, <2>1 DEF Design, SortInv, design
<1>18. IsInjective(order')
  BY <1>9, <1>14 DEF IsInjective
<1>19. next' <= Len(order') + 1
  BY <1>1, <1>4, <1>7, <1>9
<1>20. ToSet(order') \subseteq nodes
  BY <1>4, <1>6, <1>9
<1>21. \A c \in nodes : indegree'[c] = Cardinality(fanin(c) \ (done \cup {cell}))
  BY <1>12
<1> HIDE DEF cell
<1> QED
  BY <1>10, <1>11, <1>13, <1>15, <1>17, <1>18, <1>19, <1>20, <1>21 DEF Kahn

(* All cells are in the order if and only if the graph has no loop.        *)
LEMMA SortEndSorts ==
  ASSUME SortInv, SortEnd
  PROVE  Design' /\ OrderRight'
<1>1. /\ UNCHANGED design /\ phase = "SORT" /\ phase' = "ARRIVAL" /\ next' = 1
      /\ UNCHANGED <<indegree, arrival, critical_pred, required, path>>
      /\ next > Len(order)
      /\ order' = IF Len(order) = Len(cells) THEN order ELSE cells
  BY DEF SortEnd
<1>2. /\ TypeOK /\ Kahn /\ next \in Nat /\ next >= 1 /\ IsInjective(cells)
      /\ cells \in Seq(Cell) /\ order \in Seq(Cell)
  BY <1>1 DEF SortInv, Design, Timed, TypeOK
<1>3. Len(order) \in Nat /\ DOMAIN order = 1 .. Len(order) /\ next - 1 = Len(order)
  <2>1. Len(order) \in Nat /\ DOMAIN order = 1 .. Len(order)
    BY <1>2, LenProperties
  <2> QED  BY <1>1, <1>2, <2>1 DEF Kahn
<1>4. done = ToSet(order)
  BY <1>3 DEF done, ToSet
<1>5. /\ IsFiniteSet(nodes) /\ Cardinality(nodes) = Len(cells)
      /\ Cardinality(ToSet(order)) = Len(order)
  BY <1>2, InjectiveLength DEF Kahn, nodes
<1>6. Len(order) = Len(cells) <=> ToSet(order) = nodes
  BY <1>2, <1>5, FS_Subset DEF Kahn
<1>7. Acyclic => ToSet(order) = nodes
  <2> SUFFICES ASSUME Acyclic, ToSet(order) # nodes PROVE FALSE
    OBVIOUS
  <2>1. nodes \ ToSet(order) # {}
    BY <1>2 DEF Kahn
  <2>2. PICK c \in nodes \ ToSet(order) : fanin(c) \cap (nodes \ ToSet(order)) = {}
    BY <2>1 DEF Acyclic
  <2>3. fanin(c) \subseteq ToSet(order)
    BY <1>2, <2>2, GraphFacts
  <2> QED  BY <1>2, <1>4, <2>2, <2>3 DEF Kahn
<1>8. ToSet(order) = nodes => Acyclic
  <2> SUFFICES ASSUME ToSet(order) = nodes, NEW S \in SUBSET nodes, S # {}
               PROVE  \E c \in S : fanin(c) \cap S = {}
    BY DEF Acyclic
  <2> DEFINE places == {i \in 1 .. Len(order) : order[i] \in S}
  <2>1. places # {} /\ places \in SUBSET Nat
    BY <1>3 DEF ToSet
  <2>2. PICK i \in places : \A j \in places : i <= j
    <3> HIDE DEF places
    <3> QED  BY <2>1, LeastNatural
  <2>3. fanin(order[i]) \subseteq {order[j] : j \in 1 .. i - 1}
    BY <1>2, <1>3 DEF Kahn, Topological
  <2>4. ASSUME NEW j \in 1 .. i - 1 PROVE order[j] \notin S
    <3>1. j \in 1 .. Len(order) /\ ~(i <= j)
      BY <1>3
    <3> QED  BY <2>2, <3>1
  <2> QED  BY <2>2, <2>3, <2>4
<1>9. /\ order' \in Seq(Cell) /\ IsInjective(order') /\ ToSet(order') = nodes
      /\ Acyclic => order' = order
      /\ ~Acyclic => order' = cells
  BY <1>1, <1>2, <1>6, <1>7, <1>8 DEF Kahn, nodes
<1>10. TypeOK'
  BY <1>1, <1>2, <1>9 DEF TypeOK, design
<1>11. Design'
  BY <1>1, <1>10 DEF Design, SortInv, Timed, design
<1>12. Acyclic => Topological(order)'
  BY <1>1, <1>2, <1>9, GraphStays DEF Kahn, Topological
<1>13. nodes' = nodes /\ (Acyclic' <=> Acyclic) /\ cells' = cells
  BY <1>1, GraphStays DEF design
<1> QED  BY <1>9, <1>11, <1>12, <1>13 DEF OrderRight

(* The later steps keep the types and the order.                           *)
LEMMA LaterTypes ==
  ASSUME SortInv, ArrivalCell \/ ArrivalEnd \/ RequiredCell \/ RequiredEnd \/ TracePath
  PROVE  Design'
<1>1. /\ TypeOK /\ UNCHANGED <<design, indegree, order>>
      /\ phase \in {"ARRIVAL", "REQUIRED", "TRACE"}
  BY DEF SortInv, Design, ArrivalCell, ArrivalEnd, RequiredCell, RequiredEnd, TracePath
<1>2. /\ nodes \subseteq Cell /\ endpoints \subseteq nodes \cup {NoCell}
      /\ \A c : fanin(c) \subseteq nodes
      /\ \A c \in Cell : delay(c) \in Nat \ {0}
      /\ required_time \in Nat
  BY <1>1, GraphFacts, WorstArrival
<1>3. /\ order \in Seq(Cell) /\ Len(order) \in Nat /\ next \in Nat
      /\ arrival \in [Cell -> Nat] /\ critical_pred \in [Cell -> Cell \cup {NoCell}]
      /\ required \in [Cell -> Int] /\ path \in Seq(Cell)
      /\ \A i \in 1 .. Len(order) : order[i] \in Cell
  <2>1. order \in Seq(Cell)
    BY <1>1 DEF TypeOK
  <2>2. Len(order) \in Nat /\ \A i \in 1 .. Len(order) : order[i] \in Cell
    BY <2>1, LenProperties, ElementOfSeq
  <2> QED  BY <1>1, <2>1, <2>2 DEF TypeOK
<1>4. CASE ArrivalCell
  <2> DEFINE cell == order[next]
  <2>1. /\ UNCHANGED <<phase, required, path>> /\ phase = "ARRIVAL" /\ next' = next + 1
        /\ next <= Len(order)
    BY <1>4 DEF ArrivalCell
  <2>2. next >= 1
    BY <2>1 DEF SortInv, Design, Timed
  <2>3. cell \in Cell /\ delay(cell) \in Nat
    <3>1. cell \in Cell
      BY <1>3, <2>1, <2>2
    <3> HIDE DEF cell
    <3> QED  BY <1>2, <3>1
  <2>4. arrival' \in [Cell -> Nat] /\ critical_pred' \in [Cell -> Cell \cup {NoCell}]
    <3>1. CASE fanin(cell) = {}
      <4>1. critical_pred' = critical_pred /\ arrival' = [arrival EXCEPT ![cell] = delay(cell)]
        BY <1>4, <3>1 DEF ArrivalCell
      <4> HIDE DEF cell
      <4> QED  BY <1>3, <2>3, <4>1
    <3>2. CASE fanin(cell) # {}
      <4>1. PICK p \in fanin(cell) :
              /\ critical_pred' = [critical_pred EXCEPT ![cell] = p]
              /\ arrival' = [arrival EXCEPT ![cell] = arrival[p] + delay(cell)]
        BY <1>4, <3>2 DEF ArrivalCell
      <4> HIDE DEF cell
      <4>2. p \in Cell /\ arrival[p] + delay(cell) \in Nat
        BY <1>2, <1>3, <2>3
      <4> QED  BY <1>3, <2>3, <4>1, <4>2
    <3> QED  BY <3>1, <3>2
  <2>5. TypeOK'
    BY <1>1, <1>3, <2>1, <2>4 DEF TypeOK, design
  <2>6. next' >= 1
    BY <1>3, <2>1, <2>2
  <2> QED  BY <1>1, <2>1, <2>5, <2>6 DEF Design, SortInv, design
<1>5. CASE ArrivalEnd
  <2>1. /\ phase' = "REQUIRED" /\ next' = Len(order)
        /\ UNCHANGED <<arrival, critical_pred, path>>
        /\ required' = [c \in Cell |-> IF c \in endpoints /\ required_time < UNREACHED
                                       THEN required_time ELSE UNREACHED]
    BY <1>5 DEF ArrivalEnd
  <2>2. required' \in [Cell -> Int]
    BY <1>2, <2>1 DEF UNREACHED
  <2>3. TypeOK'
    BY <1>1, <1>3, <2>1, <2>2 DEF TypeOK, design
  <2>4. next' <= Len(order')
    BY <1>1, <1>3, <2>1
  <2> QED  BY <1>1, <2>1, <2>3, <2>4 DEF Design, SortInv, design, Timed
<1>6. CASE RequiredCell
  <2> DEFINE cell == order[next]
  <2>1. /\ UNCHANGED <<phase, arrival, critical_pred, path>> /\ phase = "REQUIRED"
        /\ next >= 1 /\ next' = next - 1
        /\ required' =
             [c \in Cell |->
                IF c \in fanin(cell) /\ required[cell] # UNREACHED
                     /\ required[cell] - delay(cell) < required[c]
                THEN required[cell] - delay(cell) ELSE required[c]]
    BY <1>6 DEF RequiredCell
  <2>2. next <= Len(order)
    BY <2>1 DEF SortInv, Design
  <2>3. cell \in Cell
    BY <1>3, <2>1, <2>2
  <2>4. required[cell] - delay(cell) \in Int
    <3> HIDE DEF cell
    <3> QED  BY <1>2, <1>3, <2>3
  <2>5. required' \in [Cell -> Int]
    <3> HIDE DEF cell
    <3> QED  BY <1>3, <2>1, <2>4
  <2>6. next' \in Nat /\ next' <= Len(order')
    BY <1>1, <1>3, <2>1, <2>2
  <2>7. TypeOK'
    BY <1>1, <1>3, <2>1, <2>5, <2>6 DEF TypeOK, design
  <2> QED  BY <1>1, <2>1, <2>6, <2>7 DEF Design, SortInv, design, Timed
<1>7. CASE RequiredEnd
  <2>1. /\ UNCHANGED <<arrival, critical_pred, next>>
        /\ required' = [c \in Cell |-> IF c \in nodes /\ required[c] = UNREACHED
                                       THEN required_time ELSE required[c]]
        /\ phase' = IF path' = <<>> THEN "DONE" ELSE "TRACE"
    BY <1>7 DEF RequiredEnd
  <2>2. path' = <<>> \/ \E e \in endpoints : e # NoCell /\ path' = <<e>>
    <3>1. CASE endpoints = {}
      BY <1>7, <3>1 DEF RequiredEnd
    <3>2. CASE endpoints # {}
      <4>1. PICK e \in endpoints : path' = IF e = NoCell THEN <<>> ELSE <<e>>
        BY <1>7, <3>2 DEF RequiredEnd
      <4> QED  BY <4>1
    <3> QED  BY <3>1, <3>2
  <2>3. path' \in Seq(Cell)
    <3>1. <<>> \in Seq(Cell) /\ \A e \in Cell : <<e>> \in Seq(Cell)
      OBVIOUS
    <3>2. \A e \in endpoints : e # NoCell => e \in Cell
      BY <1>2
    <3> QED  BY <2>2, <3>1, <3>2
  <2>4. required' \in [Cell -> Int]
    BY <1>2, <1>3, <2>1
  <2>5. TypeOK'
    BY <1>1, <1>3, <2>1, <2>3, <2>4 DEF TypeOK, design
  <2> QED  BY <1>1, <2>1, <2>5 DEF Design, SortInv, design, Timed
<1>8. CASE TracePath
  <2> DEFINE pred == critical_pred[Last(path)]
  <2>1. UNCHANGED <<next, arrival, critical_pred, required>> /\ phase = "TRACE"
    BY <1>8 DEF TracePath
  <2>2. path # <<>>
    BY <2>1 DEF SortInv, Design
  <2>3. Last(path) \in Cell
    <3>1. Len(path) \in Nat \ {0}
      BY <1>3, <2>2, EmptySeq
    <3> QED  BY <1>3, <3>1, ElementOfSeq DEF Last
  <2>4. pred \in Cell \cup {NoCell}
    BY <1>3, <2>3
  <2>5. path' \in Seq(Cell) /\ path' # <<>> /\ phase' \in {"TRACE", "DONE"}
    <3>1. CASE pred = NoCell \/ pred \in ToSet(path)
      BY <1>3, <1>8, <2>2, <3>1 DEF TracePath
    <3>2. CASE ~(pred = NoCell \/ pred \in ToSet(path))
      <4>1. path' = Append(path, pred) /\ phase' = phase
        BY <1>8, <3>2 DEF TracePath
      <4>2. pred \in Cell
        BY <2>4, <3>2
      <4> HIDE DEF pred
      <4> QED  BY <1>3, <2>1, <4>1, <4>2, AppendProperties
    <3> QED  BY <3>1, <3>2
  <2>6. TypeOK'
    BY <1>1, <1>3, <2>1, <2>5 DEF TypeOK, design
  <2> QED  BY <1>1, <2>5, <2>6 DEF Design, SortInv, design, Timed
<1> QED  BY <1>4, <1>5, <1>6, <1>7, <1>8

\* The invariant of the sort holds initially, ...
LEMMA InitSort == Init => SortInv
BY InitDesign DEF SortInv, OrderRight, Init

\* ... and every step keeps it.
LEMMA NextSort == SortInv /\ [Next]_vars => SortInv'
<1> SUFFICES ASSUME SortInv, [Next]_vars PROVE SortInv'
  OBVIOUS
<1>1. CASE Build
  BY <1>1, BuildSorts DEF SortInv, Build, OrderRight
<1>2. CASE SortCell
  BY <1>2, SortCellSorts DEF SortInv, SortCell, OrderRight
<1>3. CASE SortEnd
  BY <1>3, SortEndSorts DEF SortInv, SortEnd
<1>4. CASE ArrivalCell \/ ArrivalEnd \/ RequiredCell \/ RequiredEnd \/ TracePath
  <2>1. /\ UNCHANGED <<design, order>> /\ phase \notin {"BUILD", "SORT"}
        /\ phase' \notin {"BUILD", "SORT"}
    BY <1>4 DEF ArrivalCell, ArrivalEnd, RequiredCell, RequiredEnd, TracePath
  <2>2. nodes' = nodes /\ (Acyclic' <=> Acyclic) /\ cells' = cells
        /\ \A c : fanin(c)' = fanin(c)
    BY <2>1, GraphStays DEF design
  <2>3. Topological(order)' <=> Topological(order)
    BY <2>1, <2>2 DEF Topological
  <2>4. OrderRight'
    BY <2>1, <2>2, <2>3 DEF SortInv, OrderRight
  <2> QED  BY <1>4, <2>1, <2>4, LaterTypes DEF SortInv
<1>5. CASE UNCHANGED vars
  <2> USE <1>5 DEF vars
  <2>1. UNCHANGED design
    BY DEF design
  <2>2. nodes' = nodes /\ (Acyclic' <=> Acyclic) /\ \A c : fanin(c)' = fanin(c)
    BY <2>1, GraphStays
  <2>3. Topological(order)' <=> Topological(order)
    BY <2>2 DEF Topological
  <2>4. OrderRight'
    BY <2>2, <2>3 DEF SortInv, OrderRight
  <2>5. Design'
    BY DEF SortInv, Design, TypeOK
  <2>6. done' = done
    BY DEF done
  <2>7. Kahn' <=> Kahn
    BY <2>2, <2>3, <2>6 DEF Kahn
  <2> QED  BY <2>4, <2>5, <2>7 DEF SortInv
<1> QED  BY <1>1, <1>2, <1>3, <1>4, <1>5 DEF Next, Terminated

\* The graph and the order are as they should be throughout.
THEOREM SortInvariance == Spec => []SortInv
BY InitSort, NextSort, PTL DEF Spec

(* The pass sorts every graph: each timed cell comes once, and behind all  *)
(* its predecessors if the graph has no loop.                              *)
THEOREM GraphIsAlwaysSorted == Spec => []GraphIsSorted
BY SortInvariance, PTL DEF SortInv, Design, GraphIsSorted

-----------------------------------------------------------------------------
(* Paths and what they cost.                                               *)

total(S) == MapThenSumSet(delay, S)

(* The cost of a set of cells does not depend on the order of the summands. *)
LEMMA CostFacts ==
  ASSUME TypeOK
  PROVE  /\ total({}) = 0
         /\ \A S \in SUBSET Cell : total(S) \in Nat
         /\ \A S \in SUBSET Cell : \A x \in S : total(S) = delay(x) + total(S \ {x})
<1>1. PICK w \in [Cell -> Nat] : \A c \in Cell : w[c] = delay(c)
  <2> DEFINE v == [c \in Cell |-> delay(c)]
  <2>1. v \in [Cell -> Nat] /\ \A c \in Cell : v[c] = delay(c)
    BY GraphFacts
  <2> QED  BY <2>1
<1>2. PICK F \in [SUBSET Cell -> Nat] : IsSum(F, Cell, w)
  BY <1>1, CellAssumption, SumExists
<1>a. ASSUME NEW X \in SUBSET Cell
      PROVE  /\ X = {} => F[X] = 0
             /\ X # {} => pick(X) \in X /\ F[X] = w[pick(X)] + F[X \ {pick(X)}]
             /\ \A x \in X : F[X] = w[x] + F[X \ {x}]
  <2>1. IsSum(F, Cell, w)
    BY <1>2
  <2>2. X = {} => F[X] = 0
    BY <2>1, SumStep
  <2>3. ASSUME X # {} PROVE pick(X) \in X /\ F[X] = w[pick(X)] + F[X \ {pick(X)}]
    BY <2>1, <2>3, SumStep
  <2>4. ASSUME NEW x \in X PROVE F[X] = w[x] + F[X \ {x}]
    BY <2>1, CellAssumption, SumRemove
  <2> QED  BY <2>2, <2>3, <2>4
<1>3. ASSUME NEW S \in SUBSET Cell PROVE total(S) = F[S]
  <2> DEFINE Eq(g) == g = [s \in SUBSET S |->
                             IF s = {} THEN 0 ELSE delay(CHOOSE x \in s : TRUE)
                                                   + g[s \ {CHOOSE x \in s : TRUE}]]
             G == CHOOSE g : Eq(g)
             H == [s \in SUBSET S |-> F[s]]
  <2>1. total(S) = G[S]
    BY DEF total, MapThenSumSet, MapThenFoldSet
  <2>2. Eq(H)
    <3>1. ASSUME NEW s \in SUBSET S
          PROVE  H[s] = IF s = {} THEN 0 ELSE delay(CHOOSE x \in s : TRUE)
                                              + H[s \ {CHOOSE x \in s : TRUE}]
      <4>1. s \in SUBSET Cell /\ H[s] = F[s]
        OBVIOUS
      <4>2. CASE s = {}
        BY <1>a, <4>1, <4>2
      <4>3. CASE s # {}
        <5>1. pick(s) \in s /\ F[s] = w[pick(s)] + F[s \ {pick(s)}]
          BY <1>a, <4>1, <4>3
        <5>2. s \ {pick(s)} \in SUBSET S /\ w[pick(s)] = delay(pick(s))
          BY <1>1, <4>1, <5>1
        <5>3. H[s \ {pick(s)}] = F[s \ {pick(s)}]
          BY <5>2
        <5>4. H[s] = delay(pick(s)) + H[s \ {pick(s)}]
          BY <4>1, <5>1, <5>2, <5>3
        <5> QED  BY <4>3, <5>4 DEF pick
      <4> QED  BY <4>2, <4>3
    <3>2. H = [s \in SUBSET S |-> H[s]]
      OBVIOUS
    <3> HIDE DEF H
    <3> QED  BY <3>1, <3>2
  <2>3. Eq(G)
    <3> HIDE DEF Eq, H
    <3> QED  BY <2>2
  <2>4. IsSum(G, S, w)
    <3>1. \A s \in SUBSET S : s # {} => pick(s) \in s /\ w[pick(s)] = delay(pick(s))
      BY <1>1 DEF pick
    <3>2. G = [s \in SUBSET S |-> IF s = {} THEN 0 ELSE delay(pick(s)) + G[s \ {pick(s)}]]
      <4> HIDE DEF G
      <4> QED  BY <2>3 DEF pick
    <3> HIDE DEF G
    <3>3. [s \in SUBSET S |-> IF s = {} THEN 0 ELSE delay(pick(s)) + G[s \ {pick(s)}]]
          = [s \in SUBSET S |-> IF s = {} THEN 0 ELSE w[pick(s)] + G[s \ {pick(s)}]]
      BY <3>1
    <3> QED  BY <3>2, <3>3 DEF IsSum
  <2>5. G[S] = F[S]
    <3> HIDE DEF G
    <3>1. S \in SUBSET (S \cap Cell)
      OBVIOUS
    <3> QED  BY <1>2, <2>4, <3>1, CellAssumption, SumUnique
  <2> QED  BY <2>1, <2>5
<1>4. total({}) = 0
  <2>1. {} \in SUBSET Cell
    OBVIOUS
  <2> QED  BY <1>a, <1>3, <2>1
<1>5. \A S \in SUBSET Cell : total(S) \in Nat
  BY <1>2, <1>3
<1>6. ASSUME NEW S \in SUBSET Cell, NEW x \in S
      PROVE  total(S) = delay(x) + total(S \ {x})
  <2>1. F[S] = w[x] + F[S \ {x}]
    BY <1>a
  <2>2. x \in Cell /\ S \ {x} \in SUBSET Cell
    OBVIOUS
  <2> QED  BY <1>1, <1>3, <2>1, <2>2
<1> QED  BY <1>4, <1>5, <1>6

(* What a path is: a sequence of different timed cells, each a predecessor  *)
(* of the next.                                                            *)
LEMMA PathShape ==
  ASSUME TypeOK, NEW s \in Paths
  PROVE  /\ s \in Seq(nodes) /\ Len(s) \in Nat \ {0} /\ DOMAIN s = 1 .. Len(s)
         /\ ToSet(s) \subseteq nodes /\ Last(s) = s[Len(s)] /\ Last(s) \in ToSet(s)
         /\ \A i \in 1 .. Len(s) : s[i] \in nodes
         /\ \A i, j \in 1 .. Len(s) : s[i] = s[j] => i = j
         /\ \A i \in 1 .. Len(s) - 1 : s[i] \in fanin(s[i + 1])
<1>1. PICK S \in SUBSET nodes : s \in SetToSeqs(S)
  BY DEF Paths, SetToAllKPermutations
<1>2. s # <<>> /\ \A i \in 1 .. Len(s) - 1 : s[i] \in fanin(s[i + 1])
  BY DEF Paths
<1>3. IsFiniteSet(S)
  BY <1>1, GraphFacts, FS_Subset
<1>4. /\ s \in Seq(S) /\ DOMAIN s = 1 .. Len(s) /\ ToSet(s) = S
      /\ \A i, j \in 1 .. Len(s) : s[i] = s[j] => i = j
  BY <1>1, <1>3, SetToSeqsLists
<1>5. s \in Seq(nodes)
  BY <1>1, <1>4, SeqMonotonic
<1>6. Len(s) \in Nat \ {0} /\ \A i \in 1 .. Len(s) : s[i] \in nodes
  BY <1>2, <1>5, EmptySeq, LenProperties, ElementOfSeq
<1>7. Last(s) = s[Len(s)] /\ Last(s) \in ToSet(s)
  BY <1>4, <1>6 DEF Last, ToSet
<1> QED  BY <1>1, <1>2, <1>4, <1>5, <1>6, <1>7

(* In a graph without loops every walk is a path.                          *)
LEMMA WalksArePaths ==
  ASSUME TypeOK, Acyclic, NEW s \in Seq(nodes), s # <<>>,
         \A i \in 1 .. Len(s) - 1 : s[i] \in fanin(s[i + 1])
  PROVE  s \in Paths
<1>1. Len(s) \in Nat \ {0} /\ DOMAIN s = 1 .. Len(s) /\ \A i \in 1 .. Len(s) : s[i] \in nodes
  BY EmptySeq, LenProperties, ElementOfSeq
<1>2. \A i, j \in 1 .. Len(s) : i < j => s[i] # s[j]
  <2> SUFFICES ASSUME NEW i \in 1 .. Len(s), NEW j \in 1 .. Len(s), i < j, s[i] = s[j]
               PROVE  FALSE
    OBVIOUS
  <2> DEFINE S == {s[k] : k \in i .. j - 1}
  <2>1. i \in i .. j - 1 /\ \A k \in i .. j - 1 : k \in 1 .. Len(s)
    BY <1>1
  <2>2. S \in (SUBSET nodes) \ {{}}
    BY <1>1, <2>1
  <2>3. PICK c \in S : fanin(c) \cap S = {}
    BY <2>2 DEF Acyclic
  <2>4. PICK k \in i .. j - 1 : c = s[k]
    BY <2>3
  <2>5. CASE k = i
    <3>1. j - 1 \in 1 .. Len(s) - 1 /\ (j - 1) + 1 = j /\ j - 1 \in i .. j - 1
      BY <1>1
    <3>2. s[j - 1] \in fanin(s[j])
      BY <3>1
    <3> QED  BY <2>3, <2>4, <2>5, <3>1, <3>2
  <2>6. CASE k # i
    <3>1. k - 1 \in 1 .. Len(s) - 1 /\ (k - 1) + 1 = k /\ k - 1 \in i .. j - 1
      BY <1>1, <2>4, <2>6
    <3>2. s[k - 1] \in fanin(s[k])
      BY <3>1
    <3> QED  BY <2>3, <2>4, <3>1, <3>2
  <2> QED  BY <2>5, <2>6
<1>3. \A i, j \in 1 .. Len(s) : i # j => s[i] # s[j]
  BY <1>1, <1>2
<1> DEFINE S == ToSet(s)
<1>4. S \in SUBSET nodes
  BY <1>1 DEF ToSet
<1>5. IsInjective(s)
  BY <1>1, <1>3 DEF IsInjective
<1>6. Cardinality(S) = Len(s)
  BY <1>5, InjectiveLength
<1>7. s \in [1 .. Len(s) -> S]
  <2>1. \A i \in 1 .. Len(s) : s[i] \in S
    BY <1>1 DEF ToSet
  <2>2. s = [i \in 1 .. Len(s) |-> s[i]]
    BY <1>1, LenProperties
  <2> HIDE DEF S
  <2> QED  BY <2>1, <2>2
<1>8. s \in SetToSeqs(S)
  <2> HIDE DEF S
  <2> QED  BY <1>3, <1>6, <1>7 DEF SetToSeqs
<1>9. s \in SetToAllKPermutations(nodes)
  <2> HIDE DEF S
  <2> QED  BY <1>4, <1>8 DEF SetToAllKPermutations
<1> QED  BY <1>9 DEF Paths

(* A single cell is a path.                                                *)
LEMMA OneCell ==
  ASSUME TypeOK, Acyclic, NEW c \in nodes
  PROVE  <<c>> \in Paths /\ Last(<<c>>) = c /\ ToSet(<<c>>) = {c} /\ cost(<<c>>) = delay(c)
<1>1. <<c>> \in Seq(nodes) /\ Len(<<c>>) = 1 /\ <<c>> # <<>> /\ DOMAIN <<c>> = {1}
      /\ <<c>>[1] = c
  OBVIOUS
<1>2. <<c>> \in Paths
  <2>1. \A i \in 1 .. Len(<<c>>) - 1 : <<c>>[i] \in fanin(<<c>>[i + 1])
    BY <1>1
  <2> QED  BY <1>1, <2>1, WalksArePaths
<1>3. Last(<<c>>) = c /\ ToSet(<<c>>) = {c}
  BY <1>1 DEF Last, ToSet
<1>4. c \in Cell /\ delay(c) \in Nat
  BY GraphFacts
<1>5. total({c}) = delay(c) + total({c} \ {c}) /\ total({}) = 0
  BY <1>4, CostFacts
<1>6. total({c}) = delay(c)
  <2>1. {c} \ {c} = {}
    OBVIOUS
  <2>2. total({c}) = delay(c) + 0
    BY <1>5, <2>1
  <2> QED  BY <1>4, <2>2
<1> QED  BY <1>2, <1>3, <1>6 DEF cost, total

(* A path goes on with a successor of its last cell.                       *)
LEMMA LongerPath ==
  ASSUME TypeOK, Acyclic, NEW s \in Paths, NEW c \in nodes, Last(s) \in fanin(c)
  PROVE  /\ Append(s, c) \in Paths /\ Last(Append(s, c)) = c
         /\ ToSet(Append(s, c)) = ToSet(s) \cup {c}
         /\ cost(Append(s, c)) = cost(s) + delay(c)
<1> DEFINE t == Append(s, c)
           n == Len(s)
<1>1. /\ s \in Seq(nodes) /\ n \in Nat \ {0} /\ DOMAIN s = 1 .. n
      /\ Last(s) = s[n] /\ ToSet(s) \subseteq nodes
      /\ \A i \in 1 .. n - 1 : s[i] \in fanin(s[i + 1])
  BY PathShape
<1>2. /\ t \in Seq(nodes) /\ Len(t) = n + 1 /\ DOMAIN t = 1 .. n + 1
      /\ t[n + 1] = c /\ \A i \in 1 .. n : t[i] = s[i]
  <2>1. t \in Seq(nodes) /\ Len(t) = n + 1
    BY <1>1, AppendProperties
  <2>2. DOMAIN t = 1 .. n + 1
    BY <2>1, LenProperties
  <2> QED  BY <1>1, <2>1, <2>2, AppendProperties
<1> HIDE DEF t
<1>3. \A i \in 1 .. Len(t) - 1 : t[i] \in fanin(t[i + 1])
  <2> SUFFICES ASSUME NEW i \in 1 .. n PROVE t[i] \in fanin(t[i + 1])
    BY <1>1, <1>2
  <2>1. CASE i = n
    BY <1>1, <1>2, <2>1
  <2>2. CASE i # n
    <3>1. i \in 1 .. n - 1 /\ i + 1 \in 1 .. n
      <4>1. n \in Nat
        BY <1>1
      <4> HIDE DEF n
      <4> QED  BY <2>2, <4>1
    <3> QED  BY <1>1, <1>2, <3>1
  <2> QED  BY <2>1, <2>2
<1>4. t # <<>>
  BY <1>1, <1>2, EmptySeq
<1>5. t \in Paths
  BY <1>2, <1>3, <1>4, WalksArePaths
<1>6. Last(t) = c
  BY <1>1, <1>2 DEF Last
<1>7. ToSet(t) = ToSet(s) \cup {c}
  <2>1. 1 .. n + 1 = (1 .. n) \cup {n + 1}
    BY <1>1
  <2> HIDE DEF n
  <2> QED  BY <1>1, <1>2, <2>1 DEF ToSet
<1>8. c \notin ToSet(s)
  <2> SUFFICES ASSUME NEW i \in 1 .. n, s[i] = c PROVE FALSE
    BY <1>1 DEF ToSet
  <2>1. t[i] = t[n + 1] /\ i \in 1 .. Len(t) /\ n + 1 \in 1 .. Len(t) /\ i # n + 1
    BY <1>1, <1>2
  <2> QED  BY <1>5, <2>1, PathShape
<1>9. cost(t) = cost(s) + delay(c)
  <2> DEFINE S == ToSet(s)
  <2>1. S \in SUBSET Cell /\ c \in Cell /\ S \cup {c} \in SUBSET Cell
        /\ (S \cup {c}) \ {c} = S /\ c \in S \cup {c}
    BY <1>1, <1>8, GraphFacts
  <2> HIDE DEF S
  <2>2. total(S \cup {c}) = delay(c) + total(S) /\ delay(c) \in Nat /\ total(S) \in Nat
    <3>1. total(S \cup {c}) = delay(c) + total((S \cup {c}) \ {c})
      BY <2>1, CostFacts
    <3> QED  BY <2>1, <3>1, CostFacts, GraphFacts
  <2>3. cost(t) = total(S \cup {c}) /\ cost(s) = total(S)
    BY <1>7 DEF cost, total, S
  <2> QED  BY <2>2, <2>3
<1> QED  BY <1>5, <1>6, <1>7, <1>9 DEF t

(* The part of a path up to one of its cells is a path.                    *)
LEMMA PathPrefix ==
  ASSUME TypeOK, Acyclic, NEW s \in Paths, NEW k \in 1 .. Len(s)
  PROVE  /\ SubSeq(s, 1, k) \in Paths /\ Last(SubSeq(s, 1, k)) = s[k]
         /\ cost(SubSeq(s, 1, k)) \in Nat
         /\ k = 1 => cost(SubSeq(s, 1, k)) = delay(s[1])
         /\ k > 1 => cost(SubSeq(s, 1, k)) = cost(SubSeq(s, 1, k - 1)) + delay(s[k])
         /\ k = Len(s) => SubSeq(s, 1, k) = s
<1> DEFINE pre(m) == SubSeq(s, 1, m)
           n == Len(s)
<1>1. /\ s \in Seq(nodes) /\ n \in Nat \ {0} /\ DOMAIN s = 1 .. n
      /\ \A i \in 1 .. n : s[i] \in nodes
      /\ \A i \in 1 .. n - 1 : s[i] \in fanin(s[i + 1])
  BY PathShape
<1>2. ASSUME NEW m \in 1 .. n
      PROVE  /\ pre(m) \in Seq(nodes) /\ Len(pre(m)) = m /\ DOMAIN pre(m) = 1 .. m
             /\ \A i \in 1 .. m : pre(m)[i] = s[i]
             /\ pre(m) \in Paths /\ Last(pre(m)) = s[m]
  <2>1. /\ pre(m) \in Seq(nodes) /\ Len(pre(m)) = m
        /\ \A i \in 1 .. m : pre(m)[i] = s[i]
    BY <1>1, SubSeqProperties
  <2> HIDE DEF pre
  <2>2. DOMAIN pre(m) = 1 .. m
    BY <2>1, LenProperties
  <2>3. m \in Nat \ {0} /\ pre(m) # <<>>
    BY <1>1, <2>1, EmptySeq
  <2>4. \A i \in 1 .. Len(pre(m)) - 1 : pre(m)[i] \in fanin(pre(m)[i + 1])
    <3> SUFFICES ASSUME NEW i \in 1 .. m - 1 PROVE pre(m)[i] \in fanin(pre(m)[i + 1])
      BY <2>1
    <3>1. i \in 1 .. m /\ i + 1 \in 1 .. m /\ i \in 1 .. n - 1
      BY <1>1
    <3> QED  BY <1>1, <2>1, <3>1
  <2>5. pre(m) \in Paths
    BY <2>1, <2>3, <2>4, WalksArePaths
  <2>6. Last(pre(m)) = s[m]
    BY <2>1, <2>3 DEF Last
  <2> QED  BY <2>1, <2>2, <2>5, <2>6
<1>3. cost(pre(k)) \in Nat
  <2>1. ToSet(pre(k)) \in SUBSET Cell
    <3> HIDE DEF pre
    <3> QED  BY <1>2, PathShape, GraphFacts
  <2> QED  BY <2>1, CostFacts DEF cost, total
<1>4. ASSUME k = 1 PROVE cost(pre(k)) = delay(s[1])
  <2>1. 1 \in 1 .. n
    BY <1>1
  <2>2. pre(1) = <<s[1]>>
    <3>1. pre(1) \in Seq(nodes) /\ Len(pre(1)) = 1 /\ pre(1)[1] = s[1]
      <4>1. 1 \in 1 .. 1
        OBVIOUS
      <4> HIDE DEF pre
      <4> QED  BY <1>2, <2>1, <4>1
    <3> HIDE DEF pre
    <3> QED  BY <3>1
  <2> QED  BY <1>1, <1>4, <2>1, <2>2, OneCell
<1>5. ASSUME k > 1 PROVE cost(pre(k)) = cost(pre(k - 1)) + delay(s[k])
  <2>1. k - 1 \in 1 .. n /\ k - 1 \in 1 .. n - 1 /\ (k - 1) + 1 = k /\ s[k] \in nodes
    BY <1>1, <1>5
  <2>2. Last(pre(k - 1)) \in fanin(s[k]) /\ pre(k - 1) \in Paths
    <3> HIDE DEF pre
    <3> QED  BY <1>1, <1>2, <2>1
  <2>3. pre(k) = Append(pre(k - 1), s[k])
    <3> DEFINE a == pre(k - 1)
               b == Append(a, s[k])
    <3>1. /\ a \in Seq(nodes) /\ Len(a) = k - 1 /\ \A i \in 1 .. k - 1 : a[i] = s[i]
          /\ pre(k) \in Seq(nodes) /\ Len(pre(k)) = k /\ \A i \in 1 .. k : pre(k)[i] = s[i]
      <4> HIDE DEF pre
      <4> QED  BY <1>2, <2>1
    <3> HIDE DEF pre, a
    <3>2. /\ b \in Seq(nodes) /\ Len(b) = k /\ b[k] = s[k]
          /\ \A i \in 1 .. k - 1 : b[i] = s[i]
      BY <2>1, <3>1, AppendProperties
    <3>3. \A i \in 1 .. k : b[i] = s[i]
      <4> SUFFICES ASSUME NEW i \in 1 .. k PROVE b[i] = s[i]
        OBVIOUS
      <4>1. i = k \/ i \in 1 .. k - 1
        BY <2>1
      <4> QED  BY <3>2, <4>1
    <3> HIDE DEF b
    <3>4. pre(k) = b
      BY <3>1, <3>2, <3>3, SeqEqual
    <3> QED  BY <3>4 DEF a, b
  <2> HIDE DEF pre
  <2> QED  BY <2>1, <2>2, <2>3, LongerPath
<1>6. k = n => pre(k) = s
  <2> SUFFICES ASSUME k = n PROVE pre(n) = s
    OBVIOUS
  <2>1. n \in 1 .. n
    BY <1>1
  <2> HIDE DEF pre
  <2> QED  BY <1>1, <1>2, <2>1, SeqEqual
<1> QED  BY <1>2, <1>3, <1>4, <1>5, <1>6

-----------------------------------------------------------------------------
(* Arrival times.                                                          *)

\* What propagate_arrivals has settled about a cell.
Arrived(c) ==
  \/ fanin(c) = {} /\ critical_pred[c] = NoCell /\ arrival[c] = delay(c)
  \/ /\ critical_pred[c] \in fanin(c)
     /\ \A q \in fanin(c) : arrival[q] <= arrival[critical_pred[c]]
     /\ arrival[c] = arrival[critical_pred[c]] + delay(c)

\* An arrival time exceeds those of the predecessors by the delay.
LEMMA ArrivedGrows ==
  ASSUME TypeOK, NEW c \in nodes, Arrived(c)
  PROVE  /\ arrival[c] \in Nat \ {0} /\ delay(c) \in Nat \ {0} /\ delay(c) <= arrival[c]
         /\ \A q \in fanin(c) : arrival[q] \in Nat /\ arrival[q] + delay(c) <= arrival[c]
<1>1. /\ c \in Cell /\ delay(c) \in Nat \ {0}
      /\ \A q \in fanin(c) : q \in Cell
      /\ arrival \in [Cell -> Nat]
  BY GraphFacts DEF TypeOK
<1>2. CASE fanin(c) = {}
  BY <1>1, <1>2 DEF Arrived
<1>3. CASE fanin(c) # {}
  <2> DEFINE p == critical_pred[c]
  <2>1. p \in fanin(c) /\ arrival[c] = arrival[p] + delay(c)
        /\ \A q \in fanin(c) : arrival[q] <= arrival[p]
    BY <1>3 DEF Arrived
  <2> HIDE DEF p
  <2>2. arrival[p] \in Nat /\ \A q \in fanin(c) : arrival[q] \in Nat
    BY <1>1, <2>1
  <2> QED  BY <1>1, <2>1, <2>2
<1> QED  BY <1>2, <1>3

\* No path that ends in a cell costs more than its arrival time.
LEMMA ArrivalBounds ==
  ASSUME TypeOK, Acyclic, \A c \in nodes : Arrived(c), NEW s \in Paths
  PROVE  cost(s) \in Nat /\ cost(s) <= arrival[Last(s)]
<1>1. ASSUME NEW u \in Paths
      PROVE  /\ Last(u) \in nodes /\ cost(u) \in Nat /\ Len(u) \in Nat \ {0}
             /\ Last(u) = u[Len(u)] /\ arrival[Last(u)] \in Nat
  <2>1. Len(u) \in Nat \ {0} /\ Len(u) \in 1 .. Len(u) /\ Last(u) = u[Len(u)]
        /\ \A i \in 1 .. Len(u) : u[i] \in nodes
    BY PathShape
  <2>2. cost(SubSeq(u, 1, Len(u))) \in Nat /\ SubSeq(u, 1, Len(u)) = u
    BY <2>1, PathPrefix
  <2>3. Last(u) \in nodes /\ Last(u) \in Cell
    BY <2>1, GraphFacts
  <2>4. arrival[Last(u)] \in Nat
    BY <2>3 DEF TypeOK
  <2> QED  BY <2>1, <2>2, <2>3, <2>4
<1> DEFINE T == {c \in nodes : \E u \in Paths : Last(u) = c /\ ~(cost(u) <= arrival[c])}
<1>2. T = {}
  <2> SUFFICES ASSUME T # {} PROVE FALSE
    OBVIOUS
  <2>1. PICK c \in T : fanin(c) \cap T = {}
    BY DEF Acyclic
  <2>2. PICK u \in Paths : Last(u) = c /\ ~(cost(u) <= arrival[c])
    BY <2>1
  <2> DEFINE n == Len(u)
             v == SubSeq(u, 1, n - 1)
  <2>3. n \in Nat \ {0} /\ n \in 1 .. n /\ c = u[n] /\ c \in nodes /\ SubSeq(u, 1, n) = u
    <3>1. n \in Nat \ {0} /\ n \in 1 .. n /\ c = u[n] /\ c \in nodes
      BY <1>1, <2>2
    <3> QED  BY <3>1, PathPrefix
  <2>4. arrival[c] \in Nat \ {0} /\ delay(c) <= arrival[c]
        /\ \A q \in fanin(c) : arrival[q] \in Nat /\ arrival[q] + delay(c) <= arrival[c]
    BY <2>3, ArrivedGrows
  <2>5. CASE n = 1
    <3>1. cost(u) = delay(u[1])
      BY <2>3, <2>5, PathPrefix
    <3> QED  BY <2>2, <2>3, <2>4, <2>5, <3>1
  <2>6. CASE n # 1
    <3>1. n > 1 /\ n - 1 \in 1 .. n /\ n - 1 \in 1 .. n - 1 /\ (n - 1) + 1 = n
      <4>1. n \in Nat \ {0}
        BY <2>3
      <4> HIDE DEF n
      <4> QED  BY <2>6, <4>1
    <3>2. cost(u) = cost(v) + delay(c)
      BY <2>3, <3>1, PathPrefix
    <3>3. v \in Paths /\ Last(v) = u[n - 1]
      BY <3>1, PathPrefix
    <3>4. u[n - 1] \in fanin(u[n])
      BY <3>1, PathShape
    <3> HIDE DEF v
    <3>5. Last(v) \in fanin(c) /\ Last(v) \in nodes /\ cost(v) \in Nat
      BY <1>1, <2>3, <3>3, <3>4
    <3>6. cost(v) <= arrival[Last(v)]
      BY <2>1, <3>3, <3>5
    <3> DEFINE x == cost(v)
               y == arrival[Last(v)]
               d == delay(c)
               z == arrival[c]
    <3>7. x \in Nat /\ y \in Nat /\ d \in Nat /\ z \in Nat /\ x <= y /\ y + d <= z
      BY <2>3, <2>4, <3>5, <3>6, ArrivedGrows
    <3>8. cost(u) = x + d /\ ~(cost(u) <= z)
      BY <2>2, <3>2
    <3> HIDE DEF x, y, d, z
    <3> QED  BY <3>7, <3>8
  <2> QED  BY <2>5, <2>6
<1> QED  BY <1>1, <1>2

\* Some path that ends in a cell costs just its arrival time.
LEMMA ArrivalAttained ==
  ASSUME TypeOK, Acyclic, \A c \in nodes : Arrived(c), NEW c \in nodes
  PROVE  \E s \in Paths : Last(s) = c /\ cost(s) = arrival[c]
<1> DEFINE T == {d \in nodes : ~\E s \in Paths : Last(s) = d /\ cost(s) = arrival[d]}
<1> SUFFICES ASSUME T # {} PROVE FALSE
  OBVIOUS
<1>1. PICK d \in T : fanin(d) \cap T = {}
  BY DEF Acyclic
<1>2. d \in nodes /\ Arrived(d) /\ ~\E s \in Paths : Last(s) = d /\ cost(s) = arrival[d]
  BY <1>1
<1>3. CASE fanin(d) = {}
  BY <1>2, <1>3, OneCell DEF Arrived
<1>4. CASE fanin(d) # {}
  <2> DEFINE p == critical_pred[d]
  <2>1. p \in fanin(d) /\ arrival[d] = arrival[p] + delay(d)
    BY <1>2, <1>4 DEF Arrived
  <2>2. p \in nodes
    BY <2>1, GraphFacts
  <2> HIDE DEF p
  <2>3. PICK s \in Paths : Last(s) = p /\ cost(s) = arrival[p]
    BY <1>1, <2>1, <2>2
  <2>4. Append(s, d) \in Paths /\ Last(Append(s, d)) = d
        /\ cost(Append(s, d)) = cost(s) + delay(d)
    BY <1>2, <2>1, <2>3, LongerPath
  <2> QED  BY <1>2, <2>1, <2>3, <2>4
<1> QED  BY <1>3, <1>4

\* So the arrival time is the cost of the dearest path.
LEMMA LongestPath ==
  ASSUME TypeOK, Acyclic, \A c \in nodes : Arrived(c), NEW c \in nodes
  PROVE  arrival[c] = Max({cost(s) : s \in {t \in Paths : Last(t) = c}})
<1> DEFINE S == {cost(s) : s \in {t \in Paths : Last(t) = c}}
           a == arrival[c]
<1>1. a \in S
  BY ArrivalAttained
<1>2. \A y \in S : y \in Nat /\ y <= a
  BY ArrivalBounds
<1>3. a \in Nat
  BY GraphFacts DEF TypeOK
<1> HIDE DEF S, a
<1>4. \A x \in S : (\A y \in S : x >= y) => x = a
  BY <1>1, <1>2, <1>3
<1>5. a \in S /\ \A y \in S : a >= y
  BY <1>1, <1>2, <1>3
<1>6. Max(S) = a
  BY <1>4, <1>5 DEF Max
<1> QED  BY <1>6 DEF S, a

-----------------------------------------------------------------------------
(* Required times.                                                         *)

\* The required time of a cell is the least that its successors among P, and
\* the endpoint that it may drive, leave.
Wanted(c, P) ==
  /\ required[c] <= UNREACHED
  /\ c \in endpoints => required[c] <= required_time
  /\ \A s \in fanout(c) \cap P : required[c] <= required[s] - delay(s)
  /\ \/ required[c] = UNREACHED
     \/ c \in endpoints /\ required[c] = required_time
     \/ \E s \in fanout(c) \cap P : required[c] = required[s] - delay(s)
  /\ c \in P => required[c] <= required_time

\* A cell that nothing reads is an endpoint.
LEMMA OpenCells == \A c \in nodes : fanout(c) = {} => c \in endpoints
BY DEF endpoints, open_endpoints

\* A set of cells has one without a successor in it.
LEMMA LastOfAll ==
  ASSUME TypeOK, Acyclic, NEW T \in SUBSET nodes, T # {}
  PROVE  \E c \in T : fanout(c) \cap T = {}
<1> DEFINE F == {X \in SUBSET T : X # {} /\ ~\E c \in X : fanout(c) \cap X = {}}
<1> SUFFICES ASSUME F # {} PROVE FALSE
  BY DEF F
<1>1. PICK X \in F : \A Y \in F : Y \subseteq X => Y = X
  <2>1. F \in SUBSET SUBSET nodes /\ IsFiniteSet(nodes)
    BY GraphFacts
  <2> HIDE DEF F
  <2> QED  BY <2>1, MinimalSubset
<1>2. X \in SUBSET nodes /\ X # {} /\ ~\E c \in X : fanout(c) \cap X = {}
  BY <1>1
<1>3. PICK c \in X : fanin(c) \cap X = {}
  BY <1>2 DEF Acyclic
<1>4. PICK s \in X : s \in fanout(c)
  BY <1>2
<1>5. s # c /\ c \in nodes /\ s \in nodes
  BY <1>2, <1>3, <1>4, GraphFacts
<1> DEFINE Y == X \ {c}
<1>6. Y # {} /\ Y \subseteq X /\ Y # X /\ Y \in SUBSET T
  BY <1>1, <1>4, <1>5
<1>7. PICK d \in Y : fanout(d) \cap Y = {}
  BY <1>1, <1>6
<1>8. c \in fanout(d)
  BY <1>2, <1>7
<1>9. d \in fanin(c)
  BY <1>8, GraphFacts
<1> QED  BY <1>3, <1>7, <1>9

\* No path through a cell to an endpoint leaves less than its slack.
LEMMA SlackBounds ==
  ASSUME TypeOK, Acyclic, \A c \in nodes : Arrived(c) /\ Wanted(c, nodes),
         NEW t \in Paths, Last(t) \in endpoints, NEW c \in ToSet(t)
  PROVE  slack(c) <= required_time - cost(t)
<1> DEFINE n == Len(t)
           pre(k) == SubSeq(t, 1, k)
           left(k) == required[t[k]] - cost(pre(k))
<1>1. /\ n \in Nat \ {0} /\ DOMAIN t = 1 .. n /\ Last(t) = t[n]
      /\ \A i \in 1 .. n : t[i] \in nodes
      /\ \A i \in 1 .. n - 1 : t[i] \in fanin(t[i + 1])
  BY PathShape
<1>2. \A k \in 1 .. n : /\ pre(k) \in Paths /\ Last(pre(k)) = t[k] /\ cost(pre(k)) \in Nat
                        /\ k > 1 => cost(pre(k)) = cost(pre(k - 1)) + delay(t[k])
                        /\ k = n => pre(k) = t
  BY PathPrefix
<1>3. \A d \in nodes : required[d] \in Int /\ arrival[d] \in Nat /\ delay(d) \in Nat
  BY GraphFacts DEF TypeOK
<1> HIDE DEF pre
<1>4. \A k \in 1 .. n : left(k) \in Int
  BY <1>1, <1>2, <1>3
<1>5. ASSUME NEW k \in 1 .. n - 1 PROVE left(k) <= left(k + 1) /\ k \in 1 .. n /\ k + 1 \in 1 .. n
  <2>1. k \in 1 .. n /\ k + 1 \in 1 .. n /\ (k + 1) - 1 = k /\ k + 1 > 1
    BY <1>1
  <2>2. t[k + 1] \in fanout(t[k]) \cap nodes
    BY <1>1, <2>1, GraphFacts
  <2>3. required[t[k]] <= required[t[k + 1]] - delay(t[k + 1])
    BY <1>1, <2>1, <2>2 DEF Wanted
  <2>4. cost(pre(k + 1)) = cost(pre(k)) + delay(t[k + 1])
    BY <1>2, <2>1
  <2> DEFINE x == required[t[k]]
             y == required[t[k + 1]]
             d == delay(t[k + 1])
             e == cost(pre(k))
             f == cost(pre(k + 1))
  <2>5. x \in Int /\ y \in Int /\ d \in Int /\ e \in Int /\ x <= y - d /\ f = e + d
    <3>1. t[k] \in nodes /\ t[k + 1] \in nodes
      BY <1>1, <2>1
    <3>2. x \in Int /\ y \in Int /\ d \in Int
      BY <1>3, <3>1
    <3>3. e \in Int
      BY <1>2, <2>1
    <3> QED  BY <2>3, <2>4, <3>2, <3>3
  <2>6. left(k) = x - e /\ left(k + 1) = y - f
    OBVIOUS
  <2> HIDE DEF x, y, d, e, f, left
  <2> QED  BY <2>1, <2>5, <2>6
<1>6. PICK i \in 1 .. n : c = t[i]
  BY <1>1 DEF ToSet
<1> HIDE DEF left
<1>7. left(i) <= left(n)
  <2> DEFINE T == {k \in Nat : k >= i /\ k <= n /\ ~(left(i) <= left(k))}
  <2> SUFFICES ASSUME T # {} PROVE FALSE
    <3>1. n \in Nat /\ n >= i /\ n <= n
      BY <1>1
    <3>2. n \notin T
      OBVIOUS
    <3> HIDE DEF n
    <3> QED  BY <3>1, <3>2
  <2>1. PICK k \in T : \A m \in T : k <= m
    <3>1. T \in SUBSET Nat
      OBVIOUS
    <3> HIDE DEF T
    <3> QED  BY <3>1, LeastNatural
  <2>2. k \in 1 .. n /\ i <= k /\ ~(left(i) <= left(k)) /\ k \in Nat
    BY <1>1, <2>1
  <2>3. k # i
    BY <1>4, <1>6, <2>2
  <2>4. k - 1 \in Nat /\ k - 1 >= i /\ k - 1 <= n /\ k - 1 \in 1 .. n - 1 /\ (k - 1) + 1 = k
        /\ ~(k <= k - 1)
    <3>1. n \in Nat
      BY <1>1
    <3> HIDE DEF n
    <3> QED  BY <1>6, <2>2, <2>3, <3>1
  <2>5. k - 1 \notin T
    <3> HIDE DEF T
    <3> QED  BY <2>1, <2>4
  <2>6. left(i) <= left(k - 1)
    BY <2>4, <2>5
  <2>7. left(k - 1) <= left(k)
    BY <1>5, <2>4
  <2>8. left(i) \in Int /\ left(k - 1) \in Int /\ left(k) \in Int
    BY <1>4, <1>5, <2>2, <2>4
  <2> QED  BY <2>2, <2>6, <2>7, <2>8
<1>8. n \in 1 .. n /\ left(n) = required[t[n]] - cost(t) /\ t[n] \in nodes
  <2>1. n \in 1 .. n
    BY <1>1
  <2>2. pre(n) = t /\ t[n] \in nodes
    BY <1>1, <1>2, <2>1
  <2> QED  BY <2>1, <2>2 DEF left
<1>9. required[t[n]] <= required_time
  BY <1>1, <1>8 DEF Wanted
<1>10. cost(pre(i)) <= arrival[c] /\ cost(pre(i)) \in Nat
  BY <1>2, <1>6, ArrivalBounds
<1>11. cost(t) \in Nat /\ required_time \in Nat
  BY ArrivalBounds, WorstArrival
<1> DEFINE q == required[t[n]]
           x == cost(t)
           r == required_time
           y == cost(pre(i))
           z == arrival[c]
           v == required[c]
<1>12. q \in Int /\ x \in Nat /\ r \in Nat /\ y \in Nat /\ z \in Nat /\ v \in Int
  BY <1>1, <1>3, <1>6, <1>8, <1>10, <1>11
<1>13. v - y <= q - x /\ q <= r /\ y <= z
  BY <1>6, <1>7, <1>8, <1>9, <1>10 DEF left
<1>14. slack(c) = v - z
  BY DEF slack
<1> HIDE DEF q, x, r, y, z, v
<1>15. v - z <= r - x
  BY <1>12, <1>13
<1> QED  BY <1>14, <1>15 DEF r, x

\* Some path through a cell to an endpoint leaves just its slack.
LEMMA SlackAttained ==
  ASSUME TypeOK, Acyclic, required_time < UNREACHED,
         \A c \in nodes : Arrived(c) /\ Wanted(c, nodes), NEW c \in nodes
  PROVE  \E t \in Paths : /\ c \in ToSet(t) /\ Last(t) \in endpoints
                          /\ slack(c) = required_time - cost(t)
<1> DEFINE Goal(u, t) == /\ ToSet(u) \subseteq ToSet(t) /\ Last(t) \in endpoints
                         /\ required[Last(u)] - cost(u) = required_time - cost(t)
           T == {d \in nodes : \E u \in Paths : Last(u) = d /\ ~\E t \in Paths : Goal(u, t)}
<1>1. \A d \in nodes : required[d] \in Int /\ arrival[d] \in Nat /\ delay(d) \in Nat
  BY GraphFacts DEF TypeOK
<1>2. T = {}
  <2> SUFFICES ASSUME T # {} PROVE FALSE
    OBVIOUS
  <2>1. PICK d \in T : fanout(d) \cap T = {}
    <3>1. T \in SUBSET nodes
      OBVIOUS
    <3> HIDE DEF T
    <3> QED  BY <3>1, LastOfAll
  <2>2. PICK u \in Paths : Last(u) = d /\ ~\E t \in Paths : Goal(u, t)
    BY <2>1
  <2>3. d \in nodes /\ Wanted(d, nodes)
    BY <2>1
  <2>4. required[d] # UNREACHED
    <3>1. required[d] <= required_time
      BY <2>3 DEF Wanted
    <3> QED  BY <1>1, <2>3, <3>1, WorstArrival DEF UNREACHED
  <2>5. CASE d \in endpoints /\ required[d] = required_time
    BY <2>2, <2>5
  <2>6. CASE \E s \in fanout(d) \cap nodes : required[d] = required[s] - delay(s)
    <3>1. PICK s \in fanout(d) \cap nodes : required[d] = required[s] - delay(s)
      BY <2>6
    <3> DEFINE v == Append(u, s)
    <3>2. d \in fanin(s) /\ s \in nodes /\ s \notin T
      BY <2>1, <3>1, GraphFacts
    <3>3. /\ v \in Paths /\ Last(v) = s /\ ToSet(v) = ToSet(u) \cup {s}
          /\ cost(v) = cost(u) + delay(s)
      BY <2>2, <3>2, LongerPath
    <3> HIDE DEF v
    <3>4. PICK t \in Paths : Goal(v, t)
      BY <3>2, <3>3
    <3>5. cost(u) \in Nat /\ required[s] \in Int /\ delay(s) \in Nat
      BY <1>1, <3>2, ArrivalBounds
    <3>6. required[d] - cost(u) = required[s] - cost(v)
      BY <3>1, <3>3, <3>5
    <3>7. Goal(u, t)
      BY <2>2, <3>3, <3>4, <3>6
    <3> HIDE DEF Goal
    <3> QED  BY <2>2, <3>7
  <2> QED  BY <2>3, <2>4, <2>5, <2>6 DEF Wanted
<1>3. PICK u \in Paths : Last(u) = c /\ cost(u) = arrival[c]
  BY ArrivalAttained
<1>4. PICK t \in Paths : Goal(u, t)
  BY <1>2, <1>3
<1>5. c \in ToSet(t)
  BY <1>3, <1>4, PathShape
<1> QED  BY <1>3, <1>4, <1>5 DEF slack

\* Slacks at the end of the pass.
LEMMA LeastSlack ==
  ASSUME TypeOK, Acyclic, required_time < UNREACHED,
         \A c \in nodes : Arrived(c) /\ Wanted(c, nodes), NEW c \in nodes
  PROVE  LET left == {required_time - cost(s) : s \in {t \in Paths :
                        c \in ToSet(t) /\ Last(t) \in endpoints}}
         IN  slack(c) \in left /\ \A l \in left : slack(c) <= l
<1>1. PICK t \in Paths : /\ c \in ToSet(t) /\ Last(t) \in endpoints
                         /\ slack(c) = required_time - cost(t)
  BY SlackAttained
<1>2. \A t1 \in Paths : c \in ToSet(t1) /\ Last(t1) \in endpoints
                         => slack(c) <= required_time - cost(t1)
  BY SlackBounds
<1> QED  BY <1>1, <1>2

\* The worst slack without a clock.
LEMMA NoClockNoSlack ==
  ASSUME TypeOK, Acyclic, cells # <<>>, clock_period = 0, \A c \in nodes : Arrived(c)
  PROVE  Min({end_slack(e) : e \in endpoints}) = 0
<1>1. /\ worst_arrival \in Nat /\ required_time = worst_arrival
      /\ \A c \in nodes : arrival[c] <= worst_arrival
      /\ worst_arrival = 0 \/ \E c \in nodes : worst_arrival = arrival[c]
  BY WorstArrival DEF required_time
<1>2. \A c \in nodes : arrival[c] \in Nat \ {0}
  BY ArrivedGrows
<1>3. nodes # {}
  <2>1. Len(cells) \in Nat \ {0} /\ DOMAIN cells = 1 .. Len(cells)
    BY EmptySeq, LenProperties DEF TypeOK
  <2>2. 1 \in DOMAIN cells
    BY <2>1
  <2> QED  BY <2>2 DEF nodes, ToSet
<1>4. PICK c \in nodes : worst_arrival = arrival[c]
  BY <1>1, <1>2, <1>3
<1>5. fanout(c) = {}
  <2> SUFFICES ASSUME NEW s \in fanout(c) PROVE FALSE
    OBVIOUS
  <2>1. s \in nodes /\ c \in fanin(s)
    BY GraphFacts
  <2>2. arrival[c] + delay(s) <= arrival[s] /\ delay(s) \in Nat \ {0}
    BY <2>1, ArrivedGrows
  <2>3. arrival[s] <= arrival[c] /\ arrival[c] \in Nat /\ arrival[s] \in Nat
    BY <1>1, <1>2, <1>4, <2>1
  <2> QED  BY <2>2, <2>3
<1>6. c \in endpoints
  BY <1>5, OpenCells
<1> DEFINE S == {end_slack(e) : e \in endpoints}
<1>7. c # NoCell
  BY CellAssumption, GraphFacts
<1>8. 0 \in S
  <2>1. end_slack(c) = worst_arrival - arrival[c]
    BY <1>1, <1>7 DEF end_slack, end_arrival
  <2>2. end_slack(c) = 0
    BY <1>1, <1>4, <2>1
  <2> QED  BY <1>6, <2>2
<1>9. ASSUME NEW e \in endpoints PROVE end_slack(e) \in Nat
  <2>1. CASE e = NoCell
    BY <1>1, <2>1 DEF end_slack, end_arrival
  <2>2. CASE e # NoCell
    <3>1. e \in nodes
      BY <2>2, GraphFacts
    <3>2. arrival[e] \in Nat /\ arrival[e] <= worst_arrival
      BY <1>1, <1>2, <3>1
    <3>3. end_slack(e) = worst_arrival - arrival[e]
      BY <1>1, <2>2 DEF end_slack, end_arrival
    <3> QED  BY <1>1, <3>2, <3>3
  <2> QED  BY <2>1, <2>2
<1>10. \A y \in S : y \in Nat
  BY <1>9
<1> HIDE DEF S
<1>11. \A x \in S : (\A y \in S : x <= y) => x = 0
  BY <1>8, <1>10
<1>12. \A y \in S : 0 <= y
  BY <1>10
<1> QED  BY <1>8, <1>11, <1>12 DEF Min, S

-----------------------------------------------------------------------------
(* The critical path.                                                      *)

\* The path so far follows the critical predecessors from the worst endpoint.
Tracked ==
  /\ path[1] \in nodes /\ path[1] \in endpoints
  /\ \A e \in endpoints : end_slack(path[1]) <= end_slack(e)
  /\ \A i \in 1 .. Len(path) - 1 :
       path[i + 1] = critical_pred[path[i]] /\ path[i + 1] \in fanin(path[i])

LEMMA TracedCells ==
  ASSUME TypeOK, path # <<>>, Tracked
  PROVE  /\ Len(path) \in Nat \ {0} /\ DOMAIN path = 1 .. Len(path)
         /\ \A i \in 1 .. Len(path) : path[i] \in nodes
         /\ Last(path) = path[Len(path)] /\ Last(path) \in nodes
<1>1. path \in Seq(Cell)
  BY DEF TypeOK
<1>2. Len(path) \in Nat \ {0} /\ DOMAIN path = 1 .. Len(path)
  BY <1>1, EmptySeq, LenProperties
<1>3. ASSUME NEW i \in 1 .. Len(path) PROVE path[i] \in nodes
  <2>1. CASE i = 1
    BY <2>1 DEF Tracked
  <2>2. CASE i # 1
    <3>1. i - 1 \in 1 .. Len(path) - 1 /\ (i - 1) + 1 = i
      BY <1>2, <2>2
    <3>2. path[i] \in fanin(path[i - 1])
      BY <3>1 DEF Tracked
    <3> QED  BY <3>2, GraphFacts
  <2> QED  BY <2>1, <2>2
<1>4. Last(path) = path[Len(path)] /\ Len(path) \in 1 .. Len(path)
  BY <1>2 DEF Last
<1> QED  BY <1>2, <1>3, <1>4

\* Without a loop the trace meets no cell twice.
LEMMA TraceIsFresh ==
  ASSUME TypeOK, Acyclic, path # <<>>, Tracked, NEW p \in fanin(Last(path))
  PROVE  p \notin ToSet(path)
<1> DEFINE n == Len(path)
<1>1. /\ n \in Nat \ {0} /\ DOMAIN path = 1 .. n
      /\ \A i \in 1 .. n : path[i] \in nodes
      /\ Last(path) = path[n]
  BY TracedCells
<1> SUFFICES ASSUME NEW k \in 1 .. n, p = path[k] PROVE FALSE
  BY <1>1 DEF ToSet
<1> DEFINE S == {path[i] : i \in k .. n}
<1>2. n \in k .. n /\ k \in k .. n /\ \A i \in k .. n : i \in 1 .. n
  BY <1>1
<1>3. S \in (SUBSET nodes) \ {{}}
  BY <1>1, <1>2
<1>4. PICK c \in S : fanin(c) \cap S = {}
  BY <1>3 DEF Acyclic
<1>5. PICK i \in k .. n : c = path[i]
  BY <1>4
<1>6. CASE i = n
  BY <1>1, <1>2, <1>4, <1>5, <1>6
<1>7. CASE i # n
  <2>1. i \in 1 .. n - 1 /\ i + 1 \in k .. n
    <3>1. n \in Nat
      BY <1>1
    <3> HIDE DEF n
    <3> QED  BY <1>5, <1>7, <3>1
  <2>2. path[i + 1] \in fanin(path[i])
    BY <2>1 DEF Tracked
  <2> QED  BY <1>4, <1>5, <2>1, <2>2
<1> QED  BY <1>6, <1>7

\* The whole trace is a path of the graph that costs the arrival at its end.
LEMMA TraceIsPath ==
  ASSUME TypeOK, Acyclic, \A c \in nodes : Arrived(c),
         path # <<>>, Tracked, fanin(Last(path)) = {}
  PROVE  /\ Reverse(path) \in Paths /\ Last(Reverse(path)) = path[1]
         /\ ToSet(Reverse(path)) = ToSet(path)
         /\ cost(path) = arrival[path[1]] /\ cost(Reverse(path)) = cost(path)
<1> DEFINE n == Len(path)
           r == Reverse(path)
           pre(k) == SubSeq(r, 1, k)
<1>1. /\ n \in Nat \ {0} /\ DOMAIN path = 1 .. n
      /\ \A i \in 1 .. n : path[i] \in nodes
      /\ Last(path) = path[n]
  BY TracedCells
<1>2. n \in Nat \ {0}
  BY <1>1
<1>3. r = [i \in 1 .. n |-> path[(n - i) + 1]]
  BY DEF Reverse
<1> HIDE DEF r, pre
<1>4. /\ \A i \in 1 .. n : (n - i) + 1 \in 1 .. n /\ (n - ((n - i) + 1)) + 1 = i
      /\ 1 \in 1 .. n /\ n \in 1 .. n /\ (n - n) + 1 = 1 /\ (n - 1) + 1 = n
  <2> HIDE DEF n
  <2> QED  BY <1>2
<1>5. r \in [1 .. n -> nodes] /\ \A i \in 1 .. n : r[i] = path[(n - i) + 1]
  <2> HIDE DEF n
  <2> QED  BY <1>1, <1>3, <1>4
<1>6. r \in Seq(nodes) /\ Len(r) = n /\ DOMAIN r = 1 .. n
  <2>1. r \in Seq(nodes)
    <3> HIDE DEF n
    <3> QED  BY <1>2, <1>5, SeqDef
  <2>2. DOMAIN r = 1 .. n /\ DOMAIN r = 1 .. Len(r) /\ Len(r) \in Nat
    BY <1>5, <2>1, LenProperties
  <2> HIDE DEF n
  <2> QED  BY <1>2, <2>1, <2>2
<1>7. ASSUME NEW i \in 1 .. n - 1
      PROVE  /\ i \in 1 .. n /\ i + 1 \in 1 .. n /\ r[i] = critical_pred[r[i + 1]]
             /\ r[i] \in fanin(r[i + 1])
  <2> DEFINE j == n - i
  <2>1. j \in 1 .. n - 1 /\ (n - i) + 1 = j + 1 /\ (n - (i + 1)) + 1 = j
        /\ i \in 1 .. n /\ i + 1 \in 1 .. n
    <3> HIDE DEF n
    <3> QED  BY <1>2
  <2>2. path[j + 1] = critical_pred[path[j]] /\ path[j + 1] \in fanin(path[j])
    <3> HIDE DEF j
    <3> QED  BY <2>1 DEF Tracked
  <2>3. r[i] = path[j + 1] /\ r[i + 1] = path[j]
    <3> HIDE DEF n, j
    <3> QED  BY <1>5, <2>1
  <2> HIDE DEF j, n
  <2> QED  BY <2>1, <2>2, <2>3
<1>8. r # <<>>
  <2> HIDE DEF n
  <2> QED  BY <1>2, <1>6, EmptySeq
<1>9. r \in Paths
  <2> HIDE DEF n
  <2> QED  BY <1>6, <1>7, <1>8, WalksArePaths
<1>10. r[n] = path[1] /\ r[1] = path[n] /\ Last(r) = path[1]
  <2>1. r[n] = path[1] /\ r[1] = path[n]
    <3> HIDE DEF n
    <3> QED  BY <1>4, <1>5
  <2> HIDE DEF n
  <2> QED  BY <1>6, <2>1 DEF Last
<1>11. ToSet(r) = ToSet(path)
  <2> HIDE DEF n
  <2>1. ToSet(r) \subseteq ToSet(path)
    BY <1>1, <1>4, <1>5, <1>6 DEF ToSet
  <2>2. ASSUME NEW i \in 1 .. n PROVE path[i] \in ToSet(r)
    <3>1. (n - i) + 1 \in 1 .. n /\ r[(n - i) + 1] = path[(n - ((n - i) + 1)) + 1]
      BY <1>4, <1>5
    <3> QED  BY <1>4, <1>6, <3>1 DEF ToSet
  <2> QED  BY <1>1, <2>1, <2>2 DEF ToSet
<1>12. \A k \in 1 .. n : /\ cost(pre(k)) \in Nat
                         /\ k = 1 => cost(pre(k)) = delay(r[1])
                         /\ k > 1 => cost(pre(k)) = cost(pre(k - 1)) + delay(r[k])
                         /\ k = n => pre(k) = r
  <2> HIDE DEF n
  <2> QED  BY <1>6, <1>9, PathPrefix DEF pre
<1>13. cost(pre(n)) = arrival[r[n]]
  <2> DEFINE T == {k \in 1 .. n : cost(pre(k)) # arrival[r[k]]}
  <2> SUFFICES ASSUME T # {} PROVE FALSE
    <3> HIDE DEF n
    <3> QED  BY <1>4
  <2> HIDE DEF n
  <2>1. PICK k \in T : \A m \in T : k <= m
    <3>1. T \in SUBSET Nat
      BY <1>2
    <3> HIDE DEF T
    <3> QED  BY <3>1, LeastNatural
  <2>2. k \in 1 .. n /\ cost(pre(k)) # arrival[r[k]] /\ r[k] \in nodes /\ k \in Nat
    BY <1>2, <1>5, <2>1
  <2>3. CASE k = 1
    <3>1. fanin(r[1]) = {}
      BY <1>1, <1>10
    <3>2. arrival[r[1]] = delay(r[1])
      BY <2>2, <2>3, <3>1 DEF Arrived
    <3> QED  BY <1>12, <2>2, <2>3, <3>2
  <2>4. CASE k # 1
    <3>1. k - 1 \in 1 .. n - 1 /\ (k - 1) + 1 = k /\ k > 1 /\ ~(k <= k - 1) /\ k - 1 \in 1 .. n
      BY <1>2, <2>2, <2>4
    <3>2. k - 1 \notin T
      <4> HIDE DEF T
      <4> QED  BY <2>1, <3>1
    <3>3. cost(pre(k - 1)) = arrival[r[k - 1]]
      BY <3>1, <3>2
    <3>4. r[k - 1] = critical_pred[r[k]] /\ r[k - 1] \in fanin(r[k])
      BY <1>7, <3>1
    <3>5. arrival[r[k]] = arrival[r[k - 1]] + delay(r[k])
      BY <2>2, <3>4 DEF Arrived
    <3> QED  BY <1>12, <2>2, <3>1, <3>3, <3>5
  <2> QED  BY <2>3, <2>4
<1>14. cost(r) = cost(path)
  BY <1>11 DEF cost
<1>15. cost(r) = arrival[path[1]]
  <2> HIDE DEF n
  <2> QED  BY <1>4, <1>10, <1>12, <1>13
<1> QED  BY <1>9, <1>10, <1>11, <1>14, <1>15 DEF r

\* All cells on it have the slack of the worst endpoint.
LEMMA TraceSlack ==
  ASSUME TypeOK, Acyclic, required_time < UNREACHED,
         \A c \in nodes : Arrived(c) /\ Wanted(c, nodes),
         path # <<>>, Tracked, fanin(Last(path)) = {}, NEW c \in ToSet(path)
  PROVE  slack(c) = end_slack(path[1])
<1> DEFINE r == Reverse(path)
           e == path[1]
<1>1. /\ r \in Paths /\ Last(r) = e /\ c \in ToSet(r) /\ cost(r) = arrival[e]
  BY TraceIsPath
<1>2. e \in nodes /\ e \in endpoints /\ \A f \in endpoints : end_slack(e) <= end_slack(f)
  BY DEF Tracked
<1>3. c \in nodes
  BY <1>1, PathShape
<1>4. \A d \in nodes : end_slack(d) = required_time - arrival[d] /\ arrival[d] \in Nat
  <2>1. \A d \in nodes : d # NoCell /\ arrival[d] \in Nat
    BY CellAssumption, GraphFacts DEF TypeOK
  <2> QED  BY <2>1 DEF end_slack, end_arrival
<1>5. slack(c) <= required_time - arrival[e]
  <2> HIDE DEF r, e
  <2> QED  BY <1>1, <1>2, SlackBounds
<1>6. PICK t \in Paths : /\ c \in ToSet(t) /\ Last(t) \in endpoints
                         /\ slack(c) = required_time - cost(t)
  BY <1>3, SlackAttained
<1>7. cost(t) \in Nat /\ cost(t) <= arrival[Last(t)] /\ Last(t) \in nodes
  BY ArrivalBounds, PathShape
<1>8. required_time - arrival[e] <= required_time - arrival[Last(t)]
  BY <1>2, <1>4, <1>6, <1>7
<1>9. required_time \in Nat /\ arrival[e] \in Nat /\ arrival[Last(t)] \in Nat
  BY <1>2, <1>4, <1>7, WorstArrival
<1> DEFINE x == required_time
           y == arrival[e]
           z == arrival[Last(t)]
           w == cost(t)
           v == slack(c)
<1>10. x \in Nat /\ y \in Nat /\ z \in Nat /\ w \in Nat
       /\ v = x - w /\ v <= x - y /\ w <= z /\ x - y <= x - z
  BY <1>5, <1>6, <1>7, <1>8, <1>9
<1> HIDE DEF x, y, z, w, v
<1>11. v = x - y
  BY <1>10
<1> QED  BY <1>2, <1>4, <1>11 DEF v, x, y

-----------------------------------------------------------------------------
(* The inductive invariants of the propagation.                            *)

ArrivalInv ==
  Acyclic =>
    /\ phase \in {"BUILD", "SORT"} => \A c \in Cell : critical_pred[c] = NoCell
    /\ phase = "ARRIVAL" => /\ next <= Len(order) + 1
                            /\ \A c \in done : Arrived(c)
                            /\ \A c \in Cell \ done : critical_pred[c] = NoCell
    /\ phase \in {"REQUIRED", "TRACE", "DONE"} => \A c \in nodes : Arrived(c)

\* The cells behind `next'.
passed == {order[j] : j \in next + 1 .. Len(order)}

RequiredInv ==
  Acyclic /\ required_time < UNREACHED =>
    /\ phase = "REQUIRED" => \A c \in nodes : Wanted(c, passed)
    /\ phase \in {"TRACE", "DONE"} => \A c \in nodes : Wanted(c, nodes)

PathInv ==
  Acyclic /\ path # <<>> /\ phase \in {"TRACE", "DONE"} =>
    Tracked /\ (phase = "DONE" => fanin(Last(path)) = {})

TimingInv == SortInv /\ ArrivalInv /\ RequiredInv /\ PathInv

\* What the cells behind and before `next' are in a sorted order.
LEMMA SortedOrder ==
  ASSUME SortInv, Acyclic, phase \notin {"BUILD", "SORT"}
  PROVE  /\ order \in Seq(Cell) /\ Len(order) \in Nat /\ DOMAIN order = 1 .. Len(order)
         /\ ToSet(order) = nodes /\ \A i \in 1 .. Len(order) : order[i] \in nodes
         /\ \A i, j \in 1 .. Len(order) : order[i] = order[j] => i = j
         /\ \A i \in 1 .. Len(order) : fanin(order[i]) \subseteq {order[j] : j \in 1 .. i - 1}
<1>1. order \in Seq(Cell) /\ OrderRight
  BY DEF SortInv, Design, TypeOK
<1>2. Len(order) \in Nat /\ DOMAIN order = 1 .. Len(order)
  BY <1>1, LenProperties
<1>3. ToSet(order) = nodes /\ IsInjective(order) /\ Topological(order)
  BY <1>1 DEF OrderRight
<1>4. \A i \in 1 .. Len(order) : order[i] \in nodes
  BY <1>2, <1>3 DEF ToSet
<1> QED  BY <1>1, <1>2, <1>3, <1>4 DEF IsInjective, Topological

\* propagate_arrivals settles one more cell, ...
LEMMA ArrivalCellKeeps ==
  ASSUME SortInv, ArrivalInv, ArrivalCell, Acyclic
  PROVE  /\ next' <= Len(order') + 1
         /\ \A c \in done' : Arrived(c)'
         /\ \A c \in Cell \ done' : critical_pred'[c] = NoCell
<1> DEFINE cell == order[next]
<1>1. /\ phase = "ARRIVAL" /\ next <= Len(order) /\ next' = next + 1
      /\ UNCHANGED <<design, phase, order>>
  BY DEF ArrivalCell
<1>2. TypeOK /\ next \in Nat /\ next >= 1
  BY <1>1 DEF SortInv, Design, Timed, TypeOK
<1>3. /\ Len(order) \in Nat /\ next \in 1 .. Len(order) /\ cell \in nodes /\ nodes \subseteq Cell
      /\ \A i \in 1 .. Len(order) : order[i] \in nodes
      /\ \A i, j \in 1 .. Len(order) : order[i] = order[j] => i = j
      /\ \A i \in 1 .. Len(order) : fanin(order[i]) \subseteq {order[j] : j \in 1 .. i - 1}
  BY <1>1, <1>2, SortedOrder, GraphFacts
<1>4. fanin(cell) \subseteq done
  BY <1>3 DEF done
<1>5. cell \notin done
  <2>1. \A j \in 1 .. next - 1 : j \in 1 .. Len(order) /\ j # next
    BY <1>3
  <2> QED  BY <1>3, <2>1 DEF done
<1>6. done' = done \cup {cell}
  <2>1. 1 .. next' - 1 = (1 .. next - 1) \cup {next}
    BY <1>1, <1>2
  <2> QED  BY <1>1, <2>1 DEF done
<1>7. \A c \in done : Arrived(c) /\ c \in nodes /\ fanin(c) \subseteq done
  <2> SUFFICES ASSUME NEW j \in 1 .. next - 1
               PROVE  order[j] \in nodes /\ fanin(order[j]) \subseteq done
    BY <1>1 DEF ArrivalInv, done
  <2>1. j \in 1 .. Len(order) /\ \A k \in 1 .. j - 1 : k \in 1 .. next - 1
    BY <1>3
  <2>2. fanin(order[j]) \subseteq {order[k] : k \in 1 .. j - 1}
    BY <1>3, <2>1
  <2> QED  BY <1>3, <2>1, <2>2 DEF done
<1>8. \A c \in Cell \ done : critical_pred[c] = NoCell
  BY <1>1 DEF ArrivalInv
<1>9. \A c : fanin(c)' = fanin(c) /\ delay(c)' = delay(c)
  BY <1>1, GraphStays
<1>10. arrival \in [Cell -> Nat] /\ critical_pred \in [Cell -> Cell \cup {NoCell}]
  BY <1>2 DEF TypeOK
<1>11. /\ \A c \in Cell : c # cell => arrival'[c] = arrival[c] /\ critical_pred'[c] = critical_pred[c]
       /\ \/ fanin(cell) = {} /\ critical_pred'[cell] = critical_pred[cell]
             /\ arrival'[cell] = delay(cell)
          \/ \E p \in fanin(cell) :
               /\ \A q \in fanin(cell) : arrival[q] <= arrival[p]
               /\ critical_pred'[cell] = p /\ arrival'[cell] = arrival[p] + delay(cell)
  <2>1. cell \in Cell
    BY <1>3
  <2>2. CASE fanin(cell) = {}
    <3>1. critical_pred' = critical_pred /\ arrival' = [arrival EXCEPT ![cell] = delay(cell)]
      BY <2>2 DEF ArrivalCell
    <3> HIDE DEF cell
    <3> QED  BY <1>10, <2>1, <2>2, <3>1
  <2>3. CASE fanin(cell) # {}
    <3>1. PICK p \in fanin(cell) :
            /\ \A q \in fanin(cell) : arrival[q] <= arrival[p]
            /\ critical_pred' = [critical_pred EXCEPT ![cell] = p]
            /\ arrival' = [arrival EXCEPT ![cell] = arrival[p] + delay(cell)]
      BY <2>3 DEF ArrivalCell
    <3> HIDE DEF cell
    <3> QED  BY <1>10, <2>1, <3>1
  <2> QED  BY <2>2, <2>3
<1> HIDE DEF cell
<1>12. \A c \in done : arrival'[c] = arrival[c] /\ critical_pred'[c] = critical_pred[c]
  BY <1>3, <1>5, <1>7, <1>11
<1>13. ASSUME NEW c \in done PROVE Arrived(c)'
  <2>1. Arrived(c) /\ fanin(c) \subseteq done
    BY <1>7
  <2> QED  BY <1>9, <1>12, <2>1 DEF Arrived
<1>14. ASSUME NEW c, c = cell PROVE Arrived(c)'
  <2>1. CASE fanin(c) = {} /\ critical_pred'[c] = critical_pred[c] /\ arrival'[c] = delay(c)
    BY <1>3, <1>5, <1>8, <1>9, <1>14, <2>1 DEF Arrived
  <2>2. CASE \E p \in fanin(c) :
               /\ \A q \in fanin(c) : arrival[q] <= arrival[p]
               /\ critical_pred'[c] = p /\ arrival'[c] = arrival[p] + delay(c)
    <3>1. PICK p \in fanin(c) :
            /\ \A q \in fanin(c) : arrival[q] <= arrival[p]
            /\ critical_pred'[c] = p /\ arrival'[c] = arrival[p] + delay(c)
      BY <2>2
    <3>2. \A q \in fanin(c) : arrival'[q] = arrival[q]
      BY <1>4, <1>12, <1>14
    <3> QED  BY <1>9, <3>1, <3>2 DEF Arrived
  <2> QED  BY <1>11, <1>14, <2>1, <2>2
<1>15. \A c \in Cell \ done' : critical_pred'[c] = NoCell
  BY <1>6, <1>8, <1>11
<1>16. next' <= Len(order') + 1
  BY <1>1, <1>3
<1>17. \A c \in done' : c \in done \/ c = cell
  BY <1>6
<1> QED  BY <1>13, <1>14, <1>15, <1>16, <1>17

\* ... until all are, and the endpoints get the required time.
LEMMA ArrivalEndKeeps ==
  ASSUME SortInv, ArrivalInv, ArrivalEnd, Acyclic
  PROVE  /\ \A c \in nodes' : Arrived(c)'
         /\ required_time < UNREACHED => \A c \in nodes' : Wanted(c, passed)'
<1>1. /\ phase = "ARRIVAL" /\ next > Len(order) /\ next' = Len(order)
      /\ UNCHANGED <<design, order, arrival, critical_pred>>
      /\ required' = [c \in Cell |-> IF c \in endpoints /\ required_time < UNREACHED
                                     THEN required_time ELSE UNREACHED]
  BY DEF ArrivalEnd
<1>2. TypeOK /\ next \in Nat /\ next <= Len(order) + 1 /\ \A c \in done : Arrived(c)
  BY <1>1 DEF SortInv, Design, TypeOK, ArrivalInv
<1>3. Len(order) \in Nat /\ DOMAIN order = 1 .. Len(order) /\ ToSet(order) = nodes
  BY <1>1, SortedOrder
<1>4. done = nodes
  <2>1. next - 1 = Len(order)
    BY <1>1, <1>2, <1>3
  <2> QED  BY <1>3, <2>1 DEF done, ToSet
<1>5. /\ nodes' = nodes /\ endpoints' = endpoints
      /\ \A c : fanin(c)' = fanin(c) /\ fanout(c)' = fanout(c) /\ delay(c)' = delay(c)
  BY <1>1, GraphStays
<1>6. \A c \in nodes : Arrived(c)'
  BY <1>1, <1>2, <1>4, <1>5 DEF Arrived
<1>7. required_time' = required_time
  BY <1>1, <1>5 DEF required_time, worst_arrival, design
<1>8. passed' = {}
  <2>1. next' + 1 .. Len(order') = {}
    BY <1>1, <1>3
  <2> QED  BY <2>1 DEF passed
<1>9. ASSUME required_time < UNREACHED, NEW c \in nodes PROVE Wanted(c, passed)'
  <2>1. c \in Cell /\ required_time \in Nat
    BY <1>2, GraphFacts, WorstArrival
  <2>2. required'[c] = IF c \in endpoints THEN required_time ELSE UNREACHED
    BY <1>1, <1>9, <2>1
  <2>3. required'[c] <= UNREACHED
    BY <1>9, <2>1, <2>2 DEF UNREACHED
  <2>4. c \in endpoints => required'[c] <= required_time
    BY <2>1, <2>2
  <2> QED  BY <1>5, <1>7, <1>8, <2>2, <2>3, <2>4 DEF Wanted
<1> QED  BY <1>5, <1>6, <1>9

\* compute_required passes what a cell leaves on to its predecessors.
LEMMA RequiredCellKeeps ==
  ASSUME SortInv, RequiredInv, RequiredCell, Acyclic, required_time < UNREACHED
  PROVE  \A c \in nodes' : Wanted(c, passed)'
<1> DEFINE cell == order[next]
<1>1. /\ phase = "REQUIRED" /\ next >= 1 /\ next' = next - 1
      /\ UNCHANGED <<design, order, arrival>>
      /\ required' =
           [c \in Cell |->
              IF c \in fanin(cell) /\ required[cell] # UNREACHED
                   /\ required[cell] - delay(cell) < required[c]
              THEN required[cell] - delay(cell) ELSE required[c]]
  BY DEF RequiredCell
<1>2. TypeOK /\ next \in Nat /\ next <= Len(order) /\ \A c \in nodes : Wanted(c, passed)
  BY <1>1 DEF SortInv, Design, TypeOK, RequiredInv
<1>3. /\ Len(order) \in Nat /\ next \in 1 .. Len(order) /\ cell \in nodes
      /\ ToSet(order) = nodes /\ DOMAIN order = 1 .. Len(order)
      /\ \A i, j \in 1 .. Len(order) : order[i] = order[j] => i = j
      /\ \A i \in 1 .. Len(order) : fanin(order[i]) \subseteq {order[j] : j \in 1 .. i - 1}
  BY <1>1, <1>2, SortedOrder
<1>4. /\ nodes \subseteq Cell /\ required \in [Cell -> Int] /\ required_time \in Nat
      /\ \A c \in nodes : delay(c) \in Nat \ {0}
      /\ \A c, s : s \in fanout(c) <=> s \in nodes /\ c \in fanin(s)
  BY <1>2, GraphFacts, WorstArrival DEF TypeOK
<1>5. /\ nodes' = nodes /\ endpoints' = endpoints
      /\ \A c : fanin(c)' = fanin(c) /\ fanout(c)' = fanout(c) /\ delay(c)' = delay(c)
  BY <1>1, GraphStays
<1>6. required_time' = required_time
  BY <1>1, <1>5 DEF required_time, worst_arrival, design
<1>7. passed' = passed \cup {cell}
  <2>1. next' + 1 .. Len(order') = (next + 1 .. Len(order)) \cup {next}
    BY <1>1, <1>3
  <2> QED  BY <1>1, <2>1 DEF passed
<1>8. fanin(cell) \cap (passed \cup {cell}) = {}
  <2> SUFFICES ASSUME NEW j \in 1 .. next - 1, NEW k \in next .. Len(order)
               PROVE  order[j] # order[k]
    <3>1. \A k \in next .. Len(order) : k = next \/ k \in next + 1 .. Len(order)
      BY <1>3
    <3>2. passed \cup {cell} = {order[k] : k \in next .. Len(order)}
      <4>1. next .. Len(order) = (next + 1 .. Len(order)) \cup {next}
        BY <1>3
      <4> QED  BY <4>1 DEF passed
    <3>3. fanin(cell) \subseteq {order[j] : j \in 1 .. next - 1}
      BY <1>3
    <3> HIDE DEF cell
    <3> QED  BY <3>2, <3>3
  <2>1. j \in 1 .. Len(order) /\ k \in 1 .. Len(order) /\ j # k
    BY <1>3
  <2> QED  BY <1>3, <2>1
<1>9. fanout(cell) \subseteq passed
  <2> SUFFICES ASSUME NEW s \in fanout(cell) PROVE s \in passed
    OBVIOUS
  <2>1. s \in nodes /\ cell \in fanin(s)
    BY <1>4
  <2>2. PICK i \in 1 .. Len(order) : s = order[i]
    BY <1>3, <2>1 DEF ToSet
  <2>3. PICK j \in 1 .. i - 1 : order[next] = order[j]
    BY <1>3, <2>1, <2>2
  <2>4. j = next
    <3>1. j \in 1 .. Len(order)
      BY <1>3
    <3> QED  BY <1>3, <2>3, <3>1
  <2>5. i \in next + 1 .. Len(order)
    BY <1>3, <2>4
  <2> QED  BY <2>2, <2>5 DEF passed
<1> HIDE DEF cell
<1>10. required[cell] <= required_time /\ required[cell] # UNREACHED /\ required[cell] \in Int
  <2>1. Wanted(cell, passed) /\ required[cell] \in Int
    BY <1>2, <1>3, <1>4
  <2>2. CASE cell \in endpoints
    BY <1>4, <2>1, <2>2 DEF Wanted, UNREACHED
  <2>3. CASE cell \notin endpoints
    <3>1. PICK s \in fanout(cell) : TRUE
      BY <1>3, <2>3, OpenCells
    <3>2. s \in passed /\ s \in nodes /\ required[cell] <= required[s] - delay(s)
      BY <1>4, <1>9, <2>1, <3>1 DEF Wanted
    <3>3. required[s] <= required_time
      BY <1>2, <3>2 DEF Wanted
    <3>4. required[s] \in Int /\ delay(s) \in Nat
      BY <1>4, <3>2
    <3>5. required[cell] <= required_time
      BY <1>4, <2>1, <3>2, <3>3, <3>4
    <3> QED  BY <1>4, <2>1, <3>5 DEF UNREACHED
  <2> QED  BY <2>2, <2>3
<1> DEFINE new == required[cell] - delay(cell)
<1>11. new \in Int /\ new <= required_time /\ new <= UNREACHED
  BY <1>3, <1>4, <1>10 DEF UNREACHED
<1>12. \A c \in Cell : required'[c] = IF c \in fanin(cell) /\ new < required[c]
                                      THEN new ELSE required[c]
  BY <1>1, <1>10
<1>13. \A c \in passed \cup {cell} : required'[c] = required[c] /\ c \in nodes
  <2>1. passed \subseteq nodes
    <3>1. \A j \in next + 1 .. Len(order) : j \in 1 .. Len(order)
      BY <1>3
    <3> QED  BY <1>3, <3>1 DEF passed, ToSet
  <2> QED  BY <1>3, <1>4, <1>8, <1>12, <2>1
<1>14. ASSUME NEW c \in nodes PROVE Wanted(c, passed)'
  <2>1. Wanted(c, passed) /\ c \in Cell /\ required[c] \in Int
    BY <1>2, <1>4
  <2>2. \A s \in fanout(c) \cap passed : required[s] \in Int /\ delay(s) \in Nat
    BY <1>4, <1>13
  <2>3. fanout(c) \cap passed' = (fanout(c) \cap passed)
                                  \cup (IF c \in fanin(cell) THEN {cell} ELSE {})
    BY <1>3, <1>4, <1>7
  <2>4. required'[cell] = required[cell] /\ \A s \in passed : required'[s] = required[s]
    BY <1>13
  <2>5. required'[c] \in Int /\ required'[c] <= required[c]
    BY <1>11, <1>12, <2>1
  <2>6. required'[c] <= UNREACHED
    BY <2>1, <2>5 DEF Wanted, UNREACHED
  <2>7. c \in endpoints => required'[c] <= required_time
    BY <1>4, <2>1, <2>5 DEF Wanted
  <2>8. ASSUME NEW s \in fanout(c) \cap passed'
        PROVE  required'[c] <= required'[s] - delay(s)
    <3>1. CASE s \in fanout(c) \cap passed
      <4>1. required[c] <= required[s] - delay(s)
        BY <2>1, <3>1 DEF Wanted
      <4>2. required[s] \in Int /\ delay(s) \in Nat /\ required'[s] = required[s]
        BY <2>2, <2>4, <3>1
      <4> QED  BY <2>1, <2>5, <4>1, <4>2
    <3>2. CASE s \notin fanout(c) \cap passed
      <4>1. c \in fanin(cell) /\ s = cell
        BY <2>3, <2>8, <3>2
      <4>2. required'[c] <= new
        BY <1>11, <1>12, <2>1, <4>1
      <4> QED  BY <2>4, <4>1, <4>2
    <3> QED  BY <3>1, <3>2
  <2>9. \/ required'[c] = UNREACHED
        \/ c \in endpoints /\ required'[c] = required_time
        \/ \E s \in fanout(c) \cap passed' : required'[c] = required'[s] - delay(s)
    <3>1. CASE c \in fanin(cell) /\ new < required[c]
      <4>1. required'[c] = new /\ cell \in fanout(c) \cap passed'
        BY <1>12, <2>1, <2>3, <3>1
      <4> QED  BY <2>4, <4>1
    <3>2. CASE ~(c \in fanin(cell) /\ new < required[c])
      <4>1. required'[c] = required[c]
        BY <1>12, <2>1, <3>2
      <4>2. CASE \E s \in fanout(c) \cap passed : required[c] = required[s] - delay(s)
        BY <2>3, <2>4, <4>1, <4>2
      <4>3. CASE ~\E s \in fanout(c) \cap passed : required[c] = required[s] - delay(s)
        BY <2>1, <4>1, <4>3 DEF Wanted
      <4> QED  BY <4>2, <4>3
    <3> QED  BY <3>1, <3>2
  <2>10. c \in passed' => required'[c] <= required_time
    <3>1. CASE c \in passed
      BY <2>1, <2>4, <3>1 DEF Wanted
    <3>2. CASE c = cell
      BY <1>10, <2>4, <3>2
    <3> QED  BY <1>7, <3>1, <3>2
  <2> QED  BY <1>5, <1>6, <2>6, <2>7, <2>8, <2>9, <2>10 DEF Wanted
<1> QED  BY <1>5, <1>14

\* In the end every cell has its required time; the trace starts at the worst endpoint ...
LEMMA RequiredEndKeeps ==
  ASSUME SortInv, RequiredInv, RequiredEnd, Acyclic
  PROVE  /\ required_time < UNREACHED => \A c \in nodes' : Wanted(c, nodes)'
         /\ path' # <<>> => Tracked' /\ phase' # "DONE"
<1>1. /\ phase = "REQUIRED" /\ next = 0 /\ UNCHANGED <<design, order, arrival>>
      /\ required' = [c \in Cell |-> IF c \in nodes /\ required[c] = UNREACHED
                                     THEN required_time ELSE required[c]]
      /\ phase' = IF path' = <<>> THEN "DONE" ELSE "TRACE"
  BY DEF RequiredEnd
<1>2. TypeOK
  BY DEF SortInv, Design
<1>3. /\ nodes' = nodes /\ endpoints' = endpoints
      /\ \A c : fanin(c)' = fanin(c) /\ fanout(c)' = fanout(c) /\ delay(c)' = delay(c)
  BY <1>1, GraphStays
<1>4. required_time' = required_time /\ required_time \in Nat
  BY <1>1, <1>2, <1>3, WorstArrival DEF required_time, worst_arrival, design
<1>5. nodes \subseteq Cell /\ required \in [Cell -> Int] /\ endpoints \subseteq nodes \cup {NoCell}
      /\ \A c : fanout(c) \subseteq nodes
  BY <1>2, GraphFacts DEF TypeOK
<1>6. ASSUME required_time < UNREACHED PROVE \A c \in nodes : Wanted(c, nodes)'
  <2>1. passed = nodes
    <3>1. Len(order) \in Nat /\ DOMAIN order = 1 .. Len(order) /\ ToSet(order) = nodes
      BY <1>1, SortedOrder
    <3>2. next + 1 .. Len(order) = 1 .. Len(order)
      BY <1>1
    <3> QED  BY <3>1, <3>2 DEF passed, ToSet
  <2>2. \A c \in nodes : Wanted(c, nodes)
    BY <1>1, <1>6, <2>1 DEF RequiredInv
  <2>3. ASSUME NEW c \in nodes PROVE required'[c] = required[c]
    <3>1. required[c] <= required_time /\ required[c] \in Int
      BY <1>5, <2>2 DEF Wanted
    <3>2. required[c] # UNREACHED
      BY <1>4, <1>6, <3>1 DEF UNREACHED
    <3> QED  BY <1>1, <1>5, <3>2
  <2> QED  BY <1>3, <1>4, <1>5, <2>2, <2>3 DEF Wanted
<1>7. ASSUME path' # <<>> PROVE Tracked' /\ phase' # "DONE"
  <2>1. endpoints # {}
    BY <1>7 DEF RequiredEnd
  <2>2. PICK e \in endpoints : /\ \A f \in endpoints : end_slack(e) <= end_slack(f)
                               /\ path' = IF e = NoCell THEN <<>> ELSE <<e>>
    BY <2>1 DEF RequiredEnd
  <2>3. path' = <<e>> /\ e \in nodes
    BY <1>5, <1>7, <2>2
  <2>4. path'[1] = e /\ Len(path') = 1 /\ 1 .. Len(path') - 1 = {}
    BY <2>3
  <2>5. \A f : end_slack(f)' = end_slack(f)
    BY <1>1, <1>4 DEF end_slack, end_arrival
  <2> QED  BY <1>1, <1>3, <1>7, <2>2, <2>3, <2>4, <2>5 DEF Tracked
<1> QED  BY <1>3, <1>6, <1>7

\* ... and follows the critical predecessors to a cell without any.
LEMMA TracePathKeeps ==
  ASSUME SortInv, ArrivalInv, PathInv, TracePath, Acyclic
  PROVE  path' # <<>> /\ Tracked' /\ (phase' = "DONE" => fanin(Last(path))' = {})
<1> DEFINE n == Len(path)
<1>1. phase = "TRACE" /\ UNCHANGED <<design, arrival, critical_pred>>
  BY DEF TracePath
<1>2. TypeOK /\ path # <<>> /\ Tracked /\ \A c \in nodes : Arrived(c)
  BY <1>1 DEF SortInv, Design, PathInv, ArrivalInv
<1>3. /\ n \in Nat \ {0} /\ DOMAIN path = 1 .. n
      /\ \A i \in 1 .. n : path[i] \in nodes
      /\ Last(path) = path[n] /\ Last(path) \in nodes
  BY <1>2, TracedCells
<1>4. /\ nodes' = nodes /\ endpoints' = endpoints /\ \A c : fanin(c)' = fanin(c)
  BY <1>1, GraphStays
<1>5. required_time' = required_time
  BY <1>1, <1>4 DEF required_time, worst_arrival, design
<1>6. \A f : end_slack(f)' = end_slack(f)
  BY <1>1, <1>5 DEF end_slack, end_arrival
<1> DEFINE pred == critical_pred[Last(path)]
<1>7. CASE pred = NoCell \/ pred \in ToSet(path)
  <2>1. path' = path
    BY <1>7 DEF TracePath
  <2>2. pred \notin fanin(Last(path))
    <3>1. NoCell \notin fanin(Last(path))
      BY <1>2, CellAssumption, GraphFacts
    <3> QED  BY <1>2, <1>7, <3>1, TraceIsFresh
  <2>3. fanin(Last(path)) = {}
    BY <1>2, <1>3, <2>2 DEF Arrived
  <2>4. Tracked'
    BY <1>1, <1>2, <1>4, <1>6, <2>1 DEF Tracked
  <2>5. fanin(Last(path))' = {}
    BY <1>4, <2>1, <2>3
  <2> QED  BY <1>2, <2>1, <2>4, <2>5
<1>8. CASE ~(pred = NoCell \/ pred \in ToSet(path))
  <2>1. path' = Append(path, pred) /\ phase' = "TRACE"
    BY <1>1, <1>8 DEF TracePath
  <2>2. pred \in fanin(Last(path))
    BY <1>2, <1>3, <1>8 DEF Arrived
  <2>3. pred \in Cell /\ path \in Seq(Cell)
    BY <1>2, <2>2, GraphFacts DEF TypeOK
  <2>4. /\ path' # <<>> /\ Len(path') = n + 1 /\ path'[n + 1] = pred
        /\ \A i \in 1 .. n : path'[i] = path[i]
    <3> HIDE DEF pred
    <3> QED  BY <2>1, <2>3, AppendProperties
  <2>5. path'[1] = path[1]
    BY <1>3, <2>4
  <2>6. ASSUME NEW i \in 1 .. Len(path') - 1
        PROVE  path'[i + 1] = critical_pred[path'[i]] /\ path'[i + 1] \in fanin(path'[i])
    <3>1. CASE i = n
      <4>1. n \in 1 .. n
        BY <1>3
      <4> QED  BY <1>3, <2>2, <2>4, <3>1, <4>1
    <3>2. CASE i # n
      <4>1. i \in 1 .. n - 1 /\ i \in 1 .. n /\ i + 1 \in 1 .. n
        <5>1. n \in Nat /\ i \in 1 .. n
          BY <1>3, <2>4
        <5> HIDE DEF n
        <5> QED  BY <3>2, <5>1
      <4>2. path[i + 1] = critical_pred[path[i]] /\ path[i + 1] \in fanin(path[i])
        BY <1>2, <4>1 DEF Tracked
      <4> QED  BY <2>4, <4>1, <4>2
    <3> QED  BY <3>1, <3>2
  <2>7. Tracked'
    <3>1. path'[1] \in nodes' /\ path'[1] \in endpoints'
          /\ \A e \in endpoints' : end_slack(path'[1]) <= end_slack(e)
      BY <1>2, <1>4, <2>5 DEF Tracked
    <3>2. \A e \in endpoints' : end_slack(path[1])' <= end_slack(e)'
      <4>1. end_slack(path[1])' = end_slack(path'[1])
        BY <1>1, <1>5 DEF end_slack, end_arrival
      <4> QED  BY <1>6, <3>1, <4>1
    <3>3. \A i \in 1 .. Len(path') - 1 :
            path'[i + 1] = critical_pred'[path'[i]] /\ path'[i + 1] \in fanin(path[i])'
      <4>1. \A i \in 1 .. Len(path') - 1 : fanin(path[i])' = fanin(path'[i])
        BY <1>4
      <4> QED  BY <1>1, <2>6, <4>1
    <3> QED  BY <3>1, <3>2, <3>3 DEF Tracked
  <2> QED  BY <2>1, <2>4, <2>7
<1> QED  BY <1>7, <1>8

\* The invariant of the whole analysis holds initially, ...
LEMMA InitTiming == Init => TimingInv
BY InitSort DEF TimingInv, ArrivalInv, RequiredInv, PathInv, Init

\* ... and every step keeps it.
LEMMA NextTiming == TimingInv /\ [Next]_vars => TimingInv'
<1> SUFFICES ASSUME TimingInv, [Next]_vars PROVE TimingInv'
  OBVIOUS
<1>1. SortInv'
  BY NextSort DEF TimingInv
<1>2. SortInv /\ ArrivalInv /\ RequiredInv /\ PathInv /\ TypeOK
  BY DEF TimingInv, SortInv, Design
<1>3. UNCHANGED design
  BY DEF Next, Terminated, vars, design, Build, SortCell, SortEnd, ArrivalCell, ArrivalEnd,
         RequiredCell, RequiredEnd, TracePath
<1>4. /\ Acyclic' <=> Acyclic
      /\ nodes' = nodes /\ endpoints' = endpoints
      /\ \A c : fanin(c)' = fanin(c) /\ fanout(c)' = fanout(c) /\ delay(c)' = delay(c)
  BY <1>3, GraphStays
<1>5. SUFFICES ASSUME Acyclic
               PROVE  ArrivalInv' /\ RequiredInv' /\ PathInv'
  BY <1>1, <1>4 DEF TimingInv, ArrivalInv, RequiredInv, PathInv
<1>6. arrival' = arrival => required_time' = required_time
  BY <1>3, <1>4 DEF required_time, worst_arrival, design
<1>7. arrival' = arrival /\ critical_pred' = critical_pred
        => ((\A c \in nodes : Arrived(c)) => \A c \in nodes' : Arrived(c)')
  BY <1>4 DEF Arrived
<1>8. CASE Build \/ SortCell
  <2>1. phase \in {"BUILD", "SORT"} /\ phase' = "SORT" /\ critical_pred' = critical_pred
    BY <1>8 DEF Build, SortCell
  <2>2. ArrivalInv'
    BY <1>2, <1>5, <2>1 DEF ArrivalInv
  <2> QED  BY <2>1, <2>2 DEF RequiredInv, PathInv
<1>10. CASE SortEnd
  <2>1. phase = "SORT" /\ phase' = "ARRIVAL" /\ next' = 1 /\ critical_pred' = critical_pred
    BY <1>10 DEF SortEnd
  <2>2. done' = {}
    BY <2>1 DEF done
  <2>3. Len(order') \in Nat
    BY <1>1, LenProperties DEF SortInv, Design, TypeOK
  <2>4. next' <= Len(order') + 1
    BY <2>1, <2>3
  <2> QED  BY <1>2, <1>5, <2>1, <2>2, <2>4 DEF ArrivalInv, RequiredInv, PathInv
<1>11. CASE ArrivalCell
  <2>1. phase' = "ARRIVAL"
    BY <1>11 DEF ArrivalCell
  <2>2. ArrivalInv'
    BY <1>2, <1>5, <1>11, <2>1, ArrivalCellKeeps DEF ArrivalInv
  <2> QED  BY <2>1, <2>2 DEF RequiredInv, PathInv
<1>12. CASE ArrivalEnd
  <2>1. phase' = "REQUIRED" /\ arrival' = arrival
    BY <1>12 DEF ArrivalEnd
  <2> QED  BY <1>2, <1>5, <1>6, <1>12, <2>1, ArrivalEndKeeps
           DEF ArrivalInv, RequiredInv, PathInv
<1>13. CASE RequiredCell
  <2>1. phase = "REQUIRED" /\ phase' = "REQUIRED" /\ UNCHANGED <<arrival, critical_pred>>
    BY <1>13 DEF RequiredCell
  <2>2. ArrivalInv'
    BY <1>2, <1>5, <1>7, <2>1 DEF ArrivalInv
  <2>3. RequiredInv'
    BY <1>2, <1>5, <1>6, <1>13, <2>1, RequiredCellKeeps DEF RequiredInv
  <2> QED  BY <2>1, <2>2, <2>3 DEF PathInv
<1>14. CASE RequiredEnd
  <2>1. phase = "REQUIRED" /\ phase' \in {"TRACE", "DONE"} /\ UNCHANGED <<arrival, critical_pred>>
    BY <1>14 DEF RequiredEnd
  <2>2. ArrivalInv'
    BY <1>2, <1>5, <1>7, <2>1 DEF ArrivalInv
  <2> QED  BY <1>2, <1>5, <1>6, <1>14, <2>1, <2>2, RequiredEndKeeps DEF RequiredInv, PathInv
<1>15. CASE TracePath
  <2>1. phase = "TRACE" /\ phase' \in {"TRACE", "DONE"}
        /\ UNCHANGED <<arrival, critical_pred, required>>
    BY <1>2, <1>15 DEF TracePath
  <2>2. ArrivalInv'
    BY <1>2, <1>5, <1>7, <2>1 DEF ArrivalInv
  <2>3. (\A c \in nodes : Wanted(c, nodes)) => (\A c \in nodes' : Wanted(c, nodes)')
    BY <1>4, <1>6, <2>1 DEF Wanted
  <2>4. RequiredInv'
    BY <1>2, <1>5, <1>6, <2>1, <2>3 DEF RequiredInv
  <2> QED  BY <1>2, <1>5, <1>15, <2>1, <2>2, <2>4, TracePathKeeps DEF PathInv
<1>16. CASE UNCHANGED vars
  <2>1. UNCHANGED <<phase, next, order, arrival, critical_pred, required, path>>
    BY <1>16 DEF vars
  <2>2. done' = done /\ passed' = passed
    BY <2>1 DEF done, passed
  <2>3. \A c : Arrived(c)' <=> Arrived(c)
    BY <1>4, <2>1 DEF Arrived
  <2>4. (\A c \in nodes : Wanted(c, nodes)) => (\A c \in nodes' : Wanted(c, nodes)')
    BY <1>4, <1>6, <2>1 DEF Wanted
  <2>5. (\A c \in nodes : Wanted(c, passed)) => (\A c \in nodes' : Wanted(c, passed)')
    BY <1>4, <1>6, <2>1, <2>2 DEF Wanted
  <2>6. Tracked => Tracked'
    BY <1>4, <1>6, <2>1 DEF Tracked, end_slack, end_arrival
  <2>7. ArrivalInv'
    BY <1>2, <1>4, <2>1, <2>2, <2>3 DEF ArrivalInv
  <2>8. RequiredInv'
    BY <1>2, <1>4, <1>6, <2>1, <2>4, <2>5 DEF RequiredInv
  <2>9. PathInv'
    BY <1>2, <1>4, <2>1, <2>6 DEF PathInv
  <2> QED  BY <2>7, <2>8, <2>9
<1> QED  BY <1>8, <1>10, <1>11, <1>12, <1>13, <1>14, <1>15, <1>16 DEF Next, Terminated

\* The whole analysis keeps its invariant.
THEOREM TimingInvariance == Spec => []TimingInv
BY InitTiming, NextTiming, PTL DEF Spec

(* In a graph without loops the arrival time of every cell is the cost of  *)
(* the dearest path to it.                                                 *)
THEOREM ArrivalsAreLongestPaths == Spec => []ArrivalIsLongestPath
<1>1. TimingInv => ArrivalIsLongestPath
  <2> SUFFICES ASSUME TimingInv, phase = "DONE", Acyclic, NEW c \in nodes
               PROVE  arrival[c] = Max({cost(s) : s \in {t \in Paths : Last(t) = c}})
    BY DEF ArrivalIsLongestPath
  <2> QED  BY LongestPath DEF TimingInv, SortInv, Design, ArrivalInv
<1> QED  BY <1>1, TimingInvariance, PTL

(* Its slack is what the dearest path through it leaves of the required    *)
(* time, and without a clock the worst slack is 0.                         *)
THEOREM SlacksAreAlwaysRight == Spec => []SlacksAreRight
<1>1. TimingInv => SlackIsExact
  <2> SUFFICES ASSUME TimingInv, phase = "DONE", Acyclic, required_time < UNREACHED
               PROVE  SlackIsExact
    BY DEF SlackIsExact
  <2>1. TypeOK /\ \A c \in nodes : Arrived(c) /\ Wanted(c, nodes)
    BY DEF TimingInv, SortInv, Design, ArrivalInv, RequiredInv
  <2> QED  BY <2>1, LeastSlack DEF SlackIsExact
<1>2. TimingInv => WorstSlackIsZero
  BY NoClockNoSlack DEF WorstSlackIsZero, TimingInv, SortInv, Design, ArrivalInv
<1> QED  BY <1>1, <1>2, TimingInvariance, PTL DEF SlacksAreRight

(* The path that the report calls critical is one.                         *)
THEOREM CriticalPathIsAlwaysExplained == Spec => []CriticalPathExplained
<1>1. TimingInv => CriticalPathExplained
  <2> SUFFICES ASSUME TimingInv, phase = "DONE", Acyclic, path # <<>>
               PROVE  CriticalPathExplained
    BY DEF CriticalPathExplained
  <2>1. /\ TypeOK /\ \A c \in nodes : Arrived(c)
        /\ Tracked /\ fanin(Last(path)) = {}
        /\ required_time < UNREACHED => \A c \in nodes : Wanted(c, nodes)
    BY DEF TimingInv, SortInv, Design, ArrivalInv, RequiredInv, PathInv
  <2>2. Reverse(path) \in Paths /\ cost(path) = arrival[path[1]]
    BY <2>1, TraceIsPath
  <2>3. required_time < UNREACHED => \A c \in ToSet(path) : slack(c) = end_slack(path[1])
    BY <2>1, TraceSlack
  <2> QED  BY <2>1, <2>2, <2>3 DEF CriticalPathExplained
<1> QED  BY <1>1, TimingInvariance, PTL

=============================================================================
