-------------------------- MODULE QmMinimizeProofs --------------------------
(***************************************************************************)
(* Proofs about my_opt_qm, for every support and every truth table.        *)
(*   IInv      no cube that is ever handled covers the off-set;            *)
(*   LevelInv  the levels of merging find exactly the prime implicants;    *)
(*   ExactInv  branch and bound has not cut off a cheaper cover of the     *)
(*             rows that are left;                                         *)
(*   KeptInv   without twins in the chart, its simplification has not      *)
(*             either, so that the pass as a whole is exact.               *)
(***************************************************************************)
EXTENDS QmMinimize, FiniteSetsExt, FunctionTheorems, FiniteSetTheorems, SequenceTheorems,
        NaturalsInduction, TLAPS

-----------------------------------------------------------------------------
(* Facts that stand in for induction: a proof by least counterexample takes *)
(* the least number, or a minimal set, for which the claim fails.           *)

(* A nonempty set of naturals has a least element.                         *)
LEMMA LeastNatural ==
  ASSUME NEW S \in SUBSET Nat, S # {}
  PROVE  \E n \in S : \A k \in S : n <= k
<1> DEFINE R == {p \in Nat \X Nat : p[1] < p[2]}
<1>1. PICK n \in S : \A k \in S : <<k, n>> \notin R
  <2>1. IsWellFoundedOn(R, Nat)
    BY NatLessThanWellFounded DEF OpToRel
  <2> HIDE DEF R
  <2> QED  BY <2>1, WFMin
<1>2. \A k \in S : ~(k < n)
  BY <1>1
<1> QED  BY <1>2

(* A nonempty family of subsets of a finite set has a minimal member.      *)
LEMMA MinimalSubset ==
  ASSUME NEW U, IsFiniteSet(U), NEW T \in SUBSET SUBSET U, T # {}
  PROVE  \E X \in T : \A Y \in T : Y \subseteq X => Y = X
<1>1. IsWellFoundedOn(StrictSubsetOrdering(U), SUBSET U)
  BY FS_StrictSubsetOrderingWellFounded, FS_FiniteSubsetsOfFinite
<1>2. PICK X \in T : \A Y \in T : <<Y, X>> \notin StrictSubsetOrdering(U)
  BY <1>1, WFMin
<1>3. X \in SUBSET U /\ \A Y \in T : Y \in SUBSET U
  OBVIOUS
<1>4. ASSUME NEW Y \in T, Y \subseteq X, Y # X PROVE FALSE
  BY <1>2, <1>3, <1>4 DEF StrictSubsetOrdering
<1> QED  BY <1>4

-----------------------------------------------------------------------------
(* Finite domains.                                                         *)

LEMMA VarsFinite == IsFiniteSet(Vars)
BY NumVarsAssumption, FS_Interval DEF Vars

LEMMA CubeFinite == IsFiniteSet(Cube)
<1>1. IsFiniteSet(SUBSET Vars)
  BY VarsFinite, FS_SUBSET
<1>2. IsFiniteSet((SUBSET Vars) \X (SUBSET Vars))
  BY <1>1, FS_Product
<1> DEFINE pair == [c \in Cube |-> <<c.val, c.dc>>]
<1>3. pair \in [Cube -> (SUBSET Vars) \X (SUBSET Vars)]
  BY DEF Cube
<1>4. ASSUME NEW c \in Cube, NEW d \in Cube, pair[c] = pair[d] PROVE c = d
  BY <1>4 DEF Cube
<1>5. pair \in Injection(Cube, (SUBSET Vars) \X (SUBSET Vars))
  BY <1>3, <1>4, Zenon DEF Injection, IsInjective
<1> QED  BY <1>2, <1>5, FS_Injection

-----------------------------------------------------------------------------
(* The cost of a cover.                                                    *)

\* The literals of a cover, the second half of its cost.
Literals(cover) == {p \in cover \X Vars : p[2] \notin p[1].dc}

LEMMA CostFinite ==
  ASSUME NEW S \in SUBSET Cube
  PROVE  IsFiniteSet(S) /\ IsFiniteSet(Literals(S))
<1>1. IsFiniteSet(S)
  BY CubeFinite, FS_Subset
<1>2. IsFiniteSet(S \X Vars)
  BY <1>1, VarsFinite, FS_Product
<1> QED  BY <1>1, <1>2, FS_Subset DEF Literals

(* The cost of a cover is a natural number.                                *)
LEMMA CostType ==
  ASSUME NEW S \in SUBSET Cube
  PROVE  sop_cost(S) \in Nat
BY CostFinite, FS_CardinalityType DEF sop_cost, Literals

LEMMA CostEmpty == sop_cost({}) = 0
<1>1. Literals({}) = {}
  BY DEF Literals
<1> QED  BY <1>1, FS_EmptySet DEF sop_cost, Literals

(* A part of a cover costs no more than the cover.                         *)
LEMMA CostMonotone ==
  ASSUME NEW S \in SUBSET Cube, NEW T \in SUBSET S
  PROVE  sop_cost(T) <= sop_cost(S)
<1>1. Literals(T) \subseteq Literals(S)
  BY DEF Literals
<1>2. Cardinality(T) <= Cardinality(S) /\ Cardinality(T) \in Nat
      /\ Cardinality(S) \in Nat
  BY CostFinite, FS_Subset, FS_CardinalityType
<1>3. /\ Cardinality(Literals(T)) <= Cardinality(Literals(S))
      /\ Cardinality(Literals(T)) \in Nat /\ Cardinality(Literals(S)) \in Nat
  BY <1>1, CostFinite, FS_Subset, FS_CardinalityType
<1> QED  BY <1>2, <1>3 DEF sop_cost, Literals

(* Two covers cost at least what their union does, and exactly that when   *)
(* they share no cube.                                                     *)
LEMMA CostUnion ==
  ASSUME NEW S \in SUBSET Cube, NEW T \in SUBSET Cube
  PROVE  /\ sop_cost(S \cup T) <= sop_cost(S) + sop_cost(T)
         /\ S \cap T = {} => sop_cost(S \cup T) = sop_cost(S) + sop_cost(T)
<1>1. Literals(S \cup T) = Literals(S) \cup Literals(T)
  BY DEF Literals
<1>2. S \cap T = {} => Literals(S) \cap Literals(T) = {}
  BY DEF Literals
<1>3. /\ Cardinality(S \cup T) = Cardinality(S) + Cardinality(T) - Cardinality(S \cap T)
      /\ Cardinality(S) \in Nat /\ Cardinality(T) \in Nat
      /\ Cardinality(S \cap T) \in Nat
  BY CostFinite, FS_Union, FS_Intersection, FS_CardinalityType
<1>4. /\ Cardinality(Literals(S \cup T)) = Cardinality(Literals(S))
           + Cardinality(Literals(T)) - Cardinality(Literals(S) \cap Literals(T))
      /\ Cardinality(Literals(S)) \in Nat /\ Cardinality(Literals(T)) \in Nat
      /\ Cardinality(Literals(S) \cap Literals(T)) \in Nat
  BY <1>1, CostFinite, FS_Union, FS_Intersection, FS_CardinalityType
<1>5. S \cap T = {} => Cardinality(S \cap T) = 0
                       /\ Cardinality(Literals(S) \cap Literals(T)) = 0
  BY <1>2, FS_EmptySet
<1>6. \A U : sop_cost(U) = 64 * Cardinality(U) + Cardinality(Literals(U))
  BY DEF sop_cost, Literals
<1> HIDE DEF Literals
<1> QED  BY <1>3, <1>4, <1>5, <1>6

(* A single cube costs 64 and its literals.                                *)
LEMMA CostSingle ==
  ASSUME NEW c \in Cube
  PROVE  literal_count(c) \in Nat /\ sop_cost({c}) = 64 + literal_count(c)
<1> DEFINE L == Vars \ c.dc
           pair == [v \in L |-> <<c, v>>]
<1>1. IsFiniteSet(L)
  BY VarsFinite, FS_Subset
<1>2. pair \in Bijection(L, Literals({c}))
  <2>1. pair \in [L -> Literals({c})]
    BY DEF Literals
  <2>2. \A v, w \in L : pair[v] = pair[w] => v = w
    OBVIOUS
  <2>3. \A p \in Literals({c}) : \E v \in L : pair[v] = p
    BY DEF Literals
  <2> QED  BY <2>1, <2>2, <2>3, Fun_IsBij
<1>3. Cardinality(Literals({c})) = Cardinality(L)
  <2>1. ExistsBijection(L, Literals({c}))
    BY <1>2 DEF ExistsBijection
  <2> QED  BY <1>1, <2>1, FS_Bijection
<1>4. Cardinality(L) \in Nat
  BY <1>1, FS_CardinalityType
<1>5. literal_count(c) = Cardinality(L)
  BY DEF literal_count
<1>6. Cardinality({c}) = 1
  BY FS_Singleton
<1> HIDE DEF L
<1> QED  BY <1>3, <1>4, <1>5, <1>6 DEF sop_cost, Literals

(* A cube may be replaced by one with no more literals.                    *)
LEMMA CostReplace ==
  ASSUME NEW S \in SUBSET Cube, NEW p \in S, NEW q \in Cube,
         literal_count(q) <= literal_count(p)
  PROVE  sop_cost((S \ {p}) \cup {q}) <= sop_cost(S)
<1> DEFINE R == S \ {p}
<1>1. R \in SUBSET Cube /\ {p} \in SUBSET Cube /\ {q} \in SUBSET Cube
      /\ R \cap {p} = {} /\ S = R \cup {p}
  OBVIOUS
<1> HIDE DEF R
<1>2. sop_cost(R \cup {q}) <= sop_cost(R) + sop_cost({q})
  BY <1>1, CostUnion
<1>3. sop_cost(S) = sop_cost(R) + sop_cost({p})
  BY <1>1, CostUnion
<1>4. sop_cost({q}) <= sop_cost({p})
  BY CostSingle
<1>5. /\ sop_cost(R) \in Nat /\ sop_cost({p}) \in Nat /\ sop_cost({q}) \in Nat
      /\ sop_cost(R \cup {q}) \in Nat
  BY <1>1, CostType
<1> QED  BY <1>2, <1>3, <1>4, <1>5 DEF R

(* A cube costs at most 64 and one for each variable.                      *)
LEMMA CostBound ==
  ASSUME NEW S \in SUBSET Cube
  PROVE  sop_cost(S) <= (64 + NumVars) * Cardinality(S)
<1>1. Cardinality(Vars) = NumVars
  BY NumVarsAssumption, FS_Interval DEF Vars
<1>2. /\ Cardinality(S \X Vars) = Cardinality(S) * NumVars
      /\ Cardinality(Literals(S)) <= Cardinality(S \X Vars)
  <2>1. IsFiniteSet(S) /\ IsFiniteSet(S \X Vars)
    BY CostFinite, VarsFinite, FS_Product
  <2>2. Literals(S) \subseteq S \X Vars
    BY DEF Literals
  <2> QED  BY <1>1, <2>1, <2>2, VarsFinite, FS_Product, FS_Subset
<1>3. Cardinality(S) \in Nat /\ Cardinality(Literals(S)) \in Nat /\ NumVars \in Nat
  BY CostFinite, FS_CardinalityType, NumVarsAssumption
<1>4. sop_cost(S) = 64 * Cardinality(S) + Cardinality(Literals(S))
  BY DEF sop_cost, Literals
<1> QED  BY <1>2, <1>3, <1>4

implicant(c) == \A m \in Minterm : covers(c, m) => m \in on \cup dc
Implicants == {c \in Cube : implicant(c)}

(* Two cubes that differ in one literal combine to a cube that covers what *)
(* one of them covers and nothing else.                                    *)
LEMMA CombineSound ==
  ASSUME NEW a \in Cube, NEW b \in Cube, combinable(a, b)
  PROVE  /\ combine_cubes(a, b) \in Cube
         /\ \A m \in Minterm :
              covers(combine_cubes(a, b), m) => covers(a, m) \/ covers(b, m)
<1>1. PICK v : difference(a, b) = {v}
  <2>1. difference(a, b) \subseteq Vars
    BY DEF difference, Cube
  <2>2. IsFiniteSet(difference(a, b))
    BY <2>1, VarsFinite, FS_Subset
  <2> QED  BY <2>2, FS_Singleton DEF combinable
<1>2. v \in Vars /\ a.dc = b.dc
  BY <1>1 DEF difference, Cube, combinable
<1>3. combine_cubes(a, b) = [val |-> a.val \ {v}, dc |-> a.dc \cup {v}]
  BY <1>1 DEF combine_cubes
<1>4. combine_cubes(a, b) \in Cube
  BY <1>2, <1>3 DEF Cube
<1>5. ASSUME NEW m \in Minterm, covers(combine_cubes(a, b), m)
      PROVE  covers(a, m) \/ covers(b, m)
  <2>1. m \ (a.dc \cup {v}) = a.val \ {v}
    BY <1>3, <1>5 DEF covers
  <2>2. a.val \ {v} = b.val \ {v} /\ (v \in a.val <=> v \notin b.val)
    BY <1>1 DEF difference
  <2>3. v \notin a.dc
    BY <1>1, <1>2 DEF difference, Cube
  <2>4. CASE v \in m <=> v \in a.val
    BY <2>1, <2>3, <2>4 DEF covers
  <2>5. CASE ~(v \in m <=> v \in a.val)
    BY <1>2, <2>1, <2>2, <2>3, <2>5 DEF covers
  <2> QED  BY <2>4, <2>5
<1> QED  BY <1>4, <1>5

-----------------------------------------------------------------------------
(* The inductive invariant.  The search works on columns of the chart; its *)
(* stack holds one frame more than choices while it branches.              *)

Searching == {"ENTER", "BRANCH"}

Shape ==
  /\ current \subseteq Implicants /\ primes \subseteq Implicants
  /\ chart \subseteq Implicants /\ essential \subseteq Implicants
  /\ best \subseteq Implicants
  /\ path \in Seq(chart)
  /\ frames \in Seq(SUBSET chart)
  /\ phase \notin Searching => path = <<>>
  /\ phase \notin Searching \cup {"DECIDE", "DONE"} => frames = <<>>
  /\ phase = "ENTER" => Len(frames) = Len(path)
  /\ phase = "BRANCH" => Len(frames) = Len(path) + 1

IInv == TypeOK /\ Shape

LEMMA InvOffSetAvoided == IInv => OffSetAvoided
<1> SUFFICES ASSUME IInv PROVE OffSetAvoided
  OBVIOUS
<1>1. ToSet(path) \subseteq Implicants
  BY DEF IInv, Shape, ToSet
<1>2. current \cup primes \cup chart \cup chosen \cup best \subseteq Implicants
  BY <1>1 DEF IInv, Shape, chosen
<1> QED
  BY <1>2 DEF OffSetAvoided, Function, covered_minterms, Implicants, implicant

LEMMA InitInv == Init => IInv
<1> SUFFICES ASSUME Init PROVE IInv
  OBVIOUS
<1>1. on \in SUBSET Minterm /\ dc \in SUBSET Minterm
  BY FunctionsAssumption DEF Init
<1>2. /\ phase \in {"GENERATE", "DECIDE"} /\ primes = {} /\ chart = {} /\ essential = {}
      /\ remaining = {} /\ changed = FALSE /\ path = <<>> /\ frames = <<>>
      /\ best = {} /\ best_cost = INT_MAX /\ rewritten = FALSE
      /\ current = {[val |-> m, dc |-> {}] : m \in on \cup dc}
  BY DEF Init
<1>3. current \subseteq Implicants
  <2> SUFFICES ASSUME NEW m \in on \cup dc
               PROVE  [val |-> m, dc |-> {}] \in Implicants
    BY <1>2
  <2>1. [val |-> m, dc |-> {}] \in Cube
    BY <1>1 DEF Cube, Minterm
  <2>2. \A k \in Minterm : covers([val |-> m, dc |-> {}], k) => k = m
    BY DEF covers
  <2> QED  BY <2>1, <2>2 DEF Implicants, implicant
<1>4. current \subseteq Cube
  BY <1>3 DEF Implicants
<1>5. INT_MAX \in Nat
  BY SMT DEF INT_MAX
<1>6. TypeOK
  BY <1>1, <1>2, <1>4, <1>5, EmptySeq DEF TypeOK, Phases
<1>7. Shape
  BY <1>2, <1>3, EmptySeq DEF Shape, Searching
<1> QED  BY <1>6, <1>7 DEF IInv

\* The steps that leave the search variables alone.
LEMMA ChartInv ==
  IInv /\ (Combine \/ MakeChart \/ SelectEssential \/ DropUseless \/ DropColumns
             \/ DropRows \/ Decide) => IInv'
<1> SUFFICES ASSUME IInv,
                    Combine \/ MakeChart \/ SelectEssential \/ DropUseless
                      \/ DropColumns \/ DropRows \/ Decide
             PROVE  IInv'
  OBVIOUS
<1> USE DEF IInv
<1>1. CASE Combine
  <2> DEFINE Merged == {combine_cubes(p[1], p[2]) :
                          p \in {q \in current \X current : combinable(q[1], q[2])}}
  <2>1. Merged \subseteq Implicants
    <3> SUFFICES ASSUME NEW a \in current, NEW b \in current, combinable(a, b)
                 PROVE  combine_cubes(a, b) \in Implicants
      OBVIOUS
    <3>1. a \in Implicants /\ b \in Implicants
      BY DEF Shape
    <3> QED  BY <3>1, CombineSound DEF Implicants, implicant
  <2>2. current' = Merged /\ primes' \subseteq primes \cup current
    BY <1>1 DEF Combine
  <2>3. UNCHANGED <<on, dc, phase, chart, remaining, essential, changed, path,
                    frames, best, best_cost, rewritten>>
    BY <1>1 DEF Combine, chartVars, searchVars
  <2>4. Merged \subseteq Cube
    BY <2>1 DEF Implicants
  <2> HIDE DEF Merged
  <2>5. TypeOK'
    BY <2>2, <2>3, <2>4 DEF TypeOK
  <2>6. Shape'
    BY <2>1, <2>2, <2>3 DEF Shape, Implicants, implicant
  <2> QED  BY <2>5, <2>6
<1>2. CASE ~Combine
  <2>1. /\ UNCHANGED <<on, dc, primes, current, path, frames, best_cost>>
        /\ phase \notin Searching
        /\ chart' \subseteq chart \cup primes
        /\ essential' \subseteq essential \cup chart
        /\ best' \in {best, essential}
        /\ remaining' \subseteq remaining \cup on
        /\ changed' \in BOOLEAN /\ rewritten' \in BOOLEAN
        /\ phase' \in Phases \ {"BRANCH"}
        /\ phase' = "ENTER" => frames = <<>>
        /\ phase' \notin Searching \cup {"DECIDE", "DONE"} => frames = <<>>
        /\ path = <<>>
        /\ chart' # chart => frames = <<>>
    <3> USE DEF chartVars, searchVars, Searching, Phases
    <3>1. CASE MakeChart
      BY <1>2, <3>1 DEF MakeChart, TypeOK, Shape
    <3>2. CASE SelectEssential
      BY <1>2, <3>2 DEF SelectEssential, TypeOK, Shape, columns
    <3>3. CASE DropUseless
      BY <1>2, <3>3 DEF DropUseless, TypeOK, Shape
    <3>4. CASE DropColumns
      BY <1>2, <3>4 DEF DropColumns, TypeOK, Shape
    <3>5. CASE DropRows
      BY <1>2, <3>5 DEF DropRows, TypeOK, Shape
    <3>6. CASE Decide
      BY <1>2, <3>6 DEF Decide, TypeOK, Shape
    <3> QED  BY <1>2, <3>1, <3>2, <3>3, <3>4, <3>5, <3>6
  <2>2. TypeOK'
    BY <2>1 DEF TypeOK, Shape
  <2>3. path' \in Seq(chart')
    BY <2>1, EmptySeq
  <2>4. frames' \in Seq(SUBSET chart')
    BY <2>1, EmptySeq DEF Shape
  <2>5. Implicants' = Implicants
    BY <2>1 DEF Implicants, implicant
  <2>6. Shape'
    BY <2>1, <2>3, <2>4, <2>5, EmptySeq DEF Shape, Searching
  <2> QED  BY <2>2, <2>6
<1> QED  BY <1>1, <1>2

\* Facts about the search's stack.
LEMMA PopPath ==
  ASSUME NEW S, NEW s \in Seq(S), s # <<>>
  PROVE  /\ Front(s) \in Seq(S) /\ Len(Front(s)) = Len(s) - 1
         /\ Last(s) \in S /\ Len(s) \in Nat \ {0}
         /\ \A i \in 1 .. Len(s) - 1 : Front(s)[i] = s[i]
<1>1. Len(s) \in Nat \ {0}
  BY EmptySeq
<1>2. Last(s) \in S
  BY <1>1, ElementOfSeq DEF Last
<1>3. /\ Len(s) - 1 \in Int /\ 1 \in Int
      /\ \A i \in 1 .. Len(s) - 1 : s[i] \in S
  BY <1>1, ElementOfSeq
<1> DEFINE t == SubSeq(s, 1, Len(s) - 1)
<1>4. t \in Seq(S) /\ Len(t) = IF 1 <= Len(s) - 1 THEN Len(s) - 1 - 1 + 1 ELSE 0
  BY <1>3, SubSeqProperties
<1>5. Front(s) = t
  BY Zenon DEF Front
<1>7. \A i \in 1 .. Len(s) - 1 : t[i] = s[i]
  <2>1. \A i \in 1 .. Len(s) - 1 - 1 + 1 : t[i] = s[1 + i - 1]
    BY <1>3, SubSeqProperties
  <2> HIDE DEF t
  <2> QED  BY <1>1, <2>1
<1> HIDE DEF t
<1>6. Len(t) = Len(s) - 1
  <2> DEFINE n == Len(s)
  <2>1. n \in Nat \ {0} /\ Len(t) = IF 1 <= n - 1 THEN n - 1 - 1 + 1 ELSE 0
    BY <1>1, <1>4
  <2> HIDE DEF n
  <2>2. Len(t) = n - 1
    BY <2>1
  <2> QED  BY <2>2 DEF n
<1> QED  BY <1>1, <1>2, <1>4, <1>5, <1>6, <1>7

LEMMA SearchInv ==
  IInv /\ (SearchLeaf \/ SearchNode \/ SearchBranch \/ SearchReturn) => IInv'
<1> SUFFICES ASSUME IInv,
                    SearchLeaf \/ SearchNode \/ SearchBranch \/ SearchReturn
             PROVE  IInv'
  OBVIOUS
<1> USE DEF IInv
<1>1. /\ UNCHANGED <<on, dc, current, primes, chart, remaining, essential,
                     changed, rewritten>>
      /\ phase' \in Phases
  BY DEF SearchLeaf, SearchNode, SearchBranch, SearchReturn, chartVars, Phases
<1>2. chosen \subseteq Implicants
  BY DEF Shape, chosen, ToSet
<1>3. /\ best' \subseteq Implicants
      /\ best_cost' \in Nat
  <2>1. CASE SearchLeaf
    <3>1. sop_cost(chosen) \in Nat
      BY <1>2, CostType DEF Implicants
    <3> QED  BY <1>2, <2>1, <3>1 DEF SearchLeaf, Shape, TypeOK
  <2>2. CASE ~SearchLeaf
    BY <2>2 DEF SearchNode, SearchBranch, SearchReturn, Shape, TypeOK
  <2> QED  BY <2>1, <2>2
<1>4. /\ path' \in Seq(chart) /\ frames' \in Seq(SUBSET chart)
      /\ phase' \notin Searching => path' = <<>>
      /\ phase' \in Searching \cup {"DECIDE"}
      /\ phase' = "ENTER" => Len(frames') = Len(path')
      /\ phase' = "BRANCH" => Len(frames') = Len(path') + 1
  <2> USE DEF Searching
  <2>0. Len(path) \in Nat /\ Len(frames) \in Nat
    BY LenProperties DEF Shape
  <2>1. CASE SearchLeaf
    <3>1. CASE path = <<>>
      BY <2>1, <3>1 DEF SearchLeaf, Shape
    <3>2. CASE path # <<>>
      <4>1. path' = Front(path) /\ frames' = frames /\ phase' = "BRANCH"
        BY <2>1, <3>2 DEF SearchLeaf
      <4>2. path' \in Seq(chart) /\ Len(path') = Len(path) - 1
        BY <3>2, <4>1, PopPath DEF Shape
      <4> QED  BY <2>0, <2>1, <4>1, <4>2 DEF SearchLeaf, Shape
    <3> QED  BY <3>1, <3>2
  <2>2. CASE SearchNode
    <3>1. PICK m : frames' = Append(frames, columns(m))
      BY <2>2 DEF SearchNode
    <3>2. columns(m) \in SUBSET chart
      BY DEF columns
    <3>3. frames' \in Seq(SUBSET chart) /\ Len(frames') = Len(frames) + 1
      BY <3>1, <3>2, AppendProperties DEF Shape
    <3> QED  BY <2>0, <2>2, <3>3 DEF SearchNode, Shape
  <2>3. CASE SearchBranch
    <3>1. frames # <<>>
      BY <2>0, <2>3, EmptySeq DEF SearchBranch, Shape
    <3>2. PICK c \in Last(frames) :
            /\ frames' = Append(Front(frames), Last(frames) \ {c})
            /\ path' = Append(path, c)
      BY <2>3 DEF SearchBranch
    <3>3. /\ Front(frames) \in Seq(SUBSET chart) /\ Last(frames) \in SUBSET chart
          /\ Len(Front(frames)) = Len(frames) - 1
      BY <3>1, PopPath DEF Shape
    <3>4. Last(frames) \ {c} \in SUBSET chart /\ c \in chart
      BY <3>3
    <3>5. frames' \in Seq(SUBSET chart) /\ Len(frames') = Len(Front(frames)) + 1
      BY <3>2, <3>3, <3>4, AppendProperties
    <3>6. path' \in Seq(chart) /\ Len(path') = Len(path) + 1
      BY <3>2, <3>4, AppendProperties DEF Shape
    <3> QED  BY <2>0, <2>3, <3>3, <3>5, <3>6 DEF SearchBranch, Shape
  <2>4. CASE SearchReturn
    <3>1. frames # <<>>
      BY <2>0, <2>4, EmptySeq DEF SearchReturn, Shape
    <3>2. frames' \in Seq(SUBSET chart) /\ Len(frames') = Len(frames) - 1
      BY <2>4, <3>1, PopPath DEF Shape, SearchReturn
    <3>3. CASE path = <<>>
      BY <2>4, <3>2, <3>3 DEF SearchReturn, Shape
    <3>4. CASE path # <<>>
      <4>1. path' = Front(path) /\ phase' = "BRANCH"
        BY <2>4, <3>4 DEF SearchReturn
      <4>2. path' \in Seq(chart) /\ Len(path') = Len(path) - 1
        BY <3>4, <4>1, PopPath DEF Shape
      <4> QED  BY <2>0, <2>4, <3>2, <4>1, <4>2 DEF SearchReturn, Shape
    <3> QED  BY <3>3, <3>4
  <2> QED  BY <2>1, <2>2, <2>3, <2>4
<1>5. chart \subseteq Cube /\ Implicants' = Implicants /\ Implicants \subseteq Cube
  BY <1>1 DEF TypeOK, Implicants, implicant
<1>6. path' \in Seq(Cube) /\ frames' \in Seq(SUBSET Cube)
  BY <1>4, <1>5, SeqMonotonic
<1>7. TypeOK'
  BY <1>1, <1>3, <1>5, <1>6 DEF TypeOK
<1>8. Shape'
  BY <1>1, <1>3, <1>4, <1>5 DEF Shape, Searching
<1> QED  BY <1>7, <1>8

THEOREM Invariance == Spec => []IInv
<1>1. IInv /\ UNCHANGED vars => IInv'
  BY DEF IInv, TypeOK, Shape, Implicants, implicant, vars
<1>2. IInv /\ [Next]_vars => IInv'
  BY <1>1, ChartInv, SearchInv DEF Next, Terminated
<1> QED  BY InitInv, <1>2, PTL DEF Spec

(* Type correctness.                                                       *)
THEOREM TypeCorrect == Spec => []TypeOK
BY Invariance, PTL DEF IInv

(* The half of the minimizer's correctness that the prime chart cannot     *)
(* spoil: nothing it builds is 1 on a minterm of the off-set.              *)
THEOREM OffSetIsAvoided == Spec => []OffSetAvoided
BY Invariance, InvOffSetAvoided, PTL

-----------------------------------------------------------------------------
(* The primes are exactly the maximal implicants.                          *)

inside(c, d) == \A m \in Minterm : covers(c, m) => covers(d, m)
maximal(c) == \A d \in Implicants : inside(c, d) => d = c

\* Level by level: the cubes being merged are all implicants with k don't-care
\* variables, and the primes found so far the maximal ones with fewer.
Level(k) ==
  /\ current = {c \in Implicants : Cardinality(c.dc) = k}
  /\ primes = {c \in Implicants : maximal(c) /\ Cardinality(c.dc) < k}

LevelInv ==
  /\ phase = "GENERATE" => \E k \in Nat : Level(k)
  /\ phase # "GENERATE" /\ on # {} => primes = {c \in Implicants : maximal(c)}

LEMMA DcFinite ==
  ASSUME NEW c \in Cube
  PROVE  IsFiniteSet(c.dc) /\ Cardinality(c.dc) \in Nat
<1>1. c.dc \subseteq Vars
  BY DEF Cube
<1> QED  BY <1>1, VarsFinite, FS_Subset, FS_CardinalityType

(* A cube lies inside another only if it has all of its literals.          *)
LEMMA InsideLiterals ==
  ASSUME NEW c \in Cube, NEW d \in Cube, inside(c, d)
  PROVE  c.dc \subseteq d.dc /\ c.val \ d.dc = d.val
<1>1. c.val \in Minterm /\ covers(c, c.val)
  BY DEF Cube, Minterm, covers
<1>2. c.val \ d.dc = d.val
  BY <1>1 DEF inside, covers
<1>3. ASSUME NEW v \in c.dc, v \notin d.dc PROVE FALSE
  <2>1. c.val \cup {v} \in Minterm /\ covers(c, c.val \cup {v})
    BY <1>3 DEF Cube, Minterm, covers
  <2>2. (c.val \cup {v}) \ d.dc = d.val
    BY <2>1 DEF inside, covers
  <2> QED  BY <1>2, <1>3, <2>2 DEF Cube
<1> QED  BY <1>2, <1>3

(* The combination of two cubes has one more don't-care variable and both  *)
(* cubes inside.                                                           *)
LEMMA CombineGrows ==
  ASSUME NEW a \in Cube, NEW b \in Cube, combinable(a, b)
  PROVE  /\ Cardinality(combine_cubes(a, b).dc) = Cardinality(a.dc) + 1
         /\ inside(a, combine_cubes(a, b))
<1>1. PICK v : difference(a, b) = {v}
  <2>1. difference(a, b) \subseteq Vars
    BY DEF difference, Cube
  <2>2. IsFiniteSet(difference(a, b))
    BY <2>1, VarsFinite, FS_Subset
  <2> QED  BY <2>2, FS_Singleton DEF combinable
<1>2. v \notin a.dc /\ a.dc = b.dc
  BY <1>1 DEF difference, Cube, combinable
<1>3. combine_cubes(a, b) = [val |-> a.val \ {v}, dc |-> a.dc \cup {v}]
  BY <1>1 DEF combine_cubes
<1>4. Cardinality(a.dc \cup {v}) = Cardinality(a.dc) + 1
  BY <1>2, DcFinite, FS_AddElement
<1>5. inside(a, combine_cubes(a, b))
  BY <1>3 DEF inside, covers
<1> QED  BY <1>3, <1>4, <1>5

(* An implicant with a don't-care variable combines from two implicants.   *)
LEMMA ImplicantSplits ==
  ASSUME TypeOK, NEW c \in Implicants, NEW v \in c.dc
  PROVE  \E a, b \in Implicants :
            /\ combinable(a, b) /\ combine_cubes(a, b) = c
            /\ Cardinality(a.dc) = Cardinality(c.dc) - 1
            /\ Cardinality(b.dc) = Cardinality(c.dc) - 1
<1> DEFINE a == [val |-> c.val, dc |-> c.dc \ {v}]
           b == [val |-> c.val \cup {v}, dc |-> c.dc \ {v}]
<1>1. c \in Cube /\ v \in Vars /\ v \notin c.val
  BY DEF Implicants, Cube
<1>2. a \in Cube /\ b \in Cube
  BY <1>1 DEF Cube
<1>3. inside(a, c) /\ inside(b, c)
  BY <1>1 DEF inside, covers, Cube
<1>4. a \in Implicants /\ b \in Implicants
  BY <1>2, <1>3 DEF Implicants, implicant, inside
<1>5. difference(a, b) = {v}
  BY <1>1 DEF difference
<1>6. combinable(a, b)
  BY <1>5, FS_Singleton DEF combinable
<1>7. combine_cubes(a, b) = c
  <2>1. combine_cubes(a, b) = [val |-> c.val, dc |-> c.dc]
    BY <1>1, <1>5 DEF combine_cubes
  <2> QED  BY <1>1, <2>1 DEF Cube
<1>8. Cardinality(c.dc \ {v}) = Cardinality(c.dc) - 1
  BY <1>1, DcFinite, FS_RemoveElement
<1> QED  BY <1>4, <1>6, <1>7, <1>8

(* An implicant inside another one combines with some implicant.           *)
LEMMA InsideCombines ==
  ASSUME TypeOK, NEW a \in Implicants, NEW d \in Implicants, inside(a, d), d # a
  PROVE  \E b \in Implicants : combinable(a, b) /\ Cardinality(b.dc) = Cardinality(a.dc)
<1>1. a \in Cube /\ d \in Cube
  BY DEF Implicants
<1>2. a.dc \subseteq d.dc /\ a.val \ d.dc = d.val
  BY <1>1, InsideLiterals
<1>3. a.dc # d.dc
  BY <1>1, <1>2 DEF Cube
<1>4. PICK v : v \in d.dc \ a.dc
  BY <1>2, <1>3
<1>5. v \in Vars
  BY <1>1, <1>4 DEF Cube
<1> DEFINE b == [val |-> IF v \in a.val THEN a.val \ {v} ELSE a.val \cup {v}, dc |-> a.dc]
<1>6. b \in Cube
  BY <1>1, <1>4, <1>5 DEF Cube
<1>7. inside(b, d)
  <2> SUFFICES ASSUME NEW m \in Minterm, m \ a.dc = b.val PROVE m \ d.dc = d.val
    BY DEF inside, covers
  <2>1. b.val \ d.dc = a.val \ d.dc
    BY <1>4
  <2> QED  BY <1>2, <2>1
<1>8. b \in Implicants
  BY <1>6, <1>7 DEF Implicants, implicant, inside
<1>9. difference(a, b) = {v}
  BY DEF difference
<1>10. combinable(a, b)
  BY <1>9, FS_Singleton DEF combinable
<1> QED  BY <1>8, <1>10

(* One level of merging leads to the next.                                 *)
LEMMA CombineLevel ==
  ASSUME TypeOK, NEW k \in Nat, Level(k), Combine
  PROVE  Level(k + 1)'
<1>1. Implicants' = Implicants
  BY DEF Combine, Implicants, implicant
<1>2. \A c : maximal(c)' <=> maximal(c)
  BY <1>1 DEF maximal
<1>3. \A c \in Implicants : c \in Cube /\ Cardinality(c.dc) \in Nat
  BY DcFinite DEF Implicants
<1>4. current' = {c \in Implicants : Cardinality(c.dc) = k + 1}
  <2>1. current' = {combine_cubes(p[1], p[2]) :
                      p \in {q \in current \X current : combinable(q[1], q[2])}}
    BY DEF Combine
  <2>2. ASSUME NEW a \in current, NEW b \in current, combinable(a, b)
        PROVE  /\ combine_cubes(a, b) \in Implicants
               /\ Cardinality(combine_cubes(a, b).dc) = k + 1
    <3>1. /\ a \in Cube /\ b \in Cube /\ implicant(a) /\ implicant(b)
          /\ Cardinality(a.dc) = k
      BY DEF Level, Implicants
    <3>2. /\ combine_cubes(a, b) \in Cube
          /\ \A m \in Minterm :
               covers(combine_cubes(a, b), m) => covers(a, m) \/ covers(b, m)
      BY <2>2, <3>1, CombineSound
    <3>3. implicant(combine_cubes(a, b))
      BY <3>1, <3>2 DEF implicant
    <3> QED  BY <2>2, <3>1, <3>2, <3>3, CombineGrows DEF Implicants
  <2>3. ASSUME NEW c \in Implicants, Cardinality(c.dc) = k + 1
        PROVE  \E a, b \in current : combinable(a, b) /\ combine_cubes(a, b) = c
    <3>1. c.dc # {}
      BY <2>3, FS_EmptySet
    <3>2. PICK v : v \in c.dc
      BY <3>1
    <3>3. PICK a \in Implicants, b \in Implicants :
            /\ combinable(a, b) /\ combine_cubes(a, b) = c
            /\ Cardinality(a.dc) = Cardinality(c.dc) - 1
            /\ Cardinality(b.dc) = Cardinality(c.dc) - 1
      BY <3>2, ImplicantSplits
    <3>4. a \in current /\ b \in current
      BY <2>3, <3>3 DEF Level
    <3> QED  BY <3>3, <3>4
  <2>4. ASSUME NEW x \in current'
        PROVE  x \in Implicants /\ Cardinality(x.dc) = k + 1
    <3>1. PICK a \in current, b \in current :
            combinable(a, b) /\ x = combine_cubes(a, b)
      BY <2>1, <2>4
    <3> QED  BY <2>2, <3>1
  <2>5. ASSUME NEW x \in Implicants, Cardinality(x.dc) = k + 1
        PROVE  x \in current'
    <3>1. PICK a \in current, b \in current :
            combinable(a, b) /\ combine_cubes(a, b) = x
      BY <2>3, <2>5
    <3>2. <<a, b>> \in {q \in current \X current : combinable(q[1], q[2])}
      BY <3>1
    <3> QED  BY <2>1, <3>1, <3>2
  <2> QED  BY <2>4, <2>5
<1>5. ASSUME NEW a \in current
      PROVE  (\A b \in current : ~combinable(a, b)) <=> maximal(a)
  <2>1. a \in Implicants /\ a \in Cube /\ Cardinality(a.dc) = k
    BY <1>3 DEF Level
  <2>2. ASSUME maximal(a), NEW b \in current, combinable(a, b) PROVE FALSE
    <3>1. b \in Cube /\ combine_cubes(a, b) \in Implicants
      <4>1. b \in Cube /\ b \in Implicants
        BY <1>3 DEF Level
      <4>2. /\ combine_cubes(a, b) \in Cube
            /\ \A m \in Minterm :
                 covers(combine_cubes(a, b), m) => covers(a, m) \/ covers(b, m)
        BY <2>1, <2>2, <4>1, CombineSound
      <4> QED  BY <2>1, <4>1, <4>2 DEF Implicants, implicant
    <3>2. /\ inside(a, combine_cubes(a, b))
          /\ Cardinality(combine_cubes(a, b).dc) = k + 1
      BY <2>1, <2>2, <3>1, CombineGrows
    <3>3. combine_cubes(a, b) = a
      BY <2>2, <3>1, <3>2 DEF maximal
    <3> QED  BY <2>1, <3>2, <3>3
  <2>3. ASSUME ~maximal(a) PROVE \E b \in current : combinable(a, b)
    <3>1. PICK d \in Implicants : inside(a, d) /\ d # a
      BY <2>3 DEF maximal
    <3>2. PICK b \in Implicants :
            combinable(a, b) /\ Cardinality(b.dc) = Cardinality(a.dc)
      BY <2>1, <3>1, InsideCombines
    <3> QED  BY <2>1, <3>2 DEF Level
  <2> QED  BY <2>2, <2>3
<1>6. primes' = {c \in Implicants : maximal(c) /\ Cardinality(c.dc) < k + 1}
  <2>1. primes' = primes \cup {a \in current : \A b \in current : ~combinable(a, b)}
    BY DEF Combine
  <2>2. primes' = primes \cup {a \in current : maximal(a)}
    BY <1>5, <2>1
  <2>3. \A c \in Implicants : Cardinality(c.dc) < k + 1
          <=> Cardinality(c.dc) < k \/ Cardinality(c.dc) = k
    BY <1>3
  <2> QED  BY <2>2, <2>3 DEF Level
<1> QED  BY <1>1, <1>2, <1>4, <1>6 DEF Level

(* When a level is empty, so are all that would follow.                    *)
LEMMA LastLevel ==
  ASSUME TypeOK, NEW k \in Nat, Level(k), current = {}
  PROVE  \A c \in Implicants : Cardinality(c.dc) < k
<1> SUFFICES ASSUME NEW c \in Implicants, ~(Cardinality(c.dc) < k) PROVE FALSE
  OBVIOUS
<1>1. \A d \in Implicants : d \in Cube /\ Cardinality(d.dc) \in Nat
  BY DcFinite DEF Implicants
<1> DEFINE sizes == {n \in Nat : n >= k /\ \E d \in Implicants : Cardinality(d.dc) = n}
<1>2. Cardinality(c.dc) \in sizes /\ sizes \in SUBSET Nat
  BY <1>1
<1>3. PICK n \in sizes : \A j \in sizes : n <= j
  <2> HIDE DEF sizes
  <2> QED  BY <1>2, LeastNatural
<1>4. PICK d \in Implicants : Cardinality(d.dc) = n
  BY <1>3
<1>5. n # k
  BY <1>4 DEF Level
<1>6. n \in Nat /\ n > k
  BY <1>3, <1>5
<1>7. d.dc # {}
  BY <1>4, <1>6, FS_EmptySet
<1>8. PICK v : v \in d.dc
  BY <1>7
<1>9. PICK a \in Implicants : Cardinality(a.dc) = n - 1
  BY <1>4, <1>8, ImplicantSplits
<1>10. n - 1 \in sizes
  BY <1>6, <1>9
<1> QED  BY <1>3, <1>6, <1>10

LEMMA InitLevel == Init => LevelInv
<1> SUFFICES ASSUME Init PROVE LevelInv
  OBVIOUS
<1>1. TypeOK
  BY InitInv DEF IInv
<1>2. phase # "GENERATE" => on = {}
  BY DEF Init
<1>3. Level(0)
  <2>1. \A c \in Implicants : c \in Cube /\ Cardinality(c.dc) \in Nat
                              /\ (Cardinality(c.dc) = 0 <=> c.dc = {})
    BY DcFinite, FS_EmptySet DEF Implicants
  <2>2. current = {[val |-> m, dc |-> {}] : m \in on \cup dc} /\ primes = {}
    BY DEF Init
  <2>3. current \subseteq Implicants
    BY InitInv DEF IInv, Shape
  <2>4. ASSUME NEW c \in Implicants, c.dc = {} PROVE c \in current
    <3>1. c \in Cube /\ c.val \in Minterm /\ covers(c, c.val)
      BY <2>1, <2>4 DEF Cube, Minterm, covers
    <3>2. c.val \in on \cup dc
      BY <3>1 DEF Implicants, implicant
    <3>3. c = [val |-> c.val, dc |-> {}]
      BY <2>4, <3>1 DEF Cube
    <3> QED  BY <2>2, <3>2, <3>3
  <2>5. \A c \in current : c.dc = {}
    BY <2>2
  <2>6. \A c \in Implicants : ~(Cardinality(c.dc) < 0)
    BY <2>1
  <2>7. current = {c \in Implicants : Cardinality(c.dc) = 0}
    BY <2>1, <2>3, <2>4, <2>5
  <2> QED  BY <2>2, <2>6, <2>7 DEF Level
<1> QED  BY <1>2, <1>3 DEF LevelInv

LEMMA NextLevel == LevelInv /\ IInv /\ [Next]_vars => LevelInv'
<1> SUFFICES ASSUME LevelInv, IInv, [Next]_vars PROVE LevelInv'
  OBVIOUS
<1>1. CASE Combine
  <2>1. PICK k \in Nat : Level(k)
    BY <1>1 DEF Combine, LevelInv
  <2>2. Level(k + 1)'
    BY <1>1, <2>1, CombineLevel DEF IInv
  <2>3. phase' = "GENERATE" /\ k + 1 \in Nat
    BY <1>1 DEF Combine
  <2>4. \E j \in Nat : Level(j)'
    BY <2>2, <2>3
  <2> QED  BY <2>3, <2>4 DEF LevelInv
<1>2. CASE MakeChart
  <2>1. PICK k \in Nat : Level(k)
    BY <1>2 DEF MakeChart, LevelInv
  <2>2. \A c \in Implicants : Cardinality(c.dc) < k
    BY <1>2, <2>1, LastLevel DEF MakeChart, IInv
  <2>3. primes = {c \in Implicants : maximal(c)}
    BY <2>1, <2>2 DEF Level
  <2>4. UNCHANGED <<on, dc, primes>> /\ phase' # "GENERATE"
    BY <1>2 DEF MakeChart
  <2>5. primes' = {c \in Implicants : maximal(c)}'
    BY <2>3, <2>4 DEF Implicants, implicant, maximal
  <2> QED  BY <2>4, <2>5 DEF LevelInv
<1>3. CASE ~Combine /\ ~MakeChart
  <2>1. /\ UNCHANGED <<on, dc, primes, current>>
        /\ phase' = "GENERATE" <=> phase = "GENERATE"
    BY <1>3 DEF Next, SelectEssential, DropUseless, DropColumns, DropRows, SearchLeaf,
                SearchNode, SearchBranch, SearchReturn, Decide, Terminated, vars
  <2>2. Implicants' = Implicants /\ \A c : maximal(c)' <=> maximal(c)
    BY <2>1 DEF Implicants, implicant, maximal
  <2>3. \A k : Level(k)' <=> Level(k)
    BY <2>1, <2>2 DEF Level
  <2> QED  BY <2>1, <2>2, <2>3 DEF LevelInv
<1> QED  BY <1>1, <1>2, <1>3

THEOREM LevelInvariance == Spec => []LevelInv
BY InitLevel, NextLevel, Invariance, PTL DEF Spec

(* The merging of cubes finds exactly the maximal implicants, of every     *)
(* function of any number of variables.                                    *)
THEOREM PrimesAreComplete == Spec => []PrimesComplete
<1>1. LevelInv => PrimesComplete
  <2> SUFFICES ASSUME LevelInv, phase # "GENERATE", on # {}
               PROVE  primes = {c \in {e \in Cube : cube_cover_set(e, Minterm) \subseteq on \cup dc} :
                         \A d \in {e \in Cube : cube_cover_set(e, Minterm) \subseteq on \cup dc} \ {c} :
                           ~(cube_cover_set(c, Minterm) \subseteq cube_cover_set(d, Minterm))}
    BY DEF PrimesComplete
  <2>1. Implicants = {e \in Cube : cube_cover_set(e, Minterm) \subseteq on \cup dc}
    BY DEF Implicants, implicant, cube_cover_set
  <2>2. \A c, d : inside(c, d)
                    <=> cube_cover_set(c, Minterm) \subseteq cube_cover_set(d, Minterm)
    BY DEF inside, cube_cover_set
  <2>3. primes = {c \in Implicants : \A d \in Implicants \ {c} : ~inside(c, d)}
    BY DEF LevelInv, maximal
  <2> HIDE DEF Implicants
  <2> QED  BY <2>1, <2>2, <2>3
<1> QED  BY <1>1, LevelInvariance, PTL

-----------------------------------------------------------------------------
(* The rows of the chart.                                                  *)

\* No selected column covers a row that is left, and each was selected for a
\* row of its own.
RowsInv ==
  /\ \A m \in remaining, e \in essential : ~covers(e, m)
  /\ Cardinality(essential) + Cardinality(remaining) <= Cardinality(Minterm)
  /\ phase = "GENERATE" => essential = {}

LEMMA MintermFinite ==
  /\ IsFiniteSet(Minterm)
  /\ \A S \in SUBSET Minterm : IsFiniteSet(S) /\ Cardinality(S) \in Nat
                               /\ Cardinality(S) <= Cardinality(Minterm)
<1>1. IsFiniteSet(Minterm)
  BY VarsFinite, FS_SUBSET DEF Minterm
<1> QED  BY <1>1, FS_Subset, FS_CardinalityType

LEMMA InitRows == Init => RowsInv
<1> SUFFICES ASSUME Init PROVE RowsInv
  OBVIOUS
<1>1. remaining = {} /\ essential = {}
  BY DEF Init
<1>2. Cardinality(Minterm) \in Nat
  BY MintermFinite, FS_CardinalityType
<1> QED  BY <1>1, <1>2, FS_EmptySet DEF RowsInv

LEMMA NextRows == RowsInv /\ IInv /\ [Next]_vars => RowsInv'
<1> SUFFICES ASSUME RowsInv, IInv, [Next]_vars PROVE RowsInv'
  OBVIOUS
<1>1. /\ remaining \in SUBSET Minterm /\ on \in SUBSET Minterm
      /\ IsFiniteSet(essential) /\ IsFiniteSet(remaining)
      /\ Cardinality(essential) \in Nat /\ Cardinality(remaining) \in Nat
      /\ Cardinality(Minterm) \in Nat
  BY MintermFinite, CostFinite, FS_CardinalityType DEF IInv, TypeOK
<1>2. CASE MakeChart
  <2>1. essential' = {} /\ remaining' = on /\ phase' = "ESSENTIAL"
    BY <1>2 DEF MakeChart, RowsInv
  <2>2. Cardinality(on) \in Nat /\ Cardinality(on) <= Cardinality(Minterm)
    BY <1>1, MintermFinite
  <2> QED  BY <2>1, <2>2, FS_EmptySet DEF RowsInv
<1>3. CASE SelectEssential
  <2> DEFINE rows == {m \in remaining : Cardinality(columns(m)) = 1}
  <2>1. PICK m \in First(rows) : \E only \in columns(m) :
          /\ essential' = essential \cup {only}
          /\ remaining' = remaining \ cube_cover_set(only, remaining)
    BY <1>3 DEF SelectEssential
  <2>2. PICK only \in columns(m) :
          /\ essential' = essential \cup {only}
          /\ remaining' = remaining \ cube_cover_set(only, remaining)
    BY <2>1
  <2>3. phase' = phase /\ phase = "ESSENTIAL"
    BY <1>3 DEF SelectEssential
  <2>4. m \in remaining /\ covers(only, m)
    BY <2>1, <2>2 DEF First, columns
  <2>5. remaining' \subseteq remaining \ {m}
    BY <2>2, <2>4 DEF cube_cover_set
  <2>6. Cardinality(remaining') <= Cardinality(remaining) - 1
        /\ Cardinality(remaining') \in Nat
    <3>1. IsFiniteSet(remaining \ {m}) /\ Cardinality(remaining \ {m}) = Cardinality(remaining) - 1
      BY <1>1, <2>4, FS_RemoveElement
    <3> QED  BY <2>5, <3>1, FS_Subset, FS_CardinalityType
  <2>7. Cardinality(essential') <= Cardinality(essential) + 1
        /\ Cardinality(essential') \in Nat
    <3>1. /\ IsFiniteSet(essential \cup {only})
          /\ Cardinality(essential \cup {only}) = IF only \in essential
               THEN Cardinality(essential) ELSE Cardinality(essential) + 1
      BY <1>1, FS_AddElement
    <3>2. essential' = essential \cup {only}
      BY <2>2
    <3> QED  BY <1>1, <3>1, <3>2
  <2>8. \A k \in remaining', e \in essential' : ~covers(e, k)
    BY <2>2 DEF RowsInv, cube_cover_set
  <2> QED  BY <1>1, <2>3, <2>6, <2>7, <2>8 DEF RowsInv
<1>4. CASE DropRows
  <2>1. remaining' \subseteq remaining /\ essential' = essential /\ phase' # "GENERATE"
    BY <1>4 DEF DropRows
  <2>2. Cardinality(remaining') <= Cardinality(remaining) /\ Cardinality(remaining') \in Nat
    BY <1>1, <2>1, FS_Subset, FS_CardinalityType
  <2> QED  BY <1>1, <2>1, <2>2 DEF RowsInv
<1>5. CASE ~MakeChart /\ ~SelectEssential /\ ~DropRows
  <2>1. UNCHANGED <<remaining, essential>> /\ (phase' = "GENERATE" => phase = "GENERATE")
    BY <1>5 DEF Next, Combine, DropUseless, DropColumns, SearchLeaf, SearchNode,
                SearchBranch, SearchReturn, Decide, Terminated, vars, chartVars
  <2> QED  BY <2>1 DEF RowsInv
<1> QED  BY <1>2, <1>3, <1>4, <1>5

-----------------------------------------------------------------------------
(* The search is exact on the chart it is given.                           *)

\* S completes the selected columns to a cover of the rows.
Completes(S) == remaining \subseteq Function(S \cup essential)

\* The search can still come to S: it is on a way into S, or a node of its way
\* has a candidate of S left.
Waits(S, way, left) ==
  \E i \in 1 .. Len(left) : /\ \A j \in 1 .. i - 1 : way[j] \in S
                            /\ left[i] \cap S # {}
Open(S) == \/ phase = "ENTER" /\ \A j \in 1 .. Len(path) : path[j] \in S
           \/ Waits(S, path, frames)

\* The best cover so far is a cover; INT_MAX stands for none.
Found ==
  \/ best = {} /\ best_cost = INT_MAX
  \/ /\ essential \subseteq best /\ best \subseteq chart \cup essential
     /\ remaining \subseteq Function(best)
     /\ best_cost = sop_cost(best)

\* What the search has passed by is no cheaper than what it found.
NothingMissed ==
  \A S \in SUBSET chart :
    Completes(S) => best_cost <= sop_cost(S \cup essential) \/ Open(S)

ExactInv ==
  /\ phase \notin Searching \cup {"DECIDE", "DONE"} => best = {} /\ best_cost = INT_MAX
  /\ phase \in Searching => remaining # {}
  /\ phase \in {"DECIDE", "DONE"} => frames = <<>> /\ (remaining = {} => best = essential)
  /\ phase \in Searching \cup {"DECIDE", "DONE"} /\ remaining # {} => Found /\ NothingMissed

(* The columns chosen on a way into S are columns of S.                    *)
LEMMA ChosenInside ==
  ASSUME IInv, NEW S, \A j \in 1 .. Len(path) : path[j] \in S
  PROVE  chosen \subseteq S \cup essential
<1>1. DOMAIN path = 1 .. Len(path)
  BY DEF IInv, Shape
<1> QED  BY <1>1 DEF chosen, ToSet

LEMMA SearchCosts ==
  ASSUME IInv
  PROVE  /\ best_cost \in Nat
         /\ chosen \in SUBSET Cube /\ sop_cost(chosen) \in Nat
         /\ \A S \in SUBSET chart : S \cup essential \in SUBSET Cube
                                    /\ sop_cost(S \cup essential) \in Nat
<1>1. chart \subseteq Cube /\ essential \subseteq Cube /\ best_cost \in Nat
      /\ path \in Seq(chart)
  BY DEF IInv, TypeOK, Shape
<1>2. chosen \subseteq Cube
  BY <1>1 DEF chosen, ToSet
<1> QED  BY <1>1, <1>2, CostType

(* A leaf of the search: the way is left, and what it leads to is no       *)
(* cheaper than the best.                                                  *)
LEMMA LeafExact ==
  ASSUME IInv, Found, NothingMissed, remaining # {}, SearchLeaf
  PROVE  Found' /\ NothingMissed' /\ (phase' = "DECIDE" => frames' = <<>>)
<1>1. UNCHANGED <<chart, remaining, essential, frames>> /\ phase = "ENTER"
  BY DEF SearchLeaf, chartVars
<1>2. /\ best_cost \in Nat /\ sop_cost(chosen) \in Nat
      /\ \/ /\ sop_cost(chosen) < best_cost /\ best' = chosen
            /\ best_cost' = sop_cost(chosen) /\ uncovered = {}
         \/ sop_cost(chosen) >= best_cost /\ best' = best /\ best_cost' = best_cost
  BY SearchCosts DEF SearchLeaf
<1>3. Found'
  <2>1. CASE best' = chosen /\ best_cost' = sop_cost(chosen) /\ uncovered = {}
    <3>1. remaining \subseteq Function(chosen)
      BY <2>1 DEF uncovered, covered_minterms, Function, IInv, TypeOK
    <3>2. essential \subseteq chosen /\ chosen \subseteq chart \cup essential
      BY DEF chosen, ToSet, IInv, Shape
    <3> QED  BY <1>1, <2>1, <3>1, <3>2 DEF Found
  <2>2. CASE best' = best /\ best_cost' = best_cost
    BY <1>1, <2>2 DEF Found
  <2> QED  BY <1>2, <2>1, <2>2
<1>4. Len(path) \in Nat /\ Len(frames) = Len(path) /\ path \in Seq(chart)
      /\ frames \in Seq(SUBSET chart)
  BY <1>1, LenProperties DEF IInv, Shape
<1>5. NothingMissed'
  <2> SUFFICES ASSUME NEW S \in SUBSET chart, Completes(S)
               PROVE  best_cost' <= sop_cost(S \cup essential) \/ Open(S)'
    BY <1>1 DEF NothingMissed, Completes
  <2>1. sop_cost(S \cup essential) \in Nat /\ S \cup essential \in SUBSET Cube
    BY SearchCosts
  <2>2. best_cost' <= best_cost /\ best_cost' <= sop_cost(chosen) /\ best_cost' \in Nat
    BY <1>2
  <2>3. CASE best_cost <= sop_cost(S \cup essential)
    BY <1>2, <2>1, <2>2, <2>3
  <2>4. CASE \A j \in 1 .. Len(path) : path[j] \in S
    <3>1. sop_cost(chosen) <= sop_cost(S \cup essential)
      BY <2>1, <2>4, ChosenInside, CostMonotone
    <3> QED  BY <1>2, <2>1, <2>2, <3>1
  <2>5. CASE Waits(S, path, frames)
    <3>1. PICK i \in 1 .. Len(frames) :
            (\A j \in 1 .. i - 1 : path[j] \in S) /\ frames[i] \cap S # {}
      BY <2>5 DEF Waits
    <3>2. path # <<>>
      BY <1>4, <3>1
    <3>3. path' = Front(path) /\ phase' = "BRANCH"
      BY <3>2 DEF SearchLeaf
    <3>4. \A j \in 1 .. Len(path) - 1 : path'[j] = path[j]
      BY <1>4, <3>2, <3>3, PopPath
    <3>5. i \in 1 .. Len(frames') /\ frames'[i] \cap S # {}
      BY <1>1, <3>1
    <3>6. \A j \in 1 .. i - 1 : path'[j] \in S
      BY <1>4, <3>1, <3>4
    <3> QED  BY <3>5, <3>6 DEF Open, Waits
  <2> QED  BY <2>3, <2>4, <2>5 DEF NothingMissed, Open
<1>6. ASSUME phase' = "DECIDE" PROVE frames' = <<>>
  <2>1. path = <<>>
    BY <1>6 DEF SearchLeaf
  <2> QED  BY <1>1, <1>4, <2>1, EmptySeq
<1> QED  BY <1>3, <1>5, <1>6

(* A node of the search: every cover has one of the candidates.            *)
LEMMA NodeExact ==
  ASSUME IInv, Found, NothingMissed, SearchNode
  PROVE  Found' /\ NothingMissed'
<1>1. UNCHANGED <<chart, remaining, essential, path, best, best_cost>>
      /\ phase = "ENTER" /\ phase' = "BRANCH"
  BY DEF SearchNode, chartVars
<1>2. PICK m \in uncovered : frames' = Append(frames, columns(m))
  BY DEF SearchNode, First
<1>3. /\ frames \in Seq(SUBSET chart) /\ columns(m) \in SUBSET chart
      /\ Len(frames) = Len(path) /\ Len(frames) \in Nat
  BY <1>1, LenProperties DEF IInv, Shape, columns
<1>4. /\ Len(frames') = Len(frames) + 1
      /\ \A i \in 1 .. Len(frames) : frames'[i] = frames[i]
      /\ frames'[Len(frames) + 1] = columns(m)
  BY <1>2, <1>3, AppendProperties
<1>5. m \in remaining /\ m \in Minterm /\ \A c \in chosen : ~covers(c, m)
  <2>1. m \in remaining /\ m \notin covered_minterms(chosen, remaining)
    BY <1>2 DEF uncovered
  <2> QED  BY <2>1 DEF covered_minterms, IInv, TypeOK
<1>6. NothingMissed'
  <2> SUFFICES ASSUME NEW S \in SUBSET chart, Completes(S), Open(S)
               PROVE  Waits(S, path', frames')
    BY <1>1 DEF NothingMissed, Completes, Open
  <2>1. CASE \A j \in 1 .. Len(path) : path[j] \in S
    <3>1. PICK p \in S \cup essential : covers(p, m)
      BY <1>5 DEF Completes, Function, covered_minterms
    <3>2. p \in columns(m) \cap S
      BY <1>5, <3>1 DEF columns, chosen
    <3>3. Len(frames) + 1 \in 1 .. Len(frames') /\ Len(frames) + 1 - 1 = Len(path)
      BY <1>3, <1>4
    <3> QED  BY <1>1, <1>4, <2>1, <3>2, <3>3 DEF Waits
  <2>2. CASE Waits(S, path, frames)
    <3>1. \A i \in 1 .. Len(frames) : i \in 1 .. Len(frames') /\ frames'[i] = frames[i]
      BY <1>3, <1>4
    <3> QED  BY <1>1, <2>2, <3>1 DEF Waits
  <2> QED  BY <2>1, <2>2 DEF Open
<1> QED  BY <1>1, <1>6 DEF Found

(* Trying a candidate: the covers with it are on the way, the others wait. *)
LEMMA BranchExact ==
  ASSUME IInv, Found, NothingMissed, SearchBranch
  PROVE  Found' /\ NothingMissed'
<1>1. UNCHANGED <<chart, remaining, essential, best, best_cost>>
      /\ phase = "BRANCH" /\ phase' = "ENTER"
  BY DEF SearchBranch, chartVars
<1>2. PICK c \in Last(frames) :
        /\ frames' = Append(Front(frames), Last(frames) \ {c})
        /\ path' = Append(path, c)
  BY DEF SearchBranch
<1>3. /\ frames \in Seq(SUBSET chart) /\ path \in Seq(chart)
      /\ Len(frames) = Len(path) + 1 /\ Len(path) \in Nat
  BY <1>1, LenProperties DEF IInv, Shape
<1>4. frames # <<>>
  BY <1>3, EmptySeq
<1>5. /\ Front(frames) \in Seq(SUBSET chart) /\ Last(frames) \in SUBSET chart
      /\ Len(Front(frames)) = Len(path)
      /\ \A i \in 1 .. Len(path) : Front(frames)[i] = frames[i]
  BY <1>3, <1>4, PopPath
<1>6. Last(frames) = frames[Len(frames)]
  BY DEF Last
<1>7. Last(frames) \ {c} \in SUBSET chart /\ c \in chart
  BY <1>2, <1>5
<1>8. /\ Len(frames') = Len(path) + 1
      /\ \A i \in 1 .. Len(path) : frames'[i] = Front(frames)[i]
      /\ frames'[Len(path) + 1] = Last(frames) \ {c}
  BY <1>2, <1>5, <1>7, AppendProperties
<1>9. /\ Len(path') = Len(path) + 1
      /\ \A j \in 1 .. Len(path) : path'[j] = path[j]
      /\ path'[Len(path) + 1] = c
  BY <1>2, <1>3, <1>7, AppendProperties
<1>10. NothingMissed'
  <2> SUFFICES ASSUME NEW S \in SUBSET chart, Waits(S, path, frames)
               PROVE  Open(S)'
    BY <1>1 DEF NothingMissed, Completes, Open
  <2>1. PICK i \in 1 .. Len(frames) :
          (\A j \in 1 .. i - 1 : path[j] \in S) /\ frames[i] \cap S # {}
    BY DEF Waits
  <2>2. \A j \in 1 .. i - 1 : path'[j] \in S
    BY <1>3, <1>9, <2>1
  <2>3. CASE i <= Len(path)
    <3>1. i \in 1 .. Len(frames') /\ frames'[i] \cap S # {}
      BY <1>3, <1>5, <1>8, <2>1, <2>3
    <3> QED  BY <2>2, <3>1 DEF Open, Waits
  <2>4. CASE i = Len(path) + 1 /\ c \in S
    <3>1. \A j \in 1 .. Len(path') : path'[j] \in S
      BY <1>3, <1>9, <2>2, <2>4
    <3> QED  BY <1>1, <3>1 DEF Open
  <2>5. CASE i = Len(path) + 1 /\ c \notin S
    <3>1. i \in 1 .. Len(frames') /\ frames'[i] \cap S # {}
      BY <1>3, <1>6, <1>8, <2>1, <2>5
    <3> QED  BY <2>2, <3>1 DEF Open, Waits
  <2> QED  BY <1>3, <2>1, <2>3, <2>4, <2>5
<1> QED  BY <1>1, <1>10 DEF Found

(* Leaving a node without candidates: no cover waits there.                *)
LEMMA ReturnExact ==
  ASSUME IInv, Found, NothingMissed, SearchReturn
  PROVE  Found' /\ NothingMissed' /\ (phase' = "DECIDE" => frames' = <<>>)
<1>1. UNCHANGED <<chart, remaining, essential, best, best_cost>>
      /\ phase = "BRANCH" /\ Last(frames) = {} /\ frames' = Front(frames)
  BY DEF SearchReturn, chartVars
<1>2. /\ frames \in Seq(SUBSET chart) /\ path \in Seq(chart)
      /\ Len(frames) = Len(path) + 1 /\ Len(path) \in Nat
  BY <1>1, LenProperties DEF IInv, Shape
<1>3. frames # <<>>
  BY <1>2, EmptySeq
<1>4. /\ frames' \in Seq(SUBSET chart) /\ Len(frames') = Len(path)
      /\ \A i \in 1 .. Len(path) : frames'[i] = frames[i]
  BY <1>1, <1>2, <1>3, PopPath
<1>5. frames[Len(frames)] = {}
  BY <1>1 DEF Last
<1>6. NothingMissed'
  <2> SUFFICES ASSUME NEW S \in SUBSET chart, Waits(S, path, frames)
               PROVE  Waits(S, path', frames')
    BY <1>1 DEF NothingMissed, Completes, Open
  <2>1. PICK i \in 1 .. Len(frames) :
          (\A j \in 1 .. i - 1 : path[j] \in S) /\ frames[i] \cap S # {}
    BY DEF Waits
  <2>2. i # Len(frames)
    BY <1>5, <2>1
  <2>3. i \in 1 .. Len(frames') /\ frames'[i] \cap S # {}
    BY <1>2, <1>4, <2>1, <2>2
  <2>4. path # <<>>
    BY <1>2, <2>1, <2>2
  <2>5. path' = Front(path)
    BY <2>4 DEF SearchReturn
  <2>6. \A j \in 1 .. Len(path) - 1 : path'[j] = path[j]
    BY <1>2, <2>4, <2>5, PopPath
  <2>7. \A j \in 1 .. i - 1 : path'[j] \in S
    BY <1>2, <1>4, <2>1, <2>3, <2>6
  <2> QED  BY <2>3, <2>7 DEF Waits
<1>7. ASSUME phase' = "DECIDE" PROVE frames' = <<>>
  <2>1. path = <<>>
    BY <1>7 DEF SearchReturn
  <2> QED  BY <1>4, <2>1, EmptySeq
<1> QED  BY <1>1, <1>6, <1>7 DEF Found

LEMMA InitExact == Init => ExactInv
BY DEF Init, ExactInv, Searching

LEMMA NextExact == ExactInv /\ IInv /\ [Next]_vars => ExactInv'
<1> SUFFICES ASSUME ExactInv, IInv, [Next]_vars PROVE ExactInv'
  OBVIOUS
<1> USE DEF Searching
<1>1. CASE SearchLeaf
  <2>1. Found' /\ NothingMissed' /\ (phase' = "DECIDE" => frames' = <<>>)
    BY <1>1, LeafExact DEF ExactInv, SearchLeaf
  <2>2. remaining' = remaining /\ remaining # {} /\ phase' \in {"DECIDE", "BRANCH"}
    BY <1>1 DEF ExactInv, SearchLeaf, chartVars
  <2> QED  BY <2>1, <2>2 DEF ExactInv
<1>2. CASE SearchNode
  <2>1. Found' /\ NothingMissed'
    BY <1>2, NodeExact DEF ExactInv, SearchNode, uncovered
  <2>2. remaining' = remaining /\ remaining # {} /\ phase' = "BRANCH"
    BY <1>2 DEF ExactInv, SearchNode, chartVars
  <2> QED  BY <2>1, <2>2 DEF ExactInv
<1>3. CASE SearchBranch
  <2>1. Found' /\ NothingMissed'
    BY <1>3, BranchExact DEF ExactInv, SearchBranch
  <2>2. remaining' = remaining /\ remaining # {} /\ phase' = "ENTER"
    BY <1>3 DEF ExactInv, SearchBranch, chartVars
  <2> QED  BY <2>1, <2>2 DEF ExactInv
<1>4. CASE SearchReturn
  <2>1. Found' /\ NothingMissed' /\ (phase' = "DECIDE" => frames' = <<>>)
    BY <1>4, ReturnExact DEF ExactInv, SearchReturn
  <2>2. remaining' = remaining /\ remaining # {} /\ phase' \in {"DECIDE", "BRANCH"}
    BY <1>4 DEF ExactInv, SearchReturn, chartVars
  <2> QED  BY <2>1, <2>2 DEF ExactInv
<1>5. CASE DropRows
  <2>1. path = <<>> /\ frames = <<>> /\ best = {} /\ best_cost = INT_MAX
    BY <1>5 DEF DropRows, ExactInv, IInv, Shape
  <2>2. UNCHANGED <<path, frames, best_cost, essential>>
        /\ phase' \in {"ESSENTIAL", "DECIDE", "ENTER"}
    BY <1>5 DEF DropRows
  <2>3. /\ phase' # "ESSENTIAL" => remaining' = remaining
        /\ phase' = "DECIDE" => best' = essential /\ remaining = {}
        /\ phase' # "DECIDE" => best' = best
        /\ phase' = "ENTER" => remaining # {}
    BY <1>5 DEF DropRows
  <2>4. Len(path') = 0
    BY <2>1, <2>2, EmptySeq
  <2>5. phase' = "ENTER" => Found' /\ NothingMissed'
    BY <2>1, <2>2, <2>3, <2>4 DEF Found, NothingMissed, Open
  <2> QED  BY <2>1, <2>2, <2>3, <2>5 DEF ExactInv
<1>6. CASE Decide \/ UNCHANGED vars
  <2>1. /\ UNCHANGED <<chart, remaining, essential, path, frames, best, best_cost>>
        /\ \/ phase = "DECIDE" /\ phase' = "DONE"
           \/ phase' = phase
    BY <1>6 DEF Decide, vars, chartVars, searchVars
  <2>2. Found' <=> Found
    BY <2>1 DEF Found
  <2>3. NothingMissed => NothingMissed'
    BY <2>1 DEF NothingMissed, Completes, Open
  <2> QED  BY <2>1, <2>2, <2>3 DEF ExactInv
<1>7. CASE Combine \/ MakeChart \/ SelectEssential \/ DropUseless \/ DropColumns
  <2>1. /\ UNCHANGED <<best, best_cost>>
        /\ phase \notin Searching \cup {"DECIDE", "DONE"}
        /\ phase' \notin Searching \cup {"DECIDE", "DONE"}
    BY <1>7 DEF Combine, MakeChart, SelectEssential, DropUseless, DropColumns, searchVars
  <2> QED  BY <2>1 DEF ExactInv
<1> QED
  BY <1>1, <1>2, <1>3, <1>4, <1>5, <1>6, <1>7 DEF Next, Terminated

(* A cover needs no more columns than there are rows, so that one that     *)
(* exists costs less than INT_MAX, and is found.                           *)
LEMMA CheapCover ==
  ASSUME IInv, RowsInv, NEW S0 \in SUBSET chart, Completes(S0)
  PROVE  \E S \in SUBSET chart : Completes(S) /\ sop_cost(S \cup essential) < INT_MAX
<1> DEFINE T == {S \in SUBSET S0 : Completes(S)}
<1>1. IsFiniteSet(S0) /\ T \in SUBSET SUBSET S0 /\ T # {}
  BY CostFinite DEF IInv, TypeOK
<1>2. PICK S \in T : \A R \in T : R \subseteq S => R = S
  <2> HIDE DEF T
  <2> QED  BY <1>1, MinimalSubset
<1>3. S \in SUBSET chart /\ Completes(S) /\ S \subseteq S0
  BY <1>2
<1>4. ASSUME NEW p \in S
      PROVE  \E m \in remaining : \A q \in S : covers(q, m) <=> q = p
  <2>1. ~Completes(S \ {p})
    BY <1>2
  <2>2. PICK m \in remaining : m \notin Function((S \ {p}) \cup essential)
    BY <2>1 DEF Completes
  <2>3. m \in Minterm /\ m \in Function(S \cup essential)
    BY <1>3 DEF Completes, IInv, TypeOK
  <2> QED  BY <2>2, <2>3 DEF Function, covered_minterms
<1> DEFINE row == [p \in S |-> CHOOSE m \in remaining : \A q \in S : covers(q, m) <=> q = p]
<1>5. \A p \in S : row[p] \in remaining /\ \A q \in S : covers(q, row[p]) <=> q = p
  BY <1>4
<1>6. row \in Injection(S, remaining)
  <2>1. row \in [S -> remaining]
    BY <1>5
  <2>2. ASSUME NEW p \in S, NEW q \in S, row[p] = row[q] PROVE p = q
    <3> HIDE DEF row
    <3> QED  BY <1>5, <2>2
  <2> HIDE DEF row
  <2> QED  BY <2>1, <2>2, Zenon DEF Injection, IsInjective
<1>7. /\ IsFiniteSet(S) /\ IsFiniteSet(essential) /\ S \cup essential \in SUBSET Cube
      /\ IsFiniteSet(remaining)
  BY <1>3, CostFinite, MintermFinite DEF IInv, TypeOK
<1>8. Cardinality(S) <= Cardinality(remaining)
  <2> HIDE DEF row
  <2> QED  BY <1>6, <1>7, FS_Injection
<1>9. /\ Cardinality(S \cup essential)
           = Cardinality(S) + Cardinality(essential) - Cardinality(S \cap essential)
      /\ Cardinality(S) \in Nat /\ Cardinality(essential) \in Nat
      /\ Cardinality(S \cap essential) \in Nat /\ Cardinality(remaining) \in Nat
      /\ Cardinality(S \cup essential) \in Nat /\ Cardinality(Minterm) \in Nat
  BY <1>7, FS_Union, FS_Intersection, FS_CardinalityType, MintermFinite
<1>10. Cardinality(S \cup essential) <= Cardinality(Minterm)
  BY <1>8, <1>9 DEF RowsInv
<1>11. (64 + NumVars) * Cardinality(S \cup essential)
         <= (64 + NumVars) * Cardinality(Minterm)
  <2> DEFINE k == 64 + NumVars
             a == Cardinality(S \cup essential)
             b == Cardinality(Minterm)
  <2>1. k \in Nat /\ a \in Nat /\ b \in Nat /\ a <= b
    BY <1>9, <1>10, NumVarsAssumption
  <2> HIDE DEF k, a, b
  <2>2. k * a <= k * b
    BY <2>1
  <2> QED  BY <2>2 DEF k, a, b
<1>12. sop_cost(S \cup essential) <= (64 + NumVars) * Cardinality(S \cup essential)
  BY <1>7, CostBound
<1>13. sop_cost(S \cup essential) < INT_MAX
  <2> DEFINE x == sop_cost(S \cup essential)
             y == (64 + NumVars) * Cardinality(S \cup essential)
             z == (64 + NumVars) * Cardinality(Minterm)
  <2>1. x \in Nat /\ y \in Nat /\ z \in Nat /\ INT_MAX \in Nat
    BY <1>7, <1>9, CostType, NumVarsAssumption DEF INT_MAX
  <2>2. x <= y /\ y <= z /\ z < INT_MAX
    BY <1>11, <1>12, CostAssumption
  <2> HIDE DEF x, y, z
  <2>3. x < INT_MAX
    BY <2>1, <2>2
  <2> QED  BY <2>3 DEF x
<1> QED  BY <1>3, <1>13

\* All that is known of every reachable state.
WholeInv == IInv /\ LevelInv /\ RowsInv /\ ExactInv

THEOREM WholeInvariance == Spec => []WholeInv
BY InitRows, NextRows, InitExact, NextExact, LevelInvariance, Invariance, PTL
   DEF Spec, WholeInv

\* Where the search ended, a cover that exists was found, and is the cheapest.
LEMMA SearchEnds ==
  ASSUME WholeInv, phase = "DONE", remaining # {},
         NEW S \in SUBSET chart, Completes(S)
  PROVE  /\ essential \subseteq best /\ best \subseteq chart \cup essential
         /\ remaining \subseteq Function(best)
         /\ sop_cost(best) <= sop_cost(S \cup essential)
<1>1. Found /\ NothingMissed /\ frames = <<>>
  BY DEF WholeInv, ExactInv
<1>2. \A R : ~Open(R)
  <2>1. Len(frames) = 0
    BY <1>1, EmptySeq
  <2> QED  BY <2>1 DEF Open, Waits
<1>3. best_cost \in Nat /\ INT_MAX \in Nat
      /\ \A R \in SUBSET chart : sop_cost(R \cup essential) \in Nat
  BY SearchCosts DEF WholeInv, INT_MAX
<1>4. best_cost < INT_MAX
  <2>1. PICK R \in SUBSET chart : Completes(R) /\ sop_cost(R \cup essential) < INT_MAX
    BY CheapCover DEF WholeInv
  <2>2. best_cost <= sop_cost(R \cup essential)
    BY <1>1, <1>2, <2>1 DEF NothingMissed
  <2> QED  BY <1>3, <2>1, <2>2
<1>5. best_cost <= sop_cost(S \cup essential)
  BY <1>1, <1>2 DEF NothingMissed
<1> QED  BY <1>1, <1>3, <1>4, <1>5 DEF Found

(* The branch and bound is exact: of the rows and columns it is given it   *)
(* finds a cheapest cover if there is a cover, and none if there is none.  *)
THEOREM SearchIsAlwaysExact == Spec => []SearchIsExact
<1>1. WholeInv => SearchIsExact
  <2> SUFFICES ASSUME WholeInv, phase = "DONE" PROVE SearchIsExact
    BY DEF SearchIsExact, SearchComplete, SearchMinimal
  <2>1. SearchComplete
    <3> SUFFICES ASSUME remaining # {}
                 PROVE  IF remaining \subseteq Function(chart \cup essential)
                        THEN remaining \subseteq Function(best) ELSE best = {}
      BY DEF SearchComplete
    <3>1. CASE remaining \subseteq Function(chart \cup essential)
      <4>1. Completes(chart)
        BY <3>1 DEF Completes
      <4> QED  BY <3>1, <4>1, SearchEnds
    <3>2. CASE ~(remaining \subseteq Function(chart \cup essential))
      <4>1. Found
        BY DEF WholeInv, ExactInv
      <4>2. \A R \in SUBSET (chart \cup essential) : ~(remaining \subseteq Function(R))
        BY <3>2 DEF Function, covered_minterms
      <4> QED  BY <3>2, <4>1, <4>2 DEF Found
    <3> QED  BY <3>1, <3>2
  <2>2. SearchMinimal
    <3> SUFFICES ASSUME NEW S \in SUBSET chart, Completes(S)
                 PROVE  sop_cost(best) <= sop_cost(S \cup essential)
      BY DEF SearchMinimal, Completes
    <3>1. CASE remaining = {}
      <4>1. best = essential /\ S \cup essential \in SUBSET Cube
        BY <3>1, SearchCosts DEF WholeInv, ExactInv
      <4> QED  BY <4>1, CostMonotone
    <3>2. CASE remaining # {}
      BY <3>2, SearchEnds
    <3> QED  BY <3>1, <3>2
  <2> QED  BY <2>1, <2>2 DEF SearchIsExact
<1> QED  BY <1>1, WholeInvariance, PTL

-----------------------------------------------------------------------------
(* Without twins the simplification of the chart loses nothing.            *)

rows_of(p) == cube_cover_set(p, remaining)

(* Unless two columns are alike, a column that is removed is dominated by  *)
(* one that stays: of the fewest literals, and of those with most rows.    *)
LEMMA Undominated ==
  ASSUME IInv, ~columns_alike, NEW p \in chart
  PROVE  \E q \in chart \ dominated_columns :
            rows_of(p) \subseteq rows_of(q) /\ literal_count(q) <= literal_count(p)
<1> DEFINE Above == {q \in chart : rows_of(p) \subseteq rows_of(q)
                                     /\ literal_count(q) <= literal_count(p)}
           counts == {n \in Nat : \E q \in Above : literal_count(q) = n}
<1>1. \A q \in chart : literal_count(q) \in Nat
  BY CostSingle DEF IInv, TypeOK
<1>2. PICK n \in counts : \A k \in counts : n <= k
  <2>1. literal_count(p) \in counts /\ counts \in SUBSET Nat
    BY <1>1
  <2> HIDE DEF counts
  <2> QED  BY <2>1, LeastNatural
<1> DEFINE Least == {q \in Above : literal_count(q) = n}
           T == {remaining \ rows_of(q) : q \in Least}
<1>3. PICK X \in T : \A Y \in T : Y \subseteq X => Y = X
  <2>1. T \in SUBSET SUBSET remaining /\ T # {}
    BY <1>2
  <2>2. IsFiniteSet(remaining)
    BY MintermFinite DEF IInv, TypeOK
  <2> HIDE DEF T
  <2> QED  BY <2>1, <2>2, MinimalSubset
<1>4. PICK q \in Least : X = remaining \ rows_of(q)
  BY <1>3
<1>5. q \in Above /\ literal_count(q) = n
  BY <1>4
<1>6. q \notin dominated_columns
  <2> SUFFICES ASSUME NEW i \in chart \ {q}, rows_of(q) \subseteq rows_of(i),
                      literal_count(i) <= literal_count(q)
               PROVE  FALSE
    BY DEF dominated_columns, rows_of
  <2>1. literal_count(p) \in Nat /\ literal_count(q) \in Nat /\ literal_count(i) \in Nat
    BY <1>1, <1>5
  <2>2. rows_of(p) \subseteq rows_of(i) /\ literal_count(i) <= literal_count(p)
    BY <1>5, <2>1
  <2>3. i \in Above
    BY <2>2
  <2>4. literal_count(i) \in counts
    BY <2>1, <2>3
  <2>5. literal_count(i) = n
    BY <1>2, <1>5, <2>1, <2>4
  <2>6. remaining \ rows_of(i) \in T /\ remaining \ rows_of(i) \subseteq X
    BY <1>4, <2>3, <2>5
  <2>7. remaining \ rows_of(i) = remaining \ rows_of(q)
    <3> HIDE DEF T
    <3> QED  BY <1>3, <1>4, <2>6
  <2>8. rows_of(i) = rows_of(q)
    <3>1. rows_of(i) \subseteq remaining /\ rows_of(q) \subseteq remaining
      BY DEF rows_of, cube_cover_set
    <3> QED  BY <2>7, <3>1
  <2>9. i # q /\ i \in chart /\ q \in chart
    BY <1>5
  <2> QED  BY <1>5, <2>5, <2>8, <2>9 DEF columns_alike, rows_of
<1> QED  BY <1>5, <1>6

(* So every cover is as cheap with columns that stay: a cover that has the *)
(* fewest removed columns has none.                                        *)
LEMMA ColumnsKeep ==
  ASSUME IInv, ~columns_alike, NEW S0 \in SUBSET chart, Completes(S0)
  PROVE  \E S \in SUBSET (chart \ dominated_columns) :
            Completes(S) /\ sop_cost(S \cup essential) <= sop_cost(S0 \cup essential)
<1> DEFINE Good == {S \in SUBSET chart : Completes(S)
                      /\ sop_cost(S \cup essential) <= sop_cost(S0 \cup essential)}
           T == {S \cap dominated_columns : S \in Good}
<1>1. \A S \in SUBSET chart : /\ S \cup essential \in SUBSET Cube
                              /\ sop_cost(S \cup essential) \in Nat
  BY SearchCosts
<1>2. PICK X \in T : \A Y \in T : Y \subseteq X => Y = X
  <2>1. S0 \in Good
    BY <1>1
  <2>2. T \in SUBSET SUBSET chart /\ T # {}
    BY <2>1
  <2>3. IsFiniteSet(chart)
    BY CostFinite DEF IInv, TypeOK
  <2> HIDE DEF T
  <2> QED  BY <2>2, <2>3, MinimalSubset
<1>3. PICK S \in Good : X = S \cap dominated_columns
  BY <1>2
<1>4. /\ S \in SUBSET chart /\ Completes(S)
      /\ sop_cost(S \cup essential) <= sop_cost(S0 \cup essential)
  BY <1>3
<1>5. ASSUME NEW p \in X PROVE FALSE
  <2>1. p \in S /\ p \in chart /\ p \in dominated_columns
    BY <1>3, <1>4, <1>5
  <2>2. PICK q \in chart \ dominated_columns :
          rows_of(p) \subseteq rows_of(q) /\ literal_count(q) <= literal_count(p)
    BY <2>1, Undominated
  <2> DEFINE R == IF p \in essential THEN S \ {p} ELSE (S \ {p}) \cup {q}
  <2>3. R \in SUBSET chart
    BY <1>4
  <2>4. Completes(R) /\ sop_cost(R \cup essential) <= sop_cost(S \cup essential)
    <3>1. CASE p \in essential
      <4>1. R \cup essential = S \cup essential
        BY <3>1
      <4>2. sop_cost(S \cup essential) <= sop_cost(S \cup essential)
        BY <1>1, <1>4
      <4>3. remaining \subseteq Function(S \cup essential)
        BY <1>4 DEF Completes
      <4> HIDE DEF R
      <4> QED  BY <4>1, <4>2, <4>3 DEF Completes
    <3>2. CASE p \notin essential
      <4>1. R \cup essential = ((S \cup essential) \ {p}) \cup {q}
        BY <3>2
      <4>2. q \in Cube
        BY DEF IInv, TypeOK
      <4>3. sop_cost(R \cup essential) <= sop_cost(S \cup essential)
        BY <1>1, <1>4, <2>1, <2>2, <4>1, <4>2, CostReplace
      <4>4. ASSUME NEW m \in remaining PROVE m \in Function(R \cup essential)
        <5>1. PICK c \in S \cup essential : covers(c, m) /\ m \in Minterm
          BY <1>4 DEF Completes, Function, covered_minterms
        <5>2. c = p => covers(q, m)
          BY <2>2, <5>1 DEF rows_of, cube_cover_set
        <5>3. \E d \in R \cup essential : covers(d, m)
          BY <4>1, <5>1, <5>2
        <5> QED  BY <5>1, <5>3 DEF Function, covered_minterms
      <4> QED  BY <4>3, <4>4 DEF Completes
    <3> QED  BY <3>1, <3>2
  <2>5. R \in Good
    <3>1. /\ sop_cost(R \cup essential) \in Nat /\ sop_cost(S \cup essential) \in Nat
          /\ sop_cost(S0 \cup essential) \in Nat
      BY <1>1, <1>4, <2>3
    <3>2. sop_cost(R \cup essential) <= sop_cost(S0 \cup essential)
      BY <1>4, <2>4, <3>1
    <3> HIDE DEF R
    <3> QED  BY <2>3, <2>4, <3>2
  <2>6. R \cap dominated_columns = X \ {p}
    BY <1>3, <2>2
  <2>7. X \ {p} \in T
    <3> HIDE DEF R, Good
    <3> QED  BY <2>5, <2>6
  <2> HIDE DEF T
  <2> QED  BY <1>2, <1>5, <2>7
<1>6. S \in SUBSET (chart \ dominated_columns)
  BY <1>3, <1>4, <1>5
<1> QED  BY <1>4, <1>6

(* Unless two rows are alike, a row that is removed is covered by all that *)
(* cover some row that stays.                                              *)
LEMMA RowsKeep ==
  ASSUME IInv, RowsInv, ~rows_alike, NEW S \in SUBSET chart,
         remaining \ dominated_rows \subseteq Function(S \cup essential)
  PROVE  Completes(S)
<1> SUFFICES ASSUME NEW m \in remaining PROVE m \in Function(S \cup essential)
  BY DEF Completes
<1> DEFINE T == {columns(k) : k \in {j \in remaining : columns(j) \subseteq columns(m)}}
<1>1. PICK X \in T : \A Y \in T : Y \subseteq X => Y = X
  <2>1. T \in SUBSET SUBSET chart /\ T # {}
    BY DEF columns
  <2>2. IsFiniteSet(chart)
    BY CostFinite DEF IInv, TypeOK
  <2> HIDE DEF T
  <2> QED  BY <2>1, <2>2, MinimalSubset
<1>2. PICK k \in remaining : columns(k) \subseteq columns(m) /\ X = columns(k)
  BY <1>1
<1>3. k \notin dominated_rows
  <2> SUFFICES ASSUME NEW i \in remaining \ {k}, columns(i) \subseteq columns(k)
               PROVE  FALSE
    BY DEF dominated_rows
  <2>1. columns(i) \in T
    BY <1>2
  <2>2. columns(i) = columns(k)
    <3> HIDE DEF T
    <3> QED  BY <1>1, <1>2, <2>1
  <2> QED  BY <2>2 DEF rows_alike
<1>4. PICK p \in S \cup essential : covers(p, k)
  BY <1>2, <1>3 DEF Function, covered_minterms
<1>5. p \in S
  BY <1>2, <1>4 DEF RowsInv
<1>6. covers(p, m)
  BY <1>2, <1>4, <1>5 DEF columns
<1>7. m \in Minterm
  BY DEF IInv, TypeOK
<1> QED  BY <1>5, <1>6, <1>7 DEF Function, covered_minterms

\* From the start of the simplification on, the chart still has a completion
\* as cheap as any cover of the on-set, and all its completions are covers.
KeptInv ==
  phase # "GENERATE" =>
    /\ \A other \in SUBSET primes : on \subseteq Function(other) =>
         \E S \in SUBSET chart : Completes(S)
                                 /\ sop_cost(S \cup essential) <= sop_cost(other)
    /\ \A S \in SUBSET chart : Completes(S) => on \subseteq Function(S \cup essential)

LEMMA InitKept == Init => KeptInv
<1> SUFFICES ASSUME Init, phase # "GENERATE" PROVE KeptInv
  BY DEF KeptInv
<1>1. on = {} /\ primes = {} /\ chart = {} /\ remaining = {} /\ essential = {}
  BY DEF Init
<1>2. Completes({}) /\ sop_cost({}) <= sop_cost({})
  BY <1>1, CostEmpty DEF Completes
<1> QED  BY <1>1, <1>2 DEF KeptInv

(* The row that one column alone covers needs that column.                 *)
LEMMA SelectKeeps ==
  ASSUME IInv, RowsInv, KeptInv, SelectEssential
  PROVE  KeptInv'
<1> DEFINE rows == {m \in remaining : Cardinality(columns(m)) = 1}
<1>1. PICK m \in First(rows) : \E only \in columns(m) :
        /\ essential' = essential \cup {only}
        /\ remaining' = remaining \ cube_cover_set(only, remaining)
  BY DEF SelectEssential
<1>2. PICK only \in columns(m) :
        /\ essential' = essential \cup {only}
        /\ remaining' = remaining \ cube_cover_set(only, remaining)
  BY <1>1
<1>3. UNCHANGED <<on, primes, chart>> /\ phase # "GENERATE"
  BY DEF SelectEssential
<1>4. m \in remaining /\ Cardinality(columns(m)) = 1 /\ remaining \subseteq Minterm
  BY <1>1 DEF First, IInv, TypeOK
<1>5. columns(m) = {only} /\ only \in chart
  <2>1. columns(m) \subseteq chart /\ IsFiniteSet(chart)
    BY CostFinite DEF columns, IInv, TypeOK
  <2>2. IsFiniteSet(columns(m))
    BY <2>1, FS_Subset
  <2>3. PICK p : columns(m) = {p}
    BY <1>4, <2>2, FS_Singleton
  <2> QED  BY <1>2, <2>1, <2>3
<1>6. \A S : S \cup essential' = (S \cup {only}) \cup essential
  BY <1>2
<1>7. ASSUME NEW S \in SUBSET chart, Completes(S)
      PROVE  S \cup essential' = S \cup essential /\ Completes(S)'
  <2>1. PICK p \in S \cup essential : covers(p, m)
    BY <1>4, <1>7 DEF Completes, Function, covered_minterms
  <2>2. p \in columns(m)
    BY <1>4, <1>7, <2>1 DEF RowsInv, columns
  <2>3. only \in S
    BY <1>4, <1>5, <2>1, <2>2 DEF RowsInv
  <2>4. S \cup essential' = S \cup essential
    BY <1>2, <2>3
  <2> QED  BY <1>2, <1>7, <2>4 DEF Completes
<1>8. ASSUME NEW S \in SUBSET chart, Completes(S)'
      PROVE  on \subseteq Function(S \cup essential')
  <2>1. remaining' \subseteq Function((S \cup {only}) \cup essential)
    BY <1>6, <1>8 DEF Completes
  <2>2. cube_cover_set(only, remaining) \subseteq Function((S \cup {only}) \cup essential)
    BY <1>4 DEF cube_cover_set, Function, covered_minterms
  <2>3. Completes(S \cup {only})
    BY <1>2, <2>1, <2>2 DEF Completes
  <2>4. S \cup {only} \in SUBSET chart
    BY <1>5
  <2> QED  BY <1>3, <1>6, <2>3, <2>4 DEF KeptInv
<1>9. ASSUME NEW other \in SUBSET primes, on \subseteq Function(other)
      PROVE  \E S \in SUBSET chart : Completes(S)'
                /\ sop_cost(S \cup essential') <= sop_cost(other)
  <2>1. PICK S \in SUBSET chart : Completes(S)
                                  /\ sop_cost(S \cup essential) <= sop_cost(other)
    BY <1>3, <1>9 DEF KeptInv
  <2> QED  BY <1>7, <2>1
<1> QED  BY <1>3, <1>8, <1>9 DEF KeptInv

(* Columns that cover no row are in no cheapest completion.                *)
LEMMA UselessKeeps ==
  ASSUME IInv, KeptInv, DropUseless
  PROVE  KeptInv'
<1>1. /\ UNCHANGED <<on, primes, remaining, essential>> /\ phase # "GENERATE"
      /\ chart' = {p \in chart : cube_cover_set(p, remaining) # {}}
  BY DEF DropUseless
<1>2. \A S : Completes(S)' <=> Completes(S)
  BY <1>1 DEF Completes
<1>3. ASSUME NEW S \in SUBSET chart, Completes(S)
      PROVE  /\ Completes(S \cap chart')
             /\ sop_cost((S \cap chart') \cup essential) <= sop_cost(S \cup essential)
  <2>1. (S \cap chart') \cup essential \subseteq S \cup essential
    OBVIOUS
  <2>2. S \cup essential \in SUBSET Cube
    BY SearchCosts
  <2>3. ASSUME NEW m \in remaining PROVE m \in Function((S \cap chart') \cup essential)
    <3>1. PICK p \in S \cup essential : covers(p, m) /\ m \in Minterm
      BY <1>3 DEF Completes, Function, covered_minterms
    <3>2. m \in cube_cover_set(p, remaining)
      BY <3>1 DEF cube_cover_set
    <3>3. p \in (S \cap chart') \cup essential
      BY <1>1, <3>1, <3>2
    <3> QED  BY <3>1, <3>3 DEF Function, covered_minterms
  <2> QED  BY <2>1, <2>2, <2>3, CostMonotone DEF Completes
<1>4. ASSUME NEW other \in SUBSET primes, on \subseteq Function(other)
      PROVE  \E S \in SUBSET chart' : Completes(S)
                /\ sop_cost(S \cup essential) <= sop_cost(other)
  <2>1. PICK S \in SUBSET chart : Completes(S)
                                  /\ sop_cost(S \cup essential) <= sop_cost(other)
    BY <1>1, <1>4 DEF KeptInv
  <2>2. /\ Completes(S \cap chart') /\ S \cap chart' \in SUBSET chart'
        /\ sop_cost((S \cap chart') \cup essential) <= sop_cost(S \cup essential)
    BY <1>3, <2>1
  <2>3. /\ sop_cost((S \cap chart') \cup essential) \in Nat
        /\ sop_cost(S \cup essential) \in Nat /\ sop_cost(other) \in Nat
    BY SearchCosts, CostType DEF IInv, TypeOK
  <2>4. sop_cost((S \cap chart') \cup essential) <= sop_cost(other)
    <3> DEFINE x == sop_cost((S \cap chart') \cup essential)
               y == sop_cost(S \cup essential)
               z == sop_cost(other)
    <3>1. x \in Nat /\ y \in Nat /\ z \in Nat /\ x <= y /\ y <= z
      BY <2>1, <2>2, <2>3
    <3> HIDE DEF x, y, z
    <3>2. x <= z
      BY <3>1
    <3> QED  BY <3>2 DEF x, z
  <2> QED  BY <2>2, <2>4
<1>5. chart' \subseteq chart
  BY <1>1
<1> QED  BY <1>1, <1>2, <1>4, <1>5 DEF KeptInv

(* Without twins, dominated columns are not needed.                        *)
LEMMA ColumnsKept ==
  ASSUME IInv, KeptInv, NoTwins, DropColumns
  PROVE  KeptInv'
<1>1. /\ UNCHANGED <<on, primes, remaining, essential>> /\ phase # "GENERATE"
      /\ chart' = chart \ dominated_columns /\ ~columns_alike
  BY DEF DropColumns, NoTwins
<1>2. \A S : Completes(S)' <=> Completes(S)
  BY <1>1 DEF Completes
<1>3. ASSUME NEW other \in SUBSET primes, on \subseteq Function(other)
      PROVE  \E S \in SUBSET chart' : Completes(S)
                /\ sop_cost(S \cup essential) <= sop_cost(other)
  <2>1. PICK S0 \in SUBSET chart : Completes(S0)
                                   /\ sop_cost(S0 \cup essential) <= sop_cost(other)
    BY <1>1, <1>3 DEF KeptInv
  <2>2. PICK S \in SUBSET (chart \ dominated_columns) :
          Completes(S) /\ sop_cost(S \cup essential) <= sop_cost(S0 \cup essential)
    BY <1>1, <2>1, ColumnsKeep
  <2>3. /\ sop_cost(S \cup essential) \in Nat /\ sop_cost(S0 \cup essential) \in Nat
        /\ sop_cost(other) \in Nat
    BY SearchCosts, CostType DEF IInv, TypeOK
  <2>4. sop_cost(S \cup essential) <= sop_cost(other)
    BY <2>1, <2>2, <2>3
  <2> QED  BY <1>1, <2>2, <2>4
<1> QED  BY <1>1, <1>2, <1>3 DEF KeptInv

LEMMA NextKept == KeptInv /\ IInv /\ RowsInv /\ NoTwins /\ [Next]_vars => KeptInv'
<1> SUFFICES ASSUME KeptInv, IInv, RowsInv, NoTwins, [Next]_vars PROVE KeptInv'
  OBVIOUS
<1>1. CASE MakeChart
  <2>1. /\ UNCHANGED <<on, primes>> /\ chart' = primes /\ remaining' = on
        /\ essential' = {}
    BY <1>1 DEF MakeChart, RowsInv
  <2>2. \A S : Completes(S)' <=> on \subseteq Function(S)
    BY <2>1 DEF Completes
  <2>3. \A S \in SUBSET primes : S \cup essential' = S /\ sop_cost(S) <= sop_cost(S)
    BY <2>1, CostType DEF IInv, TypeOK
  <2> QED  BY <2>1, <2>2, <2>3 DEF KeptInv
<1>2. CASE SelectEssential
  BY <1>2, SelectKeeps
<1>3. CASE DropUseless
  BY <1>3, UselessKeeps
<1>4. CASE DropColumns
  BY <1>4, ColumnsKept
<1>5. CASE DropRows
  <2>1. /\ UNCHANGED <<on, primes, chart, essential>> /\ phase # "GENERATE"
        /\ remaining' = remaining \ dominated_rows /\ ~rows_alike
    BY <1>5 DEF DropRows, NoTwins
  <2>2. \A S : Completes(S) => Completes(S)'
    BY <2>1 DEF Completes
  <2>3. \A S \in SUBSET chart : Completes(S)' => Completes(S)
    BY <2>1, RowsKeep DEF Completes
  <2> QED  BY <2>1, <2>2, <2>3 DEF KeptInv
<1>6. CASE ~MakeChart /\ ~SelectEssential /\ ~DropUseless /\ ~DropColumns /\ ~DropRows
  <2>1. /\ phase # "GENERATE" => UNCHANGED <<on, primes, chart, remaining, essential>>
        /\ phase' # "GENERATE" => phase # "GENERATE"
    BY <1>6 DEF Next, Combine, SearchLeaf, SearchNode, SearchBranch, SearchReturn,
                Decide, Terminated, vars, chartVars
  <2>2. phase # "GENERATE" => \A S : Completes(S)' <=> Completes(S)
    BY <2>1 DEF Completes
  <2> QED  BY <2>1, <2>2 DEF KeptInv
<1> QED  BY <1>1, <1>2, <1>3, <1>4, <1>5, <1>6

(* Every minterm of the on-set lies in some prime implicant.               *)
LEMMA PrimesCover ==
  ASSUME IInv, LevelInv, phase # "GENERATE"
  PROVE  on \subseteq Function(primes)
<1> SUFFICES ASSUME NEW m \in on PROVE m \in Function(primes)
  OBVIOUS
<1>1. m \in Minterm
  BY DEF IInv, TypeOK
<1> DEFINE T == {Vars \ c.dc : c \in {d \in Implicants : covers(d, m)}}
           one == [val |-> m, dc |-> {}]
<1>2. one \in Implicants /\ covers(one, m)
  BY <1>1 DEF Implicants, implicant, covers, Cube, Minterm
<1>3. PICK X \in T : \A Y \in T : Y \subseteq X => Y = X
  <2>1. T \in SUBSET SUBSET Vars /\ T # {}
    BY <1>2
  <2> HIDE DEF T
  <2> QED  BY <2>1, VarsFinite, MinimalSubset
<1>4. PICK c \in Implicants : covers(c, m) /\ X = Vars \ c.dc
  BY <1>3
<1>5. maximal(c)
  <2> SUFFICES ASSUME NEW d \in Implicants, inside(c, d) PROVE d = c
    BY DEF maximal
  <2>1. c \in Cube /\ d \in Cube
    BY DEF Implicants
  <2>2. c.dc \subseteq d.dc /\ c.val \ d.dc = d.val
    BY <2>1, InsideLiterals
  <2>3. Vars \ d.dc \in T
    BY <1>1, <1>4 DEF inside
  <2>4. Vars \ d.dc = Vars \ c.dc
    <3>1. Vars \ d.dc \subseteq X
      BY <1>4, <2>2
    <3> HIDE DEF T
    <3> QED  BY <1>3, <1>4, <2>3, <3>1
  <2>5. d.dc = c.dc
    BY <2>1, <2>4 DEF Cube
  <2> QED  BY <2>1, <2>2, <2>5 DEF Cube
<1>6. c \in primes
  BY <1>5 DEF LevelInv
<1> QED  BY <1>1, <1>4, <1>6 DEF Function, covered_minterms

(* Unless the pass meets twins, the cover it returns is a cheapest one of  *)
(* all covers by prime implicants.                                         *)
THEOREM ExactUnlessTwins == Spec => ExactWithoutTwins
<1>1. WholeInv /\ KeptInv => ResultIsExact
  <2> SUFFICES ASSUME WholeInv, KeptInv, phase = "DONE"
               PROVE  /\ on \subseteq Function(best)
                      /\ \A other \in SUBSET primes :
                           on \subseteq Function(other) => sop_cost(best) <= sop_cost(other)
    BY DEF ResultIsExact
  <2>1. \A other \in SUBSET primes : on \subseteq Function(other) =>
          \E S \in SUBSET chart : Completes(S)
                                  /\ sop_cost(S \cup essential) <= sop_cost(other)
    BY DEF KeptInv
  <2>2. \A S \in SUBSET chart : Completes(S) => on \subseteq Function(S \cup essential)
    BY DEF KeptInv
  <2>3. PICK S0 \in SUBSET chart : Completes(S0)
    BY <2>1, PrimesCover DEF WholeInv
  <2>4. /\ best \in SUBSET Cube /\ sop_cost(best) \in Nat
        /\ \A S \in SUBSET chart : S \cup essential \in SUBSET Cube
                                   /\ sop_cost(S \cup essential) \in Nat
        /\ \A other \in SUBSET primes : sop_cost(other) \in Nat
    BY SearchCosts, CostType DEF WholeInv, IInv, TypeOK
  <2>5. /\ on \subseteq Function(best)
        /\ \A S \in SUBSET chart : Completes(S) => sop_cost(best) <= sop_cost(S \cup essential)
    <3>1. CASE remaining = {}
      <4>1. best = essential
        BY <3>1 DEF WholeInv, ExactInv
      <4>2. Completes({}) /\ {} \cup essential = best
        BY <3>1, <4>1 DEF Completes
      <4>3. on \subseteq Function(best)
        BY <2>2, <4>2
      <4>4. \A S \in SUBSET chart : sop_cost(best) <= sop_cost(S \cup essential)
        BY <2>4, <4>1, CostMonotone
      <4> QED  BY <4>3, <4>4
    <3>2. CASE remaining # {}
      <4>1. /\ essential \subseteq best /\ best \subseteq chart \cup essential
            /\ remaining \subseteq Function(best)
        BY <2>3, <3>2, SearchEnds
      <4>2. best = (best \cap chart) \cup essential
        BY <4>1
      <4>3. Completes(best \cap chart)
        BY <4>1, <4>2 DEF Completes
      <4>4. on \subseteq Function(best)
        BY <2>2, <4>2, <4>3
      <4>5. \A S \in SUBSET chart : Completes(S) => sop_cost(best) <= sop_cost(S \cup essential)
        BY <3>2, SearchEnds
      <4> QED  BY <4>4, <4>5
    <3> QED  BY <3>1, <3>2
  <2>6. ASSUME NEW other \in SUBSET primes, on \subseteq Function(other)
        PROVE  sop_cost(best) <= sop_cost(other)
    <3>1. PICK S \in SUBSET chart : Completes(S)
                                    /\ sop_cost(S \cup essential) <= sop_cost(other)
      BY <2>1, <2>6
    <3>2. sop_cost(best) <= sop_cost(S \cup essential)
      BY <2>5, <3>1
    <3> QED  BY <2>4, <3>1, <3>2
  <2> QED  BY <2>5, <2>6
<1>2. Spec /\ []NoTwins => []KeptInv
  <2>1. Spec => []RowsInv
    BY WholeInvariance, PTL DEF WholeInv
  <2> QED  BY InitKept, NextKept, Invariance, <2>1, PTL DEF Spec
<1> QED  BY <1>1, <1>2, WholeInvariance, PTL DEF ExactWithoutTwins

=============================================================================
