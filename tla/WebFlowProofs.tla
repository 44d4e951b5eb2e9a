--------------------------- MODULE WebFlowProofs ----------------------------
(***************************************************************************)
(* Proofs about the page and the server (WebFlow), for any number of pages, *)
(* any profiles, and any runs the users want.  Three invariants build on    *)
(* each other:                                                              *)
(*   ApartInv   a run has a directory of its own, among those there are,    *)
(*   ShownInv   a page shows its last result in the open tab,               *)
(*   AnswerInv  a thread is on the way to the right answer: how far it is   *)
(*              says what its files and the first half of the answer are.   *)
(* What a script does is told from which of its words are algorithms, so    *)
(* the proof rests on a few facts about selecting from a sequence.          *)
(***************************************************************************)
EXTENDS WebFlow, FiniteSetsExt, SequenceTheorems, FiniteSetTheorems, NaturalsInduction, TLAPS

-----------------------------------------------------------------------------
(* Facts that stand in for induction: a proof by least counterexample takes *)
(* the least number, or a minimal set, for which the claim fails.           *)

(* A nonempty set of naturals has a least element.                         *)
LEMMA LeastNatural ==
  ASSUME NEW S \in SUBSET Nat, S # {}
  PROVE  \E n \in S : \A k \in S : n <= k
<1> DEFINE R == {p \in Nat \X Nat : p[1] < p[2]}
<1>1. PICK n \in S : \A k \in S : <<k, n>> \notin R
  <2>1. IsWellFoundedOn(R, Nat)
    BY NatLessThanWellFounded DEF OpToRel
  <2> HIDE DEF R
  <2> QED  BY <2>1, WFMin
<1>2. \A k \in S : ~(k < n)
  BY <1>1
<1> QED  BY <1>2

(* A nonempty family of subsets of a finite set has a minimal member.      *)
LEMMA MinimalSubset ==
  ASSUME NEW U, IsFiniteSet(U), NEW T \in SUBSET SUBSET U, T # {}
  PROVE  \E X \in T : \A Y \in T : Y \subseteq X => Y = X
<1>1. IsWellFoundedOn(StrictSubsetOrdering(U), SUBSET U)
  BY FS_StrictSubsetOrderingWellFounded, FS_FiniteSubsetsOfFinite
<1>2. PICK X \in T : \A Y \in T : <<Y, X>> \notin StrictSubsetOrdering(U)
  BY <1>1, WFMin
<1>3. X \in SUBSET U /\ \A Y \in T : Y \in SUBSET U
  OBVIOUS
<1>4. ASSUME NEW Y \in T, Y \subseteq X, Y # X PROVE FALSE
  BY <1>2, <1>3, <1>4 DEF StrictSubsetOrdering
<1> QED  BY <1>4

(* A nonempty finite set of integers has a greatest element.               *)
LEMMA MaxIsGreatest ==
  ASSUME NEW S, \A y \in S : y \in Int, IsFiniteSet(S), S # {}
  PROVE  Max(S) \in S /\ \A y \in S : Max(S) >= y
<1> DEFINE T == {X \in SUBSET S : X # {} /\ ~\E m \in X : \A y \in X : m >= y}
<1>1. T = {}
  <2> SUFFICES ASSUME T # {} PROVE FALSE
    OBVIOUS
  <2>1. PICK X \in T : \A Y \in T : Y \subseteq X => Y = X
    <3>1. T \in SUBSET SUBSET S /\ T # {} /\ IsFiniteSet(S)
      OBVIOUS
    <3> HIDE DEF T
    <3> QED  BY <3>1, MinimalSubset
  <2>2. PICK x \in X : TRUE
    BY <2>1
  <2>3. X \ {x} # {}
    BY <2>1, <2>2
  <2>4. X \ {x} \notin T
    BY <2>1, <2>2
  <2>5. PICK m \in X \ {x} : \A y \in X \ {x} : m >= y
    BY <2>1, <2>3, <2>4
  <2>6. x \in Int /\ \A y \in X : y \in Int
    BY <2>1
  <2>7. CASE x >= m
    BY <2>1, <2>2, <2>5, <2>6, <2>7
  <2>8. CASE ~(x >= m)
    BY <2>1, <2>2, <2>5, <2>6, <2>8
  <2> QED  BY <2>7, <2>8
<1>2. S \notin T
  BY <1>1
<1> QED  BY <1>2 DEF Max

-----------------------------------------------------------------------------
(* Selecting the elements of a sequence.                                   *)

\* The selection, element by element.
Selects(f, s, I, n) ==
  f = [i \in 0 .. n |-> IF i = 0 THEN <<>>
                        ELSE IF s[i] \in I THEN Append(f[i - 1], s[i]) ELSE f[i - 1]]

\* The selection is made step by step, from nothing to the whole sequence.
LEMMA OnlyRuns ==
  ASSUME NEW S, NEW s \in Seq(S), NEW I
  PROVE  \E f : /\ only(s, I) = f[Len(s)] /\ f[0] = <<>>
                /\ \A i \in 1 .. Len(s) : f[i] = IF s[i] \in I THEN Append(f[i - 1], s[i])
                                                 ELSE f[i - 1]
<1> DEFINE N == Len(s)
           T == {n \in Nat : ~\E f : Selects(f, s, I, n)}
<1>1. N \in Nat
  BY LenProperties
<1>2. T = {}
  <2> SUFFICES ASSUME T # {} PROVE FALSE
    OBVIOUS
  <2>1. PICK n \in T : \A m \in T : n <= m
    <3>1. T \in SUBSET Nat
      OBVIOUS
    <3> HIDE DEF T
    <3> QED  BY <3>1, LeastNatural
  <2>2. n \in Nat /\ ~\E f : Selects(f, s, I, n)
    BY <2>1
  <2>3. CASE n = 0
    <3> DEFINE f == [i \in 0 .. 0 |-> <<>>]
    <3>1. Selects(f, s, I, 0)
      <4>1. f = [i \in 0 .. 0 |-> IF i = 0 THEN <<>>
                        ELSE IF s[i] \in I THEN Append(f[i - 1], s[i]) ELSE f[i - 1]]
        OBVIOUS
      <4> HIDE DEF f
      <4> QED  BY <4>1 DEF Selects
    <3> QED  BY <2>2, <2>3, <3>1
  <2>4. CASE n # 0
    <3>1. n - 1 \in Nat /\ ~(n <= n - 1) /\ n \in 1 .. n
      BY <2>2, <2>4
    <3>2. PICK g : Selects(g, s, I, n - 1)
      BY <2>1, <3>1
    <3> DEFINE f == [i \in 0 .. n |-> IF i = n THEN IF s[n] \in I THEN Append(g[n - 1], s[n])
                                                    ELSE g[n - 1]
                                      ELSE g[i]]
               step(i) == IF i = 0 THEN <<>>
                          ELSE IF s[i] \in I THEN Append(f[i - 1], s[i]) ELSE f[i - 1]
    <3>3. ASSUME NEW i \in 0 .. n PROVE f[i] = step(i)
      <4>1. CASE i = n
        <5>1. n - 1 \in 0 .. n /\ n - 1 # n
          BY <3>1
        <5>2. f[n - 1] = g[n - 1]
          BY <5>1
        <5> QED  BY <2>4, <4>1, <5>2
      <4>2. CASE i # n /\ i # 0
        <5>1. i - 1 \in 0 .. n /\ i - 1 # n /\ i \in 0 .. n - 1
          BY <2>2, <4>2
        <5>2. f[i - 1] = g[i - 1] /\ f[i] = g[i]
          BY <4>2, <5>1
        <5>3. g[i] = IF s[i] \in I THEN Append(g[i - 1], s[i]) ELSE g[i - 1]
          BY <3>2, <4>2, <5>1 DEF Selects
        <5> HIDE DEF f
        <5> QED  BY <4>2, <5>2, <5>3
      <4>3. CASE i # n /\ i = 0
        <5>1. 0 \in 0 .. n - 1
          BY <3>1
        <5>2. g[0] = <<>>
          BY <3>2, <5>1 DEF Selects
        <5> QED  BY <4>3, <5>2
      <4> QED  BY <4>1, <4>2, <4>3
    <3>4. f = [i \in 0 .. n |-> step(i)]
      <4>1. f = [i \in 0 .. n |-> f[i]]
        OBVIOUS
      <4> HIDE DEF f, step
      <4> QED  BY <3>3, <4>1
    <3>5. Selects(f, s, I, n)
      <4> HIDE DEF f
      <4> QED  BY <3>4 DEF Selects
    <3> QED  BY <2>2, <3>5
  <2> QED  BY <2>3, <2>4
<1> DEFINE G == CHOOSE f : Selects(f, s, I, N)
<1>3. Selects(G, s, I, N)
  <2> HIDE DEF N
  <2> QED  BY <1>1, <1>2
<1>4. only(s, I) = G[N]
  BY DEF only, Selects
<1> HIDE DEF G
<1>5. /\ 0 \in 0 .. N /\ N \in 0 .. N
      /\ \A i \in 1 .. N : i \in 0 .. N /\ i # 0
  <2> HIDE DEF N
  <2> QED  BY <1>1
<1>6. G[0] = <<>> /\ \A i \in 1 .. N : G[i] = IF s[i] \in I THEN Append(G[i - 1], s[i])
                                              ELSE G[i - 1]
  <2> HIDE DEF N
  <2> QED  BY <1>3, <1>5 DEF Selects
<1> QED  BY <1>4, <1>6

\* What is selected are the elements in the set.
LEMMA OnlyRange ==
  ASSUME NEW S, NEW s \in Seq(S), NEW I
  PROVE  only(s, I) \in Seq(S) /\ Range(only(s, I)) = Range(s) \cap I
<1> DEFINE N == Len(s)
<1>1. N \in Nat /\ DOMAIN s = 1 .. N /\ \A i \in 1 .. N : s[i] \in S
  BY LenProperties, ElementOfSeq
<1>2. PICK f : /\ only(s, I) = f[N] /\ f[0] = <<>>
               /\ \A i \in 1 .. N : f[i] = IF s[i] \in I THEN Append(f[i - 1], s[i])
                                           ELSE f[i - 1]
  BY OnlyRuns
<1> HIDE DEF N
<1> DEFINE Good(i) == f[i] \in Seq(S) /\ Range(f[i]) = {s[j] : j \in 1 .. i} \cap I
           T == {i \in 0 .. N : ~Good(i)}
<1>3. T = {}
  <2> SUFFICES ASSUME T # {} PROVE FALSE
    OBVIOUS
  <2>1. PICK i \in T : \A m \in T : i <= m
    <3>1. T \in SUBSET Nat
      BY <1>1
    <3> HIDE DEF T
    <3> QED  BY <3>1, LeastNatural
  <2>2. i \in 0 .. N /\ ~Good(i)
    BY <2>1
  <2>3. CASE i = 0
    <3>1. <<>> \in Seq(S) /\ Range(<<>>) = {}
      BY DEF Range
    <3>2. {s[j] : j \in 1 .. 0} = {}
      OBVIOUS
    <3> QED  BY <1>2, <2>2, <2>3, <3>1, <3>2
  <2>4. CASE i # 0
    <3>1. i - 1 \in 0 .. N /\ ~(i <= i - 1) /\ i \in 1 .. N
      BY <1>1, <2>2, <2>4
    <3>2. Good(i - 1)
      <4>1. i - 1 \notin T
        <5> HIDE DEF T
        <5> QED  BY <2>1, <3>1
      <4> QED  BY <3>1, <4>1
    <3>3. {s[j] : j \in 1 .. i} = {s[j] : j \in 1 .. i - 1} \cup {s[i]}
      <4>1. 1 .. i = (1 .. i - 1) \cup {i}
        BY <3>1
      <4> QED  BY <4>1
    <3>4. CASE s[i] \in I
      <4> DEFINE g == f[i - 1]
                 h == Append(g, s[i])
      <4>1. f[i] = h /\ s[i] \in S /\ g \in Seq(S)
        BY <1>1, <1>2, <3>1, <3>2, <3>4
      <4> HIDE DEF g
      <4>2. /\ h \in Seq(S) /\ Len(h) = Len(g) + 1 /\ Len(g) \in Nat
            /\ \A j \in 1 .. Len(g) : h[j] = g[j]
            /\ h[Len(g) + 1] = s[i] /\ DOMAIN g = 1 .. Len(g) /\ DOMAIN h = 1 .. Len(h)
        BY <4>1, AppendProperties, LenProperties
      <4> HIDE DEF h
      <4>3. 1 .. Len(h) = (1 .. Len(g)) \cup {Len(g) + 1}
        BY <4>2
      <4>4. Range(h) = Range(g) \cup {s[i]}
        BY <4>2, <4>3 DEF Range
      <4>5. Range(f[i]) = {s[j] : j \in 1 .. i} \cap I
        BY <3>2, <3>3, <3>4, <4>1, <4>4 DEF g
      <4> QED  BY <2>2, <4>1, <4>2, <4>5
    <3>5. CASE s[i] \notin I
      <4>1. f[i] = f[i - 1]
        BY <1>2, <3>1, <3>5
      <4> QED  BY <2>2, <3>2, <3>3, <3>5, <4>1
    <3> QED  BY <3>4, <3>5
  <2> QED  BY <2>3, <2>4
<1>4. Good(N)
  <2>1. N \in 0 .. N
    BY <1>1
  <2> QED  BY <1>3, <2>1
<1>5. {s[j] : j \in 1 .. N} = Range(s)
  BY <1>1 DEF Range
<1> QED  BY <1>2, <1>4, <1>5

\* The elements in I are those behind the m-th and up to the n-th.
Middle(s, I, m, n) ==
  /\ m <= n /\ n <= Len(s)
  /\ \A i \in 1 .. Len(s) : s[i] \in I <=> m < i /\ i <= n

\* When just a middle part of a sequence is in the set, it is what is selected.
LEMMA OnlyMiddle ==
  ASSUME NEW S, NEW s \in Seq(S), NEW I, NEW m \in Nat, NEW n \in Nat,
         Middle(s, I, m, n)
  PROVE  /\ only(s, I) \in Seq(S) /\ Len(only(s, I)) = n - m
         /\ \A i \in 1 .. n - m : only(s, I)[i] = s[m + i]
<1> DEFINE N == Len(s)
<1>1. N \in Nat /\ \A i \in 1 .. N : s[i] \in S
  BY LenProperties, ElementOfSeq
<1>2. PICK f : /\ only(s, I) = f[N] /\ f[0] = <<>>
               /\ \A i \in 1 .. N : f[i] = IF s[i] \in I THEN Append(f[i - 1], s[i])
                                           ELSE f[i - 1]
  BY OnlyRuns
<1>3. m <= n /\ n <= N /\ \A i \in 1 .. N : s[i] \in I <=> m < i /\ i <= n
  BY DEF Middle
<1> HIDE DEF N
<1> DEFINE size(i) == IF i <= m THEN 0 ELSE IF i <= n THEN i - m ELSE n - m
           Good(i) == /\ f[i] \in Seq(S) /\ Len(f[i]) = size(i)
                      /\ \A j \in 1 .. size(i) : f[i][j] = s[m + j]
           T == {i \in 0 .. N : ~Good(i)}
<1>4. T = {}
  <2> SUFFICES ASSUME T # {} PROVE FALSE
    OBVIOUS
  <2>1. PICK i \in T : \A k \in T : i <= k
    <3>1. T \in SUBSET Nat
      BY <1>1
    <3> HIDE DEF T
    <3> QED  BY <3>1, LeastNatural
  <2>2. i \in 0 .. N /\ ~Good(i)
    BY <2>1
  <2>3. CASE i = 0
    <3>1. <<>> \in Seq(S) /\ Len(<<>>) = 0 /\ size(0) = 0
      OBVIOUS
    <3>2. 1 .. 0 = {}
      OBVIOUS
    <3> HIDE DEF size
    <3> QED  BY <1>2, <2>2, <2>3, <3>1, <3>2
  <2>4. CASE i # 0
    <3>1. i - 1 \in 0 .. N /\ ~(i <= i - 1) /\ i \in 1 .. N
      BY <1>1, <2>2, <2>4
    <3>2. Good(i - 1)
      <4>1. i - 1 \notin T
        <5> HIDE DEF T
        <5> QED  BY <2>1, <3>1
      <4> QED  BY <3>1, <4>1
    <3>3. CASE s[i] \in I
      <4> DEFINE g == f[i - 1]
                 h == Append(g, s[i])
      <4>1. f[i] = h /\ s[i] \in S /\ g \in Seq(S) /\ Len(g) = size(i - 1)
            /\ \A j \in 1 .. size(i - 1) : g[j] = s[m + j]
        <5> HIDE DEF size
        <5> QED  BY <1>1, <1>2, <3>1, <3>2, <3>3
      <4>2. /\ size(i - 1) = i - 1 - m /\ size(i) = i - m /\ i - 1 - m \in Nat
            /\ (i - 1 - m) + 1 = i - m /\ m + (i - m) = i
        <5>1. m < i /\ i <= n
          BY <1>3, <3>1, <3>3
        <5> QED  BY <3>1, <5>1
      <4> HIDE DEF g, size
      <4>3. /\ h \in Seq(S) /\ Len(h) = Len(g) + 1
            /\ \A j \in 1 .. Len(g) : h[j] = g[j]
            /\ h[Len(g) + 1] = s[i]
        BY <4>1, AppendProperties
      <4> HIDE DEF h
      <4>4. \A j \in 1 .. i - m : h[j] = s[m + j]
        <5> SUFFICES ASSUME NEW j \in 1 .. i - m PROVE h[j] = s[m + j]
          OBVIOUS
        <5>1. j \in 1 .. i - 1 - m \/ j = i - m
          BY <3>1, <4>2
        <5> QED  BY <4>1, <4>2, <4>3, <5>1
      <4> QED  BY <2>2, <4>1, <4>2, <4>3, <4>4
    <3>4. CASE s[i] \notin I
      <4>1. f[i] = f[i - 1]
        BY <1>2, <3>1, <3>4
      <4>2. size(i) = size(i - 1)
        <5>1. ~(m < i /\ i <= n)
          BY <1>3, <3>1, <3>4
        <5> QED  BY <1>3, <3>1, <5>1
      <4> HIDE DEF size
      <4> QED  BY <2>2, <3>2, <4>1, <4>2
    <3> QED  BY <3>3, <3>4
  <2> QED  BY <2>3, <2>4
<1>5. Good(N)
  <2>1. N \in 0 .. N
    BY <1>1
  <2> QED  BY <1>4, <2>1
<1>6. size(N) = n - m
  BY <1>1, <1>3
<1> HIDE DEF size
<1> QED  BY <1>2, <1>5, <1>6

-----------------------------------------------------------------------------
(* Scripts.                                                                *)

\* The words that scripts are made of.
Words == ALGORITHMS \cup Range(Reading) \cup Range(Writing)

\* What is run is a sequence of known algorithms, namely those that are
\* checked, and behind them some of the clean-up.
LEMMA CommandsShape ==
  ASSUME NEW q \in DOMAIN Profiles, NEW A
  PROVE  /\ algorithm_commands(q, A) \in Seq(ALGORITHMS)
         /\ algorithm_commands(q, A) \in Seq(Words)
<1> DEFINE ids == only(Profiles[q], A)
           tail == only(<<"dce", "cleanup">>, Range(ids))
<1>1. Profiles[q] \in Seq(STRING)
  BY ProfilesAssumption
<1>2. Range(Profiles[q]) \subseteq ALGORITHMS
  BY DEF ALGORITHMS
<1>3. Profiles[q] \in Seq(Range(Profiles[q]))
  <2>1. Profiles[q] \in [1 .. Len(Profiles[q]) -> STRING] /\ Len(Profiles[q]) \in Nat
        /\ DOMAIN Profiles[q] = 1 .. Len(Profiles[q])
    BY <1>1, LenProperties
  <2>2. Profiles[q] \in [1 .. Len(Profiles[q]) -> Range(Profiles[q])]
    BY <2>1 DEF Range
  <2> QED  BY <2>1, <2>2, SeqDef
<1>4. Profiles[q] \in Seq(ALGORITHMS)
  BY <1>2, <1>3, SeqMonotonic
<1>5. ids \in Seq(ALGORITHMS)
  BY <1>4, OnlyRange
<1>6. <<"dce", "cleanup">> \in Seq({"dce", "cleanup"})
  OBVIOUS
<1>7. tail \in Seq({"dce", "cleanup"}) /\ Range(tail) = Range(<<"dce", "cleanup">>) \cap Range(ids)
  <2> DEFINE I == Range(ids)
  <2> HIDE DEF I
  <2>1. /\ only(<<"dce", "cleanup">>, I) \in Seq({"dce", "cleanup"})
        /\ Range(only(<<"dce", "cleanup">>, I)) = Range(<<"dce", "cleanup">>) \cap I
    BY <1>6, OnlyRange
  <2> QED  BY <2>1 DEF I
<1>8. Range(ids) \subseteq ALGORITHMS
  <2>1. DOMAIN ids = 1 .. Len(ids)
    BY <1>5, LenProperties
  <2> HIDE DEF ids
  <2> QED  BY <1>5, <2>1, ElementOfSeq DEF Range
<1>9. tail \in Seq(ALGORITHMS)
  <2>1. tail \in [1 .. Len(tail) -> {"dce", "cleanup"}] /\ Len(tail) \in Nat
        /\ DOMAIN tail = 1 .. Len(tail)
    BY <1>7, LenProperties
  <2>2. \A i \in 1 .. Len(tail) : tail[i] \in Range(tail)
    <3> HIDE DEF tail
    <3> QED  BY <2>1 DEF Range
  <2>3. Range(tail) \subseteq ALGORITHMS
    BY <1>7, <1>8
  <2> HIDE DEF tail, ids
  <2>4. tail \in [1 .. Len(tail) -> ALGORITHMS]
    BY <2>1, <2>2, <2>3
  <2> QED  BY <2>1, <2>4, SeqDef
<1> DEFINE more == IF Range(ids) \cap Rewriting = {} THEN <<>> ELSE tail
<1>10. algorithm_commands(q, A) = ids \o more
  BY DEF algorithm_commands, normalize_algorithm_ids
<1>11. more \in Seq(ALGORITHMS)
  <2> HIDE DEF tail, ids
  <2>1. <<>> \in Seq(ALGORITHMS)
    BY EmptySeq
  <2> QED  BY <1>9, <2>1
<1>12. algorithm_commands(q, A) \in Seq(ALGORITHMS)
  <2> HIDE DEF more, ids
  <2> QED  BY <1>5, <1>10, <1>11, ConcatProperties
<1>13. ALGORITHMS \subseteq Words
  BY DEF Words
<1>14. algorithm_commands(q, A) \in Seq(Words)
  BY <1>12, <1>13, SeqMonotonic
<1> QED  BY <1>12, <1>14

\* A script reads, runs, counts and writes.
LEMMA ScriptShape ==
  ASSUME NEW q \in DOMAIN Profiles, NEW A
  PROVE  LET s == build_yosys_script(q, A)
             b == algorithm_commands(q, A)
             n == Len(b)
         IN  /\ s \in Seq(Words) /\ n \in Nat /\ Len(s) = n + 9
             /\ \A i \in 1 .. 5 : s[i] = Reading[i]
             /\ \A i \in 1 .. n : s[5 + i] = b[i] /\ b[i] \in ALGORITHMS
             /\ \A i \in 1 .. 4 : s[5 + n + i] = Writing[i]
<1> DEFINE b == algorithm_commands(q, A)
           s == build_yosys_script(q, A)
           n == Len(b)
           t == Reading \o b
<1>1. b \in Seq(Words) /\ b \in Seq(ALGORITHMS) /\ n \in Nat
  BY CommandsShape, LenProperties
<1>2. Reading \in Seq(Words) /\ Len(Reading) = 5 /\ Writing \in Seq(Words) /\ Len(Writing) = 4
  <2>1. Reading \in Seq(Words)
    <3>1. Reading \in Seq({"read_verilog", "hierarchy", "proc", "stat", "write_before"})
      BY DEF Reading
    <3>2. DOMAIN Reading = {1, 2, 3, 4, 5}
      BY DEF Reading
    <3>3. {"read_verilog", "hierarchy", "proc", "stat", "write_before"} \subseteq Words
      BY <3>2 DEF Words, Range, Reading
    <3> QED  BY <3>1, <3>3, SeqMonotonic
  <2>2. Writing \in Seq(Words)
    <3>1. Writing \in Seq({"stat", "write_after", "select", "show"})
      BY DEF Writing
    <3>2. DOMAIN Writing = {1, 2, 3, 4}
      BY DEF Writing
    <3>3. {"stat", "write_after", "select", "show"} \subseteq Words
      BY <3>2 DEF Words, Range, Writing
    <3> QED  BY <3>1, <3>3, SeqMonotonic
  <2>3. Len(Reading) = 5 /\ Len(Writing) = 4
    BY DEF Reading, Writing
  <2> QED  BY <2>1, <2>2, <2>3
<1>3. s = t \o Writing
  BY DEF build_yosys_script
<1> HIDE DEF b, s
<1>4. /\ t \in Seq(Words) /\ Len(t) = 5 + n
      /\ \A i \in 1 .. 5 + n : t[i] = IF i <= 5 THEN Reading[i] ELSE b[i - 5]
  <2>1. /\ t \in Seq(Words) /\ Len(t) = Len(Reading) + Len(b)
        /\ \A i \in 1 .. Len(Reading) + Len(b) :
             t[i] = IF i <= Len(Reading) THEN Reading[i] ELSE b[i - Len(Reading)]
    BY <1>1, <1>2, ConcatProperties
  <2> HIDE DEF t
  <2> QED  BY <1>2, <2>1
<1> HIDE DEF t
<1>5. /\ s \in Seq(Words) /\ Len(s) = 5 + n + 4
      /\ \A i \in 1 .. 5 + n + 4 : s[i] = IF i <= 5 + n THEN t[i] ELSE Writing[i - (5 + n)]
  <2>1. /\ t \o Writing \in Seq(Words) /\ Len(t \o Writing) = Len(t) + Len(Writing)
        /\ \A i \in 1 .. Len(t) + Len(Writing) :
             (t \o Writing)[i] = IF i <= Len(t) THEN t[i] ELSE Writing[i - Len(t)]
    BY <1>2, <1>4, ConcatProperties
  <2> QED  BY <1>2, <1>3, <1>4, <2>1
<1>6. \A i \in 1 .. n : b[i] \in ALGORITHMS
  BY <1>1, ElementOfSeq
<1> HIDE DEF n
<1>7. Len(s) = n + 9
  BY <1>1, <1>5
<1>8. ASSUME NEW i \in 1 .. 5 PROVE s[i] = Reading[i]
  <2>1. i \in 1 .. 5 + n /\ i \in 1 .. 5 + n + 4 /\ i <= 5 /\ i <= 5 + n
    BY <1>1
  <2> QED  BY <1>4, <1>5, <2>1
<1>9. ASSUME NEW i \in 1 .. n PROVE s[5 + i] = b[i]
  <2>1. 5 + i \in 1 .. 5 + n /\ 5 + i \in 1 .. 5 + n + 4 /\ ~(5 + i <= 5) /\ 5 + i <= 5 + n
        /\ (5 + i) - 5 = i
    BY <1>1
  <2> QED  BY <1>4, <1>5, <2>1
<1>10. ASSUME NEW i \in 1 .. 4 PROVE s[5 + n + i] = Writing[i]
  <2>1. 5 + n + i \in 1 .. 5 + n + 4 /\ ~(5 + n + i <= 5 + n) /\ (5 + n + i) - (5 + n) = i
    BY <1>1
  <2> QED  BY <1>5, <2>1
<1> QED  BY <1>1, <1>5, <1>6, <1>7, <1>8, <1>9, <1>10 DEF b, s, n

\* Which words of a script are algorithms, and where the others are.
LEMMA ScriptWords ==
  ASSUME NEW q \in DOMAIN Profiles, NEW A
  PROVE  LET s == build_yosys_script(q, A)
             n == Len(algorithm_commands(q, A))
         IN  \A i \in 1 .. n + 9 :
               /\ s[i] \in ALGORITHMS <=> 5 < i /\ i <= n + 5
               /\ s[i] = "stat" <=> i = 4 \/ i = n + 6
               /\ s[i] = "write_after" <=> i = n + 7
               /\ s[i] = "show" <=> i = n + 9
<1> DEFINE s == build_yosys_script(q, A)
           b == algorithm_commands(q, A)
           n == Len(b)
<1>1. /\ n \in Nat /\ Len(s) = n + 9
      /\ \A i \in 1 .. 5 : s[i] = Reading[i]
      /\ \A i \in 1 .. n : s[5 + i] = b[i] /\ b[i] \in ALGORITHMS
      /\ \A i \in 1 .. 4 : s[5 + n + i] = Writing[i]
  BY ScriptShape
<1>2. Range(Reading) = {"read_verilog", "hierarchy", "proc", "stat", "write_before"}
      /\ Range(Writing) = {"stat", "write_after", "select", "show"}
  <2>1. DOMAIN Reading = {1, 2, 3, 4, 5} /\ DOMAIN Writing = {1, 2, 3, 4}
    BY DEF Reading, Writing
  <2> QED  BY <2>1 DEF Range, Reading, Writing
<1>3. \A w \in {"read_verilog", "hierarchy", "proc", "stat",
             "write_before", "write_after", "select", "show"} :
        w \notin ALGORITHMS
  BY <1>2, ProfilesAssumption
<1> HIDE DEF s, b, n
<1> SUFFICES ASSUME NEW i \in 1 .. n + 9
             PROVE  /\ s[i] \in ALGORITHMS <=> 5 < i /\ i <= n + 5
                    /\ s[i] = "stat" <=> i = 4 \/ i = n + 6
                    /\ s[i] = "write_after" <=> i = n + 7
                    /\ s[i] = "show" <=> i = n + 9
  BY DEF s, b, n
<1>4. CASE i <= 5
  <2>1. i \in 1 .. 5 /\ (i = 1 \/ i = 2 \/ i = 3 \/ i = 4 \/ i = 5)
    BY <1>1, <1>4
  <2>2. s[i] = Reading[i]
    BY <1>1, <2>1
  <2>3. /\ Reading[1] = "read_verilog" /\ Reading[2] = "hierarchy" /\ Reading[3] = "proc"
        /\ Reading[4] = "stat" /\ Reading[5] = "write_before"
    BY DEF Reading
  <2>4. s[i] \notin ALGORITHMS /\ (s[i] = "stat" <=> i = 4) /\ s[i] # "write_after" /\ s[i] # "show"
    BY <1>3, <2>1, <2>2, <2>3
  <2> QED  BY <1>1, <1>4, <2>4
<1>5. CASE 5 < i /\ i <= n + 5
  <2>1. i - 5 \in 1 .. n /\ 5 + (i - 5) = i
    BY <1>1, <1>5
  <2>2. s[i] \in ALGORITHMS
    BY <1>1, <2>1
  <2>3. s[i] # "stat" /\ s[i] # "write_after" /\ s[i] # "show"
    BY <1>3, <2>2
  <2> QED  BY <1>1, <1>5, <2>2, <2>3
<1>6. CASE n + 5 < i
  <2>1. PICK j \in 1 .. 4 : i = 5 + n + j
    <3>1. i - (5 + n) \in 1 .. 4 /\ i = 5 + n + (i - (5 + n))
      BY <1>1, <1>6
    <3> QED  BY <3>1
  <2>2. s[i] = Writing[j] /\ (j = 1 \/ j = 2 \/ j = 3 \/ j = 4)
    BY <1>1, <2>1
  <2>3. Writing[1] = "stat" /\ Writing[2] = "write_after" /\ Writing[3] = "select" /\ Writing[4] = "show"
    BY DEF Writing
  <2>4. /\ s[i] \notin ALGORITHMS /\ (s[i] = "stat" <=> j = 1) /\ (s[i] = "write_after" <=> j = 2)
        /\ (s[i] = "show" <=> j = 4)
    BY <1>3, <2>2, <2>3
  <2> QED  BY <1>1, <1>6, <2>1, <2>4
<1> QED  BY <1>1, <1>4, <1>5, <1>6

\* The words of the beginning of a script.
LEMMA PrefixShape ==
  ASSUME NEW q \in DOMAIN Profiles, NEW A,
         NEW k \in 0 .. Len(build_yosys_script(q, A))
  PROVE  LET s == build_yosys_script(q, A)
             t == SubSeq(s, 1, k)
         IN  t \in Seq(Words) /\ Len(t) = k /\ \A i \in 1 .. k : t[i] = s[i]
<1> DEFINE s == build_yosys_script(q, A)
<1>1. s \in Seq(Words) /\ Len(s) \in Nat
  BY ScriptShape, LenProperties
<1>2. \A i \in 1 .. Len(s) : s[i] \in Words
  BY <1>1, ElementOfSeq
<1> HIDE DEF s
<1>3. k \in Int /\ 1 \in Int /\ k \in Nat /\ k <= Len(s)
  BY <1>1 DEF s
<1>4. \A i \in 1 .. k : s[i] \in Words
  BY <1>1, <1>2, <1>3
<1> DEFINE t == SubSeq(s, 1, k)
<1>5. /\ t \in Seq(Words)
      /\ Len(t) = IF 1 <= k THEN k - 1 + 1 ELSE 0
      /\ \A i \in 1 .. k - 1 + 1 : t[i] = s[1 + i - 1]
  BY <1>3, <1>4, SubSeqProperties
<1> HIDE DEF t
<1>6. Len(t) = k
  BY <1>3, <1>5
<1>7. ASSUME NEW i \in 1 .. k PROVE t[i] = s[i]
  <2>1. i \in 1 .. k - 1 + 1 /\ 1 + i - 1 = i
    BY <1>3
  <2> QED  BY <1>5, <2>1
<1> QED  BY <1>5, <1>6, <1>7 DEF s, t

\* The passes in the beginning of a script are all, once the script counts
\* for the second time, and none as long as it reads.
LEMMA PrefixPasses ==
  ASSUME NEW q \in DOMAIN Profiles, NEW A,
         NEW k \in 0 .. Len(build_yosys_script(q, A))
  PROVE  LET s == build_yosys_script(q, A)
             b == algorithm_commands(q, A)
             n == Len(b)
             t == SubSeq(s, 1, k)
         IN  /\ k <= 5 => passes_of(t) = <<>> /\ Len(passes_of(t)) = 0
             /\ k >= n + 5 => passes_of(t) = b
<1> DEFINE s == build_yosys_script(q, A)
           b == algorithm_commands(q, A)
           n == Len(b)
           t == SubSeq(s, 1, k)
<1>1. /\ n \in Nat /\ Len(s) = n + 9
      /\ \A i \in 1 .. n : s[5 + i] = b[i]
  BY ScriptShape
<1>2. \A i \in 1 .. n + 9 : s[i] \in ALGORITHMS <=> 5 < i /\ i <= n + 5
  BY ScriptWords
<1>3. t \in Seq(Words) /\ Len(t) = k /\ \A i \in 1 .. k : t[i] = s[i]
  BY PrefixShape
<1>4. b \in Seq(Words)
  BY CommandsShape
<1>5. k \in Nat /\ k <= n + 9
  BY <1>1
<1> HIDE DEF s, b, t
<1>0. ASSUME NEW m \in Nat, NEW h \in Nat, Middle(t, ALGORITHMS, m, h)
      PROVE  /\ only(t, ALGORITHMS) \in Seq(Words) /\ Len(only(t, ALGORITHMS)) = h - m
             /\ \A i \in 1 .. h - m : only(t, ALGORITHMS)[i] = t[m + i]
  BY <1>0, <1>3, OnlyMiddle
<1>6. ASSUME k <= 5 PROVE passes_of(t) = <<>> /\ Len(passes_of(t)) = 0
  <2>1. \A i \in 1 .. Len(t) : t[i] \in ALGORITHMS <=> k < i /\ i <= k
    BY <1>1, <1>2, <1>3, <1>5, <1>6
  <2>2. only(t, ALGORITHMS) \in Seq(Words) /\ Len(only(t, ALGORITHMS)) = k - k
    <3>1. k <= k /\ k <= Len(t)
      BY <1>3, <1>5
    <3>2. Middle(t, ALGORITHMS, k, k)
      BY <2>1, <3>1 DEF Middle
    <3> QED  BY <1>0, <1>5, <3>2
  <2>3. Len(only(t, ALGORITHMS)) = 0
    BY <1>5, <2>2
  <2>4. only(t, ALGORITHMS) = <<>>
    BY <2>2, <2>3, EmptySeq
  <2> QED  BY <2>3, <2>4 DEF passes_of
<1>7. ASSUME k >= n + 5 PROVE passes_of(t) = b
  <2> HIDE DEF n
  <2>0. PICK h \in Nat : h = n + 5
    BY <1>1
  <2>1. Middle(t, ALGORITHMS, 5, h)
    <3>1. \A i \in 1 .. Len(t) : t[i] \in ALGORITHMS <=> 5 < i /\ i <= h
      BY <1>1, <1>2, <1>3, <1>5, <1>7, <2>0
    <3>2. 5 <= h /\ h <= Len(t)
      BY <1>1, <1>3, <1>7, <2>0
    <3> QED  BY <3>1, <3>2 DEF Middle
  <2> DEFINE u == only(t, ALGORITHMS)
  <2>2. u \in Seq(Words) /\ Len(u) = h - 5 /\ \A i \in 1 .. h - 5 : u[i] = t[5 + i]
    <3>1. 5 \in Nat
      OBVIOUS
    <3> QED  BY <1>0, <2>1, <3>1
  <2> HIDE DEF u
  <2>3. ASSUME NEW i \in 1 .. n PROVE u[i] = b[i]
    <3>1. i \in 1 .. h - 5 /\ 5 + i \in 1 .. k
      BY <1>1, <1>5, <1>7, <2>0
    <3> QED  BY <1>1, <1>3, <2>2, <3>1
  <2>4. Len(u) = n
    BY <1>1, <2>0, <2>2
  <2>5. u = b
    BY <1>4, <2>2, <2>3, <2>4, SeqEqual DEF n
  <2> QED  BY <2>5 DEF passes_of, u
<1> QED  BY <1>6, <1>7 DEF s, b, t, n

\* What a script has written when it ends behind its first k lines.
LEMMA PrefixWrites ==
  ASSUME NEW q \in DOMAIN Profiles, NEW A,
         NEW k \in 0 .. Len(build_yosys_script(q, A))
  PROVE  LET s == build_yosys_script(q, A)
             n == Len(algorithm_commands(q, A))
             t == SubSeq(s, 1, k)
         IN  /\ "write_after" \in Range(t) <=> k >= n + 7
             /\ "show" \in Range(t) <=> k >= n + 9
<1> DEFINE s == build_yosys_script(q, A)
           n == Len(algorithm_commands(q, A))
           t == SubSeq(s, 1, k)
<1>1. n \in Nat /\ Len(s) = n + 9
  BY ScriptShape
<1>2. \A i \in 1 .. n + 9 : (s[i] = "write_after" <=> i = n + 7) /\ (s[i] = "show" <=> i = n + 9)
  BY ScriptWords
<1>3. t \in Seq(Words) /\ Len(t) = k /\ \A i \in 1 .. k : t[i] = s[i]
  BY PrefixShape
<1>4. DOMAIN t = 1 .. k
  BY <1>3, LenProperties
<1>5. k \in Nat /\ k <= n + 9
  BY <1>1
<1> HIDE DEF s, n, t
<1>6. ASSUME NEW w, NEW j \in 1 .. n + 9, \A i \in 1 .. n + 9 : s[i] = w <=> i = j
      PROVE  w \in Range(t) <=> k >= j
  <2>1. Range(t) = {t[i] : i \in 1 .. k}
    BY <1>4 DEF Range
  <2>2. ASSUME w \in Range(t) PROVE k >= j
    <3>1. PICK i \in 1 .. k : w = t[i]
      BY <2>1, <2>2
    <3>2. i \in 1 .. n + 9
      BY <1>1, <1>5
    <3>3. i = j
      BY <1>3, <1>6, <3>1, <3>2
    <3> QED  BY <1>5, <3>3
  <2>3. ASSUME k >= j PROVE w \in Range(t)
    <3>1. j \in 1 .. k
      BY <1>5, <2>3
    <3>2. t[j] = w
      BY <1>3, <1>6, <3>1
    <3> QED  BY <2>1, <3>1, <3>2
  <2> QED  BY <2>2, <2>3
<1>7. n + 7 \in 1 .. n + 9 /\ n + 9 \in 1 .. n + 9
  BY <1>1
<1>8. "write_after" \in Range(t) <=> k >= n + 7
  BY <1>2, <1>6, <1>7
<1>9. "show" \in Range(t) <=> k >= n + 9
  BY <1>2, <1>6, <1>7
<1> QED  BY <1>8, <1>9 DEF s, n, t

\* The cells are counted before the first pass and behind the last one.
LEMMA ScriptStats ==
  ASSUME NEW q \in DOMAIN Profiles, NEW A
  PROVE  summarize_stats(build_yosys_script(q, A)) = <<0, Len(algorithm_commands(q, A))>>
<1> DEFINE s == build_yosys_script(q, A)
           b == algorithm_commands(q, A)
           n == Len(b)
           S == {i \in DOMAIN s : s[i] = "stat"}
           count(i) == Len(passes_of(SubSeq(s, 1, i)))
<1>1. n \in Nat /\ Len(s) = n + 9 /\ s \in Seq(Words)
  BY ScriptShape
<1>2. \A i \in 1 .. n + 9 : s[i] = "stat" <=> i = 4 \/ i = n + 6
  BY ScriptWords
<1>3. DOMAIN s = 1 .. n + 9
  BY <1>1, LenProperties
<1>4. summarize_stats(s) = IF S = {} THEN no_stats ELSE <<count(Min(S)), count(Max(S))>>
  BY DEF summarize_stats
<1>5. count(4) = 0 /\ count(n + 6) = n
  <2>1. 4 \in 0 .. n + 9 /\ n + 6 \in 0 .. n + 9 /\ 4 <= 5 /\ n + 6 >= n + 5
    <3> HIDE DEF n
    <3> QED  BY <1>1
  <2>2. 4 \in 0 .. Len(s) /\ n + 6 \in 0 .. Len(s)
    BY <1>1, <2>1
  <2>3. count(4) = 0
    BY <2>1, <2>2, PrefixPasses
  <2>4. passes_of(SubSeq(s, 1, n + 6)) = b
    <3> DEFINE k == n + 6
    <3> HIDE DEF k
    <3>1. k \in 0 .. Len(s) /\ k >= n + 5
      BY <2>1, <2>2 DEF k
    <3>2. passes_of(SubSeq(s, 1, k)) = b
      BY <3>1, PrefixPasses
    <3> QED  BY <3>2 DEF k
  <2> QED  BY <2>3, <2>4
<1> HIDE DEF s, b, n, count
<1>6. S = {4, n + 6}
  <2>1. 4 \in 1 .. n + 9 /\ n + 6 \in 1 .. n + 9
    BY <1>1
  <2> QED  BY <1>2, <1>3, <2>1
<1> HIDE DEF S
<1>7. Min(S) = 4 /\ Max(S) = n + 6
  <2>1. ASSUME NEW x \in S, \A y \in S : x <= y PROVE x = 4
    BY <1>1, <1>6, <2>1
  <2>2. ASSUME NEW x \in S, \A y \in S : x >= y PROVE x = n + 6
    BY <1>1, <1>6, <2>2
  <2>3. 4 \in S /\ \A y \in S : 4 <= y
    BY <1>1, <1>6
  <2>4. n + 6 \in S /\ \A y \in S : n + 6 >= y
    BY <1>1, <1>6
  <2>5. Min(S) = 4
    BY <2>1, <2>3 DEF Min
  <2>6. Max(S) = n + 6
    BY <2>2, <2>4 DEF Max
  <2> QED  BY <2>5, <2>6
<1>8. S # {}
  BY <1>6
<1>9. summarize_stats(s) = <<0, n>>
  BY <1>4, <1>5, <1>7, <1>8
<1> QED  BY <1>9 DEF s, n, b

-----------------------------------------------------------------------------
(* Runs and their directories.                                             *)

IsScreen(s) ==
  s = [message |-> s.message, metric |-> s.metric, stats |-> s.stats, lastResult |-> s.lastResult,
       view |-> s.view, text |-> s.text, graph |-> s.graph]

Domains ==
  /\ DOMAIN net = Pages /\ DOMAIN sent = Pages /\ DOMAIN reply = Pages /\ DOMAIN handler = Pages
  /\ DOMAIN wanted = Pages /\ DOMAIN health = Pages /\ DOMAIN busy = Pages /\ DOMAIN screen = Pages
  /\ DOMAIN files = Dirs

\* A run has a directory of those there are, and a page keeps what it shows.
ApartInv ==
  /\ Domains
  /\ RunsAreApart
  /\ \A p \in Pages : ~at(p, "idle") => handler[p].dir \in Dirs
  /\ \A p \in Pages : IsScreen(screen[p])

\* There is a name for a new directory as long as a page does not run.
LEMMA FreshDir ==
  ASSUME ApartInv, NEW p \in Pages, at(p, "idle")
  PROVE  fresh_dir \in Dirs /\ fresh_dir \notin dirs
<1> DEFINE active == {q \in Pages : ~at(q, "idle")}
           dir == [q \in active |-> handler[q].dir]
<1>1. dirs = {handler[q].dir : q \in active}
  BY DEF ApartInv, RunsAreApart, DirsOfRunsOnly
<1>2. active \subseteq Pages /\ active # Pages /\ IsFiniteSet(Pages)
  BY DirsAssumption DEF ApartInv
<1>3. IsFiniteSet(active) /\ Cardinality(active) < Cardinality(Pages)
  <2> HIDE DEF active
  <2>1. IsFiniteSet(active) /\ Cardinality(active) <= Cardinality(Pages)
        /\ (Cardinality(active) = Cardinality(Pages) => active = Pages)
    BY <1>2, FS_Subset
  <2>2. Cardinality(active) \in Nat /\ Cardinality(Pages) \in Nat
    BY <1>2, <2>1, FS_CardinalityType
  <2> QED  BY <1>2, <2>1, <2>2
<1>4. IsFiniteSet(dirs) /\ Cardinality(dirs) <= Cardinality(active)
  <2>1. dir \in Surjection(active, dirs)
    BY <1>1 DEF Surjection, Range
  <2> HIDE DEF active, dir
  <2> QED  BY <1>3, <2>1, FS_Surjection
<1>5. dirs # Dirs /\ dirs \subseteq Dirs
  <2>1. Cardinality(dirs) < Cardinality(Pages) /\ Cardinality(Dirs) >= Cardinality(Pages)
    <3> HIDE DEF active
    <3>1. Cardinality(dirs) \in Nat /\ Cardinality(active) \in Nat /\ Cardinality(Pages) \in Nat
      BY <1>2, <1>3, <1>4, FS_CardinalityType
    <3> QED  BY <1>3, <1>4, <3>1, DirsAssumption
  <2>2. Cardinality(Dirs) \in Nat /\ Cardinality(Pages) \in Nat /\ Cardinality(dirs) \in Nat
    BY <1>2, <1>4, DirsAssumption, FS_CardinalityType
  <2>3. dirs # Dirs
    BY <2>1, <2>2
  <2>4. dirs \subseteq Dirs
    BY <1>1 DEF ApartInv
  <2> QED  BY <2>3, <2>4
<1>6. \E d \in Dirs : d \notin dirs
  BY <1>5
<1> QED  BY <1>6 DEF fresh_dir

\* What a thread does with directories: it starts in a new one, works on in
\* its own, or leaves and removes it.
Enters(p) ==
  /\ at(p, "idle")
  /\ \E h : h.step # "idle" /\ h.dir = fresh_dir /\ handler' = [handler EXCEPT ![p] = h]
  /\ dirs' = dirs \cup {fresh_dir}

WorksOn(p) ==
  /\ ~at(p, "idle")
  /\ \E h : h.step # "idle" /\ h.dir = handler[p].dir /\ handler' = [handler EXCEPT ![p] = h]
  /\ dirs' = dirs

Leaves(p) ==
  /\ ~at(p, "idle")
  /\ handler' = [handler EXCEPT ![p] = idle]
  /\ dirs' = dirs \ {handler[p].dir}

Moves(p) == Enters(p) \/ WorksOn(p) \/ Leaves(p)

\* Each of these moves keeps directories apart.
LEMMA DirsKept ==
  ASSUME ApartInv, NEW p \in Pages, Moves(p)
  PROVE  /\ DirsOfRunsOnly' /\ DOMAIN handler' = Pages
         /\ \A q \in Pages : ~at(q, "idle")' => handler'[q].dir \in Dirs
         /\ \A q \in Pages \ {p} : handler'[q] = handler[q]
<1> DEFINE busyPages == {q \in Pages : ~at(q, "idle")}
<1>1. /\ DOMAIN handler = Pages
      /\ dirs = {handler[q].dir : q \in busyPages}
      /\ \A q, r \in busyPages : handler[q].dir = handler[r].dir => q = r
      /\ \A q \in busyPages : handler[q].dir \in Dirs
  BY DEF ApartInv, Domains, RunsAreApart, DirsOfRunsOnly
<1>2. \A q \in Pages : q \in busyPages <=> handler[q].step # "idle"
  BY DEF at
<1> HIDE DEF busyPages
<1> DEFINE after == {q \in Pages : handler'[q].step # "idle"}
<1>3. SUFFICES /\ dirs' = {handler'[q].dir : q \in after}
               /\ \A q, r \in after : handler'[q].dir = handler'[r].dir => q = r
               /\ DOMAIN handler' = Pages
               /\ \A q \in after : handler'[q].dir \in Dirs
               /\ \A q \in Pages \ {p} : handler'[q] = handler[q]
  BY <1>3 DEF DirsOfRunsOnly, at
<1>4. CASE Enters(p)
  <2>1. fresh_dir \in Dirs /\ fresh_dir \notin dirs
    BY <1>4, FreshDir DEF Enters
  <2>2. PICK h : h.step # "idle" /\ h.dir = fresh_dir /\ handler' = [handler EXCEPT ![p] = h]
    BY <1>4 DEF Enters
  <2>3. DOMAIN handler' = Pages /\ handler'[p] = h /\ \A q \in Pages \ {p} : handler'[q] = handler[q]
    BY <1>1, <2>2
  <2>4. after = busyPages \cup {p} /\ p \notin busyPages /\ busyPages \subseteq Pages
    BY <1>2, <1>4, <2>2, <2>3 DEF Enters, at, busyPages
  <2>5. \A q \in busyPages : handler'[q].dir = handler[q].dir
    BY <2>3, <2>4
  <2>6. handler'[p].dir = fresh_dir
    BY <2>2, <2>3
  <2> HIDE DEF after
  <2>7. dirs' = {handler'[q].dir : q \in after}
    BY <1>1, <1>4, <2>4, <2>5, <2>6 DEF Enters
  <2>8. \A q, r \in after : handler'[q].dir = handler'[r].dir => q = r
    BY <1>1, <2>1, <2>4, <2>5, <2>6
  <2> QED  BY <1>1, <2>1, <2>3, <2>4, <2>5, <2>6, <2>7, <2>8
<1>5. CASE WorksOn(p)
  <2>2. PICK h : h.step # "idle" /\ h.dir = handler[p].dir /\ handler' = [handler EXCEPT ![p] = h]
    BY <1>5 DEF WorksOn
  <2>3. DOMAIN handler' = Pages /\ handler'[p] = h /\ \A q \in Pages \ {p} : handler'[q] = handler[q]
    BY <1>1, <2>2
  <2>4. after = busyPages /\ busyPages \subseteq Pages
    BY <1>2, <1>5, <2>2, <2>3 DEF WorksOn, at, busyPages
  <2>5. \A q \in busyPages : handler'[q].dir = handler[q].dir
    BY <2>2, <2>3, <2>4
  <2> HIDE DEF after
  <2> QED  BY <1>1, <1>5, <2>3, <2>4, <2>5 DEF WorksOn
<1>6. CASE Leaves(p)
  <2>2. handler' = [handler EXCEPT ![p] = idle] /\ idle.step = "idle"
    BY <1>6 DEF Leaves, idle
  <2>3. DOMAIN handler' = Pages /\ handler'[p] = idle /\ \A q \in Pages \ {p} : handler'[q] = handler[q]
    BY <1>1, <2>2
  <2>4. after = busyPages \ {p} /\ p \in busyPages /\ busyPages \subseteq Pages
    BY <1>2, <1>6, <2>2, <2>3 DEF Leaves, at, busyPages
  <2>5. \A q \in after : handler'[q].dir = handler[q].dir
    BY <2>3, <2>4
  <2> HIDE DEF after
  <2>6. dirs' = {handler'[q].dir : q \in after}
    BY <1>1, <1>6, <2>4, <2>5 DEF Leaves
  <2> QED  BY <1>1, <2>3, <2>4, <2>5, <2>6
<1> QED  BY <1>4, <1>5, <1>6 DEF Moves

\* Every step of a thread is such a move, or a refusal.
LEMMA HandleMoves ==
  ASSUME ApartInv, NEW p \in Pages, Handle(p)
  PROVE  Moves(p) \/ (Refuse(p) /\ UNCHANGED <<handler, dirs>>)
<1>1. CASE Refuse(p)
  BY <1>1 DEF Refuse
<1>2. CASE Receive(p)
  <2> DEFINE h == [idle EXCEPT !.step = "compile", !.dir = fresh_dir]
  <2>1. h.step # "idle" /\ h.dir = fresh_dir
    BY DEF idle
  <2> HIDE DEF h
  <2>2. handler' = [handler EXCEPT ![p] = h] /\ dirs' = dirs \cup {fresh_dir} /\ at(p, "idle")
    BY <1>2 DEF Receive, h
  <2> QED  BY <2>1, <2>2 DEF Moves, Enters
<1>3. ASSUME NEW step, step # "idle", NEW c, NEW y, go(p, step, c, y), ~at(p, "idle"), UNCHANGED dirs
      PROVE  Moves(p)
  <2> DEFINE h == [step |-> step, dir |-> handler[p].dir, compiler |-> c, yosys |-> y]
  <2>1. h.step # "idle" /\ h.dir = handler[p].dir
    BY <1>3
  <2>2. handler' = [handler EXCEPT ![p] = h]
    BY <1>3 DEF go
  <2> HIDE DEF h
  <2> QED  BY <1>3, <2>1, <2>2 DEF Moves, WorksOn
<1>4. CASE Compile(p)
  <2>1. ~at(p, "idle")
    BY <1>4 DEF Compile, at
  <2>2. \E step \in {"graph", "probe"} : \E c, y : go(p, step, c, y)
    <3>1. (IF sent[p].profile = "compiler" THEN "graph" ELSE "probe") \in {"graph", "probe"}
      OBVIOUS
    <3> QED  BY <1>4, <3>1 DEF Compile
  <2>3. UNCHANGED dirs
    BY <1>4 DEF Compile
  <2> QED  BY <1>3, <2>1, <2>2, <2>3
<1>5. CASE Graph(p)
  <2>1. ~at(p, "idle")
    BY <1>5 DEF Graph, at
  <2>2. \E c, y : go(p, "respond", c, y)
    BY <1>5 DEF Graph
  <2>3. UNCHANGED dirs
    BY <1>5 DEF Graph
  <2> QED  BY <1>3, <2>1, <2>2, <2>3
<1>6. CASE Probe(p)
  <2>1. ~at(p, "idle")
    BY <1>6 DEF Probe, at
  <2>2. \E step \in {"respond", "optimize"} : \E c, y : go(p, step, c, y)
    BY <1>6 DEF Probe
  <2>3. UNCHANGED dirs
    BY <1>6 DEF Probe
  <2> QED  BY <1>3, <2>1, <2>2, <2>3
<1>7. CASE Optimize(p)
  <2>1. ~at(p, "idle")
    BY <1>7 DEF Optimize, at
  <2>2. \E c, y : go(p, "respond", c, y)
    BY <1>7 DEF Optimize
  <2>3. UNCHANGED dirs
    BY <1>7 DEF Optimize
  <2> QED  BY <1>3, <2>1, <2>2, <2>3
<1>8. CASE Respond(p)
  BY <1>8 DEF Respond, close, at, Moves, Leaves
<1>9. CASE Crash(p)
  BY <1>9 DEF Crash, close, at, Moves, Leaves
<1> QED  BY <1>1, <1>2, <1>4, <1>5, <1>6, <1>7, <1>8, <1>9 DEF Handle

\* The rest of what a step of a thread may change.
LEMMA HandleChanges ==
  ASSUME ApartInv, NEW p \in Pages, Handle(p)
  PROVE  /\ sent' = sent /\ DOMAIN reply' = Pages /\ DOMAIN files' = Dirs
         /\ \A q \in Pages \ {p} : reply'[q] = reply[q]
         /\ net[p] = "request"
         /\ \/ net' = net /\ reply' = reply
            \/ /\ \E state \in {"reply", "closed"} : net' = [net EXCEPT ![p] = state]
               /\ handler'[p].step = "idle"
<1> USE DEF ApartInv, Domains
<1>0. DOMAIN handler = Pages /\ (~at(p, "idle") => net[p] = "request")
  BY DEF RunsAreApart, TypeOK
<1>1. CASE Refuse(p)
  BY <1>0, <1>1 DEF Refuse, at
<1>2. CASE Receive(p)
  BY <1>2 DEF Receive
<1>3. CASE Compile(p)
  <2>1. net[p] = "request" /\ net' = net /\ sent' = sent /\ reply' = reply
    BY <1>0, <1>3 DEF Compile, at
  <2>2. DOMAIN files' = Dirs
    BY <1>3 DEF Compile, write
  <2> QED  BY <2>1, <2>2
<1>4. CASE Graph(p)
  <2>1. net[p] = "request" /\ net' = net /\ sent' = sent /\ reply' = reply
    BY <1>0, <1>4 DEF Graph, at
  <2>2. DOMAIN files' = Dirs
    BY <1>4 DEF Graph, write
  <2> QED  BY <2>1, <2>2
<1>5. CASE Probe(p)
  <2>1. net[p] = "request" /\ net' = net /\ sent' = sent /\ reply' = reply
    BY <1>0, <1>5 DEF Probe, at
  <2>2. DOMAIN files' = Dirs
    BY <1>5 DEF Probe, write
  <2> QED  BY <2>1, <2>2
<1>6. CASE Optimize(p)
  <2>1. net[p] = "request" /\ net' = net /\ sent' = sent /\ reply' = reply
    BY <1>0, <1>6 DEF Optimize, at
  <2>2. DOMAIN files' = Dirs
    BY <1>6 DEF Optimize, write
  <2> QED  BY <2>1, <2>2
<1>7. CASE Respond(p)
  <2>1. handler' = [handler EXCEPT ![p] = idle] /\ idle.step = "idle"
    BY <1>7 DEF Respond, close, idle
  <2>2. /\ sent' = sent /\ DOMAIN reply' = Pages /\ DOMAIN files' = Dirs
        /\ \A q \in Pages \ {p} : reply'[q] = reply[q]
        /\ net' = [net EXCEPT ![p] = "reply"]
    BY <1>7 DEF Respond, close
  <2>3. net[p] = "request"
    BY <1>0, <1>7 DEF Respond, at
  <2> QED  BY <1>0, <2>1, <2>2, <2>3
<1>8. CASE Crash(p)
  <2>1. handler' = [handler EXCEPT ![p] = idle] /\ idle.step = "idle"
    BY <1>8 DEF Crash, close, idle
  <2>2. /\ sent' = sent /\ reply' = reply /\ DOMAIN files' = Dirs
        /\ net' = [net EXCEPT ![p] = "closed"]
    BY <1>8 DEF Crash, close
  <2>3. net[p] = "request"
    BY <1>0, <1>8 DEF Crash, at
  <2> QED  BY <1>0, <2>1, <2>2, <2>3
<1> QED  BY <1>1, <1>2, <1>3, <1>4, <1>5, <1>6, <1>7, <1>8 DEF Handle

\* Threads stay apart.
LEMMA HandleApart ==
  ASSUME ApartInv, NEW p \in Pages, Handle(p), UNCHANGED pageVars
  PROVE  ApartInv'
<1>1. /\ DirsOfRunsOnly' /\ DOMAIN handler' = Pages
      /\ \A q \in Pages : ~at(q, "idle")' => handler'[q].dir \in Dirs
      /\ \A q \in Pages \ {p} : handler'[q] = handler[q]
  <2>1. CASE Moves(p)
    BY <2>1, DirsKept
  <2>2. CASE UNCHANGED <<handler, dirs>>
    BY <2>2 DEF ApartInv, Domains, RunsAreApart, DirsOfRunsOnly, at
  <2> QED  BY <2>1, <2>2, HandleMoves
<1>2. /\ sent' = sent /\ DOMAIN reply' = Pages /\ DOMAIN files' = Dirs
      /\ net[p] = "request"
      /\ \/ net' = net
         \/ /\ \E state \in {"reply", "closed"} : net' = [net EXCEPT ![p] = state]
            /\ handler'[p].step = "idle"
  BY HandleChanges
<1>3. UNCHANGED <<wanted, health, busy, screen>>
  BY DEF pageVars
<1>4. Domains'
  BY <1>1, <1>2, <1>3 DEF ApartInv, Domains
<1>5. TypeOK'
  <2> SUFFICES ASSUME NEW q \in Pages
               PROVE  /\ net'[q] \in {"quiet", "request", "reply", "closed"}
                      /\ net'[q] # "quiet" => busy'[q]
                      /\ handler'[q].step # "idle" => net'[q] = "request"
                      /\ screen'[q].view \in Views
    BY DEF TypeOK, at
  <2>1. /\ net[q] \in {"quiet", "request", "reply", "closed"}
        /\ net[q] # "quiet" => busy[q]
        /\ handler[q].step # "idle" => net[q] = "request"
        /\ screen[q].view \in Views
        /\ DOMAIN net = Pages
    BY DEF ApartInv, Domains, RunsAreApart, TypeOK, at
  <2>2. CASE q = p
    BY <1>2, <1>3, <2>1, <2>2
  <2>3. CASE q # p
    BY <1>1, <1>2, <1>3, <2>1, <2>3
  <2> QED  BY <2>2, <2>3
<1>6. \A q \in Pages : IsScreen(screen[q])'
  BY <1>3 DEF ApartInv, IsScreen
<1> QED  BY <1>1, <1>4, <1>5, <1>6 DEF ApartInv, RunsAreApart

-----------------------------------------------------------------------------
(* What a page shows.                                                      *)

\* A change of one thing leaves the others.
LEMMA ScreenText ==
  ASSUME NEW s, IsScreen(s), NEW v
  PROVE  LET t == [s EXCEPT !.text = v]
         IN  /\ IsScreen(t) /\ t.message = s.message /\ t.metric = s.metric /\ t.stats = s.stats
             /\ t.lastResult = s.lastResult /\ t.view = s.view /\ t.text = v /\ t.graph = s.graph
BY DEF IsScreen

\* So does another image,
LEMMA ScreenGraph ==
  ASSUME NEW s, IsScreen(s), NEW v
  PROVE  LET t == [s EXCEPT !.graph = v]
         IN  /\ IsScreen(t) /\ t.message = s.message /\ t.metric = s.metric /\ t.stats = s.stats
             /\ t.lastResult = s.lastResult /\ t.view = s.view /\ t.text = s.text /\ t.graph = v
BY DEF IsScreen

\* another tab,
LEMMA ScreenView ==
  ASSUME NEW s, IsScreen(s), NEW v
  PROVE  LET t == [s EXCEPT !.view = v]
         IN  /\ IsScreen(t) /\ t.message = s.message /\ t.metric = s.metric /\ t.stats = s.stats
             /\ t.lastResult = s.lastResult /\ t.view = v /\ t.text = s.text /\ t.graph = s.graph
BY DEF IsScreen

Says(s, m, v) == [s EXCEPT !.message = m, !.text = v]

\* a message with a text,
LEMMA ScreenMessage ==
  ASSUME NEW s, IsScreen(s), NEW m, NEW v, NEW t, t = Says(s, m, v)
  PROVE  /\ IsScreen(t) /\ t.message = m /\ t.metric = s.metric /\ t.stats = s.stats
         /\ t.lastResult = s.lastResult /\ t.view = s.view /\ t.text = v /\ t.graph = s.graph
<1> DEFINE u == [s EXCEPT !.message = m]
           w == [u EXCEPT !.text = v]
<1>1. /\ IsScreen(u) /\ u.message = m /\ u.metric = s.metric /\ u.stats = s.stats
      /\ u.lastResult = s.lastResult /\ u.view = s.view /\ u.text = s.text /\ u.graph = s.graph
  BY DEF IsScreen
<1> HIDE DEF u
<1>2. /\ IsScreen(w) /\ w.message = u.message /\ w.metric = u.metric /\ w.stats = u.stats
      /\ w.lastResult = u.lastResult /\ w.view = u.view /\ w.text = v /\ w.graph = u.graph
  BY <1>1, ScreenText
<1>3. t = w
  BY DEF u, Says
<1> HIDE DEF w
<1> QED  BY <1>1, <1>2, <1>3

Answered(s, a, m, v) ==
  [renderMetrics(s, a) EXCEPT !.lastResult = <<a>>, !.message = m, !.view = v]

\* and an answer, which changes all but text and image.
LEMMA ScreenAnswer ==
  ASSUME NEW s, IsScreen(s), NEW a, NEW m, NEW v, NEW t, t = Answered(s, a, m, v)
  PROVE  /\ IsScreen(t) /\ t.message = m
         /\ t.metric = status(a.profile = "compiler", a.compiler.ok, a.yosys.ok)
         /\ t.stats = a.yosys.stats
         /\ t.lastResult = <<a>> /\ t.view = v /\ t.text = s.text /\ t.graph = s.graph
<1> DEFINE w == status(a.profile = "compiler", a.compiler.ok, a.yosys.ok)
           s1 == [s EXCEPT !.stats = a.yosys.stats]
           s2 == [s1 EXCEPT !.metric = w]
           s3 == [s2 EXCEPT !.lastResult = <<a>>]
           s4 == [s3 EXCEPT !.message = m]
           s5 == [s4 EXCEPT !.view = v]
<1>0. t = s5
  BY DEF renderMetrics, Answered
<1> HIDE DEF w
<1>1. /\ IsScreen(s1) /\ s1.stats = a.yosys.stats /\ s1.text = s.text /\ s1.graph = s.graph
  BY DEF IsScreen
<1> HIDE DEF s1
<1>2. /\ IsScreen(s2) /\ s2.metric = w /\ s2.stats = s1.stats /\ s2.text = s1.text
      /\ s2.graph = s1.graph
  BY <1>1 DEF IsScreen
<1> HIDE DEF s2
<1>3. /\ IsScreen(s3) /\ s3.lastResult = <<a>> /\ s3.metric = s2.metric /\ s3.stats = s2.stats
      /\ s3.text = s2.text /\ s3.graph = s2.graph
  BY <1>2 DEF IsScreen
<1> HIDE DEF s3
<1>4. /\ IsScreen(s4) /\ s4.message = m /\ s4.lastResult = s3.lastResult /\ s4.metric = s3.metric
      /\ s4.stats = s3.stats /\ s4.text = s3.text /\ s4.graph = s3.graph
  BY <1>3 DEF IsScreen
<1> HIDE DEF s4
<1>5. /\ IsScreen(s5) /\ s5.message = s4.message /\ s5.lastResult = s4.lastResult /\ s5.metric = s4.metric
      /\ s5.stats = s4.stats /\ s5.view = v /\ s5.text = s4.text /\ s5.graph = s4.graph
  BY <1>4, ScreenView
<1> HIDE DEF s5
<1> QED  BY <1>0, <1>1, <1>2, <1>3, <1>4, <1>5 DEF w

\* What a screen shows belongs to its last result and its open tab; where the
\* result is a refusal, the text is no view of anything.
ShowsLast(s) ==
  /\ s.lastResult = <<>> \/ \E a : s.lastResult = <<a>>
  /\ s.lastResult # <<>> /\ s.lastResult[1].refused => s.text.kind \notin Views
  /\ graph_visible(s) /\ ~s.lastResult[1].refused => s.graph = Shown("graph", s.lastResult)
  /\ ~graph_visible(s) /\ s.text.kind \in Views => s.text = Shown(s.view, s.lastResult)

\* A text that is no view.
LEMMA NoView ==
  ASSUME NEW s, NEW t, ShowsLast(s), t.lastResult = s.lastResult, t.view = s.view,
         t.graph = s.graph, t.text.kind \notin Views
  PROVE  ShowsLast(t)
BY DEF ShowsLast, graph_visible

\* The texts of the page itself are no views.
LEMMA OtherKinds ==
  ASSUME NEW k \in {"nothing", "empty", "hint", "running", "error"}, NEW r
  PROVE  Shown(k, r).kind \notin Views
BY ViewsAssumption DEF Shown

\* Rendering shows the last result, unless it is a refusal.
LEMMA Renders ==
  ASSUME NEW s, IsScreen(s),
         s.lastResult = <<>> \/ \E a : s.lastResult = <<a>>,
         s.lastResult # <<>> /\ s.lastResult[1].refused => s.text.kind \notin Views
  PROVE  LET t == renderView(s)
         IN  /\ IsScreen(t) /\ t.message = s.message /\ t.metric = s.metric /\ t.stats = s.stats
             /\ t.lastResult = s.lastResult /\ t.view = s.view /\ ShowsLast(t)
<1> DEFINE t == renderView(s)
<1>1. CASE s.lastResult = <<>>
  <2>1. t = [s EXCEPT !.text = Shown("empty", <<>>)]
    BY <1>1 DEF renderView
  <2> HIDE DEF t
  <2>2. /\ IsScreen(t) /\ t.message = s.message /\ t.metric = s.metric /\ t.stats = s.stats
        /\ t.lastResult = s.lastResult /\ t.view = s.view /\ t.text = Shown("empty", <<>>)
    BY <2>1, ScreenText
  <2>3. Shown("empty", <<>>).kind \notin Views
    BY OtherKinds
  <2>4. ShowsLast(t)
    BY <1>1, <2>2, <2>3 DEF ShowsLast, graph_visible
  <2> QED  BY <2>2, <2>4 DEF t
<1>2. CASE s.lastResult # <<>> /\ s.lastResult[1].refused
  <2>1. t = s
    BY <1>2 DEF renderView
  <2> HIDE DEF t
  <2>2. ShowsLast(s)
    BY <1>2 DEF ShowsLast, graph_visible
  <2> QED  BY <2>1, <2>2 DEF t
<1>3. CASE s.lastResult # <<>> /\ ~s.lastResult[1].refused /\ s.view = "graph"
  <2>1. t = [s EXCEPT !.graph = Shown(s.view, s.lastResult)]
    BY <1>3 DEF renderView
  <2> HIDE DEF t
  <2>2. /\ IsScreen(t) /\ t.message = s.message /\ t.metric = s.metric /\ t.stats = s.stats
        /\ t.lastResult = s.lastResult /\ t.view = s.view /\ t.graph = Shown(s.view, s.lastResult)
    BY <2>1, ScreenGraph
  <2>3. ShowsLast(t)
    BY <1>3, <2>2 DEF ShowsLast, graph_visible
  <2> QED  BY <2>2, <2>3 DEF t
<1>4. CASE s.lastResult # <<>> /\ ~s.lastResult[1].refused /\ s.view # "graph"
  <2>1. t = [s EXCEPT !.text = Shown(s.view, s.lastResult)]
    BY <1>4 DEF renderView
  <2> HIDE DEF t
  <2>2. /\ IsScreen(t) /\ t.message = s.message /\ t.metric = s.metric /\ t.stats = s.stats
        /\ t.lastResult = s.lastResult /\ t.view = s.view /\ t.text = Shown(s.view, s.lastResult)
    BY <2>1, ScreenText
  <2>3. ShowsLast(t)
    BY <1>4, <2>2 DEF ShowsLast, graph_visible
  <2> QED  BY <2>2, <2>3 DEF t
<1> QED  BY <1>1, <1>2, <1>3, <1>4

\* Runs are apart, and every page shows its last result.
ShownInv == ApartInv /\ \A p \in Pages : ShowsLast(screen[p])

\* Whatever happens on a page, it shows its last result.
LEMMA PageShows ==
  ASSUME ShownInv, NEW p \in Pages, Page(p)
  PROVE  \E s : /\ screen' = [screen EXCEPT ![p] = s]
                /\ IsScreen(s) /\ s.view \in Views /\ ShowsLast(s)
<1>a. PICK s0 : s0 = screen[p]
  OBVIOUS
<1>0. IsScreen(s0) /\ ShowsLast(s0) /\ s0.view \in Views
  BY <1>a DEF ShownInv, ApartInv, RunsAreApart, TypeOK
<1>1. ASSUME NEW m, NEW k \in {"nothing", "empty", "hint", "running", "error"}, NEW r,
             set_screen(p, [s0 EXCEPT !.message = m, !.text = Shown(k, r)])
      PROVE  \E s : /\ screen' = [screen EXCEPT ![p] = s]
                    /\ IsScreen(s) /\ s.view \in Views /\ ShowsLast(s)
  <2> DEFINE v == Shown(k, r)
             t == [s0 EXCEPT !.message = m, !.text = v]
  <2>1. screen' = [screen EXCEPT ![p] = t]
    BY <1>a, <1>1 DEF set_screen
  <2> HIDE DEF v
  <2>0. t = Says(s0, m, v)
    BY DEF Says
  <2> HIDE DEF t
  <2>2. /\ IsScreen(t) /\ t.view = s0.view /\ t.lastResult = s0.lastResult /\ t.graph = s0.graph
        /\ t.text = v
    BY <1>0, <2>0, ScreenMessage
  <2>3. t.text.kind \notin Views
    BY <2>2, OtherKinds DEF v
  <2>4. ShowsLast(t)
    BY <1>0, <2>2, <2>3, NoView
  <2> QED  BY <1>0, <2>1, <2>2, <2>4
<1>2. CASE LoadHealth(p)
  <2>1. \/ set_screen(p, [s0 EXCEPT !.message = "ready", !.text = Shown("hint", <<>>)])
        \/ set_screen(p, [s0 EXCEPT !.message = "not connected", !.text = Shown("error", <<>>)])
    BY <1>a, <1>2 DEF LoadHealth
  <2> QED  BY <1>1, <2>1
<1>3. CASE Click(p)
  <2>1. set_screen(p, [s0 EXCEPT !.message = "running", !.text = Shown("running", <<>>)])
    BY <1>a, <1>3 DEF Click
  <2> QED  BY <1>1, <2>1
<1>4. CASE Fail(p)
  <2>1. set_screen(p, [s0 EXCEPT !.message = "request failed", !.text = Shown("error", <<>>)])
    BY <1>a, <1>4 DEF Fail, failed_request
  <2> QED  BY <1>1, <2>1
<1>5. CASE Answer(p)
  <2>a. PICK a : a = reply[p]
    OBVIOUS
  <2> DEFINE m == result_message(a)
             view == "summary"
             t == [renderMetrics(s0, a) EXCEPT !.lastResult = <<a>>, !.message = m, !.view = view]
  <2>1. set_screen(p, IF renders(t) THEN renderView(t) ELSE failed_request(t))
    BY <1>a, <1>5, <2>a DEF Answer
  <2>2. /\ IsScreen(t) /\ t.lastResult = <<a>> /\ t.view = "summary"
    <3> HIDE DEF m, view
    <3>0. t = Answered(s0, a, m, view)
      BY DEF Answered
    <3> HIDE DEF t
    <3>1. IsScreen(t) /\ t.lastResult = <<a>> /\ t.view = view
      BY <1>0, <3>0, ScreenAnswer
    <3> QED  BY <3>1 DEF view
  <2> HIDE DEF m, view, t
  <2>3. CASE renders(t)
    <3>1. ~t.lastResult[1].refused
      BY <2>2, <2>3 DEF renders
    <3>2. IsScreen(renderView(t)) /\ renderView(t).view = t.view /\ ShowsLast(renderView(t))
      BY <2>2, <3>1, Renders
    <3>3. renderView(t).view \in Views
      BY <2>2, <3>2, ViewsAssumption
    <3> QED  BY <2>1, <2>3, <3>2, <3>3 DEF set_screen
  <2>4. CASE ~renders(t)
    <3> DEFINE failed == "request failed"
               error == Shown("error", <<>>)
               u == [t EXCEPT !.message = failed, !.text = error]
    <3>1. screen' = [screen EXCEPT ![p] = u]
      BY <2>1, <2>4 DEF set_screen, failed_request
    <3> HIDE DEF failed, error
    <3>a. u = Says(t, failed, error)
      BY DEF Says
    <3> HIDE DEF u
    <3>2. IsScreen(u) /\ u.lastResult = t.lastResult /\ u.view = t.view /\ u.text = error
      BY <2>2, <3>a, ScreenMessage
    <3>3. u.text.kind \notin Views
      BY <3>2, OtherKinds DEF error
    <3>4. ~graph_visible(u) /\ u.view \in Views
      BY <2>2, <3>2, ViewsAssumption DEF graph_visible
    <3>5. ShowsLast(u)
      BY <2>2, <3>2, <3>3, <3>4 DEF ShowsLast
    <3> QED  BY <3>1, <3>2, <3>4, <3>5
  <2> QED  BY <2>3, <2>4
<1>6. ASSUME NEW view \in Views, Tab(p, view)
      PROVE  \E s : /\ screen' = [screen EXCEPT ![p] = s]
                    /\ IsScreen(s) /\ s.view \in Views /\ ShowsLast(s)
  <2> DEFINE t == [s0 EXCEPT !.view = view]
  <2>1. screen' = [screen EXCEPT ![p] = renderView(t)]
    BY <1>a, <1>6 DEF Tab, set_screen
  <2>2. IsScreen(t) /\ t.lastResult = s0.lastResult /\ t.view = view /\ t.text = s0.text
    BY <1>0, ScreenView
  <2> HIDE DEF t
  <2>3. /\ t.lastResult = <<>> \/ \E a : t.lastResult = <<a>>
        /\ t.lastResult # <<>> /\ t.lastResult[1].refused => t.text.kind \notin Views
    BY <1>0, <2>2 DEF ShowsLast
  <2>4. IsScreen(renderView(t)) /\ renderView(t).view = t.view /\ ShowsLast(renderView(t))
    BY <2>2, <2>3, Renders
  <2> QED  BY <2>1, <2>2, <2>4
<1> QED  BY <1>2, <1>3, <1>4, <1>5, <1>6 DEF Page

\* What happens on a page leaves the threads apart.
LEMMA PageApart ==
  ASSUME ShownInv, NEW p \in Pages, Page(p)
  PROVE  ShownInv'
<1>0. /\ DOMAIN net = Pages /\ DOMAIN busy = Pages /\ DOMAIN screen = Pages /\ DOMAIN sent = Pages
      /\ DOMAIN wanted = Pages /\ DOMAIN health = Pages
      /\ \A q \in Pages : /\ net[q] \in {"quiet", "request", "reply", "closed"}
                          /\ net[q] # "quiet" => busy[q]
                          /\ ~at(q, "idle") => net[q] = "request"
                          /\ screen[q].view \in Views
                          /\ IsScreen(screen[q]) /\ ShowsLast(screen[q])
  BY DEF ShownInv, ApartInv, Domains, RunsAreApart, TypeOK
<1>1. UNCHANGED <<reply, handler, dirs, files>>
  BY DEF Page, LoadHealth, Click, Answer, Fail, Tab, serverVars
<1>2. /\ DOMAIN sent' = Pages /\ DOMAIN wanted' = Pages /\ DOMAIN health' = Pages
  <2>1. CASE LoadHealth(p)
    BY <1>0, <2>1 DEF LoadHealth, serverVars
  <2>2. CASE Click(p)
    BY <1>0, <2>2 DEF Click
  <2>3. CASE Answer(p) \/ Fail(p) \/ \E view \in Views : Tab(p, view)
    BY <1>0, <2>3 DEF Answer, Fail, Tab, serverVars
  <2> QED  BY <2>1, <2>2, <2>3 DEF Page
<1>3. \/ net' = net /\ busy' = busy
      \/ at(p, "idle") /\ net' = [net EXCEPT ![p] = "request"] /\ busy' = [busy EXCEPT ![p] = TRUE]
      \/ at(p, "idle") /\ net' = [net EXCEPT ![p] = "quiet"] /\ busy' = [busy EXCEPT ![p] = FALSE]
  <2>1. CASE LoadHealth(p) \/ \E view \in Views : Tab(p, view)
    BY <2>1 DEF LoadHealth, Tab, serverVars
  <2>2. CASE Click(p)
    BY <1>0, <2>2 DEF Click
  <2>3. CASE Answer(p) \/ Fail(p)
    BY <1>0, <2>3 DEF Answer, Fail
  <2> QED  BY <2>1, <2>2, <2>3 DEF Page
<1>4. PICK s : /\ screen' = [screen EXCEPT ![p] = s]
               /\ IsScreen(s) /\ s.view \in Views /\ ShowsLast(s)
  BY PageShows
<1>5. /\ DOMAIN screen' = Pages
      /\ \A q \in Pages : IsScreen(screen'[q]) /\ screen'[q].view \in Views /\ ShowsLast(screen'[q])
  <2> SUFFICES ASSUME NEW q \in Pages
               PROVE  IsScreen(screen'[q]) /\ screen'[q].view \in Views /\ ShowsLast(screen'[q])
    BY <1>0, <1>4
  <2>1. screen'[q] = s \/ screen'[q] = screen[q]
    BY <1>0, <1>4
  <2> QED  BY <1>0, <1>4, <2>1
<1>6. Domains'
  BY <1>0, <1>1, <1>2, <1>3, <1>5 DEF ShownInv, ApartInv, Domains
<1>7. TypeOK'
  <2> SUFFICES ASSUME NEW q \in Pages
               PROVE  /\ net'[q] \in {"quiet", "request", "reply", "closed"}
                      /\ net'[q] # "quiet" => busy'[q]
                      /\ handler'[q].step # "idle" => net'[q] = "request"
                      /\ screen'[q].view \in Views
    BY DEF TypeOK, at
  <2> QED  BY <1>0, <1>1, <1>3, <1>5 DEF at
<1>8. DirsOfRunsOnly' /\ \A q \in Pages : (~at(q, "idle") => handler[q].dir \in Dirs)'
  BY <1>1 DEF ShownInv, ApartInv, RunsAreApart, DirsOfRunsOnly, at
<1> QED  BY <1>5, <1>6, <1>7, <1>8 DEF ShownInv, ApartInv, RunsAreApart

\* Nothing runs and nothing is shown at the beginning.
LEMMA InitShown == Init => ShownInv
<1> SUFFICES ASSUME Init PROVE ShownInv
  OBVIOUS
<1> DEFINE s == [message |-> "checking", metric |-> "-", stats |-> no_stats, lastResult |-> <<>>,
                 view |-> "summary", text |-> Shown("nothing", <<>>), graph |-> Shown("nothing", <<>>)]
<1>1. screen = [p \in Pages |-> s]
  BY DEF Init, PageInit
<1>2. IsScreen(s) /\ s.view \in Views
  BY ViewsAssumption DEF IsScreen
<1>3. ShowsLast(s)
  <2>1. Shown("nothing", <<>>).kind \notin Views
    BY OtherKinds
  <2> QED  BY <2>1 DEF ShowsLast, graph_visible
<1>4. \A p \in Pages : at(p, "idle")
  BY DEF Init, ServerInit, at, idle
<1>5. Domains
  <2>1. DOMAIN wanted = Pages
    BY UsersAssumption DEF Init, PageInit
  <2> QED  BY <1>1, <2>1 DEF Domains, Init, ServerInit, PageInit
<1>6. TypeOK
  BY <1>1, <1>2, <1>4 DEF TypeOK, Init, ServerInit, PageInit
<1>7. DirsOfRunsOnly
  BY <1>4 DEF DirsOfRunsOnly, Init, ServerInit
<1> HIDE DEF s
<1> QED  BY <1>1, <1>2, <1>3, <1>4, <1>5, <1>6, <1>7 DEF ShownInv, ApartInv, RunsAreApart

\* Threads stay apart and pages show their last result.
LEMMA NextShown == ShownInv /\ [Next]_vars => ShownInv'
<1> SUFFICES ASSUME ShownInv, [Next]_vars PROVE ShownInv'
  OBVIOUS
<1>1. ASSUME NEW p \in Pages, Handle(p), UNCHANGED pageVars PROVE ShownInv'
  <2>1. ApartInv'
    BY <1>1, HandleApart DEF ShownInv
  <2> QED  BY <1>1, <2>1 DEF ShownInv, pageVars
<1>2. ASSUME NEW p \in Pages, Page(p) PROVE ShownInv'
  BY <1>2, PageApart
<1>3. CASE UNCHANGED vars
  BY <1>3 DEF vars, serverVars, pageVars, ShownInv, ApartInv, Domains, RunsAreApart, TypeOK,
              DirsOfRunsOnly, at
<1> QED  BY <1>1, <1>2, <1>3 DEF Next

\* The invariant of pages and directories.
THEOREM ShownInvariance == Spec => []ShownInv
BY InitShown, NextShown, PTL DEF Spec

(* One run waits per page, works in a directory of its own, and leaves no  *)
(* directory behind, however it ends.                                      *)
THEOREM RunsAreAlwaysApart == Spec => []RunsAreApart
BY ShownInvariance, PTL DEF ShownInv, ApartInv

(* What is visible of a result is the last one, in the open tab.           *)
THEOREM LastResultIsAlwaysShown == Spec => []ShownIsLastResult
<1>1. ShownInv => ShownIsLastResult
  BY DEF ShownInv, ShowsLast, ShownIsLastResult
<1> QED  BY <1>1, ShownInvariance, PTL

\* The checked algorithms of the profile are run, and behind the last rewriting
\* once more the clean-up that is checked.
LEMMA CommandsAreAsAsked ==
  ASSUME NEW q \in DOMAIN Profiles, NEW A
  PROVE  LET b == algorithm_commands(q, A)
             chosen == A \cap Range(Profiles[q])
         IN  /\ Range(b) = chosen
             /\ \A id \in chosen \cap {"dce", "cleanup"}, i \in DOMAIN b :
                  b[i] \in Rewriting => Max({j \in DOMAIN b : b[j] = id}) > i
<1> DEFINE ids == only(Profiles[q], A)
           tidy == <<"dce", "cleanup">>
           more == IF Range(ids) \cap Rewriting = {} THEN <<>> ELSE only(tidy, Range(ids))
           b == algorithm_commands(q, A)
           chosen == A \cap Range(Profiles[q])
<1>1. b = ids \o more
  BY DEF algorithm_commands, normalize_algorithm_ids
<1>2. ids \in Seq(STRING) /\ Range(ids) = chosen
  <2>1. Profiles[q] \in Seq(STRING)
    BY ProfilesAssumption
  <2> QED  BY <2>1, OnlyRange
<1>3. ids \in Seq(Words)
  <2>1. ids \in [1 .. Len(ids) -> STRING] /\ Len(ids) \in Nat /\ DOMAIN ids = 1 .. Len(ids)
    BY <1>2, LenProperties
  <2>2. chosen \subseteq Words
    BY DEF Words, ALGORITHMS
  <2> HIDE DEF ids, chosen
  <2>3. ids \in [1 .. Len(ids) -> Words]
    BY <1>2, <2>1, <2>2 DEF Range
  <2> QED  BY <2>1, <2>3, SeqDef
<1> HIDE DEF ids
<1>4. /\ tidy \in Seq({"dce", "cleanup"}) /\ Range(tidy) = {"dce", "cleanup"}
  <2>1. tidy \in Seq({"dce", "cleanup"})
    OBVIOUS
  <2>2. DOMAIN tidy = {1, 2}
    OBVIOUS
  <2>3. Range(tidy) = {"dce", "cleanup"}
    BY <2>2 DEF Range
  <2> QED  BY <2>1, <2>3
<1> HIDE DEF tidy
<1>5. /\ only(tidy, Range(ids)) \in Seq({"dce", "cleanup"})
      /\ Range(only(tidy, Range(ids))) = {"dce", "cleanup"} \cap chosen
  <2> DEFINE I == Range(ids)
  <2> HIDE DEF I
  <2>1. only(tidy, I) \in Seq({"dce", "cleanup"}) /\ Range(only(tidy, I)) = Range(tidy) \cap I
    BY <1>4, OnlyRange
  <2> QED  BY <1>2, <1>4, <2>1 DEF I
<1>6. /\ more \in Seq({"dce", "cleanup"})
      /\ Range(ids) \cap Rewriting # {} => Range(more) = {"dce", "cleanup"} \cap chosen
      /\ Range(more) \subseteq chosen
  <2>1. <<>> \in Seq({"dce", "cleanup"}) /\ Range(<<>>) = {}
    BY DEF Range
  <2> QED  BY <1>5, <2>1
<1> HIDE DEF more
<1>7. more \in Seq(Words)
  <2>1. more \in [1 .. Len(more) -> {"dce", "cleanup"}] /\ Len(more) \in Nat
        /\ DOMAIN more = 1 .. Len(more)
    BY <1>6, LenProperties
  <2>2. chosen \subseteq Words
    BY DEF Words, ALGORITHMS
  <2> HIDE DEF chosen
  <2>3. more \in [1 .. Len(more) -> Words]
    BY <1>6, <2>1, <2>2 DEF Range
  <2> QED  BY <2>1, <2>3, SeqDef
<1>8. /\ b \in Seq(Words) /\ Len(b) = Len(ids) + Len(more)
      /\ \A i \in 1 .. Len(ids) + Len(more) : b[i] = IF i <= Len(ids) THEN ids[i] ELSE more[i - Len(ids)]
  <2> HIDE DEF b
  <2> QED  BY <1>1, <1>3, <1>7, ConcatProperties
<1>9. /\ Len(ids) \in Nat /\ DOMAIN ids = 1 .. Len(ids) /\ Len(more) \in Nat
      /\ DOMAIN more = 1 .. Len(more)
  BY <1>3, <1>7, LenProperties
<1>10. DOMAIN b = 1 .. Len(ids) + Len(more)
  <2> HIDE DEF b
  <2> QED  BY <1>8, LenProperties
<1> HIDE DEF b, chosen
<1>11. PICK m \in Nat : m = Len(ids)
  BY <1>9
<1>12. PICK n \in Nat : n = Len(more)
  BY <1>9
<1>13. /\ \A i \in 1 .. m : i \in 1 .. m + n /\ b[i] = ids[i]
       /\ \A j \in 1 .. n : m + j \in 1 .. m + n /\ b[m + j] = more[j]
  <2>1. ASSUME NEW i \in 1 .. m PROVE i \in 1 .. m + n /\ b[i] = ids[i]
    <3>1. i \in 1 .. m + n /\ i <= m
      OBVIOUS
    <3> QED  BY <1>8, <1>11, <1>12, <3>1
  <2>2. ASSUME NEW j \in 1 .. n PROVE m + j \in 1 .. m + n /\ b[m + j] = more[j]
    <3>1. m + j \in 1 .. m + n /\ ~(m + j <= m) /\ (m + j) - m = j
      OBVIOUS
    <3> QED  BY <1>8, <1>11, <1>12, <3>1
  <2> QED  BY <2>1, <2>2
<1>14. ASSUME NEW i \in 1 .. m + n, ~(i \in 1 .. m)
       PROVE  \E j \in 1 .. n : i = m + j
  <2>1. i - m \in 1 .. n /\ i = m + (i - m)
    BY <1>14
  <2> QED  BY <2>1
<1>15. Range(b) = chosen
  <2>1. Range(b) = {b[i] : i \in 1 .. m + n} /\ Range(ids) = {ids[i] : i \in 1 .. m}
        /\ Range(more) = {more[j] : j \in 1 .. n}
    BY <1>9, <1>10, <1>11, <1>12 DEF Range
  <2>2. Range(b) = Range(ids) \cup Range(more)
    BY <1>13, <1>14, <2>1
  <2> QED  BY <1>2, <1>6, <2>2
<1>16. ASSUME NEW id \in chosen \cap {"dce", "cleanup"}, NEW i \in DOMAIN b, b[i] \in Rewriting
       PROVE  Max({j \in DOMAIN b : b[j] = id}) > i
  <2> DEFINE S == {j \in DOMAIN b : b[j] = id}
  <2>1. i \in 1 .. m + n
    BY <1>10, <1>11, <1>12
  <2>2. i \in 1 .. m
    <3> SUFFICES ASSUME ~(i \in 1 .. m) PROVE FALSE
      OBVIOUS
    <3>1. PICK j \in 1 .. n : i = m + j
      BY <1>14, <2>1
    <3>2. b[i] = more[j] /\ more[j] \in {"dce", "cleanup"}
      BY <1>6, <1>12, <1>13, <3>1, ElementOfSeq
    <3>3. b[i] # "dce" /\ b[i] # "cleanup"
      BY <1>16 DEF Rewriting
    <3> QED  BY <3>2, <3>3
  <2>3. Range(ids) \cap Rewriting # {}
    <3>1. ids[i] \in Range(ids)
      BY <1>9, <1>11, <2>2 DEF Range
    <3> QED  BY <1>13, <1>16, <2>2, <3>1
  <2>4. PICK j \in 1 .. n : more[j] = id
    <3>1. id \in Range(more)
      BY <1>6, <2>3
    <3> QED  BY <1>9, <1>12, <3>1 DEF Range
  <2>5. m + j \in S
    BY <1>10, <1>11, <1>12, <1>13, <2>4
  <2>6. IsFiniteSet(S) /\ \A y \in S : y \in Int
    <3>1. IsFiniteSet(1 .. m + n)
      BY FS_Interval
    <3>2. S \subseteq 1 .. m + n
      BY <1>10, <1>11, <1>12
    <3>3. IsFiniteSet(S)
      BY <3>1, <3>2, FS_Subset
    <3>4. \A y \in S : y \in Int
      BY <3>2
    <3> QED  BY <3>3, <3>4
  <2> HIDE DEF S
  <2>7. Max(S) \in S /\ Max(S) >= m + j
    <3>1. S # {}
      BY <2>5
    <3>2. Max(S) \in S /\ \A y \in S : Max(S) >= y
      BY <2>6, <3>1, MaxIsGreatest
    <3> QED  BY <2>5, <3>2
  <2>8. Max(S) > i
    <3>1. Max(S) \in Int
      BY <2>6, <2>7
    <3> QED  BY <2>2, <2>7, <3>1
  <2> QED  BY <2>8 DEF S
<1> QED  BY <1>15, <1>16 DEF b, chosen

-----------------------------------------------------------------------------
(* Answers.                                                                *)

IsFile(f) ==
  f = [input |-> f.input, compiled |-> f.compiled, yosys_input |-> f.yosys_input, script |-> f.script,
       after |-> f.after, dot |-> f.dot]

\* What is written to the files of a run.
WithInput(f, x) == [f EXCEPT !.input = x]
WithCompiled(f, x) == [f EXCEPT !.compiled = x]
WithDot(f, x) == [f EXCEPT !.dot = x]
WithScript(f, x, s) == [f EXCEPT !.yosys_input = x, !.script = s]
WithAfter(f, x, d) == [f EXCEPT !.after = x, !.dot = d]

\* A file that is written leaves the others: the source,
LEMMA InputWritten ==
  ASSUME NEW f, IsFile(f), NEW x, NEW t, t = WithInput(f, x)
  PROVE  /\ IsFile(t) /\ t.input = x /\ t.after = f.after
BY DEF IsFile, WithInput

\* the output of the compiler,
LEMMA CompiledWritten ==
  ASSUME NEW f, IsFile(f), NEW x, NEW t, t = WithCompiled(f, x)
  PROVE  IsFile(t) /\ t.after = f.after
BY DEF IsFile, WithCompiled

\* the graph,
LEMMA DotWritten ==
  ASSUME NEW f, IsFile(f), NEW x, NEW t, t = WithDot(f, x)
  PROVE  IsFile(t) /\ t.after = f.after
BY DEF IsFile, WithDot

\* the script with its input,
LEMMA ScriptWritten ==
  ASSUME NEW f, IsFile(f), NEW x, NEW s, NEW t, t = WithScript(f, x, s)
  PROVE  IsFile(t) /\ t.after = f.after /\ t.yosys_input = x /\ t.script = s
<1> DEFINE u == [f EXCEPT !.yosys_input = x]
           w == [u EXCEPT !.script = s]
<1>1. t = w
  BY DEF WithScript
<1>2. IsFile(u) /\ u.after = f.after /\ u.yosys_input = x
  BY DEF IsFile
<1> HIDE DEF u
<1>3. IsFile(w) /\ w.after = u.after /\ w.yosys_input = u.yosys_input /\ w.script = s
  BY <1>2 DEF IsFile
<1> HIDE DEF w
<1> QED  BY <1>1, <1>2, <1>3

\* and what Yosys writes.
LEMMA AfterWritten ==
  ASSUME NEW f, IsFile(f), NEW x, NEW d, NEW t, t = WithAfter(f, x, d)
  PROVE  IsFile(t) /\ t.after = x /\ t.dot = d
<1> DEFINE u == [f EXCEPT !.after = x]
           w == [u EXCEPT !.dot = d]
<1>1. t = w
  BY DEF WithAfter
<1>2. IsFile(u) /\ u.after = x
  BY DEF IsFile
<1> HIDE DEF u
<1>3. IsFile(w) /\ w.after = u.after /\ w.dot = d
  BY <1>2 DEF IsFile
<1> HIDE DEF w
<1> QED  BY <1>1, <1>2, <1>3

\* A request that the page may send, the commands it asks for, and the netlist
\* that its answer is about.
RequestRight(r) == r.source # none.source /\ r.profile \in DOMAIN Profiles
commands(r) == algorithm_commands(r.profile, r.algorithms)
Wanted(r) == Netlist(r.source, IF r.profile = "compiler" THEN <<>> ELSE commands(r))

\* The halves of an answer to a request.
CompilerRight(r, c) ==
  /\ c.rtlil \in {none, Netlist(r.source, <<>>)}
  /\ c.ok => c.rtlil # none

YosysRight(r, y) ==
  /\ y.after \in {none, Wanted(r)}
  /\ y.png => y.after # none
  /\ y.ok => y.after # none /\ y.dot
  /\ y.ok /\ r.profile # "compiler" => y.stats = <<0, Len(commands(r))>>

ReplyRight(r, a) ==
  \/ a = refusal
  \/ /\ ~a.refused
     /\ a.profile = r.profile
     /\ CompilerRight(r, a.compiler)
     /\ YosysRight(r, a.yosys)
     /\ a.yosys.ok /\ (r.profile = "compiler" => a.compiler.ok) <=> a.status = 200

\* A thread with its files, on the way to such an answer.
RunRight(r, h, f) ==
  /\ IsFile(f)
  /\ h.step \in {"compile", "graph", "probe", "optimize", "respond"}
  /\ h.step = "compile" => f.input = r.source
  /\ h.step # "compile" => CompilerRight(r, h.compiler)
  /\ h.step = "graph" => r.profile = "compiler"
  /\ h.step \in {"probe", "optimize"} => r.profile # "compiler"
  /\ h.step # "respond" => f.after = none
  /\ h.step = "optimize" => f.yosys_input = r.source /\ f.script = build_yosys_script(r.profile, r.algorithms)
  /\ h.step = "respond" => YosysRight(r, h.yosys)

\* A screen that says how a run went.
DoneRight(s) ==
  LET result == s.lastResult[1]
  IN  s.message \in {"done", "partial", "failed"} =>
        /\ s.metric = s.message
        /\ s.message = "done" <=> result.status = 200
        /\ s.message = "done" =>
             /\ result.yosys.ok /\ result.yosys.after # none /\ result.yosys.dot
             /\ IF result.profile = "compiler"
                THEN result.compiler.ok /\ result.yosys.after = result.compiler.rtlil
                ELSE s.stats = <<0, Len(result.yosys.after.passes)>>

AnswerInv ==
  /\ ShownInv
  /\ \A p \in Pages : RequestRight(sent[p]) /\ wanted[p] \in Seq(Request)
  /\ \A p \in Pages : ~at(p, "idle") => RunRight(sent[p], handler[p], mine(p))
  /\ \A p \in Pages : net[p] = "reply" => ReplyRight(sent[p], reply[p])
  /\ \A d \in Dirs \ dirs : files[d] = no_files
  /\ \A p \in Pages : DoneRight(screen[p])

\* Netlists tell where they come from.
LEMMA NetlistOf ==
  ASSUME NEW r, RequestRight(r), NEW passes
  PROVE  /\ Netlist(r.source, passes) # none
         /\ Netlist(r.source, passes).source = r.source /\ Netlist(r.source, passes).passes = passes
BY DEF RequestRight, Netlist, none

\* The answer of a thread is right when its halves are.
LEMMA FailedHalf ==
  ASSUME NEW r, NEW available \in BOOLEAN
  PROVE  YosysRight(r, failed_yosys_payload(available))
BY DEF YosysRight, failed_yosys_payload, Ran

\* The compiler fails, with or without output, or writes what it read.
LEMMA CompiledHalf ==
  ASSUME NEW r, RequestRight(r), NEW available \in BOOLEAN, NEW ok \in BOOLEAN,
         NEW rtlil \in {none, Netlist(r.source, <<>>)}, ok => rtlil # none
  PROVE  CompilerRight(r, Compiled(available, ok, rtlil))
BY DEF CompilerRight, Compiled

\* Drawing what the compiler wrote.
LEMMA GraphHalf ==
  ASSUME NEW r, RequestRight(r), r.profile = "compiler", NEW c, CompilerRight(r, c), c.ok,
         NEW succeeded \in BOOLEAN, NEW dot \in BOOLEAN, NEW image \in BOOLEAN, NEW stats
  PROVE  YosysRight(r, Ran(TRUE, succeeded /\ dot, c.rtlil, dot, image, stats))
<1>1. c.rtlil = Wanted(r) /\ c.rtlil # none
  BY DEF CompilerRight, Wanted
<1>2. PICK a : a = c.rtlil
  OBVIOUS
<1> DEFINE y == Ran(TRUE, succeeded /\ dot, a, dot, image, stats)
<1>3. y.after = a /\ y.ok = (succeeded /\ dot) /\ y.dot = dot /\ y.png = (dot /\ image)
  BY DEF Ran
<1> HIDE DEF y
<1>4. YosysRight(r, y)
  BY <1>1, <1>2, <1>3 DEF YosysRight
<1> QED  BY <1>2, <1>4 DEF y

\* Running the first lines of a script.
LEMMA ScriptHalf ==
  ASSUME NEW r, RequestRight(r), r.profile # "compiler", NEW f, IsFile(f),
         f.after = none, f.yosys_input = r.source,
         f.script = build_yosys_script(r.profile, r.algorithms),
         NEW k \in 0 .. Len(f.script), NEW image \in BOOLEAN
  PROVE  LET g == ran_to(f, k)
         IN  /\ IsFile(g)
             /\ YosysRight(r, Ran(TRUE, k = Len(f.script), g.after, g.dot, image,
                                  summarize_stats(SubSeq(f.script, 1, k))))
<1> DEFINE b == commands(r)
           n == Len(b)
           s == build_yosys_script(r.profile, r.algorithms)
           t == SubSeq(s, 1, k)
           g == ran_to(f, k)
<1>1. n \in Nat /\ Len(s) = n + 9 /\ s \in Seq(Words)
  BY ScriptShape DEF commands, RequestRight
<1>2. k \in 0 .. Len(s) /\ f.script = s
  OBVIOUS
<1>3. ("write_after" \in Range(t) <=> k >= n + 7) /\ ("show" \in Range(t) <=> k >= n + 9)
  BY <1>2, PrefixWrites DEF commands, RequestRight
<1>4. k >= n + 5 => passes_of(t) = b
  BY <1>2, PrefixPasses DEF commands, RequestRight
<1>5. k = Len(s) => summarize_stats(t) = <<0, n>>
  <2> SUFFICES ASSUME k = Len(s) PROVE summarize_stats(t) = <<0, n>>
    OBVIOUS
  <2>1. t = s
    <3> HIDE DEF s
    <3> QED  BY <1>1, SubSeqFull
  <2>2. summarize_stats(s) = <<0, n>>
    BY ScriptStats DEF commands, RequestRight
  <2> QED  BY <2>1, <2>2
<1> HIDE DEF s, t, b
<1> DEFINE after == IF "write_after" \in Range(t) THEN Netlist(r.source, passes_of(t)) ELSE none
           dot == "show" \in Range(t)
<1>6. g = WithAfter(f, after, dot)
  BY <1>2 DEF ran_to, WithAfter, t
<1>7. after = (IF k >= n + 7 THEN Wanted(r) ELSE none) /\ (dot <=> k >= n + 9)
  <2>1. k >= n + 7 => k >= n + 5
    <3> HIDE DEF n
    <3> QED  BY <1>1, <1>2
  <2>2. Wanted(r) = Netlist(r.source, b)
    BY DEF Wanted, b
  <2> HIDE DEF n
  <2> QED  BY <1>3, <1>4, <2>1, <2>2
<1> HIDE DEF g, after, dot
<1>8. IsFile(g) /\ g.after = after /\ g.dot = dot
  BY <1>6, AfterWritten
<1>9. Wanted(r) # none
  BY NetlistOf DEF Wanted
<1>10. PICK st : st = summarize_stats(t)
  OBVIOUS
<1> DEFINE y == Ran(TRUE, k = Len(s), g.after, g.dot, image, st)
<1>11. y.after = after /\ y.ok = (k = Len(s)) /\ y.dot = dot /\ y.png = (dot /\ image) /\ y.stats = st
  BY <1>8 DEF Ran
<1> HIDE DEF y
<1>12. YosysRight(r, y)
  <2> HIDE DEF n
  <2>1. y.after \in {none, Wanted(r)}
    BY <1>7, <1>11
  <2>a. (k >= n + 9 => k >= n + 7) /\ (k = Len(s) => k >= n + 9)
    BY <1>1, <1>2
  <2>2. dot => y.after # none
    BY <1>7, <1>9, <1>11, <2>a
  <2>3. y.png => y.after # none
    BY <1>11, <2>2
  <2>4. k = Len(s) => dot
    BY <1>7, <2>a
  <2>5. k = Len(s) => st = <<0, Len(commands(r))>>
    BY <1>5, <1>10 DEF n, b
  <2> QED  BY <1>11, <2>1, <2>2, <2>3, <2>4, <2>5 DEF YosysRight
<1> QED  BY <1>2, <1>8, <1>10, <1>12 DEF g, y, t

\* A thread that starts or works on stays on the way to a right answer.
LEMMA RunKept ==
  ASSUME AnswerInv, NEW p \in Pages, Handle(p), ~(at(p, "idle"))'
  PROVE  RunRight(sent[p], handler'[p], files'[handler'[p].dir])
<1>0. DOMAIN handler = Pages /\ DOMAIN files = Dirs /\ RequestRight(sent[p])
  BY DEF AnswerInv, ShownInv, ApartInv, Domains
<1>a. PICK r : r = sent[p]
  OBVIOUS
<1>b. PICK h : h = handler[p]
  OBVIOUS
<1>c. PICK d : d = h.dir
  OBVIOUS
<1>d. PICK f : f = files[d]
  OBVIOUS
<1>e. ~at(p, "idle") => d \in Dirs /\ RunRight(r, h, f)
  BY <1>a, <1>b, <1>c, <1>d DEF AnswerInv, ShownInv, ApartInv, mine
<1>f. RequestRight(r)
  BY <1>0, <1>a
<1>g. \A step, c, y : go(p, step, c, y) =>
        handler'[p] = [step |-> step, dir |-> d, compiler |-> c, yosys |-> y]
  BY <1>0, <1>b, <1>c DEF go
<1>h. ASSUME NEW t, write(p, t), ~at(p, "idle")
      PROVE  files'[d] = t
  BY <1>0, <1>b, <1>c, <1>e, <1>h DEF write
<1>1. CASE Refuse(p)
  BY <1>1 DEF Refuse, at
<1>2. CASE Receive(p)
  <2> DEFINE h2 == [idle EXCEPT !.step = "compile", !.dir = fresh_dir]
  <2>1. fresh_dir \in Dirs /\ fresh_dir \notin dirs
    BY <1>2, FreshDir DEF Receive, AnswerInv, ShownInv
  <2>2. handler'[p] = h2
    BY <1>0, <1>2 DEF Receive
  <2>3. h2.step = "compile" /\ h2.dir = fresh_dir
    BY DEF idle
  <2> HIDE DEF h2
  <2>4. files'[fresh_dir] = [files[fresh_dir] EXCEPT !.input = r.source]
    BY <1>0, <1>2, <1>a, <2>1 DEF Receive
  <2>5. files[fresh_dir] = no_files
    BY <2>1 DEF AnswerInv
  <2>6. PICK t : t = WithInput(no_files, r.source)
    OBVIOUS
  <2>7. files'[fresh_dir] = t
    BY <2>4, <2>5, <2>6 DEF WithInput
  <2>8. IsFile(no_files) /\ no_files.after = none
    BY DEF IsFile, no_files
  <2>9. IsFile(t) /\ t.input = r.source /\ t.after = none
    BY <2>6, <2>8, InputWritten
  <2>10. RunRight(r, h2, t)
    BY <2>3, <2>9 DEF RunRight
  <2> QED  BY <1>a, <2>2, <2>3, <2>7, <2>10
<1>3. CASE Compile(p)
  <2>1. h.step = "compile" /\ ~at(p, "idle")
    BY <1>3, <1>b DEF Compile, at
  <2>2. IsFile(f) /\ f.input = r.source /\ f.after = none
    BY <1>e, <2>1 DEF RunRight
  <2>3. ASSUME NEW c, CompilerRight(r, c), NEW t, IsFile(t), t.after = none, NEW h2,
               h2.step = (IF r.profile = "compiler" THEN "graph" ELSE "probe"), h2.compiler = c
        PROVE  RunRight(r, h2, t)
    BY <2>3 DEF RunRight
  <2> DEFINE next == IF r.profile = "compiler" THEN "graph" ELSE "probe"
  <2>a. Netlist(f.input, <<>>) = Netlist(r.source, <<>>) /\ Netlist(r.source, <<>>) # none
    BY <1>f, <2>2, NetlistOf
  <2>4. ASSUME NEW available \in BOOLEAN,
               go(p, next, Compiled(available, FALSE, none), no_yosys), UNCHANGED files
        PROVE  RunRight(r, handler'[p], files'[handler'[p].dir])
    <3> DEFINE c == Compiled(available, FALSE, none)
    <3>1. CompilerRight(r, c)
      BY <1>f, CompiledHalf
    <3> HIDE DEF c, next
    <3>2. handler'[p] = [step |-> next, dir |-> d, compiler |-> c, yosys |-> no_yosys]
      BY <1>g, <2>4 DEF c
    <3>3. handler'[p].step = next /\ handler'[p].dir = d /\ handler'[p].compiler = c
      BY <3>2
    <3>4. files'[d] = f
      BY <1>d, <2>4
    <3> QED  BY <2>2, <2>3, <3>1, <3>3, <3>4 DEF next
  <2>5. ASSUME NEW ok \in BOOLEAN,
               go(p, next, Compiled(TRUE, ok, Netlist(f.input, <<>>)), no_yosys),
               write(p, [mine(p) EXCEPT !.compiled = Netlist(f.input, <<>>)])
        PROVE  RunRight(r, handler'[p], files'[handler'[p].dir])
    <3> DEFINE c == Compiled(TRUE, ok, Netlist(f.input, <<>>))
    <3>1. CompilerRight(r, c)
      BY <1>f, <2>a, CompiledHalf
    <3>2. PICK t : t = WithCompiled(f, Netlist(f.input, <<>>))
      OBVIOUS
    <3>3. IsFile(t) /\ t.after = none
      BY <2>2, <3>2, CompiledWritten
    <3>4. files'[d] = t
      BY <1>b, <1>c, <1>d, <1>h, <2>1, <2>5, <3>2 DEF WithCompiled, mine
    <3> HIDE DEF c, next
    <3>5. handler'[p] = [step |-> next, dir |-> d, compiler |-> c, yosys |-> no_yosys]
      BY <1>g, <2>5 DEF c
    <3>6. handler'[p].step = next /\ handler'[p].dir = d /\ handler'[p].compiler = c
      BY <3>5
    <3> QED  BY <2>3, <3>1, <3>3, <3>4, <3>6 DEF next
  <2>6. mine(p).input = f.input
    BY <1>b, <1>c, <1>d DEF mine
  <2> QED  BY <1>3, <1>a, <2>4, <2>5, <2>6 DEF Compile
<1>4. ASSUME NEW c, CompilerRight(r, c), NEW y, YosysRight(r, y), go(p, "respond", c, y),
             IsFile(files'[d])
      PROVE  RunRight(r, handler'[p], files'[handler'[p].dir])
  <2>1. handler'[p] = [step |-> "respond", dir |-> d, compiler |-> c, yosys |-> y]
    BY <1>4, <1>g
  <2>2. handler'[p].step = "respond" /\ handler'[p].dir = d /\ handler'[p].compiler = c
        /\ handler'[p].yosys = y
    BY <2>1
  <2> QED  BY <1>4, <2>2 DEF RunRight
<1>5. CASE Graph(p)
  <2>1. h.step = "graph" /\ ~at(p, "idle")
    BY <1>5, <1>b DEF Graph, at
  <2>2. IsFile(f) /\ CompilerRight(r, h.compiler) /\ r.profile = "compiler"
    BY <1>e, <2>1 DEF RunRight
  <2>a. PICK c : c = h.compiler
    OBVIOUS
  <2>3. ASSUME NEW available \in BOOLEAN,
               go(p, "respond", c, failed_yosys_payload(available)), UNCHANGED files
        PROVE  RunRight(r, handler'[p], files'[handler'[p].dir])
    BY <1>4, <1>d, <2>2, <2>3, <2>a, FailedHalf
  <2>4. ASSUME c.ok, NEW succeeded \in BOOLEAN, NEW dot \in BOOLEAN, NEW image \in BOOLEAN, NEW stats,
               write(p, [mine(p) EXCEPT !.dot = dot]),
               go(p, "respond", c, Ran(TRUE, succeeded /\ dot, c.rtlil, dot, image, stats))
        PROVE  RunRight(r, handler'[p], files'[handler'[p].dir])
    <3>1. YosysRight(r, Ran(TRUE, succeeded /\ dot, c.rtlil, dot, image, stats))
      BY <1>f, <2>2, <2>4, <2>a, GraphHalf
    <3>2. PICK t : t = WithDot(f, dot)
      OBVIOUS
    <3>3. IsFile(t)
      BY <2>2, <3>2, DotWritten
    <3>4. files'[d] = t
      BY <1>b, <1>c, <1>d, <1>h, <2>1, <2>4, <3>2 DEF WithDot, mine
    <3> QED  BY <1>4, <2>2, <2>4, <2>a, <3>1, <3>3, <3>4
  <2>5. \/ \E available \in BOOLEAN :
             go(p, "respond", c, failed_yosys_payload(available)) /\ UNCHANGED files
        \/ c.ok /\ \E succeeded, dot, image \in BOOLEAN : \E stats :
             /\ write(p, [mine(p) EXCEPT !.dot = dot])
             /\ go(p, "respond", c, Ran(TRUE, succeeded /\ dot, c.rtlil, dot, image, stats))
    BY <1>5, <1>b, <2>a DEF Graph
  <2> QED  BY <1>a, <2>3, <2>4, <2>5
<1>6. CASE Probe(p)
  <2>1. h.step = "probe" /\ ~at(p, "idle")
    BY <1>6, <1>b DEF Probe, at
  <2>2. IsFile(f) /\ f.after = none /\ CompilerRight(r, h.compiler) /\ r.profile # "compiler"
    BY <1>e, <2>1 DEF RunRight
  <2>a. PICK c : c = h.compiler
    OBVIOUS
  <2>3. ASSUME NEW available \in BOOLEAN,
               go(p, "respond", c, failed_yosys_payload(available)), UNCHANGED files
        PROVE  RunRight(r, handler'[p], files'[handler'[p].dir])
    BY <1>4, <1>d, <2>2, <2>3, <2>a, FailedHalf
  <2> DEFINE s == build_yosys_script(r.profile, r.algorithms)
  <2>4. ASSUME go(p, "optimize", c, no_yosys),
               write(p, [mine(p) EXCEPT !.yosys_input = r.source, !.script = s])
        PROVE  RunRight(r, handler'[p], files'[handler'[p].dir])
    <3> HIDE DEF s
    <3>2. PICK t : t = WithScript(f, r.source, s)
      OBVIOUS
    <3>3. IsFile(t) /\ t.after = none /\ t.yosys_input = r.source /\ t.script = s
      BY <2>2, <3>2, ScriptWritten
    <3>4. files'[d] = t
      BY <1>b, <1>c, <1>d, <1>h, <2>1, <2>4, <3>2 DEF WithScript, mine
    <3>5. handler'[p] = [step |-> "optimize", dir |-> d, compiler |-> c, yosys |-> no_yosys]
      BY <1>g, <2>4
    <3>6. handler'[p].step = "optimize" /\ handler'[p].dir = d /\ handler'[p].compiler = c
      BY <3>5
    <3> QED  BY <2>2, <2>a, <3>3, <3>4, <3>6 DEF RunRight, s
  <2> QED  BY <1>6, <1>a, <1>b, <2>a, <2>3, <2>4 DEF Probe
<1>7. CASE Optimize(p)
  <2>1. h.step = "optimize" /\ ~at(p, "idle")
    BY <1>7, <1>b DEF Optimize, at
  <2>2. /\ IsFile(f) /\ f.after = none /\ CompilerRight(r, h.compiler) /\ r.profile # "compiler"
        /\ f.yosys_input = r.source /\ f.script = build_yosys_script(r.profile, r.algorithms)
    BY <1>e, <2>1 DEF RunRight
  <2>a. PICK c : c = h.compiler
    OBVIOUS
  <2>3. ASSUME go(p, "respond", c, failed_yosys_payload(TRUE)), UNCHANGED files
        PROVE  RunRight(r, handler'[p], files'[handler'[p].dir])
    <3>1. TRUE \in BOOLEAN
      OBVIOUS
    <3> QED  BY <1>4, <1>d, <2>2, <2>3, <2>a, <3>1, FailedHalf
  <2>4. ASSUME NEW k \in 0 .. Len(f.script), NEW image \in BOOLEAN,
               write(p, ran_to(f, k)),
               go(p, "respond", c, Ran(TRUE, k = Len(f.script), ran_to(f, k).after, ran_to(f, k).dot, image,
                                       summarize_stats(SubSeq(f.script, 1, k))))
        PROVE  RunRight(r, handler'[p], files'[handler'[p].dir])
    <3> DEFINE g == ran_to(f, k)
               y == Ran(TRUE, k = Len(f.script), g.after, g.dot, image,
                        summarize_stats(SubSeq(f.script, 1, k)))
    <3>1. IsFile(g) /\ YosysRight(r, y)
      BY <1>f, <2>2, ScriptHalf
    <3>2. files'[d] = g
      BY <1>h, <2>1, <2>4
    <3>3. go(p, "respond", c, y)
      BY <2>4
    <3> HIDE DEF g, y
    <3> QED  BY <1>4, <2>2, <2>a, <3>1, <3>2, <3>3
  <2>5. mine(p) = f
    BY <1>b, <1>c, <1>d DEF mine
  <2> QED  BY <1>7, <1>a, <1>b, <2>a, <2>3, <2>4, <2>5 DEF Optimize
<1>8. CASE Respond(p) \/ Crash(p)
  <2>1. handler'[p].step = "idle"
    BY <1>0, <1>8 DEF Respond, Crash, close, idle
  <2> QED  BY <2>1 DEF at
<1> QED  BY <1>1, <1>2, <1>3, <1>5, <1>6, <1>7, <1>8 DEF Handle

\* A thread writes in its own directory only.
LEMMA FilesKept ==
  ASSUME AnswerInv, NEW p \in Pages, Handle(p)
  PROVE  /\ \A e \in dirs : at(p, "idle") \/ e # handler[p].dir => files'[e] = files[e]
         /\ \A e \in Dirs \ dirs' : files'[e] = no_files
<1>0. DOMAIN handler = Pages /\ DOMAIN files = Dirs /\ \A e \in Dirs \ dirs : files[e] = no_files
  BY DEF AnswerInv, ShownInv, ApartInv, Domains
<1>1. dirs \subseteq Dirs /\ (~at(p, "idle") => handler[p].dir \in dirs)
  BY DEF AnswerInv, ShownInv, ApartInv, RunsAreApart, DirsOfRunsOnly
<1>2. CASE Refuse(p)
  BY <1>0, <1>2 DEF Refuse
<1>3. CASE Receive(p)
  <2>1. at(p, "idle") /\ fresh_dir \in Dirs /\ fresh_dir \notin dirs
    BY <1>3, FreshDir DEF Receive, AnswerInv, ShownInv
  <2>2. dirs' = dirs \cup {fresh_dir} /\ \A e \in Dirs : e # fresh_dir => files'[e] = files[e]
    BY <1>0, <1>3 DEF Receive
  <2> QED  BY <1>0, <1>1, <2>1, <2>2
<1>4. CASE Compile(p) \/ Graph(p) \/ Probe(p) \/ Optimize(p)
  <2>1. ~at(p, "idle") /\ dirs' = dirs
    BY <1>4 DEF Compile, Graph, Probe, Optimize, at
  <2>2. UNCHANGED files \/ \E t : write(p, t)
    <3>1. CASE Compile(p)
      BY <3>1 DEF Compile
    <3>2. CASE Graph(p)
      BY <3>2 DEF Graph
    <3>3. CASE Probe(p)
      BY <3>3 DEF Probe
    <3>4. CASE Optimize(p)
      BY <3>4 DEF Optimize
    <3> QED  BY <1>4, <3>1, <3>2, <3>3, <3>4
  <2>3. \A e \in Dirs : e # handler[p].dir => files'[e] = files[e]
    BY <1>0, <2>2 DEF write
  <2> QED  BY <1>0, <1>1, <2>1, <2>3
<1>5. CASE Respond(p) \/ Crash(p)
  <2>1. ~at(p, "idle")
    BY <1>5 DEF Respond, Crash, at
  <2>2. dirs' = dirs \ {handler[p].dir} /\ files' = [files EXCEPT ![handler[p].dir] = no_files]
    BY <1>5 DEF Respond, Crash, close
  <2> QED  BY <1>0, <1>1, <2>1, <2>2
<1> QED  BY <1>2, <1>3, <1>4, <1>5 DEF Handle

\* What a thread answers is right.
LEMMA ReplyKept ==
  ASSUME AnswerInv, NEW p \in Pages, Handle(p), net'[p] = "reply"
  PROVE  ReplyRight(sent[p], reply'[p])
<1>0. DOMAIN reply = Pages /\ DOMAIN net = Pages /\ net[p] = "request"
  BY HandleChanges DEF AnswerInv, ShownInv, ApartInv, Domains
<1>1. Refuse(p) \/ Respond(p)
  BY <1>0 DEF Handle, Receive, Compile, Graph, Probe, Optimize, Crash
<1>2. CASE Refuse(p)
  BY <1>0, <1>2 DEF Refuse, ReplyRight
<1>3. CASE Respond(p)
  <2>a. PICK r : r = sent[p]
    OBVIOUS
  <2>b. PICK h : h = handler[p]
    OBVIOUS
  <2>1. h.step = "respond" /\ RunRight(r, h, mine(p))
    BY <1>3, <2>a, <2>b DEF Respond, at, AnswerInv
  <2>2. CompilerRight(r, h.compiler) /\ YosysRight(r, h.yosys)
    BY <2>1 DEF RunRight
  <2>3. reply'[p] = [status |-> IF run_flow_ok(p) THEN 200 ELSE 400, refused |-> FALSE,
                     profile |-> r.profile, compiler |-> h.compiler, yosys |-> h.yosys]
    BY <1>0, <1>3, <2>a, <2>b DEF Respond
  <2>4. PICK a : a = reply'[p]
    OBVIOUS
  <2>5. /\ ~a.refused /\ a.profile = r.profile /\ a.compiler = h.compiler /\ a.yosys = h.yosys
        /\ a.status = IF run_flow_ok(p) THEN 200 ELSE 400
    BY <2>3, <2>4
  <2>6. h.yosys.ok /\ (r.profile = "compiler" => h.compiler.ok) <=> run_flow_ok(p)
    BY <2>a, <2>b DEF run_flow_ok
  <2>7. ReplyRight(r, a)
    BY <2>2, <2>5, <2>6 DEF ReplyRight
  <2> QED  BY <2>a, <2>4, <2>7
<1> QED  BY <1>1, <1>2, <1>3

\* A step of a thread leaves the others on their way.
LEMMA HandleAnswers ==
  ASSUME AnswerInv, NEW p \in Pages, Handle(p), UNCHANGED pageVars
  PROVE  AnswerInv'
<1>1. ShownInv' /\ UNCHANGED <<wanted, screen>>
  <2>1. ApartInv'
    BY HandleApart DEF AnswerInv, ShownInv
  <2> QED  BY <2>1 DEF AnswerInv, ShownInv, pageVars
<1>2. /\ sent' = sent
      /\ \A q \in Pages \ {p} : reply'[q] = reply[q] /\ handler'[q] = handler[q]
      /\ \A q \in Pages \ {p} : net'[q] = net[q]
  <2>1. ApartInv /\ DOMAIN net = Pages
    BY DEF AnswerInv, ShownInv, ApartInv, Domains
  <2>2. \A q \in Pages \ {p} : handler'[q] = handler[q]
    BY <2>1, HandleMoves, DirsKept
  <2> QED  BY <2>1, <2>2, HandleChanges
<1>3. (\A q \in Pages : RequestRight(sent[q]) /\ wanted[q] \in Seq(Request))'
  BY <1>1, <1>2 DEF AnswerInv
<1>4. ASSUME NEW q \in Pages, ~(at(q, "idle"))'
      PROVE  RunRight(sent'[q], handler'[q], files'[handler'[q].dir])
  <2>1. CASE q = p
    BY <1>2, <1>4, <2>1, RunKept
  <2>2. CASE q # p
    <3>1. ~at(q, "idle") /\ handler'[q] = handler[q]
      BY <1>2, <1>4, <2>2 DEF at
    <3>2. /\ handler[q].dir \in dirs
          /\ ~at(p, "idle") => handler[q].dir # handler[p].dir
      BY <2>2, <3>1 DEF AnswerInv, ShownInv, ApartInv, RunsAreApart, DirsOfRunsOnly
    <3>3. files'[handler[q].dir] = files[handler[q].dir]
      BY <3>2, FilesKept
    <3>4. RunRight(sent[q], handler[q], files[handler[q].dir])
      BY <3>1 DEF AnswerInv, mine
    <3> QED  BY <1>2, <3>1, <3>3, <3>4
  <2> QED  BY <2>1, <2>2
<1>5. ASSUME NEW q \in Pages, net'[q] = "reply"
      PROVE  ReplyRight(sent'[q], reply'[q])
  <2>1. CASE q = p
    BY <1>2, <1>5, <2>1, ReplyKept
  <2>2. CASE q # p
    BY <1>2, <1>5, <2>2 DEF AnswerInv
  <2> QED  BY <2>1, <2>2
<1>6. \A e \in Dirs \ dirs' : files'[e] = no_files
  BY FilesKept
<1>7. (\A q \in Pages : DoneRight(screen[q]))'
  BY <1>1 DEF AnswerInv
<1> QED  BY <1>1, <1>3, <1>4, <1>5, <1>6, <1>7 DEF AnswerInv, mine

\* The page sends what the user wants, or the full profile.
LEMMA ClickKept ==
  ASSUME AnswerInv, NEW p \in Pages, Click(p)
  PROVE  RequestRight(sent'[p]) /\ wanted'[p] \in Seq(Request)
<1>0. DOMAIN sent = Pages /\ DOMAIN wanted = Pages /\ wanted[p] \in Seq(Request) /\ wanted[p] # <<>>
  BY DEF AnswerInv, ShownInv, ApartInv, Domains, Click
<1>1. PICK w : w = Head(wanted[p])
  OBVIOUS
<1>2. w \in Request /\ Tail(wanted[p]) \in Seq(Request)
  BY <1>0, <1>1, HeadTailProperties
<1>3. w.source # none.source /\ w.profile \in DOMAIN Profiles /\ "full" \in DOMAIN Profiles
      /\ w = [source |-> w.source, profile |-> w.profile, algorithms |-> w.algorithms]
  BY <1>2, ProfilesAssumption DEF Request
<1>4. wanted'[p] \in Seq(Request)
  BY <1>0, <1>2 DEF Click
<1>5. sent'[p] = w \/ sent'[p] = [w EXCEPT !.profile = "full", !.algorithms = {}]
  BY <1>0, <1>1 DEF Click
<1>6. RequestRight([w EXCEPT !.profile = "full", !.algorithms = {}])
  <2> DEFINE u == [w EXCEPT !.profile = "full"]
             v == [u EXCEPT !.algorithms = {}]
  <2>1. u = [source |-> w.source, profile |-> "full", algorithms |-> w.algorithms]
    BY <1>3
  <2> HIDE DEF u
  <2>2. v = [source |-> w.source, profile |-> "full", algorithms |-> {}]
    BY <2>1
  <2> HIDE DEF v
  <2>3. RequestRight(v)
    BY <1>3, <2>2 DEF RequestRight
  <2> QED  BY <2>3 DEF u, v
<1> QED  BY <1>3, <1>4, <1>5, <1>6 DEF RequestRight

\* "Done" is right: it is said of the answers the server accepted.
LEMMA DoneIsRight ==
  ASSUME NEW r, RequestRight(r), NEW a, ReplyRight(r, a), NEW s,
         s.message = result_message(a),
         s.metric = status(a.profile = "compiler", a.compiler.ok, a.yosys.ok),
         s.stats = a.yosys.stats, s.lastResult = <<a>>, ~a.refused
  PROVE  DoneRight(s)
<1>1. /\ a.profile = r.profile /\ CompilerRight(r, a.compiler) /\ YosysRight(r, a.yosys)
      /\ a.yosys.ok /\ (r.profile = "compiler" => a.compiler.ok) <=> a.status = 200
  BY DEF ReplyRight, refusal
<1>2. s.metric = s.message
  BY DEF result_message
<1>3. s.message = "done" <=> a.yosys.ok /\ (a.profile = "compiler" => a.compiler.ok)
  BY DEF result_message, status
<1>4. s.message = "done" <=> a.status = 200
  BY <1>1, <1>3
<1>5. ASSUME s.message = "done"
      PROVE  /\ a.yosys.ok /\ a.yosys.after # none /\ a.yosys.dot
             /\ IF a.profile = "compiler" THEN a.compiler.ok /\ a.yosys.after = a.compiler.rtlil
                ELSE s.stats = <<0, Len(a.yosys.after.passes)>>
  <2>1. a.yosys.ok /\ a.yosys.after # none /\ a.yosys.dot /\ a.yosys.after = Wanted(r)
    BY <1>1, <1>3, <1>5 DEF YosysRight
  <2>2. CASE a.profile = "compiler"
    <3>1. a.compiler.ok /\ a.compiler.rtlil = Wanted(r)
      BY <1>1, <1>3, <1>5, <2>2 DEF CompilerRight, Wanted
    <3> QED  BY <2>1, <2>2, <3>1
  <2>3. CASE a.profile # "compiler"
    <3>1. a.yosys.after.passes = commands(r)
      BY <1>1, <2>1, <2>3, NetlistOf DEF Wanted
    <3>2. s.stats = <<0, Len(commands(r))>>
      BY <1>1, <1>3, <1>5, <2>3 DEF YosysRight
    <3> QED  BY <2>1, <2>3, <3>1, <3>2
  <2> QED  BY <2>2, <2>3
<1>6. s.lastResult[1] = a
  OBVIOUS
<1> QED  BY <1>2, <1>4, <1>5, <1>6 DEF DoneRight

\* Messages that say how a run went.
Concludes(m) == m \in {"done", "partial", "failed"}

\* A screen that says something else, or the same of the same result.
LEMMA DoneOtherwise ==
  ASSUME NEW s, ~Concludes(s.message)
  PROVE  DoneRight(s)
BY DEF DoneRight, Concludes

\* Messages that conclude nothing.
LEMMA NoConclusion ==
  /\ ~Concludes("checking") /\ ~Concludes("ready") /\ ~Concludes("not connected")
  /\ ~Concludes("running") /\ ~Concludes("request failed")
BY DEF Concludes

\* The same said of the same result.
LEMMA DoneStill ==
  ASSUME NEW s, DoneRight(s), NEW t, t.message = s.message, t.metric = s.metric,
         t.stats = s.stats, t.lastResult = s.lastResult
  PROVE  DoneRight(t)
BY DEF DoneRight

\* Whatever happens on a page, it says "done" of nothing else.
LEMMA PageDone ==
  ASSUME AnswerInv, NEW p \in Pages, Page(p)
  PROVE  DoneRight(screen'[p])
<1>a. PICK s0 : s0 = screen[p]
  OBVIOUS
<1>0. /\ IsScreen(s0) /\ ShowsLast(s0) /\ DoneRight(s0) /\ RequestRight(sent[p])
      /\ DOMAIN screen = Pages
  BY <1>a DEF AnswerInv, ShownInv, ApartInv, Domains
<1>1. ASSUME NEW m, ~Concludes(m), NEW v,
             screen' = [screen EXCEPT ![p] = [s0 EXCEPT !.message = m, !.text = v]]
      PROVE  DoneRight(screen'[p])
  <2>0. PICK t : t = Says(s0, m, v)
    OBVIOUS
  <2>1. screen'[p] = t
    BY <1>0, <1>1, <2>0 DEF Says
  <2>2. t.message = m
    BY <1>0, <2>0, ScreenMessage
  <2> QED  BY <1>1, <2>1, <2>2, DoneOtherwise
<1>2. CASE LoadHealth(p)
  <2>1. \E m, v : /\ ~Concludes(m)
                  /\ screen' = [screen EXCEPT ![p] = [s0 EXCEPT !.message = m, !.text = v]]
    BY <1>2, <1>a, NoConclusion DEF LoadHealth, set_screen
  <2> QED  BY <1>1, <2>1
<1>3. CASE Click(p)
  <2>1. \E m, v : /\ ~Concludes(m)
                  /\ screen' = [screen EXCEPT ![p] = [s0 EXCEPT !.message = m, !.text = v]]
    BY <1>3, <1>a, NoConclusion DEF Click, set_screen
  <2> QED  BY <1>1, <2>1
<1>4. CASE Fail(p)
  <2>1. \E m, v : /\ ~Concludes(m)
                  /\ screen' = [screen EXCEPT ![p] = [s0 EXCEPT !.message = m, !.text = v]]
    BY <1>4, <1>a, NoConclusion DEF Fail, set_screen, failed_request
  <2> QED  BY <1>1, <2>1
<1>5. CASE Answer(p)
  <2>a. PICK a : a = reply[p]
    OBVIOUS
  <2>b. PICK r : r = sent[p]
    OBVIOUS
  <2>c. RequestRight(r) /\ ReplyRight(r, a)
    BY <1>0, <1>5, <2>a, <2>b DEF Answer, AnswerInv
  <2> DEFINE m == result_message(a)
             view == "summary"
  <2>1. PICK t : t = Answered(s0, a, m, view)
    OBVIOUS
  <2>2. screen'[p] = IF renders(t) THEN renderView(t) ELSE failed_request(t)
    BY <1>0, <1>5, <1>a, <2>a, <2>1 DEF Answer, set_screen, Answered
  <2> HIDE DEF m, view
  <2>3. /\ IsScreen(t) /\ t.message = m
        /\ t.metric = status(a.profile = "compiler", a.compiler.ok, a.yosys.ok)
        /\ t.stats = a.yosys.stats /\ t.lastResult = <<a>>
    BY <1>0, <2>1, ScreenAnswer
  <2>4. CASE renders(t)
    <3>1. ~t.lastResult[1].refused /\ ~a.refused
      BY <2>3, <2>4 DEF renders
    <3>2. PICK u : u = renderView(t)
      OBVIOUS
    <3>3. u.message = t.message /\ u.metric = t.metric /\ u.stats = t.stats /\ u.lastResult = t.lastResult
      BY <2>3, <3>1, <3>2, Renders
    <3>4. DoneRight(t)
      BY <2>3, <2>c, <3>1, DoneIsRight DEF m
    <3>5. DoneRight(u)
      BY <3>3, <3>4, DoneStill
    <3> QED  BY <2>2, <2>4, <3>2, <3>5
  <2>5. CASE ~renders(t)
    <3> DEFINE failed == "request failed"
               v == Shown("error", <<>>)
    <3>1. PICK u : u = Says(t, failed, v)
      OBVIOUS
    <3>2. screen'[p] = u
      BY <2>2, <2>5, <3>1 DEF failed_request, Says
    <3> HIDE DEF failed, v
    <3>3. u.message = failed
      BY <2>3, <3>1, ScreenMessage
    <3>4. ~Concludes(failed)
      BY NoConclusion DEF failed
    <3> QED  BY <3>2, <3>3, <3>4, DoneOtherwise
  <2> QED  BY <2>4, <2>5
<1>6. ASSUME NEW view \in Views, Tab(p, view)
      PROVE  DoneRight(screen'[p])
  <2> DEFINE t == [s0 EXCEPT !.view = view]
  <2>1. screen'[p] = renderView(t)
    BY <1>0, <1>a, <1>6 DEF Tab, set_screen
  <2>2. /\ IsScreen(t) /\ t.message = s0.message /\ t.metric = s0.metric /\ t.stats = s0.stats
        /\ t.lastResult = s0.lastResult /\ t.text = s0.text
    BY <1>0, ScreenView
  <2> HIDE DEF t
  <2>3. /\ t.lastResult = <<>> \/ \E a : t.lastResult = <<a>>
        /\ t.lastResult # <<>> /\ t.lastResult[1].refused => t.text.kind \notin Views
    BY <1>0, <2>2 DEF ShowsLast
  <2>4. PICK u : u = renderView(t)
    OBVIOUS
  <2>5. u.message = t.message /\ u.metric = t.metric /\ u.stats = t.stats /\ u.lastResult = t.lastResult
    BY <2>2, <2>3, <2>4, Renders
  <2>6. DoneRight(t)
    BY <1>0, <2>2, DoneStill
  <2>7. DoneRight(u)
    BY <2>5, <2>6, DoneStill
  <2> QED  BY <2>1, <2>4, <2>7
<1> QED  BY <1>2, <1>3, <1>4, <1>5, <1>6 DEF Page

\* What happens on a page leaves the threads on their way.
LEMMA PageAnswers ==
  ASSUME AnswerInv, NEW p \in Pages, Page(p)
  PROVE  AnswerInv'
<1>0. ShownInv /\ DOMAIN screen = Pages /\ DOMAIN net = Pages /\ DOMAIN sent = Pages /\ DOMAIN wanted = Pages
  BY DEF AnswerInv, ShownInv, ApartInv, Domains
<1>1. ShownInv'
  BY <1>0, PageApart
<1>2. UNCHANGED <<reply, handler, dirs, files>>
  BY DEF Page, LoadHealth, Click, Answer, Fail, Tab, serverVars
<1>3. CASE Click(p)
  <2>1. /\ RequestRight(sent'[p]) /\ wanted'[p] \in Seq(Request)
        /\ at(p, "idle") /\ net'[p] = "request"
        /\ \A q \in Pages \ {p} : sent'[q] = sent[q] /\ wanted'[q] = wanted[q] /\ net'[q] = net[q]
    <3>1. ~busy[p] => at(p, "idle")
      BY DEF AnswerInv, ShownInv, ApartInv, RunsAreApart, TypeOK
    <3> QED  BY <1>0, <1>3, <3>1, ClickKept DEF Click
  <2>2. (\A q \in Pages : RequestRight(sent[q]) /\ wanted[q] \in Seq(Request))'
    BY <2>1 DEF AnswerInv
  <2>3. (\A q \in Pages : ~at(q, "idle") => RunRight(sent[q], handler[q], mine(q)))'
    BY <1>2, <2>1 DEF AnswerInv, at, mine
  <2>4. (\A q \in Pages : net[q] = "reply" => ReplyRight(sent[q], reply[q]))'
    BY <1>2, <2>1 DEF AnswerInv
  <2>5. (\A q \in Pages : DoneRight(screen[q]))'
    <3>1. \E s : screen' = [screen EXCEPT ![p] = s]
      BY <1>0, PageShows
    <3> QED  BY <1>0, <3>1, PageDone DEF AnswerInv
  <2> QED  BY <1>1, <1>2, <2>2, <2>3, <2>4, <2>5 DEF AnswerInv
<1>4. CASE ~Click(p)
  <2>1. UNCHANGED <<sent, wanted>> /\ \A q \in Pages : net'[q] = "reply" => net[q] = "reply"
    BY <1>0, <1>4 DEF Page, LoadHealth, Answer, Fail, Tab, serverVars
  <2>2. (\A q \in Pages : RequestRight(sent[q]) /\ wanted[q] \in Seq(Request))'
    BY <2>1 DEF AnswerInv
  <2>3. (\A q \in Pages : ~at(q, "idle") => RunRight(sent[q], handler[q], mine(q)))'
    BY <1>2, <2>1 DEF AnswerInv, at, mine
  <2>4. (\A q \in Pages : net[q] = "reply" => ReplyRight(sent[q], reply[q]))'
    BY <1>2, <2>1 DEF AnswerInv
  <2>5. (\A q \in Pages : DoneRight(screen[q]))'
    <3>1. \E s : screen' = [screen EXCEPT ![p] = s]
      BY <1>0, PageShows
    <3> QED  BY <1>0, <3>1, PageDone DEF AnswerInv
  <2> QED  BY <1>1, <1>2, <2>2, <2>3, <2>4, <2>5 DEF AnswerInv
<1> QED  BY <1>3, <1>4

\* Nothing is answered at the beginning.
LEMMA InitAnswer == Init => AnswerInv
<1> SUFFICES ASSUME Init PROVE AnswerInv
  OBVIOUS
<1>1. ShownInv
  BY InitShown
<1>2. \A p \in Pages : wanted[p] \in Seq(Request)
  BY UsersAssumption DEF Init, PageInit
<1>3. \A p \in Pages : RequestRight(sent[p])
  BY ProfilesAssumption DEF Init, ServerInit, RequestRight, none, Netlist
<1>4. \A p \in Pages : at(p, "idle") /\ net[p] # "reply"
  BY DEF Init, ServerInit, at, idle
<1>5. \A d \in Dirs : files[d] = no_files
  BY DEF Init, ServerInit
<1>6. \A p \in Pages : DoneRight(screen[p])
  <2>1. \A p \in Pages : ~Concludes(screen[p].message)
    BY NoConclusion DEF Init, PageInit
  <2> QED  BY <2>1, DoneOtherwise
<1> QED  BY <1>1, <1>2, <1>3, <1>4, <1>5, <1>6 DEF AnswerInv

\* Answers stay right.
LEMMA NextAnswer == AnswerInv /\ [Next]_vars => AnswerInv'
<1> SUFFICES ASSUME AnswerInv, [Next]_vars PROVE AnswerInv'
  OBVIOUS
<1>1. ASSUME NEW p \in Pages, Handle(p), UNCHANGED pageVars PROVE AnswerInv'
  BY <1>1, HandleAnswers
<1>2. ASSUME NEW p \in Pages, Page(p) PROVE AnswerInv'
  BY <1>2, PageAnswers
<1>3. CASE UNCHANGED vars
  <2>1. ShownInv'
    BY <1>3, NextShown DEF AnswerInv
  <2> QED  BY <1>3, <2>1 DEF vars, serverVars, pageVars, AnswerInv, at, mine
<1> QED  BY <1>1, <1>2, <1>3 DEF Next

\* The invariant of threads and answers.
THEOREM AnswerInvariance == Spec => []AnswerInv
BY InitAnswer, NextAnswer, PTL DEF Spec

(* What a page gets was made from the source it sent with the algorithms   *)
(* it asked for, and scripts run these and no other, in order.             *)
THEOREM AnswersAreAlwaysAsAsked == Spec => []AnswerIsAsAsked
<1>1. ASSUME AnswerInv PROVE AnswerIsOwn
  <2> SUFFICES ASSUME NEW p \in Pages, net[p] = "reply", ~reply[p].refused
               PROVE  /\ reply[p].compiler.rtlil \in {none, Netlist(sent[p].source, <<>>)}
                      /\ reply[p].yosys.after \in {none, Wanted(sent[p])}
                      /\ reply[p].yosys.png => reply[p].yosys.after # none
    BY DEF AnswerIsOwn, Wanted, commands
  <2>1. ReplyRight(sent[p], reply[p])
    BY <1>1 DEF AnswerInv
  <2>2. reply[p] # refusal
    BY DEF refusal
  <2> QED  BY <2>1, <2>2 DEF ReplyRight, CompilerRight, YosysRight
<1>2. ASSUME AnswerInv PROVE ScriptIsAsAsked
  <2> SUFFICES ASSUME NEW p \in Pages, at(p, "optimize")
               PROVE  LET passes == passes_of(mine(p).script)
                          chosen == sent[p].algorithms \cap Range(Profiles[sent[p].profile])
                      IN  /\ Range(passes) = chosen
                          /\ \A id \in chosen \cap {"dce", "cleanup"}, i \in DOMAIN passes :
                               passes[i] \in Rewriting => Max({j \in DOMAIN passes : passes[j] = id}) > i
    BY DEF ScriptIsAsAsked
  <2>a. PICK q : q = sent[p].profile
    OBVIOUS
  <2>b. PICK A : A = sent[p].algorithms
    OBVIOUS
  <2> DEFINE s == build_yosys_script(q, A)
  <2>1. q \in DOMAIN Profiles /\ mine(p).script = s
    <3>1. RunRight(sent[p], handler[p], mine(p)) /\ handler[p].step = "optimize" /\ RequestRight(sent[p])
      BY <1>2 DEF AnswerInv, at
    <3> QED  BY <2>a, <2>b, <3>1 DEF RunRight, RequestRight
  <2>2. passes_of(s) = algorithm_commands(q, A)
    <3>1. /\ Len(algorithm_commands(q, A)) \in Nat /\ Len(s) = Len(algorithm_commands(q, A)) + 9
          /\ s \in Seq(Words)
      BY <2>1, ScriptShape
    <3>2. Len(s) \in 0 .. Len(s) /\ Len(s) >= Len(algorithm_commands(q, A)) + 5
      BY <3>1
    <3>3. PICK k : k = Len(s)
      OBVIOUS
    <3>4. passes_of(SubSeq(s, 1, k)) = algorithm_commands(q, A)
      BY <2>1, <3>2, <3>3, PrefixPasses
    <3>5. SubSeq(s, 1, Len(s)) = s
      <4> HIDE DEF s
      <4> QED  BY <3>1, SubSeqFull
    <3> QED  BY <3>3, <3>4, <3>5
  <2> HIDE DEF s
  <2>3. mine(p).script = s
    BY <2>1
  <2>4. passes_of(mine(p).script) = algorithm_commands(q, A)
    BY <2>2, <2>3
  <2> QED  BY <2>1, <2>4, <2>a, <2>b, CommandsAreAsAsked
<1>3. AnswerInv => AnswerIsAsAsked
  BY <1>1, <1>2 DEF AnswerIsAsAsked
<1> QED  BY <1>3, AnswerInvariance, PTL

(* "Done" is said of exactly the runs the server accepted: Yosys ran its    *)
(* whole script, and under the profile of the compiler the compiler         *)
(* succeeded too; under the others nothing is said of the compiler.         *)
THEOREM DoneIsAlwaysWhole == Spec => []DoneIsWhole
<1>1. AnswerInv => DoneIsWhole
  BY DEF AnswerInv, DoneRight, DoneIsWhole
<1> QED  BY <1>1, AnswerInvariance, PTL

=============================================================================
