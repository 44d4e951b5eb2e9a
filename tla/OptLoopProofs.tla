---------------------------- MODULE OptLoopProofs ----------------------------
(***************************************************************************)
(* Proofs about the command opt, for every set of options and any number   *)
(* of changes: the loop makes no round that no change called for, and it   *)
(* does not end while a pass of it has work.                               *)
(***************************************************************************)
EXTENDS OptLoop, SequenceTheorems, FiniteSetTheorems, TLAPS

-----------------------------------------------------------------------------
(* The stages are sequences of steps; between Unset and Test of the loop   *)
(* there are calls only.                                                   *)

Passes ==
  {"my_opt_expr", "my_opt_strength", "my_opt_cse", "my_opt_muxtree", "my_opt_reduce",
   "my_opt_rewrite", "my_opt_cover", "my_opt_qm", "my_opt_kernel", "my_opt_dce",
   "my_opt_share", "opt_merge", "opt_dff", "opt_clean", "opt_expr"}
Options ==
  opt_expr_options \cup opt_reduce_options \cup opt_dff_options \cup opt_merge_options
    \cup opt_clean_options \cup {"-nomux"}
Steps == [pass : Passes \cup {"unset", "test"}, args : SUBSET Options]
PassCalls == [pass : Passes, args : SUBSET Options]

unset_at == IF fast_mode THEN 5 ELSE 1
test_at == IF fast_mode THEN 6 + Len(opt_dff_calls) ELSE Len(loop)

LEMMA Joined ==
  ASSUME NEW S, NEW s \in Seq(S), NEW t \in Seq(S)
  PROVE  /\ s \o t \in Seq(S) /\ Len(s \o t) = Len(s) + Len(t)
         /\ \A i \in 1 .. Len(s) + Len(t) :
              (s \o t)[i] = IF i <= Len(s) THEN s[i] ELSE t[i - Len(s)]
BY ConcatProperties

\* The parts of the stages.
LEMMA Parts ==
  /\ local_passes \in Seq(PassCalls) /\ Len(local_passes) = 3
  /\ custom_passes \in Seq(PassCalls) /\ Len(custom_passes) = 7
  /\ opt_share_calls \in Seq(PassCalls) /\ Len(opt_share_calls) \in 0 .. 1
  /\ opt_dff_calls \in Seq(PassCalls) /\ Len(opt_dff_calls) \in 0 .. 1
  /\ \A i \in 1 .. Len(opt_dff_calls) : opt_dff_calls[i].pass = "opt_dff"
  /\ opt_merge_call \in PassCalls /\ opt_clean_call \in PassCalls
  /\ Call("opt_expr", opt_expr_args) \in PassCalls
  /\ [opt_merge_call EXCEPT !.args = @ \cup {"-nomux"}] \in PassCalls
  /\ Unset \in Steps /\ Unset.pass = "unset" /\ Test \in Steps /\ Test.pass = "test"
<1>0. ASSUME NEW pass \in Passes, NEW args \in SUBSET Options
      PROVE  Call(pass, args) \in PassCalls /\ Call(pass, args).pass = pass
  BY DEF Call, PassCalls
<1>1. /\ Plain("my_opt_muxtree") \in PassCalls /\ Plain("my_opt_rewrite") \in PassCalls
      /\ Plain("my_opt_cover") \in PassCalls /\ Plain("my_opt_qm") \in PassCalls
      /\ Plain("my_opt_kernel") \in PassCalls /\ Plain("my_opt_dce") \in PassCalls
      /\ Plain("my_opt_strength") \in PassCalls /\ Plain("my_opt_cse") \in PassCalls
      /\ Plain("my_opt_share") \in PassCalls
  BY <1>0 DEF Plain, Passes
<1>2. /\ Call("my_opt_expr", opt_expr_args) \in PassCalls
      /\ Call("opt_expr", opt_expr_args) \in PassCalls
  BY <1>0 DEF Passes, Options, opt_expr_args
<1>3. Call("my_opt_reduce", options \cap opt_reduce_options) \in PassCalls
  BY <1>0 DEF Passes, Options
<1>4. /\ Call("opt_dff", options \cap opt_dff_options) \in PassCalls
      /\ Call("opt_dff", options \cap opt_dff_options).pass = "opt_dff"
  BY <1>0 DEF Passes, Options
<1>5. /\ opt_merge_call \in PassCalls
      /\ [opt_merge_call EXCEPT !.args = @ \cup {"-nomux"}] \in PassCalls
  <2>1. opt_merge_call \in PassCalls
    BY <1>0 DEF Passes, Options, opt_merge_call
  <2>2. opt_merge_call.args \cup {"-nomux"} \in SUBSET Options
    BY <2>1 DEF PassCalls, Options
  <2> QED  BY <2>1, <2>2 DEF PassCalls
<1>6. opt_clean_call \in PassCalls
  BY <1>0 DEF Passes, Options, opt_clean_call
<1>7. /\ Unset \in Steps /\ Unset.pass = "unset" /\ Test \in Steps /\ Test.pass = "test"
  <2>1. {} \in SUBSET Options
    OBVIOUS
  <2> QED  BY <2>1 DEF Unset, Test, Plain, Call, Steps
<1>8. local_passes \in Seq(PassCalls) /\ Len(local_passes) = 3
  BY <1>1, <1>2 DEF local_passes
<1>9. custom_passes \in Seq(PassCalls) /\ Len(custom_passes) = 7
  <2> DEFINE first == <<Plain("my_opt_muxtree"), Call("my_opt_reduce", options \cap opt_reduce_options)>>
             rest == Calls(<<"my_opt_rewrite", "my_opt_cover", "my_opt_qm", "my_opt_kernel", "my_opt_dce">>)
  <2>1. first \in Seq(PassCalls) /\ Len(first) = 2
    BY <1>1, <1>3
  <2>2. rest = <<Plain("my_opt_rewrite"), Plain("my_opt_cover"), Plain("my_opt_qm"),
                 Plain("my_opt_kernel"), Plain("my_opt_dce")>>
    BY DEF Calls
  <2>3. rest \in Seq(PassCalls) /\ Len(rest) = 5
    <3> DEFINE t == <<Plain("my_opt_rewrite"), Plain("my_opt_cover"), Plain("my_opt_qm"),
                      Plain("my_opt_kernel"), Plain("my_opt_dce")>>
    <3>1. t \in Seq(PassCalls) /\ Len(t) = 5
      BY <1>1
    <3> QED  BY <2>2, <3>1
  <2>4. custom_passes = first \o rest
    BY DEF custom_passes
  <2> HIDE DEF first, rest
  <2>5. first \o rest \in Seq(PassCalls) /\ Len(first \o rest) = Len(first) + Len(rest)
    BY <2>1, <2>3, Joined
  <2> QED  BY <2>1, <2>3, <2>4, <2>5
<1>10. opt_share_calls \in Seq(PassCalls) /\ Len(opt_share_calls) \in 0 .. 1
  BY <1>1 DEF opt_share_calls
<1>11. /\ opt_dff_calls \in Seq(PassCalls) /\ Len(opt_dff_calls) \in 0 .. 1
       /\ \A i \in 1 .. Len(opt_dff_calls) : opt_dff_calls[i].pass = "opt_dff"
  <2> DEFINE c == Call("opt_dff", options \cap opt_dff_options)
  <2> HIDE DEF c
  <2>1. c \in PassCalls /\ c.pass = "opt_dff"
    BY <1>4 DEF c
  <2>2. opt_dff_calls = <<>> \/ opt_dff_calls = <<c>>
    BY DEF opt_dff_calls, c
  <2>3. <<>> \in Seq(PassCalls) /\ Len(<<>>) = 0 /\ \A i \in 1 .. 0 : FALSE
    OBVIOUS
  <2>4. <<c>> \in Seq(PassCalls) /\ Len(<<c>>) = 1 /\ \A i \in 1 .. 1 : <<c>>[i].pass = "opt_dff"
    BY <2>1
  <2>5. CASE opt_dff_calls = <<>>
    BY <2>3, <2>5
  <2>6. CASE opt_dff_calls = <<c>>
    BY <2>4, <2>6
  <2> QED  BY <2>2, <2>5, <2>6
<1> QED  BY <1>2, <1>5, <1>6, <1>7, <1>8, <1>9, <1>10, <1>11

LEMMA CallsAreSteps ==
  /\ PassCalls \subseteq Steps
  /\ \A c \in PassCalls : c.pass \notin {"unset", "test"}
BY DEF PassCalls, Steps, Passes

\* A sequence of n steps, which are calls but for the Unset at k.
OnlyUnset(s, k, n) ==
  /\ s \in Seq(Steps) /\ Len(s) = n /\ k \in 1 .. n /\ s[k] = Unset
  /\ \A i \in 1 .. n : i # k => s[i] \in PassCalls

LEMMA JoinedCalls ==
  ASSUME NEW s, NEW k \in Nat, NEW n \in Nat, OnlyUnset(s, k, n), NEW t \in Seq(PassCalls)
  PROVE  OnlyUnset(s \o t, k, n + Len(t))
<1>1. t \in Seq(Steps) /\ Len(t) \in Nat /\ s \in Seq(Steps) /\ Len(s) = n
  BY CallsAreSteps, SeqMonotonic DEF OnlyUnset
<1>2. /\ s \o t \in Seq(Steps) /\ Len(s \o t) = n + Len(t)
      /\ \A i \in 1 .. n + Len(t) : (s \o t)[i] = IF i <= n THEN s[i] ELSE t[i - n]
  BY <1>1, Joined
<1>3. ASSUME NEW i \in 1 .. n + Len(t), ~(i <= n)
      PROVE  (s \o t)[i] \in PassCalls
  <2>1. i - n \in 1 .. Len(t)
    BY <1>1, <1>3
  <2>2. t[i - n] \in PassCalls
    BY <2>1
  <2> QED  BY <1>2, <1>3, <2>2
<1>4. ASSUME NEW i \in 1 .. n
      PROVE  (s \o t)[i] = s[i] /\ i \in 1 .. n + Len(t)
  BY <1>1, <1>2
<1>5. \A i \in 1 .. n + Len(t) : i # k => (s \o t)[i] \in PassCalls
  BY <1>1, <1>3, <1>4 DEF OnlyUnset
<1>6. k \in 1 .. n + Len(t) /\ (s \o t)[k] = Unset
  BY <1>4 DEF OnlyUnset
<1> QED  BY <1>2, <1>5, <1>6 DEF OnlyUnset

\* A sequence u of n steps of s and then k steps of t.
InTurn(u, s, n, t, k) ==
  /\ u \in Seq(Steps) /\ Len(u) = n + k
  /\ \A i \in 1 .. n : u[i] = s[i]
  /\ \A j \in 1 .. k : u[n + j] = t[j]

LEMMA JoinedSteps ==
  ASSUME NEW s \in Seq(Steps), NEW t \in Seq(Steps), NEW n \in Nat, Len(s) = n,
         NEW k \in Nat, Len(t) = k
  PROVE  InTurn(s \o t, s, n, t, k)
<1>1. /\ s \o t \in Seq(Steps) /\ Len(s \o t) = n + k
      /\ \A i \in 1 .. n + k : (s \o t)[i] = IF i <= n THEN s[i] ELSE t[i - n]
  BY Joined
<1>2. \A i \in 1 .. n : (s \o t)[i] = s[i]
  BY <1>1
<1>3. ASSUME NEW j \in 1 .. k PROVE (s \o t)[n + j] = t[j]
  <2>1. n + j \in 1 .. n + k /\ ~(n + j <= n) /\ (n + j) - n = j
    OBVIOUS
  <2> QED  BY <1>1, <2>1
<1> QED  BY <1>1, <1>2, <1>3 DEF InTurn

\* Where the two steps of opt itself are, and what is between them.
Shape(s) ==
  /\ s \in Seq(Steps) /\ Len(s) <= 15
  /\ unset_at \in 1 .. Len(s) /\ test_at \in 1 .. Len(s) /\ unset_at < test_at
  /\ \A i \in 1 .. Len(s) : /\ s[i].pass = "unset" <=> i = unset_at
                            /\ s[i].pass = "test" <=> i = test_at
  /\ fast_mode => \A i \in 1 .. Len(s) :
                    unset_at < i /\ i < test_at => s[i].pass = "opt_dff"
  /\ ~fast_mode => unset_at = 1 /\ test_at = Len(s)

LEMMA ThreeAndOne ==
  \A t \in Seq(PassCalls), c \in PassCalls :
    Len(t) = 3 => Append(t, c) \in Seq(PassCalls) /\ Len(Append(t, c)) = 4
<1> SUFFICES ASSUME NEW t \in Seq(PassCalls), NEW c \in PassCalls, Len(t) = 3
    PROVE  Append(t, c) \in Seq(PassCalls) /\ Len(Append(t, c)) = 4
  OBVIOUS
<1>1. Append(t, c) \in Seq(PassCalls)
  BY AppendProperties, Zenon
<1>2. Len(Append(t, c)) = Len(t) + 1
  BY AppendProperties, Zenon
<1> QED  BY <1>1, <1>2

LEMMA NormalShape == ~fast_mode => Shape(loop)
<1> SUFFICES ASSUME ~fast_mode PROVE Shape(loop)
  OBVIOUS
<1> DEFINE s0 == <<Unset>>
           m == <<opt_merge_call>>
           s1 == s0 \o custom_passes
           s2 == s1 \o m
           s3 == s2 \o opt_share_calls
           s4 == s3 \o opt_dff_calls
           e == Call("opt_expr", opt_expr_args)
           last == <<opt_clean_call, e, Test>>
           k == Len(opt_share_calls)
           l == Len(opt_dff_calls)
           n == 9 + k + l
<1>1. loop = s4 \o last /\ unset_at = 1 /\ test_at = Len(loop)
  BY DEF loop, normal_loop, unset_at, test_at
<1>2. OnlyUnset(s0, 1, 1)
  BY Parts DEF OnlyUnset
<1>3. m \in Seq(PassCalls) /\ Len(m) = 1
  BY Parts
<1>4. /\ custom_passes \in Seq(PassCalls) /\ Len(custom_passes) = 7
      /\ opt_share_calls \in Seq(PassCalls) /\ k \in 0 .. 1
      /\ opt_dff_calls \in Seq(PassCalls) /\ l \in 0 .. 1
  BY Parts
<1>5. last \in Seq(Steps) /\ Len(last) = 3 /\ last[3] = Test
      /\ last[1] \in PassCalls /\ last[2] \in PassCalls
  <2>1. e \in PassCalls /\ opt_clean_call \in PassCalls /\ Test \in Steps
    BY Parts
  <2> HIDE DEF e
  <2> QED  BY <2>1, CallsAreSteps
<1>6. OnlyUnset(s4, 1, n)
  <2> HIDE DEF s0, m, s1, s2, s3, s4, k, l, n
  <2>1. OnlyUnset(s1, 1, 8)
    <3>1. OnlyUnset(s0 \o custom_passes, 1, 1 + Len(custom_passes))
      BY <1>2, <1>4, JoinedCalls
    <3> QED  BY <1>4, <3>1 DEF s1
  <2>2. OnlyUnset(s2, 1, 9)
    <3>1. OnlyUnset(s1 \o m, 1, 8 + Len(m))
      BY <1>3, <2>1, JoinedCalls
    <3> QED  BY <1>3, <3>1 DEF s2
  <2>3. OnlyUnset(s3, 1, 9 + k)
    BY <1>4, <2>2, JoinedCalls DEF s3, k
  <2>4. OnlyUnset(s4, 1, (9 + k) + l)
    <3>1. 9 + k \in Nat
      BY <1>4
    <3> QED  BY <1>4, <2>3, <3>1, JoinedCalls DEF s4, l
  <2> QED  BY <2>4 DEF n
<1>7. n \in 9 .. 11
  <2> HIDE DEF k, l
  <2> QED  BY <1>4
<1> HIDE DEF s4, last, n
<1>8. /\ loop \in Seq(Steps) /\ Len(loop) = n + 3
      /\ \A i \in 1 .. n : loop[i] = s4[i]
      /\ \A j \in 1 .. 3 : loop[n + j] = last[j]
  <2>1. s4 \in Seq(Steps) /\ Len(s4) = n
    BY <1>6 DEF OnlyUnset
  <2>2. InTurn(s4 \o last, s4, n, last, 3)
    <3>1. n \in Nat /\ 3 \in Nat
      BY <1>7
    <3> QED  BY <1>5, <2>1, <3>1, JoinedSteps
  <2> QED  BY <1>1, <2>2 DEF InTurn
<1>9. /\ loop[1] = Unset /\ \A i \in 2 .. n : loop[i] \in PassCalls
      /\ loop[n + 1] \in PassCalls /\ loop[n + 2] \in PassCalls /\ loop[n + 3] = Test
  BY <1>5, <1>6, <1>7, <1>8 DEF OnlyUnset
<1>10. \A i \in 1 .. n + 3 : i = 1 \/ i = n + 3 \/ loop[i] \in PassCalls
  BY <1>7, <1>9
<1>11. \A i \in 1 .. n + 3 : /\ loop[i].pass = "unset" <=> i = 1
                             /\ loop[i].pass = "test" <=> i = n + 3
  <2>1. Unset.pass = "unset" /\ Test.pass = "test"
    BY Parts
  <2> QED  BY <1>7, <1>9, <1>10, <2>1, CallsAreSteps
<1>12. test_at = n + 3 /\ 1 < n + 3 /\ n + 3 <= 15 /\ n + 3 \in Nat
  BY <1>1, <1>7, <1>8
<1> QED  BY <1>1, <1>8, <1>11, <1>12 DEF Shape

LEMMA FastShape == fast_mode => Shape(loop)
<1> SUFFICES ASSUME fast_mode PROVE Shape(loop)
  OBVIOUS
<1> DEFINE s1 == Append(local_passes, opt_merge_call)
           u == <<Unset>>
           s2 == s1 \o u
           s3 == s2 \o opt_dff_calls
           last == <<Test, opt_clean_call>>
           l == Len(opt_dff_calls)
<1>1. loop = s3 \o last /\ unset_at = 5 /\ test_at = 6 + l
  BY DEF loop, fast_loop, unset_at, test_at
<1>2. s1 \in Seq(PassCalls) /\ Len(s1) = 4
  <2>1. local_passes \in Seq(PassCalls) /\ Len(local_passes) = 3 /\ opt_merge_call \in PassCalls
    BY Parts
  <2> QED  BY <2>1, ThreeAndOne, Zenon
<1>3. u \in Seq(Steps) /\ Len(u) = 1 /\ u[1] = Unset
  BY Parts
<1>4. /\ opt_dff_calls \in Seq(PassCalls) /\ l \in 0 .. 1
      /\ \A i \in 1 .. l : opt_dff_calls[i].pass = "opt_dff"
  BY Parts
<1>5. last \in Seq(Steps) /\ Len(last) = 2 /\ last[1] = Test /\ last[2] \in PassCalls
  <2>1. opt_clean_call \in PassCalls /\ Test \in Steps
    BY Parts
  <2> QED  BY <2>1, CallsAreSteps
<1> HIDE DEF s1, u, last, l
<1>6. s1 \in Seq(Steps) /\ opt_dff_calls \in Seq(Steps)
  BY <1>2, <1>4, CallsAreSteps, SeqMonotonic
<1>7. OnlyUnset(s2, 5, 5)
  <2>1. /\ s2 \in Seq(Steps) /\ Len(s2) = 5
        /\ \A i \in 1 .. 4 : s2[i] = s1[i]
        /\ \A j \in 1 .. 1 : s2[4 + j] = u[j]
    <3>1. InTurn(s2, s1, 4, u, 1)
      BY <1>2, <1>3, <1>6, JoinedSteps
    <3>2. 4 + 1 = 5
      OBVIOUS
    <3> HIDE DEF s2
    <3> QED  BY <3>1, <3>2 DEF InTurn
  <2>2. s2[5] = Unset
    <3>1. 1 \in 1 .. 1 /\ 4 + 1 = 5
      OBVIOUS
    <3> QED  BY <1>3, <2>1, <3>1
  <2>3. \A i \in 1 .. 4 : s2[i] \in PassCalls
    <3>1. \A i \in 1 .. 4 : s1[i] \in PassCalls
      BY <1>2
    <3> QED  BY <2>1, <3>1
  <2> HIDE DEF s2
  <2> QED  BY <2>1, <2>2, <2>3 DEF OnlyUnset
<1> HIDE DEF s2
<1>8. OnlyUnset(s3, 5, 5 + l)
  BY <1>4, <1>7, JoinedCalls DEF l
<1>9. \A j \in 1 .. l : s3[5 + j].pass = "opt_dff"
  <2>1. \A j \in 1 .. l : s3[5 + j] = opt_dff_calls[j]
    <3>1. s2 \in Seq(Steps) /\ Len(s2) = 5
      BY <1>7 DEF OnlyUnset
    <3>2. l \in Nat /\ 5 \in Nat /\ Len(opt_dff_calls) = l
      BY <1>4 DEF l
    <3>3. InTurn(s3, s2, 5, opt_dff_calls, l)
      BY <1>6, <3>1, <3>2, JoinedSteps
    <3> HIDE DEF s3
    <3> QED  BY <3>3 DEF InTurn
  <2> QED  BY <1>4, <2>1
<1> HIDE DEF s3
<1>10. /\ loop \in Seq(Steps) /\ Len(loop) = (5 + l) + 2
       /\ \A i \in 1 .. 5 + l : loop[i] = s3[i]
       /\ \A j \in 1 .. 2 : loop[(5 + l) + j] = last[j]
  <2>1. s3 \in Seq(Steps) /\ Len(s3) = 5 + l /\ 5 + l \in Nat
    BY <1>4, <1>8 DEF OnlyUnset
  <2>2. InTurn(s3 \o last, s3, 5 + l, last, 2)
    BY <1>5, <2>1, JoinedSteps
  <2> QED  BY <1>1, <2>2 DEF InTurn
<1>11. /\ loop[5] = Unset /\ \A i \in 1 .. 5 + l : i # 5 => loop[i] \in PassCalls
       /\ loop[6 + l] = Test /\ loop[7 + l] \in PassCalls
  <2>1. 5 \in 1 .. 5 + l /\ (5 + l) + 1 = 6 + l /\ (5 + l) + 2 = 7 + l
    BY <1>4
  <2>2. loop[(5 + l) + 1] = Test /\ loop[(5 + l) + 2] \in PassCalls
    BY <1>5, <1>10
  <2> QED  BY <1>8, <1>10, <2>1, <2>2 DEF OnlyUnset
<1>12. \A i \in 1 .. 7 + l : i = 5 \/ i = 6 + l \/ loop[i] \in PassCalls
  BY <1>4, <1>11
<1>13. \A i \in 1 .. 7 + l : /\ loop[i].pass = "unset" <=> i = 5
                             /\ loop[i].pass = "test" <=> i = 6 + l
  <2>1. Unset.pass = "unset" /\ Test.pass = "test"
    BY Parts
  <2> QED  BY <1>4, <1>11, <1>12, <2>1, CallsAreSteps
<1>14. \A i \in 1 .. 7 + l : 5 < i /\ i < 6 + l => loop[i].pass = "opt_dff"
  <2>1. ASSUME NEW i \in 1 .. 7 + l, 5 < i, i < 6 + l PROVE loop[i].pass = "opt_dff"
    <3>1. i - 5 \in 1 .. l /\ 5 + (i - 5) = i /\ i \in 1 .. 5 + l
      BY <1>4, <2>1
    <3> QED  BY <1>9, <1>10, <3>1
  <2> QED  BY <2>1
<1>15. Len(loop) = 7 + l /\ 7 + l <= 15 /\ 5 \in 1 .. 7 + l /\ 6 + l \in 1 .. 7 + l /\ 5 < 6 + l
  BY <1>4, <1>10
<1> QED  BY <1>1, <1>10, <1>13, <1>14, <1>15 DEF Shape

\* Before and after the loop there are calls only.
LEMMA OtherStages ==
  /\ before \in Seq(PassCalls) /\ Len(before) <= 4
  /\ after \in Seq(PassCalls) /\ Len(after) <= 1
  /\ ~fast_mode => after = <<>>
<1> DEFINE m == [opt_merge_call EXCEPT !.args = @ \cup {"-nomux"}]
<1>1. /\ m \in PassCalls /\ opt_clean_call \in PassCalls
      /\ local_passes \in Seq(PassCalls) /\ Len(local_passes) = 3
  BY Parts
<1>2. before = IF fast_mode THEN <<>> ELSE Append(local_passes, m)
  BY DEF before
<1>3. after = IF fast_mode THEN <<opt_clean_call>> ELSE <<>>
  BY DEF after
<1> HIDE DEF m
<1>4. Append(local_passes, m) \in Seq(PassCalls) /\ Len(Append(local_passes, m)) = 4
  BY <1>1, ThreeAndOne, Zenon
<1>5. <<opt_clean_call>> \in Seq(PassCalls) /\ Len(<<opt_clean_call>>) = 1
  BY <1>1
<1>6. <<>> \in Seq(PassCalls) /\ Len(<<>>) = 0
  OBVIOUS
<1>7. CASE fast_mode
  <2>1. before = <<>> /\ after = <<opt_clean_call>>
    BY <1>2, <1>3, <1>7
  <2> QED  BY <1>5, <1>6, <1>7, <2>1
<1>8. CASE ~fast_mode
  <2>1. before = Append(local_passes, m) /\ after = <<>>
    BY <1>2, <1>3, <1>8
  <2> QED  BY <1>4, <1>6, <2>1
<1> QED  BY <1>7, <1>8

\* All the stages at once.
LEMMA StageShapes ==
  /\ Shape(loop)
  /\ before \in Seq(PassCalls) /\ Len(before) <= 4
  /\ after \in Seq(PassCalls) /\ Len(after) <= 1
  /\ ~fast_mode => after = <<>>
BY NormalShape, FastShape, OtherStages

\* What is called is a pass, and finitely many are.
LEMMA CalledPasses == IsFiniteSet(called) /\ "unset" \notin called /\ "test" \notin called
<1>1. ASSUME NEW S, NEW s \in Seq(S)
      PROVE  IsFiniteSet({s[i].pass : i \in DOMAIN s})
  <2> DEFINE h == [i \in 1 .. Len(s) |-> s[i].pass]
             T == {s[i].pass : i \in 1 .. Len(s)}
  <2>1. h \in Surjection(1 .. Len(s), T)
    BY DEF Surjection
  <2>2. IsFiniteSet(1 .. Len(s))
    BY <1>1, FS_Interval
  <2>3. IsFiniteSet(T)
    BY <2>1, <2>2, FS_Surjection
  <2>4. DOMAIN s = 1 .. Len(s)
    BY <1>1
  <2>5. {s[i].pass : i \in DOMAIN s} = T
    BY <2>4
  <2> HIDE DEF T
  <2> QED  BY <2>3, <2>5
<1>2. \A st \in {"BEFORE", "LOOP", "AFTER"} : IsFiniteSet(passes_in(st))
  <2>1. before \in Seq(PassCalls) /\ loop \in Seq(Steps) /\ after \in Seq(PassCalls)
    BY StageShapes DEF Shape
  <2>2. \A st \in {"BEFORE", "LOOP", "AFTER"} :
          steps_of(st) \in Seq(PassCalls) \/ steps_of(st) \in Seq(Steps)
    BY <2>1 DEF steps_of
  <2>3. \A st \in {"BEFORE", "LOOP", "AFTER"} :
          IsFiniteSet({steps_of(st)[i].pass : i \in DOMAIN steps_of(st)})
    BY <1>1, <2>2
  <2> QED  BY <2>3, FS_Subset DEF passes_in
<1>3. called = (passes_in("BEFORE") \cup passes_in("LOOP")) \cup passes_in("AFTER")
  BY DEF called
<1>4. IsFiniteSet(called)
  BY <1>2, <1>3, FS_Union
<1>5. "unset" \notin called /\ "test" \notin called
  BY <1>3 DEF passes_in
<1> QED  BY <1>4, <1>5

-----------------------------------------------------------------------------
(* The invariant.                                                          *)

\* The work that is left and the changes counted were there or were made.
WorkBound == Cardinality(pending) + changes <= MaxWork + new_work

\* A change of this round that will be seen at the end of it is counted, and so
\* the round after it will be earned.
RoundBound ==
  /\ round \in Nat
  /\ stage = "BEFORE" => round = 0
  /\ round <= changes + 1
  /\ stage = "LOOP" /\ at > unset_at /\ did_something => round <= changes
  /\ stage = "LOOP" /\ at > test_at => did_something

\* As long as nothing has changed, the passes that were called had no work.
VisitedIdle ==
  ~fast_mode =>
    /\ stage = "LOOP" /\ at > unset_at /\ ~did_something =>
         \A i \in 1 .. Len(loop) : unset_at < i /\ i < at => loop[i].pass \notin pending
    /\ stage \in {"AFTER", "DONE"} => pending \cap passes_in("LOOP") = {}

IInv ==
  /\ TypeOK
  /\ stage \in {"BEFORE", "LOOP", "AFTER"} => at <= Len(steps) + 1
  /\ WorkBound /\ RoundBound /\ VisitedIdle

LEMMA InitInv == Init => IInv
<1> SUFFICES ASSUME Init PROVE IInv
  OBVIOUS
<1>1. IsFiniteSet(pending)
  BY CalledPasses, FS_Subset DEF Init
<1>2. Cardinality(pending) \in Nat /\ Cardinality(pending) <= MaxWork
  BY <1>1, FS_CardinalityType DEF Init
<1>3. TypeOK
  BY <1>2, BoundsAssumption DEF Init, TypeOK
<1>4. WorkBound
  BY <1>2, BoundsAssumption DEF Init, WorkBound
<1>5. RoundBound /\ VisitedIdle
  BY DEF Init, RoundBound, VisitedIdle
<1>6. at <= Len(steps) + 1
  <2>1. Len(steps) \in Nat
    BY StageShapes DEF Init, steps, steps_of
  <2> QED  BY <2>1 DEF Init
<1> QED  BY <1>3, <1>4, <1>5, <1>6 DEF IInv

\* The options, and what they determine, never change.
LEMMA Frame ==
  ASSUME options' = options
  PROVE  /\ called' = called /\ loop' = loop /\ fast_mode' = fast_mode
         /\ unset_at' = unset_at /\ test_at' = test_at
         /\ passes_in("LOOP")' = passes_in("LOOP")
         /\ \A st : st \in {"BEFORE", "LOOP", "AFTER"} => steps_of(st)' = steps_of(st)
<1>1. /\ fast_mode' = fast_mode /\ local_passes' = local_passes
      /\ custom_passes' = custom_passes /\ opt_share_calls' = opt_share_calls
      /\ opt_dff_calls' = opt_dff_calls /\ opt_merge_call' = opt_merge_call
      /\ opt_clean_call' = opt_clean_call /\ opt_expr_args' = opt_expr_args
  BY DEF fast_mode, local_passes, custom_passes, opt_share_calls, opt_dff_calls,
         opt_merge_call, opt_clean_call, opt_expr_args
<1>2. before' = before
  BY <1>1 DEF before
<1>3. normal_loop' = normal_loop
  BY <1>1 DEF normal_loop
<1>4. fast_loop' = fast_loop
  BY <1>1 DEF fast_loop
<1>5. loop' = loop /\ after' = after
  BY <1>1, <1>3, <1>4 DEF loop, after
<1>6. steps_of("BEFORE")' = before /\ steps_of("LOOP")' = loop /\ steps_of("AFTER")' = after
  BY <1>2, <1>5 DEF steps_of
<1>7. steps_of("BEFORE") = before /\ steps_of("LOOP") = loop /\ steps_of("AFTER") = after
  BY DEF steps_of
<1>8. \A st \in {"BEFORE", "LOOP", "AFTER"} : passes_in(st)' = passes_in(st)
  BY <1>6, <1>7 DEF passes_in
<1>9. called' = called
  BY <1>8 DEF called
<1>10. unset_at' = unset_at /\ test_at' = test_at
  BY <1>1, <1>5 DEF unset_at, test_at
<1> QED  BY <1>1, <1>5, <1>6, <1>7, <1>8, <1>9, <1>10

\* What the next step of a running stage is.
LEMMA NextStep ==
  ASSUME IInv, running
  PROVE  /\ at \in 1 .. Len(steps) /\ Len(steps) <= 15
         /\ stage = "LOOP" => steps = loop /\ at \in 1 .. Len(loop)
         /\ stage # "LOOP" => steps[at].pass \notin {"unset", "test"}
         /\ ~fast_mode => stage # "AFTER"
         /\ stage \in {"BEFORE", "LOOP", "AFTER"}
<1>1. at \in Nat \ {0} /\ stage \in {"BEFORE", "LOOP", "AFTER"} /\ at <= Len(steps)
  BY DEF IInv, TypeOK, running
<1>2. /\ Shape(loop)
      /\ before \in Seq(PassCalls) /\ Len(before) <= 4
      /\ after \in Seq(PassCalls) /\ Len(after) <= 1
      /\ ~fast_mode => after = <<>>
  BY StageShapes
<1>3. CASE stage = "LOOP"
  <2>1. steps = loop
    BY <1>3 DEF steps, steps_of
  <2> QED  BY <1>1, <1>2, <1>3, <2>1 DEF Shape
<1>4. CASE stage = "BEFORE"
  <2>1. steps = before
    BY <1>4 DEF steps, steps_of
  <2>2. steps[at] \in PassCalls
    BY <1>1, <1>2, <2>1
  <2> QED  BY <1>1, <1>2, <1>4, <2>1, <2>2, CallsAreSteps
<1>5. CASE stage = "AFTER"
  <2>1. steps = after
    BY <1>5 DEF steps, steps_of
  <2>2. steps[at] \in PassCalls
    BY <1>1, <1>2, <2>1
  <2>3. fast_mode
    BY <1>1, <1>2, <2>1
  <2> QED  BY <1>1, <1>2, <1>5, <2>1, <2>2, <2>3, CallsAreSteps
<1> QED  BY <1>1, <1>3, <1>4, <1>5

\* The same stage goes on with its next step.
LEMMA GoesOn ==
  ASSUME IInv, running, options' = options, stage' = stage, at' = at + 1
  PROVE  at' \in 1 .. 16 /\ (stage' \in {"BEFORE", "LOOP", "AFTER"} => at' <= Len(steps') + 1)
<1>1. at \in 1 .. Len(steps) /\ Len(steps) <= 15 /\ stage \in {"BEFORE", "LOOP", "AFTER"}
  BY NextStep
<1>2. steps' = steps
  BY <1>1, Frame DEF steps
<1> QED  BY <1>1, <1>2

LEMMA PassChangesKeeps == IInv /\ PassChanges => IInv'
<1> SUFFICES ASSUME IInv, PassChanges PROVE IInv'
  OBVIOUS
<1>1. PICK pass \in pending :
        /\ next_call(pass)
        /\ \/ pending' = pending \ {pass} /\ UNCHANGED new_work
           \/ /\ new_work < MaxNew
              /\ \E other \in called : pending' = (pending \ {pass}) \cup {other}
              /\ new_work' = new_work + 1
        /\ changes' = changes + (IF stage = "LOOP" /\ pass \in causes THEN 1 ELSE 0)
  BY DEF PassChanges
<1>2. /\ did_something' = TRUE /\ at' = at + 1
      /\ options' = options /\ stage' = stage /\ round' = round
  BY DEF PassChanges
<1>3. TypeOK /\ WorkBound /\ RoundBound /\ VisitedIdle /\ running /\ steps[at].pass = pass
  BY <1>1 DEF IInv, next_call
<1>4. pass \in called /\ pass \notin {"unset", "test"} /\ IsFiniteSet(pending)
  BY <1>3, CalledPasses, FS_Subset DEF TypeOK
<1>5. /\ at \in 1 .. Len(steps) /\ Len(steps) <= 15 /\ stage \in {"BEFORE", "LOOP", "AFTER"}
      /\ stage = "LOOP" => steps = loop /\ at \in 1 .. Len(loop)
      /\ ~fast_mode => stage # "AFTER"
  BY <1>3, NextStep
<1>6. /\ called' = called /\ fast_mode' = fast_mode /\ unset_at' = unset_at
      /\ test_at' = test_at
  BY <1>2, Frame
<1>7. Shape(loop)
  BY StageShapes
<1>8. at' \in 1 .. 16 /\ (stage' \in {"BEFORE", "LOOP", "AFTER"} => at' <= Len(steps') + 1)
  BY <1>2, <1>3, GoesOn
<1>9. /\ Cardinality(pending) \in Nat /\ changes \in Nat /\ new_work \in 0 .. MaxNew
      /\ changes' \in {changes, changes + 1}
  BY <1>1, <1>3, <1>4, FS_CardinalityType DEF TypeOK
<1>10. /\ Cardinality(pending \ {pass}) = Cardinality(pending) - 1
       /\ IsFiniteSet(pending \ {pass})
  BY <1>4, FS_RemoveElement
<1>11. /\ IsFiniteSet(pending') /\ pending' \subseteq called /\ new_work' \in 0 .. MaxNew
       /\ Cardinality(pending') - new_work' <= Cardinality(pending) - 1 - new_work
  <2>1. CASE pending' = pending \ {pass} /\ new_work' = new_work
    BY <1>3, <1>9, <1>10, <2>1 DEF TypeOK
  <2>2. CASE /\ new_work < MaxNew
             /\ \E other \in called : pending' = (pending \ {pass}) \cup {other}
             /\ new_work' = new_work + 1
    <3>1. PICK other \in called : pending' = (pending \ {pass}) \cup {other}
      BY <2>2
    <3>2. /\ IsFiniteSet((pending \ {pass}) \cup {other})
          /\ Cardinality((pending \ {pass}) \cup {other}) <= Cardinality(pending \ {pass}) + 1
      BY <1>9, <1>10, FS_AddElement
    <3>3. pending' \subseteq called
      BY <1>3, <3>1 DEF TypeOK
    <3>4. Cardinality(pending') <= Cardinality(pending)
      BY <1>9, <1>10, <3>1, <3>2
    <3>5. Cardinality(pending') \in Nat
      BY <3>1, <3>2, FS_CardinalityType
    <3>6. new_work' \in 0 .. MaxNew /\ new_work' = new_work + 1
      BY <1>9, <2>2, BoundsAssumption
    <3> QED  BY <1>9, <3>1, <3>2, <3>3, <3>4, <3>5, <3>6
  <2> QED  BY <1>1, <2>1, <2>2
<1>12. Cardinality(pending') \in Nat
  BY <1>11, FS_CardinalityType
<1>13. WorkBound'
  BY <1>3, <1>9, <1>11, <1>12, BoundsAssumption DEF WorkBound
<1>14. changes' \in 0 .. MaxWork + MaxNew
  BY <1>9, <1>11, <1>12, <1>13, BoundsAssumption DEF WorkBound
<1>15. TypeOK'
  BY <1>2, <1>3, <1>6, <1>8, <1>11, <1>14 DEF TypeOK
<1>16. RoundBound'
  <2>0. /\ round \in Nat /\ round <= changes + 1
        /\ stage = "LOOP" /\ at > unset_at /\ did_something => round <= changes
        /\ stage = "LOOP" /\ at > test_at => did_something
    BY <1>3 DEF RoundBound
  <2>1. ASSUME stage = "LOOP", at + 1 > unset_at PROVE round <= changes'
    <3>1. at # unset_at /\ at # test_at /\ unset_at \in Nat /\ test_at \in Nat /\ at \in Nat
      BY <1>3, <1>4, <1>5, <1>7, <2>1 DEF Shape
    <3>2. at > unset_at
      BY <2>1, <3>1
    <3>3. CASE at > test_at
      <4>1. round <= changes
        BY <2>0, <2>1, <3>2, <3>3
      <4> QED  BY <1>9, <2>0, <4>1
    <3>4. CASE at < test_at
      <4>1. fast_mode => pass \in causes
        <5>1. fast_mode => loop[at].pass = "opt_dff"
          BY <1>5, <1>7, <2>1, <3>2, <3>4 DEF Shape
        <5> QED  BY <1>3, <1>5, <2>1, <5>1 DEF causes
      <4>2. ~fast_mode => pass \in causes
        <5>1. pass \in passes_in("LOOP")
          BY <1>3, <1>4, <1>5, <1>7, <2>1 DEF passes_in, steps_of, Shape
        <5> QED  BY <5>1 DEF causes
      <4>3. pass \in causes
        BY <4>1, <4>2
      <4>4. changes' = changes + 1
        BY <1>1, <2>1, <4>3
      <4> QED  BY <2>0, <4>4
    <3> QED  BY <3>1, <3>3, <3>4
  <2>2. round <= changes' + 1 /\ round \in Nat
    <3>1. changes' = changes \/ changes' = changes + 1
      BY <1>9
    <3>2. changes \in Nat /\ round \in Nat /\ round <= changes + 1
      BY <1>9, <2>0
    <3> QED  BY <3>1, <3>2
  <2> QED  BY <1>2, <1>3, <1>6, <2>1, <2>2 DEF RoundBound
<1>17. VisitedIdle'
  BY <1>2, <1>5, <1>6 DEF VisitedIdle
<1> QED  BY <1>8, <1>13, <1>15, <1>16, <1>17 DEF IInv

LEMMA PassFindsNothingKeeps == IInv /\ PassFindsNothing => IInv'
<1> SUFFICES ASSUME IInv, PassFindsNothing PROVE IInv'
  OBVIOUS
<1>1. PICK pass \in called \ pending : next_call(pass)
  BY DEF PassFindsNothing
<1>2. /\ at' = at + 1
      /\ UNCHANGED <<options, stage, did_something, pending, new_work, changes, round>>
  BY DEF PassFindsNothing
<1>3. TypeOK /\ WorkBound /\ RoundBound /\ VisitedIdle /\ running /\ steps[at].pass = pass
  BY <1>1 DEF IInv, next_call
<1>4. pass \notin {"unset", "test"}
  BY CalledPasses
<1>5. /\ at \in 1 .. Len(steps) /\ stage \in {"BEFORE", "LOOP", "AFTER"}
      /\ stage = "LOOP" => steps = loop /\ at \in 1 .. Len(loop)
      /\ ~fast_mode => stage # "AFTER"
  BY <1>3, NextStep
<1>6. /\ called' = called /\ fast_mode' = fast_mode /\ unset_at' = unset_at
      /\ test_at' = test_at /\ loop' = loop
  BY <1>2, Frame
<1>7. Shape(loop)
  BY StageShapes
<1>8. at' \in 1 .. 16 /\ (stage' \in {"BEFORE", "LOOP", "AFTER"} => at' <= Len(steps') + 1)
  BY <1>2, <1>3, GoesOn
<1>9. TypeOK' /\ WorkBound'
  BY <1>2, <1>3, <1>6, <1>8 DEF TypeOK, WorkBound
<1>10. stage = "LOOP" =>
         /\ at # unset_at /\ at # test_at /\ unset_at \in Nat /\ test_at \in Nat /\ at \in Nat
         /\ at + 1 > unset_at => at > unset_at
         /\ at + 1 > test_at => at > test_at
  <2> SUFFICES ASSUME stage = "LOOP"
      PROVE  /\ at # unset_at /\ at # test_at /\ unset_at \in Nat /\ test_at \in Nat /\ at \in Nat
             /\ at + 1 > unset_at => at > unset_at
             /\ at + 1 > test_at => at > test_at
    OBVIOUS
  <2>1. at # unset_at /\ at # test_at /\ unset_at \in Nat /\ test_at \in Nat /\ at \in Nat
    BY <1>3, <1>4, <1>5, <1>7 DEF Shape
  <2> QED  BY <2>1
<1>11. RoundBound'
  BY <1>2, <1>3, <1>6, <1>10 DEF RoundBound
<1>12. VisitedIdle'
  <2>1. ASSUME ~fast_mode, stage = "LOOP", at + 1 > unset_at, ~did_something,
               NEW i \in 1 .. Len(loop), unset_at < i, i < at + 1
        PROVE  loop[i].pass \notin pending
    <3>1. CASE i = at
      BY <1>1, <1>3, <1>5, <2>1, <3>1
    <3>2. CASE i < at
      BY <1>3, <1>10, <2>1, <3>2 DEF VisitedIdle
    <3> QED  BY <1>10, <2>1, <3>1, <3>2
  <2> QED  BY <1>2, <1>5, <1>6, <2>1 DEF VisitedIdle
<1> QED  BY <1>8, <1>9, <1>11, <1>12 DEF IInv

LEMMA UnsetFlagKeeps == IInv /\ UnsetFlag => IInv'
<1> SUFFICES ASSUME IInv, UnsetFlag PROVE IInv'
  OBVIOUS
<1>1. /\ running /\ steps[at].pass = "unset" /\ did_something' = FALSE /\ at' = at + 1
      /\ UNCHANGED <<options, stage, pending, new_work, changes, round>>
  BY Parts DEF UnsetFlag
<1>2. TypeOK /\ WorkBound /\ RoundBound /\ VisitedIdle
  BY DEF IInv
<1>3. stage = "LOOP" /\ steps = loop /\ at \in 1 .. Len(loop)
  BY <1>1, NextStep
<1>4. /\ called' = called /\ fast_mode' = fast_mode /\ unset_at' = unset_at
      /\ test_at' = test_at /\ loop' = loop
  BY <1>1, Frame
<1>5. Shape(loop)
  BY StageShapes
<1>6. at = unset_at /\ at \in Nat /\ test_at \in Nat /\ at < test_at
  BY <1>1, <1>3, <1>5 DEF Shape
<1>7. at' \in 1 .. 16 /\ (stage' \in {"BEFORE", "LOOP", "AFTER"} => at' <= Len(steps') + 1)
  BY <1>1, GoesOn
<1>8. TypeOK' /\ WorkBound'
  BY <1>1, <1>2, <1>4, <1>7 DEF TypeOK, WorkBound
<1>9. RoundBound'
  <2>1. ~(at + 1 > test_at)
    BY <1>6
  <2> QED  BY <1>1, <1>2, <1>3, <1>4, <2>1 DEF RoundBound
<1>10. VisitedIdle'
  <2>1. \A i \in 1 .. Len(loop) : ~(unset_at < i /\ i < at + 1)
    BY <1>6
  <2> QED  BY <1>1, <1>3, <1>4, <2>1 DEF VisitedIdle
<1> QED  BY <1>7, <1>8, <1>9, <1>10 DEF IInv

LEMMA ContinueKeeps == IInv /\ Continue => IInv'
<1> SUFFICES ASSUME IInv, Continue PROVE IInv'
  OBVIOUS
<1>1. /\ running /\ steps[at].pass = "test" /\ did_something /\ at' = at + 1
      /\ UNCHANGED <<options, stage, did_something, pending, new_work, changes, round>>
  BY Parts DEF Continue
<1>2. TypeOK /\ WorkBound /\ RoundBound /\ VisitedIdle
  BY DEF IInv
<1>3. stage = "LOOP" /\ steps = loop /\ at \in 1 .. Len(loop)
  BY <1>1, NextStep
<1>4. /\ called' = called /\ fast_mode' = fast_mode /\ unset_at' = unset_at
      /\ test_at' = test_at /\ loop' = loop
  BY <1>1, Frame
<1>5. Shape(loop)
  BY StageShapes
<1>6. at = test_at /\ at \in Nat /\ unset_at < at /\ unset_at \in Nat
  BY <1>1, <1>3, <1>5 DEF Shape
<1>7. at' \in 1 .. 16 /\ (stage' \in {"BEFORE", "LOOP", "AFTER"} => at' <= Len(steps') + 1)
  BY <1>1, GoesOn
<1>8. TypeOK' /\ WorkBound'
  BY <1>1, <1>2, <1>4, <1>7 DEF TypeOK, WorkBound
<1>9. RoundBound'
  <2>1. at > unset_at
    BY <1>6
  <2> QED  BY <1>1, <1>2, <1>3, <1>4, <2>1 DEF RoundBound
<1>10. VisitedIdle'
  BY <1>1, <1>3, <1>4 DEF VisitedIdle
<1> QED  BY <1>7, <1>8, <1>9, <1>10 DEF IInv

\* The round ends with every pass of the loop visited, and none had work.
LEMMA LeaveLoopKeeps == IInv /\ LeaveLoop => IInv'
<1> SUFFICES ASSUME IInv, LeaveLoop PROVE IInv'
  OBVIOUS
<1>1. /\ running /\ steps[at].pass = "test" /\ ~did_something /\ stage' = "AFTER" /\ at' = 1
      /\ UNCHANGED <<options, did_something, pending, new_work, changes, round>>
  BY Parts DEF LeaveLoop
<1>2. TypeOK /\ WorkBound /\ RoundBound /\ VisitedIdle
  BY DEF IInv
<1>3. stage = "LOOP" /\ steps = loop /\ at \in 1 .. Len(loop)
  BY <1>1, NextStep
<1>4. /\ called' = called /\ fast_mode' = fast_mode /\ unset_at' = unset_at
      /\ test_at' = test_at /\ loop' = loop /\ passes_in("LOOP")' = passes_in("LOOP")
  BY <1>1, Frame
<1>5. Shape(loop)
  BY StageShapes
<1>6. at = test_at /\ at \in Nat /\ unset_at < at
  BY <1>1, <1>3, <1>5 DEF Shape
<1>7. at' <= Len(steps') + 1
  <2>1. steps' = after
    BY <1>1, Frame DEF steps, steps_of
  <2>2. Len(after) \in Nat
    BY StageShapes
  <2> QED  BY <1>1, <2>1, <2>2
<1>8. TypeOK' /\ WorkBound' /\ RoundBound'
  BY <1>1, <1>2, <1>4 DEF TypeOK, WorkBound, RoundBound
<1>9. VisitedIdle'
  <2>1. ASSUME ~fast_mode, NEW x \in passes_in("LOOP") PROVE x \notin pending
    <3>1. PICK i \in 1 .. Len(loop) : loop[i].pass = x
      BY <1>5 DEF passes_in, steps_of, Shape
    <3>2. x \notin {"unset", "test"}
      BY DEF passes_in
    <3>3. i # 1 /\ i # Len(loop) /\ unset_at = 1 /\ at = Len(loop)
      BY <1>5, <1>6, <2>1, <3>1, <3>2 DEF Shape
    <3>4. unset_at < i /\ i < at
      BY <1>3, <3>3
    <3> QED  BY <1>1, <1>2, <1>3, <1>6, <2>1, <3>1, <3>4 DEF VisitedIdle
  <2> QED  BY <1>1, <1>4, <2>1 DEF VisitedIdle
<1> QED  BY <1>7, <1>8, <1>9 DEF IInv

\* Another round begins only with a change of the last one.
LEMMA BeginRoundKeeps == IInv /\ BeginRound => IInv'
<1> SUFFICES ASSUME IInv, BeginRound PROVE IInv'
  OBVIOUS
<1>1. /\ stage \in {"BEFORE", "LOOP"} /\ at > Len(steps) /\ stage' = "LOOP" /\ at' = 1
      /\ round' = IF round < MaxWork + MaxNew + 2 THEN round + 1 ELSE round
      /\ UNCHANGED <<options, did_something, pending, new_work, changes>>
  BY DEF BeginRound
<1>2. TypeOK /\ WorkBound /\ RoundBound /\ VisitedIdle
  BY DEF IInv
<1>3. /\ called' = called /\ fast_mode' = fast_mode /\ unset_at' = unset_at
      /\ test_at' = test_at /\ loop' = loop /\ passes_in("LOOP")' = passes_in("LOOP")
  BY <1>1, Frame
<1>4. Shape(loop)
  BY StageShapes
<1>5. at' <= Len(steps') + 1
  <2>1. steps' = loop
    BY <1>1, <1>3 DEF steps, steps_of
  <2>2. Len(loop) \in Nat
    BY <1>4 DEF Shape
  <2> QED  BY <1>1, <2>1, <2>2
<1>6. TypeOK' /\ WorkBound'
  BY <1>1, <1>2, <1>3 DEF TypeOK, WorkBound
<1>7. round <= changes /\ round \in Nat /\ changes \in Nat
  <2>1. round \in Nat /\ changes \in Nat
    BY <1>2 DEF RoundBound, TypeOK
  <2>2. CASE stage = "BEFORE"
    BY <1>2, <2>1, <2>2 DEF RoundBound
  <2>3. CASE stage = "LOOP"
    <3>1. steps = loop
      BY <2>3 DEF steps, steps_of
    <3>2. at \in Nat /\ at > test_at /\ at > unset_at
      <4>1. /\ unset_at \in Nat /\ test_at \in Nat /\ Len(loop) \in Nat
            /\ test_at <= Len(loop) /\ unset_at < test_at
        BY <1>4 DEF Shape
      <4>2. at \in Nat /\ at > Len(loop)
        BY <1>1, <1>2, <3>1 DEF TypeOK
      <4> QED  BY <4>1, <4>2
    <3> QED  BY <1>2, <2>1, <2>3, <3>2 DEF RoundBound
  <2> QED  BY <1>1, <2>2, <2>3
<1>8. round' \in Nat /\ round' <= changes + 1
  BY <1>1, <1>7
<1>9. unset_at \in Nat /\ unset_at >= 1 /\ test_at \in Nat /\ test_at >= 1
  BY <1>4 DEF Shape
<1>10. ~(1 > unset_at) /\ ~(1 > test_at)
  BY <1>9
<1>11. RoundBound' /\ VisitedIdle'
  BY <1>1, <1>3, <1>8, <1>10 DEF RoundBound, VisitedIdle
<1> QED  BY <1>5, <1>6, <1>11 DEF IInv

LEMMA NextInv == IInv /\ [Next]_vars => IInv'
<1> SUFFICES ASSUME IInv, [Next]_vars PROVE IInv'
  OBVIOUS
<1>1. CASE OptionRejected
  <2>1. /\ stage' = "ABORTED"
        /\ UNCHANGED <<options, at, did_something, pending, new_work, changes, round>>
    BY <1>1 DEF OptionRejected
  <2>2. called' = called
    BY <2>1, Frame
  <2> QED  BY <2>1, <2>2 DEF IInv, TypeOK, WorkBound, RoundBound, VisitedIdle
<1>2. CASE Finish
  <2>1. /\ stage = "AFTER" /\ stage' = "DONE"
        /\ UNCHANGED <<options, at, did_something, pending, new_work, changes, round>>
    BY <1>2 DEF Finish
  <2>2. /\ called' = called /\ fast_mode' = fast_mode
        /\ passes_in("LOOP")' = passes_in("LOOP")
    BY <2>1, Frame
  <2> QED  BY <2>1, <2>2 DEF IInv, TypeOK, WorkBound, RoundBound, VisitedIdle
<1>3. CASE UNCHANGED vars
  <2>1. UNCHANGED <<options, stage, at, did_something, pending, new_work, changes, round>>
    BY <1>3 DEF vars
  <2>2. /\ called' = called /\ fast_mode' = fast_mode /\ unset_at' = unset_at
        /\ test_at' = test_at /\ loop' = loop /\ passes_in("LOOP")' = passes_in("LOOP")
    BY <2>1, Frame
  <2>3. stage \in {"BEFORE", "LOOP", "AFTER"} => steps' = steps
    BY <2>1, Frame DEF steps
  <2> QED  BY <2>1, <2>2, <2>3 DEF IInv, TypeOK, WorkBound, RoundBound, VisitedIdle
<1>4. CASE Terminated
  BY <1>3, <1>4 DEF Terminated
<1> QED  BY <1>1, <1>2, <1>3, <1>4, PassChangesKeeps, PassFindsNothingKeeps, UnsetFlagKeeps,
           ContinueKeeps, LeaveLoopKeeps, BeginRoundKeeps DEF Next

-----------------------------------------------------------------------------
\* For all options, and however the passes make work for each other: without -fast
\* the loop ends only when none of its passes has work, and a round after the first
\* is begun only if a change that counts was made for it.
THEOREM RoundsAreAlwaysRight == Spec => []RoundsAreRight
<1>1. IInv => RoundsAreRight
  BY DEF IInv, RoundsAreRight, NothingLeftInLoop, RoundsAreEarned, VisitedIdle, RoundBound
<1>2. Spec => []IInv
  BY InitInv, NextInv, PTL DEF Spec
<1> QED  BY <1>1, <1>2, PTL

=============================================================================
