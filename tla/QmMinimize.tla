----------------------------- MODULE QmMinimize -----------------------------
(***************************************************************************)
(* my_opt_qm: Quine-McCluskey minimization of one output bit.  The truth   *)
(* table of the bit is given by its on-set and its don't-care set (the     *)
(* minterms on which the evaluator found the value unknown).  The pass     *)
(*   GENERATE   merges minterms into prime implicants, level by level,     *)
(*   ESSENTIAL, COLUMNS, ROWS   simplifies the prime chart to a fixpoint,  *)
(*   SEARCH     covers what remains by branch and bound,                   *)
(* and rebuilds the bit when the cover is cheaper than the cells it has.   *)
(* Vectors without duplicates are sets: no step depends on their order,    *)
(* but for the ties that std::sort leaves open.                            *)
(***************************************************************************)
EXTENDS Cubes, SequencesExt

CONSTANTS Functions,  \* truth tables: records with the fields on and dc
          ConeCosts   \* numbers of cells the bit's present logic may have

INT_MAX == 2147483647

ASSUME FunctionsAssumption ==
  \A f \in Functions :
    /\ f.on \subseteq Minterm /\ f.dc \subseteq Minterm
    /\ f.on \cap f.dc = {}

\* A cover that has a cube for each minterm costs less than INT_MAX: this is so
\* up to 24 variables, and -max_vars is at most 12.
ASSUME CostAssumption == (64 + NumVars) * Cardinality(Minterm) < INT_MAX

VARIABLES
  on, dc,         \* the truth table (trimmed_on_set, trimmed_dc_set)
  phase,
  current,        \* the cubes of the level being merged
  primes,         \* the prime implicants
  chart,          \* the columns of the prime chart
  remaining,      \* its rows: the minterms still to be covered
  essential,      \* the columns that were selected
  changed,        \* did this round of the simplification change the chart?
  path,           \* the columns chosen on the way to the search's node
  frames,         \* the candidates left at each node of that way
  best, best_cost,
  rewritten

vars == <<on, dc, phase, current, primes, chart, remaining, essential, changed,
          path, frames, best, best_cost, rewritten>>

chartVars  == <<chart, remaining, essential, changed>>
searchVars == <<path, frames, best, best_cost>>

-----------------------------------------------------------------------------

\* A set of minterms is scanned in the order of the integers they are.
Number(minterm) == MapThenSumSet(LAMBDA v : 2^v, minterm)
First(S) == {m \in S : \A k \in S : Number(m) <= Number(k)}

difference(a, b) == (a.val \ b.val) \cup (b.val \ a.val)
\* Faulty variants: the masks are not compared; only one of two merged cubes
\* is found used.
combinable_ignores_mask(a, b) == Cardinality(difference(a, b)) = 1
combinable_marks_one(a, b) ==
  a.dc = b.dc /\ a.val \subseteq b.val /\ Cardinality(difference(a, b)) = 1

combinable(a, b) == a.dc = b.dc /\ Cardinality(difference(a, b)) = 1

combine_cubes(a, b) == [val |-> a.val \ difference(a, b),
                        dc  |-> a.dc \cup difference(a, b)]

\* Inverters, and the two-input gates that join the literals and the cubes.
estimate_network_cost(cover) ==
  LET literals(c) == Vars \ c.dc
      cost(c) == Cardinality(literals(c) \ c.val)
                   + IF Cardinality(literals(c)) > 1
                     THEN Cardinality(literals(c)) - 1 ELSE 0
  IN  MapThenSumSet(cost, cover)
        + IF Cardinality(cover) > 1 THEN Cardinality(cover) - 1 ELSE 0

columns(minterm) == {p \in chart : covers(p, minterm)}

\* Faulty variant: the column with fewer rows stays.
dominated_columns_reversed ==
  {j \in chart : \E i \in chart \ {j} :
      /\ cube_cover_set(i, remaining) \subseteq cube_cover_set(j, remaining)
      /\ literal_count(i) <= literal_count(j)}

\* Column j is removed when some column i covers its remaining rows and has
\* no more literals.  Whether i is itself removed is not asked.
dominated_columns ==
  {j \in chart : \E i \in chart \ {j} :
      /\ cube_cover_set(j, remaining) \subseteq cube_cover_set(i, remaining)
      /\ literal_count(i) <= literal_count(j)}

\* Row j is removed when every column that covers some row i covers it too,
\* and again row i may be removed itself.
dominated_rows ==
  {j \in remaining : \E i \in remaining \ {j} : columns(i) \subseteq columns(j)}

-----------------------------------------------------------------------------

\* A bit that is never 1 has the empty cover without any search.
Init ==
  /\ \E f \in Functions : on = f.on /\ dc = f.dc
  /\ phase = IF on = {} THEN "DECIDE" ELSE "GENERATE"
  /\ current = {[val |-> m, dc |-> {}] : m \in on \cup dc}
  /\ primes = {}
  /\ chart = {} /\ remaining = {} /\ essential = {} /\ changed = FALSE
  /\ path = <<>> /\ frames = <<>>
  /\ best = {} /\ best_cost = INT_MAX
  /\ rewritten = FALSE

\* One level of prime_implicants: what no cube of the level combines with is
\* prime.
Combine ==
  /\ phase = "GENERATE"
  /\ current # {}
  /\ current' = {combine_cubes(p[1], p[2]) :
                   p \in {q \in current \X current : combinable(q[1], q[2])}}
  /\ primes' = primes \cup {a \in current : \A b \in current : ~combinable(a, b)}
  /\ UNCHANGED <<on, dc, phase, chartVars, searchVars, rewritten>>

MakeChart ==
  /\ phase = "GENERATE"
  /\ current = {}
  /\ phase' = "ESSENTIAL"
  /\ chart' = primes
  /\ remaining' = on
  /\ UNCHANGED <<on, dc, current, primes, essential, changed, searchVars, rewritten>>

\* A row that one column alone covers selects that column.
SelectEssential ==
  LET rows == {m \in remaining : Cardinality(columns(m)) = 1}
  IN  /\ phase = "ESSENTIAL"
      /\ rows # {}
      /\ \E m \in First(rows) : \E only \in columns(m) :
           /\ essential' = essential \cup {only}
           /\ remaining' = remaining \ cube_cover_set(only, remaining)
      /\ changed' = TRUE
      /\ UNCHANGED <<on, dc, phase, current, primes, chart, searchVars, rewritten>>

DropUseless ==
  /\ phase = "ESSENTIAL"
  /\ \A m \in remaining : Cardinality(columns(m)) # 1
  /\ chart' = {p \in chart : cube_cover_set(p, remaining) # {}}
  /\ changed' = (changed \/ chart' # chart)
  /\ phase' = "COLUMNS"
  /\ UNCHANGED <<on, dc, current, primes, remaining, essential, searchVars, rewritten>>

DropColumns ==
  /\ phase = "COLUMNS"
  /\ chart' = chart \ dominated_columns
  /\ changed' = (changed \/ dominated_columns # {})
  /\ phase' = "ROWS"
  /\ UNCHANGED <<on, dc, current, primes, remaining, essential, searchVars, rewritten>>

\* Faulty variant: the flag is not reset.
DropRows_keeps_changed ==
  /\ phase = "ROWS"
  /\ remaining' = remaining \ dominated_rows
  /\ phase' = IF changed \/ dominated_rows # {} THEN "ESSENTIAL"
              ELSE IF remaining = {} THEN "DECIDE" ELSE "ENTER"
  /\ best' = IF phase' = "DECIDE" THEN essential ELSE best
  /\ UNCHANGED <<on, dc, current, primes, chart, essential, changed, path, frames,
                 best_cost, rewritten>>

\* The end of a round: another one if anything changed; otherwise the search,
\* unless no row is left and the selected columns are the cover.
DropRows ==
  /\ phase = "ROWS"
  /\ remaining' = remaining \ dominated_rows
  /\ changed' = FALSE
  /\ phase' = IF changed \/ dominated_rows # {} THEN "ESSENTIAL"
              ELSE IF remaining = {} THEN "DECIDE" ELSE "ENTER"
  /\ best' = IF phase' = "DECIDE" THEN essential ELSE best
  /\ UNCHANGED <<on, dc, current, primes, chart, essential, path, frames,
                 best_cost, rewritten>>

-----------------------------------------------------------------------------
(* exact_cover_search: a depth-first search whose call stack is `frames'.  *)

chosen == essential \cup ToSet(path)
uncovered == remaining \ covered_minterms(chosen, remaining)

\* The call prunes, or finds a cheaper cover, and returns ...
SearchLeaf ==
  /\ phase = "ENTER"
  /\ sop_cost(chosen) >= best_cost \/ uncovered = {}
  /\ IF sop_cost(chosen) < best_cost
     THEN best' = chosen /\ best_cost' = sop_cost(chosen)
     ELSE UNCHANGED <<best, best_cost>>
  /\ phase' = IF path = <<>> THEN "DECIDE" ELSE "BRANCH"
  /\ path' = IF path = <<>> THEN path ELSE Front(path)
  /\ UNCHANGED <<on, dc, current, primes, chartVars, frames, rewritten>>

\* ... or branches on the uncovered minterm with the fewest columns.
SearchNode ==
  LET hardest == {m \in uncovered : \A k \in uncovered :
                    Cardinality(columns(m)) <= Cardinality(columns(k))}
  IN  /\ phase = "ENTER"
      /\ sop_cost(chosen) < best_cost /\ uncovered # {}
      /\ \E m \in First(hardest) : frames' = Append(frames, columns(m))
      /\ phase' = "BRANCH"
      /\ UNCHANGED <<on, dc, current, primes, chartVars, path, best, best_cost,
                     rewritten>>

\* The candidates are tried in the order of their literal counts.
SearchBranch ==
  /\ phase = "BRANCH"
  /\ \E c \in Last(frames) :
       /\ \A d \in Last(frames) : literal_count(c) <= literal_count(d)
       /\ frames' = Append(Front(frames), Last(frames) \ {c})
       /\ path' = Append(path, c)
  /\ phase' = "ENTER"
  /\ UNCHANGED <<on, dc, current, primes, chartVars, best, best_cost, rewritten>>

\* Faulty variant: the search gives up where it runs out of candidates.
SearchReturn_gives_up ==
  /\ phase = "BRANCH"
  /\ Last(frames) = {}
  /\ frames' = <<>> /\ path' = <<>>
  /\ phase' = "DECIDE"
  /\ UNCHANGED <<on, dc, current, primes, chartVars, best, best_cost, rewritten>>

SearchReturn ==
  /\ phase = "BRANCH"
  /\ Last(frames) = {}
  /\ frames' = Front(frames)
  /\ phase' = IF path = <<>> THEN "DECIDE" ELSE "BRANCH"
  /\ path' = IF path = <<>> THEN path ELSE Front(path)
  /\ UNCHANGED <<on, dc, current, primes, chartVars, best, best_cost, rewritten>>

-----------------------------------------------------------------------------

\* The bit is rebuilt unless no cover was found or it is not cheaper.
Decide ==
  /\ phase = "DECIDE"
  /\ phase' = "DONE"
  /\ \E coneCost \in ConeCosts :
       rewritten' = ((on = {} \/ best # {}) /\ estimate_network_cost(best) < coneCost)
  /\ UNCHANGED <<on, dc, current, primes, chartVars, searchVars>>

Terminated == phase = "DONE" /\ UNCHANGED vars

Next ==
  \/ Combine \/ MakeChart
  \/ SelectEssential \/ DropUseless \/ DropColumns \/ DropRows
  \/ SearchLeaf \/ SearchNode \/ SearchBranch \/ SearchReturn
  \/ Decide \/ Terminated

Spec == Init /\ [][Next]_vars

FairSpec == Spec /\ WF_vars(Next)

-----------------------------------------------------------------------------

Phases == {"GENERATE", "ESSENTIAL", "COLUMNS", "ROWS", "ENTER", "BRANCH",
           "DECIDE", "DONE"}

TypeOK ==
  /\ on \in SUBSET Minterm /\ dc \in SUBSET Minterm
  /\ phase \in Phases
  /\ current \in SUBSET Cube /\ primes \in SUBSET Cube
  /\ chart \in SUBSET Cube /\ essential \in SUBSET Cube
  /\ remaining \in SUBSET Minterm
  /\ changed \in BOOLEAN
  /\ path \in Seq(Cube)
  /\ frames \in Seq(SUBSET Cube)
  /\ best \in SUBSET Cube
  /\ best_cost \in Nat
  /\ rewritten \in BOOLEAN

\* Every cube the pass ever handles is an implicant: it covers no minterm on
\* which the bit is 0.  So the rebuilt bit is never 1 where it must be 0.
OffSetAvoided ==
  Function(current \cup primes \cup chart \cup chosen \cup best) \subseteq on \cup dc

\* The merging of cubes level by level finds exactly the maximal cubes.
PrimesComplete ==
  LET implicants == {c \in Cube : cube_cover_set(c, Minterm) \subseteq on \cup dc}
  IN  phase # "GENERATE" /\ on # {} =>
        primes = {c \in implicants : \A d \in implicants \ {c} :
                    ~(cube_cover_set(c, Minterm) \subseteq cube_cover_set(d, Minterm))}

\* The search returns a cover of the rows it was given, and fails only when
\* the chart it was given has no cover.
SearchComplete ==
  phase = "DONE" /\ remaining # {} =>
    IF remaining \subseteq Function(chart \cup essential)
    THEN remaining \subseteq Function(best)
    ELSE best = {}

\* The pruning loses no optimum: what the search returns is a cheapest cover
\* of the rows it was given by columns of the chart it was given.
SearchMinimal ==
  phase = "DONE" =>
    \A S \in SUBSET chart :
      remaining \subseteq Function(S \cup essential) =>
        sop_cost(best) <= sop_cost(S \cup essential)

SearchIsExact == SearchComplete /\ SearchMinimal

\* Two columns, or two rows, that dominate each other: each is removed because
\* the other one stays.
columns_alike ==
  \E i, j \in chart : /\ i # j
                      /\ cube_cover_set(i, remaining) = cube_cover_set(j, remaining)
                      /\ literal_count(i) = literal_count(j)
rows_alike == \E i, j \in remaining : i # j /\ columns(i) = columns(j)

NoTwins == /\ phase = "COLUMNS" => ~columns_alike
           /\ phase = "ROWS" => ~rows_alike

\* The pass returns a cheapest cover of the on-set by prime implicants.
ResultIsExact ==
  phase = "DONE" =>
    /\ on \subseteq Function(best)
    /\ \A other \in SUBSET primes :
         on \subseteq Function(other) => sop_cost(best) <= sop_cost(other)

\* The simplification of the chart spoils the exact minimization by nothing but
\* twins: if no two columns or rows are ever alike when it removes some, the
\* pass is exact.
ExactWithoutTwins == []NoTwins => []ResultIsExact

\* The pass is done with every bit.
Terminates == <>(phase = "DONE")

=============================================================================
