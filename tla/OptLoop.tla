------------------------------- MODULE OptLoop -------------------------------
(***************************************************************************)
(* The command opt: which passes run, in which order and with which        *)
(* options, and when the loop over them ends.  A pass is reduced to what    *)
(* the loop sees of it: whether it changed the design.  A design is the    *)
(* set of passes that would change it; a change uses up the work of its    *)
(* pass and may make work for another one, or for the same.                *)
(***************************************************************************)
EXTENDS Naturals, SequencesExt

CONSTANTS
  OptionSets,     \* the command lines considered, as sets of options
  MaxWork,        \* passes with work to do on the design opt starts with
  MaxNew          \* bound: how many changes make new work

ASSUME BoundsAssumption == MaxWork \in Nat /\ MaxNew \in Nat

VARIABLES
  options,
  stage,          \* "BEFORE", "LOOP" and "AFTER" the loop, "DONE", "ABORTED"
  at,             \* the step of the stage that comes next
  did_something,  \* the entry of the scratchpad, kept between commands
  pending,        \* the passes that would change the design
  new_work,       \* changes that made new work so far
  changes,        \* changes so far that call for another round
  round           \* rounds of the loop begun so far, up to one more than can be earned

vars == <<options, stage, at, did_something, pending, new_work, changes, round>>

-----------------------------------------------------------------------------

opt_expr_options == {"-mux_undef", "-mux_bool", "-undriven", "-noclkinv", "-fine", "-full", "-keepdc"}
opt_reduce_options == {"-fine", "-full"}
opt_dff_options == {"-keepdc", "-nodffe", "-nosdff", "-sat"}
opt_merge_options == {"-keepdc", "-share_all"}
opt_clean_options == {"-purge"}

\* A step: the call of a pass with options, or one of the two steps of opt itself.
Call(pass, args) == [pass |-> pass, args |-> args]
Plain(pass) == Call(pass, {})
Unset == Plain("unset")
Test == Plain("test")

Calls(passes) == [i \in DOMAIN passes |-> Plain(passes[i])]

opt_expr_args == options \cap opt_expr_options
opt_dff_calls == IF "-noff" \in options THEN <<>> ELSE <<Call("opt_dff", options \cap opt_dff_options)>>
opt_share_calls == IF "-full" \in options THEN <<Plain("my_opt_share")>> ELSE <<>>
opt_merge_call == Call("opt_merge", options \cap opt_merge_options)
opt_clean_call == Call("opt_clean", options \cap opt_clean_options)

fast_mode == "-fast" \in options

local_passes == <<Call("my_opt_expr", opt_expr_args), Plain("my_opt_strength"), Plain("my_opt_cse")>>

custom_passes ==
  <<Plain("my_opt_muxtree"), Call("my_opt_reduce", options \cap opt_reduce_options)>>
    \o Calls(<<"my_opt_rewrite", "my_opt_cover", "my_opt_qm", "my_opt_kernel", "my_opt_dce">>)

before ==
  IF fast_mode THEN <<>>
  ELSE Append(local_passes, [opt_merge_call EXCEPT !.args = @ \cup {"-nomux"}])

fast_loop == Append(local_passes, opt_merge_call) \o <<Unset>> \o opt_dff_calls \o <<Test, opt_clean_call>>

\* Faulty variants: the entry is cleared after the custom passes, or never.
normal_loop_late ==
  custom_passes \o <<Unset, opt_merge_call>> \o opt_share_calls \o opt_dff_calls
    \o <<opt_clean_call, Call("opt_expr", opt_expr_args), Test>>
normal_loop_never ==
  custom_passes \o <<opt_merge_call>> \o opt_share_calls \o opt_dff_calls
    \o <<opt_clean_call, Call("opt_expr", opt_expr_args), Test>>

normal_loop ==
  <<Unset>> \o custom_passes \o <<opt_merge_call>> \o opt_share_calls \o opt_dff_calls
    \o <<opt_clean_call, Call("opt_expr", opt_expr_args), Test>>

loop == IF fast_mode THEN fast_loop ELSE normal_loop
after == IF fast_mode THEN <<opt_clean_call>> ELSE <<>>

steps_of(s) == CASE s = "BEFORE" -> before [] s = "LOOP" -> loop [] OTHER -> after
steps == steps_of(stage)

passes_in(s) == {steps_of(s)[i].pass : i \in DOMAIN steps_of(s)} \ {"unset", "test"}

\* The passes whose changes are seen at the end of a round.
causes == IF fast_mode THEN {"opt_dff"} ELSE passes_in("LOOP")
called == UNION {passes_in(s) : s \in {"BEFORE", "LOOP", "AFTER"}}

\* What a pass accepts; an option it does not know is a command error.
accepted(pass) ==
  CASE pass = "opt_expr"  -> opt_expr_options
    [] pass = "opt_merge" -> opt_merge_options \cup {"-nomux"}
    [] pass = "opt_dff"   -> opt_dff_options
    [] pass = "opt_clean" -> opt_clean_options
    [] OTHER -> {}

-----------------------------------------------------------------------------

Init ==
  /\ options \in OptionSets
  /\ stage = "BEFORE" /\ at = 1
  /\ did_something \in BOOLEAN
  /\ pending \in {w \in SUBSET called : Cardinality(w) <= MaxWork}
  /\ new_work = 0 /\ changes = 0 /\ round = 0

running == stage \in {"BEFORE", "LOOP", "AFTER"} /\ at <= Len(steps)

next_call(pass) ==
  /\ running
  /\ steps[at].pass = pass
  /\ steps[at].args \subseteq accepted(pass)

PassChanges ==
  \E pass \in pending :
    /\ next_call(pass)
    /\ did_something' = TRUE
    /\ \/ pending' = pending \ {pass} /\ UNCHANGED new_work
       \/ /\ new_work < MaxNew
          /\ \E other \in called : pending' = (pending \ {pass}) \cup {other}
          /\ new_work' = new_work + 1
    /\ changes' = changes + (IF stage = "LOOP" /\ pass \in causes THEN 1 ELSE 0)
    /\ at' = at + 1
    /\ UNCHANGED <<options, stage, round>>

PassFindsNothing ==
  /\ \E pass \in called \ pending : next_call(pass)
  /\ at' = at + 1
  /\ UNCHANGED <<options, stage, did_something, pending, new_work, changes, round>>

\* extra_args of the pass raises a command error, which ends the script.
OptionRejected ==
  /\ \E pass \in called :
       running /\ steps[at].pass = pass /\ ~(steps[at].args \subseteq accepted(pass))
  /\ stage' = "ABORTED"
  /\ UNCHANGED <<options, at, did_something, pending, new_work, changes, round>>

UnsetFlag ==
  /\ running /\ steps[at] = Unset
  /\ did_something' = FALSE
  /\ at' = at + 1
  /\ UNCHANGED <<options, stage, pending, new_work, changes, round>>

Continue ==
  /\ running /\ steps[at] = Test /\ did_something
  /\ at' = at + 1
  /\ UNCHANGED <<options, stage, did_something, pending, new_work, changes, round>>

LeaveLoop ==
  /\ running /\ steps[at] = Test /\ ~did_something
  /\ stage' = "AFTER" /\ at' = 1
  /\ UNCHANGED <<options, did_something, pending, new_work, changes, round>>

BeginRound ==
  /\ stage \in {"BEFORE", "LOOP"} /\ at > Len(steps)
  /\ stage' = "LOOP" /\ at' = 1
  /\ round' = IF round < MaxWork + MaxNew + 2 THEN round + 1 ELSE round   \* saturates
  /\ UNCHANGED <<options, did_something, pending, new_work, changes>>

Finish ==
  /\ stage = "AFTER" /\ at > Len(steps)
  /\ stage' = "DONE"
  /\ UNCHANGED <<options, at, did_something, pending, new_work, changes, round>>

Terminated == stage \in {"DONE", "ABORTED"} /\ UNCHANGED vars

Next == \/ PassChanges \/ PassFindsNothing \/ OptionRejected \/ UnsetFlag
        \/ Continue \/ LeaveLoop \/ BeginRound \/ Finish \/ Terminated

Spec == Init /\ [][Next]_vars /\ WF_vars(Next)

-----------------------------------------------------------------------------
\* Every state of the run is one of the command's, within the bounds.
TypeOK ==
  /\ options \in OptionSets
  /\ stage \in {"BEFORE", "LOOP", "AFTER", "DONE", "ABORTED"}
  /\ at \in 1 .. 16
  /\ did_something \in BOOLEAN
  /\ pending \subseteq called
  /\ new_work \in 0 .. MaxNew /\ changes \in 0 .. MaxWork + MaxNew

\* Without -fast, opt ends on a design that no pass of its loop would change,
\* whatever work the passes made for each other and for the passes before them.
NothingLeftInLoop ==
  stage = "DONE" /\ ~fast_mode => pending \cap passes_in("LOOP") = {}

\* Every round after the first one has a change of its own to thank for it,
\* made after the entry was cleared; with -fast, one of opt_dff.  A change that
\* was made before the loop, or by an earlier command, is not the cause of one.
RoundsAreEarned == round <= changes + 1

\* The loop makes no round too few and none too many.
RoundsAreRight == TypeOK /\ NothingLeftInLoop /\ RoundsAreEarned

\* opt ends, if the passes cannot make work for each other forever.
Terminates == <>(stage \in {"DONE", "ABORTED"})

=============================================================================
