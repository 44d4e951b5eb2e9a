----------------------------- MODULE WebServer ------------------------------
(***************************************************************************)
(* The web server (server.py): every request of a page has a thread of its  *)
(* own that compiles the source, then draws what the compiler wrote or runs *)
(* the optimisation script, in a directory of its own, and answers.  Each   *)
(* program that is started may be missing, fail, stop half way or time out; *)
(* other errors of the system end the thread without an answer.             *)
(***************************************************************************)
EXTENDS Integers, FiniteSets, SequencesExt

CONSTANTS
  Pages,       \* open pages; a page waits for one run at a time
  Profiles,    \* profile -> the sequence of its algorithms
  Dirs         \* names of temporary directories

ASSUME DirsAssumption ==
  IsFiniteSet(Pages) /\ IsFiniteSet(Dirs) /\ Cardinality(Dirs) >= Cardinality(Pages)

VARIABLES
  net,      \* page -> "quiet", "request", "reply", "closed"
  sent,     \* page -> the last request
  reply,    \* page -> the last answer
  handler,  \* page -> what the thread of its request is doing
  dirs,     \* directories that exist
  files     \* directory -> its files

serverVars == <<net, sent, reply, handler, dirs, files>>

-----------------------------------------------------------------------------
\* Scripts.

ALGORITHMS == UNION {Range(Profiles[q]) : q \in DOMAIN Profiles}
Rewriting == {"cover", "qm", "rewrite"}

\* The other commands of a script.
Reading == <<"read_verilog", "hierarchy", "proc", "stat", "write_before">>
Writing == <<"stat", "write_after", "select", "show">>

ASSUME ProfilesAssumption ==
  /\ "full" \in DOMAIN Profiles
  /\ \A q \in DOMAIN Profiles : Profiles[q] \in Seq(STRING)
  /\ ALGORITHMS \cap (Range(Reading) \cup Range(Writing)) = {}

\* The elements of a sequence that are in a set, in their order.
only(s, I) ==
  LET f[i \in 0 .. Len(s)] == IF i = 0 THEN <<>>
                             ELSE IF s[i] \in I THEN Append(f[i - 1], s[i]) ELSE f[i - 1]
  IN  f[Len(s)]

normalize_algorithm_ids(profile, requested) ==
  only(Profiles[profile], requested)

\* The rewriting algorithms leave dead cells: what cleans up runs once more.
algorithm_commands(profile, requested) ==
  LET ids == normalize_algorithm_ids(profile, requested)
  IN  ids \o IF Range(ids) \cap Rewriting = {} THEN <<>>
             ELSE only(<<"dce", "cleanup">>, Range(ids))

build_yosys_script(profile, requested) ==
  Reading \o algorithm_commands(profile, requested) \o Writing

-----------------------------------------------------------------------------
\* What the programs write.  A netlist is the source it is of and the passes
\* that were run on it.

Netlist(source, passes) == [source |-> source, passes |-> passes]
none == Netlist("none", <<>>)
no_files == [input |-> "none", compiled |-> none, yosys_input |-> "none", script |-> <<>>, after |-> none, dot |-> FALSE]

\* Yosys ends behind the first k lines of its script.
passes_of(lines) == only(lines, ALGORITHMS)
ran_to(f, k) ==
  LET lines == SubSeq(f.script, 1, k)
  IN  [f EXCEPT !.after = IF "write_after" \in Range(lines) THEN Netlist(f.yosys_input, passes_of(lines)) ELSE @,
                !.dot = "show" \in Range(lines)]

\* The passes behind which stat counted the cells first and last.
no_stats == <<>>
summarize_stats(lines) ==
  LET at == {i \in DOMAIN lines : lines[i] = "stat"}
      count(i) == Len(passes_of(SubSeq(lines, 1, i)))
  IN  IF at = {} THEN no_stats ELSE <<count(Min(at)), count(Max(at))>>

\* The two halves of an answer.
Compiled(available, ok, rtlil) == [available |-> available, ok |-> ok, rtlil |-> rtlil]
Ran(available, ok, after, dot, image, stats) ==
  [available |-> available, ok |-> ok, after |-> after, dot |-> dot, png |-> dot /\ image, stats |-> stats]
failed_yosys_payload(available) == Ran(available, FALSE, none, FALSE, FALSE, no_stats)

\* Before a half is known, and in the answer to a request that is refused.
no_compiler == Compiled(FALSE, FALSE, none)
no_yosys == failed_yosys_payload(FALSE)
refusal == [status |-> 400, refused |-> TRUE, profile |-> "none", compiler |-> no_compiler, yosys |-> no_yosys]
idle == [step |-> "idle", dir |-> 0, compiler |-> no_compiler, yosys |-> no_yosys]

ServerInit ==
  /\ net = [p \in Pages |-> "quiet"]
  /\ sent = [p \in Pages |-> [source |-> "", profile |-> "full", algorithms |-> {}]]
  /\ reply = [p \in Pages |-> refusal]
  /\ handler = [p \in Pages |-> idle]
  /\ dirs = {}
  /\ files = [d \in Dirs |-> no_files]

-----------------------------------------------------------------------------

at(p, step) == handler[p].step = step
go(p, step, compiler, yosys) ==
  handler' = [handler EXCEPT ![p] = [step |-> step, dir |-> handler[p].dir, compiler |-> compiler, yosys |-> yosys]]
write(p, f) == files' = [files EXCEPT ![handler[p].dir] = f]
mine(p) == files[handler[p].dir]

\* Faulty variant: one directory for all.
fresh_dir_shared == CHOOSE d \in Dirs : TRUE

\* mkdtemp gives a name that is not taken.
fresh_dir == CHOOSE d \in Dirs : d \notin dirs

\* A blank source is refused; otherwise the run gets its directory and input.
Refuse(p) ==
  /\ net[p] = "request" /\ at(p, "idle")
  /\ sent[p].source = ""
  /\ net' = [net EXCEPT ![p] = "reply"]
  /\ reply' = [reply EXCEPT ![p] = refusal]
  /\ UNCHANGED <<sent, handler, dirs, files>>

Receive(p) ==
  /\ net[p] = "request" /\ at(p, "idle")
  /\ sent[p].source # ""
  /\ handler' = [handler EXCEPT ![p] = [idle EXCEPT !.step = "compile", !.dir = fresh_dir]]
  /\ dirs' = dirs \cup {fresh_dir}
  /\ files' = [files EXCEPT ![fresh_dir].input = sent[p].source]
  /\ UNCHANGED <<net, sent, reply>>

\* The compiler is missing, times out, fails or succeeds.  What it wrote until it
\* failed is part of the answer; what is left of one that was stopped, nobody reads.
Compile(p) ==
  /\ at(p, "compile")
  /\ LET next == IF sent[p].profile = "compiler" THEN "graph" ELSE "probe"
         rtlil == Netlist(mine(p).input, <<>>)
     IN  \/ \E available \in BOOLEAN :
              go(p, next, Compiled(available, FALSE, none), no_yosys) /\ UNCHANGED files
         \/ \E ok \in BOOLEAN :
              /\ go(p, next, Compiled(TRUE, ok, rtlil), no_yosys)
              /\ write(p, [mine(p) EXCEPT !.compiled = rtlil])
  /\ UNCHANGED <<net, sent, reply, dirs>>

\* Without Yosys or the output of the compiler there is no graph; otherwise
\* Yosys draws it, or not, and Graphviz makes an image of it, or not.  A graph
\* that is missing or empty is a failure, whatever Yosys returned; a graph of a
\* Yosys that failed is part of the answer.
Graph(p) ==
  /\ at(p, "graph")
  /\ LET compiler == handler[p].compiler
     IN  \/ \E available \in BOOLEAN :
              go(p, "respond", compiler, failed_yosys_payload(available)) /\ UNCHANGED files
         \/ /\ compiler.ok /\ mine(p).compiled # none
            /\ \E succeeded, dot, image \in BOOLEAN, stats \in {no_stats, <<0, 0>>} :
                 /\ dot => stats # no_stats
                 /\ write(p, [mine(p) EXCEPT !.dot = dot])
                 /\ go(p, "respond", compiler, Ran(TRUE, succeeded /\ dot, compiler.rtlil, dot, image, stats))
  /\ UNCHANGED <<net, sent, reply, dirs>>

\* Is there a Yosys, and has it the passes?
Probe(p) ==
  /\ at(p, "probe")
  /\ \/ /\ \E available \in BOOLEAN : go(p, "respond", handler[p].compiler, failed_yosys_payload(available))
        /\ UNCHANGED files
     \/ /\ go(p, "optimize", handler[p].compiler, no_yosys)
        /\ write(p, [mine(p) EXCEPT !.yosys_input = sent[p].source,
                       !.script = build_yosys_script(sent[p].profile, sent[p].algorithms)])
  /\ UNCHANGED <<net, sent, reply, dirs>>

\* Faulty variant: that Yosys failed is not looked at.
Optimize_unchecked(p) ==
  /\ at(p, "optimize")
  /\ LET script == mine(p).script
     IN  \/ go(p, "respond", handler[p].compiler, failed_yosys_payload(TRUE)) /\ UNCHANGED files
         \/ \E k \in 0 .. Len(script), image \in BOOLEAN :
              LET f == ran_to(mine(p), k)
              IN  /\ write(p, f)
                  /\ go(p, "respond", handler[p].compiler,
                        Ran(TRUE, f.after # none, f.after, f.dot, image, summarize_stats(SubSeq(script, 1, k))))
  /\ UNCHANGED <<net, sent, reply, dirs>>

\* The script times out, fails behind one of its lines, or runs to its end;
\* what it wrote until it failed is part of the answer.
Optimize(p) ==
  /\ at(p, "optimize")
  /\ LET script == mine(p).script
     IN  \/ go(p, "respond", handler[p].compiler, failed_yosys_payload(TRUE)) /\ UNCHANGED files
         \/ \E k \in 0 .. Len(script), image \in BOOLEAN :
              LET f == ran_to(mine(p), k)
              IN  /\ write(p, f)
                  /\ go(p, "respond", handler[p].compiler,
                        Ran(TRUE, k = Len(script), f.after, f.dot, image, summarize_stats(SubSeq(script, 1, k))))
  /\ UNCHANGED <<net, sent, reply, dirs>>

\* Faulty variant: the next run in a directory finds the files of the last.
close_kept(p) ==
  /\ handler' = [handler EXCEPT ![p] = idle]
  /\ dirs' = dirs \ {handler[p].dir}
  /\ UNCHANGED files

close(p) ==
  /\ handler' = [handler EXCEPT ![p] = idle]
  /\ dirs' = dirs \ {handler[p].dir}
  /\ files' = [files EXCEPT ![handler[p].dir] = no_files]

run_flow_ok(p) ==
  handler[p].yosys.ok /\ (sent[p].profile = "compiler" => handler[p].compiler.ok)

Respond(p) ==
  /\ at(p, "respond")
  /\ close(p)
  /\ net' = [net EXCEPT ![p] = "reply"]
  /\ reply' = [reply EXCEPT ![p] = [status |-> IF run_flow_ok(p) THEN 200 ELSE 400, refused |-> FALSE,
                                    profile |-> sent[p].profile,
                                    compiler |-> handler[p].compiler, yosys |-> handler[p].yosys]]
  /\ UNCHANGED sent

\* A program cannot be started: only its timeout is caught, but the directory
\* is removed and the connection closed.  The probe catches both.
Crash(p) ==
  /\ handler[p].step \in {"compile", "graph", "optimize"}
  /\ close(p)
  /\ net' = [net EXCEPT ![p] = "closed"]
  /\ UNCHANGED <<sent, reply>>

Handle(p) ==
  Refuse(p) \/ Receive(p) \/ Compile(p) \/ Graph(p) \/ Probe(p) \/ Optimize(p) \/ Respond(p) \/ Crash(p)

=============================================================================
