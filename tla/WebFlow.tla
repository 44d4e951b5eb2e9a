------------------------------ MODULE WebFlow -------------------------------
(***************************************************************************)
(* The page of the workbench (app.js) and the server behind it.  The page   *)
(* asks once what is available; a click sends the source, the profile and   *)
(* the checked algorithms and disables the button until the answer is       *)
(* there; meanwhile the tabs can be used.  What the user wants to run, one  *)
(* request after the other, is chosen at the beginning.                     *)
(***************************************************************************)
EXTENDS WebServer

CONSTANTS
  Users,    \* page -> sequence of [source, profile, algorithms] to run
  Readers,  \* pages that are used before they are loaded, and whose tabs are used
  Views     \* the tabs

Request == [source : STRING \ {none.source}, profile : DOMAIN Profiles, algorithms : SUBSET STRING]

ASSUME UsersAssumption == Users \subseteq [Pages -> Seq(Request)]
ASSUME ViewsAssumption ==
  "summary" \in Views /\ Views \cap {"nothing", "empty", "hint", "running", "error"} = {}

VARIABLES
  wanted,   \* page -> the runs still to be started
  health,   \* page -> "asked", "loaded", "unknown"
  busy,     \* page -> the button is disabled
  screen    \* page -> what the page keeps and shows

pageVars == <<wanted, health, busy, screen>>
vars == <<serverVars, pageVars>>

\* What a text or an image was made from.
Shown(kind, result) == [kind |-> kind, result |-> result]

PageInit ==
  /\ wanted \in Users
  /\ health = [p \in Pages |-> IF p \in Readers THEN "asked" ELSE "loaded"]
  /\ busy = [p \in Pages |-> FALSE]
  /\ screen = [p \in Pages |-> [message |-> "checking", metric |-> "-", stats |-> no_stats, lastResult |-> <<>>,
                                view |-> "summary", text |-> Shown("nothing", <<>>), graph |-> Shown("nothing", <<>>)]]

Init == ServerInit /\ PageInit

-----------------------------------------------------------------------------
\* Rendering.  The answer to a request that is refused has no halves: whatever
\* is rendered of it is an error, that leaves text and image as they were.

renders(s) == s.lastResult = <<>> \/ ~s.lastResult[1].refused

renderView(s) ==
  CASE s.lastResult = <<>> -> [s EXCEPT !.text = Shown("empty", <<>>)]
    [] s.lastResult # <<>> /\ s.lastResult[1].refused -> s
    [] s.lastResult # <<>> /\ ~s.lastResult[1].refused /\ s.view = "graph" ->
         [s EXCEPT !.graph = Shown(s.view, s.lastResult)]
    [] OTHER -> [s EXCEPT !.text = Shown(s.view, s.lastResult)]

\* Is the image on the screen, in place of the text?
graph_visible(s) == s.view = "graph" /\ s.lastResult # <<>>

status(compiler_profile, compilerOk, yosysOk) ==
  IF compiler_profile
  THEN IF compilerOk /\ yosysOk THEN "done" ELSE IF compilerOk \/ yosysOk THEN "partial" ELSE "failed"
  ELSE IF yosysOk THEN "done" ELSE "failed"

renderMetrics(s, payload) ==
  [s EXCEPT !.stats = payload.yosys.stats,
            !.metric = status(payload.profile = "compiler", payload.compiler.ok, payload.yosys.ok)]

\* The message is made from the answer once more.
result_message(payload) ==
  status(payload.profile = "compiler", payload.compiler.ok, payload.yosys.ok)

failed_request(s) == [s EXCEPT !.message = "request failed", !.text = Shown("error", <<>>)]

set_screen(p, s) == screen' = [screen EXCEPT ![p] = s]

-----------------------------------------------------------------------------

\* The answer of the server comes at any time, or not at all; it fills the text
\* and the message, also those of a run that was started before.
LoadHealth(p) ==
  /\ health[p] = "asked"
  /\ \/ /\ health' = [health EXCEPT ![p] = "loaded"]
        /\ set_screen(p, [screen[p] EXCEPT !.message = "ready", !.text = Shown("hint", <<>>)])
     \/ /\ health' = [health EXCEPT ![p] = "unknown"]
        /\ set_screen(p, [screen[p] EXCEPT !.message = "not connected", !.text = Shown("error", <<>>)])
  /\ UNCHANGED <<serverVars, wanted, busy>>

\* Without the profiles there is nothing to select: the request asks for the
\* full profile with no algorithm checked.
Click(p) ==
  /\ ~busy[p]
  /\ wanted[p] # <<>>
  /\ LET want == Head(wanted[p])
     IN  sent' = [sent EXCEPT ![p] = IF health[p] = "loaded" THEN want
                                     ELSE [want EXCEPT !.profile = "full", !.algorithms = {}]]
  /\ wanted' = [wanted EXCEPT ![p] = Tail(@)]
  /\ busy' = [busy EXCEPT ![p] = TRUE]
  /\ set_screen(p, [screen[p] EXCEPT !.message = "running", !.text = Shown("running", <<>>)])
  /\ net' = [net EXCEPT ![p] = "request"]
  /\ UNCHANGED <<reply, handler, dirs, files, health>>

\* Faulty variant: the page stays at the tab it is at.
Answer_in_place(p) ==
  /\ net[p] = "reply"
  /\ LET payload == reply[p]
         s == [renderMetrics(screen[p], payload) EXCEPT !.lastResult = <<payload>>, !.message = result_message(payload)]
     IN  set_screen(p, IF graph_visible(s) THEN s ELSE IF renders(s) THEN renderView(s) ELSE failed_request(s))
  /\ busy' = [busy EXCEPT ![p] = FALSE]
  /\ net' = [net EXCEPT ![p] = "quiet"]
  /\ UNCHANGED <<sent, reply, handler, dirs, files, wanted, health>>

\* The answer is kept and shown as a summary; an error while it is rendered is
\* caught like a request that failed.
Answer(p) ==
  /\ net[p] = "reply"
  /\ LET payload == reply[p]
         s == [renderMetrics(screen[p], payload) EXCEPT !.lastResult = <<payload>>,
                 !.message = result_message(payload), !.view = "summary"]
     IN  set_screen(p, IF renders(s) THEN renderView(s) ELSE failed_request(s))
  /\ busy' = [busy EXCEPT ![p] = FALSE]
  /\ net' = [net EXCEPT ![p] = "quiet"]
  /\ UNCHANGED <<sent, reply, handler, dirs, files, wanted, health>>

\* Faulty variant: the button is enabled behind the try, not in a finally.
Fail_disabled(p) ==
  /\ net[p] = "closed"
  /\ set_screen(p, failed_request(screen[p]))
  /\ net' = [net EXCEPT ![p] = "quiet"]
  /\ UNCHANGED <<sent, reply, handler, dirs, files, wanted, health, busy>>

\* The connection was closed without an answer.
Fail(p) ==
  /\ net[p] = "closed"
  /\ set_screen(p, failed_request(screen[p]))
  /\ busy' = [busy EXCEPT ![p] = FALSE]
  /\ net' = [net EXCEPT ![p] = "quiet"]
  /\ UNCHANGED <<sent, reply, handler, dirs, files, wanted, health>>

Tab(p, view) ==
  /\ p \in Readers
  /\ set_screen(p, renderView([screen[p] EXCEPT !.view = view]))
  /\ UNCHANGED <<serverVars, wanted, health, busy>>

Page(p) == LoadHealth(p) \/ Click(p) \/ Answer(p) \/ Fail(p) \/ (\E view \in Views : Tab(p, view))

Next == \E p \in Pages : (Handle(p) /\ UNCHANGED pageVars) \/ Page(p)

\* Threads run, and every program they start ends or is stopped; answers arrive.
Fairness ==
  \A p \in Pages :
    /\ WF_vars(Handle(p) /\ UNCHANGED pageVars)
    /\ WF_vars(Answer(p) \/ Fail(p))

Spec == Init /\ [][Next]_vars /\ Fairness

-----------------------------------------------------------------------------

\* A thread works for a request that waits, on a button that is disabled.
TypeOK ==
  \A p \in Pages :
    /\ net[p] \in {"quiet", "request", "reply", "closed"}
    /\ net[p] # "quiet" => busy[p]
    /\ ~at(p, "idle") => net[p] = "request"
    /\ screen[p].view \in Views

\* A directory belongs to one run and is gone when the run ends, however it
\* ends.
DirsOfRunsOnly ==
  LET active == {p \in Pages : ~at(p, "idle")}
  IN  /\ dirs = {handler[p].dir : p \in active}
      /\ \A p, q \in active : handler[p].dir = handler[q].dir => p = q

\* Runs are apart: one waits per page, and works in a directory of its own.
RunsAreApart == TypeOK /\ DirsOfRunsOnly

\* What a page gets was made from the source it sent, with the algorithms that
\* were checked, whatever other pages run at the same time.
AnswerIsOwn ==
  \A p \in Pages :
    net[p] = "reply" /\ ~reply[p].refused =>
      LET passes == algorithm_commands(sent[p].profile, sent[p].algorithms)
      IN  /\ reply[p].compiler.rtlil \in {none, Netlist(sent[p].source, <<>>)}
          /\ reply[p].yosys.after \in
               {none, Netlist(sent[p].source, IF sent[p].profile = "compiler" THEN <<>> ELSE passes)}
          /\ reply[p].yosys.png => reply[p].yosys.after # none

\* A script has the checked algorithms of the profile and no other, in its
\* order, and behind the last rewriting what was checked of the clean-up.
ScriptIsAsAsked ==
  \A p \in Pages :
    at(p, "optimize") =>
      LET passes == passes_of(mine(p).script)
          places(id) == {i \in DOMAIN passes : passes[i] = id}
          chosen == sent[p].algorithms \cap Range(Profiles[sent[p].profile])
      IN  /\ Range(passes) = chosen
          /\ \A id \in chosen \cap {"dce", "cleanup"}, i \in DOMAIN passes :
               passes[i] \in Rewriting => Max(places(id)) > i

\* What is run, and what comes back, is what the page asked for.
AnswerIsAsAsked == AnswerIsOwn /\ ScriptIsAsAsked

\* "Done" is said of exactly the runs the server accepted, in the message and
\* in the metric: Yosys ran its whole script, and the gain is that of all the
\* passes; under the profile of the compiler, the compiler succeeded and the
\* graph is that of its netlist.  Under the other profiles the compiler is not
\* asked: "done" is said although it failed.
DoneIsWhole ==
  \A p \in Pages :
    LET s == screen[p]
        result == s.lastResult[1]
    IN  s.message \in {"done", "partial", "failed"} =>
          /\ s.metric = s.message
          /\ s.message = "done" <=> result.status = 200
          /\ s.message = "done" =>
               /\ result.yosys.ok /\ result.yosys.after # none /\ result.yosys.dot
               /\ IF result.profile = "compiler"
                  THEN result.compiler.ok /\ result.yosys.after = result.compiler.rtlil
                  ELSE s.stats = <<0, Len(result.yosys.after.passes)>>

\* The page never shows one run under the tab of another: a text or image that
\* is visible is that of the last answer, in the view of the open tab.  After a
\* refused request the image of an earlier run can be visible.
ShownIsLastResult ==
  \A p \in Pages :
    LET s == screen[p]
    IN  /\ graph_visible(s) /\ ~s.lastResult[1].refused => s.graph = Shown("graph", s.lastResult)
        /\ ~graph_visible(s) /\ s.text.kind \in Views => s.text = Shown(s.view, s.lastResult)

\* The button is enabled again, whatever the programs do.
ButtonComesBack == \A p \in Pages : busy[p] ~> ~busy[p]

=============================================================================
