---------------------------- MODULE StubHarness ----------------------------
(***************************************************************************)
(* The repository's verification scripts, run against the model.  Each     *)
(* scenario seeds a workspace, drives the real nodes with a scripted model *)
(* (or, for some, without a model) and asserts what they did.  Here the    *)
(* nodes are those of ExecutorLoop, the brain is StubLlm, and the world    *)
(* that ExecutorLoop leaves open is closed: the workspace has contents,    *)
(* and tools, checks, validation and commits follow from them.             *)
(*                                                                         *)
(* The scripts are meant to be run again and again in the same container.  *)
(* So a scenario starts in any workspace that an earlier run of it can     *)
(* have left, one that came to its end or was stopped between two of its   *)
(* steps, inside a parent directory that may or may not be a git           *)
(* repository; and ui_strikes starts on an empty checkpoint database or on *)
(* the one a complete earlier run has left.  (A run killed in the middle   *)
(* of a node's git commands, or of the server's run, is left out.)  The    *)
(* container answers every request.                                        *)
(***************************************************************************)
EXTENDS ExecutorLoop, StubLlm

VARIABLES
  scenario,   \* the script, and the function in it
  step,       \* "seed", "run", "done", or "aborted" by a failed assertion
  fs,         \* the workspace: calc.py, HEAD's calc.py, attempt_note.txt
  parent,     \* some parent directory of the workspace is a repository
  db          \* ui_strikes: the database holds the run of an earlier process

world == <<fs, parent, db>>
harnessVars == <<loopVars, clients, scenario, step, world>>

Calc == {"none", "buggy", "fixed"}
HeadCalc == Calc \cup {"unborn"}   \* "none": there is a commit, without calc.py
Workspace == [repo : BOOLEAN, head : HeadCalc, calc : Calc, note : BOOLEAN]
Empty == [repo |-> FALSE, head |-> "unborn", calc |-> "none", note |-> FALSE]

\* Scripted tools: view calc.py, correct it with str_replace, create the note,
\* run the tests, run a command that does nothing.
HappyScript == <<tool_turn(<<"view">>), tool_turn(<<"fix">>), tool_turn(<<"pytest">>),
                 complete_turn>>
CapScript == <<tool_turn(<<"noop">>)>>
StrikesScript == <<tool_turn(<<"note">>), complete_turn>>
ContextScript == <<tool_turn(<<"view">>), tool_turn(<<"fix">>), tool_turn(<<"noop">>),
                   tool_turn(<<"pytest">>), complete_turn>>
UiStrikesScript == <<tool_turn(<<"note">>), complete_turn>>

Script == CASE scenario = "happy" -> HappyScript
            [] scenario = "cap" -> CapScript
            [] scenario = "strikes" -> StrikesScript
            [] scenario = "context" -> ContextScript
            [] OTHER -> UiStrikesScript

\* The turn that the current request is given, and the one being carried out.
NextTurn == next_turn(Script, CallIndex)
Turn == next_turn(Script, CallIndex - 1)

\* The scenarios that seed_calc_project prepares, and ui_strikes, which has a
\* copy of it.
Seeded == {"happy", "strikes", "context", "ui_strikes"}

\* What an earlier run can have left behind.  The seed of step 6 commits the
\* tests without calc.py, the others commit both.
Leftovers ==
  {w \in Workspace :
     /\ w.head # "unborn" => w.repo
     /\ scenario \in Seeded => w.head # "none"
     /\ scenario = "step6" => /\ w.head # "buggy" /\ ~w.note
                              /\ w.head = "unborn" => w.calc = "none"
     /\ scenario \notin Seeded \cup {"step6"} => w = Empty}

\* The run id of ui_strikes is fixed, so its second run goes on from the state
\* in which the first has ended: escalated, after three strikes and a failed
\* validation.
EndedEarlier ==
  /\ active_ticket = ServerTicket
  /\ node = "analyzer"
  /\ supersteps = 0
  /\ issue_analysis = FALSE
  /\ attempt_log = 0
  /\ decision_ledger = <<[summary |-> 6, attempt_count |-> 6]>>
  /\ ticket_status = "escalated"
  /\ last_validation_passed = FALSE
  /\ strike_count = MaxStrikes + 1
  /\ validation_diagnosis = 1
  /\ escalation_count = 1
  /\ run_status = "none"
  /\ tree = 1 /\ checked = NoVersion /\ landed = NoVersion
  /\ attempts = 0

\* The state each script hands to the first node it calls.
StartsAt ==
  CASE scenario \in {"happy", "cap", "strikes", "context"} -> Fresh("executor", SmokeTicket, 0, 0)
    [] scenario = "step6" -> Fresh("validator", SmokeTicket, 1, 0)
    [] scenario = "ui_strikes" -> IF db THEN EndedEarlier ELSE Fresh("analyzer", ServerTicket, 0, 0)
    [] scenario = "smoke_mock" -> Fresh("analyzer", NoTicket, 0, 0)
    [] scenario = "escalation" -> Fresh("escalate", StubTicket, 3, MaxStrikes)
    [] scenario = "budget" -> Fresh("escalate", StubTicket, 0, 0)

Scenarios == {"happy", "cap", "strikes", "context", "step6", "ui_strikes",
              "smoke_mock", "escalation", "budget"}

HarnessInit ==
  /\ scenario \in Scenarios
  /\ step = "seed"
  /\ fs \in Leftovers
  /\ parent \in BOOLEAN
  /\ db \in (IF scenario = "ui_strikes" THEN BOOLEAN ELSE {FALSE})
  /\ mock = (scenario = "smoke_mock")
  /\ issue = FALSE
  /\ StartsAt
  /\ LocalsInit
  /\ set_stub_script

-----------------------------------------------------------------------------
(* Seeding. *)

\* git commit of calc.py as it is: HEAD, or nothing to commit.
Committed(w) == [w EXCEPT !.head = w.calc]

seed_calc_project_Bug ==  \* without `|| true`
  /\ scenario \in Seeded
  /\ LET w == [fs EXCEPT !.repo = TRUE, !.calc = "buggy"]
     IN  w.head # w.calc /\ fs' = Committed(w)

\* Writes calc.py, runs git init (harmless on a repository), git add and a
\* commit that may find nothing to commit.
seed_calc_project ==
  /\ scenario \in Seeded
  /\ LET w == [fs EXCEPT !.repo = TRUE, !.calc = "buggy"]
     IN  fs' = IF w.head # w.calc THEN Committed(w) ELSE w

\* verify_step6 commits the tests, and writes a correct calc.py afterwards.  The
\* commit must succeed: where the tests are committed already there is nothing
\* to commit, and the assertion on its exit code ends the script.
seed_workspace ==
  /\ scenario = "step6"
  /\ IF fs.head = "unborn"
     THEN /\ fs' = [fs EXCEPT !.repo = TRUE, !.head = "none", !.calc = "fixed"]
          /\ step' = "run"
     ELSE UNCHANGED fs /\ step' = "aborted"

Seed ==
  /\ step = "seed"
  /\ \/ seed_calc_project /\ step' = "run"
     \/ seed_workspace
     \/ /\ scenario \in {"cap", "smoke_mock", "escalation", "budget"}
        /\ UNCHANGED fs
        /\ step' = "run"
  /\ UNCHANGED <<loopVars, clients, scenario, parent, db>>

-----------------------------------------------------------------------------
(* The world's answers. *)

TestsPass == fs.calc = "fixed"
GitStatusWorks == fs.repo \/ parent

\* Whether a scripted tool fails, and the workspace it leaves.
ToolFails(tool) == \/ tool = "view" /\ fs.calc = "none"
                   \/ tool = "fix" /\ fs.calc # "buggy"
                   \/ tool = "pytest" /\ ~TestsPass
After(tool) == CASE tool = "fix" /\ fs.calc = "buggy" -> [fs EXCEPT !.calc = "fixed"]
                 [] tool = "note" -> [fs EXCEPT !.note = TRUE]
                 [] OTHER -> fs

\* The executor's steps, with the script for a model.
ScriptedLoop ==
  /\ \/ EnterExecutor /\ UNCHANGED <<clients, fs>>
     \/ /\ BeginStrike
        /\ get_stub_client(feedback # NoVersion)
        /\ UNCHANGED fs
     \/ /\ LlmAnswers
        /\ messages'[Len(messages')].blocks = Len(NextTurn.tool_calls)
        /\ create(Len(messages))
        /\ UNCHANGED fs
     \/ CapReached /\ UNCHANGED <<clients, fs>>
     \/ /\ RunTool
        /\ LET tool == Turn.tool_calls[Len(Turn.tool_calls) - todo + 1]
           IN  /\ ToolResult(ToolFails(tool))
               /\ fs' = After(tool)
               /\ IF fs' = fs THEN NoEdit ELSE Edit
     \/ FastCheckPasses /\ GitStatusWorks /\ UNCHANGED <<clients, fs>>
     \/ StrikePasses /\ TestsPass /\ UNCHANGED <<clients, fs>>
     \/ /\ StrikeFails
        /\ IF check = 1 THEN ~GitStatusWorks ELSE ~TestsPass
        /\ UNCHANGED <<clients, fs>>
     \/ GiveUp /\ UNCHANGED <<clients, fs>>
  /\ UNCHANGED <<parent, db>>

\* Any other node.  A commit lands if there is something to commit.
DrivenNode ==
  /\ OtherNode
  /\ node' # "raised"
  /\ node = "validator" /\ ~mock => (last_validation_passed' <=> TestsPass)
  /\ node = "oversight_git" /\ ~mock =>
       (ticket_status' = "done" <=> active_ticket.files /\ fs.calc # fs.head)
  /\ fs' = IF node = "oversight_git" /\ ticket_status' = "done" THEN Committed(fs) ELSE fs
  /\ UNCHANGED <<clients, parent, db>>

\* Scenario B of verify_step6: calc.py is broken again with edit_file, and a
\* fresh state is handed to validator_node.
FailPath ==
  /\ scenario = "step6" /\ node = "advance"
  /\ fs.calc = "fixed" /\ fs' = [fs EXCEPT !.calc = "buggy"]
  /\ tree' = tree + 1
  /\ node' = "validator"
  /\ attempt_log' = 0
  /\ ticket_status' = "none"
  /\ last_validation_passed' = FALSE
  /\ validation_diagnosis' = NoVersion
  /\ strike_count' = 0
  /\ UNCHANGED <<config, supersteps, issue_analysis, active_ticket, decision_ledger,
                 escalation_count, run_status, checked, landed, attempts, locals, clients,
                 parent, db>>

\* verify_step7_escalation_budget hands a second ticket to the same run.
SecondTicket ==
  /\ scenario = "budget" /\ node = "advance" /\ escalation_count = 1
  /\ node' = "escalate"
  /\ ticket_status' = "pending"
  /\ UNCHANGED <<config, supersteps, issue_analysis, active_ticket, history,
                 last_validation_passed, validation_diagnosis, budget, sandbox,
                 locals, clients, world>>

\* Where a script stops calling nodes.
Finished ==
  \/ node = "end"
  \/ scenario = "context" /\ node = "validator"
  \/ scenario = "step6" /\ node = "executor"
  \/ scenario = "budget" /\ node = "advance" /\ escalation_count = 2

Drive ==
  /\ step = "run" /\ ~Finished
  /\ \/ ScriptedLoop
     \/ DrivenNode /\ ~(scenario \in {"budget", "step6"} /\ node = "advance")
     \/ SecondTicket
     \/ FailPath
  /\ UNCHANGED <<scenario, step>>

\* The script's last statement; scenario B of step 6 repairs calc.py.
Finish ==
  /\ step = "run" /\ Finished
  /\ step' = "done"
  /\ fs' = IF scenario = "step6" THEN [fs EXCEPT !.calc = "fixed"] ELSE fs
  /\ UNCHANGED <<loopVars, clients, scenario, parent, db>>

HarnessNext == Seed \/ Drive \/ Finish

\* The container and the scripted model always answer.
HarnessSpec == HarnessInit /\ [][HarnessNext]_harnessVars /\ WF_harnessVars(HarnessNext)

-----------------------------------------------------------------------------
(* What the scripts assert, at the point in the drive where they do: the   *)
(* number of nodes called so far says how far a script has come.           *)

AllClients(P(_)) == \A i \in DOMAIN clients : P(clients[i])

HappyAsserts ==
  /\ supersteps = 1 =>
       /\ ticket_status = "local_pass"
       /\ Len(clients) = 1
       /\ Len(clients[1].calls_seen) = 4 /\ clients[1].errors = 0
       /\ fs.calc = "fixed"
  /\ supersteps = 2 => last_validation_passed /\ node = "oversight_git"
  /\ supersteps = 3 => ticket_status = "done"
  /\ supersteps = 4 => Len(decision_ledger) = 1 /\ attempt_log = 0
  /\ step = "done" => node = "end"

CapAsserts ==
  /\ supersteps = 1 =>
       /\ ticket_status = "escalated"
       /\ strike_count = MaxStrikes
       /\ Len(clients) = MaxStrikes
       /\ LET Capped(c) == Len(c.calls_seen) = MaxToolCalls
          IN  AllClients(Capped)
       /\ Turns = MaxToolCalls
  /\ supersteps = 2 => node = "escalate"
  /\ step = "done" => node = "end"

StrikesAsserts ==
  /\ supersteps = 1 =>
       /\ ticket_status = "escalated"
       /\ strike_count = MaxStrikes
       /\ Len(clients) = MaxStrikes
       /\ \A i \in DOMAIN clients : clients[i].informed <=> i > 1
  /\ supersteps = 2 => node = "escalate"
  /\ supersteps = 3 => ticket_status = "escalated" /\ decision_ledger = <<>>
  /\ supersteps = 4 =>
       /\ Len(decision_ledger) = 1
       /\ decision_ledger[1].attempt_count = log
       /\ attempt_log = 0
  /\ step = "done" => node = "end"

ContextAsserts ==
  supersteps = 1 =>
    /\ ticket_status = "local_pass"
    /\ Len(clients) = 1
    /\ clients[1].calls_seen = <<1, 3, 5, 7, 9>>
    /\ \A i \in 2 .. Len(messages) : messages[i].role = "user" => messages[i].blocks = 1

\* Scenario A: the commit is in the log and the work tree is clean; scenario B:
\* no commit has been added.
Step6Asserts ==
  /\ supersteps = 1 => last_validation_passed /\ node = "oversight_git"
  /\ supersteps = 2 /\ node # "validator" =>
       fs.head \notin {"unborn", "none"} /\ fs.head = fs.calc /\ ~fs.note
  /\ supersteps = 3 =>
       /\ ~last_validation_passed
       /\ validation_diagnosis # NoVersion
       /\ node = "executor"
       /\ fs.head = "fixed"

\* Through the server: three strikes with an attempt event each, then an
\* escalated run.
UiStrikesAsserts ==
  step = "done" =>
    /\ Len(clients) = 3 /\ decision_ledger[1].attempt_count = 2 * 3
    /\ escalation_count = 1 /\ ticket_status = "escalated"

\* Against the database of an earlier run it has nothing to watch: the run ends
\* at once, still escalated, and the script's count of attempts fails.
UiRerun == clients = <<>> /\ node # "executor" /\ ticket_status = "escalated"

EscalationAsserts ==
  /\ supersteps = 1 => ticket_status = "escalated" /\ decision_ledger = <<>>
  /\ supersteps = 2 =>
       /\ Len(decision_ledger) = 1
       /\ decision_ledger[1].attempt_count = 3
       /\ attempt_log = 0
       /\ dispatch_router = "end"

BudgetAsserts ==
  node = "advance" =>
    /\ escalation_count = 1 => run_status = "none"
    /\ escalation_count = 2 => run_status = "halted_escalation_budget"
    /\ dispatch_router = "end"

ExpectedTransitions == <<"analyzer", "architect", "dispatch", "executor", "validator",
                         "oversight_git", "advance", "dispatch", "end">>

SmokeMockAsserts ==
  /\ supersteps < Len(ExpectedTransitions) /\ node = ExpectedTransitions[supersteps + 1]
  /\ step = "done" => attempt_log = 0

\* What the scripts assert of routes, statuses, counters, conversations and the
\* repository holds wherever the workspace lies and, but for the two scripts
\* that cannot be run twice (verify_step6 stops at its seed, ui_strikes meets
\* the run of its first time), whatever an earlier run has left: a scenario
\* that fails has found a change of the code, not a dirty container.
ScenariosPass ==
  /\ scenario = "happy" => HappyAsserts
  /\ scenario = "cap" => CapAsserts
  /\ scenario = "strikes" => StrikesAsserts
  /\ scenario = "context" => ContextAsserts
  /\ scenario = "step6" => Step6Asserts
  /\ scenario = "ui_strikes" => IF db THEN UiRerun ELSE UiStrikesAsserts
  /\ scenario = "escalation" => EscalationAsserts
  /\ scenario = "budget" => BudgetAsserts
  /\ scenario = "smoke_mock" => SmokeMockAsserts

\* Every script comes to its end, the endless one of scenario cap included: the
\* caps of the loop stop a model that never stops by itself.  Only verify_step6
\* may be stopped by its own seed, in a workspace that it has seeded before.
ScenarioEnds == <>(step = "done" \/ (scenario = "step6" /\ step = "aborted"))
=============================================================================
