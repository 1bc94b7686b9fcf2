--------------------------- MODULE SyndicateGraph ---------------------------
(***************************************************************************)
(* The LangGraph state machine of syndicate/nodes.py: one ticket, from the *)
(* entry point of build_graph() to END.  One action per graph node; the    *)
(* routers choose the next node from the state the node has just updated,  *)
(* as LangGraph's conditional edges do.  executor_node and                 *)
(* oversight_git_node are single steps here, because LangGraph applies a   *)
(* node's update only when the node returns; ExecutorLoop and OversightGit *)
(* refine their insides.                                                   *)
(*                                                                         *)
(* Data is abstracted to what the routers and the properties tell apart.   *)
(* The contents of the sandbox workspace are a version number, the log is  *)
(* its number of lines, a ticket is whether it declares files and whether  *)
(* it carries a verification command.                                      *)
(*                                                                         *)
(* A definition whose name ends in _Bug is the definition that follows it  *)
(* with one plausible mistake; no specification uses it.                   *)
(***************************************************************************)
EXTENDS Integers, Sequences

CONSTANTS
  MaxStrikes,      \* _MAX_STRIKES, the retry budget of one ticket
  MaxEscalations   \* _MAX_ESCALATIONS, the run-wide escalation budget

ASSUME BudgetAssumption ==
  /\ MaxStrikes \in Nat \ {0}
  /\ MaxEscalations \in Nat

VARIABLES
  \* Chosen once per run.
  mock,                     \* get_runtime_client() is a MockRuntimeClient
  issue,                    \* state["issue"] is present
  \* LangGraph's own position.
  node,                     \* the node about to run, "end" or "raised"
  supersteps,               \* nodes run so far, what recursion_limit bounds
  \* AgentState.
  issue_analysis,           \* the analyzer has stored its analysis
  active_ticket,
  attempt_log,              \* number of lines
  decision_ledger,
  ticket_status,
  last_validation_passed,
  strike_count,
  validation_diagnosis,     \* NoVersion (None) or the version it is about
  escalation_count,
  run_status,
  \* The sandbox, and how often the agent was let loose in it.
  tree,                     \* version of the workspace contents
  checked,                  \* version the validator last passed
  landed,                   \* version the workspace had when the last commit landed
  attempts                  \* agentic loops started so far

config  == <<mock, issue>>
budget  == <<strike_count, escalation_count, run_status>>
sandbox == <<tree, checked, landed, attempts>>
history == <<attempt_log, decision_ledger>>
verdict == <<ticket_status, last_validation_passed, validation_diagnosis>>
vars == <<config, node, supersteps, issue_analysis, active_ticket, history,
          verdict, budget, sandbox>>

-----------------------------------------------------------------------------
Nodes == {"analyzer", "architect", "dispatch", "executor", "validator",
          "oversight_git", "escalate", "advance"}

\* TicketStatus, with "none" for a key that is absent from the state.  The
\* members PENDING and IN_PROGRESS are never assigned.
TicketStatus == {"none", "local_pass", "done", "escalated"}
RunStatus == {"none", "halted_escalation_budget"}

NoVersion == 0

\* active_ticket; a missing ticket reads as one that has no key.
Ticket == [present : BOOLEAN, files : BOOLEAN, command : BOOLEAN]
NoTicket     == [present |-> FALSE, files |-> FALSE, command |-> FALSE]
StubTicket   == [present |-> TRUE,  files |-> FALSE, command |-> FALSE]
ServerTicket == [present |-> TRUE,  files |-> FALSE, command |-> TRUE]
SmokeTicket  == [present |-> TRUE,  files |-> TRUE,  command |-> TRUE]

\* The callers of the graph: scripts/run_real_issue.py passes an issue and
\* scripts/smoke_e2e_mock.py passes {}; the server seeds a ticket that declares
\* no file, scripts/smoke_e2e_real.py one that does and one that does not.
EntryTickets(withIssue) ==
  IF withIssue THEN {NoTicket} ELSE {NoTicket, ServerTicket, SmokeTicket}

\* A state that holds the ticket t, a log of so many lines, a strike count and
\* no other key, about to run node n.
Fresh(n, t, lines, strikes) ==
  /\ active_ticket = t
  /\ node = n
  /\ supersteps = 0
  /\ issue_analysis = FALSE
  /\ attempt_log = lines
  /\ decision_ledger = <<>>
  /\ ticket_status = "none"
  /\ last_validation_passed = FALSE
  /\ strike_count = strikes
  /\ validation_diagnosis = NoVersion
  /\ escalation_count = 0
  /\ run_status = "none"
  /\ tree = 1
  /\ checked = NoVersion
  /\ landed = NoVersion
  /\ attempts = 0

Init ==
  /\ mock \in BOOLEAN
  /\ issue \in BOOLEAN
  /\ \E t \in EntryTickets(issue) : Fresh("analyzer", t, 0, 0)

\* LangGraph runs node n to its end, applies its update and goes on to `to`.
Superstep(n, to) ==
  /\ node = n
  /\ node' = to
  /\ supersteps' = supersteps + 1
  /\ UNCHANGED config

-----------------------------------------------------------------------------
\* _call_llm_json: the two nodes that ask the model for a JSON object, when
\* there is an issue to ask about.  Anything else it answers is an exception.
CallsLlm(n) == issue /\ n \in {"analyzer", "architect"}

(* analyzer_node: an analysis of the issue, or the stub-ticket fallback.   *)
AnalyzerNode ==
  /\ Superstep("analyzer", "architect")
  /\ \/ /\ issue
        /\ issue_analysis' = TRUE
        /\ UNCHANGED active_ticket
     \/ /\ ~issue
        /\ active_ticket' = IF active_ticket.present THEN active_ticket ELSE StubTicket
        /\ UNCHANGED issue_analysis
  /\ UNCHANGED <<history, verdict, budget, sandbox>>

ArchitectNode_Bug ==  \* no refusal: the command may be missing
  /\ Superstep("architect", "dispatch")
  /\ \/ /\ issue /\ issue_analysis
        /\ \E command, files \in BOOLEAN :
             active_ticket' = [present |-> TRUE, files |-> files, command |-> command]
     \/ ~(issue /\ issue_analysis) /\ UNCHANGED active_ticket
  /\ UNCHANGED <<issue_analysis, history, verdict, budget, sandbox>>

\* _detect_verification_command: whether the checkout has a manifest from the
\* table.  The mock client starts without any file.
DetectedCommands == IF mock THEN {FALSE} ELSE BOOLEAN

(* architect_node: a ticket planned by the model, whose verification       *)
(* command is the model's or the one a manifest in the checkout implies;   *)
(* with neither it raises (see NodeRaises).                                *)
ArchitectNode ==
  /\ Superstep("architect", "dispatch")
  /\ \/ /\ issue /\ issue_analysis
        /\ \E planned \in BOOLEAN, detected \in DetectedCommands, files \in BOOLEAN :
             /\ planned \/ detected
             /\ active_ticket' = [present |-> TRUE, files |-> files, command |-> TRUE]
     \/ /\ ~(issue /\ issue_analysis)
        /\ UNCHANGED active_ticket
  /\ UNCHANGED <<issue_analysis, history, verdict, budget, sandbox>>

dispatch_router_Bug ==  \* a validated ticket is not terminal
  IF run_status = "halted_escalation_budget" \/ ticket_status = "escalated"
  THEN "end" ELSE "executor"

dispatch_router ==
  IF \/ run_status = "halted_escalation_budget"
     \/ ticket_status = "escalated"
     \/ last_validation_passed
  THEN "end"
  ELSE "executor"

DispatchNode ==
  /\ Superstep("dispatch", dispatch_router)
  /\ UNCHANGED <<issue_analysis, active_ticket, history, verdict, budget, sandbox>>

-----------------------------------------------------------------------------
(* executor_node.                                                          *)

ExecutorMock_Bug ==  \* leaves the ticket in progress
  /\ mock
  /\ attempt_log' = attempt_log + 2
  /\ ticket_status' = "in_progress"
  /\ attempts' = attempts + 1
  /\ UNCHANGED <<validation_diagnosis, strike_count, tree>>

\* The mock client only logs the two dummy actions.
ExecutorMock ==
  /\ mock
  /\ attempt_log' = attempt_log + 2
  /\ ticket_status' = "local_pass"
  /\ attempts' = attempts + 1
  /\ UNCHANGED <<validation_diagnosis, strike_count, tree>>

\* n strikes of the while loop, each an agentic loop (which may change the
\* workspace) and its fast checks, two log lines per strike.
Strikes(n) ==
  /\ ~mock
  /\ strike_count' = strike_count + n
  /\ attempts' = attempts + n
  /\ attempt_log' = attempt_log + 2 * n
  /\ \E edits \in 0 .. n : tree' = tree + edits

ExecutorPasses_Bug ==  \* strike_count missing from the returned update
  \E n \in 1 .. (MaxStrikes - strike_count) :
    /\ ~mock
    /\ attempts' = attempts + n
    /\ attempt_log' = attempt_log + 2 * n
    /\ ticket_status' = "local_pass"
    /\ validation_diagnosis' = NoVersion
    /\ UNCHANGED <<strike_count, tree>>

\* The fast checks of strike n pass.
ExecutorPasses ==
  \E n \in 1 .. (MaxStrikes - strike_count) :
    /\ Strikes(n)
    /\ ticket_status' = "local_pass"
    /\ validation_diagnosis' = NoVersion

\* Every strike that is left fails its fast checks.
ExecutorGivesUp ==
  /\ Strikes(IF strike_count < MaxStrikes THEN MaxStrikes - strike_count ELSE 0)
  /\ ticket_status' = "escalated"
  /\ UNCHANGED validation_diagnosis

ExecutorNode ==
  /\ Superstep("executor", "validator")
  /\ ExecutorMock \/ ExecutorPasses \/ ExecutorGivesUp
  /\ UNCHANGED <<issue_analysis, active_ticket, decision_ledger,
                 last_validation_passed, escalation_count, run_status, checked, landed>>

-----------------------------------------------------------------------------
validator_router_Bug(passed, strikes) ==  \* a failed validation goes on to git
  IF strikes >= MaxStrikes THEN "escalate" ELSE "oversight_git"

validator_router(passed, strikes) ==
  IF passed THEN "oversight_git"
  ELSE IF strikes >= MaxStrikes THEN "escalate" ELSE "executor"

\* The mock branch leaves the diagnosis alone; the real one clears it.
ValidatorPasses ==
  /\ last_validation_passed' = TRUE
  /\ checked' = tree
  /\ validation_diagnosis' = IF mock THEN validation_diagnosis ELSE NoVersion
  /\ UNCHANGED strike_count

ValidatorFails_Bug ==  \* the diagnosis is not handed back
  /\ ~mock
  /\ last_validation_passed' = FALSE
  /\ strike_count' = strike_count + 1
  /\ UNCHANGED <<validation_diagnosis, checked>>

ValidatorFails ==
  /\ ~mock
  /\ last_validation_passed' = FALSE
  /\ validation_diagnosis' = tree
  /\ strike_count' = strike_count + 1
  /\ UNCHANGED checked

ValidatorNode ==
  /\ ValidatorPasses \/ ValidatorFails
  /\ Superstep("validator", validator_router(last_validation_passed', strike_count'))
  /\ UNCHANGED <<issue_analysis, active_ticket, history, ticket_status,
                 escalation_count, run_status, tree, landed, attempts>>

-----------------------------------------------------------------------------
(* oversight_git_node.                                                     *)
oversight_git_router_Bug(status, strikes) ==  \* a ticket without files is retried
  IF status = "done" THEN "advance"
  ELSE IF strikes >= MaxStrikes THEN "escalate" ELSE "executor"

oversight_git_router(status, strikes) ==
  IF status = "done" \/ ~active_ticket.files THEN "advance"
  ELSE IF strikes >= MaxStrikes THEN "escalate" ELSE "executor"

\* Log lines of the repository set-up: rev-parse, git init if it is not a
\* repository yet, two git config.
SetupLines == IF mock THEN {3} ELSE {3, 4}

\* No declared file: identity set, no commit attempted, no strike.
OversightNoFiles(setup) ==
  /\ ~active_ticket.files
  /\ attempt_log' = attempt_log + setup
  /\ UNCHANGED <<ticket_status, strike_count, landed>>

\* HEAD, git add, git commit and HEAD again, and the two looks differ: HEAD has
\* moved -- or the first look failed, which reads as "no commit yet", and then
\* a commit that exits 0 is taken for one that has landed.  The mock client
\* answers every rev-parse with the same text, so HEAD never moves.
OversightCommits(setup) ==
  /\ active_ticket.files /\ ~mock
  /\ attempt_log' = attempt_log + setup + 4
  /\ ticket_status' = "done"
  /\ landed' \in {landed, tree}
  /\ UNCHANGED strike_count

\* git add fails, git commit fails, or HEAD has not moved or cannot be read:
\* the commands up to the one that failed, and the reason.  A commit may have
\* landed although the command, or the look at HEAD after it, failed.
OversightStrikes(setup) ==
  /\ active_ticket.files
  /\ \E commands \in (IF mock THEN {4} ELSE 2 .. 4) :
       /\ attempt_log' = attempt_log + setup + commands + 1
       /\ landed' \in (IF mock \/ commands = 2 THEN {landed} ELSE {landed, tree})
  /\ strike_count' = strike_count + 1
  /\ UNCHANGED ticket_status

OversightGitNode ==
  /\ \E setup \in SetupLines :
       OversightNoFiles(setup) \/ OversightCommits(setup) \/ OversightStrikes(setup)
  /\ Superstep("oversight_git", oversight_git_router(ticket_status', strike_count'))
  /\ UNCHANGED <<issue_analysis, active_ticket, decision_ledger,
                 last_validation_passed, validation_diagnosis, escalation_count,
                 run_status, tree, checked, attempts>>

-----------------------------------------------------------------------------
EscalateNode_Bug ==  \* compares the count from before the increment
  /\ Superstep("escalate", "advance")
  /\ ticket_status' = "escalated"
  /\ escalation_count' = escalation_count + 1
  /\ run_status' = IF escalation_count > MaxEscalations
                   THEN "halted_escalation_budget" ELSE run_status
  /\ UNCHANGED <<issue_analysis, active_ticket, history, last_validation_passed,
                 validation_diagnosis, strike_count, sandbox>>

EscalateToEnd_Bug ==  \* straight to END, past the ledger
  /\ Superstep("escalate", "end")
  /\ ticket_status' = "escalated"
  /\ escalation_count' = escalation_count + 1
  /\ run_status' = IF escalation_count' > MaxEscalations
                   THEN "halted_escalation_budget" ELSE run_status
  /\ UNCHANGED <<issue_analysis, active_ticket, history, last_validation_passed,
                 validation_diagnosis, strike_count, sandbox>>

EscalateNode ==
  /\ Superstep("escalate", "advance")
  /\ ticket_status' = "escalated"
  /\ escalation_count' = escalation_count + 1
  /\ run_status' = IF escalation_count' > MaxEscalations
                   THEN "halted_escalation_budget" ELSE run_status
  /\ UNCHANGED <<issue_analysis, active_ticket, history, last_validation_passed,
                 validation_diagnosis, strike_count, sandbox>>

\* advance_node.  `summary` is the length of the joined log, in lines.
AdvanceNode ==
  /\ Superstep("advance", "dispatch")
  /\ decision_ledger' = Append(decision_ledger,
                               [summary |-> attempt_log, attempt_count |-> attempt_log])
  /\ attempt_log' = 0
  /\ UNCHANGED <<issue_analysis, active_ticket, verdict, budget, sandbox>>

-----------------------------------------------------------------------------
(* An exception leaves the node: LangGraph drops the node's update and the *)
(* run ends.  The LLM is called by analyzer and architect when there is an *)
(* issue, the container over HTTP by the last three; architect also raises *)
(* when it can derive no verification command.  What the node had already  *)
(* done in the sandbox stays done.                                         *)
NodeRaises ==
  /\ \/ CallsLlm(node)
     \/ node \in {"executor", "validator", "oversight_git"} /\ ~mock
  /\ node' = "raised"
  /\ \/ node = "executor" /\ \E n \in 0 .. (MaxStrikes - strike_count) :
                               /\ attempts' = attempts + n
                               /\ \E edits \in 0 .. n : tree' = tree + edits
     \/ node # "executor" /\ UNCHANGED <<attempts, tree>>
  /\ landed' \in (IF node = "oversight_git" /\ active_ticket.files
                  THEN {landed, tree} ELSE {landed})
  /\ UNCHANGED <<config, supersteps, issue_analysis, active_ticket, history,
                 verdict, budget, checked>>

Next ==
  \/ AnalyzerNode
  \/ ArchitectNode
  \/ DispatchNode
  \/ ExecutorNode
  \/ ValidatorNode
  \/ OversightGitNode
  \/ EscalateNode
  \/ AdvanceNode
  \/ NodeRaises

Spec == Init /\ [][Next]_vars

\* Every await of a node returns or raises within its timeout, so the run
\* goes on until it reaches END or an exception.
FairSpec == Spec /\ WF_vars(Next)
-----------------------------------------------------------------------------
(* What must hold of every run.                                            *)

TypeOK ==
  /\ mock \in BOOLEAN /\ issue \in BOOLEAN
  /\ node \in Nodes \cup {"end", "raised"}
  /\ supersteps \in Nat
  /\ issue_analysis \in BOOLEAN
  /\ active_ticket \in Ticket
  /\ attempt_log \in Nat
  /\ decision_ledger \in Seq([summary : Nat, attempt_count : Nat])
  /\ ticket_status \in TicketStatus
  /\ last_validation_passed \in BOOLEAN
  /\ strike_count \in Nat
  /\ validation_diagnosis \in Nat
  /\ escalation_count \in Nat
  /\ run_status \in RunStatus
  /\ tree \in Nat \ {0} /\ checked \in Nat /\ landed \in Nat
  /\ attempts \in Nat

\* The agent is let loose on a ticket at most MaxStrikes times, however the
\* executor, the validator and oversight_git share strike_count between them
\* (README "up to three attempts"; tests: "never a fourth attempt").
AttemptsBounded == attempts <= MaxStrikes

\* The retry edges never make the run longer than this many supersteps: 15 for
\* three strikes, below the recursion_limit of 25 the tests run the graph with,
\* so no run dies of GraphRecursionError.
SuperstepBound == 3 * MaxStrikes + 6
WithinRecursionLimit == supersteps <= SuperstepBound

\* Nothing is committed behind the validator's back.  Whenever a commit landed,
\* also one that counted as a strike or went down with an exception, the
\* workspace was one the validator had passed (`landed` never gets ahead of
\* `checked`); and when the ticket is DONE the workspace is still the one that
\* passed.  What the commit holds, and whether DONE comes with one, is
\* OversightGit's subject.
DoneIsVerified ==
  /\ landed <= checked
  /\ ticket_status = "done" => active_ticket.files /\ ~mock /\ checked = tree

\* A run that reaches END has exactly one ledger entry, which covers a
\* non-empty log, and carries no raw log line any more -- on the pass path, the
\* no-files path and the escalate path alike.
LedgerClosesRun ==
  node = "end" =>
    /\ Len(decision_ledger) = 1
    /\ decision_ledger[1].attempt_count > 0
    /\ attempt_log = 0

\* How a run may end: DONE; a validated ticket without declared
\* files, whose status is whatever the executor left (ESCALATED without a count,
\* when it had given up); or a counted escalation with the strike budget spent.
\* Only an over-budget escalation halts the run.
SettledOutcome ==
  node = "end" =>
    /\ \/ ticket_status = "done" /\ escalation_count = 0
       \/ /\ ~active_ticket.files /\ last_validation_passed /\ checked = tree
          /\ ticket_status \in {"local_pass", "escalated"} /\ escalation_count = 0
       \/ /\ ticket_status = "escalated" /\ escalation_count = 1
          /\ strike_count >= MaxStrikes
    /\ run_status = "halted_escalation_budget" <=> escalation_count > MaxEscalations

\* The feedback the executor is about to hand to the agent is never stale: it
\* is a diagnosis of the workspace as it is now, and it is there whenever the
\* last verdict was a failed validation.
FreshFeedback ==
  node = "executor" =>
    /\ validation_diagnosis \in {NoVersion, tree}
    /\ (validation_diagnosis = NoVersion) <=> (last_validation_passed \/ attempts = 0)

\* A ticket made from an issue is only ever validated with a command that the
\* model or a manifest of the checkout supplied: validator_node's generic
\* default is for callers without an issue.
GroundedCommand ==
  issue /\ node \in {"executor", "validator", "oversight_git"} => active_ticket.command

\* Once a ticket is in the ledger nothing touches the sandbox, the strikes or
\* the verdict again: the dispatch after advance always leaves for END.
AdvanceIsFinal ==
  [][decision_ledger # <<>> => UNCHANGED <<history, verdict, budget, sandbox>>]_vars

-----------------------------------------------------------------------------
(* The graph implements the promise about a ticket.                        *)

\* How the run has ended, if it has.
Outcome ==
  IF node = "raised" THEN "failed"
  ELSE IF node # "end" THEN "open"
  ELSE IF ticket_status = "done" THEN "done"
  ELSE IF escalation_count > 0 THEN "escalated" ELSE "validated"

Promise == INSTANCE TicketLifecycle WITH
  Budget   <- MaxStrikes,
  outcome  <- Outcome,
  tries    <- attempts,
  good     <- last_validation_passed /\ checked = tree,
  recorded <- decision_ledger # <<>>

\* Nodes, routers and counters together keep the promise of TicketLifecycle:
\* whichever nodes run and whatever they answer, each superstep is an attempt, a
\* judgement, the record, the settlement, a failure or nothing of the kind.
KeepsPromise == Promise!FairLifecycle
=============================================================================
