------------------------ MODULE SyndicateGraphProofs ------------------------
(***************************************************************************)
(* The safety properties of SyndicateGraph, for every strike budget and    *)
(* every escalation budget.                                                *)
(*                                                                         *)
(* None of them is inductive: each holds at END because of what held at    *)
(* the nodes the run came through.  Inv adds what the code relies on at    *)
(* each node: what a strike costs in supersteps and in attempts, which     *)
(* status and which verdict a node can find, and when the ledger is        *)
(* written.                                                                *)
(***************************************************************************)
EXTENDS SyndicateGraph, TLAPS

\* The nodes at which a ticket is being worked on or judged.
Working == {"executor", "validator", "oversight_git"}

\* The ticket has been through advance_node.
Closed == decision_ledger # <<>>

\* A full strike takes three supersteps, and only the mock executor takes one
\* without counting it.
Cost ==
  /\ node = "analyzer" => supersteps = 0
  /\ node = "architect" => supersteps = 1
  /\ node = "dispatch" /\ ~Closed => supersteps = 2
  /\ node = "executor" => supersteps <= 3 * strike_count + 3
  /\ node = "validator" => supersteps <= 3 * strike_count + (IF mock THEN 4 ELSE 1)
  /\ node = "oversight_git" => supersteps <= 3 * strike_count + (IF mock THEN 5 ELSE 2)
  /\ node = "escalate" => supersteps <= 3 * MaxStrikes + 3
  /\ node = "advance" => supersteps <= 3 * MaxStrikes + 4
  /\ node = "dispatch" => supersteps <= 3 * MaxStrikes + 5
  /\ supersteps <= SuperstepBound

\* What the strike counter says about the attempts made.
Strain ==
  /\ node \in {"analyzer", "architect"} \/ (node = "dispatch" /\ ~Closed)
       => strike_count = 0 /\ attempts = 0
  /\ node = "executor" => strike_count < MaxStrikes /\ attempts <= strike_count
  /\ node \in {"validator", "oversight_git"} =>
       /\ mock => strike_count < MaxStrikes /\ attempts <= strike_count + 1
       /\ ~mock => strike_count <= MaxStrikes /\ attempts <= strike_count
  /\ node = "escalate" => strike_count >= MaxStrikes
  /\ attempts <= MaxStrikes

\* The ledger is written once, by the advance that precedes END.
Ledger ==
  /\ Closed =>
       /\ node \in {"dispatch", "end"}
       /\ Len(decision_ledger) = 1
       /\ decision_ledger[1].attempt_count > 0
       /\ attempt_log = 0
  /\ node = "end" => Closed
  /\ node \in {"validator", "oversight_git", "escalate", "advance"} => attempt_log > 0

\* Where the ticket's command comes from.
Command ==
  /\ node = "architect" /\ issue => issue_analysis
  /\ issue /\ (node \in Working \/ node \in {"dispatch", "escalate", "advance", "end"})
       => active_ticket.command

\* The diagnosis the next attempt will read.
Feedback ==
  /\ mock \/ node \in {"analyzer", "architect"} \/ (node = "dispatch" /\ ~Closed)
       => validation_diagnosis = NoVersion
  /\ node = "oversight_git" => validation_diagnosis = NoVersion
  /\ node = "validator" => attempts > 0
  /\ FreshFeedback

\* The outcomes that advance_node may close.
Settled ==
  \/ /\ ticket_status = "done" /\ escalation_count = 0 /\ last_validation_passed
  \/ /\ ~active_ticket.files /\ last_validation_passed /\ checked = tree
     /\ ticket_status \in {"local_pass", "escalated"} /\ escalation_count = 0
  \/ /\ ticket_status = "escalated" /\ escalation_count = 1
     /\ strike_count >= MaxStrikes

\* Status, verdict and budgets at each node.
Standing ==
  /\ node \in {"analyzer", "architect"} \/ (node = "dispatch" /\ ~Closed)
       => ticket_status = "none" /\ ~last_validation_passed
  /\ node \in {"validator", "oversight_git"} => ticket_status \in {"local_pass", "escalated"}
  /\ node = "oversight_git" => last_validation_passed /\ checked = tree
  /\ node = "advance" \/ Closed => Settled
  /\ ~(node = "advance" \/ Closed) => escalation_count = 0
  /\ ticket_status = "done" =>
       (node = "advance" \/ Closed) /\ active_ticket.files /\ ~mock /\ checked = tree
  /\ run_status = "halted_escalation_budget" <=> escalation_count > MaxEscalations

Inv == TypeOK /\ Cost /\ Strain /\ Ledger /\ Command /\ Feedback /\ Standing

-----------------------------------------------------------------------------
\* The tickets a run can start from, and those the architect can plan, are tickets.
LEMMA TicketsTyped ==
  /\ StubTicket \in Ticket /\ NoTicket \in Ticket
  /\ ServerTicket \in Ticket /\ SmokeTicket \in Ticket
  /\ \A f \in BOOLEAN : [present |-> TRUE, files |-> f, command |-> TRUE] \in Ticket
BY DEF Ticket, StubTicket, NoTicket, ServerTicket, SmokeTicket

-----------------------------------------------------------------------------
(* Every node preserves the invariant. *)

\* What the callers of the graph pass in satisfies the invariant.
LEMMA StartKeepsInv ==
  ASSUME Init
  PROVE  Inv
<1> PICK t \in EntryTickets(issue) : Fresh("analyzer", t, 0, 0)
  BY DEF Init
<1>1. TypeOK
  <2>1. active_ticket \in Ticket
    BY TicketsTyped DEF Fresh, EntryTickets
  <2>2. mock \in BOOLEAN /\ issue \in BOOLEAN /\ issue_analysis \in BOOLEAN
        /\ last_validation_passed \in BOOLEAN
    BY DEF Init, Fresh
  <2> QED
    BY <2>1, <2>2 DEF Fresh, NoVersion, TypeOK, Nodes, TicketStatus, RunStatus
<1>2. Cost
  BY BudgetAssumption DEF Fresh, Cost, SuperstepBound
<1>3. Strain
  BY BudgetAssumption DEF Fresh, Strain
<1>4. Ledger
  BY DEF Fresh, Ledger, Closed
<1>5. Command
  BY DEF Fresh, Command, Working
<1>6. Feedback
  BY DEF Fresh, Feedback, FreshFeedback
<1>7. Standing
  BY BudgetAssumption DEF Fresh, Standing, Closed
<1> QED
  BY <1>1, <1>2, <1>3, <1>4, <1>5, <1>6, <1>7 DEF Inv

\* analyzer_node: the first superstep, which never touches a verdict or a budget.
LEMMA AnalyzerStep ==
  ASSUME Inv, AnalyzerNode
  PROVE  Inv'
<1>1. TypeOK'
  <2>1. active_ticket' \in Ticket
    BY TicketsTyped DEF Inv, AnalyzerNode, TypeOK
  <2>2. issue_analysis' \in BOOLEAN
    BY DEF Inv, AnalyzerNode, TypeOK
  <2> QED
    BY <2>1, <2>2 DEF Inv, AnalyzerNode, Superstep, config, budget, sandbox,
       history, verdict, TypeOK, Nodes
<1>2. Cost'
  BY BudgetAssumption DEF Inv, AnalyzerNode, Superstep, Cost, SuperstepBound
<1>3. Strain'
  BY DEF Inv, AnalyzerNode, Superstep, budget, sandbox, Strain
<1>4. Ledger'
  BY DEF Inv, AnalyzerNode, Superstep, history, Closed, Ledger
<1>5. Command'
  BY DEF AnalyzerNode, Superstep, config, Command, Working
<1>6. Feedback'
  BY DEF Inv, AnalyzerNode, Superstep, verdict, Feedback, FreshFeedback
<1>7. Standing'
  BY DEF Inv, AnalyzerNode, Superstep, budget, history, verdict, Closed,
     Ledger, Standing
<1> QED
  BY <1>1, <1>2, <1>3, <1>4, <1>5, <1>6, <1>7 DEF Inv

\* architect_node: the ticket it plans has a command, so Command survives.
LEMMA ArchitectStep ==
  ASSUME Inv, ArchitectNode
  PROVE  Inv'
<1>1. TypeOK'
  <2>1. active_ticket' \in Ticket
    BY TicketsTyped DEF Inv, ArchitectNode, TypeOK
  <2> QED
    BY <2>1 DEF Inv, ArchitectNode, Superstep, config, budget, sandbox,
       history, verdict, TypeOK, Nodes
<1>2. Cost'
  BY BudgetAssumption DEF Inv, ArchitectNode, Superstep, Cost, SuperstepBound
<1>3. Strain'
  BY DEF Inv, ArchitectNode, Superstep, budget, sandbox, Strain
<1>4. Ledger'
  BY DEF Inv, ArchitectNode, Superstep, history, Closed, Ledger
<1>5. Command'
  BY DEF Inv, ArchitectNode, Superstep, config, Command
<1>6. Feedback'
  BY DEF Inv, ArchitectNode, Superstep, verdict, Feedback, FreshFeedback
<1>7. Standing'
  BY DEF Inv, ArchitectNode, Superstep, budget, history, verdict, Closed,
     Ledger, Standing
<1> QED
  BY <1>1, <1>2, <1>3, <1>4, <1>5, <1>6, <1>7 DEF Inv

\* _dispatch_router: before advance it enters the executor, after it only END.
LEMMA DispatchStep ==
  ASSUME Inv, DispatchNode
  PROVE  Inv'
<1>1. TypeOK'
  BY DEF Inv, DispatchNode, dispatch_router, Superstep, config, budget,
     sandbox, history, verdict, TypeOK, Nodes
<1>2. Cost'
  BY BudgetAssumption DEF Inv, DispatchNode, dispatch_router, Superstep,
     budget, TypeOK, Cost, SuperstepBound, Standing, Settled
<1>3. Strain'
  BY BudgetAssumption DEF Inv, DispatchNode, dispatch_router, Superstep,
     budget, sandbox, Strain, Standing, Settled
<1>4. Ledger'
  BY BudgetAssumption DEF Inv, DispatchNode, dispatch_router, Superstep,
     history, Closed, Ledger, Standing, Settled
<1>5. Command'
  BY DEF Inv, DispatchNode, dispatch_router, Superstep, config, Command
<1>6. Feedback'
  BY DEF Inv, DispatchNode, dispatch_router, Superstep, config, sandbox,
     verdict, Strain, Feedback, FreshFeedback, Standing, Settled
<1>7. Standing'
  BY DEF Inv, DispatchNode, dispatch_router, Superstep, config, budget,
     sandbox, history, verdict, Closed, Standing, Settled
<1> QED
  BY <1>1, <1>2, <1>3, <1>4, <1>5, <1>6, <1>7 DEF Inv

\* executor_node: every attempt is paid for with a strike, except the mock's one.
LEMMA ExecutorStep ==
  ASSUME Inv, ExecutorNode
  PROVE  Inv'
<1>1. TypeOK'
  BY BudgetAssumption DEF Inv, ExecutorNode, ExecutorMock, ExecutorPasses,
     ExecutorGivesUp, Strikes, Superstep, config, TypeOK, Nodes, TicketStatus,
     NoVersion, Cost
<1>2. Cost'
  BY BudgetAssumption DEF Inv, ExecutorNode, ExecutorMock, ExecutorPasses,
     ExecutorGivesUp, Strikes, Superstep, config, TypeOK, Cost,
     SuperstepBound, Strain
<1>3. Strain'
  BY BudgetAssumption DEF Inv, ExecutorNode, ExecutorMock, ExecutorPasses,
     ExecutorGivesUp, Strikes, Superstep, config, TypeOK, Strain
<1>4. Ledger'
  BY BudgetAssumption DEF Inv, ExecutorNode, ExecutorMock, ExecutorPasses,
     ExecutorGivesUp, Strikes, Superstep, TypeOK, Closed, Strain, Ledger
<1>5. Command'
  BY DEF Inv, ExecutorNode, Superstep, config, Command, Working
<1>6. Feedback'
  BY BudgetAssumption DEF Inv, ExecutorNode, ExecutorMock, ExecutorPasses,
     ExecutorGivesUp, Strikes, Superstep, config, TypeOK, Strain, Feedback,
     FreshFeedback
<1>7. Standing'
  BY DEF Inv, ExecutorNode, ExecutorMock, ExecutorPasses, ExecutorGivesUp,
     Superstep, Closed, Ledger, Standing
<1> QED
  BY <1>1, <1>2, <1>3, <1>4, <1>5, <1>6, <1>7 DEF Inv

\* validator_node and its router: a failure costs a strike and leaves a diagnosis.
LEMMA ValidatorStep ==
  ASSUME Inv, ValidatorNode
  PROVE  Inv'
<1>1. TypeOK'
  <2>1. last_validation_passed' \in BOOLEAN
    BY DEF Inv, ValidatorNode, ValidatorPasses, ValidatorFails, TypeOK
  <2> QED
    BY <2>1 DEF Inv, ValidatorNode, ValidatorPasses, ValidatorFails,
       validator_router, Superstep, config, history, TypeOK, Nodes, NoVersion
<1>2. Cost'
  BY BudgetAssumption DEF Inv, ValidatorNode, ValidatorPasses, ValidatorFails,
     validator_router, Superstep, config, TypeOK, Cost, SuperstepBound, Strain
<1>3. Strain'
  BY BudgetAssumption DEF Inv, ValidatorNode, ValidatorPasses, ValidatorFails,
     validator_router, Superstep, config, TypeOK, Strain
<1>4. Ledger'
  BY DEF Inv, ValidatorNode, validator_router, Superstep, history, Closed,
     Ledger
<1>5. Command'
  BY DEF Inv, ValidatorNode, validator_router, Superstep, config, Command,
     Working
<1>6. Feedback'
  BY DEF Inv, ValidatorNode, ValidatorPasses, ValidatorFails,
     validator_router, Superstep, config, TypeOK, NoVersion, Feedback,
     FreshFeedback
<1>7. Standing'
  BY DEF Inv, ValidatorNode, ValidatorPasses, ValidatorFails,
     validator_router, Superstep, history, Closed, Ledger, Standing
<1> QED
  BY <1>1, <1>2, <1>3, <1>4, <1>5, <1>6, <1>7 DEF Inv

\* oversight_git_node and its router: DONE needs the validated tree.
LEMMA OversightStep ==
  ASSUME Inv, OversightGitNode
  PROVE  Inv'
<1>1. TypeOK'
  BY DEF Inv, OversightGitNode, OversightNoFiles, OversightCommits,
     OversightStrikes, SetupLines, oversight_git_router, Superstep, config,
     TypeOK, Nodes, TicketStatus
<1>2. Cost'
  BY BudgetAssumption DEF Inv, OversightGitNode, OversightNoFiles,
     OversightCommits, OversightStrikes, oversight_git_router, Superstep,
     TypeOK, Cost, SuperstepBound, Strain
<1>3. Strain'
  BY BudgetAssumption DEF Inv, OversightGitNode, OversightNoFiles,
     OversightCommits, OversightStrikes, oversight_git_router, Superstep,
     TypeOK, Strain
<1>4. Ledger'
  BY DEF Inv, OversightGitNode, OversightNoFiles, OversightCommits,
     OversightStrikes, SetupLines, oversight_git_router, Superstep, TypeOK,
     Closed, Ledger
<1>5. Command'
  BY DEF Inv, OversightGitNode, oversight_git_router, Superstep, config,
     Command, Working
<1>6. Feedback'
  BY DEF Inv, OversightGitNode, oversight_git_router, Superstep, Feedback,
     FreshFeedback, Standing
<1>7. Standing'
  BY DEF Inv, OversightGitNode, OversightNoFiles, OversightCommits,
     OversightStrikes, oversight_git_router, Superstep, config, Closed,
     Ledger, Standing, Settled
<1> QED
  BY <1>1, <1>2, <1>3, <1>4, <1>5, <1>6, <1>7 DEF Inv

\* escalate_node: the one place where the escalation budget is spent.
LEMMA EscalateStep ==
  ASSUME Inv, EscalateNode
  PROVE  Inv'
<1>1. TypeOK'
  BY DEF Inv, EscalateNode, Superstep, config, sandbox, history, TypeOK,
     Nodes, TicketStatus, RunStatus
<1>2. Cost'
  BY BudgetAssumption DEF Inv, EscalateNode, Superstep, TypeOK, Cost,
     SuperstepBound
<1>3. Strain'
  BY DEF Inv, EscalateNode, Superstep, sandbox, Strain
<1>4. Ledger'
  BY DEF Inv, EscalateNode, Superstep, history, Closed, Ledger
<1>5. Command'
  BY DEF Inv, EscalateNode, Superstep, config, Command
<1>6. Feedback'
  BY DEF Inv, EscalateNode, Superstep, config, Feedback, FreshFeedback
<1>7. Standing'
  BY BudgetAssumption DEF Inv, EscalateNode, Superstep, Strain, Ledger,
     Standing, Settled
<1> QED
  BY <1>1, <1>2, <1>3, <1>4, <1>5, <1>6, <1>7 DEF Inv

\* advance_node: reached only with a settled outcome and a log to distil.
LEMMA AdvanceStep ==
  ASSUME Inv, AdvanceNode
  PROVE  Inv'
<1>1. TypeOK'
  BY DEF Inv, AdvanceNode, Superstep, config, budget, sandbox, verdict,
     TypeOK, Nodes
<1>2. Cost'
  BY BudgetAssumption DEF Inv, AdvanceNode, Superstep, TypeOK, Cost,
     SuperstepBound, Closed
<1>3. Strain'
  BY DEF Inv, AdvanceNode, Superstep, sandbox, Closed, Strain, Ledger
<1>4. Ledger'
  BY DEF Inv, AdvanceNode, Superstep, Closed, Ledger
<1>5. Command'
  BY DEF Inv, AdvanceNode, Superstep, config, Command
<1>6. Feedback'
  BY DEF Inv, AdvanceNode, Superstep, config, verdict, NoVersion,
     SuperstepBound, Closed, Strain, Feedback, FreshFeedback
<1>7. Standing'
  BY DEF Inv, AdvanceNode, Superstep, config, budget, sandbox, verdict,
     Closed, Ledger, Standing, Settled
<1> QED
  BY <1>1, <1>2, <1>3, <1>4, <1>5, <1>6, <1>7 DEF Inv

\* A node that raises keeps its strikes to itself but not its edits.
LEMMA RaisesStep ==
  ASSUME Inv, NodeRaises
  PROVE  Inv'
<1>1. TypeOK'
  BY DEF Inv, NodeRaises, config, budget, history, verdict, TypeOK
<1>2. Cost'
  BY DEF Inv, NodeRaises, Cost
<1>3. Strain'
  BY BudgetAssumption DEF Inv, NodeRaises, TypeOK, Strain
<1>4. Ledger'
  BY DEF Inv, NodeRaises, CallsLlm, history, Closed, Ledger
<1>5. Command'
  BY DEF NodeRaises, Command, Working
<1>6. Feedback'
  BY DEF Inv, NodeRaises, config, verdict, Feedback, FreshFeedback
<1>7. Standing'
  BY DEF Inv, NodeRaises, CallsLlm, budget, history, verdict, Closed, Ledger,
     Standing
<1> QED
  BY <1>1, <1>2, <1>3, <1>4, <1>5, <1>6, <1>7 DEF Inv

-----------------------------------------------------------------------------
(* The invariant, and the properties that follow from it. *)

\* Whichever node runs, it leaves the invariant to the next one.
LEMMA StepKeepsInv ==
  ASSUME Inv, [Next]_vars
  PROVE  Inv'
<1>1. CASE AnalyzerNode
  BY <1>1, AnalyzerStep
<1>2. CASE ArchitectNode
  BY <1>2, ArchitectStep
<1>3. CASE DispatchNode
  BY <1>3, DispatchStep
<1>4. CASE ExecutorNode
  BY <1>4, ExecutorStep
<1>5. CASE ValidatorNode
  BY <1>5, ValidatorStep
<1>6. CASE OversightGitNode
  BY <1>6, OversightStep
<1>7. CASE EscalateNode
  BY <1>7, EscalateStep
<1>8. CASE AdvanceNode
  BY <1>8, AdvanceStep
<1>9. CASE NodeRaises
  BY <1>9, RaisesStep
<1>10. CASE UNCHANGED vars
  BY <1>10 DEF vars, Inv, config, budget, sandbox, history, verdict, TypeOK,
     Cost, Closed, Strain, Ledger, Command, Feedback, FreshFeedback,
     Standing, Settled
<1> QED
  BY <1>1, <1>2, <1>3, <1>4, <1>5, <1>6, <1>7, <1>8, <1>9, <1>10 DEF Next

\* Whatever nodes ran, each finds the status, the verdict, the counters and the
\* ledger that the code after it relies on: Inv holds in every state of a run.
THEOREM Invariance == Spec => []Inv
<1>1. Init => Inv
  BY StartKeepsInv
<1>2. Inv /\ [Next]_vars => Inv'
  BY StepKeepsInv
<1> QED
  BY <1>1, <1>2, PTL DEF Spec

\* Every key of AgentState keeps the type its annotation declares, for every
\* budget: no counter goes below zero, no status outside the enumerations.
THEOREM TypeCorrect == Spec => []TypeOK
<1>1. Inv => TypeOK
  BY DEF Inv
<1> QED
  BY Invariance, <1>1, PTL

\* _MAX_STRIKES bounds the agentic loops of executor_node over the whole ticket,
\* for every value of it, although three nodes increment strike_count and the
\* update of a node that raises is lost.
THEOREM AttemptBudget == Spec => []AttemptsBounded
<1>1. Inv => AttemptsBounded
  BY DEF Inv, Strain, AttemptsBounded
<1> QED
  BY Invariance, <1>1, PTL

\* The retry edges out of validator and oversight_git cost at most three
\* supersteps per strike, so a run is never longer than 3 * MaxStrikes + 6: this
\* is what recursion_limit has to allow for when _MAX_STRIKES is changed.
THEOREM SuperstepBudget == Spec => []WithinRecursionLimit
<1>1. Inv => WithinRecursionLimit
  BY DEF Inv, Cost, WithinRecursionLimit
<1> QED
  BY Invariance, <1>1, PTL

\* The validator judges what is there, and git commits what it has judged: no
\* verdict is about later contents, and no commit about contents that came
\* after the verdict.
VerdictIsPast == landed <= checked /\ checked <= tree

\* A run begins before any verdict.
LEMMA StartsInThePast == Init => VerdictIsPast
BY DEF Init, Fresh, NoVersion, VerdictIsPast

\* validator_node judges the version it finds, versions only grow, and
\* oversight_git_node finds the version judged last.
LEMMA StaysInThePast ==
  ASSUME Inv, VerdictIsPast, [Next]_vars
  PROVE  VerdictIsPast'
<1> USE DEF VerdictIsPast, Inv, TypeOK
<1>1. CASE ExecutorNode
  BY <1>1 DEF ExecutorNode, ExecutorMock, ExecutorPasses, ExecutorGivesUp, Strikes
<1>2. CASE ValidatorNode
  BY <1>2 DEF ValidatorNode, ValidatorPasses, ValidatorFails
<1>3. CASE NodeRaises
  BY <1>3 DEF NodeRaises, Standing
<1>4. CASE OversightGitNode
  <2>1. checked = tree /\ landed' \in {landed, tree} /\ UNCHANGED <<checked, tree>>
    BY <1>4 DEF OversightGitNode, OversightNoFiles, OversightCommits, OversightStrikes,
       Superstep, Standing
  <2> QED
    BY <2>1
<1>5. CASE UNCHANGED <<landed, checked, tree>>
  BY <1>5
<1> QED
  BY <1>1, <1>2, <1>3, <1>4, <1>5 DEF Next, AnalyzerNode, ArchitectNode, DispatchNode,
     EscalateNode, AdvanceNode, vars, sandbox

\* The version judged last is never ahead of the workspace, nor behind a commit.
LEMMA VerdictPast == Spec => []VerdictIsPast
<1>1. Inv /\ VerdictIsPast /\ [Next]_vars => VerdictIsPast'
  BY StaysInThePast
<1> QED
  BY <1>1, StartsInThePast, Invariance, PTL DEF Spec

\* validator_node's pass stands between the agent's edits and every commit of
\* oversight_git_node, DONE or strike: no commit lands on a workspace newer than
\* the last verdict, and a ticket that is DONE still has the one that passed.
THEOREM DoneVerified == Spec => []DoneIsVerified
<1>1. Inv /\ VerdictIsPast => DoneIsVerified
  BY DEF Inv, Standing, VerdictIsPast, DoneIsVerified
<1> QED
  BY Invariance, VerdictPast, <1>1, PTL

\* advance_node runs exactly once before END, on every path to it, and always
\* has a non-empty attempt_log to distil.
THEOREM LedgerClosed == Spec => []LedgerClosesRun
<1>1. Inv => LedgerClosesRun
  BY DEF Inv, Ledger, LedgerClosesRun
<1> QED
  BY Invariance, <1>1, PTL

\* A run reaches END only DONE, with a validated ticket that declares no file, or
\* with one counted escalation of a spent strike budget; and escalate_node halts
\* the run exactly when the escalation budget is exceeded.
THEOREM OutcomeSettled == Spec => []SettledOutcome
<1>1. Inv => SettledOutcome
  BY DEF Inv, Ledger, Standing, Settled, SettledOutcome
<1> QED
  BY Invariance, <1>1, PTL

\* The validation_diagnosis with which executor_node starts its first strike is
\* about the current workspace, and is present whenever validation failed last.
THEOREM FeedbackFresh == Spec => []FreshFeedback
<1>1. Inv => FreshFeedback
  BY DEF Inv, Feedback
<1> QED
  BY Invariance, <1>1, PTL

\* architect_node's refusal is enough: no ticket planned from an issue is ever
\* executed or validated with validator_node's generic default command.
THEOREM CommandGrounded == Spec => []GroundedCommand
<1>1. Inv => GroundedCommand
  BY DEF Inv, Command, Working, GroundedCommand
<1> QED
  BY Invariance, <1>1, PTL

\* Once advance_node has written the ledger, _dispatch_router leaves for END: no
\* later step of the run changes the verdict, the budgets or the sandbox.
THEOREM AdvanceFinal == Spec => AdvanceIsFinal
<1>1. Inv /\ [Next]_vars =>
        [decision_ledger # <<>> => UNCHANGED <<history, verdict, budget, sandbox>>]_vars
  BY DEF Next, Inv, AnalyzerNode, ArchitectNode, DispatchNode, ExecutorNode,
     ValidatorNode, OversightGitNode, EscalateNode, AdvanceNode, NodeRaises,
     CallsLlm, Superstep, Ledger, Closed
<1> QED
  BY Invariance, <1>1, PTL DEF Spec, AdvanceIsFinal

-----------------------------------------------------------------------------
(* The graph implements TicketLifecycle. *)

\* A step that leaves the ticket open and the record, the attempts and the
\* judgement alone is no step of the lifecycle.
LEMMA Stutters ==
  ASSUME node \notin {"end", "raised"}, node' \notin {"end", "raised"},
         UNCHANGED <<attempts, last_validation_passed, checked, tree, decision_ledger>>
  PROVE  UNCHANGED Promise!lifecycle
BY DEF Promise!lifecycle, Outcome

\* Every step of the graph is a step of the ticket's lifecycle or none.
LEMMA StepKeepsPromise ==
  ASSUME Inv, Inv', VerdictIsPast, [Next]_vars
  PROVE  [Promise!Proceed]_(Promise!lifecycle)
<1> USE DEF Promise!Proceed, Promise!InWork
<1>1. CASE AnalyzerNode \/ ArchitectNode
  BY <1>1, Stutters
     DEF AnalyzerNode, ArchitectNode, Superstep, history, verdict, sandbox
<1>2. CASE DispatchNode
  <2>1. CASE dispatch_router = "executor"
    BY <1>2, <2>1, Stutters DEF DispatchNode, Superstep, history, verdict, sandbox
  <2>2. CASE dispatch_router = "end"
    <3>1. Settled /\ Closed /\ Len(decision_ledger) = 1
      BY <1>2, <2>2, BudgetAssumption
      DEF DispatchNode, Superstep, Inv, Standing, Ledger, dispatch_router
    <3>2. Promise!Settle
      BY <1>2, <2>2, <3>1 DEF DispatchNode, Superstep, Promise!Settle, Outcome, Settled, Closed,
         Inv, Standing, TypeOK, history, verdict, budget, sandbox
    <3> QED
      BY <3>2
  <2> QED
    BY <2>1, <2>2 DEF dispatch_router
<1>3. CASE ExecutorNode
  <2>1. /\ node = "executor" /\ node' = "validator"
        /\ UNCHANGED <<decision_ledger, last_validation_passed, checked>>
    BY <1>3 DEF ExecutorNode, Superstep
  <2>2. attempts \in Nat /\ attempts' \in attempts + 1 .. MaxStrikes
    BY <1>3, <2>1, BudgetAssumption
    DEF ExecutorNode, ExecutorMock, ExecutorPasses, ExecutorGivesUp, Strikes,
        Inv, TypeOK, Strain
  <2>3. tree' = tree \/ checked # tree'
    BY <1>3 DEF ExecutorNode, ExecutorMock, ExecutorPasses, ExecutorGivesUp, Strikes,
       Inv, TypeOK, VerdictIsPast
  <2>4. Promise!Attempt
    BY <2>1, <2>2, <2>3 DEF Promise!Attempt, Outcome, Inv, Ledger, Closed
  <2> QED
    BY <2>4
<1>4. CASE ValidatorNode
  <2>1. /\ node = "validator" /\ node' \in {"executor", "oversight_git", "escalate"}
        /\ UNCHANGED <<decision_ledger, attempts>>
    BY <1>4 DEF ValidatorNode, Superstep, validator_router, history
  <2>2. attempts > 0 /\ decision_ledger = <<>>
    BY <2>1 DEF Inv, Feedback, Ledger, Closed
  <2>3. Promise!Judge
    BY <2>1, <2>2 DEF Promise!Judge, Outcome
  <2> QED
    BY <2>3
<1>5. CASE OversightGitNode
  BY <1>5, Stutters DEF OversightGitNode, Superstep, oversight_git_router
<1>6. CASE EscalateNode
  BY <1>6, Stutters DEF EscalateNode, Superstep, history, sandbox
<1>7. CASE AdvanceNode
  <2>1. Promise!Record
    BY <1>7 DEF AdvanceNode, Superstep, Promise!Record, Outcome, Inv, TypeOK, Ledger, Closed,
       verdict, budget, sandbox
  <2> QED
    BY <2>1
<1>8. CASE NodeRaises
  <2>1. /\ node \notin {"end", "raised"} /\ node' = "raised" /\ decision_ledger = <<>>
        /\ UNCHANGED <<decision_ledger, last_validation_passed, checked>>
    BY <1>8 DEF NodeRaises, CallsLlm, Inv, Ledger, Closed, history, verdict
  <2>2. attempts \in Nat /\ attempts' \in attempts .. MaxStrikes
    BY <1>8 DEF NodeRaises, Inv, TypeOK, Strain
  <2>3. tree' = tree \/ checked # tree'
    BY <1>8 DEF NodeRaises, Inv, TypeOK, VerdictIsPast
  <2>4. Promise!Fail
    BY <2>1, <2>2, <2>3 DEF Promise!Fail, Outcome
  <2> QED
    BY <2>4
<1>9. CASE UNCHANGED vars
  BY <1>9 DEF vars, config, history, verdict, budget, sandbox, Outcome, Promise!lifecycle
<1> QED
  BY <1>1, <1>2, <1>3, <1>4, <1>5, <1>6, <1>7, <1>8, <1>9 DEF Next

\* A ticket is open and untouched when its run begins.
LEMMA OpensPromise == Init => Promise!Opened
BY DEF Init, Fresh, Promise!Opened, Outcome

\* For every strike budget the nodes, the routers and their counters implement
\* TicketLifecycle: bounded attempts, one record, after the last attempt and
\* before the end, and no commit or pass without a verdict that still stands.
THEOREM PromiseKept == Spec => Promise!Lifecycle
<1>1. Init => Promise!Opened
  BY OpensPromise
<1>2. Inv /\ Inv' /\ VerdictIsPast /\ [Next]_vars => [Promise!Proceed]_(Promise!lifecycle)
  BY StepKeepsPromise
<1> QED
  BY <1>1, <1>2, Invariance, VerdictPast, PTL DEF Spec, Promise!Lifecycle
=============================================================================
