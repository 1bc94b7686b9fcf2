---------------------------- MODULE ExecutorLoop ----------------------------
(***************************************************************************)
(* SyndicateGraph with executor_node opened up: the while loop over the    *)
(* strikes, the tool-calling conversation of _run_agentic_loop inside each *)
(* strike, and _run_fast_checks after it.  One action per await: a call of *)
(* the LLM, one tool, one fast check.  The other nodes, and the executor   *)
(* of a mock run, take the steps they take in SyndicateGraph.              *)
(*                                                                         *)
(* LangGraph sees none of this until the node returns; the tools act on    *)
(* the workspace at once.  So an exception half-way through loses the      *)
(* node's update and keeps its edits.  RefinesGraph says that seen from    *)
(* the outside this is still the graph's one-step executor.                *)
(*                                                                         *)
(* A tool is abstracted to whether it changes the workspace; the wording   *)
(* of its result, is_error included, only travels inside the conversation. *)
(***************************************************************************)
EXTENDS SyndicateGraph

CONSTANTS
  MaxToolCalls,   \* _MAX_TOOL_CALLS, turns of one conversation
  MaxBlocks       \* bound of the model: tool_use blocks in one answer

ASSUME LoopAssumption ==
  /\ MaxToolCalls \in Nat \ {0}
  /\ MaxBlocks \in Nat \ {0}

VARIABLES
  pc,             \* where executor_node is waiting, "out" if it is not running
  strike,
  feedback,       \* NoVersion (None) or the version the failed check was about
  log,            \* the local attempt_log, number of lines
  messages,       \* the conversation of this strike
  todo,           \* tool_use blocks of the last answer still to be run
  check,          \* index into _FAST_CHECK_ACTIONS
  edited,         \* this strike has changed the workspace
  entry,          \* tree and attempts when the node was entered
  calls           \* LLM requests made by the executor in this run

conversation == <<messages, todo, check, edited>>
locals == <<pc, strike, feedback, log, conversation, entry, calls>>
loopVars == <<vars, locals>>

FastCheckActions == 2   \* Len(_FAST_CHECK_ACTIONS)

\* A message: who speaks, how many tool_use (or tool_result) blocks it holds
\* and, for the first one, which version the quoted feedback is about.
Message(role, blocks, about) == [role |-> role, blocks |-> blocks, about |-> about]
Turns == Len(messages) \div 2

\* executor_node has not been entered yet.
LocalsInit ==
  /\ pc = "out"
  /\ strike = 0
  /\ feedback = NoVersion
  /\ log = 0
  /\ messages = <<>>
  /\ todo = 0
  /\ check = 0
  /\ edited = FALSE
  /\ entry = [tree |-> tree, attempts |-> attempts]
  /\ calls = 0

LoopInit == Init /\ LocalsInit

\* What executor_node leaves alone until it returns.
outer == <<config, node, supersteps, issue_analysis, active_ticket, history,
           verdict, budget, checked, landed>>

-----------------------------------------------------------------------------
EnterExecutor_Bug ==  \* every visit gets a fresh set of strikes
  /\ pc = "out" /\ node = "executor" /\ ~mock
  /\ pc' = "loop"
  /\ strike' = 0
  /\ feedback' = validation_diagnosis
  /\ log' = attempt_log
  /\ entry' = [tree |-> tree, attempts |-> attempts]
  /\ UNCHANGED <<vars, conversation, calls>>

EnterStale_Bug ==  \* keeps the feedback of the previous visit
  /\ pc = "out" /\ node = "executor" /\ ~mock
  /\ pc' = "loop"
  /\ strike' = strike_count
  /\ log' = attempt_log
  /\ entry' = [tree |-> tree, attempts |-> attempts]
  /\ UNCHANGED <<vars, feedback, conversation, calls>>

(* executor_node reads the state once, before the loop. *)
EnterExecutor ==
  /\ pc = "out" /\ node = "executor" /\ ~mock
  /\ pc' = "loop"
  /\ strike' = strike_count
  /\ feedback' = validation_diagnosis
  /\ log' = attempt_log
  /\ entry' = [tree |-> tree, attempts |-> attempts]
  /\ UNCHANGED <<vars, conversation, calls>>

(* The next strike opens a new conversation with the feedback in it. *)
BeginStrike ==
  /\ pc = "loop" /\ strike < MaxStrikes
  /\ strike' = strike + 1
  /\ attempts' = attempts + 1
  /\ messages' = <<Message("user", 0, feedback)>>
  /\ edited' = FALSE
  /\ pc' = "llm"
  /\ UNCHANGED <<outer, tree, feedback, log, todo, check, entry, calls>>

\* The conversation is over: its summary is logged and the checks start.
EndConversation ==
  /\ log' = log + 1
  /\ check' = 1
  /\ pc' = "check"

LlmAnswers_Bug ==  \* the answer is not kept in the conversation
  /\ pc = "llm" /\ Turns < MaxToolCalls
  /\ calls' = calls + 1
  /\ \E blocks \in 1 .. MaxBlocks : todo' = blocks
  /\ pc' = "tools"
  /\ UNCHANGED <<outer, tree, attempts, strike, feedback, log, messages, check, edited, entry>>

(* messages.create answers: finally, or with tool_use blocks to run. *)
LlmAnswers ==
  /\ pc = "llm" /\ Turns < MaxToolCalls
  /\ calls' = calls + 1
  /\ \/ /\ messages' = Append(messages, Message("assistant", 0, NoVersion))
        /\ EndConversation
        /\ UNCHANGED todo
     \/ \E blocks \in 1 .. MaxBlocks :
          /\ messages' = Append(messages, Message("assistant", blocks, NoVersion))
          /\ todo' = blocks
          /\ pc' = "tools"
          /\ UNCHANGED <<log, check>>
  /\ UNCHANGED <<outer, tree, attempts, strike, feedback, edited, entry>>

\* for _ in range(_MAX_TOOL_CALLS) is exhausted.
CapReached ==
  /\ pc = "llm" /\ Turns = MaxToolCalls
  /\ EndConversation
  /\ UNCHANGED <<outer, tree, attempts, strike, feedback, messages, todo, edited, entry, calls>>

\* A strike that changes the workspace at all makes a new version of it.
Edit == /\ edited' = TRUE
        /\ tree' = IF edited THEN tree ELSE tree + 1

NoEdit == UNCHANGED <<edited, tree>>

(* _run_tool, for one block: bash, create and str_replace may change the   *)
(* workspace; restart, view, a failed match, a missing file, an unknown    *)
(* tool or command change nothing and still yield a result.  After the     *)
(* last block the results go back as one user message.                     *)
RunTool ==
  /\ pc = "tools"
  /\ Edit \/ NoEdit
  /\ todo' = todo - 1
  /\ \/ /\ todo > 1
        /\ UNCHANGED <<messages, pc>>
     \/ /\ todo = 1
        /\ messages' = Append(messages, Message("user", messages[Len(messages)].blocks, NoVersion))
        /\ pc' = "llm"
  /\ UNCHANGED <<outer, attempts, strike, feedback, log, check, entry, calls>>

-----------------------------------------------------------------------------
\* executor_node returns: LangGraph applies the update and runs validator.
Return(status, diagnosis, lines) ==
  /\ Superstep("executor", "validator")
  /\ attempt_log' = lines
  /\ ticket_status' = status
  /\ strike_count' = strike
  /\ validation_diagnosis' = diagnosis
  /\ pc' = "out"
  /\ UNCHANGED <<issue_analysis, active_ticket, decision_ledger, last_validation_passed,
                 escalation_count, run_status, sandbox,
                 strike, feedback, log, conversation, entry, calls>>

\* A fast check exits 0, and there is another one.
FastCheckPasses ==
  /\ pc = "check" /\ check < FastCheckActions
  /\ check' = check + 1
  /\ UNCHANGED <<outer, tree, attempts, pc, strike, feedback, log, messages, todo, edited,
                 entry, calls>>

\* The last fast check exits 0: LOCAL_PASS.
StrikePasses ==
  /\ pc = "check" /\ check = FastCheckActions
  /\ Return("local_pass", NoVersion, log + 1)

\* A fast check fails: its output is the next strike's feedback.
StrikeFails ==
  /\ pc = "check"
  /\ log' = log + 1
  /\ feedback' = tree
  /\ pc' = "loop"
  /\ UNCHANGED <<outer, tree, attempts, strike, conversation, entry, calls>>

GiveUp_Bug ==  \* strike_count missing from the escalation's update
  /\ pc = "loop" /\ strike >= MaxStrikes
  /\ Superstep("executor", "validator")
  /\ attempt_log' = log
  /\ ticket_status' = "escalated"
  /\ pc' = "out"
  /\ UNCHANGED <<issue_analysis, active_ticket, decision_ledger, last_validation_passed,
                 validation_diagnosis, budget, sandbox,
                 strike, feedback, log, conversation, entry, calls>>

\* No strike is left: ESCALATED, and the diagnosis stays what it was.
GiveUp ==
  /\ pc = "loop" /\ strike >= MaxStrikes
  /\ Return("escalated", validation_diagnosis, log)

(* The LLM, a tool or a check raises (_run_tool turns only a missing file  *)
(* and a failed match into results).  A request whose answer was lost may  *)
(* have been carried out.                                                  *)
ExecutorRaises ==
  /\ \/ pc = "loop" /\ strike < MaxStrikes
     \/ pc = "llm" /\ Turns < MaxToolCalls
     \/ pc \in {"tools", "check"}
  /\ node' = "raised"
  /\ pc' = "out"
  /\ calls' = IF pc = "llm" THEN calls + 1 ELSE calls
  /\ NoEdit \/ (pc = "tools" /\ Edit)
  /\ UNCHANGED <<config, supersteps, issue_analysis, active_ticket, history, verdict, budget,
                 checked, landed, attempts, strike, feedback, log, messages, todo, check, entry>>

ExecutorStep ==
  \/ EnterExecutor
  \/ BeginStrike
  \/ LlmAnswers
  \/ CapReached
  \/ RunTool
  \/ FastCheckPasses
  \/ StrikePasses
  \/ StrikeFails
  \/ GiveUp
  \/ ExecutorRaises

\* Every other node, and the executor of a mock run, is one step.
OtherNode ==
  /\ pc = "out"
  /\ node = "executor" => mock
  /\ Next
  /\ UNCHANGED locals

LoopNext == ExecutorStep \/ OtherNode

\* Every awaited call returns or raises.
LoopSpec == LoopInit /\ [][LoopNext]_loopVars /\ WF_loopVars(LoopNext)

-----------------------------------------------------------------------------
\* However often the validator and git send the ticket back, one run makes at
\* most MaxStrikes * MaxToolCalls requests to the executor's model (the bound
\* docs/RUNNING_FOR_REAL.md gives under "Cost").
CallsBounded == calls <= MaxStrikes * MaxToolCalls

\* What the Messages API demands of a request: roles alternate, it ends with
\* the user's turn, and every tool_use is answered by a tool_result in the next
\* message -- whichever tools fail on the way.
ConversationWellFormed ==
  pc = "llm" =>
    /\ Turns <= MaxToolCalls
    /\ messages[Len(messages)].role = "user"
    /\ \A i \in 1 .. Len(messages) - 1 :
         /\ messages[i].role # messages[i + 1].role
         /\ messages[i].role = "assistant" =>
              messages[i].blocks > 0 /\ messages[i + 1].blocks = messages[i].blocks

\* A strike opens with feedback about the workspace it is going to edit, and
\* with some feedback unless it is the first one or follows a passed
\* validation (a git failure is reported to nobody).
StrikeStartsInformed ==
  pc = "loop" /\ strike < MaxStrikes =>
    /\ feedback \in {NoVersion, tree}
    /\ feedback = NoVersion => attempts = 0 \/ last_validation_passed

\* The opened executor implements the graph's one-step executor, fairness
\* included: its effects appear when it returns or raises, and not before.
Graph == INSTANCE SyndicateGraph WITH
  tree     <- IF pc = "out" THEN tree ELSE entry.tree,
  attempts <- IF pc = "out" THEN attempts ELSE entry.attempts
RefinesGraph == Graph!FairSpec
=============================================================================
