------------------------- MODULE ExecutorLoopProofs -------------------------
(***************************************************************************)
(* The opened executor, for every strike budget and every turn cap, and in *)
(* the last section what the scripted model is sent by it.                 *)
(*                                                                         *)
(* LoopInv joins two invariants that need each other: the graph's, read    *)
(* through the refinement mapping, and what executor_node's local          *)
(* variables mean while it is running.  The first says in which state the  *)
(* node is entered; the second, that what it returns is an update the      *)
(* graph's one-step executor could have made.                              *)
(***************************************************************************)
EXTENDS StubHarness, TLAPS

G == INSTANCE SyndicateGraphProofs WITH
  tree     <- IF pc = "out" THEN tree ELSE entry.tree,
  attempts <- IF pc = "out" THEN attempts ELSE entry.attempts

MessageType == [role : {"user", "assistant"}, blocks : Nat, about : Nat]
Messages == Seq(MessageType)

LocalsTyped ==
  /\ pc \in {"out", "loop", "llm", "tools", "check"}
  /\ strike \in Nat /\ feedback \in Nat /\ log \in Nat /\ calls \in Nat
  /\ messages \in Messages
  /\ todo \in Nat /\ check \in Nat
  /\ edited \in BOOLEAN
  /\ entry \in [tree : Nat \ {0}, attempts : Nat]

\* Strikes begun in this visit.
Begun == strike - strike_count

\* What a visit has done so far, in the terms of the update it will return: an
\* attempt and two lines per strike, and at most one new version of the
\* workspace, which is still to come as long as the strike has edited nothing.
Tally ==
  pc # "out" =>
    /\ node = "executor" /\ ~mock
    /\ strike \in strike_count .. MaxStrikes
    /\ pc # "loop" => Begun > 0
    /\ attempts = entry.attempts + Begun
    /\ tree \in entry.tree .. entry.tree + Begun
    /\ pc # "loop" /\ ~edited => tree < entry.tree + Begun
    /\ log = attempt_log + 2 * Begun
               - (CASE pc = "loop" -> 0 [] pc = "check" -> 1 [] OTHER -> 2)

\* User and assistant in turn, and the tools' results after the answer that
\* asked for them.
Paired(s) ==
  \A i \in 1 .. Len(s) - 1 :
    /\ s[i].role # s[i + 1].role
    /\ s[i].role = "assistant" => s[i].blocks > 0 /\ s[i + 1].blocks = s[i].blocks

\* The conversation of the strike, and the blocks still to be run.
Dialogue ==
  pc \in {"llm", "tools"} =>
    /\ Len(messages) = 2 * Turns + (IF pc = "llm" THEN 1 ELSE 0)
    /\ Len(messages) > 0
    /\ Turns <= MaxToolCalls
    /\ messages[Len(messages)].role = IF pc = "llm" THEN "user" ELSE "assistant"
    /\ Paired(messages)
    /\ pc = "tools" => todo \in 1 .. messages[Len(messages)].blocks

\* Requests that n strikes may cost.
Cap(n) == n * MaxToolCalls

\* Every request is paid for: by a turn of the conversation while it goes on, by
\* the strike after it.  A run that has raised has lost the strikes of the visit.
Bill ==
  /\ calls <= Cap(MaxStrikes)
  /\ pc = "out" /\ node # "raised" => calls <= Cap(strike_count)
  /\ pc \in {"loop", "check"} => calls <= Cap(strike)
  /\ pc \in {"llm", "tools"} => calls <= Cap(strike - 1) + Turns

\* What the next strike will be told.
Informed ==
  pc = "loop" =>
    /\ feedback \in {NoVersion, tree}
    /\ feedback = NoVersion => attempts = 0 \/ last_validation_passed

LoopInv == G!Inv /\ LocalsTyped /\ Tally /\ Dialogue /\ Bill /\ Informed

-----------------------------------------------------------------------------
(* Lemmas about the operators. *)

\* One more strike is worth MaxToolCalls more requests, and fewer strikes are
\* never worth more.
LEMMA CapFacts ==
  /\ \A n \in Nat : Cap(n) \in Nat /\ Cap(n + 1) = Cap(n) + MaxToolCalls
  /\ \A m, n \in Nat : m <= n => Cap(m) <= Cap(n)
<1>1. \A n \in Nat : Cap(n) \in Nat /\ Cap(n + 1) = Cap(n) + MaxToolCalls
  BY LoopAssumption DEF Cap
<1>2. \A m, n \in Nat : m <= n => Cap(m) <= Cap(n)
  BY LoopAssumption DEF Cap
<1> QED
  BY <1>1, <1>2

\* Two messages make a turn, and a user message without an answer none.
LEMMA TurnsFacts ==
  /\ \A s \in Messages : Len(s) \in Nat /\ Len(s) \div 2 \in Nat
  /\ \A k \in Nat : (2 * k) \div 2 = k /\ (2 * k + 1) \div 2 = k
BY DEF Messages

\* A message that answers the last one continues the conversation.
LEMMA AppendPaired ==
  ASSUME NEW s \in Messages, NEW m \in MessageType, Len(s) > 0, Paired(s),
         s[Len(s)].role # m.role,
         s[Len(s)].role = "assistant" => s[Len(s)].blocks > 0 /\ m.blocks = s[Len(s)].blocks
  PROVE  Paired(Append(s, m))
<1> DEFINE t == Append(s, m)
<1>1. /\ Len(s) \in Nat /\ Len(t) = Len(s) + 1 /\ t[Len(s) + 1] = m
      /\ \A i \in 1 .. Len(s) : t[i] = s[i]
  BY DEF Messages
<1> HIDE DEF t
<1>2. ASSUME NEW i \in 1 .. Len(t) - 1
      PROVE  /\ t[i].role # t[i + 1].role
             /\ t[i].role = "assistant" => t[i].blocks > 0 /\ t[i + 1].blocks = t[i].blocks
  <2>1. CASE i = Len(s)
    BY <1>1, <2>1
  <2>2. CASE i < Len(s)
    <3>1. i \in 1 .. Len(s) - 1 /\ i + 1 \in 1 .. Len(s)
      BY <1>1, <2>2
    <3> QED
      BY <1>1, <3>1 DEF Paired
  <2> QED
    BY <1>1, <2>1, <2>2
<1> QED
  BY <1>2 DEF Paired, t

\* strike_count is never given back, and a run that has raised is over.
LEMMA StrikesGrow ==
  ASSUME strike_count \in Nat, MaxStrikes \in Nat, Next
  PROVE  /\ strike_count' \in Nat /\ strike_count' >= strike_count
         /\ node \notin {"end", "raised"}
BY DEF Next, AnalyzerNode, ArchitectNode, DispatchNode, ExecutorNode, ValidatorNode,
   OversightGitNode, EscalateNode, AdvanceNode, NodeRaises, Superstep, CallsLlm, budget,
   ExecutorMock, ExecutorPasses, ExecutorGivesUp, Strikes, ValidatorPasses, ValidatorFails,
   OversightNoFiles, OversightCommits, OversightStrikes

-----------------------------------------------------------------------------
(* What the graph sees of a step. *)

\* executor_node's own variables are nobody else's: as long as it runs, the
\* graph sees the workspace it was entered with.
LEMMA Unseen ==
  ASSUME pc' # "out", UNCHANGED outer,
         pc = "out" => /\ UNCHANGED <<tree, attempts>>
                       /\ entry' = [tree |-> tree, attempts |-> attempts],
         pc # "out" => UNCHANGED entry
  PROVE  UNCHANGED G!vars
BY DEF outer, config, history, verdict, budget,
       G!vars, G!config, G!history, G!verdict, G!budget, G!sandbox

\* The steps that stay inside executor_node, and the one that enters it.
Inside ==
  \/ EnterExecutor \/ BeginStrike \/ LlmAnswers \/ CapReached
  \/ RunTool \/ FastCheckPasses \/ StrikeFails

LEMMA InsideIsUnseen ==
  ASSUME Inside
  PROVE  UNCHANGED G!vars
<1> USE Unseen
<1>1. CASE EnterExecutor
  BY <1>1 DEF EnterExecutor, vars, config, history, verdict, budget, sandbox, outer
<1>2. CASE BeginStrike
  BY <1>2 DEF BeginStrike
<1>3. CASE LlmAnswers
  BY <1>3 DEF LlmAnswers, EndConversation
<1>4. CASE CapReached
  BY <1>4 DEF CapReached, EndConversation
<1>5. CASE RunTool
  BY <1>5 DEF RunTool
<1>6. CASE FastCheckPasses
  BY <1>6 DEF FastCheckPasses
<1>7. CASE StrikeFails
  BY <1>7 DEF StrikeFails
<1> QED
  BY <1>1, <1>2, <1>3, <1>4, <1>5, <1>6, <1>7 DEF Inside

\* Return's update is the one the graph's executor makes for the strikes begun.
LEMMA ReturnIsExecutor ==
  ASSUME LocalsTyped, Tally, pc # "out", strike_count \in Nat, attempt_log \in Nat,
         NEW status, NEW diagnosis, NEW lines, Return(status, diagnosis, lines),
         lines = attempt_log + 2 * Begun
  PROVE  /\ G!Superstep("executor", "validator")
         /\ Begun \in Nat /\ strike = strike_count + Begun
         /\ G!Strikes(Begun)
         /\ ticket_status' = status /\ validation_diagnosis' = diagnosis
         /\ UNCHANGED <<issue_analysis, active_ticket, decision_ledger,
                        last_validation_passed, escalation_count, run_status, checked, landed>>
<1>1. Begun \in Nat /\ strike = strike_count + Begun
  BY DEF LocalsTyped, Tally, Begun
<1>2. \E edits \in 0 .. Begun : tree = entry.tree + edits
  <2>1. tree - entry.tree \in 0 .. Begun /\ tree = entry.tree + (tree - entry.tree)
    BY <1>1 DEF LocalsTyped, Tally
  <2> QED
    BY <2>1
<1>3. G!Strikes(Begun)
  BY <1>1, <1>2 DEF Return, sandbox, Tally, G!Strikes
<1> QED
  BY <1>1, <1>3 DEF Return, Superstep, config, G!Superstep, G!config, sandbox

LEMMA StrikePassesIsExecutor ==
  ASSUME LocalsTyped, Tally, StrikePasses, strike_count \in Nat, attempt_log \in Nat
  PROVE  G!Next
<1>1. pc = "check" /\ Return("local_pass", NoVersion, log + 1)
  BY DEF StrikePasses
<1>2. log + 1 = attempt_log + 2 * Begun
  BY <1>1, BudgetAssumption DEF LocalsTyped, Tally, Begun
<1>3. Begun \in 1 .. (MaxStrikes - strike_count)
  BY <1>1, BudgetAssumption DEF LocalsTyped, Tally, Begun
<1>4. G!ExecutorPasses
  BY <1>1, <1>2, <1>3, ReturnIsExecutor DEF G!ExecutorPasses, NoVersion, G!NoVersion
<1> QED
  BY <1>1, <1>2, <1>4, ReturnIsExecutor DEF G!Next, G!ExecutorNode

LEMMA GiveUpIsExecutor ==
  ASSUME LocalsTyped, Tally, GiveUp, strike_count \in Nat, attempt_log \in Nat
  PROVE  G!Next
<1>1. pc = "loop" /\ Return("escalated", validation_diagnosis, log)
  BY DEF GiveUp
<1>2. log = attempt_log + 2 * Begun
  BY <1>1, BudgetAssumption DEF LocalsTyped, Tally, Begun
<1>3. Begun = IF strike_count < MaxStrikes THEN MaxStrikes - strike_count ELSE 0
  BY <1>1, BudgetAssumption DEF GiveUp, LocalsTyped, Tally, Begun
<1>4. G!ExecutorGivesUp
  BY <1>1, <1>2, <1>3, ReturnIsExecutor DEF G!ExecutorGivesUp
<1> QED
  BY <1>1, <1>2, <1>4, ReturnIsExecutor DEF G!Next, G!ExecutorNode

LEMMA ExecutorRaisesIsNodeRaises ==
  ASSUME LocalsTyped, Tally, ExecutorRaises, strike_count \in Nat
  PROVE  G!Next
<1>1. pc \in {"loop", "llm", "tools", "check"} /\ node = "executor" /\ ~mock
  BY DEF ExecutorRaises, Tally
<1>2. Begun \in 0 .. (MaxStrikes - strike_count) /\ attempts = entry.attempts + Begun
  BY <1>1, BudgetAssumption DEF LocalsTyped, Tally, Begun
<1>3. tree' \in entry.tree .. entry.tree + Begun
  BY <1>1, <1>2 DEF ExecutorRaises, LocalsTyped, Tally, Edit, NoEdit
<1>4. \E edits \in 0 .. Begun : tree' = entry.tree + edits
  <2>1. tree' - entry.tree \in 0 .. Begun /\ tree' = entry.tree + (tree' - entry.tree)
    BY <1>2, <1>3 DEF LocalsTyped
  <2> QED
    BY <2>1
<1>5. G!NodeRaises
  BY <1>1, <1>2, <1>4 DEF ExecutorRaises, config, history, verdict, budget,
     G!NodeRaises, G!config, G!history, G!verdict, G!budget
<1> QED
  BY <1>5 DEF G!Next

\* The other nodes do not look inside: their steps are the graph's own.
LEMMA OtherIsNext ==
  ASSUME OtherNode
  PROVE  G!Next
<1>1. pc = "out" /\ pc' = "out" /\ Next
  BY DEF OtherNode, locals
<1> USE <1>1 DEF Superstep, config, history, verdict, budget, sandbox,
    G!Superstep, G!config, G!history, G!verdict, G!budget, G!sandbox
<1>2. AnalyzerNode => G!AnalyzerNode
  BY DEF AnalyzerNode, StubTicket, G!AnalyzerNode, G!StubTicket
<1>3. ArchitectNode => G!ArchitectNode
  BY DEF ArchitectNode, DetectedCommands, G!ArchitectNode, G!DetectedCommands
<1>4. DispatchNode => G!DispatchNode
  BY DEF DispatchNode, dispatch_router, G!DispatchNode, G!dispatch_router
<1>5. ExecutorNode => G!ExecutorNode
  BY DEF ExecutorNode, ExecutorMock, ExecutorPasses, ExecutorGivesUp, Strikes,
     NoVersion, G!ExecutorNode, G!ExecutorMock, G!ExecutorPasses, G!ExecutorGivesUp,
     G!Strikes, G!NoVersion
<1>6. ValidatorNode => G!ValidatorNode
  BY DEF ValidatorNode, ValidatorPasses, ValidatorFails, validator_router,
     NoVersion, G!ValidatorNode, G!ValidatorPasses, G!ValidatorFails,
     G!validator_router, G!NoVersion
<1>7. OversightGitNode => G!OversightGitNode
  BY DEF OversightGitNode, OversightNoFiles, OversightCommits, OversightStrikes,
     SetupLines, oversight_git_router, G!OversightGitNode, G!OversightNoFiles,
     G!OversightCommits, G!OversightStrikes, G!SetupLines, G!oversight_git_router
<1>8. EscalateNode => G!EscalateNode
  BY DEF EscalateNode, G!EscalateNode
<1>9. AdvanceNode => G!AdvanceNode
  BY DEF AdvanceNode, G!AdvanceNode
<1>10. NodeRaises => G!NodeRaises
  BY DEF NodeRaises, CallsLlm, G!NodeRaises, G!CallsLlm
<1> QED
  BY <1>2, <1>3, <1>4, <1>5, <1>6, <1>7, <1>8, <1>9, <1>10 DEF Next, G!Next

\* Every step of the opened executor is a step of the graph, or none.
LEMMA StepMaps ==
  ASSUME G!Inv, LocalsTyped, Tally, [LoopNext]_loopVars
  PROVE  [G!Next]_(G!vars)
<1>1. strike_count \in Nat /\ attempt_log \in Nat
  BY DEF G!Inv, G!TypeOK
<1>2. CASE Inside
  BY <1>2, InsideIsUnseen
<1>3. CASE StrikePasses
  BY <1>1, <1>3, StrikePassesIsExecutor
<1>4. CASE GiveUp
  BY <1>1, <1>4, GiveUpIsExecutor
<1>5. CASE ExecutorRaises
  BY <1>1, <1>5, ExecutorRaisesIsNodeRaises
<1>6. CASE OtherNode
  BY <1>6, OtherIsNext
<1>7. CASE UNCHANGED loopVars
  BY <1>7 DEF loopVars, locals, vars, config, history, verdict, budget, sandbox,
     G!vars, G!config, G!history, G!verdict, G!budget, G!sandbox
<1> QED
  BY <1>2, <1>3, <1>4, <1>5, <1>6, <1>7 DEF LoopNext, ExecutorStep, Inside

-----------------------------------------------------------------------------
(* Every step keeps what the local variables mean. *)

Local == LocalsTyped /\ Tally /\ Dialogue /\ Bill /\ Informed

\* The numbers of a running visit.
LEMMA Accounts ==
  ASSUME LoopInv, pc # "out"
  PROVE  /\ strike_count \in Nat /\ attempt_log \in Nat
         /\ strike \in strike_count .. MaxStrikes
         /\ Begun \in Nat
         /\ pc # "loop" => Begun > 0 /\ strike - 1 \in Nat /\ strike = (strike - 1) + 1
         /\ entry.tree \in Nat \ {0} /\ tree \in Nat \ {0}
<1>1. /\ strike_count \in Nat /\ attempt_log \in Nat
  BY DEF LoopInv, G!Inv, G!TypeOK
<1>2. entry.tree \in Nat \ {0}
  BY DEF LoopInv, LocalsTyped
<1>3. strike \in strike_count .. MaxStrikes /\ (pc # "loop" => Begun > 0)
      /\ tree \in entry.tree .. entry.tree + Begun
  BY DEF LoopInv, Tally
<1>4. Begun \in Nat /\ (Begun > 0 => strike - 1 \in Nat /\ strike = (strike - 1) + 1)
  BY <1>1, <1>3, BudgetAssumption DEF Begun
<1> QED
  BY <1>1, <1>2, <1>3, <1>4

\* The node is entered with the strikes that are left and a fresh diagnosis.
LEMMA EnterStep ==
  ASSUME LoopInv, EnterExecutor
  PROVE  Local'
<1> USE DEF LoopInv, EnterExecutor
<1>1. /\ UNCHANGED <<node, mock, tree, attempts, strike_count, attempt_log, last_validation_passed>>
      /\ strike_count \in 0 .. MaxStrikes /\ attempt_log \in Nat /\ tree \in Nat \ {0}
      /\ attempts \in Nat /\ validation_diagnosis \in Nat /\ G!FreshFeedback
  BY BudgetAssumption DEF vars, config, history, verdict, budget, sandbox,
     G!Inv, G!TypeOK, G!Strain, G!Feedback
<1>2. LocalsTyped'
  BY <1>1 DEF LocalsTyped, conversation
<1>3. Tally'
  BY <1>1 DEF LocalsTyped, Tally, Begun
<1>4. Dialogue'
  BY DEF Dialogue
<1>5. Bill'
  BY <1>1 DEF LocalsTyped, Bill
<1>6. Informed'
  BY <1>1 DEF Informed, G!FreshFeedback, NoVersion, G!NoVersion
<1> QED
  BY <1>2, <1>3, <1>4, <1>5, <1>6 DEF Local

\* A strike begins with one user message.
LEMMA BeginStep ==
  ASSUME LoopInv, BeginStrike
  PROVE  Local'
<1>1. /\ strike \in Nat /\ strike < MaxStrikes /\ strike_count \in Nat /\ attempt_log \in Nat
      /\ feedback \in Nat /\ log \in Nat /\ calls \in Nat /\ pc = "loop"
      /\ UNCHANGED <<node, mock, strike_count, attempt_log, feedback, log, todo, check,
                     entry, calls, tree>>
      /\ strike' = strike + 1 /\ attempts' = attempts + 1 /\ edited' = FALSE /\ pc' = "llm"
      /\ messages' = <<Message("user", 0, feedback)>>
  BY DEF BeginStrike, LoopInv, outer, config, budget, history, LocalsTyped, G!Inv, G!TypeOK
<1>2. LocalsTyped'
  <2>1. messages' \in Messages
    BY <1>1 DEF Message, MessageType, Messages
  <2>2. edited' \in BOOLEAN
    BY <1>1
  <2> QED
    BY <1>1, <2>1, <2>2 DEF LoopInv, LocalsTyped
<1>3. Tally'
  BY <1>1, BudgetAssumption DEF LoopInv, LocalsTyped, Tally, Begun
<1>4. Len(messages') = 1 /\ Turns' = 0
  BY <1>1, TurnsFacts DEF Turns
<1>5. Dialogue'
  BY <1>1, <1>4, LoopAssumption DEF Dialogue, Paired, Message
<1>6. Bill'
  <2>1. strike' - 1 = strike
    BY <1>1
  <2>2. Cap(strike' - 1) = Cap(strike) /\ Cap(strike) \in Nat
    BY <1>1, <2>1, CapFacts
  <2> QED
    BY <1>1, <1>4, <2>2 DEF LoopInv, Bill
<1>7. Informed'
  BY <1>1 DEF Informed
<1> QED
  BY <1>2, <1>3, <1>5, <1>6, <1>7 DEF Local

\* An answer is a turn, and one more request to pay for.
LEMMA AnswerStep ==
  ASSUME LoopInv, LlmAnswers
  PROVE  Local'
<1>1. /\ pc = "llm" /\ Turns \in Nat /\ Turns < MaxToolCalls
      /\ strike \in Nat /\ strike_count \in Nat /\ log \in Nat /\ calls \in Nat
      /\ attempt_log \in Nat
      /\ UNCHANGED <<node, mock, strike_count, attempt_log, tree, attempts, strike, feedback,
                     edited, entry>>
      /\ calls' = calls + 1
  BY TurnsFacts DEF LoopInv, LlmAnswers, outer, config, budget, history, LocalsTyped, Turns,
     G!Inv, G!TypeOK
<1>2. strike \in 1 .. MaxStrikes
  BY <1>1, BudgetAssumption DEF LoopInv, Tally, Begun
<1>3. PICK blocks \in 0 .. MaxBlocks :
        /\ messages' = Append(messages, Message("assistant", blocks, NoVersion))
        /\ \/ /\ blocks = 0 /\ log' = log + 1 /\ check' = 1 /\ pc' = "check"
              /\ UNCHANGED todo
           \/ blocks > 0 /\ todo' = blocks /\ pc' = "tools" /\ UNCHANGED <<log, check>>
  BY LoopAssumption DEF LlmAnswers, EndConversation
<1> DEFINE m == Message("assistant", blocks, NoVersion)
<1>4. /\ m \in MessageType /\ m.role = "assistant" /\ m.blocks = blocks
      /\ messages \in Messages /\ messages' \in Messages
      /\ Len(messages') = Len(messages) + 1 /\ messages'[Len(messages')] = m
  BY <1>3, LoopAssumption
  DEF LoopInv, LocalsTyped, Messages, MessageType, Message, NoVersion
<1> HIDE DEF m
<1>5. /\ Len(messages) = 2 * Turns + 1 /\ Len(messages') = 2 * (Turns + 1)
      /\ Turns' = Turns + 1
  <2>1. Len(messages) = 2 * Turns + 1
    BY <1>1 DEF LoopInv, Dialogue
  <2>2. Len(messages') = 2 * (Turns + 1)
    BY <1>1, <1>4, <2>1
  <2>3. (2 * (Turns + 1)) \div 2 = Turns + 1
    BY <1>1, TurnsFacts
  <2>4. Turns' = Len(messages') \div 2
    BY DEF Turns
  <2> QED
    BY <2>1, <2>2, <2>3, <2>4
<1>6. LocalsTyped'
  BY <1>1, <1>3, <1>4, LoopAssumption DEF LoopInv, LocalsTyped
<1>7. Tally'
  BY <1>1, <1>2, <1>3 DEF LoopInv, Tally, Begun
<1>8. Dialogue'
  <2> SUFFICES ASSUME pc' = "tools" PROVE Dialogue'
    BY <1>3 DEF Dialogue
  <2>1. Paired(messages')
    BY <1>1, <1>3, <1>4, AppendPaired DEF LoopInv, Dialogue, m
  <2>2. /\ Len(messages') = 2 * Turns' /\ Len(messages') > 0 /\ Turns' <= MaxToolCalls
        /\ todo' \in 1 .. blocks
    BY <1>1, <1>3, <1>5, LoopAssumption
  <2> HIDE DEF Turns
  <2> QED
    BY <1>4, <2>1, <2>2 DEF Dialogue
<1>9. Bill'
  <2>1. /\ Cap(strike) = Cap(strike - 1) + MaxToolCalls /\ Cap(strike - 1) \in Nat
        /\ Cap(strike) <= Cap(MaxStrikes) /\ Cap(MaxStrikes) \in Nat
    <3>1. strike - 1 \in Nat /\ strike = (strike - 1) + 1 /\ strike <= MaxStrikes
      BY <1>2
    <3> QED
      BY <1>1, <3>1, CapFacts, BudgetAssumption
  <2> QED
    BY <1>1, <1>3, <1>5, <2>1, LoopAssumption DEF LoopInv, Bill
<1>10. Informed'
  BY <1>3 DEF Informed
<1> QED
  BY <1>6, <1>7, <1>8, <1>9, <1>10 DEF Local

\* The turn cap: every turn of the conversation has been paid for.
LEMMA CapStep ==
  ASSUME LoopInv, CapReached
  PROVE  Local'
<1>1. /\ pc = "llm" /\ pc' = "check" /\ Turns = MaxToolCalls /\ log' = log + 1 /\ check' = 1
      /\ strike \in Nat /\ strike_count \in Nat /\ attempt_log \in Nat /\ log \in Nat
      /\ UNCHANGED <<node, mock, strike_count, attempt_log, tree, attempts, strike, feedback,
                     messages, todo, edited, entry, calls>>
  BY DEF LoopInv, CapReached, EndConversation, outer, config, budget, history, LocalsTyped,
     G!Inv, G!TypeOK
<1>2. strike \in 1 .. MaxStrikes
  BY <1>1, BudgetAssumption DEF LoopInv, Tally, Begun
<1>3. LocalsTyped'
  BY <1>1 DEF LoopInv, LocalsTyped
<1>4. Tally'
  BY <1>1, <1>2 DEF LoopInv, Tally, Begun
<1>5. Dialogue'
  BY <1>1 DEF Dialogue
<1>6. Bill'
  <2>1. strike - 1 \in Nat /\ strike = (strike - 1) + 1
    BY <1>2
  <2>2. Cap(strike) = Cap(strike - 1) + MaxToolCalls
    BY <2>1, CapFacts
  <2> QED
    BY <1>1, <2>2 DEF LoopInv, Bill
<1>7. Informed'
  BY <1>1 DEF Informed
<1> QED
  BY <1>3, <1>4, <1>5, <1>6, <1>7 DEF Local

\* A tool edits the workspace at most once per strike's tally; after the last
\* one the results are handed back.
LEMMA ToolStep ==
  ASSUME LoopInv, RunTool
  PROVE  Local'
<1>1. /\ pc = "tools" /\ todo' = todo - 1
      /\ strike \in Nat /\ strike_count \in Nat /\ attempt_log \in Nat /\ Turns \in Nat
      /\ todo \in 1 .. messages[Len(messages)].blocks
      /\ messages \in Messages /\ Len(messages) \in Nat \ {0}
      /\ Len(messages) = 2 * Turns /\ Turns <= MaxToolCalls
      /\ UNCHANGED <<node, mock, strike_count, attempt_log, attempts, strike, feedback,
                     log, check, entry, calls>>
  BY TurnsFacts DEF LoopInv, RunTool, outer, config, budget, history, LocalsTyped, Dialogue,
     Turns, G!Inv, G!TypeOK
<1>2. Edit \/ NoEdit
  BY DEF RunTool
<1> DEFINE last == messages[Len(messages)]
           m == Message("user", last.blocks, NoVersion)
<1>3. /\ last \in MessageType /\ last.role = "assistant" /\ last.blocks > 0
      /\ m \in MessageType /\ m.role = "user" /\ m.blocks = last.blocks
  <2>1. last \in MessageType /\ last.role = "assistant"
    BY <1>1 DEF Messages, LoopInv, Dialogue
  <2>2. last.blocks > 0 /\ last.blocks \in Nat
    BY <1>1, <2>1 DEF MessageType
  <2> QED
    BY <2>1, <2>2 DEF MessageType, Message, NoVersion
<1>4. \/ todo > 1 /\ messages' = messages /\ pc' = "tools"
      \/ todo = 1 /\ messages' = Append(messages, m) /\ pc' = "llm"
  BY <1>1 DEF RunTool
<1> HIDE DEF m
<1>5. messages' \in Messages
  BY <1>1, <1>3, <1>4 DEF Messages
<1>6. LocalsTyped'
  <2>1. edited' \in BOOLEAN
    BY <1>2 DEF LoopInv, LocalsTyped, Edit, NoEdit
  <2>2. todo' \in Nat
    BY <1>1, <1>3 DEF MessageType
  <2> QED
    BY <1>1, <1>4, <1>5, <2>1, <2>2 DEF LoopInv, LocalsTyped
<1>7. Tally'
  <2>1. entry.tree \in Nat /\ tree \in Nat /\ Begun \in Nat
    BY <1>1, Accounts
  <2>2. /\ tree' \in entry.tree .. entry.tree + Begun
        /\ ~edited' => tree' < entry.tree + Begun
    <3>1. CASE Edit
      BY <1>1, <2>1, <3>1 DEF LoopInv, Tally, Edit
    <3>2. CASE NoEdit
      BY <1>1, <2>1, <3>2 DEF LoopInv, Tally, NoEdit
    <3> QED
      BY <1>2, <3>1, <3>2
  <2>3. Begun' = Begun
    BY <1>1 DEF Begun
  <2> QED
    BY <1>1, <1>4, <2>1, <2>2, <2>3 DEF LoopInv, Tally
<1>8. Turns' = Turns
  <2>1. CASE messages' = messages
    BY <2>1 DEF Turns
  <2>2. CASE messages' = Append(messages, m)
    <3>1. Len(messages') = 2 * Turns + 1
      BY <1>1, <2>2 DEF Messages
    <3>2. Turns' = Len(messages') \div 2
      BY DEF Turns
    <3> QED
      BY <1>1, <3>1, <3>2, TurnsFacts
  <2> QED
    BY <1>4, <2>1, <2>2
<1>9. Dialogue'
  <2>1. CASE messages' = messages /\ pc' = "tools"
    <3>1. todo' \in 1 .. last.blocks
      BY <1>1, <1>3, <1>4, <2>1 DEF MessageType
    <3> QED
      BY <1>1, <2>1, <3>1 DEF LoopInv, Dialogue, Turns
  <2>2. CASE messages' = Append(messages, m) /\ pc' = "llm"
    <3>1. Paired(messages')
      BY <1>1, <1>3, <2>2, AppendPaired DEF LoopInv, Dialogue
    <3>2. Len(messages') = 2 * Turns + 1 /\ messages'[Len(messages')] = m
      BY <1>1, <2>2 DEF Messages
    <3> HIDE DEF Turns
    <3> QED
      BY <1>1, <1>3, <2>2, <3>1, <3>2, <1>8 DEF Dialogue
  <2> QED
    BY <1>4, <2>1, <2>2
<1>10. Bill'
  BY <1>1, <1>4, <1>8 DEF LoopInv, Bill
<1>11. Informed'
  BY <1>4 DEF Informed
<1> QED
  BY <1>6, <1>7, <1>9, <1>10, <1>11 DEF Local

\* The fast checks: one more, or the end of the strike.
LEMMA CheckStep ==
  ASSUME LoopInv, FastCheckPasses \/ StrikeFails
  PROVE  Local'
<1>1. /\ pc = "check"
      /\ strike \in Nat /\ strike_count \in Nat /\ attempt_log \in Nat /\ log \in Nat
      /\ tree \in Nat \ {0}
      /\ UNCHANGED <<node, mock, strike_count, attempt_log, tree, attempts, strike, messages,
                     todo, edited, entry, calls>>
  <2>1. tree \in Nat \ {0}
    BY Accounts DEF FastCheckPasses, StrikeFails
  <2> QED
    BY <2>1 DEF LoopInv, FastCheckPasses, StrikeFails, conversation, outer, config, budget,
       history, LocalsTyped, G!Inv, G!TypeOK
<1>2. \/ pc' = "check" /\ check' = check + 1 /\ log' = log /\ feedback' = feedback
      \/ pc' = "loop" /\ check' = check /\ log' = log + 1 /\ feedback' = tree
  BY DEF FastCheckPasses, StrikeFails, conversation
<1>3. LocalsTyped'
  BY <1>1, <1>2 DEF LoopInv, LocalsTyped
<1>4. Tally'
  BY <1>1, <1>2 DEF LoopInv, Tally, Begun
<1>5. Dialogue'
  BY <1>2 DEF Dialogue
<1>6. Bill'
  BY <1>1, <1>2 DEF LoopInv, Bill
<1>7. Informed'
  BY <1>1, <1>2 DEF Informed, NoVersion
<1> QED
  BY <1>3, <1>4, <1>5, <1>6, <1>7 DEF Local

\* executor_node returns: the strikes it reports have paid for the requests.
LEMMA ReturnStep ==
  ASSUME LoopInv, StrikePasses \/ GiveUp
  PROVE  Local'
<1>1. /\ pc \in {"loop", "check"} /\ pc' = "out" /\ strike_count' = strike
      /\ UNCHANGED <<strike, feedback, log, messages, todo, check, edited, entry, calls>>
  BY DEF StrikePasses, GiveUp, Return, conversation
<1>2. LocalsTyped'
  BY <1>1 DEF LoopInv, LocalsTyped
<1>3. Tally'
  BY <1>1 DEF Tally
<1>4. Dialogue'
  BY <1>1 DEF Dialogue
<1>5. Bill'
  BY <1>1 DEF LoopInv, Bill
<1>6. Informed'
  BY <1>1 DEF Informed
<1> QED
  BY <1>2, <1>3, <1>4, <1>5, <1>6 DEF Local

\* An exception: the run is over, and the request that was lost had been paid
\* for by the strike it belonged to.
LEMMA RaiseStep ==
  ASSUME LoopInv, ExecutorRaises
  PROVE  Local'
<1>1. /\ pc \in {"loop", "llm", "tools", "check"} /\ pc' = "out" /\ node' = "raised"
      /\ calls \in Nat /\ strike \in Nat /\ Turns \in Nat
      /\ calls' = IF pc = "llm" THEN calls + 1 ELSE calls
      /\ pc = "llm" => Turns < MaxToolCalls
      /\ UNCHANGED <<strike, feedback, log, messages, todo, check, entry>>
  BY TurnsFacts DEF LoopInv, ExecutorRaises, LocalsTyped, Turns
<1>2. LocalsTyped'
  <2>1. edited' \in BOOLEAN
    BY DEF LoopInv, LocalsTyped, ExecutorRaises, Edit, NoEdit
  <2> QED
    BY <1>1, <2>1 DEF LoopInv, LocalsTyped
<1>3. Tally'
  BY <1>1 DEF Tally
<1>4. Dialogue'
  BY <1>1 DEF Dialogue
<1>5. calls' <= Cap(MaxStrikes)
  <2>1. CASE pc = "llm"
    <3>1. strike - 1 \in Nat /\ strike = (strike - 1) + 1 /\ strike <= MaxStrikes
      BY <1>1, <2>1, Accounts, BudgetAssumption
    <3>2. /\ Cap(strike - 1) \in Nat /\ Cap(strike) = Cap(strike - 1) + MaxToolCalls
          /\ Cap(strike) <= Cap(MaxStrikes) /\ Cap(MaxStrikes) \in Nat
      BY <1>1, <3>1, CapFacts, BudgetAssumption
    <3> QED
      BY <1>1, <2>1, <3>2, LoopAssumption DEF LoopInv, Bill
  <2>2. CASE pc # "llm"
    BY <1>1, <2>2 DEF LoopInv, Bill
  <2> QED
    BY <2>1, <2>2
<1>6. Bill'
  BY <1>1, <1>5 DEF Bill
<1>7. Informed'
  BY <1>1 DEF Informed
<1> QED
  BY <1>2, <1>3, <1>4, <1>6, <1>7 DEF Local

\* The other nodes: strikes are only added, so the requests stay paid for.
LEMMA OtherStep ==
  ASSUME LoopInv, OtherNode
  PROVE  Local'
<1>1. pc = "out" /\ Next /\ strike_count \in Nat /\ calls \in Nat
      /\ UNCHANGED <<pc, strike, feedback, log, messages, todo, check, edited, entry, calls>>
  BY DEF OtherNode, locals, conversation, LoopInv, LocalsTyped, G!Inv, G!TypeOK
<1>2. LocalsTyped'
  BY <1>1 DEF LoopInv, LocalsTyped
<1>3. Tally' /\ Dialogue' /\ Informed'
  BY <1>1 DEF Tally, Dialogue, Informed
<1>4. Bill'
  <2>1. node # "raised" /\ strike_count' >= strike_count /\ strike_count' \in Nat
    BY <1>1, StrikesGrow, BudgetAssumption
  <2>2. calls <= Cap(strike_count) /\ Cap(strike_count) \in Nat
    BY <1>1, <2>1, CapFacts DEF LoopInv, Bill
  <2>3. Cap(strike_count) <= Cap(strike_count') /\ Cap(strike_count') \in Nat
    BY <1>1, <2>1, CapFacts
  <2> QED
    BY <1>1, <2>2, <2>3 DEF LoopInv, Bill
<1> QED
  BY <1>2, <1>3, <1>4 DEF Local

-----------------------------------------------------------------------------
(* The invariant, and what follows from it. *)

LEMMA LoopStart ==
  ASSUME LoopInit
  PROVE  LoopInv /\ G!Init
<1>1. pc = "out" /\ Init /\ LocalsInit
  BY DEF LoopInit, LocalsInit
<1>2. G!Init
  BY <1>1 DEF Init, Fresh, EntryTickets, NoTicket, ServerTicket, SmokeTicket, NoVersion,
     G!Init, G!Fresh, G!EntryTickets, G!NoTicket, G!ServerTicket, G!SmokeTicket, G!NoVersion
<1>3. G!Inv
  BY <1>2, G!StartKeepsInv, BudgetAssumption
<1>4. LocalsTyped
  <2>1. tree = 1 /\ attempts = 0
    BY <1>1 DEF Init, Fresh
  <2>2. entry \in [tree : Nat \ {0}, attempts : Nat] /\ messages \in Messages
    BY <1>1, <2>1 DEF LocalsInit, Messages
  <2>3. edited \in BOOLEAN
    BY <1>1 DEF LocalsInit
  <2> QED
    BY <1>1, <2>2, <2>3 DEF LocalsInit, LocalsTyped, NoVersion
<1>5. Tally /\ Dialogue /\ Informed
  BY <1>1 DEF Tally, Dialogue, Informed
<1>6. Bill
  BY <1>1, CapFacts, BudgetAssumption DEF Init, Fresh, LocalsInit, Bill
<1> QED
  BY <1>2, <1>3, <1>4, <1>5, <1>6 DEF LoopInv

LEMMA LoopStepKeepsInv ==
  ASSUME LoopInv, [LoopNext]_loopVars
  PROVE  LoopInv' /\ [G!Next]_(G!vars)
<1>1. [G!Next]_(G!vars)
  BY StepMaps DEF LoopInv
<1>2. G!Inv'
  BY <1>1, G!StepKeepsInv, BudgetAssumption DEF LoopInv
<1>3. Local'
  <2>1. CASE EnterExecutor
    BY <2>1, EnterStep
  <2>2. CASE BeginStrike
    BY <2>2, BeginStep
  <2>3. CASE LlmAnswers
    BY <2>3, AnswerStep
  <2>4. CASE CapReached
    BY <2>4, CapStep
  <2>5. CASE RunTool
    BY <2>5, ToolStep
  <2>6. CASE FastCheckPasses \/ StrikeFails
    BY <2>6, CheckStep
  <2>7. CASE StrikePasses \/ GiveUp
    BY <2>7, ReturnStep
  <2>8. CASE ExecutorRaises
    BY <2>8, RaiseStep
  <2>9. CASE OtherNode
    BY <2>9, OtherStep
  <2>10. CASE UNCHANGED loopVars
    BY <2>10 DEF loopVars, vars, config, history, verdict, budget, sandbox, locals,
       conversation, LoopInv, Local, LocalsTyped, Tally, Begun, Dialogue, Turns, Bill, Informed
  <2> QED
    BY <2>1, <2>2, <2>3, <2>4, <2>5, <2>6, <2>7, <2>8, <2>9, <2>10 DEF LoopNext, ExecutorStep
<1> QED
  BY <1>1, <1>2, <1>3 DEF Local, LoopInv

\* Whatever the model, the tools and the checks answer, and wherever an
\* exception strikes, executor_node's local variables mean what LoopInv says.
THEOREM LoopInvariance == LoopSpec => []LoopInv
<1>1. LoopInit => LoopInv
  BY LoopStart
<1>2. LoopInv /\ [LoopNext]_loopVars => LoopInv'
  BY LoopStepKeepsInv
<1> QED
  BY <1>1, <1>2, PTL DEF LoopSpec

\* The opened executor implements the graph's one-step executor, for every turn
\* cap: nothing it does shows before it returns or raises, and what it returns is
\* an update SyndicateGraph allows.  (Fairness is left to the run.)
THEOREM LoopRefinesGraph == LoopSpec => Graph!Spec
<1>1. LoopInit => Graph!Init
  <2>1. LoopInit => G!Init
    BY LoopStart
  <2>2. G!Init => Graph!Init
    BY DEF Graph!Init, Graph!Fresh, Graph!EntryTickets, Graph!NoTicket, Graph!ServerTicket,
       Graph!SmokeTicket, Graph!NoVersion,
       G!Init, G!Fresh, G!EntryTickets, G!NoTicket, G!ServerTicket, G!SmokeTicket, G!NoVersion
  <2> QED
    BY <2>1, <2>2
<1>2. [G!Next]_(G!vars) => [Graph!Next]_(Graph!vars)
  BY DEF G!AdvanceNode, G!AnalyzerNode, G!ArchitectNode, G!CallsLlm, G!DetectedCommands,
     G!DispatchNode, G!EscalateNode, G!ExecutorGivesUp, G!ExecutorMock, G!ExecutorNode,
     G!ExecutorPasses, G!NodeRaises, G!OversightCommits, G!OversightGitNode,
     G!OversightNoFiles, G!OversightStrikes, G!SetupLines, G!StubTicket, G!Strikes,
     G!Superstep, G!ValidatorFails, G!ValidatorNode, G!ValidatorPasses, G!budget, G!config,
     G!dispatch_router, G!history, G!oversight_git_router, G!sandbox, G!validator_router,
     G!vars, G!verdict, G!NoVersion, G!Next, Graph!AdvanceNode, Graph!AnalyzerNode,
     Graph!ArchitectNode, Graph!CallsLlm, Graph!DetectedCommands, Graph!DispatchNode,
     Graph!EscalateNode, Graph!ExecutorGivesUp, Graph!ExecutorMock, Graph!ExecutorNode,
     Graph!ExecutorPasses, Graph!NodeRaises, Graph!OversightCommits, Graph!OversightGitNode,
     Graph!OversightNoFiles, Graph!OversightStrikes, Graph!SetupLines, Graph!StubTicket,
     Graph!Strikes, Graph!Superstep, Graph!ValidatorFails, Graph!ValidatorNode,
     Graph!ValidatorPasses, Graph!budget, Graph!config, Graph!dispatch_router,
     Graph!history, Graph!oversight_git_router, Graph!sandbox, Graph!validator_router,
     Graph!vars, Graph!verdict, Graph!NoVersion, Graph!Next
<1>3. LoopInv /\ [LoopNext]_loopVars => [Graph!Next]_(Graph!vars)
  BY <1>2, LoopStepKeepsInv
<1> QED
  BY <1>1, <1>3, LoopInvariance, PTL DEF LoopSpec, Graph!Spec

\* With every await of executor_node its own step, a run still keeps the promise
\* of TicketLifecycle: the attempts of a visit are made when it returns or raises,
\* within the budget, and whatever was good before them is judged anew.
THEOREM LoopKeepsPromise == LoopSpec => G!Promise!Lifecycle
<1>1. LoopInit => G!Promise!Opened /\ G!VerdictIsPast
  <2>1. LoopInit => G!Init
    BY LoopStart
  <2>2. G!Init => G!Promise!Opened /\ G!VerdictIsPast
    BY G!OpensPromise, G!StartsInThePast, BudgetAssumption
  <2> QED
    BY <2>1, <2>2
<1>2. LoopInv /\ LoopInv' /\ [LoopNext]_loopVars => G!Inv /\ G!Inv' /\ [G!Next]_(G!vars)
  BY LoopStepKeepsInv DEF LoopInv
<1>3. LoopInv /\ LoopInv' /\ G!VerdictIsPast /\ [LoopNext]_loopVars => G!VerdictIsPast'
  BY <1>2, G!StaysInThePast, BudgetAssumption
<1>4. LoopInv /\ LoopInv' /\ G!VerdictIsPast /\ [LoopNext]_loopVars
        => [G!Promise!Proceed]_(G!Promise!lifecycle)
  BY <1>2, G!StepKeepsPromise, BudgetAssumption
<1> QED
  BY <1>1, <1>3, <1>4, LoopInvariance, PTL DEF LoopSpec, G!Promise!Lifecycle

\* _MAX_STRIKES * _MAX_TOOL_CALLS bounds the requests to the executor's model over
\* the whole run, however often validator and oversight_git send the ticket back:
\* a strike that is reported has paid for its own requests, and a visit that is
\* not, because it raised, was the last.
THEOREM CallBudget == LoopSpec => []CallsBounded
<1>1. LoopInv => CallsBounded
  BY DEF LoopInv, Bill, Cap, CallsBounded
<1> QED
  BY LoopInvariance, <1>1, PTL

\* Every request of _run_agentic_loop is one the Messages API accepts, for any
\* number of tool_use blocks in an answer and any mixture of tools that fail.
THEOREM RequestsWellFormed == LoopSpec => []ConversationWellFormed
<1>1. LoopInv => ConversationWellFormed
  BY DEF LoopInv, Dialogue, Paired, ConversationWellFormed
<1> QED
  BY LoopInvariance, <1>1, PTL

\* validation_feedback is about the workspace the strike finds, on the first
\* strike of a visit and after each failed check, for every strike budget.
THEOREM StrikesInformed == LoopSpec => []StrikeStartsInformed
<1>1. LoopInv => StrikeStartsInformed
  BY DEF LoopInv, Informed, StrikeStartsInformed
<1> QED
  BY LoopInvariance, <1>1, PTL

-----------------------------------------------------------------------------
(***************************************************************************)
(* What the scripted model is sent, for every strike budget and turn cap;  *)
(* of what the scripts say the proof uses nothing.                         *)
(*                                                                         *)
(* The claim about the clients' records is joined with the length of the   *)
(* conversation that the executor is in the middle of: the record of its   *)
(* client says how long that must be, and the next request is one turn     *)
(* longer.                                                                 *)
(***************************************************************************)
\* A client of _client_history, as StubLlm keeps it.
Client == [calls_seen : Seq(Nat), informed : BOOLEAN, errors : Nat]

\* Whatever its elements are.
IsSequence(s) == s \in Seq({s[i] : i \in DOMAIN s})

\* The j-th request of a conversation has 2 * j - 1 messages.
Grows(seen) == \A j \in DOMAIN seen : seen[j] = 2 * j - 1

\* A conversation has its client, and every request a record.
Recorded ==
  pc \in {"llm", "tools"} =>
    /\ clients # <<>>
    /\ Len(messages) = 2 * CallIndex + (IF pc = "llm" THEN 1 ELSE 0)

RecordInv ==
  /\ clients \in Seq(Client)
  /\ IsSequence(messages)
  /\ ContextCompact
  /\ Recorded

-----------------------------------------------------------------------------
\* Whatever is appended to a sequence, it becomes one longer.
LEMMA AppendSequence ==
  ASSUME NEW s, NEW m, IsSequence(s)
  PROVE  IsSequence(Append(s, m)) /\ Len(Append(s, m)) = Len(s) + 1 /\ Len(s) \in Nat
<1> DEFINE S == {s[i] : i \in DOMAIN s} \cup {m}
           t == Append(s, m)
<1>1. s \in Seq(S)
  <2>1. s \in Seq({s[i] : i \in DOMAIN s}) /\ {s[i] : i \in DOMAIN s} \subseteq S
    BY DEF IsSequence
  <2> QED
    BY <2>1
<1>2. t \in Seq(S) /\ Len(t) = Len(s) + 1 /\ Len(s) \in Nat
  BY <1>1
<1>3. t \in Seq({t[i] : i \in DOMAIN t})
  <2> HIDE DEF t, S
  <2>1. Len(t) \in Nat /\ DOMAIN t = 1 .. Len(t) /\ t = [i \in 1 .. Len(t) |-> t[i]]
    BY <1>2
  <2>2. \A i \in 1 .. Len(t) : t[i] \in {t[j] : j \in DOMAIN t}
    BY <2>1
  <2> QED
    BY <2>1, <2>2
<1> QED
  BY <1>2, <1>3 DEF IsSequence

\* A record that grows by the turn just taken still does.
LEMMA AppendGrows ==
  ASSUME NEW seen \in Seq(Nat), Grows(seen)
  PROVE  /\ Append(seen, 2 * Len(seen) + 1) \in Seq(Nat)
         /\ Len(Append(seen, 2 * Len(seen) + 1)) = Len(seen) + 1
         /\ Grows(Append(seen, 2 * Len(seen) + 1))
<1> DEFINE t == Append(seen, 2 * Len(seen) + 1)
<1>1. /\ t \in Seq(Nat) /\ Len(t) = Len(seen) + 1 /\ Len(seen) \in Nat
      /\ DOMAIN t = 1 .. Len(seen) + 1 /\ DOMAIN seen = 1 .. Len(seen)
      /\ t[Len(seen) + 1] = 2 * Len(seen) + 1
      /\ \A j \in 1 .. Len(seen) : t[j] = seen[j]
  OBVIOUS
<1> HIDE DEF t
<1>2. ASSUME NEW j \in 1 .. Len(seen) + 1 PROVE t[j] = 2 * j - 1
  <2>1. CASE j = Len(seen) + 1
    BY <1>1, <2>1
  <2>2. CASE j \in 1 .. Len(seen)
    BY <1>1, <2>2 DEF Grows
  <2> QED
    BY <1>1, <2>1, <2>2
<1>3. Grows(t)
  BY <1>1, <1>2 DEF Grows
<1> QED
  BY <1>1, <1>3 DEF t

\* ContextCompact, client by client.
LEMMA CompactClients ==
  ContextCompact <=> \A i \in DOMAIN clients : Grows(clients[i].calls_seen)
BY DEF ContextCompact, Grows

\* A turn in which nobody is sent anything and the conversation stays as long
\* as it is, or is over.
LEMMA Unheard ==
  ASSUME RecordInv, UNCHANGED <<clients, messages>>,
         pc' \in {"llm", "tools"} => pc' = pc
  PROVE  RecordInv'
BY DEF RecordInv, ContextCompact, Recorded, IsSequence, CallIndex, Current

-----------------------------------------------------------------------------
\* The strike's first message, and a client for it.
LEMMA BeginKeepsRecord ==
  ASSUME RecordInv, BeginStrike, NEW heard \in BOOLEAN, get_stub_client(heard)
  PROVE  RecordInv'
<1> DEFINE c == [calls_seen |-> <<>>, informed |-> heard, errors |-> 0]
<1>1. /\ pc' = "llm" /\ clients' = Append(clients, c)
      /\ \E m : messages' = <<m>>
  BY DEF BeginStrike, get_stub_client
<1>2. c \in Client /\ c.calls_seen = <<>>
  BY DEF Client
<1>3. clients \in Seq(Client) /\ \A i \in DOMAIN clients : Grows(clients[i].calls_seen)
  BY CompactClients DEF RecordInv
<1> HIDE DEF c
<1>4. /\ clients' \in Seq(Client) /\ Len(clients') = Len(clients) + 1 /\ Len(clients) \in Nat
      /\ clients'[Len(clients')] = c
      /\ \A i \in 1 .. Len(clients) : clients'[i] = clients[i]
      /\ DOMAIN clients' = 1 .. Len(clients) + 1 /\ DOMAIN clients = 1 .. Len(clients)
      /\ clients' # <<>>
  BY <1>1, <1>2, <1>3
<1>5. Grows(<<>>)
  BY DEF Grows
<1>6. \A i \in DOMAIN clients' : Grows(clients'[i].calls_seen)
  BY <1>2, <1>3, <1>4, <1>5
<1>7. ContextCompact'
  BY <1>6 DEF ContextCompact, Grows
<1>8. IsSequence(messages') /\ Len(messages') = 1
  BY <1>1 DEF IsSequence
<1>9. CallIndex' = 0
  BY <1>2, <1>4 DEF CallIndex, Current
<1>10. Recorded'
  BY <1>1, <1>4, <1>8, <1>9 DEF Recorded
<1> QED
  BY <1>4, <1>7, <1>8, <1>10 DEF RecordInv

\* A request is recorded with the length it has, and answered.
LEMMA RequestKeepsRecord ==
  ASSUME RecordInv, LlmAnswers, create(Len(messages))
  PROVE  RecordInv'
<1> DEFINE last == Len(clients)
           c == clients[last]
           seen == c.calls_seen
           d == [c EXCEPT !.calls_seen = Append(seen, Len(messages))]
<1>1. /\ pc = "llm" /\ pc' \in {"tools", "check"}
      /\ \E m : messages' = Append(messages, m)
      /\ clients' = [clients EXCEPT ![last] = d]
  BY DEF LlmAnswers, EndConversation, create
<1>2. /\ clients \in Seq(Client) /\ clients # <<>>
      /\ \A i \in DOMAIN clients : Grows(clients[i].calls_seen)
      /\ Len(messages) = 2 * Len(seen) + 1
  BY <1>1, CompactClients DEF RecordInv, Recorded, CallIndex, Current
<1>3. last \in DOMAIN clients /\ c \in Client /\ Grows(seen) /\ last \in Nat
  BY <1>2
<1>4. seen \in Seq(Nat) /\ c.informed \in BOOLEAN /\ c.errors \in Nat
  BY <1>3 DEF Client
<1>5. /\ Append(seen, Len(messages)) \in Seq(Nat)
      /\ Len(Append(seen, Len(messages))) = Len(seen) + 1
      /\ Grows(Append(seen, Len(messages)))
  BY <1>2, <1>3, <1>4, AppendGrows
<1>6. d \in Client /\ d.calls_seen = Append(seen, Len(messages))
  BY <1>3, <1>4, <1>5 DEF Client
<1> HIDE DEF d
<1>7. /\ clients' \in Seq(Client) /\ Len(clients') = last /\ clients' # <<>>
      /\ DOMAIN clients' = DOMAIN clients
      /\ clients'[last] = d
      /\ \A i \in DOMAIN clients : i # last => clients'[i] = clients[i]
  BY <1>1, <1>2, <1>3, <1>6
<1>8. \A i \in DOMAIN clients' : Grows(clients'[i].calls_seen)
  BY <1>2, <1>5, <1>6, <1>7
<1>9. ContextCompact'
  BY <1>8 DEF ContextCompact, Grows
<1>10. IsSequence(messages') /\ Len(messages') = Len(messages) + 1
  BY <1>1, AppendSequence DEF RecordInv
<1>11. CallIndex' = Len(seen) + 1
  BY <1>5, <1>6, <1>7 DEF CallIndex, Current
<1>12. Recorded'
  <2>1. Len(seen) \in Nat
    BY <1>4
  <2>2. Len(messages') = 2 * CallIndex'
    BY <1>2, <1>10, <1>11, <2>1
  <2>3. Len(messages') = 2 * CallIndex' + 0
    BY <1>11, <2>1, <2>2
  <2> QED
    BY <1>1, <1>7, <2>3 DEF Recorded
<1> QED
  BY <1>7, <1>9, <1>10, <1>12 DEF RecordInv

\* A tool's result changes what the record says of errors, and the results of
\* the last block are the next message.
LEMMA ToolKeepsRecord ==
  ASSUME RecordInv, RunTool, NEW failed \in BOOLEAN, ToolResult(failed)
  PROVE  RecordInv'
<1> DEFINE last == Len(clients)
           c == clients[last]
           d == [c EXCEPT !.errors = IF failed THEN @ + 1 ELSE @]
<1>1. /\ pc = "tools"
      /\ \/ pc' = pc /\ messages' = messages
         \/ pc' = "llm" /\ \E m : messages' = Append(messages, m)
      /\ clients' = [clients EXCEPT ![last] = d]
  BY DEF RunTool, ToolResult
<1>2. /\ clients \in Seq(Client) /\ clients # <<>>
      /\ \A i \in DOMAIN clients : Grows(clients[i].calls_seen)
      /\ Len(messages) = 2 * Len(c.calls_seen)
  BY <1>1, CompactClients DEF RecordInv, Recorded, CallIndex, Current
<1>3. last \in DOMAIN clients /\ c \in Client /\ last \in Nat
  BY <1>2
<1>4. d \in Client /\ d.calls_seen = c.calls_seen /\ Len(c.calls_seen) \in Nat
  BY <1>3 DEF Client
<1> HIDE DEF d
<1>5. /\ clients' \in Seq(Client) /\ Len(clients') = last /\ clients' # <<>>
      /\ DOMAIN clients' = DOMAIN clients
      /\ clients'[last] = d
      /\ \A i \in DOMAIN clients : i # last => clients'[i] = clients[i]
  BY <1>1, <1>2, <1>3, <1>4
<1>6. \A i \in DOMAIN clients' : Grows(clients'[i].calls_seen)
  BY <1>2, <1>3, <1>4, <1>5
<1>7. ContextCompact'
  BY <1>6 DEF ContextCompact, Grows
<1>8. CallIndex' = Len(c.calls_seen)
  BY <1>4, <1>5 DEF CallIndex, Current
<1>9. IsSequence(messages') /\ Recorded'
  <2>1. CASE pc' = pc /\ messages' = messages
    BY <1>1, <1>2, <1>5, <1>8, <2>1 DEF RecordInv, Recorded, IsSequence
  <2>2. CASE pc' = "llm" /\ \E m : messages' = Append(messages, m)
    <3>1. IsSequence(messages') /\ Len(messages') = Len(messages) + 1
      BY <2>2, AppendSequence DEF RecordInv
    <3>2. Len(messages') = 2 * CallIndex' + 1
      BY <1>2, <1>4, <1>8, <3>1
    <3> QED
      BY <1>5, <2>2, <3>1, <3>2 DEF Recorded
  <2> QED
    BY <1>1, <2>1, <2>2
<1> QED
  BY <1>5, <1>7, <1>9 DEF RecordInv

\* The executor's steps, with the script for a model.
LEMMA LoopKeepsRecord ==
  ASSUME RecordInv, ScriptedLoop
  PROVE  RecordInv'
<1>1. CASE BeginStrike /\ get_stub_client(feedback # NoVersion)
  <2>1. (feedback # NoVersion) \in BOOLEAN
    OBVIOUS
  <2> QED
    BY <1>1, <2>1, BeginKeepsRecord
<1>2. CASE LlmAnswers /\ create(Len(messages))
  BY <1>2, RequestKeepsRecord
<1>3. CASE RunTool /\ \E failed \in BOOLEAN : ToolResult(failed)
  BY <1>3, ToolKeepsRecord
<1>4. CASE /\ \/ EnterExecutor \/ CapReached \/ FastCheckPasses \/ StrikePasses \/ StrikeFails
              \/ GiveUp
           /\ UNCHANGED clients
  <2>1. UNCHANGED messages /\ pc' \notin {"llm", "tools"}
    <3>1. CASE EnterExecutor
      BY <3>1 DEF EnterExecutor, conversation
    <3>2. CASE CapReached
      BY <3>2 DEF CapReached, EndConversation
    <3>3. CASE FastCheckPasses
      BY <3>3 DEF FastCheckPasses
    <3>4. CASE StrikePasses
      BY <3>4 DEF StrikePasses, Return, conversation
    <3>5. CASE StrikeFails
      BY <3>5 DEF StrikeFails, conversation
    <3>6. CASE GiveUp
      BY <3>6 DEF GiveUp, Return, conversation
    <3> QED
      BY <1>4, <3>1, <3>2, <3>3, <3>4, <3>5, <3>6
  <2> QED
    BY <1>4, <2>1, Unheard
<1>5. RunTool /\ (\E tool : ToolResult(ToolFails(tool)))
        => \E failed \in BOOLEAN : ToolResult(failed)
  <2> SUFFICES ASSUME NEW tool, ToolResult(ToolFails(tool))
               PROVE  \E failed \in BOOLEAN : ToolResult(failed)
    OBVIOUS
  <2>1. ToolFails(tool) \in BOOLEAN
    BY DEF ToolFails
  <2> QED
    BY <2>1
<1> QED
  BY <1>1, <1>2, <1>3, <1>4, <1>5 DEF ScriptedLoop

\* One case per kind of step of a script, and stuttering.
LEMMA HarnessStep == RecordInv /\ [HarnessNext]_harnessVars => RecordInv'
<1> SUFFICES ASSUME RecordInv, [HarnessNext]_harnessVars PROVE RecordInv'
  OBVIOUS
<1>1. CASE ScriptedLoop
  BY <1>1, LoopKeepsRecord
<1>2. CASE DrivenNode \/ SecondTicket \/ FailPath \/ Seed \/ Finish
  <2>1. UNCHANGED <<clients, messages, pc>>
    BY <1>2 DEF DrivenNode, OtherNode, SecondTicket, FailPath, Seed, Finish, loopVars, locals,
                  conversation
  <2> QED
    BY <2>1, Unheard
<1>3. CASE UNCHANGED harnessVars
  <2>1. UNCHANGED <<clients, messages, pc>>
    BY <1>3 DEF harnessVars, loopVars, locals, conversation
  <2> QED
    BY <2>1, Unheard
<1> QED
  BY <1>1, <1>2, <1>3 DEF HarnessNext, Drive

\* The claim about the records and the length of the conversation hold together
\* in every state of every scenario.
THEOREM RecordInvariance == HarnessSpec => []RecordInv
<1>1. HarnessInit => RecordInv
  BY DEF HarnessInit, LocalsInit, set_stub_script, RecordInv, IsSequence, ContextCompact, Recorded
<1> QED
  BY <1>1, HarnessStep, PTL DEF HarnessSpec

\* No conversation inherits anything from the strikes before it, and none grows
\* by more than the turn just taken.
THEOREM ContextStaysCompact == HarnessSpec => []ContextCompact
<1>1. RecordInv => ContextCompact
  BY DEF RecordInv
<1> QED
  BY <1>1, RecordInvariance, PTL
=============================================================================
