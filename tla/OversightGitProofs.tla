------------------------- MODULE OversightGitProofs -------------------------
(***************************************************************************)
(* The opened oversight_git, for every strike budget and every escalation  *)
(* budget.                                                                 *)
(*                                                                         *)
(* GitInv joins the graph's invariant, read through the refinement         *)
(* mapping, with what the node's local variables and the repository mean   *)
(* between two git commands.  The graph's part says that the workspace the *)
(* node finds is the one the validator has passed; the other part, that a  *)
(* HEAD which is not head_before has been moved by the node, unless the    *)
(* look that gave head_before failed.                                      *)
(***************************************************************************)
EXTENDS OversightGit, TLAPS

G == INSTANCE SyndicateGraphProofs WITH
  landed <- IF pc = "out" THEN landed ELSE priorLanded

Contents == [decl : Nat, rest : Nat]
Commits == [id : Nat, snap : Contents, by : {"nobody", "seed", "agent", "bot"}]
Commands == {"is_repo", "init", "user_name", "user_email", "head_before", "add", "commit",
             "head_after"}

RepositoryTyped ==
  /\ pc \in {"out"} \cup Commands
  /\ glog \in Nat /\ before \in Nat /\ blind \in BOOLEAN /\ repo \in BOOLEAN
  /\ decl \in Nat /\ rest \in Nat
  /\ index \in Contents
  /\ head \in Commits

\* How many commands have been sent: one more if the probe for a repository
\* failed.  Only a ticket that declares files gets past the set-up.
Progress ==
  /\ pc # "out" => node = "oversight_git" /\ ~mock
  /\ pc = "is_repo" => glog = 0
  /\ pc = "init" => glog = 1
  /\ pc = "user_name" => glog \in {1, 2}
  /\ pc = "user_email" => glog \in {2, 3}
  /\ pc = "head_before" => glog \in {3, 4}
  /\ pc = "add" => glog \in {4, 5}
  /\ pc = "commit" => glog \in {5, 6}
  /\ pc = "head_after" => glog \in {6, 7}
  /\ pc \in {"head_before", "add", "commit", "head_after"} => active_ticket.files

\* head_before is HEAD, or None for a HEAD that the look has missed.
Captured == before = (IF blind THEN NoCommit ELSE head.id)

\* What HEAD and the index tell between two commands.
Witnessed ==
  /\ pc # "out" => landed \in {priorLanded, tree}
  /\ pc \notin {"out", "head_after"} => landed = priorLanded
  /\ pc = "add" => Captured
  /\ pc = "commit" => Captured /\ index.decl = decl
  /\ pc = "head_after" => BotCommitted \/ Captured
  /\ ticket_status = "done" => BotCommitted \/ (blind /\ head.id # NoCommit)

GitInv == G!Inv /\ RepositoryTyped /\ Progress /\ Witnessed

-----------------------------------------------------------------------------
(* What the graph sees of a step. *)

\* The steps that stay inside oversight_git_node, and the one that enters it.
Inside ==
  /\ pc' # "out"
  /\ \/ EnterOversight \/ IsRepo \/ RunInit \/ ConfigName \/ ConfigEmail
     \/ HeadBefore \/ GitAdd \/ GitCommit

\* The graph sees neither a command nor the commit: as long as the node runs,
\* `landed` is what it was when the node was entered.
LEMMA InsideIsUnseen ==
  ASSUME Inside
  PROVE  UNCHANGED G!vars
<1> USE DEF G!vars, G!config, G!history, G!verdict, G!budget, G!sandbox
<1>1. CASE EnterOversight
  BY <1>1 DEF EnterOversight, vars, config, history, verdict, budget, sandbox
<1>2. CASE IsRepo \/ RunInit \/ ConfigName \/ HeadBefore
  BY <1>2 DEF IsRepo, RunInit, ConfigName, HeadBefore, Run, vars, config, history, verdict,
     budget, sandbox
<1>3. CASE ConfigEmail
  BY <1>3 DEF Inside, ConfigEmail, Run, Return, vars, config, history, verdict, budget, sandbox
<1>4. CASE GitAdd
  BY <1>4 DEF Inside, GitAdd, Strike, Run, Return, vars, config, history, verdict, budget, sandbox
<1>5. CASE GitCommit
  BY <1>5 DEF Inside, GitCommit, Strike, Run, Return, config, history, verdict, budget
<1> QED
  BY <1>1, <1>2, <1>3, <1>4, <1>5 DEF Inside

\* Return's update is that of the graph's node.
LEMMA ReturnIsOversight ==
  ASSUME NEW lines \in Nat, pc # "out", ~mock, Return(lines),
         \E setup \in {3, 4} :
           G!OversightNoFiles(setup) \/ G!OversightCommits(setup) \/ G!OversightStrikes(setup)
  PROVE  G!Next
<1>1. G!Superstep("oversight_git", G!oversight_git_router(ticket_status', strike_count'))
  BY DEF Return, Superstep, config, oversight_git_router,
     G!Superstep, G!config, G!oversight_git_router
<1>2. G!OversightGitNode
  BY <1>1 DEF Return, G!OversightGitNode, G!SetupLines
<1> QED
  BY <1>2 DEF G!Next

\* strike(reason) counts two, three or four commands after the set-up; only
\* with the last two can a commit have landed.
LEMMA StrikeIsOversight ==
  ASSUME RepositoryTyped, Progress, Witnessed, attempt_log \in Nat,
         pc \in {"add", "commit", "head_after"}, Strike,
         landed' \in (IF pc = "add" THEN {landed} ELSE {landed, tree})
  PROVE  G!Next
<1>1. /\ ~mock /\ active_ticket.files /\ glog \in Nat /\ pc' = "out"
      /\ attempt_log' = attempt_log + (glog + 2)
      /\ strike_count' = strike_count + 1 /\ UNCHANGED <<ticket_status, tree>>
      /\ Return(glog + 2)
  BY DEF RepositoryTyped, Progress, Strike, Return
<1> DEFINE commands == CASE pc = "add" -> 2 [] pc = "commit" -> 3 [] pc = "head_after" -> 4
           setup == glog + 1 - commands
<1>2. commands \in 2 .. 4 /\ setup \in {3, 4}
  BY <1>1 DEF Progress
<1>3. attempt_log' = attempt_log + setup + commands + 1
  BY <1>1, <1>2
<1>4. landed' \in (IF mock \/ commands = 2 THEN {priorLanded} ELSE {priorLanded, tree})
  BY <1>1 DEF Witnessed
<1> HIDE DEF commands, setup
<1>5. G!OversightStrikes(setup)
  BY <1>1, <1>2, <1>3, <1>4 DEF G!OversightStrikes
<1> QED
  BY <1>1, <1>2, <1>5, ReturnIsOversight

\* The three other ways out of the node.
LEMMA NoFilesIsOversight ==
  ASSUME RepositoryTyped, Progress, Witnessed, attempt_log \in Nat, ConfigEmail, pc' = "out"
  PROVE  G!Next
<1>1. /\ ~mock /\ ~active_ticket.files /\ glog \in {2, 3} /\ pc = "user_email"
      /\ attempt_log' = attempt_log + (glog + 1)
      /\ UNCHANGED <<ticket_status, strike_count, landed>>
      /\ Return(glog + 1)
  BY DEF RepositoryTyped, Progress, ConfigEmail, Return, Run
<1>2. G!OversightNoFiles(glog + 1) /\ glog + 1 \in {3, 4}
  BY <1>1 DEF Witnessed, G!OversightNoFiles, Return
<1> QED
  BY <1>1, <1>2, ReturnIsOversight

LEMMA HeadMovedIsOversight ==
  ASSUME RepositoryTyped, Progress, Witnessed, attempt_log \in Nat, HeadAfter,
         ticket_status' = "done", strike_count' = strike_count,
         head.id \notin {NoCommit, before}, Return(glog + 1)
  PROVE  G!Next
<1>1. /\ ~mock /\ active_ticket.files /\ glog \in {6, 7} /\ pc = "head_after"
      /\ attempt_log' = attempt_log + (glog + 1)
      /\ landed' \in {priorLanded, tree}
      /\ Return(glog + 1)
  BY DEF RepositoryTyped, Progress, Witnessed, HeadAfter, Return
<1>2. G!OversightCommits(glog - 3) /\ glog - 3 \in {3, 4}
  BY <1>1 DEF G!OversightCommits, Return
<1> QED
  BY <1>1, <1>2, ReturnIsOversight

LEMMA OversightRaisesIsNodeRaises ==
  ASSUME Progress, Witnessed, OversightRaises
  PROVE  G!Next
<1>1. /\ node = "oversight_git" /\ ~mock /\ pc # "out" /\ pc' = "out" /\ node' = "raised"
      /\ landed \in {priorLanded, tree}
      /\ landed' \in {landed, tree} /\ (pc # "commit" => landed' = landed)
      /\ pc \notin {"head_after"} => landed = priorLanded
      /\ pc \in {"commit", "head_after"} => active_ticket.files
  BY DEF Progress, Witnessed, OversightRaises, Lands, repository
<1>2. landed' \in (IF active_ticket.files THEN {priorLanded, tree} ELSE {priorLanded})
  BY <1>1
<1>3. G!NodeRaises
  BY <1>1, <1>2 DEF OversightRaises, config, history, verdict, budget,
     G!NodeRaises, G!config, G!history, G!verdict, G!budget
<1> QED
  BY <1>3 DEF G!Next

\* The other nodes do not look inside: their steps are the graph's own.
LEMMA OtherIsNext ==
  ASSUME OtherNode
  PROVE  G!Next
<1>1. pc = "out" /\ pc' = "out" /\ Next
  BY DEF OtherNode, gitLocals
<1> USE <1>1 DEF Superstep, config, history, verdict, budget, sandbox,
    G!Superstep, G!config, G!history, G!verdict, G!budget, G!sandbox
<1>2. AnalyzerNode => G!AnalyzerNode
  BY DEF AnalyzerNode, StubTicket, G!AnalyzerNode, G!StubTicket
<1>3. ArchitectNode => G!ArchitectNode
  BY DEF ArchitectNode, DetectedCommands, G!ArchitectNode, G!DetectedCommands
<1>4. DispatchNode => G!DispatchNode
  BY DEF DispatchNode, dispatch_router, G!DispatchNode, G!dispatch_router
<1>5. ExecutorNode => G!ExecutorNode
  BY DEF ExecutorNode, ExecutorMock, ExecutorPasses, ExecutorGivesUp, Strikes, NoVersion,
     G!ExecutorNode, G!ExecutorMock, G!ExecutorPasses, G!ExecutorGivesUp, G!Strikes,
     G!NoVersion
<1>6. ValidatorNode => G!ValidatorNode
  BY DEF ValidatorNode, ValidatorPasses, ValidatorFails, validator_router, NoVersion,
     G!ValidatorNode, G!ValidatorPasses, G!ValidatorFails, G!validator_router, G!NoVersion
<1>7. OversightGitNode => G!OversightGitNode
  BY DEF OversightGitNode, OversightNoFiles, OversightCommits, OversightStrikes, SetupLines,
     oversight_git_router, G!OversightGitNode, G!OversightNoFiles, G!OversightCommits,
     G!OversightStrikes, G!SetupLines, G!oversight_git_router
<1>8. EscalateNode => G!EscalateNode
  BY DEF EscalateNode, G!EscalateNode
<1>9. AdvanceNode => G!AdvanceNode
  BY DEF AdvanceNode, G!AdvanceNode
<1>10. NodeRaises => G!NodeRaises
  BY DEF NodeRaises, CallsLlm, G!NodeRaises, G!CallsLlm
<1> QED
  BY <1>2, <1>3, <1>4, <1>5, <1>6, <1>7, <1>8, <1>9, <1>10 DEF Next, G!Next

\* Every step of the opened node is a step of the graph, or none.
LEMMA StepMaps ==
  ASSUME G!Inv, RepositoryTyped, Progress, Witnessed, [GitNext]_gitVars
  PROVE  [G!Next]_(G!vars)
<1>1. attempt_log \in Nat
  BY DEF G!Inv, G!TypeOK
<1>2. CASE Inside
  BY <1>2, InsideIsUnseen
<1>3. CASE ConfigEmail /\ pc' = "out"
  BY <1>1, <1>3, NoFilesIsOversight
<1>4. CASE GitAdd /\ pc' = "out"
  BY <1>1, <1>4, StrikeIsOversight DEF GitAdd, Run
<1>5. CASE GitCommit /\ pc' = "out"
  BY <1>1, <1>5, StrikeIsOversight DEF GitCommit, Run, Lands
<1>6. CASE HeadAfter
  BY <1>1, <1>6, StrikeIsOversight, HeadMovedIsOversight DEF HeadAfter
<1>7. CASE OversightRaises
  BY <1>7, OversightRaisesIsNodeRaises
<1>8. CASE OtherNode
  BY <1>8, OtherIsNext
<1>9. CASE UNCHANGED gitVars
  BY <1>9 DEF gitVars, gitLocals, vars, config, history, verdict, budget, sandbox,
     G!vars, G!config, G!history, G!verdict, G!budget, G!sandbox
<1>10. (EnterOversight \/ IsRepo \/ RunInit \/ ConfigName \/ HeadBefore) => pc' # "out"
  BY DEF EnterOversight, IsRepo, RunInit, ConfigName, HeadBefore, Run
<1> QED
  BY <1>2, <1>3, <1>4, <1>5, <1>6, <1>7, <1>8, <1>9, <1>10 DEF GitNext, OversightStep, Inside

-----------------------------------------------------------------------------
(* Every step keeps what the commands rely on. *)

Local == RepositoryTyped /\ Progress /\ Witnessed

\* Git's objects are well formed.
LEMMA ObjectsTyped ==
  /\ \A d, r \in Nat : Snapshot(d, r) \in Contents /\ Snapshot(d, r).decl = d
  /\ \A c \in Contents : c.decl \in Nat /\ c.rest \in Nat
  /\ \A h \in Commits : h.id \in Nat /\ h.snap \in Contents
  /\ \A n \in Nat, c \in Contents, by \in {"nobody", "seed", "agent", "bot"} :
       Commit(n, c, by) \in Commits /\ Commit(n, c, by).by = by /\ Commit(n, c, by).snap = c
                                    /\ Commit(n, c, by).id = n
BY DEF Snapshot, Contents, Commit, Commits

\* What the graph's invariant says of the node that is running.
LEMMA Running ==
  ASSUME GitInv, pc # "out" \/ (node = "oversight_git" /\ ~mock)
  PROVE  /\ node = "oversight_git" /\ ~mock /\ attempt_log \in Nat /\ tree \in Nat
         /\ ticket_status \in {"local_pass", "escalated"}
         /\ last_validation_passed /\ checked = tree
BY DEF GitInv, Progress, G!Inv, G!TypeOK, G!Standing

\* A new repository has no commit and nothing staged.
LEMMA InitialiseTyped ==
  ASSUME GitInv, Initialise
  PROVE  repo' \in BOOLEAN /\ index' \in Contents /\ head' \in Commits
         /\ (head' # head => head'.by = "nobody")
<1>1. Nothing \in Contents /\ Unborn \in Commits /\ Unborn.by = "nobody"
  BY ObjectsTyped DEF Nothing, Unborn, Absent, NoCommit
<1> QED
  BY <1>1 DEF Initialise, GitInv, RepositoryTyped

\* The node is entered, and the repository looked for.
LEMMA SetUpStep ==
  ASSUME GitInv, EnterOversight \/ IsRepo \/ RunInit \/ ConfigName \/ HeadBefore
  PROVE  Local'
<1>1. /\ UNCHANGED <<vars, decl, rest>>
      /\ \/ pc = "out" /\ node = "oversight_git" /\ ~mock /\ pc' = "is_repo" /\ glog' = 0
            /\ priorLanded' = landed /\ UNCHANGED <<looks, repo, index, head>>
         \/ pc = "is_repo" /\ pc' \in {"user_name", "init"} /\ glog' = glog + 1
            /\ UNCHANGED <<priorLanded, looks, repo, index, head>>
         \/ pc = "init" /\ pc' = "user_name" /\ glog' = glog + 1 /\ Initialise
            /\ UNCHANGED <<priorLanded, looks>>
         \/ pc = "user_name" /\ pc' = "user_email" /\ glog' = glog + 1
            /\ UNCHANGED <<priorLanded, looks, repo, index, head>>
         \/ pc = "head_before" /\ pc' = "add" /\ glog' = glog + 1
            /\ before' \in {head.id, NoCommit} /\ blind' = (before' # head.id)
            /\ blind' \in BOOLEAN
            /\ UNCHANGED <<priorLanded, repo, index, head>>
  BY DEF EnterOversight, IsRepo, RunInit, Initialise, ConfigName, HeadBefore, Run, repository
<1>2. UNCHANGED <<node, mock, active_ticket, landed, tree, ticket_status>>
  BY <1>1 DEF vars, config, verdict, sandbox
<1>3. /\ node = "oversight_git" /\ ~mock /\ tree \in Nat
      /\ ticket_status \in {"local_pass", "escalated"} /\ head.id \in Nat
  BY <1>1, Running, ObjectsTyped DEF GitInv, RepositoryTyped
<1>4. repo' \in BOOLEAN /\ index' \in Contents /\ head' \in Commits
  BY <1>1, InitialiseTyped DEF GitInv, RepositoryTyped
<1>5. RepositoryTyped'
  <2>1. pc' \in Commands /\ glog' \in Nat /\ before' \in Nat /\ blind' \in BOOLEAN
    BY <1>1, <1>3 DEF GitInv, RepositoryTyped, Commands, NoCommit, looks
  <2> QED
    BY <1>1, <1>4, <2>1 DEF GitInv, RepositoryTyped
<1>6. Progress'
  BY <1>1, <1>2, <1>3 DEF GitInv, Progress
<1>7. Witnessed'
  BY <1>1, <1>2, <1>3 DEF GitInv, Witnessed, Captured
<1> QED
  BY <1>5, <1>6, <1>7 DEF Local

\* The second git config, or the end for a ticket without files.
LEMMA EmailStep ==
  ASSUME GitInv, ConfigEmail
  PROVE  Local'
<1>1. /\ pc = "user_email"
      /\ UNCHANGED <<mock, active_ticket, tree, ticket_status, landed, priorLanded, before,
                     blind, repo, decl, rest, index, head>>
      /\ \/ /\ active_ticket.files /\ pc' = "head_before" /\ glog' = glog + 1
            /\ UNCHANGED node
         \/ pc' = "out" /\ glog' = glog /\ node' # "validator" /\ node' # "oversight_git"
  BY DEF ConfigEmail, Run, Return, Superstep, oversight_git_router, vars, config, verdict,
     sandbox, looks, repository
<1>2. /\ node = "oversight_git" /\ ~mock /\ ticket_status \in {"local_pass", "escalated"}
  BY <1>1, Running
<1>3. RepositoryTyped'
  BY <1>1 DEF GitInv, RepositoryTyped, Commands
<1>4. Progress'
  BY <1>1, <1>2 DEF GitInv, Progress
<1>5. Witnessed'
  BY <1>1, <1>2 DEF GitInv, Witnessed
<1> QED
  BY <1>3, <1>4, <1>5 DEF Local

\* strike(reason) leaves the node and whatever HEAD has become.
LEMMA StrikeKeeps ==
  ASSUME GitInv, pc # "out", Strike, UNCHANGED <<looks, repo, decl, rest, index>>,
         head' \in Commits
  PROVE  Local'
<1>1. /\ pc' = "out" /\ node' \notin {"validator", "oversight_git"}
      /\ ticket_status' = ticket_status /\ ticket_status # "done" /\ glog' = glog
  BY Running DEF Strike, Return, Superstep, oversight_git_router
<1>2. RepositoryTyped'
  BY <1>1 DEF GitInv, RepositoryTyped, looks
<1>3. Progress' /\ Witnessed'
  BY <1>1 DEF Progress, Witnessed
<1> QED
  BY <1>2, <1>3 DEF Local

\* git add: what is staged is what the ticket declares.
LEMMA AddStep ==
  ASSUME GitInv, GitAdd
  PROVE  Local'
<1>1. CASE Strike /\ UNCHANGED <<landed, looks, repository>>
  BY <1>1, StrikeKeeps DEF GitAdd, repository, GitInv, RepositoryTyped
<1>2. CASE /\ repo /\ decl # Absent
           /\ Run("add", "commit")
           /\ index' = Snapshot(decl, index.rest)
           /\ UNCHANGED <<vars, looks, repo, decl, rest, head>>
  <2>1. /\ pc = "add" /\ pc' = "commit" /\ glog' = glog + 1 /\ priorLanded' = priorLanded
        /\ UNCHANGED <<node, mock, active_ticket, tree, ticket_status, landed>>
    BY <1>2 DEF Run, vars, config, verdict, sandbox
  <2>2. index' \in Contents /\ index'.decl = decl
    BY <1>2, ObjectsTyped DEF GitInv, RepositoryTyped
  <2>3. RepositoryTyped'
    BY <1>2, <2>1, <2>2 DEF GitInv, RepositoryTyped, Commands, looks
  <2>4. Progress'
    BY <2>1 DEF GitInv, Progress
  <2>5. ticket_status # "done"
    BY <2>1, Running
  <2>6. Witnessed'
    BY <1>2, <2>1, <2>2, <2>5 DEF GitInv, Witnessed, Captured, looks
  <2> QED
    BY <2>3, <2>4, <2>6 DEF Local
<1> QED
  BY <1>1, <1>2 DEF GitAdd

\* A commit of the index over the present HEAD.
LEMMA LandsFacts ==
  ASSUME GitInv, Lands
  PROVE  /\ head' \in Commits /\ head'.id # head.id /\ head'.by = "bot"
         /\ head'.snap = index /\ landed' = tree
<1>1. head.id \in Nat /\ head.id + 1 \in Nat /\ index \in Contents
  BY ObjectsTyped DEF GitInv, RepositoryTyped
<1>2. head' = Commit(head.id + 1, index, "bot") /\ landed' = tree
  BY DEF Lands
<1> QED
  BY <1>1, <1>2, ObjectsTyped

\* git commit: HEAD stays, or is the node's own commit of the declared files.
LEMMA CommitStep ==
  ASSUME GitInv, GitCommit
  PROVE  Local'
<1>1. pc = "commit" /\ UNCHANGED <<looks, repo, decl, rest, index>>
      /\ (Lands \/ UNCHANGED <<head, landed>>)
  BY DEF GitCommit
<1>2. head' \in Commits
  BY <1>1, LandsFacts DEF GitInv, RepositoryTyped
<1>3. CASE Strike
  BY <1>1, <1>2, <1>3, StrikeKeeps
<1>4. CASE Run("commit", "head_after") /\ UNCHANGED <<config, node, active_ticket, verdict, tree>>
  <2>1. /\ pc' = "head_after" /\ glog' = glog + 1 /\ priorLanded' = priorLanded
        /\ UNCHANGED <<node, mock, active_ticket, tree, ticket_status>>
    BY <1>4 DEF Run, config, verdict
  <2>2. ticket_status # "done" /\ landed = priorLanded /\ Captured /\ index.decl = decl
    BY <1>1, Running DEF GitInv, Witnessed
  <2>3. RepositoryTyped'
    BY <1>1, <1>2, <2>1 DEF GitInv, RepositoryTyped, Commands, looks
  <2>4. Progress'
    BY <1>1, <2>1 DEF GitInv, Progress
  <2>5. Witnessed'
    <3>1. landed' \in {priorLanded', tree'} /\ (BotCommitted' \/ Captured')
      BY <1>1, <2>1, <2>2, LandsFacts DEF Captured, BotCommitted, looks
    <3> QED
      BY <1>1, <2>1, <2>2, <3>1 DEF Witnessed
  <2> QED
    BY <2>3, <2>4, <2>5 DEF Local
<1> QED
  BY <1>3, <1>4 DEF GitCommit

\* DONE: HEAD is not head_before, so it is the node's commit, or it has been
\* there all the time and the first look has missed it.
LEMMA HeadStep ==
  ASSUME GitInv, HeadAfter
  PROVE  Local'
<1>1. pc = "head_after" /\ UNCHANGED <<landed, looks, repo, decl, rest, index, head>>
  BY DEF HeadAfter, repository
<1>2. CASE Strike
  BY <1>1, <1>2, StrikeKeeps DEF GitInv, RepositoryTyped
<1>3. CASE head.id \notin {NoCommit, before} /\ ticket_status' = "done" /\ Return(glog + 1)
  <2>1. pc' = "out" /\ glog' = glog /\ node' \notin {"validator", "oversight_git"}
    BY <1>3 DEF Return, Superstep, oversight_git_router
  <2>2. BotCommitted \/ (blind /\ head.id # NoCommit)
    BY <1>1, <1>3 DEF GitInv, Witnessed, Captured
  <2>3. RepositoryTyped'
    BY <1>1, <2>1 DEF GitInv, RepositoryTyped, looks
  <2>4. Progress' /\ Witnessed'
    BY <1>1, <2>1, <2>2 DEF Progress, Witnessed, BotCommitted, looks
  <2> QED
    BY <2>3, <2>4 DEF Local
<1> QED
  BY <1>2, <1>3 DEF HeadAfter

\* An exception between two commands.
LEMMA RaiseStep ==
  ASSUME GitInv, OversightRaises
  PROVE  Local'
<1>1. /\ pc # "out" /\ pc' = "out" /\ node' = "raised" /\ ticket_status' = ticket_status
      /\ UNCHANGED <<glog, before, blind, decl, rest>>
  BY DEF OversightRaises, Initialise, repository, verdict, looks
<1>2. ticket_status # "done"
  BY <1>1, Running
<1>3. repo' \in BOOLEAN /\ index' \in Contents /\ head' \in Commits
  <2>1. repo \in BOOLEAN /\ index \in Contents /\ head \in Commits
        /\ Snapshot(decl, index.rest) \in Contents
    BY ObjectsTyped DEF GitInv, RepositoryTyped
  <2> QED
    BY <2>1, InitialiseTyped, LandsFacts DEF OversightRaises, repository
<1>4. RepositoryTyped'
  BY <1>1, <1>3 DEF GitInv, RepositoryTyped
<1>5. Progress' /\ Witnessed'
  BY <1>1, <1>2 DEF Progress, Witnessed
<1> QED
  BY <1>4, <1>5 DEF Local

\* Whatever the agent does with git, it does not sign as the bot.
LEMMA AgentFacts ==
  ASSUME GitInv, AgentUsesGit, tree' \in Nat
  PROVE  /\ repo' \in BOOLEAN /\ decl' \in Nat /\ rest' \in Nat
         /\ index' \in Contents /\ head' \in Commits
         /\ head' # head => head'.by = "agent"
<1>1. /\ repo \in BOOLEAN /\ decl \in Nat /\ rest \in Nat /\ index \in Contents
      /\ head \in Commits /\ head.id + 1 \in Nat
  BY ObjectsTyped DEF GitInv, RepositoryTyped
<1>2. repo' \in BOOLEAN /\ decl' \in Nat /\ rest' \in Nat
  BY <1>1 DEF AgentUsesGit
<1>3. index' \in Contents
  BY <1>1, <1>2 DEF AgentUsesGit, Contents
<1>4. head' = head \/ head' = Commit(head.id + 1, index', "agent")
  BY DEF AgentUsesGit
<1>5. head' \in Commits /\ (head' # head => head'.by = "agent")
  <2>1. CASE head' = head
    BY <1>1, <2>1
  <2>2. CASE head' = Commit(head.id + 1, index', "agent")
    BY <1>1, <1>3, <2>2 DEF Commit, Commits
  <2> QED
    BY <1>4, <2>1, <2>2
<1> QED
  BY <1>2, <1>3, <1>5

\* The other nodes: nobody touches the repository once a ticket is done.
LEMMA OtherStep ==
  ASSUME GitInv, OtherNode, G!Inv'
  PROVE  Local'
<1>1. /\ pc = "out" /\ pc' = "out" /\ Next /\ UNCHANGED <<glog, before, blind>>
      /\ node = "oversight_git" => mock
      /\ IF node = "executor" /\ ~mock THEN AgentUsesGit ELSE UNCHANGED repository
  BY DEF OtherNode, gitLocals, looks
<1>2. tree' \in Nat
  BY DEF G!Inv, G!TypeOK
<1>3. Progress'
  BY <1>1 DEF Progress
<1>4. CASE node = "executor" /\ ~mock
  <2>1. RepositoryTyped'
    BY <1>1, <1>2, <1>4, AgentFacts DEF GitInv, RepositoryTyped
  <2>2. ticket_status # "done" /\ ticket_status' \in {ticket_status, "local_pass", "escalated"}
    BY <1>1, <1>4 DEF Next, AnalyzerNode, ArchitectNode, DispatchNode, ExecutorNode,
       ValidatorNode, OversightGitNode, EscalateNode, AdvanceNode, NodeRaises, Superstep,
       ExecutorMock, ExecutorPasses, ExecutorGivesUp, verdict,
       GitInv, G!Inv, G!Standing, G!Ledger, G!Closed
  <2>3. Witnessed'
    BY <1>1, <2>2 DEF Witnessed
  <2> QED
    BY <1>3, <2>1, <2>3 DEF Local
<1>5. CASE ~(node = "executor" /\ ~mock)
  <2>1. UNCHANGED <<repo, decl, rest, index, head>>
    BY <1>1, <1>5 DEF repository
  <2>2. RepositoryTyped'
    BY <1>1, <2>1 DEF GitInv, RepositoryTyped
  <2>3. ticket_status' = "done" => ticket_status = "done"
    BY <1>1, <1>5 DEF Next, AnalyzerNode, ArchitectNode, DispatchNode, ExecutorNode,
       ValidatorNode, OversightGitNode, EscalateNode, AdvanceNode, NodeRaises, Superstep,
       ExecutorMock, ExecutorPasses, ExecutorGivesUp, OversightNoFiles, OversightCommits,
       OversightStrikes, verdict
  <2>4. Witnessed'
    BY <1>1, <2>1, <2>3 DEF GitInv, Witnessed, BotCommitted
  <2> QED
    BY <1>3, <2>2, <2>4 DEF Local
<1> QED
  BY <1>4, <1>5

-----------------------------------------------------------------------------
(* The invariant, and what follows from it. *)

LEMMA GitStart ==
  ASSUME GitInit
  PROVE  GitInv /\ G!Init
<1>1. /\ pc = "out" /\ Init /\ glog = 0 /\ before = NoCommit /\ blind = FALSE
      /\ repo \in BOOLEAN /\ decl \in {Absent, tree} /\ rest = tree /\ index = head.snap
      /\ \/ head = Unborn
         \/ head = Commit(1, Snapshot(decl, rest), "seed")
  BY DEF GitInit
<1>2. tree = 1 /\ node = "analyzer" /\ ticket_status = "none"
  BY <1>1 DEF Init, Fresh
<1>3. G!Init
  BY <1>1 DEF Init, Fresh, EntryTickets, NoTicket, ServerTicket, SmokeTicket, NoVersion,
     G!Init, G!Fresh, G!EntryTickets, G!NoTicket, G!ServerTicket, G!SmokeTicket, G!NoVersion
<1>4. G!Inv
  BY <1>3, G!StartKeepsInv, BudgetAssumption
<1>5. decl \in Nat /\ rest \in Nat
  BY <1>1, <1>2 DEF Absent
<1>6. head \in Commits
  BY <1>1, <1>5, ObjectsTyped DEF Unborn, Nothing, Absent, NoCommit
<1>7. index \in Contents
  BY <1>1, <1>6, ObjectsTyped
<1>8. RepositoryTyped
  BY <1>1, <1>5, <1>6, <1>7 DEF RepositoryTyped, NoCommit
<1>9. Progress /\ Witnessed
  BY <1>1, <1>2 DEF Progress, Witnessed
<1> QED
  BY <1>3, <1>4, <1>8, <1>9 DEF GitInv

LEMMA GitStepKeepsInv ==
  ASSUME GitInv, [GitNext]_gitVars
  PROVE  GitInv' /\ [G!Next]_(G!vars)
<1>1. [G!Next]_(G!vars)
  BY StepMaps DEF GitInv
<1>2. G!Inv'
  BY <1>1, G!StepKeepsInv, BudgetAssumption DEF GitInv
<1>3. Local'
  <2>1. CASE EnterOversight \/ IsRepo \/ RunInit \/ ConfigName \/ HeadBefore
    BY <2>1, SetUpStep
  <2>2. CASE ConfigEmail
    BY <2>2, EmailStep
  <2>3. CASE GitAdd
    BY <2>3, AddStep
  <2>4. CASE GitCommit
    BY <2>4, CommitStep
  <2>5. CASE HeadAfter
    BY <2>5, HeadStep
  <2>6. CASE OversightRaises
    BY <2>6, RaiseStep
  <2>7. CASE OtherNode
    BY <1>2, <2>7, OtherStep
  <2>8. CASE UNCHANGED gitVars
    BY <2>8 DEF gitVars, gitLocals, repository, vars, config, history, verdict, budget, sandbox,
       GitInv, Local, RepositoryTyped, Progress, Witnessed, Captured, BotCommitted, looks
  <2> QED
    BY <2>1, <2>2, <2>3, <2>4, <2>5, <2>6, <2>7, <2>8 DEF GitNext, OversightStep
<1> QED
  BY <1>1, <1>2, <1>3 DEF Local, GitInv

\* Whichever command fails, lies or raises, and whatever the agent did with git
\* before, the commands of oversight_git_node find what GitInv says.
THEOREM GitInvariance == GitSpec => []GitInv
<1>1. GitInit => GitInv
  BY GitStart
<1>2. GitInv /\ [GitNext]_gitVars => GitInv'
  BY GitStepKeepsInv
<1> QED
  BY <1>1, <1>2, PTL DEF GitSpec

\* The opened node implements the graph's one-step node: no command shows before
\* the node returns or raises, a failed command is one strike, and a commit that
\* lands does so on the workspace the validator passed, whatever the outcome.
\* (Fairness is left to the run.)
THEOREM GitRefinesGraph == GitSpec => Graph!Spec
<1>1. GitInit => Graph!Init
  <2>1. GitInit => G!Init
    BY GitStart
  <2>2. G!Init => Graph!Init
    BY DEF Graph!Init, Graph!Fresh, Graph!EntryTickets, Graph!NoTicket, Graph!ServerTicket,
       Graph!SmokeTicket, Graph!NoVersion,
       G!Init, G!Fresh, G!EntryTickets, G!NoTicket, G!ServerTicket, G!SmokeTicket, G!NoVersion
  <2> QED
    BY <2>1, <2>2
<1>2. [G!Next]_(G!vars) => [Graph!Next]_(Graph!vars)
  BY DEF G!AdvanceNode, G!AnalyzerNode, G!ArchitectNode, G!CallsLlm, G!DetectedCommands,
     G!DispatchNode, G!EscalateNode, G!ExecutorGivesUp, G!ExecutorMock, G!ExecutorNode,
     G!ExecutorPasses, G!NodeRaises, G!OversightCommits, G!OversightGitNode,
     G!OversightNoFiles, G!OversightStrikes, G!SetupLines, G!StubTicket, G!Strikes,
     G!Superstep, G!ValidatorFails, G!ValidatorNode, G!ValidatorPasses, G!budget, G!config,
     G!dispatch_router, G!history, G!oversight_git_router, G!sandbox, G!validator_router,
     G!vars, G!verdict, G!NoVersion, G!Next, Graph!AdvanceNode, Graph!AnalyzerNode,
     Graph!ArchitectNode, Graph!CallsLlm, Graph!DetectedCommands, Graph!DispatchNode,
     Graph!EscalateNode, Graph!ExecutorGivesUp, Graph!ExecutorMock, Graph!ExecutorNode,
     Graph!ExecutorPasses, Graph!NodeRaises, Graph!OversightCommits, Graph!OversightGitNode,
     Graph!OversightNoFiles, Graph!OversightStrikes, Graph!SetupLines, Graph!StubTicket,
     Graph!Strikes, Graph!Superstep, Graph!ValidatorFails, Graph!ValidatorNode,
     Graph!ValidatorPasses, Graph!budget, Graph!config, Graph!dispatch_router,
     Graph!history, Graph!oversight_git_router, Graph!sandbox, Graph!validator_router,
     Graph!vars, Graph!verdict, Graph!NoVersion, Graph!Next
<1>3. GitInv /\ [GitNext]_gitVars => [Graph!Next]_(Graph!vars)
  BY <1>2, GitStepKeepsInv
<1> QED
  BY <1>1, <1>3, GitInvariance, PTL DEF GitSpec, Graph!Spec

\* With every git command of oversight_git_node a step of its own, a run still keeps
\* the promise of TicketLifecycle: a ticket is settled as DONE only while a
\* passed validation of the contents stands, however the commands fail.
THEOREM GitKeepsPromise == GitSpec => G!Promise!Lifecycle
<1>1. GitInit => G!Promise!Opened /\ G!VerdictIsPast
  <2>1. GitInit => G!Init
    BY GitStart
  <2>2. G!Init => G!Promise!Opened /\ G!VerdictIsPast
    BY G!OpensPromise, G!StartsInThePast, BudgetAssumption
  <2> QED
    BY <2>1, <2>2
<1>2. GitInv /\ GitInv' /\ [GitNext]_gitVars => G!Inv /\ G!Inv' /\ [G!Next]_(G!vars)
  BY GitStepKeepsInv DEF GitInv
<1>3. GitInv /\ GitInv' /\ G!VerdictIsPast /\ [GitNext]_gitVars => G!VerdictIsPast'
  BY <1>2, G!StaysInThePast, BudgetAssumption
<1>4. GitInv /\ GitInv' /\ G!VerdictIsPast /\ [GitNext]_gitVars
        => [G!Promise!Proceed]_(G!Promise!lifecycle)
  BY <1>2, G!StepKeepsPromise, BudgetAssumption
<1> QED
  BY <1>1, <1>3, <1>4, GitInvariance, PTL DEF GitSpec, G!Promise!Lifecycle

\* What oversight_git_node's two looks at HEAD are worth, whatever exit codes git
\* commit returned and whatever the agent committed: a ticket that is DONE stands
\* for a commit the node made itself, of the declared files the validator passed,
\* unless the first look failed; and then at least for some commit.
THEOREM DoneCommitted == GitSpec => []DoneIsCommitted
<1>1. GitInv => DoneIsCommitted
  BY DEF GitInv, Witnessed, G!Inv, G!Standing, DoneIsCommitted
<1> QED
  BY GitInvariance, <1>1, PTL

\* No step moves HEAD to a commit of oversight_git_node unless validator_node's
\* last verdict was a pass and the workspace has not been edited since.
THEOREM OnlyValidatedCommits == GitSpec => CommitsOnlyValidated
<1>1. GitInv /\ [GitNext]_gitVars =>
        [head' # head /\ head'.by = "bot" => last_validation_passed /\ checked = tree]_gitVars
  <2> SUFFICES ASSUME GitInv, GitNext, head' # head, head'.by = "bot"
               PROVE  last_validation_passed /\ checked = tree
    OBVIOUS
  <2>1. CASE OversightStep
    <3>1. ~Initialise
      BY InitialiseTyped
    <3>2. pc = "commit"
      BY <2>1, <3>1 DEF OversightStep, EnterOversight, IsRepo, RunInit, ConfigName, ConfigEmail,
         HeadBefore, GitAdd, GitCommit, HeadAfter, OversightRaises, repository
    <3> QED
      BY <3>2, Running
  <2>2. CASE OtherNode
    <3>1. AgentUsesGit
      BY <2>2 DEF OtherNode, repository
    <3> QED
      BY <3>1 DEF AgentUsesGit, Commit
  <2> QED
    BY <2>1, <2>2 DEF GitNext
<1> QED
  BY GitInvariance, <1>1, PTL DEF GitSpec, CommitsOnlyValidated
=============================================================================
