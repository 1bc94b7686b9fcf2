---------------------------- MODULE OversightGit ----------------------------
(***************************************************************************)
(* SyndicateGraph with oversight_git_node opened up, one action per git    *)
(* command it sends to the container, and with the git repository of the   *)
(* workspace beside it: an index, a HEAD, and an agent that may use git on *)
(* its own while the executor runs.  An exception may leave the node       *)
(* between any two commands; the probe for a repository and the looks at   *)
(* HEAD may fail although there is something to see; a commit may claim    *)
(* success without landing, or land although the command failed.           *)
(*                                                                         *)
(* The contents of the workspace are split in two, the files the ticket    *)
(* declares and the rest of it, each labelled with the version of the tree *)
(* in which it last changed.                                               *)
(***************************************************************************)
EXTENDS SyndicateGraph

VARIABLES
  pc,            \* the git command about to run, "out" outside the node
  glog,          \* lines in git_log
  before,        \* id of head_before, NoCommit for None
  priorLanded,   \* `landed` when the node was entered
  blind,         \* history: head_before is None although HEAD resolved
  \* The repository.
  repo,          \* the workspace is inside a work tree
  decl, rest,    \* versions of the declared files and of everything else
  index,         \* what is staged
  head           \* the commit HEAD points to

looks == <<before, blind>>
gitLocals == <<pc, glog, priorLanded, looks>>
repository == <<repo, decl, rest, index, head>>
gitVars == <<vars, gitLocals, repository>>

NoCommit == 0
Absent == 0      \* a declared file the workspace does not have yet
Snapshot(d, r) == [decl |-> d, rest |-> r]
Nothing == Snapshot(Absent, Absent)

\* A commit: its contents and who made it.
Commit(id, snap, by) == [id |-> id, snap |-> snap, by |-> by]
Unborn == Commit(NoCommit, Nothing, "nobody")

\* A clean checkout, a repository without commits, or no repository at all.
GitInit ==
  /\ Init
  /\ pc = "out" /\ glog = 0 /\ priorLanded = NoVersion
  /\ before = NoCommit /\ blind = FALSE
  /\ repo \in BOOLEAN
  /\ decl \in {Absent, tree} /\ rest = tree
  /\ head \in {Unborn} \cup (IF repo THEN {Commit(1, Snapshot(decl, rest), "seed")} ELSE {})
  /\ index = head.snap

-----------------------------------------------------------------------------
(* What the strikes of one executor visit leave behind: edits of declared  *)
(* and of other files, perhaps a new repository, staged files or a commit  *)
(* the agent made by itself.                                               *)
AgentUsesGit ==
  /\ repo' \in {repo, TRUE}
  /\ \/ tree' = tree /\ UNCHANGED <<decl, rest>>
     \/ tree' # tree /\ decl' \in {decl, tree'} /\ rest' \in {rest, tree'}
                     /\ <<decl', rest'>> # <<decl, rest>>
  /\ index' \in {index} \cup (IF repo'
                              THEN [decl : {index.decl, decl'}, rest : {index.rest, rest'}]
                              ELSE {})
  /\ head' \in {head} \cup (IF repo' /\ index' # head.snap
                            THEN {Commit(head.id + 1, index', "agent")} ELSE {})

\* Every other node, and a mock run's oversight_git, is one step.
OtherNode ==
  /\ pc = "out"
  /\ node = "oversight_git" => mock
  /\ Next
  /\ IF node = "executor" /\ ~mock THEN AgentUsesGit ELSE UNCHANGED repository
  /\ UNCHANGED gitLocals

-----------------------------------------------------------------------------
EnterOversight ==
  /\ pc = "out" /\ node = "oversight_git" /\ ~mock
  /\ pc' = "is_repo"
  /\ glog' = 0
  /\ priorLanded' = landed
  /\ UNCHANGED <<vars, looks, repository>>

\* One command sent with run(): a line in git_log, then on to the next one.
Run(command, next) ==
  /\ pc = command
  /\ pc' = next
  /\ glog' = glog + 1
  /\ UNCHANGED priorLanded

\* Any exit code but 0 sends the node to git init.
IsRepo ==
  /\ \/ repo /\ Run("is_repo", "user_name")
     \/ Run("is_repo", "init")
  /\ UNCHANGED <<vars, looks, repository>>

\* git init may fail, leave a repository that is there alone, or, when the one
\* there belongs to a directory further up, start a new one inside it.
Initialise ==
  /\ \/ repo' \in {repo, TRUE} /\ UNCHANGED <<index, head>>
     \/ repo' = TRUE /\ index' = Nothing /\ head' = Unborn
  /\ UNCHANGED <<decl, rest>>

\* The exit code of git init is not looked at.
RunInit ==
  /\ Run("init", "user_name")
  /\ Initialise
  /\ UNCHANGED <<vars, looks>>

ConfigName ==
  /\ Run("user_name", "user_email")
  /\ UNCHANGED <<vars, looks, repository>>

\* The node returns; its whole log is appended, the router picks the next node.
Return(lines) ==
  /\ pc' = "out"
  /\ attempt_log' = attempt_log + lines
  /\ Superstep("oversight_git", oversight_git_router(ticket_status', strike_count'))
  /\ UNCHANGED <<issue_analysis, active_ticket, decision_ledger, last_validation_passed,
                 validation_diagnosis, escalation_count, run_status, tree, checked, attempts,
                 glog, priorLanded>>

Strike_Bug ==  \* the strike is not counted
  /\ UNCHANGED <<ticket_status, strike_count>>
  /\ Return(glog + 2)

\* strike(reason), after the command that has just failed.
Strike ==
  /\ strike_count' = strike_count + 1
  /\ UNCHANGED ticket_status
  /\ Return(glog + 2)

\* The second git config; a ticket without files is finished here.
ConfigEmail ==
  /\ pc = "user_email"
  /\ \/ /\ active_ticket.files
        /\ Run("user_email", "head_before")
        /\ UNCHANGED vars
     \/ /\ ~active_ticket.files
        /\ UNCHANGED <<ticket_status, strike_count, landed>>
        /\ Return(glog + 1)
  /\ UNCHANGED <<looks, repository>>

\* HEAD, or None for any exit code but 0: HEAD does not resolve in a repository
\* without commits, but the command may fail for another reason too.
HeadBefore ==
  /\ Run("head_before", "add")
  /\ before' \in {head.id, NoCommit}
  /\ blind' = (before' # head.id)
  /\ UNCHANGED <<vars, repository>>

\* git add of the declared paths; fails on a path that is not there, and may
\* fail on one that is (ignored, index locked).
GitAdd ==
  /\ pc = "add"
  /\ \/ /\ repo /\ decl # Absent
        /\ Run("add", "commit")
        /\ index' = Snapshot(decl, index.rest)
        /\ UNCHANGED <<vars, looks, repo, decl, rest, head>>
     \/ /\ Strike
        /\ UNCHANGED <<landed, looks, repository>>

\* git commit records the index, when it differs from HEAD.
Lands ==
  /\ index # head.snap
  /\ head' = Commit(head.id + 1, index, "bot")
  /\ landed' = tree

GitCommit_Bug ==  \* DONE on the word of the exit code
  /\ pc = "commit"
  /\ ticket_status' = "done"
  /\ Lands \/ UNCHANGED <<head, landed>>
  /\ UNCHANGED strike_count
  /\ Return(glog + 1)
  /\ UNCHANGED <<looks, repo, decl, rest, index>>

\* Exit 0 with or without a commit; or failure (nothing to commit, a hook),
\* which a commit that has landed may still end in (command timed out).
GitCommit ==
  /\ pc = "commit"
  /\ \/ /\ Run("commit", "head_after")
        /\ \/ Lands
           \/ UNCHANGED <<head, landed>>
        /\ UNCHANGED <<config, node, supersteps, issue_analysis, active_ticket, history,
                       verdict, budget, tree, checked, attempts>>
     \/ /\ Lands \/ UNCHANGED <<head, landed>>
        /\ Strike
  /\ UNCHANGED <<looks, repo, decl, rest, index>>

\* HEAD again: DONE if it resolves, and not to the commit captured before.
HeadAfter ==
  /\ pc = "head_after"
  /\ \/ /\ head.id \notin {NoCommit, before}
        /\ ticket_status' = "done"
        /\ UNCHANGED strike_count
        /\ Return(glog + 1)
     \/ Strike
  /\ UNCHANGED <<landed, looks, repository>>

\* The HTTP call of a command raises; the container may have run it.
OversightRaises ==
  /\ pc # "out"
  /\ node' = "raised"
  /\ pc' = "out"
  /\ \/ pc = "init" /\ Initialise /\ UNCHANGED landed
     \/ /\ pc = "add" /\ repo /\ decl # Absent
        /\ index' = Snapshot(decl, index.rest)
        /\ UNCHANGED <<repo, decl, rest, head, landed>>
     \/ pc = "commit" /\ Lands /\ UNCHANGED <<repo, decl, rest, index>>
     \/ UNCHANGED <<repository, landed>>
  /\ UNCHANGED <<config, supersteps, issue_analysis, active_ticket, history, verdict, budget,
                 tree, checked, attempts, glog, priorLanded, looks>>

OversightStep ==
  \/ EnterOversight
  \/ IsRepo
  \/ RunInit
  \/ ConfigName
  \/ ConfigEmail
  \/ HeadBefore
  \/ GitAdd
  \/ GitCommit
  \/ HeadAfter
  \/ OversightRaises

GitNext == OversightStep \/ OtherNode

\* Every command returns or raises within the client's timeout.
GitSpec == GitInit /\ [][GitNext]_gitVars /\ WF_gitVars(GitNext)

-----------------------------------------------------------------------------
\* HEAD is a commit the node itself has made, of the declared files as they are.
BotCommitted == head.by = "bot" /\ head.snap.decl = decl

\* What DONE says of git, whatever the agent did with it and whatever git commit
\* exited with: HEAD is the node's own commit of the declared files as the
\* validator saw them -- unless the first look at HEAD failed, and then it is
\* only known that some commit is there.
DoneIsCommitted ==
  ticket_status = "done" =>
    /\ checked = tree
    /\ BotCommitted \/ (blind /\ head.id # NoCommit)

\* The bot moves HEAD only over a workspace whose last validation passed and
\* that nobody has edited since.
CommitsOnlyValidated ==
  [][head' # head /\ head'.by = "bot" => last_validation_passed /\ checked = tree]_gitVars

\* Opened up, the node still does what the graph's one-step node does.
Graph == INSTANCE SyndicateGraph WITH
  landed <- IF pc = "out" THEN landed ELSE priorLanded
RefinesGraph == Graph!FairSpec

-----------------------------------------------------------------------------
(* What the repository says of itself and the code does not do.            *)

\* docs/RUNNING_FOR_REAL.md on `done`: "This is the one outcome that means the
\* issue was actually resolved"; so the commit, when there is one, holds the
\* agent's edits that the validator passed.
DoneCommitsValidatedEdits ==
  ticket_status = "done" /\ BotCommitted /\ rest > 1 => head.snap.rest = rest
=============================================================================
