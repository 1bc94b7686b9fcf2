# A verification project for Syndicate

Syndicate runs a coding agent over one ticket: a LangGraph state machine plans
the ticket, lets a model edit a sandboxed workspace, validates the result,
commits it, retries a bounded number of times and otherwise escalates. A small
FastAPI service drives such runs, checkpoints them in SQLite and streams their
events to a browser. This directory holds TLA+ models of that system, the TLC
configurations that check them on small instances, and TLAPS proofs of their
safety properties for every value of the constants: of the graph, of the executor
and the git node opened and shown to implement it, of the events a run emits and
the stream that delivers them, of the registry, the page and the stub, and of the
functions that rewrite text, for texts of every length.

## The system: inventory

| Component | State | Operations | Interacts with |
|---|---|---|---|
| Agent graph (`syndicate/nodes.py`, `state.py`) | `AgentState`: ticket, log, ledger, status, verdict, strikes, escalations | eight nodes, three routers | LLM, sandbox container, checkpointer |
| Executor loop (`executor_node`, `_run_agentic_loop`, `_run_tool`, `_run_fast_checks`) | strike, feedback, conversation | LLM request, tool, fast check | LLM, container |
| Validator (`validator_node`) | verdict, diagnosis | run the verification command | container |
| Git oversight (`oversight_git_node`) | git log of the visit, HEAD before and after | git commands | the container's repository, shared with the agent |
| Issue analysis and planning (`analyzer_node`, `architect_node`) | analysis, ticket | LLM calls, manifest detection | LLM, container |
| Run driver (`server/runner.py`) | `RunRecord` bookkeeping | derive and emit events | graph, registry |
| Registry and routes (`server/registry.py`, `app.py`) | known runs, the one active slot | `POST /runs`, `GET /runs`, restart | driver, checkpoint store |
| Checkpoint store (`server/checkpointer.py`) | last state per run | save a superstep, list | SQLite |
| Event stream (`stream_run`, `RunRecord.emit`) | backlog, wake-up event, cursor per connection | emit, scan, yield, heartbeat | browsers |
| Browser (`server/static/app.js`) | selector, `lastSeq`, timeline, pill, prompt lock, State pane | attach, reconnect, poll, select, submit | routes |
| Runtime adapters (`syndicate/runtime/`) | HTTP client or in-memory mock | run a command, file access, edit a file | container |
| Scripted LLM stub (`syndicate/stub_llm.py`) | one client per conversation, its recorded requests | next turn of a script | executor |
| Verification scripts (`scripts/verify_*.py`, `scripts/smoke_*.py`) | the workspace they seed | seed, drive nodes, assert | stub, container, nodes, server |
| Command line (`scripts/run_real_issue.py`), container and firewall scripts | none of their own | start things | everything |

What is hard about it:

* Three nodes spend one strike counter, and three edges lead back to the
  executor: the bound on attempts, on LLM requests and on the length of a run
  is a property of all of them together.
* A node changes the sandbox at once and the graph's state only when it
  returns; an exception in between separates the two.
* DONE rests on git, in a repository the agent also uses, over a client that
  may lie or lose its answer.
* The executor may give up on a ticket that the validator then passes.
* Stream generators, the run and reconnecting browsers interleave at every
  `await` and `yield`; a wake-up can be lost.
* The page has up to three requests of different age on their way while the
  user changes what it shows; every handler uses its answer after an `await`.
* The process can be restarted in the middle of a run, and only the
  checkpoints survive.
* Text is redacted, cut and encoded, in an order that matters, and cut again
  at limits counted in lines, characters and bytes.
* The verification scripts are run again and again in one container, over what
  an earlier, perhaps aborted run has left there.

`PROJECT.json` lists every hazard at its line, with the properties that cover
it.

## Modules

| Module | Models | Actions |
|---|---|---|
| `TicketLifecycle` | what a run promises about its ticket, without nodes | attempt, judge, record, settle, fail |
| `SyndicateGraph` | the whole graph for one ticket | one per node, and `NodeRaises` |
| `ExecutorLoop` | the graph with `executor_node` opened | enter, begin a strike, LLM answers, tool, turn cap, fast checks, return, raise |
| `OversightGit` | the graph with `oversight_git_node` opened, and a git repository | one per git command, the agent's own use of git, raise |
| `RunEvents` | `drive_run` over the graph | start, one per streamed update, failure, completion |
| `RunServer` | registry, `POST /runs`, `GET /runs`, checkpoints, restart | create, start, superstep, end, the two halves of a listing, restart |
| `Filter` | selecting the elements of a sequence that pass a test, without recursion | (operators, used by `EventStream`) |
| `EventStream` | backlog, stream generators, browsers | emit, attach, resume, wake, heartbeat, receive, break, end of stream |
| `UiClient` | one monitor page: selector, timeline, pill, prompt | stream message and error, reconnect timer, each answer's arrival or loss, polls, select, submit |
| `UiClientMC` | the scripts of the two runs `UiClient` is checked with | |
| `Encoding` | redaction, payload cap and SSE frame; truncation of the diagnosis; `str_replace` | one per function |
| `StubLlm` | the scripted LLM: clients, turns, recorded requests | (operators, used by `StubHarness`) |
| `StubHarness` | nine scenarios of the verification scripts, driving `ExecutorLoop` with `StubLlm` | seed, drive (a step of the loop, a node, a second ticket), finish |
| `SyndicateGraphProofs`, `ExecutorLoopProofs`, `OversightGitProofs`, `RunEventsProofs`, `RunServerProofs`, `EventStreamProofs`, `UiClientProofs`, `EncodingProofs` | the inductive invariant of the module they are named for, and its theorems (`ExecutorLoopProofs` also those of `StubHarness`) | |

### SyndicateGraph

The variables are the fields of `AgentState`, LangGraph's position (`node`,
`supersteps`) and four that describe the sandbox. `node` is the node about to
run; an action applies the node's whole update and moves to the node its edge
or router chooses from the *updated* state, as LangGraph does. Data is
abstracted to what the routers and properties tell apart: a ticket is whether
it declares files and carries a verification command; the log is a number of
lines; the workspace is a version number, and `checked`, `landed` and
`validation_diagnosis` record which version a validation passed, what the
workspace was when a commit last landed, and which version a diagnosis is about.
`landed` says nothing of what the commit holds (only declared files are staged),
and DONE does not imply that it has moved: `OversightCommits` leaves both open,
because the node can be deceived (see `OversightGit`). `mock`, `issue` and the ticket are chosen in
`Init`, which covers the four callers: an issue (`run_real_issue.py`), an empty
state (`smoke_e2e_mock.py`), the server's seeded ticket, and the ticket with
declared files and a command of `smoke_e2e_real.py`. `Fresh` is the state in
which a caller hands a ticket to a node; `Init` hands it to the analyzer, the
scripts of `StubHarness` to others.

`NodeRaises` is an exception leaving a node. LangGraph drops the node's update;
the attempts made, the edits and a commit that had landed stay.

`TicketLifecycle` says what all this is for, without nodes, routers or
counters: a bounded number of attempts, judgements that are void once the
contents change, one record made after the last attempt and before the ticket
is settled, and no settlement as done or validated unless a passing
judgement still stands. `KeepsPromise` is its fair specification with `outcome`
read off END and the ticket's status, `tries` the attempts, `good` a passed
validation of the present workspace, and `recorded` the ledger. The fairness
part says that no ticket is left open, so it also stands for termination.

### ExecutorLoop and OversightGit

Both extend `SyndicateGraph`, take its steps for every other node, and split
one node into the actions between its awaits. Both are shown to implement it:
`RefinesGraph` is `SyndicateGraph`'s fair specification under a mapping that
hides what the open node has done so far (`tree` and `attempts`, or `landed`,
keep the values they had at the entry until the node returns or raises).

`OversightGit` adds the repository: whether there is one, the index, HEAD, and
the workspace split into the declared files and the rest. The agent may edit
either part, stage either part, commit or initialise a repository. Git itself
is external and modelled from how the node uses it, and the node's commands fail
and lie as follows:

* the probe `git rev-parse --is-inside-work-tree` may fail although there is a
  repository, and then `git init` runs in it, or starts a new one inside it when
  the one there belongs to a directory further up; its exit code is not looked
  at, and `git init` may fail too;
* either `git rev-parse HEAD` may fail although HEAD resolves; `blind` records
  that the first one did, in which case `head_before` is `None`;
* `git add` may fail for any reason; when it exits 0 it has copied the declared
  files to the index. This is the one command that is believed;
* `git commit` records the *whole* index if that differs from HEAD; it may exit
  0 without landing, or land and then fail;
* any command may raise, with or without its effect.

A HEAD that is read is read correctly, and nobody else uses the repository while
the node runs.

### RunEvents, RunServer, EventStream

`RunEvents` joins every graph step with what `drive_run` emits for it. The kind
of each log line is kept, because `_extract_attempts` recognises an attempt by
the text `fast_check`, which the line of the fast checks always has and an
agent's summary may have: both make the same `attempt` event. `RunServer` reduces a run to the ticket status in its last
checkpoint and follows the registry, listings and restarts; an action is what
happens between two awaits on the event loop, so `try_start` with its task, and
the final status with `finish()`, are single actions while `GET /runs` is two.
`EventStream` follows one run's events to several browsers. A generator can be
suspended in `yield` (back-pressure) or in `wait`; the run may emit at both.

A generator reads the backlog through a test. `Filter` says what such a
comprehension returns by counting (the k-th element is the one with k - 1 chosen
before it) instead of recursively as `SelectSeq` does, so that it can be
reasoned about.

### UiClient

`UiClient` is `app.js` without its layout. An action is one turn of the
browser's event loop. A fetch is answered by the server when it is sent;
`listing`, `health` and `post` hold the answer until a later turn takes it, so
answers arrive late, in any order or not at all. `init()` is a sequence of
three turns (`boot`), during which the user may already act. A run's events are
a constant script, whose frame is that of `RunEvents` (`OneTerminalEvent`), and
the stream hands the page the event after its cursor. That is what theorem
`NothingIsMissing` says of `EventStream` while the backlog is not outgrown;
theorem `EventsFew` says that no run outgrows it. At most
one `GET /runs` and one `GET /health` are on their way at a time; a submission may
follow another before that is answered. Another page may submit too; a run of an earlier lifetime is listed
first and its stream is a 404 that the page keeps retrying.

### Encoding

The functions that rewrite text before somebody reads it, one action each,
applied to every text up to a bound. A text is a sequence of characters, one
for every class of characters the code treats differently (part of a secret,
quote, backslash, line feed, carriage return, outside ASCII, any other). Two
patterns stand for the five of `_SECRET_PATTERNS`: one whose head may itself be
part of a secret and one whose head may not, which is what matters when matches
overlap or follow each other. A payload is one string; its JSON is counted in
bytes, escapes included. The envelope's other fields (`seq`, `run_id`, `ts`,
`kind`, `node`: some 180 bytes) are left out of a frame; they fit into the 200
bytes the preview leaves free, which `FrameBounded` counts twice. The
properties do not follow the code: a frame is
bounded by what its payload may take, no secret can be read in any envelope, a
diagnosis is the longest tail that fits, and an accepted edit replaces the one
place where the old text occurs (as `str.count` counts).

### StubLlm and StubHarness

`StubLlm` is the scripted model: one client per conversation, the script from
the beginning, its last turn repeated for ever, every request recorded.
`StubHarness` puts it behind `ExecutorLoop`, gives the workspace contents, and
runs the scenarios of the repository's scripts: `happy`, `cap`, `strikes` and
`context` (`verify_executor_loop_stub.py`), `step6`
(`verify_step6_validation_git.py`, its pass path and then its fail path),
`escalation` and `budget` (step 7), `ui_strikes`
(`verify_ui_stub_strikes.py`) and `smoke_mock` (`smoke_e2e_mock.py`). Each is
seeded, driven through the model's nodes, and finished. Tools, fast checks,
validation and commits, which `ExecutorLoop` leaves open, follow from the
workspace.

The modelled assertions are those about routes, statuses, verdicts, counters,
ledger and log, the clients and what they recorded, HEAD and the work tree; they
are placed by the number of nodes called so far. Those about elapsed times, the
counts of `cap-hit` lines, the strike numbers and `seq`s in events, the contents
of tool results and files, and scenario C of step 6 (a search in the source text)
have no counterpart in the model.

The scripts are run again and again in one container. A scenario starts in any
workspace that an earlier run of it can have left when it came to its end or was
stopped between two of its steps, below a directory that may or may not be in a
git repository; `ui_strikes` also starts on the checkpoint database of a complete
earlier run. Two scripts do not survive this, and the model shows how. The seed
of `step6` must commit the tests, so over the workspace of an earlier run it is
`aborted`. The run id of `ui_strikes` is fixed, so a second run resumes the
state in which the first has ended (`EndedEarlier`) and ends at once (`UiRerun`).
Left out is what a script leaves that is killed in the middle of a node's git
commands or of the server's run.

## Runs

| Run | Bounds | Shows |
|---|---|---|
| `graph` | 3 strikes (as shipped), escalation budget 0 | state is well-typed, attempts and supersteps are bounded, commits land and DONE is said only over a validated workspace, END has one ledger entry and one of three outcomes, feedback is never stale, issue tickets keep their own command, nothing happens after `advance`; the graph implements `TicketLifecycle`, fairness included |
| `executor_loop` | 3 strikes, 2 turns, 2 tools per answer | LLM requests stay within strikes x turns over all visits, conversations are well-formed for the API, each strike starts with current feedback, the loop refines the graph |
| `oversight_git` | 3 strikes, every repository state | DONE means a commit by the node that holds the validated declared files, or that the first look at HEAD had failed; commits are made of validated workspaces only; the node refines the graph |
| `run_events` | 3 strikes, escalation budget 0 | one terminal event, every strike and escalation reported, every line that mentions the fast checks once, event count below the backlog's limit, every run reaches a final status, and one other than `failed` is the graph's outcome |
| `run_server` | 3 runs, 1 listing, 1 restart | the slot names exactly the live run and comes back, listings miss no run |
| `event_stream` | 2 viewers, 4 events, backlog of 3, 1 broken connection | no duplicates, no gaps but evicted events, everyone gets the terminal event |
| `ui_client` | 2 runs of 3 events, 1 run of an earlier lifetime, 2 clicks, 1 loss | timeline and pill belong to the run on display through reconnects, late timers and changes of run; the prompt is unlocked again and the page reaches the terminal event |
| `encoding` | payloads up to 6 characters, outputs up to 7, contents up to 5 and old texts up to 3; caps of 12 bytes, 2 lines and 6 bytes | SSE frames are bounded, secrets never reach an envelope, diagnoses are the longest tail that fits, edits are exact |
| `harness` | the shipped caps: 3 strikes, 25 turns; one tool per turn, as in the scripts | the modelled assertions of the nine scenarios hold from every modelled leftover but for the two scripts that cannot be run twice, each conversation grows by its own turns only, every script ends or, for step 6, is stopped by its own seed |

The bounds are enough for the cases that matter. With three strikes a ticket
can fail in the executor, in the validator and in git in one run, and the
worst case of 15 supersteps is reached (in mock mode, with declared files). An
escalation budget of 0 is the only way a single-ticket run can exceed it: a run
escalates at most once, so with the default of 3 `HALTED_ESCALATION_BUDGET`
cannot occur. A turn cap of 2 lets a conversation end before and at the cap. A
backlog of 3 for 4 events makes eviction overlap with replay. Two clicks let a
user leave a run and come back to it, submit while attached to another, or submit
twice before the first answer; one
loss is a broken stream, or any one failed fetch. The texts of `encoding` are
long enough for a secret that overlaps the head of another, a secret cut by the end of
the preview, and one line more than the limit with a carriage return, a line
feed or a wide character on either side of the cut; the caps are small so that
such texts exceed them.

**Fairness.** The graph specifications assume weak fairness of the whole
next-state relation: a run is one coroutine whose awaits all have timeouts
(`httpx` in the runtime client, the SDK's own for the LLM), so it always goes
on or raises. `RunServer` assumes that a task is scheduled and that a running
graph ends, which is part of `KeepsPromise` of `SyndicateGraph`. `EventStream` assumes
that the run goes on, that the event loop resumes generators, that timers fire
and that a browser handles its messages and reconnects; nothing obliges a
connection to break. `UiClient` assumes that runs end, that an answer which is
not lost arrives, that timers fire and that the health poll goes on; the user
and the list poll are not obliged to act. `StubHarness` assumes that the container and the stub
answer, as its scripts do.

### Where the code and its documentation disagree

Three runs check a sentence of the repository and find a counterexample; the
findings in `PROJECT.json` quote the sentences.

| Run | What happens |
|---|---|
| `done_commits_validated_edits` | Only declared files are staged: the validated fix may be outside the commit. |
| `prior_means_prior` | A run accepted while `GET /runs` awaits the checkpointer is listed as one of an earlier process. |
| `attempt_per_strike` | An agent's summary mentions `fast_check`: its strike is reported by two `attempt` events. |

Three more disagreements have no run of their own; a property of a passing run
says what happens instead.

* The executor gives up (ESCALATED), the validator passes and the ticket declares
  no files: the run ends escalated with no escalation counted, although
  `README.md:27-28` says that a ticket which exhausts its strikes "counts against
  a run-wide budget too". This is the second case of `SettledOutcome`. With
  declared files the same path ends in DONE: the status ESCALATED that the
  executor sets is provisional.
* The first `git rev-parse HEAD` fails, which reads as "no commits yet"; then
  `git commit` exits 0 without landing, and the HEAD that was there before makes
  the ticket DONE. `nodes.py:501-505` says that DONE is "never taken on the
  process's word for it" and that a lying client means "no DONE, one strike".
  This is the second case of `DoneIsCommitted`.
* The seed of `verify_step6_validation_git.py` (line 81) has nothing to commit in
  the workspace of a complete run, and its assertion stops the script, although
  line 161 restores the fix "so re-runs of this harness start from a clean
  state". This is the exception in `ScenarioEnds`.

More observations. `advance_node` stores the whole log as the
`summary` of the ledger entry, so a closed ticket takes as much room as an open
one. In `event_stream`, an event
emitted while a generator is suspended in `yield` has its wake-up cleared
before the generator waits; delivery then depends on the heartbeat, and
`EveryoneSeesTheEnd` fails for a heartbeat that does not scan.
The probe before `git init` takes any failure for the absence of a repository,
and where the repository belongs to a directory further up, `git init` starts
another one inside it. `git commit` records whatever the agent had staged
besides the declared files, so a ticket can be DONE without a change to any
declared file. After a restart, a run interrupted after LOCAL_PASS is listed as
completed, because only the ticket status in its last checkpoint is left. In
the page, a user who chooses a run before `init()` has finished sees the cards
of that run above those of the run `init()` attaches to (the premise `~early`
of `TimelineFaithful`), and `init()` prefers a run of an earlier lifetime to a
live one, because the two formats of `created_at` are compared as text. The
State pane misses the end of a run when the refresh after the terminal event
fails or an older answer overtakes it (`app.js:182`): nothing repeats it.

About texts: the preview of an over-long payload is encoded a second time, so a
frame can be up to twice as long as the cap (`events.py:91`). A cut in the middle of
a UTF-8 character makes a diagnosis up to six bytes longer than its limit
(`nodes.py:443`). Neither the feedback of a failed fast check (`nodes.py:423`)
nor the commit message, which holds the whole log (`nodes.py:557`), is cut at
all. `str.count` does not see overlapping occurrences, so an edit may be
accepted although the old text could be meant twice (`runtime/base.py:24`).

About the scripts: `verify_ui_stub_strikes.py` keeps its checkpoint database under a fixed run
id (line 56): a second run resumes the escalated state and ends at once.
`verify_ui_concurrency.py:71` expects a 409 that does not come if the first
mock run ends before the second request is handled. `smoke_e2e_real.py:77`
counts strikes in a log that `advance_node` has joined into one line, so its
upper bound cannot fail.

## Proofs

### The graph

`SyndicateGraphProofs` proves, for every `MaxStrikes` in `Nat \ {0}` and every
`MaxEscalations` in `Nat` (assumption `BudgetAssumption`, the only one):

* `TypeCorrect`, `AttemptBudget`, `SuperstepBudget`, `DoneVerified`,
  `LedgerClosed`, `OutcomeSettled`, `FeedbackFresh`, `CommandGrounded`: the
  invariants of run `graph`;
* `AdvanceFinal`: its action property;
* `PromiseKept`: `Spec => Promise!Lifecycle`, the safety part of `KeepsPromise`.

None of the invariants is inductive. They follow from `Inv`, which says what
the code relies on at each node, in six named parts besides `TypeOK`:

* `Cost`: the supersteps used so far, in terms of the strikes spent. A full
  strike is three supersteps; the mock executor takes a turn without counting
  it, which is why the bound differs in mock mode.
* `Strain`: attempts never exceed strikes (in mock mode: strikes plus the one
  in progress), and the executor is only entered with a strike left.
* `Ledger`: the ledger is written once, by the `advance` before END, over a
  non-empty log.
* `Command`: the command of an issue ticket is there from `dispatch` on.
* `Feedback`: when the diagnosis is absent, and that it is about the current
  workspace whenever the executor is about to read it.
* `Standing`: status, verdict and budgets at each node; in particular the three
  outcomes `advance` may close, and that they send the following `dispatch` to
  END.

There is one lemma per node (`AnalyzerStep` to `RaisesStep`), each with one step
per part; `Invariance` combines them.

`PromiseKept` maps every superstep to one step of `TicketLifecycle` or to a
stutter (`StepKeepsPromise`). Besides `Inv`, before and after the step, it
needs `VerdictIsPast`: nothing is judged before it has been written, so
contents that an attempt has changed cannot count as validated.

### The registry

`RunServerProofs` proves, for any sets of runs and clients and any number of
restarts (assumption `ServerAssumption`): `TypeCorrect`, `SlotHeldByLiveRun`
and `ListingsComplete`. The slot invariant is inductive with the types:
`try_start` takes the slot in the step that queues the run, `finish` gives it
back in the step that ends it, and a restart forgets both. `ListingComplete`
needs `ReadingCovers`: what the first half of `GET /runs` owes is still in the
checkpoint store when the second half reads it, because no step takes a
checkpoint back.

### The executor and the git node, opened

`ExecutorLoopProofs` adds `LoopAssumption` (a turn cap and a number of tools per
answer that are not zero) to the graph's. `G` is `SyndicateGraphProofs` under the
refinement mapping, so its invariant and its lemmas are those of the hidden
graph. `LoopInv` is `G!Inv` and what the node's local variables mean while it
waits:

* `Tally`: attempts, log lines and versions of the workspace made in this visit,
  which is what the update will carry when the node returns. It is what makes
  each way out of the node a step the graph's one-step executor could take.
* `Dialogue`: the length of the conversation, who spoke last, and that every
  answer's tools have their results after it.
* `Bill`: each request so far is paid for by a finished strike or by a turn of
  the present conversation.
* `Informed`: what the next strike will be told.

The two sides need each other: the graph's part says with which strikes and which
diagnosis the node is entered, the locals' part that it leaves `G!Inv` intact.
`LoopRefinesGraph` is the safety part of `RefinesGraph`: `StepMaps` maps every
action to a step of the graph or to a stutter. `LoopKeepsPromise` continues the
chain to `TicketLifecycle`. `CallBudget`, `RequestsWellFormed` and
`StrikesInformed` are the invariants of run `executor_loop`.

`OversightGitProofs` is laid out in the same way. `GitInv` is `G!Inv` and

* `Progress`: how many commands have been sent at each await, so that a failed
  one returns the log the graph expects; and that only a ticket with declared
  files gets past the set-up;
* `Witnessed`: what HEAD, the index and `head_before` tell between two commands.
  `head_before` is HEAD, or `None` for a HEAD the look has missed (`Captured`);
  after the commit, either HEAD is the node's own commit of the declared files as
  they are (`BotCommitted`), whatever git's exit code was, or `Captured` still
  holds, so that only a `blind` first look can let an old HEAD pass for a new one.

From it follow `GitRefinesGraph`, `GitKeepsPromise`, `DoneCommitted` and, as an
action property, `OnlyValidatedCommits`. Its
second case cannot be dropped: `DoneIsCommitted` without it has a counterexample.

### Events and their delivery

`RunEventsProofs` uses `SyndicateGraphProofs` directly, because a run takes the
graph's own steps. `EventInv` adds `Framing` (the stream begins with
`run_started` and its one terminal event comes last), `LogRead` (the record has
read the log up to where the executor will go on, so no line is read twice or
skipped), `Told` (the attempts reported are exactly the lines of the log that
mention the fast checks, at least one per strike; and what the events say of
escalation while the ticket's status is still provisional) and `Size`. `TerminalOnce`,
`StrikesAllReported`, `EscalationTold` and `EventsFew` are the invariants of run
`run_events`, for every budget. `CompletedIsVerified` is stated only here: a run
recorded as completed has ended done or validated, with a passed validation
of the contents as they are.

`EventStreamProofs` holds for any set of viewers, any number of events and
broken connections and any backlog limit (`StreamAssumption`). What a browser
has rendered is not inductive by itself; `Flow`, that and what is on the wire,
is. `Newest` says what the backlog holds, `Cursors` that the generator's cursor
and the rest of its scan continue the flow, `InOrder` that the flow is increasing
and leaves out only what the backlog has lost. `RenderedOnce` and
`GapsAreEvictions` are the invariants of the run. `NothingIsMissing` is stated
only here: when the backlog has room for the whole run, every browser has
rendered exactly the events up to its `lastSeq`, through any number of
reconnections. The lemmas about `Filter` (`FilteredSuffix`, `FilteredCounts`) and
about counting are stated for any sequence. `EventsFew` gives the room: a run
emits at most `5 * MaxStrikes + 10` events, 25 as shipped, and the backlog
holds 2000 (`registry.py:21`).

### The page and the stub

`UiClientProofs` holds for any runs, scripts, clicks and losses; `UiAssumption`
says of a script what `TerminalOnce` says of a run's events. `TimelineTrue` and
`PillTrue` are proved together, as one action moves cursor, cards and pill; they
also need `Emissions` (no script is emitted beyond its end) and `Untouched`
(nothing is on display before `init()` has attached, since it attaches without
clearing).

The last section of `ExecutorLoopProofs` proves `ContextStaysCompact` for any
strike budget and turn cap: no conversation inherits from an earlier strike.
`RecordInv` ties the length of the conversation to the number of requests its
client has recorded.

### Texts

`EncodingProofs` proves the four invariants of run `encoding` for texts of every
length and every value of the limits (`EncodingAssumption`: they are natural
numbers, a secret and the two limits of a diagnosis are not empty, and the
preview leaves room for its marker). `CodecInv` is short, as every behaviour is one call:
a state holds a call and what the function computes for it. The rest is about
the functions, and those are recursive, so there are two things to get first.

*An equation.* A recursive function is the `CHOOSE` of a function that satisfies
its equation, and satisfies it only if some function does. `Recursion` gives that
one for every recursion in the module that goes to the right (`Count`,
`Redacted`), `Iteration` for those from the left (`splitlines`, `redact_text`),
and the lemmas named `...Equation` apply them.

*An induction.* The induction theorems of the library take an operator as a
parameter, which the provers cannot instantiate. `Induction` and `SeqInduction`
have a set in its place: a set of numbers with 0 and the next of each of its
members has all of them, and so for the texts that grow by a character. Both go
back to `LeastNumber`. With them come the facts about texts put together from
texts: `FlattenConcat`, and `Spread`, which is what `json.dumps` and `str.encode`
do to a text.

The four arguments:

* `EditExactness`: what `str.count` tells of the occurrences of a text
  (`CountTells`). It skips an occurrence that overlaps one it has counted, so it
  is 0 if and only if there is none, and at least 2 if and only if two are
  disjoint; a count of 1 leaves occurrences that all overlap, of which
  `str.replace(old, new, 1)` takes the first (`FirstOccurrence`).
* `FrameBound`: the preview is JSON, and is encoded once more. JSON has no
  character that takes more than two of its own (`Escapes`), so the frame is
  twice the preview, its marker and its quotes, for which `PreviewSlack` leaves
  room; and it has no line feed.
* `NoSecretLeaves`: redaction, escaping and cutting have in common that the
  result is put together from the right, out of pieces that hold no character
  of a secret or are one such character of the source (`Provenance`). So every
  such character has an origin, and neighbours come from neighbours
  (`Origins`); what can be read in the result could be read in the source
  (`ReadsBack`). In particular the second pattern's pass brings back no match of
  the first, and the end of a preview leaves only the beginning of a key that was
  too short in the payload itself.
* `DiagnosisIsTail`: `TailLines` says what the line limit leaves, all lines or
  so many that any longer end has a line too many; `ByteCut` that the last bytes
  of an encoding are the encoding of the longest end that fits, after at most
  three bytes of the character before it; `DecodeWhole` that decoding turns
  those into replacement characters and gives back the rest. `NoLongerEnd` puts
  the two limits together: a longer end is over one or the other.

Every inductive invariant was checked by TLC on the run's instance before it was
proved (and `EventInv` with four strikes, `NothingMissing` with a backlog of 4).

### Only model-checked

* Liveness: `RunEnds`, `SlotIsReleased`, `EveryoneSeesTheEnd`,
  `PromptComesBack`, `PageCatchesUp`, `ScenarioEnds`, and the fairness in
  `KeepsPromise` and in the two `RefinesGraph`, of which the theorems state the
  safety part.
* `ScenariosPass`: the assertions are about the shipped caps and nine concrete
  scripts, so the run covers what is modelled of them.
* The alphabets of `Encoding` and its two patterns: the theorems are about every
  text over them, not about other patterns.

## Not modelled

* Texts other than those of `Encoding`: prompts, JSON of the model's answers,
  log wording, commit messages. `_detect_verification_command` is a choice
  (found or not), and so is whether an answer parses.
* The HTTP protocol of the runtime container, SQLite, LangGraph's scheduler
  beyond "one node at a time, update at the end". Processes that the agent
  leaves running in the container after its strike.
* Eight hazards of `PROJECT.json` have no property, for the reason its note
  gives: a git strike is retried without feedback (`nodes.py:522`); a missing
  `tool_result` (`nodes.py:358`) and an aliased record of requests
  (`stub_llm.py:92`) cannot be represented in the models; an edit whose old text
  overlaps itself is accepted (`runtime/base.py:24`); the stream of a finished
  run, the reconnects to a run of an earlier lifetime and a run chosen before
  `init()` has attached are in no sentence of the repository; the State pane.
* The State pane and `GET /runs/{id}/state`, which only read; tab switching,
  layout and styling.
* The scripts that drive a live server over HTTP (reconnect, concurrency,
  persistence, checkpoint round trip: what they test is in `EventStream` and
  `RunServer`), the ones that probe the runtime client, `run_real_issue.py`,
  and the firewall and container scripts.
* The clients returned by `get_runtime_client()` are never closed; resources of
  the Python process are outside the models.

## Plan

Done: `SyndicateGraph`, `ExecutorLoop` and `OversightGit` (each composed with the
graph), `RunEvents`, `RunServer`, `EventStream`, `UiClient`, `StubLlm` and
`StubHarness`, each with the proofs of its safety properties; `TicketLifecycle`
and the refinements; `Encoding` and its proofs.

Next, in this order:

1. `RunEvents` composed with `EventStream`, so that the events delivered are
   those of a real run (the theorems `EventsFew`, `TerminalOnce` and
   `NothingIsMissing` meet at constants so far).
2. The five patterns of `_SECRET_PATTERNS`: `NoSecretLeaves` uses of the two that
   a match is a head and enough body characters, and that `[REDACTED]` has none.
3. `_detect_verification_command` as a function of the files there are.
