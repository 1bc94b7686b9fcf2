------------------------------ MODULE UiClient ------------------------------
(***************************************************************************)
(* One monitor page (server/static/app.js) against the service: the run    *)
(* selector, the timeline with its reconnecting stream, the status pill    *)
(* and the prompt that is locked while a run is active.  The State tab,    *)
(* which decides nothing, is left out.                                     *)
(*                                                                         *)
(* An action is one turn of the browser's event loop: a handler up to its  *)
(* next await.  A fetch is answered by the server when it is sent and the  *)
(* answer is on its way until a later turn takes it: answers can arrive    *)
(* late, in another order, after the user has moved on, or not at all.     *)
(*                                                                         *)
(* The stream hands the page the event after its cursor, which is what     *)
(* EventStream shows of it while the backlog is not outgrown (its theorem  *)
(* NothingIsMissing).  Runs of an earlier lifetime of the server are       *)
(* listed and have a state, but their stream is a 404.                     *)
(***************************************************************************)
EXTENDS Integers, Sequences, FiniteSets

CONSTANTS
  Runs,           \* runs this server can accept
  PriorRuns,      \* runs of earlier lifetimes, known by their checkpoints
  Script,         \* the kinds of the events each run emits
  NoRun,          \* null, "" or no option
  None,           \* no answer on its way
  MaxClicks,      \* bound of the model: selections and submissions
  MaxLosses       \* bound of the model: broken streams and failed fetches

\* To the pill, an attempt is what a node_update is.
Kinds == {"run_started", "node_update", "escalation", "run_completed", "run_failed"}
Terminal == {"run_completed", "run_failed"}

ASSUME UiAssumption ==
  /\ NoRun \notin Runs \cup PriorRuns /\ None \notin Runs \cup PriorRuns
  /\ Runs \cap PriorRuns = {} /\ NoRun # None
  /\ MaxClicks \in Nat /\ MaxLosses \in Nat
  \* A run's events begin and end as drive_run's do (RunEvents!OneTerminalEvent).
  /\ \A r \in Runs :
       /\ Script[r] \in Seq(Kinds) /\ Script[r] # <<>> /\ Script[r][1] = "run_started"
       /\ \A i \in DOMAIN Script[r] : Script[r][i] \in Terminal <=> i = Len(Script[r])

VARIABLES
  \* The server.
  created,        \* runs in the registry
  emitted,        \* events emitted so far, per run
  \* The page.
  boot,           \* what init() awaits: "list", "health", or it is "done"
  options,        \* the runs in the selector
  selector,       \* the selector's value
  currentRunId,
  lastSeq,
  eventSource,    \* "null", "open", or "ended" by the server
  timers,         \* pending reconnects, per run
  timeline,       \* the cards: run and seq
  pill,
  activeRunIdGlobal,
  \* Answers on their way to the page.
  listing,        \* GET /runs
  health,         \* GET /health
  posts,          \* POST /runs, each with the click that sent it
  \* Bookkeeping.
  clicks,
  losses,
  early           \* the user chose a run before init() had chosen one

server == <<created, emitted>>
stream == <<currentRunId, lastSeq, eventSource>>
shown == <<timeline, pill>>
picker == <<options, selector>>
answers == <<listing, health, posts>>
bounds == <<clicks, losses, early>>
vars == <<server, boot, picker, stream, timers, shown, activeRunIdGlobal,
          answers, bounds>>

Last(r) == Len(Script[r])

\* active_run_id: the slot is free once the terminal event is out.
ActiveRun ==
  IF \E r \in created : emitted[r] < Last(r)
  THEN CHOOSE r \in created : emitted[r] < Last(r)
  ELSE NoRun

\* The page is loaded when the server has accepted at most one run, and init()
\* has sent its first GET /runs.
Init ==
  /\ created \in SUBSET Runs
  /\ emitted \in {e \in [Runs -> 0 .. 1] : \A r \in Runs \ created : e[r] = 0}
  /\ Cardinality(created) <= 1
  /\ boot = "list"
  /\ options = {} /\ selector = NoRun
  /\ currentRunId = NoRun /\ lastSeq = 0 /\ eventSource = "null"
  /\ timers = [r \in Runs \cup PriorRuns |-> 0]
  /\ timeline = <<>> /\ pill = "idle"
  /\ activeRunIdGlobal = NoRun
  /\ listing = created \cup PriorRuns /\ health = None /\ posts = {}
  /\ clicks = 0 /\ losses = 0 /\ early = FALSE

-----------------------------------------------------------------------------
(* The server.                                                             *)
RunEmits(r) ==
  /\ r \in created /\ emitted[r] < Last(r)
  /\ emitted' = [emitted EXCEPT ![r] = @ + 1]
  /\ UNCHANGED <<created, boot, picker, stream, timers, shown, activeRunIdGlobal, answers, bounds>>

\* Another page submits a request.
OtherPageSubmits(r) ==
  /\ ActiveRun = NoRun /\ r \in Runs \ created
  /\ created' = created \cup {r}
  /\ UNCHANGED <<emitted, boot, picker, stream, timers, shown, activeRunIdGlobal, answers, bounds>>

-----------------------------------------------------------------------------
(* The page's helpers.                                                     *)
attachStream(r, afterSeq) ==
  /\ currentRunId' = r
  /\ lastSeq' = afterSeq
  /\ eventSource' = "open"

renderCard(r, e) == timeline' = Append(timeline, <<r, e>>)
setPromptActive(r) == activeRunIdGlobal' = r

\* At most one GET /runs and one GET /health are on their way at a time.
refreshRunList == listing' = IF listing = None THEN created \cup PriorRuns ELSE listing
pollHealth == health' = IF health = None THEN ActiveRun ELSE health

\* The pill's text after an event of kind k.
StatusPill(k, text) ==
  CASE k = "run_started"   -> "running"
    [] k = "run_completed" -> "completed"
    [] k = "run_failed"    -> "failed"
    [] k = "escalation"    -> "escalated"
    [] OTHER               -> text

-----------------------------------------------------------------------------
(* Stream handlers.                                                        *)

\* onmessage: card, pill, GET state, and after a terminal event (with which
\* the server ends the response) health and list.
OnMessage ==
  /\ eventSource = "open" /\ currentRunId \in created
  /\ lastSeq < emitted[currentRunId]
  /\ lastSeq' = lastSeq + 1
  /\ renderCard(currentRunId, lastSeq')
  /\ pill' = StatusPill(Script[currentRunId][lastSeq'], pill)
  /\ \/ /\ lastSeq' < Last(currentRunId)
        /\ UNCHANGED <<eventSource, listing, health>>
     \/ /\ lastSeq' = Last(currentRunId)
        /\ eventSource' = "ended"
        /\ pollHealth /\ refreshRunList
  /\ UNCHANGED <<server, boot, picker, currentRunId, timers, activeRunIdGlobal,
                 posts, bounds>>

OnError_Bug ==  \* closes the stream and does not come back
  /\ \/ /\ eventSource = "ended" \/ (eventSource = "open" /\ currentRunId \in PriorRuns)
        /\ UNCHANGED losses
     \/ /\ eventSource = "open" /\ currentRunId \notin PriorRuns
        /\ losses < MaxLosses
        /\ losses' = losses + 1
  /\ eventSource' = "null"
  /\ UNCHANGED <<server, boot, picker, currentRunId, lastSeq, timers, shown,
                 activeRunIdGlobal, answers, clicks, early>>

\* onerror: the response was refused (404), has ended, or broke.
OnError ==
  /\ \/ /\ eventSource = "ended" \/ (eventSource = "open" /\ currentRunId \in PriorRuns)
        /\ UNCHANGED losses
     \/ /\ eventSource = "open" /\ currentRunId \notin PriorRuns
        /\ losses < MaxLosses
        /\ losses' = losses + 1
  /\ eventSource' = "null"
  /\ timers' = [timers EXCEPT ![currentRunId] = @ + 1]
  /\ UNCHANGED <<server, boot, picker, currentRunId, lastSeq, shown,
                 activeRunIdGlobal, answers, clicks, early>>

TimerFires_Bug(r) ==  \* replays from the start
  /\ timers[r] > 0
  /\ timers' = [timers EXCEPT ![r] = @ - 1]
  /\ IF currentRunId = r THEN attachStream(r, 0) ELSE UNCHANGED stream
  /\ UNCHANGED <<server, boot, picker, shown, activeRunIdGlobal, answers, bounds>>

\* The reconnect, two seconds after an error.
TimerFires(r) ==
  /\ timers[r] > 0
  /\ timers' = [timers EXCEPT ![r] = @ - 1]
  /\ IF currentRunId = r THEN attachStream(r, lastSeq) ELSE UNCHANGED stream
  /\ UNCHANGED <<server, boot, picker, shown, activeRunIdGlobal, answers, bounds>>

-----------------------------------------------------------------------------
(* Answers.                                                                *)

\* What the selector shows when nothing is selected: the first option.  GET
\* /runs sorts the text of created_at downwards, and the ISO time of a prior
\* run comes before the epoch seconds of a run in the registry.
FirstOption(runs) ==
  IF runs = {} THEN {NoRun} ELSE IF PriorRuns # {} THEN PriorRuns ELSE runs

\* refreshRunList, second half; init() goes on to pollHealth.
ListArrives ==
  /\ listing # None
  /\ options' = listing
  /\ selector' \in IF selector \in listing THEN {selector}
                   ELSE IF currentRunId = NoRun THEN FirstOption(listing)
                   ELSE {IF currentRunId \in listing THEN currentRunId ELSE NoRun}
  /\ listing' = None
  /\ boot' = IF boot = "list" THEN "health" ELSE boot
  /\ IF boot = "list" THEN pollHealth ELSE UNCHANGED health
  /\ UNCHANGED <<server, stream, timers, shown, activeRunIdGlobal, posts,
                 bounds>>

HealthArrives_Bug ==  \* null is taken for "no news"
  /\ health # None
  /\ activeRunIdGlobal' = IF health = NoRun THEN activeRunIdGlobal ELSE health
  /\ health' = None
  /\ boot # "health"
  /\ UNCHANGED <<server, boot, picker, stream, timers, shown, listing,
                 posts, bounds>>

\* pollHealth, second half.
HealthArrives ==
  /\ health # None
  /\ setPromptActive(health)
  /\ health' = None
  /\ boot # "health"
  /\ UNCHANGED <<server, boot, picker, stream, timers, shown, listing,
                 posts, bounds>>

\* The same in init(), which then attaches to the run the selector shows.
InitAttaches ==
  /\ boot = "health" /\ health # None
  /\ boot' = "done"
  /\ setPromptActive(health)
  /\ health' = None
  /\ IF selector = NoRun THEN UNCHANGED stream ELSE attachStream(selector, 0)
  /\ UNCHANGED <<server, picker, timers, shown, listing, posts, bounds>>

\* A fetch fails or its answer is lost: every handler swallows the error, and
\* init() goes on.
FetchFails ==
  /\ losses < MaxLosses
  /\ losses' = losses + 1
  /\ \/ /\ listing # None /\ listing' = None
        /\ boot' = IF boot = "list" THEN "health" ELSE boot
        /\ IF boot = "list" THEN pollHealth ELSE UNCHANGED health
        /\ UNCHANGED <<posts, stream>>
     \/ /\ health # None /\ health' = None
        /\ boot' = IF boot = "health" THEN "done" ELSE boot
        /\ IF boot = "health" /\ selector # NoRun
           THEN attachStream(selector, 0) ELSE UNCHANGED stream
        /\ UNCHANGED <<listing, posts>>
     \/ /\ \E post \in posts : posts' = posts \ {post}
        /\ UNCHANGED <<boot, listing, health, stream>>
  /\ UNCHANGED <<server, picker, timers, shown, activeRunIdGlobal, clicks, early>>

\* The two setInterval timers.
PollHealth ==
  /\ boot = "done" /\ health = None
  /\ pollHealth
  /\ UNCHANGED <<server, boot, picker, stream, timers, shown, activeRunIdGlobal,
                 listing, posts, bounds>>

PollRunList ==
  /\ boot = "done" /\ listing = None
  /\ refreshRunList
  /\ UNCHANGED <<server, boot, picker, stream, timers, shown, activeRunIdGlobal,
                 health, posts, bounds>>

-----------------------------------------------------------------------------
(* The user.                                                               *)
Choose == early' = (early \/ boot # "done")

\* The selector's change event.
SelectRun(r) ==
  /\ clicks < MaxClicks /\ clicks' = clicks + 1
  /\ r \in options \ {selector}
  /\ selector' = r
  /\ \/ r = currentRunId /\ UNCHANGED <<shown, stream, early>>
     \/ /\ r # currentRunId
        /\ timeline' = <<>> /\ pill' = "idle"
        /\ attachStream(r, 0)
        /\ Choose
  /\ UNCHANGED <<server, boot, options, timers, activeRunIdGlobal, answers, losses>>

PostSent(accepted, r) ==
  posts' = posts \cup {[click |-> clicks', accepted |-> accepted, run |-> r]}

\* The prompt is submitted, perhaps before an earlier submission is answered, and
\* POST /runs accepts it or answers 409 with the active run.
Submit ==
  /\ clicks < MaxClicks /\ clicks' = clicks + 1
  /\ activeRunIdGlobal = NoRun
  /\ \/ /\ ActiveRun = NoRun
        /\ \E r \in Runs \ created : created' = created \cup {r} /\ PostSent(TRUE, r)
     \/ /\ ActiveRun # NoRun
        /\ PostSent(FALSE, ActiveRun)
        /\ UNCHANGED created
  /\ UNCHANGED <<emitted, boot, picker, stream, timers, shown, activeRunIdGlobal,
                 listing, health, losses, early>>

PostArrives_Bug ==  \* the pill still tells of the run shown before
  /\ \E post \in posts :
       /\ setPromptActive(post.run)
       /\ posts' = posts \ {post}
       /\ IF post.accepted
          THEN timeline' = <<>> /\ attachStream(post.run, 0) /\ refreshRunList /\ Choose
          ELSE UNCHANGED <<timeline, stream, listing, early>>
  /\ UNCHANGED <<server, boot, picker, pill, timers, health, clicks, losses>>

\* The submit handler after its await.
PostArrives ==
  /\ \E post \in posts :
       /\ setPromptActive(post.run)
       /\ posts' = posts \ {post}
       /\ \/ ~post.accepted /\ UNCHANGED <<shown, stream, listing, early>>
          \/ /\ post.accepted
             /\ timeline' = <<>> /\ pill' = "queued"
             /\ attachStream(post.run, 0)
             /\ refreshRunList
             /\ Choose
  /\ UNCHANGED <<server, boot, picker, timers, health, clicks, losses>>

Next ==
  \/ \E r \in Runs : RunEmits(r) \/ OtherPageSubmits(r)
  \/ OnMessage \/ OnError \/ ListArrives \/ HealthArrives
  \/ InitAttaches \/ FetchFails \/ PollHealth \/ PollRunList \/ Submit \/ PostArrives
  \/ \E r \in Runs \cup PriorRuns : TimerFires(r) \/ SelectRun(r)

\* Runs end (SyndicateGraph!KeepsPromise), answers that are not lost arrive,
\* timers fire, and the browser keeps polling; the user is not obliged to act.
Fairness ==
  /\ \A r \in Runs : WF_vars(RunEmits(r))
  /\ \A r \in Runs \cup PriorRuns : WF_vars(TimerFires(r))
  /\ WF_vars(OnMessage) /\ WF_vars(OnError)
  /\ WF_vars(ListArrives) /\ WF_vars(PostArrives)
  /\ WF_vars(HealthArrives) /\ WF_vars(InitAttaches)
  /\ WF_vars(PollHealth)

Spec == Init /\ [][Next]_vars
FairSpec == Spec /\ Fairness

-----------------------------------------------------------------------------
\* The timeline holds the events of the run on display, each once, in order and
\* without a gap up to the cursor, through reconnects, timers of runs left
\* behind and changes of run -- unless the user chose a run before init() did,
\* which then attaches without clearing.
TimelineFaithful ==
  ~early => timeline = [i \in 1 .. lastSeq |-> <<currentRunId, i>>]

\* The pill tells of the run on display: what its handled events say last, or
\* idle or queued as long as there are none.
PillFollowsRun ==
  ~early =>
    IF lastSeq = 0 THEN pill \in {"idle", "queued"}
    ELSE \E i \in 1 .. lastSeq :
           /\ pill = StatusPill(Script[currentRunId][i], "none")
           /\ \A j \in i + 1 .. lastSeq : Script[currentRunId][j] = "node_update"

\* A page is never locked out: when no run is active any more, the prompt is
\* open in the end, also when an answer that says otherwise arrives late.
PromptComesBack == <>[](activeRunIdGlobal = NoRun)

\* The page that stays with a run of this server gets to its terminal event,
\* even when the stream breaks or the run is chosen again later.
PageCatchesUp == <>[](currentRunId \in Runs => lastSeq = Last(currentRunId))

=============================================================================
