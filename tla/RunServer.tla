----------------------------- MODULE RunServer ------------------------------
(***************************************************************************)
(* The service around the graph: RunRegistry (server/registry.py) and the  *)
(* routes POST /runs and GET /runs (server/app.py), over the SQLite        *)
(* checkpoints, which are all that survives a restart of the process.      *)
(*                                                                         *)
(* The event loop is single-threaded: an action is what happens between    *)
(* two awaits.  try_start is one action with the creation of the task, and *)
(* a run's last status is one with finish().  GET /runs is two: it reads   *)
(* the registry, then awaits the checkpointer.                             *)
(*                                                                         *)
(* A run's graph is reduced to the ticket_status its last checkpoint       *)
(* holds.  The ticket a server run works on declares no file, so it is     *)
(* never DONE.                                                             *)
(***************************************************************************)
EXTENDS Naturals

CONSTANTS
  Runs,           \* ids uuid4 can produce
  Clients,        \* pending GET /runs requests
  NoRun,
  MaxRestarts     \* bound of the model

ASSUME ServerAssumption == NoRun \notin Runs /\ MaxRestarts \in Nat

VARIABLES
  \* In memory.
  status,         \* RunRecord.status, "unknown" for a run not in the registry
  active,         \* _active_run_id
  listing,        \* per client: the GET /runs in progress or its answer
  \* In SQLite.
  checkpoint,     \* ticket_status of the latest checkpoint, "absent" without one
  accepted,       \* the ids used so far, over all lifetimes
  restarts

memory == <<status, active, listing>>
vars == <<memory, checkpoint, accepted, restarts>>

Known == {r \in Runs : status[r] # "unknown"}
Finished == {"completed", "escalated", "failed"}

\* A request: idle, or what it has read of the registry, or its answer (a
\* status per listed run), with the runs the answer must not miss.
Idle == [phase |-> "idle"]

Init ==
  /\ status = [r \in Runs |-> "unknown"]
  /\ active = NoRun
  /\ listing = [c \in Clients |-> Idle]
  /\ checkpoint = [r \in Runs |-> "absent"]
  /\ accepted = {}
  /\ restarts = 0

-----------------------------------------------------------------------------
CreateRun_Bug(r) ==  \* no concurrency cap
  /\ r \notin accepted /\ accepted' = accepted \cup {r}
  /\ status' = [status EXCEPT ![r] = "queued"]
  /\ active' = r
  /\ UNCHANGED <<listing, checkpoint, restarts>>

\* RunRegistry.try_start, when it does not refuse.
try_start(r) ==
  /\ active = NoRun
  /\ status' = [status EXCEPT ![r] = "queued"]
  /\ active' = r

\* create_run with a fresh id; a refused request (409) changes nothing.
CreateRun(r) ==
  /\ r \notin accepted /\ accepted' = accepted \cup {r}
  /\ try_start(r)
  /\ UNCHANGED <<listing, checkpoint, restarts>>

\* The task starts drive_run.
StartRun(r) ==
  /\ status[r] = "queued"
  /\ status' = [status EXCEPT ![r] = "running"]
  /\ UNCHANGED <<active, listing, checkpoint, accepted, restarts>>

\* The statuses a superstep may leave in the checkpoint: none until the
\* executor has returned, and ESCALATED stays.
After(saved) ==
  CASE saved = "absent"     -> {"none"}
    [] saved = "none"       -> {"none", "local_pass", "escalated"}
    [] saved = "local_pass" -> {"local_pass", "escalated"}
    [] saved = "escalated"  -> {"escalated"}

\* The graph finishes a superstep and the checkpointer saves it.
Superstep(r) ==
  /\ status[r] = "running"
  /\ \E saved \in After(checkpoint[r]) : checkpoint' = [checkpoint EXCEPT ![r] = saved]
  /\ UNCHANGED <<memory, accepted, restarts>>

Outcome(r) ==
  CASE checkpoint[r] = "local_pass" -> {"completed", "failed"}
    [] checkpoint[r] = "escalated"  -> {"escalated", "failed"}
    [] OTHER                        -> {"failed"}

\* RunRegistry.finish.
finish(r) == active' = IF active = r THEN NoRun ELSE active

EndRun_Bug(r) ==  \* the slot is released only when the run succeeds
  /\ status[r] = "running"
  /\ \E end \in Outcome(r) :
       /\ status' = [status EXCEPT ![r] = end]
       /\ active' = IF active = r /\ end # "failed" THEN NoRun ELSE active
  /\ UNCHANGED <<listing, checkpoint, accepted, restarts>>

\* drive_run ends, by completion or by an exception; _run_and_release's
\* `finally` gives the slot back.
EndRun(r) ==
  /\ status[r] = "running"
  /\ \E end \in Outcome(r) : status' = [status EXCEPT ![r] = end]
  /\ finish(r)
  /\ UNCHANGED <<listing, checkpoint, accepted, restarts>>

-----------------------------------------------------------------------------
\* list_runs up to the first await: the registry's runs.
ListBegin(c) ==
  /\ listing[c] = Idle
  /\ listing' = [listing EXCEPT ![c] =
       [phase |-> "reading",
        known |-> [r \in Known |-> status[r]],
        saved |-> {r \in Runs : checkpoint[r] # "absent"}]]
  /\ UNCHANGED <<status, active, checkpoint, accepted, restarts>>

\* The status list_runs derives from a checkpoint.
Derived(saved) ==
  CASE saved = "none"      -> "unknown"
    [] saved = "escalated" -> "escalated"
    [] OTHER               -> "completed"

ListEnd_Bug(c) ==  \* forgets the runs of earlier lifetimes
  /\ listing[c].phase = "reading"
  /\ listing' = [listing EXCEPT ![c] =
       [phase |-> "answered",
        entries |-> listing[c].known,
        prior |-> {},
        due |-> listing[c].saved \cup DOMAIN listing[c].known]]
  /\ UNCHANGED <<status, active, checkpoint, accepted, restarts>>

\* list_runs after it: the runs of the checkpoint store that were not known.
ListEnd(c) ==
  LET known == listing[c].known
      prior == {r \in Runs \ DOMAIN known : checkpoint[r] # "absent"}
  IN  /\ listing[c].phase = "reading"
      /\ listing' = [listing EXCEPT ![c] =
           [phase |-> "answered",
            entries |-> [r \in DOMAIN known \cup prior |->
                           IF r \in prior THEN Derived(checkpoint[r]) ELSE known[r]],
            prior |-> prior,
            due |-> listing[c].saved \cup DOMAIN known]]
      /\ UNCHANGED <<status, active, checkpoint, accepted, restarts>>

\* The client is done with the answer.
ListDone(c) ==
  /\ listing[c].phase = "answered"
  /\ listing' = [listing EXCEPT ![c] = Idle]
  /\ UNCHANGED <<status, active, checkpoint, accepted, restarts>>

\* The process dies and is started again (lifespan): an empty registry over
\* the same checkpoints.  Nothing resumes the run that was active.
Restart ==
  /\ restarts < MaxRestarts
  /\ restarts' = restarts + 1
  /\ status' = [r \in Runs |-> "unknown"]
  /\ active' = NoRun
  /\ listing' = [c \in Clients |-> Idle]
  /\ UNCHANGED <<checkpoint, accepted>>

RunStep(r) == StartRun(r) \/ Superstep(r) \/ EndRun(r)

Next ==
  \/ \E r \in Runs : CreateRun(r) \/ RunStep(r)
  \/ \E c \in Clients : ListBegin(c) \/ ListEnd(c) \/ ListDone(c)
  \/ Restart

\* A task is run, and its graph comes to an end (SyndicateGraph!KeepsPromise).
Fairness == \A r \in Runs : WF_vars(StartRun(r)) /\ WF_vars(EndRun(r))

Spec == Init /\ [][Next]_vars
FairSpec == Spec /\ Fairness

-----------------------------------------------------------------------------
Statuses == {"unknown", "queued", "running"} \cup Finished

TypeOK ==
  /\ status \in [Runs -> Statuses]
  /\ active \in Runs \cup {NoRun}
  /\ checkpoint \in [Runs -> {"absent", "none", "local_pass", "escalated"}]
  /\ accepted \subseteq Runs
  /\ restarts \in 0 .. MaxRestarts
  /\ DOMAIN listing = Clients
  /\ \A c \in Clients : listing[c].phase \in {"idle", "reading", "answered"}

\* The concurrency cap: the slot names the one run that is queued or running,
\* so two runs never share the sandbox, and a slot is never held by a run that
\* has ended, failed, or died with an earlier process.
SlotIsTheLiveRun ==
  \A r \in Runs : status[r] \in {"queued", "running"} <=> active = r

\* Whatever ends a run also frees the slot: POST /runs is not refused for ever.
SlotIsReleased == \A r \in Runs : active = r ~> active # r

\* GET /runs leaves out no run that the registry or the checkpoint store had
\* when the request came in, although it reads the two at different times.
ListingComplete ==
  \A c \in Clients : listing[c].phase = "answered" =>
    listing[c].due \subseteq DOMAIN listing[c].entries

-----------------------------------------------------------------------------
(* What the repository says of itself and the code does not do.            *)

\* app.py: the entries list_runs takes from the checkpoint store are "Runs from
\* a prior process lifetime".
PriorMeansPrior ==
  \A c \in Clients : listing[c].phase = "answered" =>
    \A r \in listing[c].prior : r \notin Known
=============================================================================
