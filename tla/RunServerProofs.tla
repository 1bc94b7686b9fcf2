--------------------------- MODULE RunServerProofs ---------------------------
(***************************************************************************)
(* Proofs about the run registry, for any number of runs, of requests for  *)
(* the list and of restarts: the slot is held by the one live run, and no  *)
(* listing misses a run.                                                   *)
(***************************************************************************)
EXTENDS RunServer, TLAPS

\* What a request has to answer for was there when it came in, and is still in
\* the registry's snapshot or in the checkpoint store: checkpoints are never
\* taken back.
ReadingCovers ==
  \A c \in Clients : listing[c].phase = "reading" =>
    listing[c].saved \subseteq {r \in Runs : checkpoint[r] # "absent"}

Inv == TypeOK /\ SlotIsTheLiveRun /\ ReadingCovers /\ ListingComplete

\* A superstep never takes a checkpoint back.
LEMMA CheckpointsStay ==
  ASSUME NEW saved \in {"absent", "none", "local_pass", "escalated"}, NEW after \in After(saved)
  PROVE  after \in {"none", "local_pass", "escalated"}
  BY DEF After

\* Whatever a run's checkpoint says, it ends in one of three ways.
LEMMA OutcomeFinal ==
  ASSUME NEW r \in Runs, NEW end \in Outcome(r)
  PROVE  end \in Finished
  BY DEF Outcome, Finished

\* The types, step by step.
LEMMA TypeStep == TypeOK /\ [Next]_vars => TypeOK'
<1> SUFFICES ASSUME TypeOK, [Next]_vars PROVE TypeOK'
  OBVIOUS
<1> USE ServerAssumption DEF TypeOK, Statuses
<1>1. CASE \E r \in Runs : CreateRun(r) \/ StartRun(r)
  BY <1>1 DEF CreateRun, try_start, StartRun
<1>2. ASSUME NEW r \in Runs, Superstep(r) PROVE TypeOK'
  <2>1. PICK saved \in After(checkpoint[r]) : checkpoint' = [checkpoint EXCEPT ![r] = saved]
    BY <1>2 DEF Superstep
  <2>2. saved \in {"absent", "none", "local_pass", "escalated"}
    BY <2>1, CheckpointsStay
  <2> QED BY <1>2, <2>1, <2>2 DEF Superstep, memory
<1>3. ASSUME NEW r \in Runs, EndRun(r) PROVE TypeOK'
  <2>1. PICK end \in Outcome(r) : status' = [status EXCEPT ![r] = end]
    BY <1>3 DEF EndRun
  <2>2. end \in Statuses
    BY <2>1, OutcomeFinal
  <2> QED BY <1>3, <2>1, <2>2 DEF EndRun, finish
<1>4. CASE \E c \in Clients : ListBegin(c) \/ ListEnd(c) \/ ListDone(c)
  BY <1>4 DEF ListBegin, ListEnd, ListDone, Idle
<1>5. CASE Restart
  BY <1>5 DEF Restart, Idle
<1>6. CASE UNCHANGED vars
  BY <1>6 DEF vars, memory
<1> QED BY <1>1, <1>2, <1>3, <1>4, <1>5, <1>6 DEF Next, RunStep

\* The slot follows the live run: it is taken with the first status of a run
\* and given back with its last.
LEMMA SlotStep == TypeOK /\ SlotIsTheLiveRun /\ [Next]_vars => SlotIsTheLiveRun'
<1> SUFFICES ASSUME TypeOK, SlotIsTheLiveRun, [Next]_vars PROVE SlotIsTheLiveRun'
  OBVIOUS
<1> USE ServerAssumption DEF TypeOK, SlotIsTheLiveRun
<1>1. ASSUME NEW r \in Runs, CreateRun(r) PROVE SlotIsTheLiveRun'
  BY <1>1 DEF CreateRun, try_start
<1>2. ASSUME NEW r \in Runs, StartRun(r) PROVE SlotIsTheLiveRun'
  BY <1>2 DEF StartRun
<1>3. ASSUME NEW r \in Runs, EndRun(r) PROVE SlotIsTheLiveRun'
  <2>1. PICK end \in Outcome(r) : status' = [status EXCEPT ![r] = end]
    BY <1>3 DEF EndRun
  <2>2. end \notin {"queued", "running"}
    BY <2>1, OutcomeFinal DEF Finished
  <2>3. active = r /\ active' = NoRun
    BY <1>3 DEF EndRun, finish
  <2> QED BY <2>1, <2>2, <2>3
<1>4. CASE Restart
  BY <1>4 DEF Restart
<1>5. CASE UNCHANGED <<status, active>>
  BY <1>5
<1> QED
  BY <1>1, <1>2, <1>3, <1>4, <1>5
  DEF Next, RunStep, Superstep, ListBegin, ListEnd, ListDone, vars, memory

\* Between the two halves of a listing the store can only gain runs.
LEMMA ListingStep ==
  TypeOK /\ ReadingCovers /\ ListingComplete /\ [Next]_vars => (ReadingCovers /\ ListingComplete)'
<1> SUFFICES ASSUME TypeOK, ReadingCovers, ListingComplete, [Next]_vars
             PROVE  (ReadingCovers /\ ListingComplete)'
  OBVIOUS
<1> USE DEF TypeOK, ReadingCovers, ListingComplete
<1>1. CASE UNCHANGED <<listing, checkpoint>>
  BY <1>1
<1>2. ASSUME NEW r \in Runs, Superstep(r) PROVE (ReadingCovers /\ ListingComplete)'
  <2>1. PICK saved \in After(checkpoint[r]) : checkpoint' = [checkpoint EXCEPT ![r] = saved]
    BY <1>2 DEF Superstep
  <2>2. saved # "absent"
    BY <2>1, CheckpointsStay
  <2>3. \A s \in Runs : checkpoint[s] # "absent" => checkpoint'[s] # "absent"
    BY <2>1, <2>2
  <2> QED BY <1>2, <2>3 DEF Superstep, memory
<1>3. ASSUME NEW c \in Clients, ListBegin(c) PROVE (ReadingCovers /\ ListingComplete)'
  BY <1>3 DEF ListBegin
<1>4. ASSUME NEW c \in Clients, ListEnd(c) PROVE (ReadingCovers /\ ListingComplete)'
  <2> DEFINE known == listing[c].known
             prior == {r \in Runs \ DOMAIN known : checkpoint[r] # "absent"}
             due == listing[c].saved \cup DOMAIN known
  <2>1. due \subseteq DOMAIN known \cup prior
    BY <1>4 DEF ListEnd
  <2>2. listing'[c].phase = "answered" /\ listing'[c].due = due
        /\ DOMAIN listing'[c].entries = DOMAIN known \cup prior
    BY <1>4 DEF ListEnd
  <2>3. \A d \in Clients \ {c} : listing'[d] = listing[d]
    BY <1>4 DEF ListEnd
  <2>4. checkpoint' = checkpoint
    BY <1>4 DEF ListEnd
  <2> QED BY <2>1, <2>2, <2>3, <2>4
<1>5. ASSUME NEW c \in Clients, ListDone(c) PROVE (ReadingCovers /\ ListingComplete)'
  BY <1>5 DEF ListDone, Idle
<1>6. CASE Restart
  BY <1>6 DEF Restart, Idle
<1> QED
  BY <1>1, <1>2, <1>3, <1>4, <1>5, <1>6
  DEF Next, RunStep, CreateRun, try_start, StartRun, EndRun, vars, memory

\* The server starts with an empty registry over an empty store, and every
\* step keeps the invariant.
LEMMA Invariance == Spec => []Inv
<1>1. Init => Inv
  BY ServerAssumption
  DEF Init, Inv, TypeOK, Statuses, SlotIsTheLiveRun, ReadingCovers, ListingComplete, Idle
<1>2. Inv /\ [Next]_vars => Inv'
  BY TypeStep, SlotStep, ListingStep DEF Inv
<1> QED BY <1>1, <1>2, PTL DEF Spec

\* RunRegistry: every variable keeps its type.
THEOREM TypeCorrect == Spec => []TypeOK
<1>1. Inv => TypeOK
  BY DEF Inv
<1> QED BY <1>1, Invariance, PTL

\* The concurrency cap of RunRegistry.try_start and finish: for any number of
\* runs and restarts, exactly the queued or running run holds the slot.
THEOREM SlotHeldByLiveRun == Spec => []SlotIsTheLiveRun
<1>1. Inv => SlotIsTheLiveRun
  BY DEF Inv
<1> QED BY <1>1, Invariance, PTL

\* list_runs: whatever starts, advances or ends while GET /runs awaits the
\* checkpointer, its answer has every run there was when it came in.
THEOREM ListingsComplete == Spec => []ListingComplete
<1>1. Inv => ListingComplete
  BY DEF Inv
<1> QED BY <1>1, Invariance, PTL
=============================================================================
