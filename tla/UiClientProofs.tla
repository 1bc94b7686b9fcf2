--------------------------- MODULE UiClientProofs ---------------------------
(***************************************************************************)
(* What the monitor page shows, for any runs, any scripts of events and    *)
(* any number of clicks and losses.                                        *)
(*                                                                         *)
(* The timeline and the pill are judged together by the cursor and the run *)
(* it belongs to: an action either empties all of them, leaves them alone, *)
(* or hands the page the event after the cursor.  What must be known in    *)
(* addition is that nothing is on display before init() has attached to a  *)
(* run, because init() attaches without clearing.                          *)
(***************************************************************************)
EXTENDS UiClient, TLAPS

Emissions ==
  /\ created \subseteq Runs
  /\ emitted \in [Runs -> Nat]
  /\ \A r \in Runs : emitted[r] <= Last(r)
  /\ lastSeq \in Nat

\* Before init() has attached, only a choice of the user shows anything.
Untouched ==
  boot # "done" /\ ~early =>
    currentRunId = NoRun /\ lastSeq = 0 /\ timeline = <<>> /\ pill = "idle"

UiInv == Emissions /\ Untouched /\ TimelineFaithful /\ PillFollowsRun

-----------------------------------------------------------------------------
\* A timeline that holds a run's first n events and is given the next holds
\* its first n + 1.
LEMMA OneMoreCard ==
  ASSUME NEW r, NEW n \in Nat
  PROVE  Append([i \in 1 .. n |-> <<r, i>>], <<r, n + 1>>) = [i \in 1 .. n + 1 |-> <<r, i>>]
<1> DEFINE s == [i \in 1 .. n |-> <<r, i>>]
           t == [i \in 1 .. n + 1 |-> <<r, i>>]
<1>1. s \in Seq({r} \X (1 .. n)) /\ Len(s) = n
  OBVIOUS
<1>2. t \in Seq({r} \X (1 .. n + 1)) /\ Len(t) = n + 1
  OBVIOUS
<1>3. Append(s, <<r, n + 1>>) \in Seq({r} \X (1 .. n + 1)) /\ Len(Append(s, <<r, n + 1>>)) = n + 1
  <2>1. s \in Seq({r} \X (1 .. n + 1)) /\ <<r, n + 1>> \in {r} \X (1 .. n + 1)
    OBVIOUS
  <2> QED
    BY <1>1, <2>1
<1>4. \A i \in 1 .. n + 1 : Append(s, <<r, n + 1>>)[i] = t[i]
  BY <1>1
<1> QED
  BY <1>2, <1>3, <1>4

\* A pill that tells of the first n events and is given the next tells of the
\* first n + 1, because a run's first event is no node_update.
LEMMA PillMoves ==
  ASSUME NEW s \in Seq(Kinds), s # <<>>, s[1] = "run_started",
         NEW n \in Nat, n + 1 <= Len(s), NEW text,
         n # 0 => \E i \in 1 .. n : /\ text = StatusPill(s[i], "none")
                                    /\ \A j \in i + 1 .. n : s[j] = "node_update"
  PROVE  \E i \in 1 .. n + 1 : /\ StatusPill(s[n + 1], text) = StatusPill(s[i], "none")
                               /\ \A j \in i + 1 .. n + 1 : s[j] = "node_update"
<1>1. s[n + 1] \in Kinds
  OBVIOUS
<1>2. CASE s[n + 1] # "node_update"
  <2>1. StatusPill(s[n + 1], text) = StatusPill(s[n + 1], "none")
    BY <1>1, <1>2 DEF StatusPill, Kinds
  <2>2. \A j \in (n + 1) + 1 .. n + 1 : s[j] = "node_update"
    OBVIOUS
  <2> QED
    BY <2>1, <2>2
<1>3. CASE s[n + 1] = "node_update"
  <2>1. StatusPill(s[n + 1], text) = text
    BY <1>3 DEF StatusPill
  <2>2. n # 0
    BY <1>3
  <2>3. PICK i \in 1 .. n : /\ text = StatusPill(s[i], "none")
                            /\ \A j \in i + 1 .. n : s[j] = "node_update"
    BY <2>2
  <2>4. i \in 1 .. n + 1 /\ \A j \in i + 1 .. n + 1 : s[j] = "node_update"
    BY <1>3, <2>3
  <2> QED
    BY <2>1, <2>3, <2>4
<1> QED
  BY <1>2, <1>3

\* A turn that leaves the display and its cursor alone.
LEMMA Still ==
  ASSUME UiInv, UNCHANGED <<currentRunId, lastSeq, timeline, pill>>,
         early' = early, boot' # "done" => boot # "done"
  PROVE  Untouched' /\ TimelineFaithful' /\ PillFollowsRun'
<1>1. ~early' => ~early
  OBVIOUS
<1>2. Untouched'
  BY DEF UiInv, Untouched
<1>3. TimelineFaithful'
  BY DEF UiInv, TimelineFaithful
<1>4. PillFollowsRun'
  BY DEF UiInv, PillFollowsRun
<1> QED
  BY <1>2, <1>3, <1>4

\* A turn after which nothing of a run is on display.
LEMMA Cleared ==
  ASSUME lastSeq' = 0, timeline' = <<>>, pill' \in {"idle", "queued"},
         boot' = "done" \/ early'
  PROVE  Untouched' /\ TimelineFaithful' /\ PillFollowsRun'
<1>1. Untouched'
  BY DEF Untouched
<1>2. TimelineFaithful'
  <2>1. 1 .. lastSeq' = {}
    BY SMT
  <2>2. [i \in 1 .. lastSeq' |-> <<currentRunId', i>>] = <<>>
    BY <2>1
  <2> QED
    BY <2>2 DEF TimelineFaithful
<1>3. PillFollowsRun'
  BY DEF PillFollowsRun
<1> QED
  BY <1>1, <1>2, <1>3

-----------------------------------------------------------------------------
\* Init: nothing is on display, and a run has emitted one event at most.
LEMMA InitKeeps == Init => UiInv
<1> SUFFICES ASSUME Init PROVE UiInv
  OBVIOUS
<1>1. Emissions
  <2>1. /\ created \subseteq Runs /\ lastSeq = 0
        /\ emitted \in [Runs -> 0 .. 1]
    BY DEF Init
  <2>2. \A r \in Runs : Last(r) \in Nat /\ Last(r) >= 1
    BY UiAssumption DEF Last
  <2>3. \A r \in Runs : emitted[r] <= Last(r)
    BY <2>1, <2>2
  <2> QED
    BY <2>1, <2>3 DEF Emissions
<1>2. Untouched
  BY DEF Init, Untouched
<1>3. TimelineFaithful
  <2>1. [i \in 1 .. 0 |-> <<currentRunId, i>>] = <<>>
    OBVIOUS
  <2> QED
    BY <2>1 DEF Init, TimelineFaithful
<1>4. PillFollowsRun
  BY DEF Init, PillFollowsRun
<1> QED
  BY <1>1, <1>2, <1>3, <1>4 DEF UiInv

\* The server's own steps, another page's among them.
LEMMA ServerKeeps ==
  ASSUME UiInv, NEW r \in Runs, RunEmits(r) \/ OtherPageSubmits(r)
  PROVE  UiInv'
<1>1. Emissions'
  BY DEF UiInv, Emissions, RunEmits, OtherPageSubmits, stream, Last
<1>2. /\ UNCHANGED <<currentRunId, lastSeq, timeline, pill>>
      /\ early' = early /\ boot' = boot
  BY DEF RunEmits, OtherPageSubmits, stream, shown, bounds
<1> QED
  BY <1>1, <1>2, Still DEF UiInv

\* onmessage hands the page the event after its cursor.
LEMMA OnMessageKeeps ==
  ASSUME UiInv, OnMessage
  PROVE  UiInv'
<1> DEFINE c == currentRunId
           n == lastSeq
<1>1. /\ c \in Runs /\ n \in Nat /\ n + 1 <= Last(c)
      /\ UNCHANGED <<created, emitted, boot, early, currentRunId>>
      /\ lastSeq' = n + 1
      /\ timeline' = Append(timeline, <<c, n + 1>>)
      /\ pill' = StatusPill(Script[c][n + 1], pill)
  <2>1. /\ c \in created /\ n < emitted[c]
        /\ UNCHANGED <<created, emitted, boot, early, currentRunId>>
        /\ lastSeq' = n + 1
        /\ timeline' = Append(timeline, <<c, lastSeq'>>)
        /\ pill' = StatusPill(Script[c][lastSeq'], pill)
    BY DEF OnMessage, renderCard, server, bounds
  <2>2. c \in Runs /\ n \in Nat /\ emitted[c] \in Nat /\ emitted[c] <= Last(c)
    BY <2>1 DEF UiInv, Emissions
  <2>3. Last(c) \in Nat
    BY <2>2, UiAssumption DEF Last
  <2>4. n + 1 <= Last(c)
    BY <2>1, <2>2, <2>3
  <2> QED
    BY <2>1, <2>2, <2>4
<1>2. Emissions'
  BY <1>1 DEF UiInv, Emissions, Last
<1>3. Untouched'
  BY <1>1, UiAssumption DEF UiInv, Untouched
<1>4. TimelineFaithful'
  <2> SUFFICES ASSUME ~early PROVE timeline' = [i \in 1 .. n + 1 |-> <<c, i>>]
    BY <1>1 DEF TimelineFaithful
  <2>1. timeline = [i \in 1 .. n |-> <<c, i>>]
    BY DEF UiInv, TimelineFaithful
  <2> QED
    BY <1>1, <2>1, OneMoreCard
<1>5. PillFollowsRun'
  <2> SUFFICES ASSUME ~early
               PROVE  \E i \in 1 .. n + 1 :
                        /\ pill' = StatusPill(Script[c][i], "none")
                        /\ \A j \in i + 1 .. n + 1 : Script[c][j] = "node_update"
    BY <1>1 DEF PillFollowsRun
  <2>1. n # 0 => \E i \in 1 .. n : /\ pill = StatusPill(Script[c][i], "none")
                                   /\ \A j \in i + 1 .. n : Script[c][j] = "node_update"
    BY DEF UiInv, PillFollowsRun
  <2>2. /\ Script[c] \in Seq(Kinds) /\ Script[c] # <<>> /\ Script[c][1] = "run_started"
        /\ n \in Nat /\ n + 1 <= Len(Script[c])
    BY <1>1, UiAssumption DEF Last
  <2>3. \E i \in 1 .. n + 1 :
          /\ StatusPill(Script[c][n + 1], pill) = StatusPill(Script[c][i], "none")
          /\ \A j \in i + 1 .. n + 1 : Script[c][j] = "node_update"
    BY <2>1, <2>2, PillMoves
  <2> QED
    BY <1>1, <2>3
<1> QED
  BY <1>2, <1>3, <1>4, <1>5 DEF UiInv

\* An error and the reconnect after it: the cursor is where it was.
LEMMA ReconnectKeeps ==
  ASSUME UiInv, OnError \/ \E r \in Runs \cup PriorRuns : TimerFires(r)
  PROVE  UiInv'
<1>1. /\ UNCHANGED <<created, emitted, boot, currentRunId, lastSeq, timeline, pill>>
      /\ early' = early
  BY DEF OnError, TimerFires, attachStream, server, stream, shown, bounds
<1>2. Emissions'
  BY <1>1 DEF UiInv, Emissions, Last
<1> QED
  BY <1>1, <1>2, Still DEF UiInv

\* Answers that say nothing of the display, and the polls that ask for them.
LEMMA PollsKeep ==
  ASSUME UiInv, ListArrives \/ HealthArrives \/ PollHealth \/ PollRunList \/ Submit
  PROVE  UiInv'
<1>1. /\ UNCHANGED <<emitted, currentRunId, lastSeq, timeline, pill>>
      /\ early' = early /\ created' \subseteq created \cup Runs
  BY DEF ListArrives, HealthArrives, PollHealth, PollRunList, Submit,
         server, stream, shown, bounds
<1>2. boot' # "done" => boot # "done"
  BY DEF ListArrives, HealthArrives, PollHealth, PollRunList, Submit
<1>3. Emissions'
  BY <1>1 DEF UiInv, Emissions, Last
<1> QED
  BY <1>1, <1>2, <1>3, Still DEF UiInv

\* init() attaches to the run the selector shows, without clearing, when the
\* display is as it was loaded or the user was early.
LEMMA AttachKeeps ==
  ASSUME UiInv, boot # "done", boot' = "done",
         UNCHANGED <<created, emitted, timeline, pill, early>>,
         UNCHANGED stream \/ lastSeq' = 0
  PROVE  UiInv'
<1>1. Emissions'
  BY DEF UiInv, Emissions, Last, stream
<1>2. Untouched'
  BY DEF Untouched
<1>3. CASE early
  BY <1>1, <1>2, <1>3 DEF UiInv, TimelineFaithful, PillFollowsRun
<1>4. CASE ~early
  <2>1. lastSeq = 0 /\ timeline = <<>> /\ pill = "idle"
    BY <1>4 DEF UiInv, Untouched
  <2>2. lastSeq' = 0 /\ timeline' = <<>> /\ pill' = "idle"
    BY <2>1 DEF stream
  <2> QED
    BY <1>1, <2>2, Cleared DEF UiInv
<1> QED
  BY <1>3, <1>4

\* init() goes on when health has come, or has not.
LEMMA InitAttachesKeeps ==
  ASSUME UiInv, InitAttaches \/ FetchFails
  PROVE  UiInv'
<1>1. UNCHANGED <<created, emitted, timeline, pill, early>>
  BY DEF InitAttaches, FetchFails, server, shown, bounds
<1>2. CASE boot = "health" /\ boot' = "done"
  <2>1. UNCHANGED stream \/ lastSeq' = 0
    BY DEF InitAttaches, FetchFails, attachStream
  <2> QED
    BY <1>1, <1>2, <2>1, AttachKeeps
<1>3. CASE ~(boot = "health" /\ boot' = "done")
  <2>1. UNCHANGED <<currentRunId, lastSeq>> /\ (boot' # "done" => boot # "done")
    BY <1>3 DEF InitAttaches, FetchFails, stream
  <2>2. Emissions'
    BY <1>1, <2>1 DEF UiInv, Emissions, Last
  <2> QED
    BY <1>1, <2>1, <2>2, Still DEF UiInv
<1> QED
  BY <1>2, <1>3

\* The user turns to another run, or to the one just submitted.
LEMMA ChoiceKeeps ==
  ASSUME UiInv, PostArrives \/ \E r \in Runs \cup PriorRuns : SelectRun(r)
  PROVE  UiInv'
<1>1. UNCHANGED <<created, emitted, boot>>
  BY DEF PostArrives, SelectRun, server
<1>2. CASE UNCHANGED <<timeline, pill, currentRunId, lastSeq, early>>
  <2>1. Emissions'
    BY <1>1, <1>2 DEF UiInv, Emissions, Last
  <2> QED
    BY <1>1, <1>2, <2>1, Still DEF UiInv
<1>3. CASE /\ timeline' = <<>> /\ pill' \in {"idle", "queued"} /\ lastSeq' = 0 /\ Choose
  <2>1. Emissions'
    BY <1>1, <1>3 DEF UiInv, Emissions, Last
  <2>2. boot' = "done" \/ early'
    BY <1>1, <1>3 DEF Choose
  <2> QED
    BY <1>3, <2>1, <2>2, Cleared DEF UiInv
<1> QED
  BY <1>2, <1>3 DEF PostArrives, SelectRun, attachStream, shown, stream

\* One lemma per kind of turn above, and stuttering.
LEMMA PageStep == UiInv /\ [Next]_vars => UiInv'
<1> SUFFICES ASSUME UiInv, [Next]_vars PROVE UiInv'
  OBVIOUS
<1>1. CASE Next
  BY <1>1, ServerKeeps, OnMessageKeeps, ReconnectKeeps, PollsKeep, InitAttachesKeeps,
     ChoiceKeeps DEF Next
<1>2. CASE UNCHANGED vars
  <2>1. /\ UNCHANGED <<created, emitted, boot, currentRunId, lastSeq, timeline, pill>>
        /\ early' = early
    BY <1>2 DEF vars, server, stream, shown, bounds
  <2>2. Emissions'
    BY <2>1 DEF UiInv, Emissions, Last
  <2> QED
    BY <2>1, <2>2, Still DEF UiInv
<1> QED
  BY <1>1, <1>2

\* The inductive invariant holds in every reachable state.
THEOREM PageInvariance == Spec => []UiInv
<1> QED
  BY InitKeeps, PageStep, PTL DEF Spec

\* The timeline is the events of the run on display, once each, in order and
\* without a gap, whatever streams break and answers come late.
THEOREM TimelineTrue == Spec => []TimelineFaithful
<1>1. UiInv => TimelineFaithful
  BY DEF UiInv
<1> QED
  BY <1>1, PageInvariance, PTL

\* The pill tells of that run too.
THEOREM PillTrue == Spec => []PillFollowsRun
<1>1. UiInv => PillFollowsRun
  BY DEF UiInv
<1> QED
  BY <1>1, PageInvariance, PTL

=============================================================================
