---------------------------- MODULE EventStream -----------------------------
(***************************************************************************)
(* How the events of one run reach the browsers watching it: RunRecord.emit *)
(* (server/registry.py), the generator of stream_run (server/app.py), one  *)
(* per connection, and attachStream (server/static/app.js) with its manual *)
(* reconnect.                                                              *)
(*                                                                         *)
(* The event loop is single-threaded: an action runs from one suspension   *)
(* of a generator to the next.  A generator is suspended where it waits    *)
(* for new_event and, when the socket is full, where it yields an event;   *)
(* the run may emit at either point.  A connection can break at any time   *)
(* and takes the events still on the wire with it.                         *)
(*                                                                         *)
(* An event is its seq; the last one, LastSeq, is the run_completed or     *)
(* run_failed that ends the stream.                                        *)
(***************************************************************************)
EXTENDS Integers, Sequences, Filter

CONSTANTS
  Viewers,       \* browsers attached to the run
  LastSeq,       \* number of events the run emits
  BacklogMax,    \* _BACKLOG_MAXLEN
  MaxDrops       \* bound of the model: broken connections

ASSUME StreamAssumption ==
  /\ LastSeq \in Nat \ {0}
  /\ BacklogMax \in Nat \ {0}
  /\ MaxDrops \in Nat

VARIABLES
  backlog,       \* deque(maxlen=BacklogMax)
  seq_counter,
  new_event,     \* the asyncio.Event
  \* Per connection, on the server.
  phase,         \* "off", "sending", "waiting" or "closed"
  pending,       \* events of the last scan not known to be sent
  last_sent,
  woken,         \* new_event was set while this generator was waiting
  \* Per browser.
  wire,          \* events sent and not yet handled by onmessage
  lastSeq,
  seen,          \* every event rendered so far
  drops

server == <<backlog, seq_counter, new_event>>
connection == <<phase, pending, last_sent, woken>>
browser == <<wire, lastSeq, seen>>
vars == <<server, connection, browser, drops>>

Init ==
  /\ backlog = <<>>
  /\ seq_counter = 0
  /\ new_event = FALSE
  /\ phase = [v \in Viewers |-> "off"]
  /\ pending = [v \in Viewers |-> <<>>]
  /\ last_sent = [v \in Viewers |-> 0]
  /\ woken = [v \in Viewers |-> FALSE]
  /\ wire = [v \in Viewers |-> <<>>]
  /\ lastSeq = [v \in Viewers |-> 0]
  /\ seen = [v \in Viewers |-> <<>>]
  /\ drops = 0

-----------------------------------------------------------------------------
\* deque.append: a full deque loses its oldest element.
Pushed(deque, x) ==
  LET longer == Append(deque, x)
  IN  IF Len(longer) > BacklogMax THEN Tail(longer) ELSE longer

(* next_seq and emit; Event.set resolves every waiter there is now. *)
Emit ==
  /\ seq_counter < LastSeq
  /\ seq_counter' = seq_counter + 1
  /\ backlog' = Pushed(backlog, seq_counter')
  /\ new_event' = TRUE
  /\ woken' = [v \in Viewers |-> woken[v] \/ phase[v] = "waiting"]
  /\ UNCHANGED <<phase, pending, last_sent, browser, drops>>

-----------------------------------------------------------------------------
\* The generator clears new_event and waits for it.
ClearAndWait(v) ==
  /\ new_event' = FALSE
  /\ phase' = [phase EXCEPT ![v] = "waiting"]
  /\ pending' = [pending EXCEPT ![v] = <<>>]
  /\ woken' = [woken EXCEPT ![v] = FALSE]
  /\ UNCHANGED wire

\* It yields the first of `events`, which are still to be sent.
Yield(v, events) ==
  /\ wire' = [wire EXCEPT ![v] = Append(@, Head(events))]
  /\ phase' = [phase EXCEPT ![v] = "sending"]
  /\ pending' = [pending EXCEPT ![v] = events]
  /\ UNCHANGED <<new_event, woken>>

Scan_Bug(v, after) ==  \* seq >= last_sent
  LET events == Filtered(backlog, {i \in DOMAIN backlog : backlog[i] >= after})
  IN  IF events = <<>> THEN ClearAndWait(v) ELSE Yield(v, events)

\* The top of the while loop: what the backlog holds after the cursor.
Scan(v, after) ==
  LET events == Filtered(backlog, {i \in DOMAIN backlog : backlog[i] > after})
  IN  IF events = <<>> THEN ClearAndWait(v) ELSE Yield(v, events)

Attach_Bug(v) ==  \* resumes at what the server sent, not at what arrived
  /\ phase[v] = "off"
  /\ Scan(v, last_sent[v])
  /\ UNCHANGED <<backlog, seq_counter, last_sent, lastSeq, seen, drops>>

\* attachStream opens a connection with after = lastSeq.
Attach(v) ==
  /\ phase[v] = "off"
  /\ last_sent' = [last_sent EXCEPT ![v] = lastSeq[v]]
  /\ Scan(v, lastSeq[v])
  /\ UNCHANGED <<backlog, seq_counter, lastSeq, seen, drops>>

\* The generator resumes after a yield: it moves its cursor, ends after the
\* terminal event, goes on with the rest of its scan, or waits.
Resume(v) ==
  LET sent == Head(pending[v])
      left == Tail(pending[v])
  IN  /\ phase[v] = "sending"
      /\ last_sent' = [last_sent EXCEPT ![v] = sent]
      /\ \/ /\ sent = LastSeq
            /\ phase' = [phase EXCEPT ![v] = "closed"]
            /\ pending' = [pending EXCEPT ![v] = <<>>]
            /\ UNCHANGED <<new_event, woken, wire>>
         \/ sent # LastSeq /\ left # <<>> /\ Yield(v, left)
         \/ sent # LastSeq /\ left = <<>> /\ ClearAndWait(v)
      /\ UNCHANGED <<backlog, seq_counter, lastSeq, seen, drops>>

\* new_event.wait() returns.
Wake(v) ==
  /\ phase[v] = "waiting" /\ woken[v]
  /\ Scan(v, last_sent[v])
  /\ UNCHANGED <<backlog, seq_counter, last_sent, lastSeq, seen, drops>>

Heartbeat_Bug(v) ==  \* a heartbeat without a new look at the backlog
  /\ phase[v] = "waiting" /\ ~woken[v]
  /\ new_event' = FALSE
  /\ UNCHANGED <<backlog, seq_counter, connection, browser, drops>>

\* wait_for times out: a heartbeat (which the browser ignores), and the loop
\* starts over.
Heartbeat(v) ==
  /\ phase[v] = "waiting" /\ ~woken[v]
  /\ Scan(v, last_sent[v])
  /\ UNCHANGED <<backlog, seq_counter, last_sent, lastSeq, seen, drops>>

-----------------------------------------------------------------------------
\* onmessage: render the event and keep its seq as the resume cursor.
Receive(v) ==
  /\ wire[v] # <<>>
  /\ seen' = [seen EXCEPT ![v] = Append(@, Head(wire[v]))]
  /\ lastSeq' = [lastSeq EXCEPT ![v] = Head(wire[v])]
  /\ wire' = [wire EXCEPT ![v] = Tail(@)]
  /\ UNCHANGED <<server, connection, drops>>

\* onerror because the connection broke: what was on the wire is lost, the
\* generator is cancelled, and the browser will attach again.
Break(v) ==
  /\ phase[v] # "off" /\ drops < MaxDrops
  /\ drops' = drops + 1
  /\ phase' = [phase EXCEPT ![v] = "off"]
  /\ pending' = [pending EXCEPT ![v] = <<>>]
  /\ woken' = [woken EXCEPT ![v] = FALSE]
  /\ wire' = [wire EXCEPT ![v] = <<>>]
  /\ UNCHANGED <<server, last_sent, lastSeq, seen>>

\* onerror because the server has ended the response: EventSource cannot tell
\* the difference, so the browser attaches again after the terminal event too.
EndOfStream(v) ==
  /\ phase[v] = "closed" /\ wire[v] = <<>>
  /\ phase' = [phase EXCEPT ![v] = "off"]
  /\ UNCHANGED <<server, pending, last_sent, woken, browser, drops>>

Next ==
  \/ Emit
  \/ \E v \in Viewers : \/ Attach(v)
                        \/ Resume(v)
                        \/ Wake(v)
                        \/ Heartbeat(v)
                        \/ Receive(v)
                        \/ Break(v)
                        \/ EndOfStream(v)

\* The run goes on (it is not tied to any connection), the event loop resumes
\* what can be resumed, timers fire, and the browser handles and reconnects;
\* nothing obliges a connection to break.
Fairness ==
  /\ WF_vars(Emit)
  /\ \A v \in Viewers : WF_vars(Attach(v) \/ Resume(v) \/ Wake(v) \/ Heartbeat(v)
                                \/ EndOfStream(v))
  /\ \A v \in Viewers : WF_vars(Receive(v))

Spec == Init /\ [][Next]_vars
FairSpec == Spec /\ Fairness

-----------------------------------------------------------------------------
TypeOK ==
  /\ backlog \in Seq(1 .. LastSeq) /\ Len(backlog) <= BacklogMax
  /\ seq_counter \in 0 .. LastSeq
  /\ new_event \in BOOLEAN
  /\ phase \in [Viewers -> {"off", "sending", "waiting", "closed"}]
  /\ pending \in [Viewers -> Seq(1 .. LastSeq)]
  /\ last_sent \in [Viewers -> 0 .. LastSeq]
  /\ woken \in [Viewers -> BOOLEAN]
  /\ wire \in [Viewers -> Seq(1 .. LastSeq)]
  /\ lastSeq \in [Viewers -> 0 .. LastSeq]
  /\ seen \in [Viewers -> Seq(1 .. LastSeq)]
  /\ drops \in 0 .. MaxDrops

\* "No duplicates": a browser renders every event at most once and in order,
\* through any number of reconnects and with any number of other viewers.
NoDuplicates ==
  \A v \in Viewers : \A i \in 1 .. Len(seen[v]) - 1 : seen[v][i] < seen[v][i + 1]

\* "No gaps": an event a browser has skipped is one the backlog had already
\* lost to its limit, never one lost between two connections or two scans.
GapsOnlyByEviction ==
  \A v \in Viewers : \A e \in 1 .. lastSeq[v] :
    e <= seq_counter - BacklogMax \/ \E i \in DOMAIN seen[v] : seen[v][i] = e

\* Every viewer gets the terminal event, even when an event is emitted while
\* its generator is suspended in a yield and the wake-up is cleared away: the
\* heartbeat scans again.
EveryoneSeesTheEnd == \A v \in Viewers : <>(lastSeq[v] = LastSeq)

=============================================================================
