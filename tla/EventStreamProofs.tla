------------------------- MODULE EventStreamProofs --------------------------
(***************************************************************************)
(* The stream of one run's events, for any number of viewers, events and   *)
(* broken connections, and every backlog limit.                            *)
(*                                                                         *)
(* The properties are about what a browser has rendered; what makes them   *)
(* inductive is Flow, what it has rendered and what is on the wire to it.  *)
(* The generator's cursor and the rest of its scan always continue the     *)
(* flow, and what the flow leaves out the backlog has lost.                *)
(***************************************************************************)
EXTENDS EventStream, FiniteSetTheorems, TLAPS

\* The last element of a sequence of numbers, 0 for none.
LastOf(s) == IF s = <<>> THEN 0 ELSE s[Len(s)]

Increasing(s) == \A i, j \in 1 .. Len(s) : i < j => s[i] < s[j]

Holds(s, e) == \E i \in 1 .. Len(s) : s[i] = e

\* The backlog is the newest events, all of them as long as there is room.
Newest ==
  /\ Len(backlog) <= seq_counter
  /\ Len(backlog) < BacklogMax => Len(backlog) = seq_counter
  /\ \A i \in DOMAIN backlog : backlog[i] = seq_counter - Len(backlog) + i

\* What viewer v has rendered and what is on its way.
Flow(v) == seen[v] \o wire[v]
Sent(v) == LastOf(Flow(v))

\* The cursors of both ends, and the rest of the scan, continue the flow.
Cursors(v) ==
  /\ lastSeq[v] = LastOf(seen[v])
  /\ phase[v] = "off" => wire[v] = <<>>
  /\ phase[v] \in {"waiting", "closed"} => last_sent[v] = Sent(v)
  /\ phase[v] = "sending" =>
       /\ pending[v] # <<>>
       /\ \A i \in DOMAIN pending[v] : pending[v][i] = Sent(v) + i - 1
       /\ Sent(v) + Len(pending[v]) - 1 <= seq_counter

\* The flow is in order and leaves out only what has been evicted.
InOrder(v) ==
  /\ Sent(v) <= seq_counter
  /\ Increasing(Flow(v))
  /\ \A e \in 1 .. Sent(v) : e <= seq_counter - BacklogMax \/ Holds(Flow(v), e)

Stream(v) == Cursors(v) /\ InOrder(v)
StreamInv == TypeOK /\ Newest /\ \A v \in Viewers : Stream(v)

-----------------------------------------------------------------------------
(* Lemmas about sequences of numbers. *)

\* The numbers from m + 1 to n, in order.
Following(m, n) == [k \in 1 .. n - m |-> m + k]

LEMMA IntervalSize ==
  ASSUME NEW a \in Nat, NEW b \in Nat, a <= b
  PROVE  Cardinality(a + 1 .. b) = b - a
<1>1. a + 1 \in Int /\ b \in Int
  OBVIOUS
<1>2. Cardinality(a + 1 .. b) = IF a + 1 > b THEN 0 ELSE b - (a + 1) + 1
  BY <1>1, FS_Interval, Zenon
<1> QED
  BY <1>2

\* Filtering out the first a elements leaves the others.
LEMMA FilteredSuffix ==
  ASSUME NEW S, NEW s \in Seq(S), NEW a \in 0 .. Len(s)
  PROVE  Filtered(s, a + 1 .. Len(s)) = [k \in 1 .. Len(s) - a |-> s[a + k]]
<1> DEFINE n == Len(s)
           at == a + 1 .. n
<1>1. n \in Nat /\ a \in Nat /\ a <= n
  OBVIOUS
<1> HIDE DEF n
<1>2. Cardinality(at) = n - a
  BY <1>1, IntervalSize
<1>3. ASSUME NEW i \in at PROVE Cardinality({j \in at : j <= i}) = i - a
  <2>1. i \in Nat /\ a <= i
    BY <1>1
  <2>2. {j \in at : j <= i} = a + 1 .. i
    BY <1>1, <2>1
  <2> QED
    BY <1>1, <2>1, <2>2, IntervalSize
<1>4. ASSUME NEW k \in 1 .. n - a PROVE Nth(at, k) = a + k
  <2>1. \A i \in at : Cardinality({j \in at : j <= i}) = k <=> i = a + k
    BY <1>1, <1>3
  <2>2. a + k \in at
    BY <1>1
  <2> QED
    BY <2>1, <2>2 DEF Nth
<1> HIDE DEF at
<1>5. Filtered(s, at) = [k \in 1 .. n - a |-> s[a + k]]
  BY <1>2, <1>4 DEF Filtered
<1> QED
  BY <1>5 DEF n, at

\* An element beyond the last one keeps a sequence increasing.
LEMMA IncreasingAppend ==
  ASSUME NEW s \in Seq(Nat), NEW x \in Nat, Increasing(s), LastOf(s) < x
  PROVE  /\ Append(s, x) \in Seq(Nat) /\ Increasing(Append(s, x))
         /\ LastOf(Append(s, x)) = x
         /\ Holds(Append(s, x), x)
         /\ \A e : Holds(s, e) => Holds(Append(s, x), e)
<1> DEFINE t == Append(s, x)
           n == Len(s)
<1>1. /\ t \in Seq(Nat) /\ Len(t) = n + 1 /\ t[n + 1] = x /\ n \in Nat /\ t # <<>>
      /\ \A i \in 1 .. n : t[i] = s[i] /\ s[i] \in Nat
      /\ s = <<>> => n = 0
  OBVIOUS
<1>2. \A i, j \in 1 .. n : i < j => s[i] < s[j]
  BY DEF Increasing
<1>3. n > 0 => s[n] < x
  BY <1>1 DEF LastOf
<1> HIDE DEF t, n
<1>4. \A i \in 1 .. n : s[i] < x
  <2> TAKE i \in 1 .. n
  <2>1. n \in 1 .. n /\ n > 0 /\ (i = n \/ i < n)
    BY <1>1
  <2>2. s[i] \in Nat /\ s[n] \in Nat
    BY <1>1, <2>1
  <2> QED
    BY <1>2, <1>3, <2>1, <2>2
<1>5. \A i, j \in 1 .. n + 1 : i < j => t[i] < t[j]
  <2> TAKE i, j \in 1 .. n + 1
  <2> HAVE i < j
  <2>1. i \in 1 .. n /\ (j \in 1 .. n \/ j = n + 1)
    BY <1>1
  <2> QED
    BY <1>1, <1>2, <1>4, <2>1
<1>6. Increasing(t) /\ LastOf(t) = x
  BY <1>1, <1>5 DEF Increasing, LastOf
<1>7. Holds(t, x) /\ \A e : Holds(s, e) => Holds(t, e)
  BY <1>1 DEF Holds, n
<1> QED
  BY <1>1, <1>6, <1>7 DEF t

\* A prefix of an increasing sequence is increasing, and holds whatever is not
\* beyond its last element.
LEMMA IncreasingPrefix ==
  ASSUME NEW s \in Seq(Nat), NEW u \in Seq(Nat), Increasing(u),
         Len(s) <= Len(u), \A i \in 1 .. Len(s) : s[i] = u[i]
  PROVE  /\ Increasing(s) /\ LastOf(s) <= LastOf(u)
         /\ \A e \in Nat : e > 0 /\ e <= LastOf(s) /\ Holds(u, e) => Holds(s, e)
<1> DEFINE n == Len(s)
           m == Len(u)
<1>1. /\ n \in Nat /\ m \in Nat /\ n <= m
      /\ \A i \in 1 .. n : s[i] = u[i]
      /\ \A i \in 1 .. m : u[i] \in Nat
      /\ LastOf(s) = IF n = 0 THEN 0 ELSE s[n]
      /\ LastOf(u) = IF m = 0 THEN 0 ELSE u[m]
  BY DEF LastOf
<1>2. \A i, j \in 1 .. m : i < j => u[i] < u[j]
  BY DEF Increasing
<1> HIDE DEF n, m
<1>3. Increasing(s)
  BY <1>1, <1>2 DEF Increasing, n
<1>4. LastOf(s) <= LastOf(u)
  <2>1. CASE n = 0
    BY <1>1, <2>1
  <2>2. CASE n > 0
    <3>1. n \in 1 .. m /\ m \in 1 .. m /\ (n = m \/ n < m)
      BY <1>1, <2>2
    <3>2. u[n] \in Nat /\ u[m] \in Nat /\ LastOf(s) = u[n] /\ LastOf(u) = u[m]
      BY <1>1, <2>2, <3>1
    <3> QED
      BY <1>2, <3>1, <3>2
  <2> QED
    BY <1>1, <2>1, <2>2
<1>5. ASSUME NEW e \in Nat, e > 0, e <= LastOf(s), Holds(u, e) PROVE Holds(s, e)
  <2>1. PICK i \in 1 .. m : u[i] = e
    BY <1>5 DEF Holds, m
  <2>2. n > 0 /\ n \in 1 .. m /\ LastOf(s) = u[n]
    BY <1>1, <1>5
  <2>3. i <= n
    <3> SUFFICES ASSUME n < i PROVE FALSE
      BY <1>1
    <3>1. u[n] < u[i] /\ u[n] \in Nat
      BY <1>1, <1>2, <2>2
    <3> QED
      BY <1>5, <2>1, <2>2, <3>1
  <2> QED
    BY <1>1, <2>1, <2>3 DEF Holds, n
<1> QED
  BY <1>3, <1>4, <1>5

\* What is received is moved from the wire to the browser and stays in the flow.
LEMMA FlowMoves ==
  ASSUME NEW S, NEW s \in Seq(S), NEW w \in Seq(S), w # <<>>
  PROVE  /\ Append(s, Head(w)) \o Tail(w) = s \o w
         /\ Append(s, Head(w)) \in Seq(S) /\ Tail(w) \in Seq(S) /\ Head(w) \in S
         /\ Append(s, Head(w)) # <<>>
         /\ Append(s, Head(w))[Len(Append(s, Head(w)))] = Head(w)
OBVIOUS

\* What is sent comes after what is rendered and what is on the wire.
LEMMA ConcatAppend ==
  ASSUME NEW S, NEW s \in Seq(S), NEW w \in Seq(S), NEW x \in S
  PROVE  s \o Append(w, x) = Append(s \o w, x)
OBVIOUS

\* What Tail leaves.
LEMMA TailFacts ==
  ASSUME NEW S, NEW s \in Seq(S), s # <<>>
  PROVE  /\ Tail(s) \in Seq(S) /\ Len(Tail(s)) = Len(s) - 1 /\ Head(s) = s[1] /\ Head(s) \in S
         /\ Len(s) >= 1 /\ Len(s) \in Nat
         /\ \A i \in 1 .. Len(s) - 1 : Tail(s)[i] = s[i + 1]
         /\ Tail(s) = <<>> <=> Len(s) = 1
<1>1. Len(s) >= 1 /\ Len(s) \in Nat /\ Head(s) = s[1] /\ Head(s) \in S
  OBVIOUS
<1>2. Tail(s) \in Seq(S) /\ Len(Tail(s)) = Len(s) - 1
  BY <1>1
<1>3. \A i \in 1 .. Len(s) - 1 : Tail(s)[i] = s[i + 1]
  BY <1>1
<1>4. Tail(s) = <<>> <=> Len(s) = 1
  BY <1>1, <1>2
<1> QED
  BY <1>1, <1>2, <1>3, <1>4

\* A sequence is the beginning of its concatenation with another.
LEMMA PrefixFacts ==
  ASSUME NEW S, NEW s \in Seq(S), NEW w \in Seq(S)
  PROVE  /\ Len(s) <= Len(s \o w)
         /\ \A i \in 1 .. Len(s) : s[i] = (s \o w)[i]
OBVIOUS

\* Two sequences of events make a sequence of numbers.
LEMMA ConcatTyped ==
  ASSUME NEW n \in Nat, NEW s \in Seq(1 .. n), NEW t \in Seq(1 .. n)
  PROVE  s \o t \in Seq(Nat)
<1>1. s \in Seq(Nat) /\ t \in Seq(Nat)
  OBVIOUS
<1> QED
  BY <1>1

-----------------------------------------------------------------------------
(* What a scan finds. *)

\* The numbers of a stream, and what the invariant says of one viewer.
LEMMA Numbers ==
  ASSUME StreamInv
  PROVE  /\ seq_counter \in 0 .. LastSeq /\ LastSeq \in Nat \ {0} /\ BacklogMax \in Nat \ {0}
         /\ backlog \in Seq(1 .. LastSeq) /\ Len(backlog) \in 0 .. BacklogMax
         /\ \A v \in Viewers :
              /\ Cursors(v) /\ InOrder(v)
              /\ wire[v] \in Seq(1 .. LastSeq) /\ seen[v] \in Seq(1 .. LastSeq)
              /\ pending[v] \in Seq(1 .. LastSeq)
              /\ Flow(v) \in Seq(Nat)
              /\ Sent(v) \in Nat /\ Sent(v) <= seq_counter
<1>1. /\ seq_counter \in 0 .. LastSeq /\ LastSeq \in Nat \ {0} /\ BacklogMax \in Nat \ {0}
      /\ backlog \in Seq(1 .. LastSeq) /\ Len(backlog) \in 0 .. BacklogMax
  BY StreamAssumption DEF StreamInv, TypeOK
<1>2. ASSUME NEW v \in Viewers
      PROVE  /\ Cursors(v) /\ InOrder(v)
             /\ wire[v] \in Seq(1 .. LastSeq) /\ seen[v] \in Seq(1 .. LastSeq)
             /\ pending[v] \in Seq(1 .. LastSeq)
             /\ Flow(v) \in Seq(Nat)
             /\ Sent(v) \in Nat /\ Sent(v) <= seq_counter
  <2>1. Cursors(v) /\ InOrder(v)
    BY DEF StreamInv, Stream
  <2>2. /\ wire[v] \in Seq(1 .. LastSeq) /\ seen[v] \in Seq(1 .. LastSeq)
        /\ pending[v] \in Seq(1 .. LastSeq)
    BY DEF StreamInv, TypeOK
  <2>3. Flow(v) \in Seq(Nat)
    BY <1>1, <2>2, ConcatTyped DEF Flow
  <2>4. Sent(v) \in Nat
    BY <2>3 DEF Sent, LastOf
  <2> QED
    BY <2>1, <2>2, <2>3, <2>4 DEF InOrder
<1> QED
  BY <1>1, <1>2

\* What a scan leaves out after its cursor, the backlog has lost.
LEMMA ScanFinds ==
  ASSUME StreamInv, NEW after \in 0 .. seq_counter
  PROVE  \E m \in after .. seq_counter :
           /\ Filtered(backlog, {i \in DOMAIN backlog : backlog[i] > after})
                = Following(m, seq_counter)
           /\ \A e \in after + 1 .. m : e <= seq_counter - BacklogMax
<1> DEFINE n == Len(backlog)
           lost == seq_counter - n
           a == IF after > lost THEN after - lost ELSE 0
           m == lost + a
<1>1. /\ n \in Nat /\ n <= seq_counter /\ seq_counter \in Nat /\ BacklogMax \in Nat
      /\ DOMAIN backlog = 1 .. n
      /\ \A i \in 1 .. n : backlog[i] = lost + i
      /\ n < BacklogMax => lost = 0
      /\ n <= BacklogMax
      /\ backlog \in Seq(1 .. LastSeq)
  BY Numbers DEF StreamInv, Newest
<1> HIDE DEF n
<1>2. lost \in Nat /\ a \in 0 .. n /\ m \in after .. seq_counter
      /\ (m = after \/ (m = lost /\ after < lost))
  BY <1>1
<1>3. {i \in DOMAIN backlog : backlog[i] > after} = a + 1 .. n
  BY <1>1, <1>2
<1>4. Filtered(backlog, a + 1 .. n) = [k \in 1 .. n - a |-> backlog[a + k]]
  BY <1>1, <1>2, FilteredSuffix DEF n
<1>5. [k \in 1 .. n - a |-> backlog[a + k]] = Following(m, seq_counter)
  <2>1. n - a = seq_counter - m
    BY <1>1, <1>2
  <2>2. \A k \in 1 .. n - a : backlog[a + k] = m + k
    BY <1>1, <1>2
  <2> HIDE DEF a, m
  <2> QED
    BY <2>1, <2>2 DEF Following
<1>6. \A e \in after + 1 .. m : e <= seq_counter - BacklogMax
  BY <1>1, <1>2
<1> HIDE DEF a, m
<1> QED
  BY <1>2, <1>3, <1>4, <1>5, <1>6

\* The numbers after m are a sequence of events.
LEMMA FollowingFacts ==
  ASSUME NEW m \in Nat, NEW n \in Nat, m <= n, n <= LastSeq, LastSeq \in Nat
  PROVE  /\ Following(m, n) \in Seq(1 .. LastSeq)
         /\ Len(Following(m, n)) = n - m
         /\ \A i \in 1 .. n - m : Following(m, n)[i] = m + i
         /\ Following(m, n) = <<>> <=> m = n
         /\ m < n => Head(Following(m, n)) = m + 1
<1>1. Following(m, n) \in Seq(1 .. LastSeq) /\ Len(Following(m, n)) = n - m
  BY DEF Following
<1>2. \A i \in 1 .. n - m : Following(m, n)[i] = m + i
  BY DEF Following
<1>3. Following(m, n) = <<>> <=> m = n
  BY <1>1
<1> QED
  BY <1>1, <1>2, <1>3

-----------------------------------------------------------------------------
(* How a viewer's flow changes. *)

\* A flow that nobody has touched still leaves out only what has been evicted.
LEMMA FlowKept ==
  ASSUME StreamInv, NEW v \in Viewers, seen'[v] = seen[v], wire'[v] = wire[v],
         seq_counter' \in Nat, seq_counter' >= seq_counter
  PROVE  InOrder(v)' /\ Sent(v)' = Sent(v) /\ Flow(v)' = Flow(v)
<1>1. Flow(v)' = Flow(v) /\ Sent(v)' = Sent(v)
  BY DEF Flow, Sent
<1>2. InOrder(v)'
  BY <1>1, Numbers DEF InOrder
<1> QED
  BY <1>1, <1>2

\* A viewer whom a step does not concern keeps its part of the invariant.
LEMMA Untouched ==
  ASSUME StreamInv, NEW v \in Viewers, phase'[v] = phase[v], pending'[v] = pending[v],
         last_sent'[v] = last_sent[v], wire'[v] = wire[v], lastSeq'[v] = lastSeq[v],
         seen'[v] = seen[v], seq_counter' \in Nat, seq_counter' >= seq_counter
  PROVE  Stream(v)'
<1>1. InOrder(v)' /\ Sent(v)' = Sent(v)
  BY FlowKept
<1>2. Cursors(v)'
  BY <1>1, Numbers DEF Cursors
<1> QED
  BY <1>1, <1>2 DEF Stream

\* An event beyond the flow is sent, and what it skips has been evicted.
LEMMA FlowGrows ==
  ASSUME StreamInv, NEW v \in Viewers, NEW x \in 1 .. seq_counter, Sent(v) < x,
         \A e \in Sent(v) + 1 .. x - 1 : e <= seq_counter - BacklogMax,
         seen'[v] = seen[v], wire'[v] = Append(wire[v], x), seq_counter' = seq_counter
  PROVE  InOrder(v)' /\ Sent(v)' = x
<1>1. /\ Flow(v) \in Seq(Nat) /\ seq_counter \in Nat /\ x \in Nat /\ Sent(v) \in Nat
      /\ InOrder(v)
      /\ wire[v] \in Seq(1 .. LastSeq) /\ seen[v] \in Seq(1 .. LastSeq) /\ x \in 1 .. LastSeq
  BY Numbers
<1>2. Flow(v)' = Append(Flow(v), x)
  <2>1. Flow(v)' = seen[v] \o Append(wire[v], x)
    BY DEF Flow
  <2>2. seen[v] \o Append(wire[v], x) = Append(seen[v] \o wire[v], x)
    <3> DEFINE S == 1 .. LastSeq
               s == seen[v]
               w == wire[v]
    <3>1. s \in Seq(S) /\ w \in Seq(S) /\ x \in S
      BY <1>1
    <3> HIDE DEF S, s, w
    <3>2. s \o Append(w, x) = Append(s \o w, x)
      BY <3>1, ConcatAppend
    <3> QED
      BY <3>2 DEF s, w
  <2> QED
    BY <2>1, <2>2 DEF Flow
<1>3. /\ Increasing(Append(Flow(v), x)) /\ LastOf(Append(Flow(v), x)) = x
      /\ Holds(Append(Flow(v), x), x)
      /\ \A e : Holds(Flow(v), e) => Holds(Append(Flow(v), x), e)
  BY <1>1, IncreasingAppend DEF InOrder, Sent
<1>4. Sent(v)' = x
  BY <1>2, <1>3 DEF Sent
<1>5. \A e \in 1 .. x : e <= seq_counter - BacklogMax \/ Holds(Append(Flow(v), x), e)
  <2> TAKE e \in 1 .. x
  <2>1. e \in 1 .. Sent(v) \/ e \in Sent(v) + 1 .. x - 1 \/ e = x
    BY <1>1
  <2> QED
    BY <1>1, <1>3, <2>1 DEF InOrder
<1> QED
  BY <1>1, <1>2, <1>3, <1>4, <1>5 DEF InOrder

-----------------------------------------------------------------------------
(* Every step keeps the invariant. *)

\* RunRecord.emit: the backlog stays the newest events.
LEMMA EmitStep ==
  ASSUME StreamInv, Emit
  PROVE  StreamInv'
<1>1. /\ seq_counter \in Nat /\ seq_counter < LastSeq /\ seq_counter' = seq_counter + 1
      /\ LastSeq \in Nat /\ BacklogMax \in Nat \ {0}
      /\ backlog' = Pushed(backlog, seq_counter + 1)
      /\ backlog \in Seq(1 .. LastSeq) /\ Len(backlog) \in 0 .. BacklogMax
      /\ UNCHANGED <<phase, pending, last_sent, wire, lastSeq, seen, drops>>
  BY Numbers DEF Emit, browser
<1> DEFINE n == Len(backlog)
           longer == Append(backlog, seq_counter + 1)
<1>2. /\ longer \in Seq(1 .. LastSeq) /\ Len(longer) = n + 1 /\ n \in 0 .. BacklogMax
      /\ longer[n + 1] = seq_counter + 1
      /\ \A i \in 1 .. n : longer[i] = backlog[i]
  BY <1>1
<1>3. /\ n <= seq_counter
      /\ n < BacklogMax => n = seq_counter
      /\ \A i \in 1 .. n : backlog[i] = seq_counter - n + i
  BY <1>1 DEF StreamInv, Newest
<1> HIDE DEF n, longer
<1>4. \A i \in 1 .. n + 1 : longer[i] = seq_counter - n + i
  <2> TAKE i \in 1 .. n + 1
  <2>1. i \in 1 .. n \/ (i = n + 1 /\ seq_counter - n + (n + 1) = seq_counter + 1)
    BY <1>1, <1>2
  <2>2. CASE i \in 1 .. n
    BY <1>2, <1>3, <2>2
  <2>3. CASE i = n + 1
    BY <1>2, <2>1, <2>3
  <2> QED
    BY <2>1, <2>2, <2>3
<1>5. /\ backlog' \in Seq(1 .. LastSeq) /\ Len(backlog') <= BacklogMax
      /\ Newest'
  <2>1. CASE n < BacklogMax
    <3>1. backlog' = longer
      BY <1>1, <1>2, <2>1 DEF Pushed, longer
    <3>2. DOMAIN backlog' = 1 .. n + 1 /\ Len(backlog') = n + 1
      BY <1>2, <3>1
    <3> QED
      BY <1>1, <1>2, <1>3, <1>4, <2>1, <3>1, <3>2 DEF Newest
  <2>2. CASE n = BacklogMax
    <3>1. backlog' = Tail(longer)
      BY <1>1, <1>2, <2>2 DEF Pushed, longer
    <3>2. /\ backlog' \in Seq(1 .. LastSeq) /\ Len(backlog') = n
          /\ \A i \in 1 .. n : backlog'[i] = longer[i + 1]
      <4>1. longer # <<>> /\ n \in Nat /\ (n + 1) - 1 = n
        BY <1>2
      <4> QED
        BY <1>2, <3>1, <4>1, TailFacts
    <3>3. DOMAIN backlog' = 1 .. n
      BY <3>2
    <3>4. \A i \in 1 .. n : backlog'[i] = (seq_counter + 1) - n + i
      <4> TAKE i \in 1 .. n
      <4>1. i + 1 \in 1 .. n + 1
        BY <1>2
      <4>2. longer[i + 1] = seq_counter - n + (i + 1)
        BY <1>4, <4>1
      <4> QED
        <5>1. seq_counter - n + (i + 1) = (seq_counter + 1) - n + i
          BY <1>1, <1>2
        <5> QED
          BY <3>2, <4>2, <5>1
    <3> QED
      BY <1>1, <1>2, <1>3, <2>2, <3>2, <3>3, <3>4 DEF Newest
  <2> QED
    <3>1. n < BacklogMax \/ n = BacklogMax
      BY <1>1, <1>2
    <3> QED
      BY <2>1, <2>2, <3>1
<1>6. \A v \in Viewers : Stream(v)'
  BY <1>1, Untouched
<1>7. TypeOK'
  <2>1. new_event' \in BOOLEAN /\ woken' \in [Viewers -> BOOLEAN]
    BY DEF Emit, StreamInv, TypeOK
  <2>2. seq_counter' \in 0 .. LastSeq
    BY <1>1
  <2> QED
    BY <1>1, <1>5, <2>1, <2>2 DEF StreamInv, TypeOK
<1> QED
  BY <1>5, <1>6, <1>7 DEF StreamInv

\* A step of viewer v's alone keeps the invariant if it keeps v's part of it.
LEMMA OneViewer ==
  ASSUME StreamInv, NEW v \in Viewers, Stream(v)', TypeOK', UNCHANGED <<backlog, seq_counter>>,
         \A w \in Viewers \ {v} :
           /\ phase'[w] = phase[w] /\ pending'[w] = pending[w] /\ last_sent'[w] = last_sent[w]
           /\ wire'[w] = wire[w] /\ lastSeq'[w] = lastSeq[w] /\ seen'[w] = seen[w]
  PROVE  StreamInv'
<1>1. Newest'
  BY DEF StreamInv, Newest
<1>2. ASSUME NEW w \in Viewers \ {v} PROVE Stream(w)'
  <2>1. seq_counter' \in Nat /\ seq_counter' >= seq_counter
    BY Numbers
  <2> QED
    BY <2>1, Untouched
<1> QED
  BY <1>1, <1>2 DEF StreamInv

\* A step of the generator of v: the run, the browsers and the other
\* generators stay as they are.
GeneratorStep(v) ==
  /\ last_sent' \in [Viewers -> 0 .. LastSeq]
  /\ \A w \in Viewers \ {v} : last_sent'[w] = last_sent[w]
  /\ UNCHANGED <<backlog, seq_counter, lastSeq, seen, drops>>

\* A generator may wait once its cursor is at the end of the flow.
LEMMA WaitKeepsInv ==
  ASSUME StreamInv, NEW v \in Viewers, GeneratorStep(v), ClearAndWait(v),
         last_sent'[v] = Sent(v)
  PROVE  StreamInv'
<1>1. /\ seq_counter' \in Nat /\ seq_counter' >= seq_counter
      /\ seen'[v] = seen[v] /\ wire'[v] = wire[v] /\ lastSeq'[v] = lastSeq[v]
      /\ UNCHANGED <<backlog, seq_counter>>
  BY Numbers DEF GeneratorStep, ClearAndWait
<1>2. phase'[v] = "waiting"
  BY DEF ClearAndWait, StreamInv, TypeOK
<1>3. InOrder(v)' /\ Sent(v)' = Sent(v)
  BY <1>1, FlowKept
<1>4. Cursors(v)'
  BY <1>1, <1>2, <1>3, Numbers DEF Cursors
<1>5. TypeOK'
  <2>1. new_event' \in BOOLEAN /\ woken' \in [Viewers -> BOOLEAN]
    BY DEF ClearAndWait, StreamInv, TypeOK
  <2>2. /\ phase' \in [Viewers -> {"off", "sending", "waiting", "closed"}]
        /\ pending' \in [Viewers -> Seq(1 .. LastSeq)]
        /\ wire' \in [Viewers -> Seq(1 .. LastSeq)]
    BY DEF ClearAndWait, StreamInv, TypeOK
  <2> QED
    BY <2>1, <2>2 DEF GeneratorStep, StreamInv, TypeOK
<1>6. \A w \in Viewers \ {v} :
        /\ phase'[w] = phase[w] /\ pending'[w] = pending[w] /\ last_sent'[w] = last_sent[w]
        /\ wire'[w] = wire[w] /\ lastSeq'[w] = lastSeq[w] /\ seen'[w] = seen[w]
  BY DEF ClearAndWait, GeneratorStep, StreamInv, TypeOK
<1> QED
  BY <1>1, <1>3, <1>4, <1>5, <1>6, OneViewer DEF Stream

\* A generator may send events that continue the flow, if what they skip has
\* been evicted.
LEMMA YieldKeepsInv ==
  ASSUME StreamInv, NEW v \in Viewers, NEW events \in Seq(1 .. LastSeq), events # <<>>,
         \A i \in 1 .. Len(events) : events[i] = events[1] + i - 1,
         Sent(v) < events[1], events[1] + Len(events) - 1 <= seq_counter,
         \A e \in Sent(v) + 1 .. events[1] - 1 : e <= seq_counter - BacklogMax,
         GeneratorStep(v), Yield(v, events)
  PROVE  StreamInv'
<1>1. /\ seen'[v] = seen[v] /\ lastSeq'[v] = lastSeq[v]
      /\ UNCHANGED <<backlog, seq_counter>>
      /\ seq_counter \in Nat
  BY Numbers DEF GeneratorStep
<1>2. /\ Len(events) \in Nat /\ Len(events) >= 1
      /\ Head(events) = events[1] /\ events[1] \in 1 .. LastSeq
  BY TailFacts
<1>3. events[1] \in 1 .. seq_counter
  BY <1>1, <1>2, Numbers
<1>4. /\ phase'[v] = "sending" /\ pending'[v] = events
      /\ wire'[v] = Append(wire[v], events[1])
  BY <1>2 DEF Yield, StreamInv, TypeOK
<1>5. InOrder(v)' /\ Sent(v)' = events[1]
  BY <1>1, <1>3, <1>4, FlowGrows
<1>6. Cursors(v)'
  <2>1. lastSeq'[v] = LastOf(seen'[v])
    BY <1>1, Numbers DEF Cursors
  <2>2. DOMAIN pending'[v] = 1 .. Len(events)
    BY <1>4
  <2>3. \A i \in DOMAIN pending'[v] : pending'[v][i] = Sent(v)' + i - 1
    BY <1>4, <1>5, <2>2
  <2>4. Sent(v)' + Len(pending'[v]) - 1 <= seq_counter'
    BY <1>1, <1>4, <1>5
  <2> QED
    BY <1>4, <2>1, <2>3, <2>4 DEF Cursors
<1>7. TypeOK'
  <2>1. new_event' \in BOOLEAN /\ woken' \in [Viewers -> BOOLEAN]
    BY DEF Yield, StreamInv, TypeOK
  <2>2. /\ phase' \in [Viewers -> {"off", "sending", "waiting", "closed"}]
        /\ pending' \in [Viewers -> Seq(1 .. LastSeq)]
    BY DEF Yield, StreamInv, TypeOK
  <2>3. wire' \in [Viewers -> Seq(1 .. LastSeq)]
    BY <1>2 DEF Yield, StreamInv, TypeOK
  <2> QED
    BY <2>1, <2>2, <2>3 DEF GeneratorStep, StreamInv, TypeOK
<1>8. \A w \in Viewers \ {v} :
        /\ phase'[w] = phase[w] /\ pending'[w] = pending[w] /\ last_sent'[w] = last_sent[w]
        /\ wire'[w] = wire[w] /\ lastSeq'[w] = lastSeq[w] /\ seen'[w] = seen[w]
  BY DEF Yield, GeneratorStep, StreamInv, TypeOK
<1> QED
  BY <1>1, <1>5, <1>6, <1>7, <1>8, OneViewer DEF Stream

\* The top of the loop, when the cursor is at the end of the flow.
LEMMA ScanKeepsInv ==
  ASSUME StreamInv, NEW v \in Viewers, GeneratorStep(v), Scan(v, Sent(v)),
         last_sent'[v] = Sent(v)
  PROVE  StreamInv'
<1>1. /\ Sent(v) \in 0 .. seq_counter /\ seq_counter \in Nat
      /\ seq_counter <= LastSeq /\ LastSeq \in Nat
  BY Numbers
<1>2. PICK m \in Sent(v) .. seq_counter :
        /\ Filtered(backlog, {i \in DOMAIN backlog : backlog[i] > Sent(v)})
             = Following(m, seq_counter)
        /\ \A e \in Sent(v) + 1 .. m : e <= seq_counter - BacklogMax
  BY <1>1, ScanFinds
<1> DEFINE events == Following(m, seq_counter)
<1>3. IF events = <<>> THEN ClearAndWait(v) ELSE Yield(v, events)
  BY <1>2 DEF Scan
<1>4. /\ m \in Nat /\ m <= seq_counter /\ Sent(v) <= m
      /\ events \in Seq(1 .. LastSeq)
      /\ Len(events) = seq_counter - m
      /\ \A i \in 1 .. seq_counter - m : events[i] = m + i
      /\ events = <<>> <=> m = seq_counter
  <2>1. m \in Nat /\ m <= seq_counter /\ Sent(v) <= m
    BY <1>1, <1>2
  <2> QED
    BY <1>1, <2>1, FollowingFacts
<1> HIDE DEF events
<1>5. CASE events = <<>>
  BY <1>3, <1>5, WaitKeepsInv
<1>6. CASE events # <<>>
  <2>1. m < seq_counter /\ 1 \in 1 .. seq_counter - m
    BY <1>1, <1>4, <1>6
  <2>2. events[1] = m + 1
    BY <1>4, <2>1
  <2>3. /\ \A i \in 1 .. Len(events) : events[i] = events[1] + i - 1
        /\ Sent(v) < events[1] /\ events[1] + Len(events) - 1 <= seq_counter
    BY <1>1, <1>4, <2>1, <2>2
  <2>4. \A e \in Sent(v) + 1 .. events[1] - 1 : e <= seq_counter - BacklogMax
    BY <1>2, <1>4, <2>2
  <2> QED
    BY <1>3, <1>4, <1>6, <2>3, <2>4, YieldKeepsInv
<1> QED
  BY <1>5, <1>6

\* A new connection starts at what the browser has rendered, with an empty wire.
LEMMA AttachStep ==
  ASSUME StreamInv, NEW v \in Viewers, Attach(v)
  PROVE  StreamInv'
<1>1. wire[v] = <<>> /\ lastSeq[v] = LastOf(seen[v]) /\ seen[v] \in Seq(1 .. LastSeq)
  BY Numbers DEF Attach, Cursors
<1>2. lastSeq[v] = Sent(v)
  BY <1>1 DEF Sent, Flow
<1>3. GeneratorStep(v) /\ last_sent'[v] = Sent(v)
  BY <1>2 DEF Attach, GeneratorStep, StreamInv, TypeOK
<1>4. Scan(v, Sent(v))
  BY <1>2 DEF Attach
<1> QED
  BY <1>3, <1>4, ScanKeepsInv

\* A generator that waits has sent all it knew of.
LEMMA WakeStep ==
  ASSUME StreamInv, NEW v \in Viewers, Wake(v) \/ Heartbeat(v)
  PROVE  StreamInv'
<1>1. last_sent[v] = Sent(v)
  BY Numbers DEF Wake, Heartbeat, Cursors
<1>2. GeneratorStep(v) /\ last_sent'[v] = Sent(v)
  BY <1>1 DEF Wake, Heartbeat, GeneratorStep, StreamInv, TypeOK
<1>3. Scan(v, Sent(v))
  BY <1>1 DEF Wake, Heartbeat
<1> QED
  BY <1>2, <1>3, ScanKeepsInv

\* The cursor follows what is sent; the rest of the scan comes next.
LEMMA ResumeStep ==
  ASSUME StreamInv, NEW v \in Viewers, Resume(v)
  PROVE  StreamInv'
<1> DEFINE sent == Head(pending[v])
           left == Tail(pending[v])
           n == Len(pending[v])
<1>1. /\ phase[v] = "sending" /\ pending[v] # <<>> /\ pending[v] \in Seq(1 .. LastSeq)
      /\ \A i \in 1 .. n : pending[v][i] = Sent(v) + i - 1
      /\ Sent(v) + n - 1 <= seq_counter
      /\ Sent(v) \in Nat /\ seq_counter \in Nat /\ LastSeq \in Nat
      /\ seq_counter <= LastSeq
  <2>1. phase[v] = "sending"
    BY DEF Resume
  <2>2. Cursors(v) /\ pending[v] \in Seq(1 .. LastSeq)
    BY Numbers
  <2>3. DOMAIN pending[v] = 1 .. n
    BY <2>2
  <2>4. /\ pending[v] # <<>> /\ \A i \in 1 .. n : pending[v][i] = Sent(v) + i - 1
        /\ Sent(v) + n - 1 <= seq_counter
    BY <2>1, <2>2, <2>3 DEF Cursors
  <2> QED
    BY <2>1, <2>2, <2>4, Numbers
<1>2. /\ n \in Nat /\ n >= 1 /\ sent = pending[v][1] /\ sent \in 1 .. LastSeq
      /\ left \in Seq(1 .. LastSeq) /\ Len(left) = n - 1
      /\ \A i \in 1 .. n - 1 : left[i] = pending[v][i + 1]
      /\ left = <<>> <=> n = 1
  BY <1>1, TailFacts
<1>3. sent = Sent(v)
  BY <1>1, <1>2
<1>4. /\ last_sent' = [last_sent EXCEPT ![v] = sent]
      /\ UNCHANGED <<backlog, seq_counter, lastSeq, seen, drops>>
      /\ \/ /\ phase' = [phase EXCEPT ![v] = "closed"]
            /\ pending' = [pending EXCEPT ![v] = <<>>]
            /\ UNCHANGED <<new_event, woken, wire>>
         \/ left # <<>> /\ Yield(v, left)
         \/ ClearAndWait(v)
  BY DEF Resume
<1> HIDE DEF sent, left, n
<1>5. GeneratorStep(v) /\ last_sent'[v] = Sent(v)
  BY <1>2, <1>3, <1>4 DEF GeneratorStep, StreamInv, TypeOK
<1>6. CASE /\ phase' = [phase EXCEPT ![v] = "closed"]
           /\ pending' = [pending EXCEPT ![v] = <<>>]
           /\ UNCHANGED <<new_event, woken, wire>>
  <2>1. /\ seq_counter' \in Nat /\ seq_counter' >= seq_counter
        /\ seen'[v] = seen[v] /\ wire'[v] = wire[v] /\ lastSeq'[v] = lastSeq[v]
        /\ UNCHANGED <<backlog, seq_counter>>
    BY <1>1, <1>4, <1>6
  <2>2. InOrder(v)' /\ Sent(v)' = Sent(v)
    BY <2>1, FlowKept
  <2>3. phase'[v] = "closed"
    BY <1>6 DEF StreamInv, TypeOK
  <2>4. Cursors(v)'
    BY <1>5, <2>1, <2>2, <2>3, Numbers DEF Cursors
  <2>5. TypeOK'
    <3>1. new_event' \in BOOLEAN /\ woken' \in [Viewers -> BOOLEAN]
      BY <1>6 DEF StreamInv, TypeOK
    <3>2. /\ phase' \in [Viewers -> {"off", "sending", "waiting", "closed"}]
          /\ pending' \in [Viewers -> Seq(1 .. LastSeq)]
      BY <1>6 DEF StreamInv, TypeOK
    <3> QED
      BY <1>4, <1>5, <1>6, <3>1, <3>2 DEF GeneratorStep, StreamInv, TypeOK
  <2>6. \A w \in Viewers \ {v} :
          /\ phase'[w] = phase[w] /\ pending'[w] = pending[w] /\ last_sent'[w] = last_sent[w]
          /\ wire'[w] = wire[w] /\ lastSeq'[w] = lastSeq[w] /\ seen'[w] = seen[w]
    BY <1>4, <1>6 DEF StreamInv, TypeOK
  <2> QED
    BY <2>1, <2>2, <2>4, <2>5, <2>6, OneViewer DEF Stream
<1>7. CASE left # <<>> /\ Yield(v, left)
  <2>1. n - 1 >= 1 /\ 1 \in 1 .. n - 1
    BY <1>2, <1>7
  <2>2. \A i \in 1 .. n - 1 : left[i] = Sent(v) + i
    <3> TAKE i \in 1 .. n - 1
    <3>1. i + 1 \in 1 .. n /\ left[i] = pending[v][i + 1]
      BY <1>2
    <3>2. left[i] = Sent(v) + (i + 1) - 1
      BY <1>1, <3>1
    <3> QED
      BY <1>1, <1>2, <3>2
  <2>3. left[1] = Sent(v) + 1
    BY <2>1, <2>2
  <2>4. /\ \A i \in 1 .. Len(left) : left[i] = left[1] + i - 1
        /\ Sent(v) < left[1] /\ left[1] + Len(left) - 1 <= seq_counter
        /\ \A e \in Sent(v) + 1 .. left[1] - 1 : e <= seq_counter - BacklogMax
    <3>1. Sent(v) \in Nat /\ seq_counter \in Nat /\ n \in Nat /\ Sent(v) + n - 1 <= seq_counter
          /\ Len(left) = n - 1 /\ left[1] = Sent(v) + 1
      BY <1>1, <1>2, <2>3
    <3>2. \A i \in 1 .. n - 1 : (Sent(v) + 1) + i - 1 = Sent(v) + i
      BY <3>1
    <3>3. Sent(v) < left[1] /\ left[1] + Len(left) - 1 <= seq_counter
      BY <3>1
    <3>4. \A e \in Sent(v) + 1 .. left[1] - 1 : e <= seq_counter - BacklogMax
      BY <3>1
    <3> QED
      BY <2>2, <3>1, <3>2, <3>3, <3>4
  <2> QED
    BY <1>2, <1>5, <1>7, <2>4, YieldKeepsInv
<1>8. CASE ClearAndWait(v)
  BY <1>5, <1>8, WaitKeepsInv
<1> QED
  BY <1>4, <1>6, <1>7, <1>8

\* What has been rendered is in order too, and leaves out only what has been
\* evicted: it is the flow without what is on the wire.
Rendered(v) ==
  /\ Increasing(seen[v]) /\ LastOf(seen[v]) \in Nat /\ LastOf(seen[v]) <= Sent(v)
  /\ \A e \in 1 .. LastOf(seen[v]) : e <= seq_counter - BacklogMax \/ Holds(seen[v], e)

\* The flow's order and completeness carry over to its beginning.
LEMMA SeenInOrder ==
  ASSUME StreamInv, NEW v \in Viewers
  PROVE  Rendered(v)
<1>1. /\ seen[v] \in Seq(1 .. LastSeq) /\ wire[v] \in Seq(1 .. LastSeq) /\ LastSeq \in Nat
      /\ Flow(v) \in Seq(Nat) /\ InOrder(v) /\ Sent(v) \in Nat /\ seq_counter \in Nat
  BY Numbers
<1>2. seen[v] \in Seq(Nat) /\ LastOf(seen[v]) \in Nat
  BY <1>1 DEF LastOf
<1>3. Len(seen[v]) <= Len(Flow(v)) /\ \A i \in 1 .. Len(seen[v]) : seen[v][i] = Flow(v)[i]
  BY <1>1, PrefixFacts DEF Flow
<1>4. /\ Increasing(seen[v]) /\ LastOf(seen[v]) <= Sent(v)
      /\ \A e \in Nat : e > 0 /\ e <= LastOf(seen[v]) /\ Holds(Flow(v), e) => Holds(seen[v], e)
  BY <1>1, <1>2, <1>3, IncreasingPrefix DEF InOrder, Sent
<1>5. \A e \in 1 .. LastOf(seen[v]) : e <= seq_counter - BacklogMax \/ Holds(seen[v], e)
  <2> TAKE e \in 1 .. LastOf(seen[v])
  <2>1. e \in Nat /\ e > 0 /\ e <= LastOf(seen[v]) /\ e \in 1 .. Sent(v)
    BY <1>1, <1>2, <1>4
  <2>2. e <= seq_counter - BacklogMax \/ Holds(Flow(v), e)
    BY <1>1, <2>1 DEF InOrder
  <2> QED
    BY <1>4, <2>1, <2>2
<1> QED
  BY <1>2, <1>4, <1>5 DEF Rendered

\* onmessage moves the event from the wire to the browser.
LEMMA ReceiveStep ==
  ASSUME StreamInv, NEW v \in Viewers, Receive(v)
  PROVE  StreamInv'
<1> DEFINE S == 1 .. LastSeq
           s == seen[v]
           w == wire[v]
<1>1. s \in Seq(S) /\ w \in Seq(S) /\ w # <<>> /\ Cursors(v) /\ InOrder(v)
  BY Numbers DEF Receive
<1>2. /\ seen' = [seen EXCEPT ![v] = Append(s, Head(w))]
      /\ lastSeq' = [lastSeq EXCEPT ![v] = Head(w)]
      /\ wire' = [wire EXCEPT ![v] = Tail(w)]
      /\ UNCHANGED <<backlog, seq_counter, new_event, phase, pending, last_sent, woken, drops>>
  BY DEF Receive, server, connection
<1>3. seen'[v] = Append(s, Head(w)) /\ wire'[v] = Tail(w) /\ lastSeq'[v] = Head(w)
  BY <1>2 DEF StreamInv, TypeOK
<1>4. Flow(v) = s \o w
  BY DEF Flow
<1> HIDE DEF S, s, w
<1>5. /\ Append(s, Head(w)) \o Tail(w) = s \o w
      /\ Append(s, Head(w)) \in Seq(S) /\ Tail(w) \in Seq(S) /\ Head(w) \in S
      /\ Append(s, Head(w)) # <<>>
      /\ Append(s, Head(w))[Len(Append(s, Head(w)))] = Head(w)
  BY <1>1, FlowMoves
<1>6. Flow(v)' = Flow(v) /\ Sent(v)' = Sent(v)
  BY <1>3, <1>4, <1>5 DEF Flow, Sent
<1>7. InOrder(v)'
  BY <1>1, <1>2, <1>6 DEF InOrder
<1>8. lastSeq'[v] = LastOf(seen'[v])
  BY <1>3, <1>5 DEF LastOf
<1>9. Cursors(v)'
  <2>1. phase[v] # "off"
    BY <1>1 DEF Cursors, w
  <2> QED
    BY <1>1, <1>2, <1>6, <1>8, <2>1 DEF Cursors
<1>10. TypeOK'
  <2>1. new_event' \in BOOLEAN /\ woken' \in [Viewers -> BOOLEAN]
    BY <1>2 DEF StreamInv, TypeOK
  <2>2. seen' \in [Viewers -> Seq(S)] /\ wire' \in [Viewers -> Seq(S)]
    BY <1>2, <1>5 DEF StreamInv, TypeOK, S
  <2>3. lastSeq' \in [Viewers -> 0 .. LastSeq]
    BY <1>2, <1>5 DEF StreamInv, TypeOK, S
  <2> QED
    BY <1>2, <2>1, <2>2, <2>3 DEF StreamInv, TypeOK, S
<1>11. \A u \in Viewers \ {v} :
        /\ phase'[u] = phase[u] /\ pending'[u] = pending[u] /\ last_sent'[u] = last_sent[u]
        /\ wire'[u] = wire[u] /\ lastSeq'[u] = lastSeq[u] /\ seen'[u] = seen[u]
  BY <1>2 DEF StreamInv, TypeOK
<1> QED
  BY <1>2, <1>7, <1>9, <1>10, <1>11, OneViewer DEF Stream

\* A broken connection cuts the flow back to what has been rendered.
LEMMA BreakStep ==
  ASSUME StreamInv, NEW v \in Viewers, Break(v)
  PROVE  StreamInv'
<1>1. /\ seen[v] \in Seq(1 .. LastSeq) /\ wire[v] \in Seq(1 .. LastSeq) /\ LastSeq \in Nat
      /\ Flow(v) \in Seq(Nat) /\ InOrder(v) /\ Cursors(v)
      /\ Sent(v) \in Nat /\ seq_counter \in Nat
  BY Numbers
<1>2. /\ phase' = [phase EXCEPT ![v] = "off"]
      /\ pending' = [pending EXCEPT ![v] = <<>>]
      /\ woken' = [woken EXCEPT ![v] = FALSE]
      /\ wire' = [wire EXCEPT ![v] = <<>>]
      /\ drops' = drops + 1 /\ drops < MaxDrops
      /\ UNCHANGED <<backlog, seq_counter, new_event, last_sent, lastSeq, seen>>
  BY DEF Break, server
<1>3. phase'[v] = "off" /\ wire'[v] = <<>> /\ lastSeq'[v] = lastSeq[v] /\ seen'[v] = seen[v]
  BY <1>2 DEF StreamInv, TypeOK
<1>4. Flow(v)' = seen[v]
  BY <1>1, <1>3 DEF Flow
<1>5. Rendered(v)
  BY SeenInOrder
<1>6. Sent(v)' = LastOf(seen[v])
  BY <1>4 DEF Sent
<1>7. Sent(v)' <= seq_counter'
  BY <1>1, <1>2, <1>5, <1>6, Numbers DEF Rendered
<1>9. InOrder(v)'
  BY <1>2, <1>4, <1>5, <1>6, <1>7 DEF InOrder, Rendered
<1>10. Cursors(v)'
  BY <1>1, <1>3 DEF Cursors
<1>11. TypeOK'
  <2>1. new_event' \in BOOLEAN /\ woken' \in [Viewers -> BOOLEAN]
    BY <1>2 DEF StreamInv, TypeOK
  <2>2. drops' \in 0 .. MaxDrops
    BY <1>2, StreamAssumption DEF StreamInv, TypeOK
  <2>3. /\ phase' \in [Viewers -> {"off", "sending", "waiting", "closed"}]
        /\ pending' \in [Viewers -> Seq(1 .. LastSeq)]
        /\ wire' \in [Viewers -> Seq(1 .. LastSeq)]
    BY <1>2 DEF StreamInv, TypeOK
  <2> QED
    BY <1>2, <2>1, <2>2, <2>3 DEF StreamInv, TypeOK
<1>12. \A u \in Viewers \ {v} :
        /\ phase'[u] = phase[u] /\ pending'[u] = pending[u] /\ last_sent'[u] = last_sent[u]
        /\ wire'[u] = wire[u] /\ lastSeq'[u] = lastSeq[u] /\ seen'[u] = seen[u]
  BY <1>2 DEF StreamInv, TypeOK
<1> QED
  BY <1>2, <1>9, <1>10, <1>11, <1>12, OneViewer DEF Stream

\* The response ends with everything rendered.
LEMMA EndOfStreamStep ==
  ASSUME StreamInv, NEW v \in Viewers, EndOfStream(v)
  PROVE  StreamInv'
<1>1. /\ phase' = [phase EXCEPT ![v] = "off"] /\ wire[v] = <<>>
      /\ UNCHANGED <<backlog, seq_counter, new_event, pending, last_sent, woken, wire, lastSeq,
                     seen, drops>>
  BY DEF EndOfStream, server, browser
<1>2. seq_counter' \in Nat /\ seq_counter' >= seq_counter /\ phase'[v] = "off"
  BY <1>1, Numbers DEF StreamInv, TypeOK
<1>3. InOrder(v)' /\ Sent(v)' = Sent(v)
  BY <1>1, <1>2, FlowKept
<1>4. Cursors(v)'
  BY <1>1, <1>2, Numbers DEF Cursors
<1>5. TypeOK'
  BY <1>1 DEF StreamInv, TypeOK
<1>6. \A u \in Viewers \ {v} :
        /\ phase'[u] = phase[u] /\ pending'[u] = pending[u] /\ last_sent'[u] = last_sent[u]
        /\ wire'[u] = wire[u] /\ lastSeq'[u] = lastSeq[u] /\ seen'[u] = seen[u]
  BY <1>1 DEF StreamInv, TypeOK
<1> QED
  BY <1>1, <1>3, <1>4, <1>5, <1>6, OneViewer DEF Stream

-----------------------------------------------------------------------------
\* Before anything is emitted there is nothing to lose.
LEMMA StreamStart == Init => StreamInv
<1> SUFFICES ASSUME Init PROVE StreamInv
  OBVIOUS
<1>1. TypeOK
  <2>1. woken \in [Viewers -> BOOLEAN] /\ new_event \in BOOLEAN
    BY DEF Init
  <2>2. backlog \in Seq(1 .. LastSeq) /\ Len(backlog) = 0
    BY DEF Init
  <2> QED
    BY <2>1, <2>2, StreamAssumption DEF Init, TypeOK
<1>2. Newest
  BY StreamAssumption DEF Init, Newest
<1>3. ASSUME NEW v \in Viewers PROVE Stream(v)
  <2>1. Flow(v) = <<>> /\ seen[v] = <<>> /\ wire[v] = <<>> /\ phase[v] = "off"
        /\ lastSeq[v] = 0 /\ seq_counter = 0
    BY DEF Init, Flow
  <2>2. Sent(v) = 0
    BY <2>1 DEF Sent, LastOf
  <2> QED
    BY <2>1, <2>2 DEF Stream, Cursors, InOrder, Increasing, LastOf
<1> QED
  BY <1>1, <1>2, <1>3 DEF StreamInv

\* One lemma per action above, and stuttering.
LEMMA StreamStep == StreamInv /\ [Next]_vars => StreamInv'
<1> SUFFICES ASSUME StreamInv, [Next]_vars PROVE StreamInv'
  OBVIOUS
<1>1. CASE Emit
  BY <1>1, EmitStep
<1>2. ASSUME NEW v \in Viewers, \/ Attach(v)
                                \/ Resume(v)
                                \/ Wake(v)
                                \/ Heartbeat(v)
                                \/ Receive(v)
                                \/ Break(v)
                                \/ EndOfStream(v)
      PROVE  StreamInv'
  BY <1>2, AttachStep, ResumeStep, WakeStep, ReceiveStep, BreakStep, EndOfStreamStep
<1>3. CASE UNCHANGED vars
  <2>1. /\ UNCHANGED <<backlog, seq_counter, phase, pending, last_sent, wire, lastSeq, seen>>
        /\ seq_counter' \in Nat /\ seq_counter' >= seq_counter
    BY <1>3, Numbers DEF vars, server, connection, browser
  <2>2. Newest' /\ \A v \in Viewers : Stream(v)'
    BY <2>1, Untouched DEF StreamInv, Newest
  <2>3. TypeOK'
    BY <1>3 DEF vars, server, connection, browser, StreamInv, TypeOK
  <2> QED
    BY <2>2, <2>3 DEF StreamInv
<1> QED
  BY <1>1, <1>2, <1>3 DEF Next

\* The inductive invariant holds in every reachable state.
THEOREM StreamInvariance == Spec => []StreamInv
<1> QED
  BY StreamStart, StreamStep, PTL DEF Spec

\* The state keeps its types: the backlog never outgrows its limit, and every
\* cursor is a sequence number the run has reached or zero.
THEOREM StreamTypes == Spec => []TypeOK
<1>1. StreamInv => TypeOK
  BY DEF StreamInv
<1> QED
  BY <1>1, StreamInvariance, PTL

\* "No duplicates": no browser renders an event twice or out of order, however
\* often it reconnects and whatever was lost on the wire.
THEOREM RenderedOnce == Spec => []NoDuplicates
<1>1. StreamInv => NoDuplicates
  <2> SUFFICES ASSUME StreamInv, NEW v \in Viewers, NEW i \in 1 .. Len(seen[v]) - 1
               PROVE  seen[v][i] < seen[v][i + 1]
    BY DEF NoDuplicates
  <2>1. Rendered(v)
    BY SeenInOrder
  <2>2. Len(seen[v]) \in Nat
    BY Numbers
  <2>3. i \in 1 .. Len(seen[v]) /\ i + 1 \in 1 .. Len(seen[v]) /\ i < i + 1
    BY <2>2
  <2> QED
    BY <2>1, <2>3 DEF Rendered, Increasing
<1> QED
  BY <1>1, StreamInvariance, PTL

\* "No gaps": an event that a browser has skipped is one the backlog had lost.
THEOREM GapsAreEvictions == Spec => []GapsOnlyByEviction
<1>1. StreamInv => GapsOnlyByEviction
  <2> SUFFICES ASSUME StreamInv, NEW v \in Viewers, NEW e \in 1 .. lastSeq[v]
               PROVE  e <= seq_counter - BacklogMax \/ \E i \in DOMAIN seen[v] : seen[v][i] = e
    BY DEF GapsOnlyByEviction
  <2>1. Rendered(v) /\ lastSeq[v] = LastOf(seen[v])
    BY SeenInOrder, Numbers DEF Cursors
  <2>2. e <= seq_counter - BacklogMax \/ Holds(seen[v], e)
    BY <2>1 DEF Rendered
  <2>3. DOMAIN seen[v] = 1 .. Len(seen[v])
    BY Numbers
  <2> QED
    BY <2>2, <2>3 DEF Holds
<1> QED
  BY <1>1, StreamInvariance, PTL

-----------------------------------------------------------------------------
(* A backlog that is never outgrown. *)

\* The first Len(s) events and nothing else.
Whole(s) == \A i \in 1 .. Len(s) : s[i] = i

\* While nothing has been evicted, every browser has rendered all the events up
\* to its cursor: the event after the cursor is the next one it will be given.
NothingMissing ==
  LastSeq <= BacklogMax =>
    \A v \in Viewers : Whole(seen[v]) /\ Len(seen[v]) = lastSeq[v]

\* An event that is appended without a gap is the next one.
LEMMA WholeGrows ==
  ASSUME NEW s \in Seq(Nat), NEW x \in Nat \ {0}, Whole(s), Increasing(Append(s, x)),
         \A e \in 1 .. x : Holds(Append(s, x), e)
  PROVE  Whole(Append(s, x))
<1> DEFINE n == Len(s)
           t == Append(s, x)
<1>1. /\ n \in Nat /\ Len(t) = n + 1 /\ t[n + 1] = x
      /\ \A i \in 1 .. n : t[i] = i
  BY DEF Whole
<1>2. (\A i, j \in 1 .. n + 1 : i < j => t[i] < t[j]) /\ \A e \in 1 .. x : Holds(t, e)
  BY <1>1 DEF Increasing
<1> HIDE DEF n, t
<1>3. x >= n + 1
  <2>1. CASE n = 0
    BY <2>1
  <2>2. CASE n > 0
    <3>1. n \in 1 .. n /\ n \in 1 .. n + 1 /\ n + 1 \in 1 .. n + 1 /\ n < n + 1
      BY <1>1, <2>2
    <3>2. t[n] < x /\ t[n] = n
      BY <1>1, <1>2, <3>1
    <3> QED
      BY <1>1, <3>2
  <2> QED
    BY <1>1, <2>1, <2>2
<1>4. x = n + 1
  <2>1. n + 1 \in 1 .. x
    BY <1>1, <1>3
  <2>2. PICK i \in 1 .. n + 1 : t[i] = n + 1
    BY <1>1, <1>2, <2>1 DEF Holds
  <2>3. i \notin 1 .. n
    BY <1>1, <2>2
  <2>4. i = n + 1
    BY <1>1, <2>3
  <2> QED
    BY <1>1, <2>2, <2>4
<1>5. \A i \in 1 .. n + 1 : t[i] = i
  <2> TAKE i \in 1 .. n + 1
  <2>1. i \in 1 .. n \/ i = n + 1
    BY <1>1
  <2> QED
    BY <1>1, <1>4, <2>1
<1>6. Whole(t)
  BY <1>1, <1>5 DEF Whole
<1> QED
  BY <1>6 DEF t

\* What the invariant says of the browsers when the run fits into the backlog.
Unevicted ==
  LastSeq <= BacklogMax =>
    \A v \in Viewers :
      /\ seen[v] \in Seq(Nat) /\ Increasing(seen[v]) /\ lastSeq[v] = LastOf(seen[v])
      /\ \A e \in 1 .. lastSeq[v] : Holds(seen[v], e)

\* The backlog keeps the last BacklogMax events, which then are all there are.
LEMMA NoneEvicted == StreamInv => Unevicted
<1> SUFFICES ASSUME StreamInv, LastSeq <= BacklogMax, NEW v \in Viewers
             PROVE  /\ seen[v] \in Seq(Nat) /\ Increasing(seen[v])
                    /\ lastSeq[v] = LastOf(seen[v])
                    /\ \A e \in 1 .. lastSeq[v] : Holds(seen[v], e)
  BY DEF Unevicted
<1>1. Rendered(v) /\ lastSeq[v] = LastOf(seen[v])
  BY SeenInOrder, Numbers DEF Cursors
<1>2. seq_counter - BacklogMax <= 0
  BY Numbers
<1>3. seen[v] \in Seq(1 .. LastSeq) /\ LastSeq \in Nat
  BY Numbers
<1>4. seen[v] \in Seq(Nat)
  BY <1>3
<1>5. seq_counter \in Nat /\ BacklogMax \in Nat
  BY Numbers
<1> QED
  BY <1>1, <1>2, <1>4, <1>5 DEF Rendered

\* Only onmessage renders, and what it renders is the next event.
LEMMA NothingMissed ==
  ASSUME StreamInv, Unevicted, Unevicted', NothingMissing, [Next]_vars
  PROVE  NothingMissing'
<1> SUFFICES ASSUME LastSeq <= BacklogMax, NEW v \in Viewers
             PROVE  Whole(seen'[v]) /\ Len(seen'[v]) = lastSeq'[v]
  BY DEF NothingMissing
<1>1. Whole(seen[v]) /\ Len(seen[v]) = lastSeq[v]
  BY DEF NothingMissing
<1>2. /\ seen'[v] \in Seq(Nat) /\ Increasing(seen'[v]) /\ lastSeq'[v] = LastOf(seen'[v])
      /\ \A e \in 1 .. lastSeq'[v] : Holds(seen'[v], e)
  BY DEF Unevicted
<1>3. \/ seen'[v] = seen[v] /\ lastSeq'[v] = lastSeq[v]
      \/ \E x \in 1 .. LastSeq : seen'[v] = Append(seen[v], x)
  <2>1. CASE \E w \in Viewers : Receive(w)
    <3> PICK w \in Viewers : Receive(w)
      BY <2>1
    <3>1. CASE w = v
      <4>1. wire[v] \in Seq(1 .. LastSeq) /\ wire[v] # <<>>
        BY <3>1, Numbers DEF Receive
      <4>2. Head(wire[v]) \in 1 .. LastSeq
        BY <4>1, TailFacts
      <4>3. seen'[v] = Append(seen[v], Head(wire[v]))
        BY <3>1 DEF Receive, StreamInv, TypeOK
      <4> QED
        BY <4>2, <4>3
    <3>2. CASE w # v
      BY <3>2 DEF Receive, StreamInv, TypeOK
    <3> QED
      BY <3>1, <3>2
  <2>2. CASE ~\E w \in Viewers : Receive(w)
    <3>1. UNCHANGED <<seen, lastSeq>>
      BY <2>2 DEF Next, Emit, Attach, Resume, Wake, Heartbeat, Break, EndOfStream, browser, vars
    <3> QED
      BY <3>1
  <2> QED
    BY <2>1, <2>2
<1>4. CASE seen'[v] = seen[v] /\ lastSeq'[v] = lastSeq[v]
  BY <1>1, <1>4
<1>5. CASE \E x \in 1 .. LastSeq : seen'[v] = Append(seen[v], x)
  <2> PICK x \in 1 .. LastSeq : seen'[v] = Append(seen[v], x)
    BY <1>5
  <2>1. seen[v] \in Seq(Nat) /\ x \in Nat \ {0}
    BY DEF Unevicted
  <2>2. LastOf(Append(seen[v], x)) = x
    BY <2>1 DEF LastOf
  <2>3. \A e \in 1 .. x : Holds(Append(seen[v], x), e)
    BY <1>2, <2>2
  <2>4. Whole(Append(seen[v], x))
    BY <1>1, <1>2, <2>1, <2>3, WholeGrows
  <2>5. Len(Append(seen[v], x)) = x
    <3>1. /\ Len(Append(seen[v], x)) = Len(seen[v]) + 1
          /\ Append(seen[v], x)[Len(seen[v]) + 1] = x /\ Len(seen[v]) \in Nat
      BY <2>1
    <3> QED
      BY <2>4, <3>1 DEF Whole
  <2> QED
    BY <1>2, <2>2, <2>4, <2>5
<1> QED
  BY <1>3, <1>4, <1>5

\* For a run whose events fit into the backlog, and RunEvents!EventsBounded says
\* that every run's do, each browser has rendered exactly the events 1 .. lastSeq,
\* through any number of broken connections.  UiClient takes this for granted.
THEOREM NothingIsMissing == Spec => []NothingMissing
<1>1. Init => NothingMissing
  <2>1. Whole(<<>>) /\ Len(<<>>) = 0
    BY DEF Whole
  <2> QED
    BY <2>1 DEF Init, NothingMissing
<1>2. StreamInv /\ Unevicted /\ Unevicted' /\ NothingMissing /\ [Next]_vars => NothingMissing'
  BY NothingMissed
<1> QED
  BY <1>1, <1>2, NoneEvicted, StreamInvariance, PTL DEF Spec

=============================================================================
