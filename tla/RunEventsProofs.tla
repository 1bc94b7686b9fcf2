-------------------------- MODULE RunEventsProofs ---------------------------
(***************************************************************************)
(* What drive_run tells of a run, for every strike and escalation budget.  *)
(*                                                                         *)
(* The run's own invariant (SyndicateGraphProofs) is joined with what the  *)
(* events emitted so far say of the state the graph is in: how many        *)
(* attempts they report, whether they report an escalation, and how many   *)
(* they can be.  Between the graph's state and the record stands the log,  *)
(* in which _extract_attempts looks for the strikes.                       *)
(***************************************************************************)
EXTENDS RunEvents, SyndicateGraphProofs, FiniteSetTheorems

EventKinds == {"run_started", "node_update", "escalation", "attempt",
               "run_completed", "run_failed"}
Final == {"completed", "escalated", "failed"}

Holds(s, x) == \E i \in 1 .. Len(s) : s[i] = x

\* The places of s that hold one of the values in K.
Places(s, K) == {i \in DOMAIN s : s[i] \in K}

EventTypes ==
  /\ status \in {"queued", "running"} \cup Final
  /\ events \in Seq(EventKinds)
  /\ lines \in Seq(LineKinds)
  /\ ~issue /\ active_ticket = ServerTicket

\* How the events begin and end.
Framing ==
  /\ status = "queued" => events = <<>> /\ node = "analyzer"
  /\ status # "queued" => events # <<>> /\ events[1] = "run_started"
  /\ \A i \in 1 .. Len(events) : events[i] \in Terminal => i = Len(events) /\ status \in Final
  /\ status \in Final => events[Len(events)] \in Terminal

\* The record has read the log up to where the executor will go on.
LogRead ==
  status # "failed" =>
    /\ Len(lines) = attempt_log
    /\ node \in {"analyzer", "architect", "executor", "validator"}
          \/ (node = "dispatch" /\ ~Closed)
         => last_attempt_log_len = attempt_log

\* How many attempts have been reported.
Reported == Cardinality(Places(events, {"attempt"}))

\* How many lines of a log mention the fast checks.
MentionedIn(log) == Cardinality({i \in DOMAIN log : Mentions(log[i])})

\* What the events say of the ticket, and the ticket's status on its way.  Once
\* advance has emptied the log there is nothing to compare the attempts with.
Told ==
  status # "failed" =>
    /\ IF mock THEN Reported = 0 ELSE attempts <= Reported
    /\ ~Closed => Reported = MentionedIn(lines)
    /\ Holds(events, "escalation") <=> ticket_status = "escalated"
    /\ node = "executor" => ticket_status # "escalated"
    /\ node = "validator" /\ ticket_status = "escalated" => strike_count >= MaxStrikes
    /\ status = "escalated" => node = "end" /\ ticket_status = "escalated"
    /\ status = "completed" => node = "end" /\ ticket_status # "escalated"

\* One update per superstep, at most two attempts per strike, an escalation
\* for each of the two nodes that can tell of it, and the frame.
Size ==
  Len(events) <= supersteps + 2 * attempts + escalation_count
                   + (IF ticket_status = "escalated" THEN 1 ELSE 0)
                   + (IF status \in Final THEN 2 ELSE 1)

EventInv == Inv /\ EventTypes /\ Framing /\ LogRead /\ Told /\ Size

-----------------------------------------------------------------------------
(* Lemmas about counting. *)

\* What is missing from one number to a greater one.
LEMMA Difference ==
  ASSUME NEW a \in Nat, NEW b \in Nat, a <= b
  PROVE  b - a \in Nat /\ b = a + (b - a)
OBVIOUS

\* The numbers up to n are n.
LEMMA UpTo ==
  ASSUME NEW n \in Nat
  PROVE  IsFiniteSet(1 .. n) /\ Cardinality(1 .. n) = n
BY FS_Interval

\* Sets that a function pairs off have the same number of elements.
LEMMA SameCount ==
  ASSUME NEW A, NEW B, NEW f \in [A -> B], IsFiniteSet(A),
         \A x, y \in A : f[x] = f[y] => x = y,
         \A b \in B : \E a \in A : f[a] = b
  PROVE  IsFiniteSet(B) /\ Cardinality(B) = Cardinality(A)
<1>1. f \in Bijection(A, B)
  BY DEF Bijection, Injection, Surjection, IsInjective
<1>2. ExistsBijection(A, B)
  BY <1>1 DEF ExistsBijection
<1> QED
  BY <1>2, FS_Bijection

\* How many numbers there are after a and up to b.
LEMMA IntervalCount ==
  ASSUME NEW a \in Nat, NEW b \in Nat, a <= b
  PROVE  IsFiniteSet(a + 1 .. b) /\ Cardinality(a + 1 .. b) = b - a
<1>1. a + 1 \in Int /\ b \in Int
  OBVIOUS
<1>2. /\ IsFiniteSet(a + 1 .. b)
      /\ Cardinality(a + 1 .. b) = IF a + 1 > b THEN 0 ELSE b - (a + 1) + 1
  BY <1>1, FS_Interval, Zenon
<1> QED
  BY <1>2

\* The places of a sequence are finitely many.
LEMMA PlacesFinite ==
  ASSUME NEW S, NEW s \in Seq(S), NEW K
  PROVE  /\ IsFiniteSet(Places(s, K)) /\ Cardinality(Places(s, K)) \in Nat
         /\ Cardinality(Places(s, K)) <= Len(s)
<1>1. DOMAIN s = 1 .. Len(s) /\ Len(s) \in Nat
  OBVIOUS
<1>2. IsFiniteSet(1 .. Len(s)) /\ Cardinality(1 .. Len(s)) = Len(s)
  BY <1>1, FS_Interval
<1>3. Places(s, K) \in SUBSET (1 .. Len(s))
  BY <1>1 DEF Places
<1> QED
  BY <1>2, <1>3, FS_Subset, FS_CardinalityType

\* What a sequence is made of to which another has been appended.
LEMMA ConcatFacts ==
  ASSUME NEW S, NEW s \in Seq(S), NEW t \in Seq(S)
  PROVE  /\ s \o t \in Seq(S) /\ Len(s \o t) = Len(s) + Len(t)
         /\ \A i \in 1 .. Len(s) : (s \o t)[i] = s[i]
         /\ \A i \in 1 .. Len(t) : (s \o t)[Len(s) + i] = t[i]
OBVIOUS

\* Concatenation adds up how often a value occurs.
LEMMA ConcatCounts ==
  ASSUME NEW S, NEW s \in Seq(S), NEW t \in Seq(S), NEW K
  PROVE  Cardinality(Places(s \o t, K)) = Cardinality(Places(s, K)) + Cardinality(Places(t, K))
<1> DEFINE m == Len(s)
           n == Len(t)
           u == s \o t
           A == Places(s, K)
           B == Places(t, K)
           C == {i \in m + 1 .. m + n : u[i] \in K}
           f == [j \in B |-> m + j]
<1>1. /\ m \in Nat /\ n \in Nat /\ DOMAIN s = 1 .. m /\ DOMAIN t = 1 .. n
      /\ DOMAIN u = 1 .. m + n
      /\ \A i \in 1 .. m : u[i] = s[i]
      /\ \A j \in 1 .. n : u[m + j] = t[j]
  OBVIOUS
<1>2. IsFiniteSet(A) /\ IsFiniteSet(B) /\ Cardinality(A) \in Nat /\ Cardinality(B) \in Nat
  BY PlacesFinite
<1>3. A = {i \in 1 .. m : s[i] \in K} /\ B = {j \in 1 .. n : t[j] \in K}
  BY <1>1 DEF Places
<1>4. Places(u, K) = {i \in 1 .. m + n : u[i] \in K}
  BY <1>1 DEF Places
<1> HIDE DEF m, n, u, A, B
<1>5. f \in [B -> C]
  BY <1>1, <1>3
<1>6. \A x, y \in B : f[x] = f[y] => x = y
  BY <1>1, <1>3
<1>7. \A c \in C : \E b \in B : f[b] = c
  <2> TAKE c \in C
  <2>1. c - m \in 1 .. n /\ m + (c - m) = c
    BY <1>1
  <2>2. c - m \in B
    BY <1>1, <1>3, <2>1
  <2> QED
    BY <2>1, <2>2
<1>8. Places(u, K) = A \cup C
  BY <1>1, <1>3, <1>4
<1>9. A \cap C = {}
  BY <1>1, <1>3
<1> HIDE DEF C, f
<1>10. IsFiniteSet(C) /\ Cardinality(C) = Cardinality(B)
  BY <1>2, <1>5, <1>6, <1>7, SameCount
<1>11. Cardinality(A \cup C) = Cardinality(A) + Cardinality(C) - Cardinality(A \cap C)
  BY <1>2, <1>10, FS_Union
<1> QED
  <2>1. Cardinality(A \cap C) = 0
    BY <1>9, FS_EmptySet
  <2>2. Cardinality(Places(u, K)) = Cardinality(A) + Cardinality(B)
    BY <1>2, <1>8, <1>10, <1>11, <2>1
  <2> QED
    BY <2>2 DEF u, A, B

\* Concatenation holds what its parts hold.
LEMMA ConcatHolds ==
  ASSUME NEW S, NEW s \in Seq(S), NEW t \in Seq(S), NEW x
  PROVE  Holds(s \o t, x) <=> Holds(s, x) \/ Holds(t, x)
<1> DEFINE m == Len(s)
           n == Len(t)
           u == s \o t
<1>1. /\ m \in Nat /\ n \in Nat /\ Len(u) = m + n
      /\ \A i \in 1 .. m : u[i] = s[i]
      /\ \A j \in 1 .. n : u[m + j] = t[j]
  OBVIOUS
<1> HIDE DEF m, n, u
<1>2. ASSUME Holds(u, x) PROVE Holds(s, x) \/ Holds(t, x)
  <2>1. PICK i \in 1 .. m + n : u[i] = x
    BY <1>1, <1>2 DEF Holds
  <2>2. i \in 1 .. m \/ (i - m \in 1 .. n /\ m + (i - m) = i)
    BY <1>1
  <2> QED
    BY <1>1, <2>1, <2>2 DEF Holds, m, n
<1>3. ASSUME Holds(s, x) PROVE Holds(u, x)
  <2>1. PICK i \in 1 .. m : s[i] = x
    BY <1>3 DEF Holds, m
  <2>2. i \in 1 .. m + n
    BY <1>1
  <2> QED
    BY <1>1, <2>1, <2>2 DEF Holds
<1>4. ASSUME Holds(t, x) PROVE Holds(u, x)
  <2>1. PICK j \in 1 .. n : t[j] = x
    BY <1>4 DEF Holds, n
  <2>2. m + j \in 1 .. m + n
    BY <1>1
  <2> QED
    BY <1>1, <2>1, <2>2 DEF Holds
<1> QED
  BY <1>2, <1>3, <1>4 DEF u

-----------------------------------------------------------------------------
(* What _extract_attempts makes of the log. *)

\* Two lines per strike, the second of them the result of the fast checks.
LEMMA StrikesLogged ==
  ASSUME NEW n \in Nat, NEW more \in StrikeLines(n)
  PROVE  /\ more \in Seq(LineKinds) /\ Len(more) = 2 * n
         /\ \A i \in 1 .. 2 * n : more[i] = "fast_check" <=> i % 2 = 0
<1>1. PICK summaries \in [1 .. n -> {"summary", "summary_fast_check"}] :
        more = [i \in 1 .. 2 * n |-> IF i % 2 = 0 THEN "fast_check"
                                                  ELSE summaries[(i + 1) \div 2]]
  BY DEF StrikeLines
<1>2. \A i \in 1 .. 2 * n : /\ i % 2 = 0 => more[i] = "fast_check"
                            /\ i % 2 # 0 => more[i] \in {"summary", "summary_fast_check"}
  <2> TAKE i \in 1 .. 2 * n
  <2>1. i % 2 # 0 => (i + 1) \div 2 \in 1 .. n
    OBVIOUS
  <2> QED
    BY <1>1, <2>1
<1>3. more \in Seq(LineKinds) /\ Len(more) = 2 * n
  <2>1. \A i \in 1 .. 2 * n : more[i] \in LineKinds
    BY <1>2 DEF LineKinds
  <2>2. 2 * n \in Nat
    OBVIOUS
  <2> QED
    BY <1>1, <2>1, <2>2
<1> QED
  BY <1>2, <1>3

\* The lines that mention the fast checks, after the first m of a log.
MentionedAfter(s, m) == {i \in m + 1 .. Len(s) : Mentions(s[i])}

\* They can be counted.
LEMMA MentionsFinite ==
  ASSUME NEW s \in Seq(LineKinds)
  PROVE  MentionedIn(s) \in Nat
<1>1. Places(s, {"summary_fast_check", "fast_check"}) = {i \in DOMAIN s : Mentions(s[i])}
  BY DEF Places, Mentions
<1> QED
  BY <1>1, PlacesFinite DEF MentionedIn

\* A longer log mentions what its beginning does and what has been appended.
LEMMA MentionsSplit ==
  ASSUME NEW s \in Seq(LineKinds), NEW u \in Seq(LineKinds), Len(s) <= Len(u),
         \A i \in 1 .. Len(s) : u[i] = s[i]
  PROVE  /\ IsFiniteSet(MentionedAfter(u, Len(s)))
         /\ Cardinality(MentionedAfter(u, Len(s))) \in Nat
         /\ MentionedIn(u) = MentionedIn(s) + Cardinality(MentionedAfter(u, Len(s)))
<1> DEFINE m == Len(s)
           n == Len(u)
           A == {i \in 1 .. m : Mentions(s[i])}
           B == {i \in m + 1 .. n : Mentions(u[i])}
           C == {i \in 1 .. n : Mentions(u[i])}
<1>1. m \in Nat /\ n \in Nat /\ m <= n /\ DOMAIN s = 1 .. m /\ DOMAIN u = 1 .. n
  OBVIOUS
<1>2. C = A \cup B /\ A \cap B = {}
  <2> HIDE DEF m, n
  <2> QED
    BY <1>1 DEF m
<1>3. IsFiniteSet(A) /\ IsFiniteSet(B)
  <2>1. IsFiniteSet(1 .. m) /\ IsFiniteSet(1 .. n)
    BY <1>1, UpTo
  <2>2. A \in SUBSET (1 .. m) /\ B \in SUBSET (1 .. n)
    BY <1>1
  <2> HIDE DEF A, B, m, n
  <2> QED
    BY <2>1, <2>2, FS_Subset
<1>4. Cardinality(A) \in Nat /\ Cardinality(B) \in Nat
  BY <1>3, FS_CardinalityType
<1>5. Cardinality(C) = Cardinality(A) + Cardinality(B)
  <2> HIDE DEF A, B, C
  <2>1. Cardinality(A \cap B) = 0
    BY <1>2, FS_EmptySet
  <2>2. Cardinality(A \cup B) = Cardinality(A) + Cardinality(B) - Cardinality(A \cap B)
    BY <1>3, FS_Union
  <2> QED
    BY <1>2, <1>4, <2>1, <2>2
<1>6. MentionedIn(s) = Cardinality(A) /\ MentionedIn(u) = Cardinality(C)
  BY <1>1 DEF MentionedIn
<1> QED
  BY <1>3, <1>4, <1>5, <1>6 DEF MentionedAfter

\* Of the lines of n strikes, at least one per strike mentions the fast checks,
\* and perhaps all of them do.
LEMMA StrikesFound ==
  ASSUME NEW n \in Nat, NEW m \in Nat, NEW u \in Seq(LineKinds), Len(u) = m + 2 * n,
         \A i \in 1 .. 2 * n : u[m + i] = "fast_check" <=> i % 2 = 0
  PROVE  n <= Cardinality(MentionedAfter(u, m)) /\ Cardinality(MentionedAfter(u, m)) <= 2 * n
<1> DEFINE new == {i \in m + 1 .. m + 2 * n : Mentions(u[i])}
           A == {i \in m + 1 .. m + 2 * n : (i - m) % 2 = 0}
           f == [j \in 1 .. n |-> m + 2 * j]
<1>1. MentionedAfter(u, m) = new
  BY DEF MentionedAfter
<1>2. IsFiniteSet(new) /\ Cardinality(new) \in Nat /\ Cardinality(new) <= 2 * n
  <2>1. m + 2 * n \in Nat /\ m <= m + 2 * n /\ (m + 2 * n) - m = 2 * n
    OBVIOUS
  <2>2. IsFiniteSet(m + 1 .. m + 2 * n) /\ Cardinality(m + 1 .. m + 2 * n) = 2 * n
    BY <2>1, IntervalCount
  <2>3. new \in SUBSET (m + 1 .. m + 2 * n)
    OBVIOUS
  <2> HIDE DEF new
  <2>4. IsFiniteSet(new) /\ Cardinality(new) <= Cardinality(m + 1 .. m + 2 * n)
    BY <2>2, <2>3, FS_Subset, Zenon
  <2> QED
    BY <2>2, <2>4, FS_CardinalityType
<1>3. A \in SUBSET new
  <2>1. \A i \in m + 1 .. m + 2 * n : i - m \in 1 .. 2 * n /\ m + (i - m) = i
    OBVIOUS
  <2>2. \A i \in m + 1 .. m + 2 * n : u[i] = "fast_check" <=> (i - m) % 2 = 0
    BY <2>1
  <2> QED
    BY <2>2 DEF Mentions
<1>4. f \in [1 .. n -> A]
  <2>1. \A j \in 1 .. n : /\ m + 2 * j \in m + 1 .. m + 2 * n
                           /\ (m + 2 * j) - m = 2 * j /\ (2 * j) % 2 = 0
    OBVIOUS
  <2> QED
    BY <2>1
<1>5. \A x, y \in 1 .. n : f[x] = f[y] => x = y
  OBVIOUS
<1>6. \A a \in A : \E j \in 1 .. n : f[j] = a
  <2> TAKE a \in A
  <2>1. a \in m + 1 .. m + 2 * n /\ (a - m) % 2 = 0
    OBVIOUS
  <2>2. PICK c \in 1 .. 2 * n : c = a - m
    BY <2>1
  <2>3. c \div 2 \in 1 .. n /\ 2 * (c \div 2) = c
    BY <2>1, <2>2
  <2>4. m + c = a
    BY <2>1, <2>2
  <2>5. f[c \div 2] = a
    BY <2>3, <2>4
  <2> QED
    BY <2>3, <2>5
<1>7. IsFiniteSet(1 .. n) /\ Cardinality(1 .. n) = n
  BY UpTo
<1> HIDE DEF f, A, new
<1>8. Cardinality(A) = n
  BY <1>4, <1>5, <1>6, <1>7, SameCount
<1>9. Cardinality(A) <= Cardinality(new)
  BY <1>2, <1>3, FS_Subset
<1> QED
  BY <1>1, <1>2, <1>8, <1>9

\* As many events as there are lines to tell of.
LEMMA AttemptsOf ==
  ASSUME NEW k \in Nat
  PROVE  LET a == [i \in 1 .. k |-> "attempt"]
         IN  /\ a \in Seq({"attempt"}) /\ Len(a) = k
             /\ Cardinality(Places(a, {"attempt"})) = k
<1> DEFINE a == [i \in 1 .. k |-> "attempt"]
<1>1. a \in Seq({"attempt"}) /\ Len(a) = k
  OBVIOUS
<1>2. Places(a, {"attempt"}) = 1 .. k
  BY DEF Places
<1> HIDE DEF a
<1>3. Cardinality(Places(a, {"attempt"})) = k
  BY <1>2, UpTo
<1> QED
  BY <1>1, <1>3 DEF a

\* What one update adds to the events.
LEMMA UpdateEvents ==
  ASSUME NEW e \in Seq(EventKinds), e # <<>>,
         NEW a \in Seq({"attempt"}), NEW z \in {<<>>, <<"escalation">>}
  PROVE  LET t == e \o <<"node_update">> \o a \o z
         IN  /\ t \in Seq(EventKinds) /\ t # <<>> /\ t[1] = e[1]
             /\ Len(t) = Len(e) + 1 + Len(a) + (IF z = <<>> THEN 0 ELSE 1)
             /\ \A x \in Terminal : Holds(t, x) => Holds(e, x)
             /\ Holds(t, "escalation") <=> Holds(e, "escalation") \/ z # <<>>
             /\ Cardinality(Places(t, {"attempt"}))
                  = Cardinality(Places(e, {"attempt"})) + Cardinality(Places(a, {"attempt"}))
<1> DEFINE b == <<"node_update">>
           K == {"attempt"}
<1>1. b \in Seq(EventKinds) /\ a \in Seq(EventKinds) /\ z \in Seq(EventKinds)
  <2>1. b \in Seq(EventKinds)
    BY DEF EventKinds
  <2>2. a \in Seq(EventKinds)
    <3>1. {"attempt"} \subseteq EventKinds
      BY DEF EventKinds
    <3> HIDE DEF b
    <3> QED
      BY <3>1
  <2>3. z \in Seq(EventKinds)
    <3>1. <<>> \in Seq(EventKinds) /\ <<"escalation">> \in Seq(EventKinds)
      BY DEF EventKinds
    <3> QED
      BY <3>1, Zenon
  <2> QED
    BY <2>1, <2>2, <2>3
<1>2. /\ e \o b \in Seq(EventKinds) /\ e \o b \o a \in Seq(EventKinds)
      /\ e \o b \o a \o z \in Seq(EventKinds)
  BY <1>1
<1>3. \A x : Holds(e \o b \o a \o z, x)
              <=> Holds(e, x) \/ Holds(b, x) \/ Holds(a, x) \/ Holds(z, x)
  <2> TAKE x
  <2> HIDE DEF b
  <2>1. Holds(e \o b, x) <=> Holds(e, x) \/ Holds(b, x)
    BY <1>1, ConcatHolds
  <2>2. Holds(e \o b \o a, x) <=> Holds(e \o b, x) \/ Holds(a, x)
    BY <1>1, <1>2, ConcatHolds
  <2>3. Holds(e \o b \o a \o z, x) <=> Holds(e \o b \o a, x) \/ Holds(z, x)
    <3> DEFINE c == e \o b \o a
    <3>1. c \in Seq(EventKinds) /\ z \in Seq(EventKinds)
      BY <1>1, <1>2
    <3> HIDE DEF c
    <3>2. Holds(c \o z, x) <=> Holds(c, x) \/ Holds(z, x)
      BY <3>1, ConcatHolds
    <3> QED
      BY <3>2 DEF c
  <2> QED
    BY <2>1, <2>2, <2>3
<1>4. Len(b) = 1 /\ b[1] = "node_update"
  OBVIOUS
<1>5. \A i \in 1 .. Len(a) : a[i] = "attempt"
  OBVIOUS
<1>6. \A x \in Terminal \cup {"escalation"} : ~Holds(b, x) /\ ~Holds(a, x)
  BY <1>4, <1>5 DEF Holds, Terminal
<1>7. z = <<>> \/ (z = <<"escalation">> /\ Len(z) = 1 /\ z[1] = "escalation")
  OBVIOUS
<1>8. /\ \A x \in Terminal : ~Holds(z, x)
      /\ Holds(z, "escalation") <=> z # <<>>
  <2>1. CASE z = <<>>
    <3>1. Len(z) = 0
      BY <2>1
    <3> QED
      BY <2>1, <3>1 DEF Holds
  <2>2. CASE z # <<>>
    <3>1. Len(z) = 1 /\ z[1] = "escalation" /\ 1 \in 1 .. 1
      BY <1>7, <2>2
    <3> QED
      BY <2>2, <3>1 DEF Holds, Terminal
  <2> QED
    BY <2>1, <2>2
<1>9. Cardinality(Places(b, K)) = 0 /\ Cardinality(Places(z, K)) = 0
  <2>1. Places(b, K) = {}
    BY DEF Places
  <2>2. Places(z, K) = {}
    BY DEF Places
  <2> QED
    BY <2>1, <2>2, FS_EmptySet
<1>10. /\ Cardinality(Places(e, K)) \in Nat /\ Cardinality(Places(a, K)) \in Nat
  BY <1>1, PlacesFinite
<1> HIDE DEF b, K
<1>11. Cardinality(Places(e \o b \o a \o z, K))
         = Cardinality(Places(e, K)) + Cardinality(Places(a, K))
  <2>1. Cardinality(Places(e \o b, K)) = Cardinality(Places(e, K)) + Cardinality(Places(b, K))
    BY <1>1, ConcatCounts
  <2>2. Cardinality(Places(e \o b \o a, K))
          = Cardinality(Places(e \o b, K)) + Cardinality(Places(a, K))
    BY <1>1, <1>2, ConcatCounts
  <2>3. Cardinality(Places(e \o b \o a \o z, K))
          = Cardinality(Places(e \o b \o a, K)) + Cardinality(Places(z, K))
    BY <1>1, <1>2, ConcatCounts
  <2> QED
    BY <1>9, <1>10, <2>1, <2>2, <2>3
<1>12. /\ Len(e \o b \o a \o z) = Len(e) + 1 + Len(a) + (IF z = <<>> THEN 0 ELSE 1)
       /\ e \o b \o a \o z # <<>> /\ (e \o b \o a \o z)[1] = e[1]
  <2>1. Len(e \o b \o a \o z) = Len(e) + Len(b) + Len(a) + Len(z)
    BY <1>1
  <2>2. Len(z) = IF z = <<>> THEN 0 ELSE 1
    BY <1>7
  <2>3. Len(b) = 1 /\ Len(e) \in Nat /\ Len(e) >= 1 /\ Len(a) \in Nat
    BY <1>4
  <2>4. (e \o b)[1] = e[1] /\ Len(e \o b) >= 1
    BY <1>1, <2>3
  <2>5. (e \o b \o a)[1] = e[1] /\ Len(e \o b \o a) >= 1
    BY <1>1, <1>2, <2>4
  <2>6. (e \o b \o a \o z)[1] = e[1] /\ Len(e \o b \o a \o z) >= 1
    BY <1>1, <1>2, <2>5
  <2> QED
    BY <2>1, <2>2, <2>3, <2>6
<1>13. /\ \A x \in Terminal : Holds(e \o b \o a \o z, x) => Holds(e, x)
       /\ Holds(e \o b \o a \o z, "escalation") <=> Holds(e, "escalation") \/ z # <<>>
  BY <1>3, <1>6, <1>8
<1> QED
  BY <1>2, <1>11, <1>12, <1>13 DEF b, K

\* What the terminal event adds.
LEMMA TerminalEvent ==
  ASSUME NEW e \in Seq(EventKinds), e # <<>>, NEW x \in Terminal,
         \A i \in 1 .. Len(e) : e[i] \notin Terminal
  PROVE  LET t == Append(e, x)
         IN  /\ t \in Seq(EventKinds) /\ t # <<>> /\ t[1] = e[1] /\ Len(t) = Len(e) + 1
             /\ \A i \in 1 .. Len(t) : t[i] \in Terminal => i = Len(t)
             /\ t[Len(t)] \in Terminal
             /\ Holds(t, "escalation") <=> Holds(e, "escalation")
             /\ Places(t, {"attempt"}) = Places(e, {"attempt"})
<1> DEFINE t == Append(e, x)
           n == Len(e)
<1>1. /\ x \in EventKinds /\ x # "escalation" /\ x # "attempt"
  BY DEF Terminal, EventKinds
<1>2. /\ t \in Seq(EventKinds) /\ Len(t) = n + 1 /\ n \in Nat /\ n >= 1
      /\ t[n + 1] = x /\ \A i \in 1 .. n : t[i] = e[i]
      /\ DOMAIN t = 1 .. n + 1 /\ DOMAIN e = 1 .. n /\ t # <<>>
  <2>1. n \in Nat /\ n >= 1 /\ DOMAIN e = 1 .. n
    OBVIOUS
  <2>2. t \in Seq(EventKinds) /\ Len(t) = n + 1
    BY <1>1
  <2>3. t[n + 1] = x /\ \A i \in 1 .. n : t[i] = e[i]
    OBVIOUS
  <2>4. DOMAIN t = 1 .. n + 1 /\ t # <<>>
    OBVIOUS
  <2> QED
    BY <2>1, <2>2, <2>3, <2>4
<1> HIDE DEF t, n
<1>3. \A i \in 1 .. n + 1 : i \in 1 .. n \/ i = n + 1
  BY <1>2
<1>4. t[1] = e[1]
  BY <1>2
<1>5. \A i \in 1 .. n + 1 : t[i] \in Terminal => i = n + 1
  BY <1>2, <1>3 DEF n
<1>6. Holds(t, "escalation") <=> Holds(e, "escalation")
  <2>1. \A i \in 1 .. n : i \in 1 .. n + 1
    BY <1>2
  <2> QED
    BY <1>1, <1>2, <1>3, <2>1 DEF Holds, n
<1>7. Places(t, {"attempt"}) = Places(e, {"attempt"})
  <2>1. \A i \in 1 .. n : i \in 1 .. n + 1
    BY <1>2
  <2> QED
    BY <1>1, <1>2, <1>3, <2>1 DEF Places
<1> QED
  BY <1>2, <1>4, <1>5, <1>6, <1>7 DEF t, n

-----------------------------------------------------------------------------
(* What one update tells. *)

\* The log with lines appended to it.
LEMMA LogGrown ==
  ASSUME lines \in Seq(LineKinds), NEW more, more \in Seq(LineKinds), lines' = lines \o more
  PROVE  /\ lines' \in Seq(LineKinds) /\ Len(lines') = Len(lines) + Len(more)
         /\ \A i \in 1 .. Len(lines) : lines'[i] = lines[i]
         /\ \A i \in 1 .. Len(more) : lines'[Len(lines) + i] = more[i]
<1>1. /\ lines \o more \in Seq(LineKinds) /\ Len(lines \o more) = Len(lines) + Len(more)
      /\ \A i \in 1 .. Len(lines) : (lines \o more)[i] = lines[i]
      /\ \A i \in 1 .. Len(more) : (lines \o more)[Len(lines) + i] = more[i]
  BY ConcatFacts
<1> QED
  BY <1>1, Zenon

\* Lines that do not mention the fast checks leave the count as it was.
LEMMA NothingMentioned ==
  ASSUME lines \in Seq(LineKinds), NEW n \in Nat, NEW more \in OtherLines(n),
         lines' = lines \o more
  PROVE  /\ lines' \in Seq(LineKinds) /\ Len(lines') = Len(lines) + n
         /\ \A i \in 1 .. Len(lines) : lines'[i] = lines[i]
         /\ MentionedAfter(lines', Len(lines)) = {}
<1> DEFINE m == Len(lines)
<1>1. /\ more \in Seq(LineKinds) /\ Len(more) = n
      /\ \A i \in 1 .. n : more[i] = "other"
  BY DEF OtherLines, LineKinds
<1>2. /\ lines' \in Seq(LineKinds) /\ Len(lines') = m + n /\ m \in Nat
      /\ \A i \in 1 .. m : lines'[i] = lines[i]
      /\ \A i \in 1 .. n : lines'[m + i] = more[i]
  <2>1. /\ lines' \in Seq(LineKinds) /\ Len(lines') = m + Len(more)
        /\ \A i \in 1 .. m : lines'[i] = lines[i]
        /\ \A i \in 1 .. Len(more) : lines'[m + i] = more[i]
    BY <1>1, LogGrown
  <2> QED
    BY <1>1, <2>1
<1> HIDE DEF m
<1>3. \A i \in m + 1 .. m + n : i - m \in 1 .. n /\ m + (i - m) = i
  BY <1>2
<1>4. \A i \in m + 1 .. m + n : lines'[i] = "other"
  BY <1>1, <1>2, <1>3
<1>5. MentionedAfter(lines', m) = {}
  BY <1>2, <1>4 DEF MentionedAfter, Mentions
<1> QED
  BY <1>2, <1>5 DEF m

\* The executor's strikes, as _extract_attempts finds them in the log: every one
\* of them, and every line that mentions the fast checks.
LEMMA ExecutorTells ==
  ASSUME EventInv, status = "running", ExecutorNode, LogGrows
  PROVE  /\ lines' \in Seq(LineKinds) /\ Len(lines') = attempt_log'
         /\ attempts' \in Nat /\ attempts <= attempts'
         /\ extract_attempts \in Seq({"attempt"})
         /\ Cardinality(Places(extract_attempts, {"attempt"})) = Len(extract_attempts)
         /\ Len(extract_attempts) <= 2 * (attempts' - attempts)
         /\ IF mock THEN Len(extract_attempts) = 0
                    ELSE attempts' - attempts <= Len(extract_attempts)
         /\ MentionedIn(lines') = MentionedIn(lines) + Len(extract_attempts)
<1> DEFINE m == Len(lines)
           new == MentionedAfter(lines', m)
           k == Cardinality(new)
           Grown == /\ lines' \in Seq(LineKinds) /\ Len(lines') = attempt_log' /\ m <= attempt_log'
                    /\ \A i \in 1 .. m : lines'[i] = lines[i]
                    /\ attempts' \in Nat /\ attempts <= attempts'
                    /\ k <= 2 * (attempts' - attempts)
                    /\ IF mock THEN k = 0 ELSE attempts' - attempts <= k
<1>1. /\ node = "executor" /\ last_attempt_log_len = m /\ attempt_log = m
      /\ m \in Nat /\ attempts \in Nat /\ lines \in Seq(LineKinds)
  BY DEF EventInv, LogRead, EventTypes, Inv, TypeOK, ExecutorNode, Superstep, Final
<1>2. ASSUME mock PROVE Grown
  <2>1. attempt_log' = m + 2 /\ attempts' = attempts + 1
    BY <1>1, <1>2 DEF ExecutorNode, ExecutorMock, ExecutorPasses, ExecutorGivesUp, Strikes
  <2>2. PICK more \in OtherLines(2) : lines' = lines \o more
    <3>1. ~(attempt_log' < attempt_log) /\ attempt_log' - attempt_log = 2
      BY <1>1, <2>1
    <3> QED
      BY <1>2, <3>1 DEF LogGrows
  <2>3. /\ lines' \in Seq(LineKinds) /\ Len(lines') = m + 2
        /\ \A i \in 1 .. m : lines'[i] = lines[i]
        /\ new = {}
    BY <1>1, <2>2, NothingMentioned
  <2> HIDE DEF new
  <2>4. k = 0
    BY <2>3, FS_EmptySet
  <2> HIDE DEF k, m
  <2> QED
    BY <1>1, <1>2, <2>1, <2>3, <2>4
<1>3. ASSUME ~mock PROVE Grown
  <2>1. PICK n \in Nat : attempts' = attempts + n /\ attempt_log' = m + 2 * n
    <3>1. strike_count \in Nat /\ MaxStrikes \in Nat
      BY BudgetAssumption DEF EventInv, Inv, TypeOK
    <3> HIDE DEF m
    <3>2. CASE ExecutorPasses
      BY <1>1, <3>1, <3>2 DEF ExecutorPasses, Strikes
    <3>3. CASE ExecutorGivesUp
      <4> DEFINE n == IF strike_count < MaxStrikes THEN MaxStrikes - strike_count ELSE 0
      <4>1. n \in Nat
        BY <3>1
      <4>2. attempts' = attempts + n /\ attempt_log' = attempt_log + 2 * n
        BY <3>3 DEF ExecutorGivesUp, Strikes
      <4> HIDE DEF n
      <4> QED
        BY <1>1, <4>1, <4>2
    <3> QED
      BY <1>3, <3>2, <3>3 DEF ExecutorNode, ExecutorMock
  <2>2. PICK more \in StrikeLines(n) : lines' = lines \o more
    <3>1. ~(attempt_log' < attempt_log) /\ (attempt_log' - attempt_log) \div 2 = n
      <4> HIDE DEF m
      <4> QED
        BY <1>1, <2>1
    <3> QED
      BY <1>1, <1>3, <3>1 DEF LogGrows
  <2>3. /\ lines' \in Seq(LineKinds) /\ Len(lines') = m + 2 * n
        /\ \A i \in 1 .. m : lines'[i] = lines[i]
        /\ \A i \in 1 .. 2 * n : lines'[m + i] = "fast_check" <=> i % 2 = 0
    <3>1. /\ more \in Seq(LineKinds) /\ Len(more) = 2 * n
          /\ \A i \in 1 .. 2 * n : more[i] = "fast_check" <=> i % 2 = 0
      BY StrikesLogged
    <3>2. /\ lines' \in Seq(LineKinds) /\ Len(lines') = m + Len(more)
          /\ \A i \in 1 .. m : lines'[i] = lines[i]
          /\ \A i \in 1 .. Len(more) : lines'[m + i] = more[i]
      BY <1>1, <2>2, <3>1, LogGrown
    <3> HIDE DEF m
    <3> QED
      BY <3>1, <3>2
  <2> HIDE DEF m
  <2>4. n <= k /\ k <= 2 * n
    BY <1>1, <2>3, StrikesFound
  <2> HIDE DEF k
  <2>5. attempts' - attempts = n /\ m <= m + 2 * n
    BY <1>1, <2>1
  <2> QED
    BY <1>1, <1>3, <2>1, <2>3, <2>4, <2>5
<1>4. Grown
  BY <1>2, <1>3
<1>5. k \in Nat /\ MentionedIn(lines') = MentionedIn(lines) + k
  <2>1. m <= Len(lines')
    BY <1>4
  <2> QED
    BY <1>1, <1>4, <2>1, MentionsSplit
<1>6. extract_attempts = [i \in 1 .. k |-> "attempt"]
  BY <1>1 DEF extract_attempts, MentionedAfter
<1> HIDE DEF m, k
<1>7. /\ extract_attempts \in Seq({"attempt"}) /\ Len(extract_attempts) = k
      /\ Cardinality(Places(extract_attempts, {"attempt"})) = k
  BY <1>5, <1>6, AttemptsOf
<1> QED
  BY <1>4, <1>5, <1>7

\* The other nodes start no attempt; what they log does not mention the fast
\* checks, and only advance, which closes the ticket, empties the log.
LEMMA OthersTell ==
  ASSUME EventInv, status = "running", Next, node' # "raised", node # "executor", LogGrows
  PROVE  /\ lines' \in Seq(LineKinds) /\ Len(lines') = attempt_log'
         /\ attempts' = attempts /\ attempts \in Nat
         /\ extract_attempts = <<>>
         /\ ~Closed' => ~Closed /\ MentionedIn(lines') = MentionedIn(lines)
<1>1. /\ Len(lines) = attempt_log /\ lines \in Seq(LineKinds) /\ attempt_log \in Nat
      /\ attempts \in Nat /\ decision_ledger \in Seq([summary : Nat, attempt_count : Nat])
  BY DEF EventInv, LogRead, EventTypes, Inv, TypeOK
<1>2. /\ attempts' = attempts /\ attempt_log' \in Nat
      /\ \/ attempt_log' >= attempt_log /\ UNCHANGED decision_ledger
         \/ attempt_log' = 0 /\ Closed'
  <2>1. CASE AnalyzerNode \/ ArchitectNode \/ DispatchNode \/ ValidatorNode \/ EscalateNode
    BY <1>1, <2>1 DEF AnalyzerNode, ArchitectNode, DispatchNode, ValidatorNode, EscalateNode,
                      history, sandbox
  <2>2. CASE AdvanceNode
    <3>1. \E entry : decision_ledger' = Append(decision_ledger, entry)
      BY <2>2 DEF AdvanceNode
    <3>2. Closed'
      BY <1>1, <3>1 DEF Closed
    <3> QED
      BY <2>2, <3>2 DEF AdvanceNode, sandbox
  <2>3. CASE OversightGitNode
    <3>1. PICK setup \in SetupLines :
            OversightNoFiles(setup) \/ OversightCommits(setup) \/ OversightStrikes(setup)
      BY <2>3 DEF OversightGitNode
    <3>2. setup \in Nat
      BY DEF SetupLines
    <3>3. attempt_log' \in Nat /\ attempt_log' >= attempt_log
      <4>1. CASE OversightNoFiles(setup) \/ OversightCommits(setup)
        BY <1>1, <3>2, <4>1 DEF OversightNoFiles, OversightCommits
      <4>2. CASE OversightStrikes(setup)
        <5>1. PICK commands \in 2 .. 4 : attempt_log' = attempt_log + setup + commands + 1
          BY <4>2 DEF OversightStrikes
        <5> QED
          BY <1>1, <3>2, <5>1
      <4> QED
        BY <3>1, <4>1, <4>2
    <3>4. attempts' = attempts /\ UNCHANGED decision_ledger
      BY <2>3 DEF OversightGitNode
    <3> QED
      BY <3>3, <3>4
  <2> QED
    BY <2>1, <2>2, <2>3 DEF Next, ExecutorNode, Superstep, NodeRaises
<1>3. extract_attempts = <<>>
  BY DEF extract_attempts
<1>4. CASE attempt_log' < attempt_log
  <2>1. lines' = <<>> /\ attempt_log' = 0 /\ Closed'
    BY <1>1, <1>2, <1>4 DEF LogGrows
  <2> QED
    BY <1>1, <1>2, <1>3, <2>1
<1>5. CASE ~(attempt_log' < attempt_log)
  <2> DEFINE d == attempt_log' - attempt_log
  <2>1. d \in Nat /\ attempt_log' = attempt_log + d /\ attempt_log <= attempt_log'
    <3>1. attempt_log' \in Nat /\ attempt_log \in Nat /\ attempt_log <= attempt_log'
      BY <1>1, <1>2, <1>5
    <3> QED
      BY <3>1, Difference
  <2>2. PICK more \in OtherLines(d) : lines' = lines \o more
    BY <1>5 DEF LogGrows
  <2> HIDE DEF d
  <2>3. /\ lines' \in Seq(LineKinds) /\ Len(lines') = Len(lines) + d
        /\ \A i \in 1 .. Len(lines) : lines'[i] = lines[i]
        /\ MentionedAfter(lines', Len(lines)) = {}
    BY <1>1, <2>1, <2>2, NothingMentioned
  <2>4. Len(lines) <= Len(lines')
    BY <1>1, <2>1, <2>3
  <2>5. /\ MentionedIn(lines') = MentionedIn(lines)
                                   + Cardinality(MentionedAfter(lines', Len(lines)))
        /\ MentionedIn(lines) \in Nat
    <3>1. MentionedIn(lines) \in Nat
      BY <1>1, MentionsFinite
    <3> QED
      BY <1>1, <2>3, <2>4, <3>1, MentionsSplit
  <2>6. MentionedIn(lines') = MentionedIn(lines)
    BY <2>3, <2>5, FS_EmptySet
  <2>7. ~Closed' => ~Closed
    BY <1>2 DEF Closed
  <2> QED
    BY <1>1, <1>2, <1>3, <2>1, <2>3, <2>6, <2>7
<1> QED
  BY <1>4, <1>5

\* What an update's node does to what Told, LogRead and Size are about.
Tells ==
  /\ UNCHANGED <<mock, issue, active_ticket>>
  /\ supersteps' = supersteps + 1
  /\ extract_escalation \in {<<>>, <<"escalation">>}
  /\ ticket_status' = "escalated" <=> ticket_status = "escalated" \/ extract_escalation # <<>>
  /\ escalation_count' + (IF ticket_status' = "escalated" THEN 1 ELSE 0)
       >= escalation_count + (IF ticket_status = "escalated" THEN 1 ELSE 0)
            + (IF extract_escalation = <<>> THEN 0 ELSE 1)
  /\ node' \in {"analyzer", "architect", "executor", "validator"}
        \/ (node' = "dispatch" /\ ~Closed')
       => /\ node # "executor" => last_attempt_log_len = attempt_log'
  /\ node' = "executor" => ticket_status' # "escalated"
  /\ node' = "validator" /\ ticket_status' = "escalated" => strike_count' >= MaxStrikes
  /\ node' # "analyzer"

\* Nothing is told of the ticket before it is handed to the executor.
LEMMA PlanningTells ==
  ASSUME EventInv, status = "running", AnalyzerNode \/ ArchitectNode \/ DispatchNode
  PROVE  Tells
<1>1. /\ ~issue /\ active_ticket = ServerTicket /\ Standing /\ LogRead
      /\ escalation_count \in Nat /\ node \in {"analyzer", "architect", "dispatch"}
      /\ active_ticket.present
  BY DEF EventInv, EventTypes, Inv, TypeOK, AnalyzerNode, ArchitectNode, DispatchNode, Superstep,
         ServerTicket
<1>2. extract_escalation = <<>>
  BY <1>1 DEF extract_escalation
<1>3. /\ UNCHANGED <<mock, issue, active_ticket, attempt_log, decision_ledger, ticket_status,
                     escalation_count, strike_count>>
      /\ supersteps' = supersteps + 1
  BY <1>1 DEF AnalyzerNode, ArchitectNode, DispatchNode, Superstep, config, history, verdict, budget
<1>4. node' \in {"architect", "dispatch", "executor", "end"}
  BY DEF AnalyzerNode, ArchitectNode, DispatchNode, Superstep, dispatch_router
<1>5. node = "dispatch" /\ Closed => node' = "end"
  BY <1>1 DEF AnalyzerNode, ArchitectNode, DispatchNode, Superstep, dispatch_router, Standing,
              Settled
<1>6. node' = "dispatch" => node = "architect"
  BY DEF AnalyzerNode, ArchitectNode, DispatchNode, Superstep, dispatch_router
<1>7. node' = "executor" => ticket_status # "escalated"
  BY <1>1, <1>5 DEF Standing
<1>8. node' # "end" => last_attempt_log_len = attempt_log
  BY <1>1, <1>5 DEF LogRead
<1> QED
  BY <1>1, <1>2, <1>3, <1>4, <1>7, <1>8 DEF Tells

\* The executor tells of an escalation when it gives up, and then every strike
\* is spent.
LEMMA ExecutorStepTells ==
  ASSUME EventInv, status = "running", ExecutorNode
  PROVE  Tells
<1>1. /\ node = "executor" /\ ticket_status # "escalated" /\ escalation_count \in Nat
      /\ strike_count \in Nat /\ MaxStrikes \in Nat
  BY BudgetAssumption DEF EventInv, Told, Inv, TypeOK, ExecutorNode, Superstep
<1>2. /\ UNCHANGED <<mock, issue, active_ticket, escalation_count>>
      /\ supersteps' = supersteps + 1 /\ node' = "validator"
  BY DEF ExecutorNode, Superstep, config
<1>3. extract_escalation = IF ticket_status' = "escalated" THEN <<"escalation">> ELSE <<>>
  BY <1>1 DEF extract_escalation
<1>4. ticket_status' = "escalated" => strike_count' >= MaxStrikes
  <2>1. CASE ExecutorMock \/ ExecutorPasses
    BY <2>1 DEF ExecutorMock, ExecutorPasses
  <2>2. CASE ExecutorGivesUp
    BY <1>1, <2>2 DEF ExecutorGivesUp, Strikes
  <2> QED
    BY <2>1, <2>2 DEF ExecutorNode
<1>5. extract_escalation # <<>> <=> ticket_status' = "escalated"
  BY <1>3
<1> QED
  BY <1>1, <1>2, <1>3, <1>4, <1>5 DEF Tells

\* A ticket given up on can still be validated, but never goes back.
LEMMA JudgingTells ==
  ASSUME EventInv, status = "running", ValidatorNode \/ OversightGitNode
  PROVE  Tells
<1>1. /\ ~active_ticket.files /\ LogRead /\ Told
      /\ escalation_count \in Nat /\ strike_count \in Nat /\ MaxStrikes \in Nat
      /\ node \in {"validator", "oversight_git"}
  BY BudgetAssumption DEF EventInv, EventTypes, ServerTicket, Inv, TypeOK, ValidatorNode,
                          OversightGitNode, Superstep
<1>2. extract_escalation = <<>>
  BY <1>1 DEF extract_escalation
<1>3. /\ UNCHANGED <<mock, issue, active_ticket, escalation_count>>
      /\ supersteps' = supersteps + 1
  BY DEF ValidatorNode, OversightGitNode, Superstep, config
<1>4. CASE ValidatorNode
  <2>1. /\ node = "validator" /\ UNCHANGED <<ticket_status, attempt_log, decision_ledger>>
        /\ node' = validator_router(last_validation_passed', strike_count')
        /\ strike_count' \in {strike_count, strike_count + 1}
    BY <1>4 DEF ValidatorNode, Superstep, ValidatorPasses, ValidatorFails, history
  <2>2. node' \in {"oversight_git", "escalate", "executor"}
    BY <2>1 DEF validator_router
  <2>3. node' = "executor" => strike_count' < MaxStrikes
    BY <1>1, <2>1 DEF validator_router
  <2>4. node' = "executor" => ticket_status # "escalated"
    BY <1>1, <2>1, <2>3 DEF Told
  <2>5. last_attempt_log_len = attempt_log
    BY <1>1, <2>1 DEF LogRead
  <2> QED
    BY <1>1, <1>2, <1>3, <2>1, <2>2, <2>4, <2>5 DEF Tells
<1>5. CASE OversightGitNode
  <2>1. UNCHANGED ticket_status
    BY <1>1, <1>5 DEF OversightGitNode, OversightNoFiles, OversightCommits, OversightStrikes
  <2>2. node' = "advance"
    BY <1>1, <1>5 DEF OversightGitNode, Superstep, oversight_git_router
  <2> QED
    BY <1>1, <1>2, <1>3, <2>1, <2>2 DEF Tells
<1> QED
  BY <1>4, <1>5

\* escalate tells of its escalation, advance of nothing.
LEMMA ClosingTells ==
  ASSUME EventInv, status = "running", EscalateNode \/ AdvanceNode
  PROVE  Tells
<1>1. escalation_count \in Nat /\ attempt_log \in Nat
  BY DEF EventInv, Inv, TypeOK
<1>2. CASE EscalateNode
  <2>1. /\ UNCHANGED <<mock, issue, active_ticket>> /\ supersteps' = supersteps + 1
        /\ node = "escalate" /\ node' = "advance"
        /\ ticket_status' = "escalated" /\ escalation_count' = escalation_count + 1
    BY <1>2 DEF EscalateNode, Superstep, config
  <2>2. extract_escalation = <<"escalation">>
    BY <2>1 DEF extract_escalation
  <2> QED
    BY <1>1, <2>1, <2>2 DEF Tells
<1>3. CASE AdvanceNode
  <2>1. /\ UNCHANGED <<mock, issue, active_ticket, ticket_status, escalation_count>>
        /\ supersteps' = supersteps + 1
        /\ node = "advance" /\ node' = "dispatch"
    BY <1>3 DEF AdvanceNode, Superstep, config, verdict, budget
  <2>2. extract_escalation = <<>>
    BY <2>1 DEF extract_escalation
  <2>3. Closed'
    <3>1. /\ decision_ledger \in Seq([summary : Nat, attempt_count : Nat])
          /\ \E entry : decision_ledger' = Append(decision_ledger, entry)
      BY <1>3 DEF AdvanceNode, EventInv, Inv, TypeOK
    <3> QED
      BY <3>1 DEF Closed
  <2> QED
    BY <1>1, <2>1, <2>2, <2>3 DEF Tells
<1> QED
  BY <1>2, <1>3

-----------------------------------------------------------------------------
(* Every step keeps the invariant. *)

\* How far an update lengthens the record: one for the superstep, two for
\* each attempt it reports and one for an escalation.
LEMMA Lengthens ==
  ASSUME NEW told \in Nat, NEW steps \in Nat, NEW tries \in Nat, NEW tries1 \in Nat,
         NEW spent \in Nat, NEW spent1 \in Nat, NEW said \in Nat, NEW saying \in Nat,
         NEW len \in Nat, NEW new \in Nat,
         told <= steps + 2 * tries + spent + said + 1,
         len <= 2 * (tries1 - tries), spent1 + saying >= spent + said + new
  PROVE  told + 1 + len + new <= (steps + 1) + 2 * tries1 + spent1 + saying + 1
  OBVIOUS

\* One superstep and what it tells of it: the graph's own step, joined with the
\* events and the log lines of the update.
LEMMA UpdateStep ==
  ASSUME EventInv, Update
  PROVE  EventInv'
<1>1. /\ status = "running" /\ Next /\ node' # "raised" /\ LogGrows
      /\ events' = events \o <<"node_update">> \o extract_attempts \o extract_escalation
      /\ last_attempt_log_len' = IF node = "executor" THEN attempt_log' ELSE last_attempt_log_len
      /\ status' = status
  BY DEF Update
<1>2. Inv'
  BY <1>1, StepKeepsInv DEF EventInv
<1>3. Tells
  <2>1. ~NodeRaises
    BY <1>1 DEF NodeRaises
  <2> QED
    BY <1>1, <2>1, PlanningTells, ExecutorStepTells, JudgingTells, ClosingTells DEF Next
<1>4. /\ events \in Seq(EventKinds) /\ events # <<>> /\ events[1] = "run_started"
      /\ \A i \in 1 .. Len(events) : events[i] \notin Terminal
  BY <1>1 DEF EventInv, EventTypes, Framing, Final
<1>5. /\ lines' \in Seq(LineKinds) /\ Len(lines') = attempt_log'
      /\ attempts \in Nat /\ attempts' \in Nat /\ attempts <= attempts'
      /\ extract_attempts \in Seq({"attempt"})
      /\ Cardinality(Places(extract_attempts, {"attempt"})) = Len(extract_attempts)
      /\ Len(extract_attempts) <= 2 * (attempts' - attempts)
      /\ IF mock THEN Len(extract_attempts) = 0
                 ELSE attempts' - attempts <= Len(extract_attempts)
      /\ ~Closed' => ~Closed /\ MentionedIn(lines') = MentionedIn(lines) + Len(extract_attempts)
  <2>1. attempts \in Nat
    BY DEF EventInv, Inv, TypeOK
  <2>2. CASE node = "executor"
    <3>1. ExecutorNode
      BY <1>1, <2>2 DEF Next, AnalyzerNode, ArchitectNode, DispatchNode, ValidatorNode,
                        OversightGitNode, EscalateNode, AdvanceNode, NodeRaises, Superstep
    <3>2. UNCHANGED decision_ledger
      BY <3>1 DEF ExecutorNode
    <3> QED
      BY <1>1, <2>1, <3>1, <3>2, ExecutorTells DEF Closed
  <2>3. CASE node # "executor"
    <3>1. /\ lines' \in Seq(LineKinds) /\ Len(lines') = attempt_log'
          /\ attempts' = attempts /\ extract_attempts = <<>>
          /\ ~Closed' => ~Closed /\ MentionedIn(lines') = MentionedIn(lines)
      BY <1>1, <2>3, OthersTell
    <3>2. Cardinality(Places(<<>>, {"attempt"})) = 0
      <4>1. Places(<<>>, {"attempt"}) = {}
        BY DEF Places
      <4> QED
        BY <4>1, FS_EmptySet
    <3>3. /\ <<>> \in Seq({"attempt"}) /\ Len(<<>>) = 0
          /\ attempts - attempts = 0 /\ 2 * 0 = 0 /\ attempts <= attempts
      BY <2>1
    <3>4. MentionedIn(lines) + 0 = MentionedIn(lines)
      <4>1. MentionedIn(lines) \in Nat
        BY MentionsFinite DEF EventInv, EventTypes
      <4> QED
        BY <4>1
    <3> QED
      BY <2>1, <3>1, <3>2, <3>3, <3>4
  <2> QED
    BY <2>2, <2>3
<1>6. /\ events' \in Seq(EventKinds) /\ events' # <<>> /\ events'[1] = events[1]
      /\ Len(events') = Len(events) + 1 + Len(extract_attempts)
                          + (IF extract_escalation = <<>> THEN 0 ELSE 1)
      /\ \A x \in Terminal : Holds(events', x) => Holds(events, x)
      /\ Holds(events', "escalation") <=> Holds(events, "escalation") \/ extract_escalation # <<>>
      /\ Cardinality(Places(events', {"attempt"}))
           = Cardinality(Places(events, {"attempt"}))
               + Cardinality(Places(extract_attempts, {"attempt"}))
  BY <1>1, <1>3, <1>4, <1>5, UpdateEvents DEF Tells
<1>7. EventTypes'
  BY <1>1, <1>3, <1>5, <1>6 DEF EventInv, EventTypes, Tells, Final
<1>8. Framing'
  <2>1. \A i \in 1 .. Len(events') : events'[i] \notin Terminal
    BY <1>4, <1>6 DEF Holds
  <2> QED
    BY <1>1, <1>4, <1>6, <2>1 DEF Framing, Final
<1>9. LogRead'
  BY <1>1, <1>3, <1>5 DEF Tells, LogRead
<1>10. Told'
  <2>1. /\ IF mock THEN Reported = 0 ELSE attempts <= Reported
        /\ ~Closed => Reported = MentionedIn(lines)
        /\ Holds(events, "escalation") <=> ticket_status = "escalated"
    BY <1>1 DEF EventInv, Told
  <2>2. /\ IF mock' THEN Reported' = 0 ELSE attempts' <= Reported'
        /\ ~Closed' => Reported' = MentionedIn(lines)'
    <3> DEFINE len == Len(extract_attempts)
    <3>1. Reported' = Reported + len
      BY <1>5, <1>6 DEF Reported
    <3>2. Reported \in Nat /\ len \in Nat
      <4>1. Reported \in Nat
        BY <1>4, PlacesFinite DEF Reported
      <4> QED
        BY <1>5, <4>1
    <3>3. MentionedIn(lines)' = MentionedIn(lines')
      BY DEF MentionedIn
    <3>4. UNCHANGED mock
      BY <1>3 DEF Tells
    <3> HIDE DEF len
    <3>5. CASE mock
      BY <1>5, <2>1, <3>1, <3>2, <3>3, <3>4, <3>5 DEF len
    <3>6. CASE ~mock
      <4>1. attempts' <= Reported'
        BY <1>5, <2>1, <3>1, <3>2, <3>6 DEF len
      <4> QED
        BY <1>5, <2>1, <3>1, <3>3, <3>4, <3>6, <4>1 DEF len
    <3> QED
      BY <3>5, <3>6
  <2>3. Holds(events', "escalation") <=> ticket_status' = "escalated"
    BY <1>3, <1>6, <2>1 DEF Tells
  <2> QED
    BY <1>1, <1>3, <2>2, <2>3 DEF Told, Tells
<1>11. Size'
  <2>1. Len(events) <= supersteps + 2 * attempts + escalation_count
                         + (IF ticket_status = "escalated" THEN 1 ELSE 0) + 1
    BY <1>1 DEF EventInv, Size, Final
  <2>2. /\ Len(events) \in Nat /\ Len(extract_attempts) \in Nat
        /\ supersteps \in Nat /\ escalation_count \in Nat /\ escalation_count' \in Nat
    <3>1. supersteps \in Nat /\ escalation_count \in Nat /\ escalation_count' \in Nat
      BY <1>2 DEF EventInv, Inv, TypeOK
    <3>2. Len(events) \in Nat
      BY <1>4
    <3>3. Len(extract_attempts) \in Nat
      BY <1>5
    <3> QED
      BY <3>1, <3>2, <3>3
  <2>3. Len(events') <= supersteps' + 2 * attempts' + escalation_count'
                          + (IF ticket_status' = "escalated" THEN 1 ELSE 0) + 1
    <3> DEFINE len == Len(extract_attempts)
               said == IF ticket_status = "escalated" THEN 1 ELSE 0
               saying == IF ticket_status' = "escalated" THEN 1 ELSE 0
               new == IF extract_escalation = <<>> THEN 0 ELSE 1
    <3>1. /\ supersteps' = supersteps + 1
          /\ escalation_count' + saying >= escalation_count + said + new
          /\ said \in Nat /\ saying \in Nat /\ new \in Nat
      BY <1>3 DEF Tells
    <3>2. /\ Len(events') = Len(events) + 1 + len + new
          /\ Len(events) <= supersteps + 2 * attempts + escalation_count + said + 1
      BY <1>6, <2>1
    <3>3. len \in Nat /\ len <= 2 * (attempts' - attempts)
      BY <1>5, <2>2
    <3> HIDE DEF len, said, saying, new
    <3>4. Len(events) + 1 + len + new
            <= (supersteps + 1) + 2 * attempts' + escalation_count' + saying + 1
      <4>1. attempts \in Nat /\ attempts' \in Nat
        BY <1>5
      <4> QED
        BY <2>2, <3>1, <3>2, <3>3, <4>1, Lengthens
    <3>5. Len(events') <= supersteps' + 2 * attempts' + escalation_count' + saying + 1
      BY <3>1, <3>2, <3>4, Zenon
    <3> QED
      BY <3>5 DEF saying
  <2> QED
    BY <1>1, <2>3 DEF Size, Final
<1> QED
  BY <1>2, <1>7, <1>8, <1>9, <1>10, <1>11 DEF EventInv

\* drive_run begins: nothing has been told, and the graph has not moved.
LEMMA StartStep ==
  ASSUME EventInv, Start
  PROVE  EventInv'
<1>1. /\ status = "queued" /\ status' = "running" /\ events' = <<"run_started">>
      /\ UNCHANGED <<vars, lines, last_attempt_log_len, last_escalation_count, last_run_status>>
  BY DEF Start
<1>2. /\ UNCHANGED <<mock, issue, node, supersteps, active_ticket, attempt_log, decision_ledger,
                     ticket_status, strike_count, escalation_count, attempts, lines,
                     last_attempt_log_len>>
  BY <1>1 DEF vars, config, history, verdict, budget, sandbox
<1>3. Inv'
  BY <1>1, StepKeepsInv DEF EventInv
<1>4. /\ node = "analyzer" /\ events = <<>> /\ supersteps = 0 /\ attempts = 0
      /\ ticket_status = "none" /\ escalation_count \in Nat
  BY <1>1 DEF EventInv, Framing, Inv, Cost, Strain, Standing, TypeOK
<1>5. /\ events' \in Seq(EventKinds) /\ events' # <<>> /\ events'[1] = "run_started"
      /\ Len(events') = 1
  BY <1>1 DEF EventKinds
<1>6. EventTypes'
  BY <1>1, <1>2, <1>5 DEF EventInv, EventTypes
<1>7. Framing'
  <2>1. \A i \in 1 .. Len(events') : i = 1
    BY <1>5
  <2> QED
    BY <1>1, <1>5, <2>1 DEF Framing, Final, Terminal
<1>8. LogRead'
  BY <1>1, <1>2 DEF EventInv, LogRead, Closed
<1>9. Told'
  <2>1. Cardinality(Places(events', {"attempt"})) = 0
    <3>1. Places(<<"run_started">>, {"attempt"}) = {}
      BY DEF Places
    <3> QED
      BY <1>1, <3>1, FS_EmptySet
  <2>2. ~Holds(events', "escalation")
    BY <1>1 DEF Holds
  <2>3. Reported = 0 /\ Reported' = 0
    <3>1. Places(<<>>, {"attempt"}) = {}
      BY DEF Places
    <3> QED
      BY <1>4, <2>1, <3>1, FS_EmptySet DEF Reported
  <2>4. ~Closed' => Reported' = MentionedIn(lines)'
    BY <1>1, <1>2, <2>3 DEF EventInv, Told, Closed, MentionedIn
  <2>5. IF mock' THEN Reported' = 0 ELSE attempts' <= Reported'
    BY <1>2, <1>4, <2>3
  <2> QED
    BY <1>1, <1>2, <1>4, <2>2, <2>4, <2>5 DEF Told
<1>10. Size'
  BY <1>1, <1>2, <1>4, <1>5 DEF Size, Final
<1> QED
  BY <1>3, <1>6, <1>7, <1>8, <1>9, <1>10 DEF EventInv

\* The terminal event, whichever it is.
LEMMA FinalStep ==
  ASSUME EventInv, status = "running", Inv', status' \in Final,
         NEW x \in Terminal, events' = Append(events, x),
         UNCHANGED <<issue, active_ticket, mock, lines, supersteps, escalation_count,
                     ticket_status>>,
         attempts <= attempts',
         status' = "failed"
           \/ /\ UNCHANGED <<vars, last_attempt_log_len>> /\ node = "end"
              /\ status' = IF ticket_status = "escalated" THEN "escalated" ELSE "completed"
  PROVE  EventInv'
<1>1. /\ events \in Seq(EventKinds) /\ events # <<>> /\ events[1] = "run_started"
      /\ \A i \in 1 .. Len(events) : events[i] \notin Terminal
  BY DEF EventInv, EventTypes, Framing, Final
<1>2. /\ events' \in Seq(EventKinds) /\ events' # <<>> /\ events'[1] = events[1]
      /\ Len(events') = Len(events) + 1
      /\ \A i \in 1 .. Len(events') : events'[i] \in Terminal => i = Len(events')
      /\ events'[Len(events')] \in Terminal
      /\ Holds(events', "escalation") <=> Holds(events, "escalation")
      /\ Places(events', {"attempt"}) = Places(events, {"attempt"})
  BY <1>1, TerminalEvent
<1>3. EventTypes'
  BY <1>2 DEF EventInv, EventTypes
<1>4. Framing'
  BY <1>1, <1>2 DEF Framing, Final
<1>5. LogRead'
  BY DEF EventInv, LogRead, vars, history, Closed
<1>6. Told'
  <2>1. CASE status' = "failed"
    BY <2>1 DEF Told
  <2>2. CASE status' # "failed"
    <3>1. UNCHANGED <<mock, attempts, node, strike_count, ticket_status>>
      BY <2>2 DEF vars, config, budget, sandbox, verdict
    <3>2. Reported' = Reported /\ MentionedIn(lines)' = MentionedIn(lines) /\ Closed' = Closed
      BY <1>2, <2>2 DEF Reported, MentionedIn, Closed, vars, history
    <3> QED
      BY <1>2, <2>2, <3>1, <3>2 DEF EventInv, Told
  <2> QED
    BY <2>1, <2>2
<1>7. Size'
  <2> DEFINE said == IF ticket_status = "escalated" THEN 1 ELSE 0
  <2>1. /\ Len(events) <= supersteps + 2 * attempts + escalation_count + said + 1
        /\ said \in Nat
    BY DEF EventInv, Size, Final
  <2>2. /\ Len(events) \in Nat /\ supersteps \in Nat /\ escalation_count \in Nat
        /\ attempts \in Nat /\ attempts' \in Nat
    BY <1>1 DEF EventInv, Inv, TypeOK
  <2> HIDE DEF said
  <2>3. Len(events') <= supersteps + 2 * attempts' + escalation_count + said + 2
    BY <1>2, <2>1, <2>2
  <2> QED
    BY <2>3 DEF Size, said
<1> QED
  BY <1>3, <1>4, <1>5, <1>6, <1>7 DEF EventInv

\* An exception leaves the ticket and the budgets as they were.
LEMMA FailsStep ==
  ASSUME EventInv, Fails
  PROVE  EventInv'
<1>1. /\ status = "running" /\ Next /\ node' = "raised" /\ status' = "failed"
      /\ events' = Append(events, "run_failed") /\ UNCHANGED lines
  BY DEF Fails
<1>2. NodeRaises
  BY <1>1 DEF Next, AnalyzerNode, ArchitectNode, DispatchNode, ExecutorNode, ValidatorNode,
              OversightGitNode, EscalateNode, AdvanceNode, Superstep, dispatch_router,
              validator_router, oversight_git_router
<1>3. UNCHANGED <<issue, active_ticket, mock, supersteps, escalation_count, ticket_status>>
  BY <1>2 DEF NodeRaises, config, budget, verdict
<1>4. attempts <= attempts'
  <2>1. attempts \in Nat /\ strike_count \in Nat /\ MaxStrikes \in Nat
    BY BudgetAssumption DEF EventInv, Inv, TypeOK
  <2>2. attempts' = attempts \/ \E n \in 0 .. (MaxStrikes - strike_count) : attempts' = attempts + n
    BY <1>2 DEF NodeRaises
  <2> QED
    BY <2>1, <2>2
<1>5. Inv'
  BY <1>1, StepKeepsInv DEF EventInv
<1> QED
  BY <1>1, <1>3, <1>4, <1>5, FinalStep DEF Final, Terminal

\* The graph has ended.
LEMMA EndsStep ==
  ASSUME EventInv, Completes \/ ReadBackFails
  PROVE  EventInv'
<1>1. /\ status = "running" /\ node = "end" /\ UNCHANGED <<vars, lines, last_attempt_log_len>>
      /\ \/ /\ status' = IF ticket_status = "escalated" THEN "escalated" ELSE "completed"
            /\ events' = Append(events, "run_completed")
         \/ status' = "failed" /\ events' = Append(events, "run_failed")
  BY DEF Completes, ReadBackFails
<1>2. Inv'
  BY <1>1, StepKeepsInv DEF EventInv
<1>3. /\ UNCHANGED <<issue, active_ticket, mock, supersteps, escalation_count, ticket_status>>
      /\ attempts' = attempts /\ attempts \in Nat
  BY <1>1 DEF vars, config, budget, verdict, sandbox, EventInv, Inv, TypeOK
<1>4. attempts <= attempts'
  BY <1>3
<1>5. CASE /\ status' = IF ticket_status = "escalated" THEN "escalated" ELSE "completed"
           /\ events' = Append(events, "run_completed")
  BY <1>1, <1>2, <1>3, <1>4, <1>5, FinalStep DEF Final, Terminal
<1>6. CASE status' = "failed" /\ events' = Append(events, "run_failed")
  BY <1>1, <1>2, <1>3, <1>4, <1>6, FinalStep DEF Final, Terminal
<1> QED
  BY <1>1, <1>5, <1>6

-----------------------------------------------------------------------------
\* A run that has been registered and not started.
LEMMA RunStart == RunInit => EventInv
<1> SUFFICES ASSUME RunInit PROVE EventInv
  OBVIOUS
<1>1. Inv
  BY StartKeepsInv DEF RunInit
<1>2. /\ node = "analyzer" /\ attempt_log = 0 /\ attempts = 0 /\ ticket_status = "none"
      /\ supersteps = 0 /\ escalation_count = 0 /\ ~issue /\ active_ticket = ServerTicket
      /\ status = "queued" /\ events = <<>> /\ lines = <<>> /\ last_attempt_log_len = 0
  BY DEF RunInit, Init, Fresh
<1>3. /\ events \in Seq(EventKinds) /\ Len(events) = 0
      /\ lines \in Seq(LineKinds) /\ Len(lines) = 0
  BY <1>2
<1>4. EventTypes /\ Framing /\ LogRead
  BY <1>2, <1>3 DEF EventTypes, Framing, LogRead, Final
<1>5. Told
  <2>1. Cardinality(Places(events, {"attempt"})) = 0
    <3>1. Places(<<>>, {"attempt"}) = {}
      BY DEF Places
    <3> QED
      BY <1>2, <3>1, FS_EmptySet
  <2>2. ~Holds(events, "escalation")
    BY <1>3 DEF Holds
  <2>3. MentionedIn(lines) = 0
    <3>1. {i \in DOMAIN lines : Mentions(lines[i])} = {}
      BY <1>3
    <3> QED
      BY <3>1, FS_EmptySet DEF MentionedIn
  <2> QED
    BY <1>2, <2>1, <2>2, <2>3 DEF Told, Reported
<1>6. Size
  BY <1>2, <1>3 DEF Size, Final
<1> QED
  BY <1>1, <1>4, <1>5, <1>6 DEF EventInv

\* One lemma per action above, and stuttering.
LEMMA RunStep == EventInv /\ [RunNext]_eventVars => EventInv'
<1> SUFFICES ASSUME EventInv, [RunNext]_eventVars PROVE EventInv'
  OBVIOUS
<1>1. CASE RunNext
  BY <1>1, StartStep, UpdateStep, FailsStep, EndsStep DEF RunNext
<1>2. CASE UNCHANGED eventVars
  <2>1. /\ UNCHANGED vars
        /\ UNCHANGED <<mock, issue, node, supersteps, active_ticket, attempt_log,
                       decision_ledger, ticket_status, strike_count, escalation_count, attempts>>
        /\ UNCHANGED <<status, events, lines, last_attempt_log_len>>
    BY <1>2 DEF eventVars, record, vars, config, history, verdict, budget, sandbox
  <2>2. Inv'
    BY <2>1, StepKeepsInv DEF EventInv
  <2>3. EventTypes' /\ Framing' /\ LogRead' /\ Told' /\ Size'
    BY <2>1 DEF EventInv, EventTypes, Framing, LogRead, Told, Reported, MentionedIn, Size,
                   Closed
  <2> QED
    BY <2>2, <2>3 DEF EventInv
<1> QED
  BY <1>1, <1>2

\* The inductive invariant holds in every reachable state.
THEOREM EventInvariance == RunSpec => []EventInv
<1> QED
  BY RunStart, RunStep, PTL DEF RunSpec

\* The stream begins with run_started and has its one terminal event at its
\* end, exactly when the record has reached a final status.
THEOREM TerminalOnce == RunSpec => []OneTerminalEvent
<1>1. EventInv => OneTerminalEvent
  <2> SUFFICES ASSUME EventInv PROVE OneTerminalEvent
    OBVIOUS
  <2>1. Framing /\ events \in Seq(EventKinds) /\ status \in {"queued", "running"} \cup Final
    BY DEF EventInv, EventTypes
  <2>2. DOMAIN events = 1 .. Len(events) /\ Len(events) \in Nat
    BY <2>1
  <2>3. events # <<>> => events[1] = "run_started"
    BY <2>1 DEF Framing
  <2>4. CASE status \in {"queued", "running"}
    <3>1. {i \in DOMAIN events : events[i] \in Terminal} = {}
      BY <2>1, <2>2, <2>4 DEF Framing, Final
    <3>2. Count(Terminal) = 0
      BY <3>1, FS_EmptySet DEF Count
    <3> QED
      BY <2>3, <2>4, <3>2 DEF OneTerminalEvent
  <2>5. CASE status \in Final
    <3>1. events # <<>> /\ events[Len(events)] \in Terminal
      BY <2>1, <2>5 DEF Framing, Final
    <3>2. Len(events) \in DOMAIN events
      BY <2>1, <2>2, <3>1
    <3>3. {i \in DOMAIN events : events[i] \in Terminal} = {Len(events)}
      BY <2>1, <2>2, <3>1, <3>2 DEF Framing
    <3>4. Count(Terminal) = 1
      BY <3>3, FS_Singleton DEF Count
    <3>5. status \notin {"queued", "running"}
      BY <2>5 DEF Final
    <3> QED
      BY <2>3, <3>1, <3>4, <3>5 DEF OneTerminalEvent
  <2> QED
    BY <2>1, <2>4, <2>5
<1> QED
  BY <1>1, EventInvariance, PTL

\* For every strike budget, no strike goes unreported (and the mock executor
\* reports none), and while the ticket has a log, each of its lines that mention
\* the fast checks has been reported exactly once.
THEOREM StrikesAllReported == RunSpec => []StrikesReported
<1>1. EventInv => StrikesReported
  <2> SUFFICES ASSUME EventInv, status # "failed"
               PROVE  /\ IF mock THEN Count({"attempt"}) = 0 ELSE attempts <= Count({"attempt"})
                      /\ lines # <<>> => Count({"attempt"}) = MentionedIn(lines)
    BY DEF StrikesReported, MentionedIn
  <2>1. Count({"attempt"}) = Reported
    BY DEF Count, Reported, Places
  <2>2. lines # <<>> => ~Closed
    <3>1. Len(lines) = attempt_log /\ lines \in Seq(LineKinds)
      BY DEF EventInv, LogRead, EventTypes
    <3>2. Closed => attempt_log = 0
      BY DEF EventInv, Inv, Ledger
    <3> QED
      BY <3>1, <3>2
  <2> QED
    BY <2>1, <2>2 DEF EventInv, Told
<1> QED
  BY <1>1, EventInvariance, PTL

\* A run that ends escalated has told of an escalation, and no other has.
THEOREM EscalationTold == RunSpec => []EscalationReported
<1>1. EventInv => EscalationReported
  <2> SUFFICES ASSUME EventInv, status \in {"completed", "escalated"}
               PROVE  Count({"escalation"}) > 0 <=> status = "escalated"
    BY DEF EscalationReported
  <2>1. /\ Holds(events, "escalation") <=> ticket_status = "escalated"
        /\ status = "escalated" <=> ticket_status = "escalated"
    BY DEF EventInv, Told
  <2>2. events \in Seq(EventKinds)
    BY DEF EventInv, EventTypes
  <2>3. /\ IsFiniteSet(Places(events, {"escalation"}))
        /\ Cardinality(Places(events, {"escalation"})) \in Nat
    BY <2>2, PlacesFinite
  <2>4. Cardinality(Places(events, {"escalation"})) = 0 <=> Places(events, {"escalation"}) = {}
    BY <2>3, FS_EmptySet
  <2>5. Places(events, {"escalation"}) # {} <=> Holds(events, "escalation")
    BY <2>2 DEF Places, Holds
  <2>6. Count({"escalation"}) = Cardinality(Places(events, {"escalation"}))
    BY DEF Count, Places
  <2> QED
    BY <2>1, <2>3, <2>4, <2>5, <2>6
<1> QED
  BY <1>1, EventInvariance, PTL

\* A run that is reported as completed ended with contents that have passed the
\* tests of its ticket, done or (without declared files) just validated: what the
\* record says does not depend on which of the nodes' updates reached the stream.
CompletedVerified ==
  status = "completed" =>
    Outcome \in {"done", "validated"} /\ last_validation_passed /\ checked = tree

\* The record's "completed" can be taken at its word, for every budget.
THEOREM CompletedIsVerified == RunSpec => []CompletedVerified
<1>1. EventInv => CompletedVerified
  <2> SUFFICES ASSUME EventInv, status = "completed"
               PROVE  Outcome \in {"done", "validated"} /\ last_validation_passed
                        /\ checked = tree
    BY DEF CompletedVerified
  <2>1. node = "end" /\ ticket_status # "escalated"
    BY DEF EventInv, Told
  <2>2. Settled
    BY <2>1 DEF EventInv, Inv, Ledger, Standing
  <2>3. ticket_status = "done" => checked = tree
    BY DEF EventInv, Inv, Standing
  <2> QED
    BY <2>1, <2>2, <2>3 DEF Settled, Outcome
<1> QED
  BY <1>1, EventInvariance, PTL

\* One run's events are few, whatever the budgets.
THEOREM EventsFew == RunSpec => []EventsBounded
<1>1. EventInv => EventsBounded
  <2> SUFFICES ASSUME EventInv PROVE EventsBounded
    OBVIOUS
  <2>1. /\ supersteps <= 3 * MaxStrikes + 6 /\ attempts <= MaxStrikes
        /\ supersteps \in Nat /\ attempts \in Nat /\ MaxStrikes \in Nat
    BY BudgetAssumption DEF EventInv, Inv, Cost, Strain, TypeOK, SuperstepBound
  <2>2. escalation_count \in {0, 1}
    BY DEF EventInv, Inv, Standing, Settled
  <2>3. Len(events) <= supersteps + 2 * attempts + escalation_count + 1 + 2
    <3>1. Len(events) \in Nat
      BY DEF EventInv, EventTypes
    <3> QED
      BY <2>1, <2>2, <3>1 DEF EventInv, Size
  <2>4. Len(events) \in Nat
    BY DEF EventInv, EventTypes
  <2> QED
    BY <2>1, <2>2, <2>3, <2>4 DEF EventsBounded, EventBound, SuperstepBound
<1> QED
  BY <1>1, EventInvariance, PTL

=============================================================================
