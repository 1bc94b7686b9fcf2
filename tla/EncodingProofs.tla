--------------------------- MODULE EncodingProofs ---------------------------
(***************************************************************************)
(* The rewriting of texts, for texts of every length and every value of    *)
(* the limits.  A state is a call and what its function computes           *)
(* (CodecInv); the rest is about the functions.                            *)
(*                                                                         *)
(* They are recursive functions, and what such a function computes has to  *)
(* be proved from an equation that TLA+ only has if some function          *)
(* satisfies it: Recursion provides that one, by the least place from      *)
(* which there were none, and Induction and SeqInduction work on sets of   *)
(* numbers and texts.  With these,                                         *)
(*   EditExactness    from what str.count tells of the occurrences,        *)
(*   FrameBound       from the length of json.dumps inside json.dumps,     *)
(*   NoSecretLeaves   from the origin of every character of a secret       *)
(*                    (Provenance): redaction, escaping and cutting all    *)
(*                    keep neighbours neighbours,                          *)
(*   DiagnosisIsTail  from the lines (TailLines), the bytes (ByteCut,      *)
(*                    DecodeWhole) and that no longer end is within both   *)
(*                    limits (NoLongerEnd).                                *)
(***************************************************************************)
EXTENDS Encoding, FiniteSetTheorems, WellFoundedInduction, SequenceTheorems, TLAPS

-----------------------------------------------------------------------------
(* Numbers, and recursion over the places of a text *)

\* A set of numbers that is not empty has a least one: what the inductions below rest on.
LEMMA LeastNumber ==
  ASSUME NEW T, T \subseteq Nat, T # {}
  PROVE  \E x \in T : \A y \in T : x <= y
<1>1. PICK n \in T : TRUE
  OBVIOUS
<1> DEFINE F == {0 .. x : x \in {y \in T : y <= n}}
<1>2. F \subseteq FiniteSubsetsOf(0 .. n) /\ F # {}
  <2>1. n \in Nat
    BY <1>1
  <2>2. ASSUME NEW x \in {y \in T : y <= n}
        PROVE  0 .. x \in FiniteSubsetsOf(0 .. n)
    <3>1. x \in Nat /\ 0 .. x \subseteq 0 .. n
      BY <2>1, <2>2
    <3>2. IsFiniteSet(0 .. x)
      BY <3>1, FS_Interval
    <3> QED
      BY <3>1, <3>2 DEF FiniteSubsetsOf
  <2>3. n \in {y \in T : y <= n}
    BY <2>1, <1>1
  <2> QED
    BY <2>2, <2>3
<1>3. PICK X \in F : \A Y \in F : ~ (<<Y, X>> \in StrictSubsetOrdering(0 .. n))
  BY <1>2, FS_StrictSubsetOrderingWellFounded, WFMin
<1>4. PICK x \in {y \in T : y <= n} : X = 0 .. x
  BY <1>3
<1>5. ASSUME NEW y \in T, ~ (x <= y)
      PROVE  FALSE
  <2>1. x \in Nat /\ y \in Nat /\ n \in Nat /\ y < x /\ x <= n
    BY <1>4, <1>5, <1>1
  <2>2. 0 .. y \in F
    BY <2>1, <1>5
  <2>3. 0 .. y \in SUBSET (0 .. n) /\ 0 .. x \in SUBSET (0 .. n)
    BY <2>1
  <2>4. 0 .. y \subseteq 0 .. x /\ x \in 0 .. x /\ x \notin 0 .. y
    BY <2>1
  <2>5. <<0 .. y, 0 .. x>> \in StrictSubsetOrdering(0 .. n)
    BY <2>3, <2>4 DEF StrictSubsetOrdering
  <2> QED
    BY <2>2, <2>5, <1>3, <1>4
<1> QED
  BY <1>4, <1>5

\* A recursion over the places 1 .. N + 1 of a text: it stops at the last one
\* with v, and at place i goes on at next[i] and makes a step of what comes back.
Advances(next, N) ==
  next \in [1 .. N -> Nat] /\ \A i \in 1 .. N : next[i] \in i + 1 .. N + 1
Steps(N, V) == [1 .. N -> [V -> V]]
Unrolls(f, N, v, next, step) ==
  f[N + 1] = v /\ \A i \in 1 .. N : f[i] = step[i][f[next[i]]]

\* Such a recursion has a solution: otherwise there were a last place from which
\* none reached the end.  Redacted and Count are written so.
LEMMA Recursion ==
  ASSUME NEW N \in Nat, NEW V, NEW v \in V, NEW next, Advances(next, N), NEW step \in Steps(N, V)
  PROVE  \E f \in [1 .. N + 1 -> V] : Unrolls(f, N, v, next, step)
<1> USE DEF Advances, Steps
<1> DEFINE From(n) == \E f \in [N + 1 - n .. N + 1 -> V] :
             f[N + 1] = v /\ \A i \in N + 1 - n .. N : f[i] = step[i][f[next[i]]]
           Bad == {n \in 0 .. N : ~ From(n)}
<1>1. From(0)
  <2> DEFINE f == [i \in N + 1 - 0 .. N + 1 |-> v]
  <2>1. f \in [N + 1 - 0 .. N + 1 -> V] /\ f[N + 1] = v /\ N + 1 - 0 .. N = {}
    OBVIOUS
  <2> HIDE DEF f
  <2> QED
    BY <2>1
<1>2. ASSUME NEW n \in 1 .. N, From(n - 1)
      PROVE  From(n)
  <2> DEFINE k == N + 1 - n
  <2>0. k \in 1 .. N /\ N + 1 - (n - 1) = k + 1
    OBVIOUS
  <2>1. PICK f \in [k + 1 .. N + 1 -> V] :
          f[N + 1] = v /\ \A i \in k + 1 .. N : f[i] = step[i][f[next[i]]]
    BY <1>2, <2>0
  <2> HIDE DEF k
  <2> DEFINE g == [i \in k .. N + 1 |-> IF i = k THEN step[k][f[next[k]]] ELSE f[i]]
  <2>2. next[k] \in k + 1 .. N + 1 /\ f[next[k]] \in V /\ step[k] \in [V -> V]
    BY <2>0, <2>1
  <2>3. g \in [k .. N + 1 -> V]
    <3>1. ASSUME NEW i \in k .. N + 1, i # k PROVE f[i] \in V
      BY <3>1, <2>0, <2>1
    <3>2. step[k][f[next[k]]] \in V
      BY <2>2
    <3> QED
      BY <3>1, <3>2
  <2>4. g[N + 1] = v
    BY <2>0, <2>1
  <2>5. ASSUME NEW i \in k .. N
        PROVE  g[i] = step[i][g[next[i]]]
    <3>1. i \in 1 .. N /\ next[i] \in i + 1 .. N + 1
      BY <2>0
    <3>2. g[next[i]] = f[next[i]]
      BY <3>1, <2>0
    <3>3. CASE i = k
      BY <3>1, <3>2, <3>3
    <3>4. CASE i # k
      <4>1. i \in k + 1 .. N /\ i \in k .. N + 1
        BY <2>0, <3>4
      <4> QED
        BY <4>1, <3>2, <2>1, <3>4
    <3> QED
      BY <3>3, <3>4
  <2> HIDE DEF g
  <2>6. From(n)
    BY <2>3, <2>4, <2>5 DEF k
  <2> QED
    BY <2>6
<1>3. Bad = {}
  <2> SUFFICES ASSUME Bad # {} PROVE FALSE
    OBVIOUS
  <2>1. Bad \subseteq Nat
    OBVIOUS
  <2>2. PICK m \in Bad : \A y \in Bad : m <= y
    BY <2>1, LeastNumber
  <2>3. m \in 0 .. N /\ ~ From(m)
    OBVIOUS
  <2> HIDE DEF From
  <2>4. m # 0
    BY <2>3, <1>1
  <2>5. m \in 1 .. N /\ m - 1 \in 0 .. N /\ ~ (m <= m - 1)
    BY <2>3, <2>4
  <2>6. From(m - 1)
    BY <2>5, <2>2
  <2> QED
    BY <2>5, <2>6, <1>2, <2>3
<1>4. From(N)
  <2>1. N \in 0 .. N
    OBVIOUS
  <2> HIDE DEF From
  <2> QED
    BY <2>1, <1>3
<1>5. N + 1 - N = 1
  OBVIOUS
<1> QED
  BY <1>4, <1>5 DEF Unrolls

-----------------------------------------------------------------------------
(* str.count *)

\* Where old occurs in text, at any place.
Occurrences(text, old) == {i \in 1 .. Len(text) + 1 : OccursAt(old, text, i)}

\* Where Count goes on looking.
Onward(old) == IF old = <<>> THEN 1 ELSE Len(old)

\* Count always goes on further right, and no further than its recursion is defined.
LEMMA OnwardFacts ==
  ASSUME NEW C, NEW text \in Seq(C), NEW old \in Seq(C)
  PROVE  /\ Onward(old) \in Nat \ {0} /\ Len(text) \in Nat /\ Len(old) \in Nat
         /\ old # <<>> => Onward(old) = Len(old)
         /\ old = <<>> => Onward(old) = 1 /\ Len(old) = 0
         /\ \A i \in Occurrences(text, old) : i + Onward(old) <= Len(text) + 2
BY DEF Onward, Occurrences, OccursAt

\* Count(text, old) satisfies its recursion, for every text (str.count).
LEMMA CountEquation ==
  ASSUME NEW C, NEW text \in Seq(C), NEW old \in Seq(C)
  PROVE  \E from : /\ Count(text, old) = from[1]
                   /\ from[Len(text) + 2] = 0
                   /\ \A i \in 1 .. Len(text) + 1 :
                        from[i] = IF i \in Occurrences(text, old)
                                  THEN 1 + from[i + Onward(old)] ELSE from[i + 1]
<1> DEFINE N == Len(text) + 1
           Def(g) == [i \in 1 .. Len(text) + 2 |->
                        IF i > Len(text) + 1 THEN 0
                        ELSE IF ~OccursAt(old, text, i) THEN g[i + 1]
                        ELSE 1 + g[i + (IF old = <<>> THEN 1 ELSE Len(old))]]
           next == [i \in 1 .. N |->
                      IF i \in Occurrences(text, old) THEN i + Onward(old) ELSE i + 1]
           step == [i \in 1 .. N |->
                      IF i \in Occurrences(text, old) THEN [x \in Nat |-> 1 + x]
                      ELSE [x \in Nat |-> x]]
<1>1. N \in Nat /\ N = Len(text) + 1 /\ N + 1 = Len(text) + 2
  OBVIOUS
<1>2. next \in [1 .. N -> Nat] /\ \A i \in 1 .. N : next[i] \in i + 1 .. N + 1
  BY OnwardFacts DEF Occurrences
<1>3. step \in [1 .. N -> [Nat -> Nat]]
  OBVIOUS
<1>4. \A i \in 1 .. N, x \in Nat :
        step[i][x] = IF i \in Occurrences(text, old) THEN 1 + x ELSE x
  OBVIOUS
<1>5. \A i \in 1 .. N : next[i] = IF i \in Occurrences(text, old) THEN i + Onward(old) ELSE i + 1
  OBVIOUS
<1>6. \E f \in [1 .. N + 1 -> Nat] : Unrolls(f, N, 0, next, step)
  <2>1. N \in Nat /\ 0 \in Nat /\ Advances(next, N) /\ step \in Steps(N, Nat)
    BY <1>1, <1>2, <1>3 DEF Advances, Steps
  <2> HIDE DEF N, next, step
  <2> QED
    BY <2>1, Recursion
<1>7. PICK f \in [1 .. N + 1 -> Nat] :
        f[N + 1] = 0 /\ \A i \in 1 .. N : f[i] = step[i][f[next[i]]]
  BY <1>6 DEF Unrolls
<1>8. f = Def(f)
  <2>1. \A i \in 1 .. N : f[next[i]] \in Nat
    BY <1>1, <1>2
  <2>2. ASSUME NEW i \in 1 .. N
        PROVE  f[i] = IF ~OccursAt(old, text, i) THEN f[i + 1]
                        ELSE 1 + f[i + (IF old = <<>> THEN 1 ELSE Len(old))]
    <3>1. f[i] = IF i \in Occurrences(text, old) THEN 1 + f[next[i]] ELSE f[next[i]]
      <4> HIDE DEF step, next
      <4> QED
        BY <2>1, <1>4, <1>7
    <3> HIDE DEF N, step, next
    <3> QED
      BY <3>1, <1>5, <1>1 DEF Occurrences, Onward
  <2>3. \A i \in 1 .. Len(text) + 2 : i > Len(text) + 1 => i = N + 1
    OBVIOUS
  <2> HIDE DEF N, step, next
  <2>4. \A i \in 1 .. Len(text) + 2 : f[i] = Def(f)[i]
    BY <2>2, <2>3, <1>1, <1>7
  <2> QED
    BY <2>4, <1>1
<1> DEFINE from == CHOOSE g : g = Def(g)
<1>9. from = Def(from)
  <2> HIDE DEF Def
  <2> QED
    BY <1>8
<1>10. Count(text, old) = from[1]
  BY DEF Count
<1>11. from[Len(text) + 2] = 0
  <2> HIDE DEF from
  <2> QED
    BY <1>9, <1>1
<1>12. ASSUME NEW i \in 1 .. Len(text) + 1
       PROVE  from[i] = IF i \in Occurrences(text, old)
                        THEN 1 + from[i + Onward(old)] ELSE from[i + 1]
  <2> HIDE DEF from
  <2>1. i \in 1 .. Len(text) + 2 /\ ~ (i > Len(text) + 1)
    OBVIOUS
  <2>2. from[i] = Def(from)[i]
    BY <1>9
  <2>3. from[i] = IF ~OccursAt(old, text, i) THEN from[i + 1]
                  ELSE 1 + from[i + (IF old = <<>> THEN 1 ELSE Len(old))]
    BY <2>1, <2>2
  <2> HIDE DEF Def
  <2> QED
    BY <2>3 DEF Occurrences, Onward
<1> QED
  BY <1>10, <1>11, <1>12

\* Two occurrences that do not overlap.
Disjoint(text, old) ==
  \E i, j \in Occurrences(text, old) : i < j /\ i + Len(old) <= j

\* What edit_file can read off str.count: 0 means no occurrence, and 2 or more that
\* two of them are disjoint.  Occurrences that all overlap are counted once.
THEOREM CountTells ==
  ASSUME NEW C, NEW text \in Seq(C), NEW old \in Seq(C)
  PROVE  /\ Count(text, old) \in Nat
         /\ Count(text, old) = 0 <=> Occurrences(text, old) = {}
         /\ Count(text, old) >= 2 <=> Disjoint(text, old)
<1> DEFINE N == Len(text) + 1
           At == Occurrences(text, old)
<1>1. PICK from : /\ Count(text, old) = from[1]
                  /\ from[N + 1] = 0
                  /\ \A i \in 1 .. N :
                       from[i] = IF i \in At THEN 1 + from[i + Onward(old)] ELSE from[i + 1]
  <2>1. N + 1 = Len(text) + 2
    OBVIOUS
  <2> QED
    BY <2>1, CountEquation
<1>2. /\ N \in Nat \ {0} /\ At \subseteq 1 .. N
      /\ Onward(old) \in Nat \ {0} /\ Len(old) \in Nat
      /\ \A i \in At : i + Onward(old) <= N + 1
      /\ old # <<>> => Onward(old) = Len(old)
      /\ old = <<>> => Onward(old) = 1 /\ Len(old) = 0
  BY OnwardFacts DEF Occurrences
<1> HIDE DEF N, At
<1> DEFINE Tells(i) ==
      /\ from[i] \in Nat
      /\ from[i] = 0 <=> \A p \in At : p < i
      /\ from[i] >= 2 <=> \E p, q \in At : i <= p /\ p < q /\ p + Len(old) <= q
    Bad == {n \in 0 .. N : ~ Tells(N + 1 - n)}
<1>3. Tells(N + 1)
  BY <1>1, <1>2
<1>4. ASSUME NEW i \in 1 .. N, \A j \in i + 1 .. N + 1 : Tells(j)
      PROVE  Tells(i)
  <2>1. CASE i \notin At
    <3>1. from[i] = from[i + 1] /\ Tells(i + 1)
      BY <1>1, <1>2, <1>4, <2>1
    <3>2. \A p \in At : p \in 1 .. N /\ (i <= p <=> i + 1 <= p) /\ (p < i <=> p < i + 1)
      BY <1>2, <2>1
    <3> QED
      BY <3>1, <3>2
  <2>2. CASE i \in At
    <3> DEFINE k == i + Onward(old)
    <3>1. k \in i + 1 .. N + 1
      BY <1>2, <2>2
    <3>2. from[i] = 1 + from[k] /\ from[k] \in Nat
      BY <1>1, <1>4, <3>1, <2>2
    <3>3. from[k] = 0 <=> \A p \in At : p < k
      BY <1>4, <3>1
    <3>4. \A p \in At : p \in 1 .. N
      BY <1>2
    <3>5. ASSUME NEW p \in At, NEW q \in At, i <= p, p < q, p + Len(old) <= q
          PROVE  k <= q
      BY <3>5, <3>4, <1>2
    <3>6. ASSUME NEW q \in At, k <= q
          PROVE  i < q /\ i + Len(old) <= q
      BY <3>6, <3>4, <1>2
    <3>7. from[i] >= 2 <=> from[k] # 0
      BY <3>2
    <3>8. (from[k] # 0) <=> \E q \in At : k <= q
      BY <3>3, <3>4, <3>1
    <3>9. (\E q \in At : k <= q) <=> \E p, q \in At : i <= p /\ p < q /\ p + Len(old) <= q
      BY <3>5, <3>6, <2>2
    <3>10. from[i] # 0 /\ ~ \A p \in At : p < i
      BY <3>2, <2>2
    <3> HIDE DEF k
    <3> QED
      BY <3>2, <3>7, <3>8, <3>9, <3>10
  <2> QED
    BY <2>1, <2>2
<1>5. Bad = {}
  <2> SUFFICES ASSUME Bad # {} PROVE FALSE
    OBVIOUS
  <2>1. PICK m \in Bad : \A y \in Bad : m <= y
    <3>1. Bad \subseteq Nat
      OBVIOUS
    <3> QED
      BY <3>1, LeastNumber
  <2>2. m \in 0 .. N /\ ~ Tells(N + 1 - m)
    OBVIOUS
  <2> HIDE DEF Tells
  <2>3. m # 0 /\ N + 1 - m \in 1 .. N
    BY <2>2, <1>3, <1>2
  <2>4. ASSUME NEW j \in N + 1 - m + 1 .. N + 1
        PROVE  Tells(j)
    <3>1. N + 1 - j \in 0 .. N /\ N + 1 - (N + 1 - j) = j /\ ~ (m <= N + 1 - j)
      BY <2>2, <2>3, <1>2
    <3> QED
      BY <3>1, <2>1
  <2> QED
    BY <2>2, <2>3, <2>4, <1>4
<1>6. Tells(1)
  <2>1. N \in 0 .. N /\ N + 1 - N = 1
    BY <1>2
  <2> HIDE DEF Tells
  <2> QED
    BY <2>1, <1>5
<1>7. \A p \in At : p \in Nat /\ ~ (p < 1) /\ 1 <= p
  BY <1>2
<1> QED
  BY <1>1, <1>6, <1>7 DEF At, Disjoint

-----------------------------------------------------------------------------
(* Texts put together from texts *)

\* FlattenSeq of a sequence of texts satisfies its recursion.
LEMMA Flattening ==
  ASSUME NEW C, NEW s \in Seq(Seq(C))
  PROVE  \E flat \in [0 .. Len(s) -> Seq(C)] :
           /\ FlattenSeq(s) = flat[Len(s)]
           /\ flat[0] = <<>>
           /\ \A i \in 1 .. Len(s) : flat[i] = flat[i - 1] \o s[i]
<1> DEFINE N == Len(s)
           next == [i \in 1 .. N |-> i + 1]
           step == [i \in 1 .. N |-> [x \in Seq(C) |-> x \o s[N + 1 - i]]]
           Def(g) == [i \in 1 .. Len(s) |-> IF i = 1 THEN s[i] ELSE g[i - 1] \o s[i]]
<1>1. N \in Nat /\ <<>> \in Seq(C) /\ \A i \in 1 .. N : s[i] \in Seq(C)
  OBVIOUS
<1>2. Advances(next, N)
  BY <1>1 DEF Advances
<1>3. step \in Steps(N, Seq(C))
  <2>1. ASSUME NEW i \in 1 .. N, NEW x \in Seq(C)
        PROVE  x \o s[N + 1 - i] \in Seq(C)
    <3>1. N + 1 - i \in 1 .. N
      BY <1>1
    <3> QED
      BY <3>1, <1>1
  <2> HIDE DEF N
  <2> QED
    BY <2>1 DEF Steps
<1>4. /\ \A i \in 1 .. N : next[i] = i + 1
      /\ \A i \in 1 .. N, x \in Seq(C) : step[i][x] = x \o s[N + 1 - i]
  OBVIOUS
<1> HIDE DEF next, step
<1>5. PICK f \in [1 .. N + 1 -> Seq(C)] : Unrolls(f, N, <<>>, next, step)
  <2> HIDE DEF N
  <2> QED
    BY <1>1, <1>2, <1>3, Recursion
<1> DEFINE flat == [i \in 0 .. N |-> f[N + 1 - i]]
<1>6. flat \in [0 .. N -> Seq(C)] /\ flat[0] = <<>>
  <2>1. \A i \in 0 .. N : N + 1 - i \in 1 .. N + 1
    BY <1>1
  <2> QED
    BY <2>1, <1>1, <1>5 DEF Unrolls
<1>7. ASSUME NEW i \in 1 .. N
      PROVE  flat[i] = flat[i - 1] \o s[i]
  <2>0. N + 1 - i \in 1 .. N
    BY <1>1
  <2>1. PICK k \in 1 .. N : k = N + 1 - i
    BY <2>0
  <2>2. /\ N + 1 - k = i /\ k + 1 = N + 1 - (i - 1) /\ k + 1 \in 1 .. N + 1
        /\ i \in 0 .. N /\ i - 1 \in 0 .. N
    BY <2>1, <1>1
  <2>3. f[k] = step[k][f[next[k]]] /\ next[k] = k + 1 /\ f[k + 1] \in Seq(C)
    BY <2>1, <2>2, <1>4, <1>5 DEF Unrolls
  <2>4. f[k] = f[k + 1] \o s[i]
    BY <2>1, <2>2, <2>3, <1>4
  <2>5. flat[i] = f[N + 1 - i] /\ flat[i - 1] = f[N + 1 - (i - 1)]
    BY <2>2
  <2> QED
    BY <2>1, <2>2, <2>4, <2>5
<1>0. \A x \in 1 .. N : x = 1 => flat[x] = s[x]
  <2>1. ASSUME NEW x \in 1 .. N, x = 1
        PROVE  flat[x] = s[x]
    <3> HIDE DEF flat
    <3>1. flat[x] = flat[x - 1] \o s[x]
      BY <1>7
    <3>2. x - 1 = 0 /\ s[x] \in Seq(C)
      BY <2>1, <1>1
    <3>3. flat[x] = <<>> \o s[x]
      BY <3>1, <3>2, <1>6
    <3> QED
      BY <3>2, <3>3
  <2> QED
    BY <2>1
<1> HIDE DEF flat
<1> DEFINE g == [i \in 1 .. N |-> flat[i]]
           from == CHOOSE h : h = Def(h)
<1>8. g = Def(g)
  <2>1. ASSUME NEW i \in 1 .. Len(s)
        PROVE  g[i] = IF i = 1 THEN s[i] ELSE g[i - 1] \o s[i]
    <3>1. CASE i = 1
      BY <3>1, <1>0
    <3>2. CASE i # 1
      <4>1. i - 1 \in 1 .. N
        BY <3>2, <1>1
      <4> QED
        BY <4>1, <3>2, <1>7
    <3> QED
      BY <3>1, <3>2
  <2> QED
    BY <2>1
<1>9. from = Def(from)
  <2> HIDE DEF g, Def
  <2> QED
    BY <1>8
<1>10. \A i \in 1 .. N : from[i] = flat[i]
  <2> HIDE DEF from
  <2> DEFINE Bad == {i \in 1 .. N : from[i] # flat[i]}
  <2> SUFFICES ASSUME Bad # {} PROVE FALSE
    OBVIOUS
  <2>1. PICK m \in Bad : \A y \in Bad : m <= y
    <3>1. Bad \subseteq Nat
      OBVIOUS
    <3> QED
      BY <3>1, LeastNumber
  <2>2. m \in 1 .. N /\ from[m] # flat[m]
    OBVIOUS
  <2>3. from[m] = IF m = 1 THEN s[m] ELSE from[m - 1] \o s[m]
    BY <2>2, <1>9
  <2>4. m # 1
    BY <2>2, <2>3, <1>0
  <2>5. m - 1 \in 1 .. N /\ ~ (m <= m - 1)
    BY <2>2, <2>4, <1>1
  <2>6. from[m - 1] = flat[m - 1]
    BY <2>1, <2>5
  <2> QED
    BY <2>2, <2>3, <2>4, <2>6, <1>7
<1>11. FlattenSeq(s) = IF Len(s) = 0 THEN s ELSE from[Len(s)]
  BY DEF FlattenSeq
<1>12. FlattenSeq(s) = flat[Len(s)]
  <2> HIDE DEF from
  <2>1. CASE Len(s) = 0
    BY <2>1, <1>6, <1>11
  <2>2. CASE Len(s) # 0
    BY <2>2, <1>10, <1>11, <1>1
  <2> QED
    BY <2>1, <2>2
<1> QED
  BY <1>6, <1>7, <1>12

\* Induction up to N, for a set instead of a predicate: none of the provers has the latter.
LEMMA Induction ==
  ASSUME NEW N \in Nat, NEW G, 0 \in G, \A n \in 1 .. N : n - 1 \in G => n \in G
  PROVE  \A n \in 0 .. N : n \in G
<1> DEFINE Bad == {n \in 0 .. N : n \notin G}
<1> SUFFICES ASSUME Bad # {} PROVE FALSE
  OBVIOUS
<1>1. PICK m \in Bad : \A n \in Bad : m <= n
  <2>1. Bad \subseteq Nat
    OBVIOUS
  <2> QED
    BY <2>1, LeastNumber
<1>2. m \in 0 .. N /\ m \notin G
  OBVIOUS
<1>3. m \in 1 .. N /\ m - 1 \in 0 .. N /\ ~ (m <= m - 1)
  BY <1>2
<1> QED
  BY <1>1, <1>2, <1>3

\* Given a name so that the provers can match it.
Regroups(a, b, c) == (a \o b) \o c = a \o (b \o c)

\* Putting texts together is associative.
LEMMA Associative ==
  ASSUME NEW C, NEW a \in Seq(C), NEW b \in Seq(C), NEW c \in Seq(C)
  PROVE  Regroups(a, b, c)
BY ConcatAssociative DEF Regroups

\* No texts flatten to the empty text.
LEMMA FlattenEmpty == FlattenSeq(<<>>) = <<>>
BY DEF FlattenSeq

\* Texts flatten to a text over the same characters.
LEMMA FlattenTyped ==
  ASSUME NEW C, NEW s \in Seq(Seq(C))
  PROVE  FlattenSeq(s) \in Seq(C)
<1>1. PICK flat \in [0 .. Len(s) -> Seq(C)] : FlattenSeq(s) = flat[Len(s)]
  BY Flattening
<1> QED
  BY <1>1

\* A single text flattens to itself.
LEMMA FlattenOne ==
  ASSUME NEW C, NEW x \in Seq(C)
  PROVE  FlattenSeq(<<x>>) = x
<1> DEFINE s == <<x>>
<1>1. s \in Seq(Seq(C)) /\ Len(s) = 1 /\ s[1] = x
  OBVIOUS
<1> HIDE DEF s
<1>2. PICK flat \in [0 .. Len(s) -> Seq(C)] :
           /\ FlattenSeq(s) = flat[Len(s)]
           /\ flat[0] = <<>>
           /\ \A i \in 1 .. Len(s) : flat[i] = flat[i - 1] \o s[i]
  BY <1>1, Flattening
<1>3. flat[1] = <<>> \o x
  <2>1. 1 \in 1 .. Len(s) /\ 1 - 1 = 0
    BY <1>1
  <2> QED
    BY <2>1, <1>1, <1>2
<1>4. FlattenSeq(s) = x
  BY <1>1, <1>2, <1>3
<1> QED
  BY <1>4 DEF s

\* Flattening texts in two parts and putting the parts together is flattening all.
LEMMA FlattenConcat ==
  ASSUME NEW C, NEW s \in Seq(Seq(C)), NEW t \in Seq(Seq(C))
  PROVE  FlattenSeq(s \o t) = FlattenSeq(s) \o FlattenSeq(t)
<1> DEFINE u == s \o t
<1>1. /\ u \in Seq(Seq(C)) /\ Len(s) \in Nat /\ Len(t) \in Nat /\ Len(u) = Len(s) + Len(t)
      /\ \A i \in 1 .. Len(s) : u[i] = s[i]
      /\ \A j \in 1 .. Len(t) : u[Len(s) + j] = t[j] /\ t[j] \in Seq(C)
  BY ConcatProperties
<1> HIDE DEF u
<1>2. PICK F \in [0 .. Len(u) -> Seq(C)] :
           /\ FlattenSeq(u) = F[Len(u)]
           /\ F[0] = <<>>
           /\ \A i \in 1 .. Len(u) : F[i] = F[i - 1] \o u[i]
  BY <1>1, Flattening
<1>3. PICK A \in [0 .. Len(s) -> Seq(C)] :
           /\ FlattenSeq(s) = A[Len(s)]
           /\ A[0] = <<>>
           /\ \A i \in 1 .. Len(s) : A[i] = A[i - 1] \o s[i]
  BY Flattening
<1>4. PICK B \in [0 .. Len(t) -> Seq(C)] :
           /\ FlattenSeq(t) = B[Len(t)]
           /\ B[0] = <<>>
           /\ \A j \in 1 .. Len(t) : B[j] = B[j - 1] \o t[j]
  BY Flattening
<1>5. \A i \in 0 .. Len(s) : F[i] = A[i]
  <2> DEFINE G == {i \in 0 .. Len(s) : F[i] = A[i]}
  <2>1. 0 \in G
    BY <1>1, <1>2, <1>3
  <2>2. ASSUME NEW i \in 1 .. Len(s), i - 1 \in G
        PROVE  i \in G
    <3>1. i \in 1 .. Len(u) /\ i \in 0 .. Len(s) /\ F[i - 1] = A[i - 1] /\ u[i] = s[i]
      BY <1>1, <2>2
    <3> QED
      BY <3>1, <1>2, <1>3
  <2>3. \A i \in 0 .. Len(s) : i \in G
    <3> HIDE DEF G
    <3> QED
      BY <2>1, <2>2, <1>1, Induction
  <2> QED
    BY <2>3
<1>6. \A j \in 0 .. Len(t) : F[Len(s) + j] = A[Len(s)] \o B[j]
  <2> DEFINE G == {j \in 0 .. Len(t) : F[Len(s) + j] = A[Len(s)] \o B[j]}
  <2>0. A[Len(s)] \in Seq(C)
    BY <1>1, <1>3
  <2>1. 0 \in G
    <3>1. Len(s) + 0 = Len(s) /\ Len(s) \in 0 .. Len(s) /\ 0 \in 0 .. Len(t)
      BY <1>1
    <3>2. A[Len(s)] \o <<>> = A[Len(s)]
      BY <2>0, ConcatEmptySeq
    <3>3. F[Len(s) + 0] = A[Len(s)] \o B[0]
      BY <3>1, <3>2, <1>4, <1>5
    <3> QED
      BY <3>1, <3>3
  <2>2. ASSUME NEW j \in 1 .. Len(t), j - 1 \in G
        PROVE  j \in G
    <3>1. /\ Len(s) + j \in 1 .. Len(u) /\ Len(s) + j - 1 = Len(s) + (j - 1)
          /\ j \in 0 .. Len(t) /\ j - 1 \in 0 .. Len(t)
      BY <1>1, <2>2
    <3>2. F[Len(s) + j] = F[Len(s) + (j - 1)] \o t[j]
      <4>1. PICK k \in 1 .. Len(u) : k = Len(s) + j
        BY <3>1
      <4>2. F[k] = F[k - 1] \o u[k]
        BY <1>2
      <4>3. u[k] = t[j] /\ k - 1 = Len(s) + (j - 1)
        BY <4>1, <1>1
      <4> QED
        BY <4>1, <4>2, <4>3
    <3>3. F[Len(s) + (j - 1)] = A[Len(s)] \o B[j - 1]
      BY <2>2
    <3>4. (A[Len(s)] \o B[j - 1]) \o t[j] = A[Len(s)] \o (B[j - 1] \o t[j])
      <4>1. B[j - 1] \in Seq(C) /\ t[j] \in Seq(C)
        BY <3>1, <1>1, <1>4
      <4>2. Regroups(A[Len(s)], B[j - 1], t[j])
        BY <4>1, <2>0, Associative
      <4> QED
        BY <4>2 DEF Regroups
    <3>5. B[j] = B[j - 1] \o t[j]
      BY <1>4
    <3> QED
      BY <3>1, <3>2, <3>3, <3>4, <3>5
  <2>3. \A j \in 0 .. Len(t) : j \in G
    <3> HIDE DEF G
    <3> QED
      BY <2>1, <2>2, <1>1, Induction
  <2> QED
    BY <2>3
<1>7. FlattenSeq(u) = FlattenSeq(s) \o FlattenSeq(t)
  <2>1. Len(t) \in 0 .. Len(t)
    BY <1>1
  <2> QED
    BY <2>1, <1>1, <1>2, <1>3, <1>4, <1>6
<1> QED
  BY <1>7 DEF u

\* A prefix is the next shorter one and a character.
LEMMA Extended ==
  ASSUME NEW C, NEW s \in Seq(C), NEW n \in 1 .. Len(s)
  PROVE  /\ SubSeq(s, 1, n) = SubSeq(s, 1, n - 1) \o <<s[n]>>
         /\ SubSeq(s, 1, n - 1) \in Seq(C) /\ s[n] \in C
OBVIOUS

\* Induction over texts that grow at their end, for a set instead of a predicate.
LEMMA SeqInduction ==
  ASSUME NEW C, NEW G, <<>> \in G, \A s \in Seq(C), c \in C : s \in G => s \o <<c>> \in G
  PROVE  \A s \in Seq(C) : s \in G
<1> SUFFICES ASSUME NEW s \in Seq(C) PROVE s \in G
  OBVIOUS
<1> DEFINE H == {n \in 0 .. Len(s) : SubSeq(s, 1, n) \in G}
<1>1. Len(s) \in Nat /\ SubSeq(s, 1, 0) = <<>> /\ SubSeq(s, 1, Len(s)) = s
  OBVIOUS
<1>2. 0 \in H
  <2>1. 0 \in 0 .. Len(s)
    BY <1>1
  <2>2. SubSeq(s, 1, 0) \in G
    BY <1>1
  <2> QED
    BY <2>1, <2>2
<1>3. ASSUME NEW n \in 1 .. Len(s), n - 1 \in H
      PROVE  n \in H
  <2>1. n \in 0 .. Len(s) /\ SubSeq(s, 1, n - 1) \in G
    BY <1>3
  <2>2. SubSeq(s, 1, n) \in G
    <3> DEFINE p == SubSeq(s, 1, n - 1)
    <3>1. SubSeq(s, 1, n) = p \o <<s[n]>> /\ p \in Seq(C) /\ s[n] \in C
      BY Extended
    <3>2. p \in G
      BY <2>1
    <3> HIDE DEF p
    <3> QED
      BY <3>1, <3>2
  <2> QED
    BY <2>1, <2>2
<1>4. \A n \in 0 .. Len(s) : n \in H
  <2> HIDE DEF H
  <2> QED
    BY <1>1, <1>2, <1>3, Induction
<1>5. Len(s) \in 0 .. Len(s)
  BY <1>1
<1> QED
  BY <1>1, <1>4, <1>5

\* Every character replaced by the text that a table has for it.
Tables(C, D) == [C -> Seq(D)]
Spread(table, text) == FlattenSeq([i \in DOMAIN text |-> table[text[i]]])

\* The pieces of a spread text: one for every character.
LEMMA Tabulated ==
  ASSUME NEW C, NEW E, NEW table \in [C -> E], NEW text \in Seq(C)
  PROVE  /\ [i \in DOMAIN text |-> table[text[i]]] \in Seq(E)
         /\ Len([i \in DOMAIN text |-> table[text[i]]]) = Len(text)
<1> DEFINE f == [i \in DOMAIN text |-> table[text[i]]]
<1>1. DOMAIN text = 1 .. Len(text) /\ Len(text) \in Nat
  OBVIOUS
<1>2. f \in [1 .. Len(text) -> E]
  BY <1>1
<1> HIDE DEF f
<1>3. f \in Seq(E) /\ Len(f) = Len(text)
  BY <1>1, <1>2
<1> QED
  BY <1>3 DEF f

\* A spread text is a text (json.dumps and str.encode are such tables).
LEMMA SpreadTyped ==
  ASSUME NEW C, NEW D, NEW table \in Tables(C, D), NEW text \in Seq(C)
  PROVE  Spread(table, text) \in Seq(D)
<1>1. [i \in DOMAIN text |-> table[text[i]]] \in Seq(Seq(D))
  BY Tabulated DEF Tables
<1> QED
  BY <1>1, FlattenTyped DEF Spread

\* The empty text spreads to itself.
LEMMA SpreadEmpty ==
  ASSUME NEW table
  PROVE  Spread(table, <<>>) = <<>>
<1>1. [i \in DOMAIN <<>> |-> table[<<>>[i]]] = <<>>
  OBVIOUS
<1> QED
  BY <1>1, FlattenEmpty DEF Spread

\* One character spreads to its entry in the table.
LEMMA SpreadOne ==
  ASSUME NEW C, NEW D, NEW table \in Tables(C, D), NEW c \in C
  PROVE  Spread(table, <<c>>) = table[c]
<1>1. [i \in DOMAIN <<c>> |-> table[<<c>>[i]]] = <<table[c]>>
  OBVIOUS
<1>2. table[c] \in Seq(D)
  BY DEF Tables
<1> QED
  BY <1>1, <1>2, FlattenOne DEF Spread

\* The spread of two texts put together is their spreads put together.
LEMMA SpreadConcat ==
  ASSUME NEW C, NEW D, NEW table \in Tables(C, D), NEW s \in Seq(C), NEW t \in Seq(C)
  PROVE  Spread(table, s \o t) = Spread(table, s) \o Spread(table, t)
<1> DEFINE On(u) == [i \in DOMAIN u |-> table[u[i]]]
<1>0. ASSUME NEW u \in Seq(C)
      PROVE  On(u) \in Seq(Seq(D)) /\ Len(On(u)) = Len(u)
  <2>1. PICK E : E = Seq(D)
    OBVIOUS
  <2>2. table \in [C -> E]
    BY <2>1 DEF Tables
  <2>3. /\ [i \in DOMAIN u |-> table[u[i]]] \in Seq(E)
        /\ Len([i \in DOMAIN u |-> table[u[i]]]) = Len(u)
    BY <2>2, Tabulated
  <2> QED
    BY <2>1, <2>3
<1>1. On(s) \in Seq(Seq(D)) /\ On(t) \in Seq(Seq(D))
  BY <1>0
<1>2. On(s \o t) = On(s) \o On(t)
  <2>1. /\ On(s \o t) \in Seq(Seq(D)) /\ On(s) \o On(t) \in Seq(Seq(D))
        /\ Len(On(s \o t)) = Len(s) + Len(t) /\ Len(On(s) \o On(t)) = Len(s) + Len(t)
    <3>1. s \o t \in Seq(C) /\ Len(s \o t) = Len(s) + Len(t)
      OBVIOUS
    <3> HIDE DEF On
    <3>2. On(s \o t) \in Seq(Seq(D)) /\ Len(On(s \o t)) = Len(s) + Len(t)
      BY <3>1, <1>0
    <3>3. Len(On(s)) = Len(s) /\ Len(On(t)) = Len(t)
      BY <1>0
    <3>4. On(s) \o On(t) \in Seq(Seq(D)) /\ Len(On(s) \o On(t)) = Len(s) + Len(t)
      <4>1. PICK a \in Seq(Seq(D)) : a = On(s)
        BY <1>1
      <4>2. PICK b \in Seq(Seq(D)) : b = On(t)
        BY <1>1
      <4>3. a \o b \in Seq(Seq(D)) /\ Len(a \o b) = Len(a) + Len(b)
        BY ConcatProperties
      <4> QED
        BY <4>1, <4>2, <4>3, <3>3
    <3> QED
      BY <3>2, <3>4
  <2>2. ASSUME NEW i \in 1 .. Len(s) + Len(t)
        PROVE  On(s \o t)[i] = (On(s) \o On(t))[i]
    OBVIOUS
  <2> HIDE DEF On
  <2> QED
    BY <2>1, <2>2, SeqEqual
<1> HIDE DEF On
<1>3. FlattenSeq(On(s \o t)) = FlattenSeq(On(s)) \o FlattenSeq(On(t))
  BY <1>1, <1>2, FlattenConcat
<1> QED
  BY <1>3 DEF On, Spread

\* One character more adds its entry in the table.
LEMMA SpreadAppend ==
  ASSUME NEW C, NEW D, NEW table \in Tables(C, D), NEW s \in Seq(C), NEW c \in C
  PROVE  Spread(table, s \o <<c>>) = Spread(table, s) \o table[c]
<1>1. <<c>> \in Seq(C)
  OBVIOUS
<1>2. Spread(table, s \o <<c>>) = Spread(table, s) \o Spread(table, <<c>>)
  <2>1. ASSUME NEW t \in Seq(C)
        PROVE  Spread(table, s \o t) = Spread(table, s) \o Spread(table, t)
    BY SpreadConcat
  <2> QED
    BY <1>1, <2>1
<1>3. Spread(table, <<c>>) = table[c]
  BY SpreadOne
<1> QED
  BY <1>2, <1>3

\* A table of at most two characters an entry at most doubles a text.
LEMMA SpreadLength ==
  ASSUME NEW C, NEW D, NEW table \in Tables(C, D), \A c \in C : Len(table[c]) <= 2
  PROVE  \A s \in Seq(C) : Len(Spread(table, s)) <= 2 * Len(s)
<1> DEFINE G == {s \in Seq(C) : Len(Spread(table, s)) <= 2 * Len(s)}
<1>1. <<>> \in G
  BY SpreadEmpty
<1>2. ASSUME NEW s \in Seq(C), NEW c \in C, s \in G
      PROVE  s \o <<c>> \in G
  <2>1. s \o <<c>> \in Seq(C) /\ Len(s \o <<c>>) = Len(s) + 1 /\ Len(s) \in Nat
    OBVIOUS
  <2>2. Spread(table, s \o <<c>>) = Spread(table, s) \o table[c]
    BY SpreadAppend
  <2>3. Spread(table, s) \in Seq(D) /\ table[c] \in Seq(D)
    BY SpreadTyped DEF Tables
  <2>4. Len(Spread(table, s) \o table[c]) = Len(Spread(table, s)) + Len(table[c])
    BY <2>3
  <2>5. Len(Spread(table, s)) \in Nat /\ Len(table[c]) \in Nat
    BY <2>3
  <2> QED
    BY <2>1, <2>2, <2>4, <2>5, <1>2
<1>3. \A s \in Seq(C) : s \in G
  <2> HIDE DEF G
  <2> QED
    BY <1>1, <1>2, SeqInduction
<1> QED
  BY <1>3

-----------------------------------------------------------------------------
(* The states, and edit_file *)

\* The texts the model enumerates are texts.
LEMMA BoundedIsSeq ==
  ASSUME NEW C, NEW n, NEW s \in BoundedSeq(C, n)
  PROVE  s \in Seq(C)
<1>1. PICK m \in Nat : s \in [1 .. m -> C]
  <2>1. PICK m \in 0 .. n : s \in [1 .. m -> C]
    BY DEF BoundedSeq, SeqOf
  <2>2. CASE m \in Nat
    BY <2>1, <2>2
  <2> QED
    BY <2>1, <2>2
<1> QED
  BY <1>1

\* str.replace(old, new, 1) replaces one of the occurrences, if there is any.
LEMMA FirstOccurrence ==
  ASSUME NEW C, NEW text \in Seq(C), NEW old \in Seq(C), NEW new,
         Occurrences(text, old) # {}
  PROVE  \E i \in Occurrences(text, old) :
           ReplacedOnce(text, old, new)
             = SubSeq(text, 1, i - 1) \o new \o SubSeq(text, i + Len(old), Len(text))
<1> DEFINE First(i) == OccursAt(old, text, i) /\ \A j \in 1 .. i - 1 : ~OccursAt(old, text, j)
           first == CHOOSE i \in 1 .. Len(text) + 1 : First(i)
<1>1. Len(text) \in Nat
  OBVIOUS
<1>2. PICK m \in Occurrences(text, old) : \A i \in Occurrences(text, old) : m <= i
  <2>1. Occurrences(text, old) \subseteq Nat
    BY <1>1 DEF Occurrences
  <2> QED
    BY <2>1, LeastNumber
<1>3. m \in 1 .. Len(text) + 1 /\ First(m)
  <2>1. m \in 1 .. Len(text) + 1 /\ OccursAt(old, text, m)
    BY <1>2 DEF Occurrences
  <2>2. ASSUME NEW j \in 1 .. m - 1
        PROVE  ~OccursAt(old, text, j)
    <3>1. j \in 1 .. Len(text) + 1 /\ ~ (m <= j)
      BY <1>1, <2>1
    <3> QED
      BY <3>1, <1>2 DEF Occurrences
  <2> QED
    BY <2>1, <2>2
<1>4. first \in 1 .. Len(text) + 1 /\ First(first)
  <2> HIDE DEF First
  <2> QED
    BY <1>3
<1>5. first \in Occurrences(text, old)
  BY <1>4 DEF Occurrences
<1>6. ReplacedOnce(text, old, new)
        = SubSeq(text, 1, first - 1) \o new \o SubSeq(text, first + Len(old), Len(text))
  BY DEF ReplacedOnce
<1> HIDE DEF first
<1> QED
  BY <1>5, <1>6

\* What a state holds: a call with its arguments, and nothing or its result.
CallsTyped ==
  \/ call.op = "make_envelope" /\ call.text \in Seq({"k", "s", "t", "e", "q", "l", "w"})
  \/ call.op = "truncate_diagnosis" /\ call.text \in Seq({"a", "w", "l", "c"})
  \/ /\ call.op = "edit_file" /\ call.found \in BOOLEAN
     /\ call.text \in Seq({"a", "x"}) /\ call.old \in Seq({"a", "x"})
     /\ call.new \in Seq({"a", "x"})

ResultOfCall ==
  \/ out = NoResult
  \/ /\ call.op = "make_envelope"
     /\ out = [result |-> "envelope", envelope |-> make_envelope(call.text),
               frame |-> format_sse(make_envelope(call.text))]
  \/ /\ call.op = "truncate_diagnosis"
     /\ out = [result |-> "diagnosis", text |-> truncate_diagnosis(call.text)]
  \/ /\ call.op = "edit_file"
     /\ out = IF call.found THEN str_replace(call.text, call.old, call.new)
              ELSE [result |-> "error", text |-> call.text]

CodecInv == CallsTyped /\ ResultOfCall

\* Every state of the specification is a call with its arguments, and nothing or what
\* the function called computes: the invariant from which the four claims follow.
THEOREM CodecInvariance == CodecSpec => []CodecInv
<1>1. CodecInit => CodecInv
  <2> SUFFICES ASSUME CodecInit PROVE CodecInv
    OBVIOUS
  <2>1. ResultOfCall
    BY DEF CodecInit, ResultOfCall
  <2>2. CASE call \in [op : {"make_envelope"}, text : PayloadTexts]
    <3>1. call.op = "make_envelope" /\ call.text \in PayloadTexts
      BY <2>2
    <3>2. call.text \in Seq({"k", "s", "t", "e", "q", "l", "w"})
      BY <3>1, BoundedIsSeq DEF PayloadTexts
    <3> QED
      BY <3>1, <3>2, <2>1 DEF CodecInv, CallsTyped
  <2>3. CASE call \in [op : {"truncate_diagnosis"}, text : CommandOutputs]
    <3>1. call.op = "truncate_diagnosis" /\ call.text \in CommandOutputs
      BY <2>3
    <3>2. call.text \in Seq({"a", "w", "l", "c"})
      BY <3>1, BoundedIsSeq DEF CommandOutputs
    <3> QED
      BY <3>1, <3>2, <2>1 DEF CodecInv, CallsTyped
  <2>4. CASE call \in [op : {"edit_file"}, found : BOOLEAN, text : Contents,
                       old : Needles, new : {<<>>, <<"a">>, <<"a", "x">>}]
    <3>1. /\ call.op = "edit_file" /\ call.found \in BOOLEAN
          /\ call.text \in Contents /\ call.old \in Needles
          /\ call.new \in {<<>>, <<"a">>, <<"a", "x">>}
      BY <2>4
    <3>2. call.text \in Seq({"a", "x"}) /\ call.old \in Seq({"a", "x"})
      BY <3>1, BoundedIsSeq DEF Contents, Needles
    <3>3. \A s \in {<<>>, <<"a">>, <<"a", "x">>} : s \in Seq({"a", "x"})
      <4>1. /\ <<>> \in Seq({"a", "x"}) /\ <<"a">> \in Seq({"a", "x"})
            /\ <<"a", "x">> \in Seq({"a", "x"})
        OBVIOUS
      <4> QED
        BY <4>1
    <3>4. call.new \in Seq({"a", "x"})
      BY <3>1, <3>3
    <3> QED
      BY <3>1, <3>2, <3>4, <2>1 DEF CodecInv, CallsTyped
  <2> QED
    BY <2>2, <2>3, <2>4 DEF CodecInit
<1>2. CodecInv /\ [CodecNext]_codecVars => CodecInv'
  <2> SUFFICES ASSUME CodecInv, [CodecNext]_codecVars PROVE CodecInv'
    OBVIOUS
  <2>1. call' = call
    BY DEF CodecNext, codecVars, MakeEnvelope, TruncateDiagnosis, EditFile
  <2>2. CallsTyped'
    BY <2>1 DEF CodecInv, CallsTyped
  <2>3. ResultOfCall'
    <3>1. CASE MakeEnvelope
      BY <3>1, <2>1 DEF MakeEnvelope, ResultOfCall
    <3>2. CASE TruncateDiagnosis
      BY <3>2, <2>1 DEF TruncateDiagnosis, ResultOfCall
    <3>3. CASE EditFile
      BY <3>3, <2>1 DEF EditFile, ResultOfCall
    <3>4. CASE UNCHANGED codecVars
      BY <3>4 DEF codecVars, CodecInv, ResultOfCall
    <3> QED
      BY <3>1, <3>2, <3>3, <3>4 DEF CodecNext
  <2> QED
    BY <2>2, <2>3 DEF CodecInv
<1> QED
  BY <1>1, <1>2, PTL DEF CodecSpec

\* What holds after edit_file: the count decides whether it edits, and where.
LEMMA EditStates == CodecInv => EditIsExact
<1> SUFFICES ASSUME CodecInv, out.result \in {"edited", "error"}
             PROVE  EditIsExact
  BY DEF EditIsExact
<1>1. /\ call.found \in BOOLEAN
      /\ call.text \in Seq({"a", "x"}) /\ call.old \in Seq({"a", "x"})
      /\ out = IF call.found THEN str_replace(call.text, call.old, call.new)
               ELSE [result |-> "error", text |-> call.text]
  BY DEF CodecInv, CallsTyped, ResultOfCall, NoResult
<1> DEFINE at == {i \in 1 .. Len(call.text) + 1 : OccursAt(call.old, call.text, i)}
           count == Count(call.text, call.old)
           disjoint == \E i, j \in at : i < j /\ i + Len(call.old) <= j
           Exchanged(i) == SubSeq(call.text, 1, i - 1) \o call.new
                           \o SubSeq(call.text, i + Len(call.old), Len(call.text))
<1>2. count \in Nat /\ (count = 0 <=> at = {}) /\ (count >= 2 <=> disjoint)
  BY <1>1, CountTells DEF Disjoint, Occurrences
<1>3. at # {} => \E i \in at : ReplacedOnce(call.text, call.old, call.new) = Exchanged(i)
  BY <1>1, FirstOccurrence DEF Occurrences
<1>4. out = IF call.found /\ count = 1
            THEN [result |-> "edited", text |-> ReplacedOnce(call.text, call.old, call.new)]
            ELSE [result |-> "error", text |-> call.text]
  BY <1>1 DEF str_replace
<1> HIDE DEF at, count, Exchanged
<1>5. (count = 1) <=> (at # {} /\ ~disjoint)
  <2>1. count \in Nat => (count = 1 <=> (count # 0 /\ ~ (count >= 2)))
    OBVIOUS
  <2> HIDE DEF disjoint
  <2> QED
    BY <2>1, <1>2
<1> HIDE DEF disjoint
<1>6. (out.result = "edited") <=> (call.found /\ at # {} /\ ~disjoint)
  BY <1>1, <1>4, <1>5
<1>7. out.result = "error" => out.text = call.text
  BY <1>4
<1>8. out.result = "edited" => \E i \in at : out.text = Exchanged(i)
  BY <1>3, <1>4, <1>5
<1> QED
  BY <1>6, <1>7, <1>8 DEF EditIsExact, at, disjoint, Exchanged

\* edit_file is exact for every file, old and new text: it edits if and only if the
\* old text occurs and no two occurrences are disjoint, and then replaces one of them.
THEOREM EditExactness == CodecSpec => []EditIsExact
BY CodecInvariance, EditStates, PTL

-----------------------------------------------------------------------------
(* make_envelope and format_sse: redaction and the size of a frame *)

\* The characters of a payload, and those json.dumps and the redaction write.
Typed == {"k", "s", "t", "e", "q", "l", "w"}
Wire == {"k", "s", "t", "e", "q", "b", "x", "n", "u", "0", "R"}
Letters == Wire \cup {"l", "w"}

\* A run of body characters ends at the first other character, or with the text.
LEMMA BodyRunFacts ==
  ASSUME NEW C, NEW text \in Seq(C), NEW i \in 1 .. Len(text) + 1
  PROVE  /\ BodyRun(text, i) \in Nat /\ i + BodyRun(text, i) <= Len(text) + 1
         /\ \A j \in i .. i + BodyRun(text, i) - 1 : text[j] \in SecretBody
         /\ i + BodyRun(text, i) <= Len(text) => text[i + BodyRun(text, i)] \notin SecretBody
<1> DEFINE ends == {j \in i .. Len(text) : text[j] \notin SecretBody}
           end == IF ends = {} THEN Len(text) + 1
                  ELSE CHOOSE j \in ends : \A h \in ends : j <= h
<1>1. Len(text) \in Nat
  OBVIOUS
<1>2. BodyRun(text, i) = end - i
  BY DEF BodyRun
<1>3. CASE ends = {}
  <2>1. end = Len(text) + 1
    BY <1>3
  <2>2. \A j \in i .. Len(text) : text[j] \in SecretBody
    BY <1>3
  <2> HIDE DEF end, ends
  <2> QED
    BY <2>1, <2>2, <1>1, <1>2
<1>4. CASE ends # {}
  <2>1. \E j \in ends : \A h \in ends : j <= h
    <3>1. ends \subseteq Nat
      OBVIOUS
    <3> QED
      BY <3>1, <1>4, LeastNumber
  <2>2. end \in ends /\ \A h \in ends : end <= h
    <3> HIDE DEF ends
    <3> QED
      BY <2>1, <1>4
  <2>3. end \in i .. Len(text) /\ text[end] \notin SecretBody
    BY <2>2
  <2>4. \A j \in i .. end - 1 : text[j] \in SecretBody
    <3>1. ASSUME NEW j \in i .. end - 1, text[j] \notin SecretBody
          PROVE  FALSE
      <4> HIDE DEF end
      <4>1. j \in i .. Len(text) /\ ~ (end <= j)
        BY <2>3, <1>1
      <4> QED
        BY <4>1, <3>1, <2>2
    <3> QED
      BY <3>1
  <2> HIDE DEF end, ends
  <2> QED
    BY <2>3, <2>4, <1>1, <1>2
<1> QED
  BY <1>3, <1>4

\* A match is within the text, so that Redacted goes on at a place of it.
LEMMA MatchAdvances ==
  ASSUME NEW C, NEW text \in Seq(C), NEW D, NEW head \in Seq(D), head # <<>>,
         NEW i \in 1 .. Len(text)
  PROVE  /\ MatchAt(head, text, i) \in Nat
         /\ i + MatchAt(head, text, i) <= Len(text) + 1
<1>1. Len(text) \in Nat /\ Len(head) \in Nat /\ Len(head) # 0
  OBVIOUS
<1>2. CASE MatchAt(head, text, i) = 0
  BY <1>1, <1>2
<1>3. CASE MatchAt(head, text, i) # 0
  <2>1. i + Len(head) \in 1 .. Len(text) + 1
        /\ MatchAt(head, text, i) = Len(head) + BodyRun(text, i + Len(head))
    BY <1>1, <1>3 DEF MatchAt
  <2>2. PICK b \in 1 .. Len(text) + 1 : b = i + Len(head)
    BY <2>1
  <2>3. BodyRun(text, b) \in Nat /\ b + BodyRun(text, b) <= Len(text) + 1
    BY BodyRunFacts
  <2> QED
    BY <2>1, <2>2, <2>3, <1>1
<1> QED
  BY <1>2, <1>3

\* The recursion in Redacted.
Redacts(head, text, from) ==
  /\ from[Len(text) + 1] = <<>>
  /\ \A i \in 1 .. Len(text) :
       from[i] = IF MatchAt(head, text, i) > 0 THEN <<"R">> \o from[i + MatchAt(head, text, i)]
                 ELSE <<text[i]>> \o from[i + 1]

\* Redacted satisfies its recursion, for every text and every head (pattern.sub).
LEMMA RedactedEquation ==
  ASSUME NEW C, "R" \in C, NEW text \in Seq(C), NEW D, NEW head \in Seq(D), head # <<>>
  PROVE  \E from \in [1 .. Len(text) + 1 -> Seq(C)] :
           Redacted(head, text) = from[1] /\ Redacts(head, text, from)
<1> DEFINE N == Len(text)
           m == [i \in 1 .. N |-> MatchAt(head, text, i)]
           next == [i \in 1 .. N |-> IF m[i] > 0 THEN i + m[i] ELSE i + 1]
           block == [i \in 1 .. N |-> IF m[i] > 0 THEN <<"R">> ELSE <<text[i]>>]
           step == [i \in 1 .. N |-> [x \in Seq(C) |-> block[i] \o x]]
           Def(g) == [i \in 1 .. Len(text) + 1 |->
             IF i > Len(text) THEN <<>>
             ELSE IF MatchAt(head, text, i) > 0 THEN <<"R">> \o g[i + MatchAt(head, text, i)]
             ELSE <<text[i]>> \o g[i + 1]]
<1>1. N \in Nat /\ <<>> \in Seq(C) /\ \A i \in 1 .. N : text[i] \in C
  OBVIOUS
<1>2. \A i \in 1 .. N : m[i] = MatchAt(head, text, i) /\ m[i] \in Nat /\ i + m[i] <= N + 1
  BY MatchAdvances
<1> HIDE DEF m
<1>3. \A i \in 1 .. N : next[i] = IF m[i] > 0 THEN i + m[i] ELSE i + 1
  OBVIOUS
<1>4. \A i \in 1 .. N : block[i] = IF m[i] > 0 THEN <<"R">> ELSE <<text[i]>>
  OBVIOUS
<1>5. Advances(next, N)
  BY <1>1, <1>2 DEF Advances
<1>6. \A i \in 1 .. N : block[i] \in Seq(C)
  <2>1. \A c \in C : <<c>> \in Seq(C)
    OBVIOUS
  <2> QED
    BY <2>1, <1>1
<1> HIDE DEF next, block
<1>7. step \in Steps(N, Seq(C)) /\ \A i \in 1 .. N, x \in Seq(C) : step[i][x] = block[i] \o x
  <2>1. ASSUME NEW i \in 1 .. N, NEW x \in Seq(C)
        PROVE  block[i] \o x \in Seq(C)
    <3>1. block[i] \in Seq(C)
      BY <1>6
    <3> QED
      BY <3>1, ConcatProperties
  <2> QED
    BY <2>1 DEF Steps
<1> HIDE DEF step
<1>8. PICK f \in [1 .. N + 1 -> Seq(C)] : Unrolls(f, N, <<>>, next, step)
  <2> HIDE DEF N
  <2> QED
    BY <1>1, <1>5, <1>7, Recursion
<1>9. f[N + 1] = <<>> /\ \A i \in 1 .. N : next[i] \in 1 .. N + 1 /\ f[i] = block[i] \o f[next[i]]
  <2>1. \A i \in 1 .. N : next[i] \in 1 .. N + 1
    BY <1>1, <1>5 DEF Advances
  <2>2. f[N + 1] = <<>> /\ \A i \in 1 .. N : f[i] = step[i][f[next[i]]]
    BY <1>8 DEF Unrolls
  <2>3. \A i \in 1 .. N : f[next[i]] \in Seq(C)
    BY <2>1
  <2> HIDE DEF N
  <2> QED
    BY <2>1, <2>2, <2>3, <1>7
<1>10. f = Def(f)
  <2>1. ASSUME NEW i \in 1 .. Len(text) + 1
        PROVE  f[i] = Def(f)[i]
    <3>1. CASE i > Len(text)
      <4>1. i = N + 1
        BY <3>1, <1>1
      <4> QED
        BY <4>1, <3>1, <1>9
    <3>2. CASE ~ (i > Len(text))
      <4>1. i \in 1 .. N
        BY <3>2, <1>1
      <4>2. f[i] = block[i] \o f[next[i]] /\ m[i] = MatchAt(head, text, i)
        BY <4>1, <1>9, <1>2
      <4> QED
        BY <4>1, <4>2, <3>2, <1>3, <1>4
    <3> QED
      BY <3>1, <3>2
  <2> QED
    BY <2>1
<1> DEFINE from == CHOOSE g : g = Def(g)
<1>11. from = Def(from)
  <2> HIDE DEF Def
  <2> QED
    BY <1>10
<1>12. Redacted(head, text) = from[1]
  BY DEF Redacted
<1>13. ASSUME NEW i \in 1 .. N
       PROVE  from[i] = block[i] \o from[next[i]]
  <2>1. i \in 1 .. Len(text) + 1 /\ ~ (i > Len(text))
    BY <1>1
  <2>2. from[i] = Def(from)[i]
    BY <1>11
  <2> HIDE DEF from
  <2>3. from[i] = IF MatchAt(head, text, i) > 0 THEN <<"R">> \o from[i + MatchAt(head, text, i)]
                  ELSE <<text[i]>> \o from[i + 1]
    BY <2>1, <2>2
  <2> QED
    BY <2>3, <1>2, <1>3, <1>4
<1>14. from[N + 1] = <<>>
  <2>1. N + 1 \in 1 .. Len(text) + 1 /\ N + 1 > Len(text)
    BY <1>1
  <2> HIDE DEF from
  <2> QED
    BY <2>1, <1>11
<1> HIDE DEF from
<1>15. \A i \in 1 .. N + 1 : from[i] = f[i]
  <2> DEFINE G == {n \in 0 .. N : \A i \in N + 1 - n .. N + 1 : from[i] = f[i]}
  <2>1. 0 \in G
    <3>1. 0 \in 0 .. N /\ \A i \in N + 1 - 0 .. N + 1 : i = N + 1
      BY <1>1
    <3> QED
      BY <3>1, <1>9, <1>14
  <2>2. ASSUME NEW n \in 1 .. N, n - 1 \in G
        PROVE  n \in G
    <3>1. \A i \in N + 1 - (n - 1) .. N + 1 : from[i] = f[i]
      BY <2>2
    <3>2. ASSUME NEW i \in N + 1 - n .. N + 1
          PROVE  from[i] = f[i]
      <4>1. CASE i \in N + 1 - (n - 1) .. N + 1
        BY <4>1, <3>1
      <4>2. CASE i \notin N + 1 - (n - 1) .. N + 1
        <5>1. i \in 1 .. N /\ i = N + 1 - n
          BY <4>2, <1>1
        <5>2. next[i] \in N + 1 - (n - 1) .. N + 1
          BY <5>1, <1>1, <1>5 DEF Advances
        <5> QED
          BY <5>1, <5>2, <3>1, <1>9, <1>13
      <4> QED
        BY <4>1, <4>2
    <3>3. n \in 0 .. N
      BY <1>1
    <3> QED
      BY <3>2, <3>3
  <2>3. \A n \in 0 .. N : n \in G
    <3> HIDE DEF G, N
    <3> QED
      BY <2>1, <2>2, <1>1, Induction
  <2>4. N \in 0 .. N /\ N + 1 - N = 1
    BY <1>1
  <2> QED
    BY <2>3, <2>4
<1>16. Redacted(head, text) = f[1]
  BY <1>1, <1>12, <1>15
<1>17. Redacts(head, text, f)
  BY <1>2, <1>3, <1>4, <1>9 DEF Redacts
<1> QED
  BY <1>16, <1>17

\* A redacted text is a text.
LEMMA RedactedTyped ==
  ASSUME NEW C, "R" \in C, NEW text \in Seq(C), NEW D, NEW head \in Seq(D), head # <<>>
  PROVE  Redacted(head, text) \in Seq(C)
<1>1. PICK from \in [1 .. Len(text) + 1 -> Seq(C)] : Redacted(head, text) = from[1]
  BY RedactedEquation
<1> QED
  BY <1>1

\* The two passes of redact_text.
Once(text) == Redacted(<<"k">>, text)
Twice(text) == Redacted(<<"t", "e">>, Once(text))

\* redact_text makes one pass per pattern, in the order of _SECRET_PATTERNS.
LEMMA TwoPasses ==
  ASSUME NEW text
  PROVE  redact_text(text) = Twice(text)
<1> DEFINE Def(g) == [p \in 0 .. Len(SecretPatterns) |->
                        IF p = 0 THEN text ELSE Redacted(SecretPatterns[p], g[p - 1])]
           f == [p \in 0 .. 2 |-> IF p = 0 THEN text ELSE IF p = 1 THEN Once(text) ELSE Twice(text)]
           after == CHOOSE g : g = Def(g)
<1>1. Len(SecretPatterns) = 2 /\ SecretPatterns[1] = <<"k">> /\ SecretPatterns[2] = <<"t", "e">>
  BY DEF SecretPatterns
<1>2. f[0] = text /\ f[1] = Once(text) /\ f[2] = Twice(text)
  OBVIOUS
<1>3. f = Def(f)
  <2>1. \A p \in 0 .. 2 : p = 0 \/ p = 1 \/ p = 2
    OBVIOUS
  <2>2. ASSUME NEW p \in 0 .. Len(SecretPatterns)
        PROVE  f[p] = IF p = 0 THEN text ELSE Redacted(SecretPatterns[p], f[p - 1])
    <3> HIDE DEF f
    <3>1. 1 - 1 = 0 /\ 2 - 1 = 1
      OBVIOUS
    <3> QED
      BY <2>1, <3>1, <1>1, <1>2 DEF Once, Twice
  <2> QED
    BY <2>2, <1>1
<1>4. after = Def(after)
  <2> HIDE DEF Def
  <2> QED
    BY <1>3
<1>5. redact_text(text) = after[2]
  BY <1>1 DEF redact_text
<1>6. after[0] = text /\ after[1] = Redacted(<<"k">>, after[0])
      /\ after[2] = Redacted(<<"t", "e">>, after[1])
  <2> HIDE DEF after
  <2>1. \A p \in 0 .. 2 :
          after[p] = IF p = 0 THEN text ELSE Redacted(SecretPatterns[p], after[p - 1])
    BY <1>1, <1>4
  <2>2. 0 \in 0 .. 2 /\ 1 \in 0 .. 2 /\ 2 \in 0 .. 2 /\ 1 - 1 = 0 /\ 2 - 1 = 1
    OBVIOUS
  <2> QED
    BY <2>1, <2>2, <1>1
<1> HIDE DEF after
<1> QED
  BY <1>5, <1>6 DEF Once, Twice

\* Both passes leave a text that json.dumps can encode.
LEMMA PassesTyped ==
  ASSUME NEW text \in Seq(Typed)
  PROVE  /\ text \in Seq(Letters)
         /\ Once(text) \in Seq(Letters) /\ Twice(text) \in Seq(Letters)
<1>1. "R" \in Letters /\ Typed \subseteq Letters
  BY DEF Letters, Wire, Typed
<1>2. text \in Seq(Letters)
  BY <1>1
<1>3. <<"k">> \in Seq(Letters) /\ <<"k">> # <<>>
      /\ <<"t", "e">> \in Seq(Letters) /\ <<"t", "e">> # <<>>
  <2>1. "k" \in Letters /\ "t" \in Letters /\ "e" \in Letters
    BY DEF Letters, Wire
  <2> QED
    BY <2>1
<1>4. Once(text) \in Seq(Letters)
  BY <1>1, <1>2, <1>3, RedactedTyped DEF Once
<1>5. Twice(text) \in Seq(Letters)
  <2>1. PICK once \in Seq(Letters) : once = Once(text)
    BY <1>4
  <2>2. Redacted(<<"t", "e">>, once) \in Seq(Letters)
    BY <1>1, <1>3, RedactedTyped
  <2> QED
    BY <2>1, <2>2 DEF Twice
<1> QED
  BY <1>2, <1>4, <1>5

\* What json.dumps writes for every character.
EscapeTable == [c \in Letters |-> Escaped(c)]

\* json.dumps writes wire characters only -- no line feed is among them -- and of
\* those no more than two for a character that is itself one.
LEMMA Escapes ==
  /\ EscapeTable \in Tables(Letters, Wire)
  /\ Wire \subseteq Letters
  /\ \A c \in Wire : EscapeTable[c] \in {<<c>>, <<"b", c>>} /\ Len(EscapeTable[c]) <= 2
<1>1. Wire \subseteq Letters
  BY DEF Letters
<1>2. ASSUME NEW c \in Letters
      PROVE  Escaped(c) \in Seq(Wire)
  <2>1. CASE c \in {"q", "b"}
    <3>1. Escaped(c) = <<"b", c>> /\ "b" \in Wire /\ c \in Wire
      BY <2>1 DEF Escaped, Wire
    <3> QED
      BY <3>1
  <2>2. CASE c = "l"
    <3>1. Escaped(c) = <<"b", "n">> /\ "b" \in Wire /\ "n" \in Wire
      BY <2>2 DEF Escaped, Wire
    <3> QED
      BY <3>1
  <2>3. CASE c = "w"
    <3>1. Escaped(c) = <<"b", "u", "0", "0", "0", "0">>
      BY <2>3 DEF Escaped
    <3>2. "b" \in Wire /\ "u" \in Wire /\ "0" \in Wire
      BY DEF Wire
    <3> QED
      BY <3>1, <3>2
  <2>4. CASE c \notin {"q", "b", "l", "w"}
    <3>1. Escaped(c) = <<c>> /\ c \in Wire
      BY <2>4 DEF Escaped, Letters
    <3> QED
      BY <3>1
  <2> QED
    BY <2>1, <2>2, <2>3, <2>4
<1>3. EscapeTable \in Tables(Letters, Wire)
  BY <1>2 DEF Tables, EscapeTable
<1>4. ASSUME NEW c \in Wire
      PROVE  EscapeTable[c] \in {<<c>>, <<"b", c>>} /\ Len(EscapeTable[c]) <= 2
  <2>1. c \in Letters /\ c \notin {"l", "w"}
    BY DEF Wire, Letters
  <2>2. EscapeTable[c] = Escaped(c) /\ Escaped(c) \in {<<c>>, <<"b", c>>}
    BY <2>1 DEF Escaped, EscapeTable
  <2>3. Len(<<c>>) = 1 /\ Len(<<"b", c>>) = 2
    OBVIOUS
  <2>4. CASE EscapeTable[c] = <<c>>
    BY <2>3, <2>4
  <2>5. CASE EscapeTable[c] = <<"b", c>>
    BY <2>3, <2>5
  <2> QED
    BY <2>2, <2>4, <2>5
<1> QED
  BY <1>1, <1>3, <1>4

\* The form and the length of json.dumps of a string.
LEMMA DumpedFacts ==
  ASSUME NEW text \in Seq(Letters)
  PROVE  /\ Dumped(text) = <<"q">> \o Spread(EscapeTable, text) \o <<"q">>
         /\ Dumped(text) \in Seq(Wire) /\ Encoded(text) \in Seq(Wire)
         /\ Len(Dumped(text)) = Len(Spread(EscapeTable, text)) + 2
         /\ Len(Encoded(text)) = Len(Dumped(text)) + 1
         /\ text \in Seq(Wire) => Len(Dumped(text)) <= 2 * Len(text) + 2
<1>1. [i \in DOMAIN text |-> Escaped(text[i])] = [i \in DOMAIN text |-> EscapeTable[text[i]]]
  <2>1. \A i \in DOMAIN text : text[i] \in Letters
    OBVIOUS
  <2> QED
    BY <2>1 DEF EscapeTable
<1>2. Dumped(text) = <<"q">> \o Spread(EscapeTable, text) \o <<"q">>
  BY <1>1 DEF Dumped, Spread
<1>3. Spread(EscapeTable, text) \in Seq(Wire)
  BY Escapes, SpreadTyped
<1>4. PICK body \in Seq(Wire) : body = Spread(EscapeTable, text)
  BY <1>3
<1>5. <<"q">> \in Seq(Wire) /\ <<"x">> \in Seq(Wire)
  BY DEF Wire
<1>6. /\ (<<"q">> \o body) \o <<"q">> \in Seq(Wire)
      /\ Len((<<"q">> \o body) \o <<"q">>) = Len(body) + 2
  BY <1>5
<1>7. PICK dumped \in Seq(Wire) : dumped = Dumped(text) /\ Len(dumped) = Len(body) + 2
  BY <1>2, <1>4, <1>6
<1>8. <<"x">> \o dumped \in Seq(Wire) /\ Len(<<"x">> \o dumped) = Len(dumped) + 1
  BY <1>5
<1>9. ASSUME text \in Seq(Wire)
      PROVE  Len(body) <= 2 * Len(text)
  <2> DEFINE narrow == [c \in Wire |-> EscapeTable[c]]
  <2>1. narrow \in Tables(Wire, Wire)
    BY Escapes DEF Tables
  <2>2. \A c \in Wire : Len(narrow[c]) <= 2
    BY Escapes
  <2>3. Spread(narrow, text) = body
    <3>1. [i \in DOMAIN text |-> narrow[text[i]]] = [i \in DOMAIN text |-> EscapeTable[text[i]]]
      <4>1. \A i \in DOMAIN text : text[i] \in Wire
        BY <1>9
      <4> QED
        BY <4>1
    <3> QED
      BY <3>1, <1>4 DEF Spread
  <2> HIDE DEF narrow
  <2>4. \A s \in Seq(Wire) : Len(Spread(narrow, s)) <= 2 * Len(s)
    BY <2>1, <2>2, SpreadLength
  <2> QED
    BY <2>3, <2>4, <1>9
<1>10. Len(body) \in Nat /\ Len(text) \in Nat
  OBVIOUS
<1>11. text \in Seq(Wire) => Len(Dumped(text)) <= 2 * Len(text) + 2
  BY <1>7, <1>9, <1>10
<1> QED
  BY <1>2, <1>4, <1>7, <1>8, <1>11 DEF Encoded

\* The two outcomes of the payload cap.
LEMMA CapFacts ==
  ASSUME NEW text \in Seq(Letters)
  PROVE  \/ /\ cap_payload(text) = [truncated |-> FALSE, text |-> text]
            /\ Len(Encoded(text)) <= MaxPayloadBytes
         \/ /\ cap_payload(text) =
                 [truncated |-> TRUE,
                  text |-> SubSeq(Encoded(text), 1, MaxPayloadBytes - PreviewSlack)]
            /\ SubSeq(Encoded(text), 1, MaxPayloadBytes - PreviewSlack) \in Seq(Wire)
            /\ Len(SubSeq(Encoded(text), 1, MaxPayloadBytes - PreviewSlack))
                 = MaxPayloadBytes - PreviewSlack
            /\ MaxPayloadBytes - PreviewSlack \in 1 .. Len(Encoded(text))
<1>1. PICK e \in Seq(Wire) : e = Encoded(text)
  BY DumpedFacts
<1>2. CASE Len(e) <= MaxPayloadBytes
  BY <1>1, <1>2 DEF cap_payload
<1>3. CASE ~ (Len(e) <= MaxPayloadBytes)
  <2>1. Len(e) \in Nat /\ MaxPayloadBytes - PreviewSlack \in 1 .. Len(e)
    BY <1>3, EncodingAssumption
  <2>2. PICK n \in 1 .. Len(e) : n = MaxPayloadBytes - PreviewSlack
    BY <2>1
  <2>3. SubSeq(e, 1, n) \in Seq(Wire) /\ Len(SubSeq(e, 1, n)) = n
    OBVIOUS
  <2> QED
    BY <1>1, <1>3, <2>2, <2>3 DEF cap_payload
<1> QED
  BY <1>2, <1>3

\* The length of an SSE frame; no line feed is before its last two characters.
LEMMA FrameFacts ==
  ASSUME NEW envelope, envelope.text \in Seq(Letters)
  PROVE  LET marker == IF envelope.truncated THEN MarkerBytes ELSE 1
             frame == format_sse(envelope)
         IN  /\ Len(frame) = marker + Len(Dumped(envelope.text)) + 2
             /\ \A i \in 1 .. Len(frame) - 2 : frame[i] # "l"
<1> DEFINE n == IF envelope.truncated THEN MarkerBytes ELSE 1
           marker == [i \in 1 .. n |-> "x"]
<1>1. n \in Nat
  BY EncodingAssumption
<1>2. marker \in Seq(Wire) /\ Len(marker) = n
  <2>1. "x" \in Wire
    BY DEF Wire
  <2> HIDE DEF n
  <2> QED
    BY <1>1, <2>1
<1>3. PICK dumped \in Seq(Wire) : dumped = Dumped(envelope.text)
  BY DumpedFacts
<1>4. format_sse(envelope) = (marker \o dumped) \o <<"l", "l">>
  BY <1>3 DEF format_sse
<1> HIDE DEF marker, n
<1>5. PICK line \in Seq(Wire) : line = marker \o dumped /\ Len(line) = n + Len(dumped)
  <2>1. marker \o dumped \in Seq(Wire) /\ Len(marker \o dumped) = n + Len(dumped)
    BY <1>2
  <2> QED
    BY <2>1
<1>6. /\ Len(line \o <<"l", "l">>) = Len(line) + 2
      /\ \A i \in 1 .. Len(line) : (line \o <<"l", "l">>)[i] = line[i] /\ line[i] \in Wire
      /\ Len(line) \in Nat /\ Len(dumped) \in Nat
  OBVIOUS
<1>7. "l" \notin Wire
  BY DEF Wire
<1>8. format_sse(envelope) = line \o <<"l", "l">>
  BY <1>4, <1>5
<1>9. Len(line) + 2 - 2 = Len(line)
  BY <1>6
<1> QED
  BY <1>1, <1>3, <1>5, <1>6, <1>7, <1>8, <1>9 DEF n

\* What holds after make_envelope: the frame is bounded, whatever the payload.
LEMMA FrameStates == CodecInv => FrameBounded
<1> SUFFICES ASSUME CodecInv, out.result = "envelope"
             PROVE  /\ Len(out.frame) <= 2 * MaxPayloadBytes
                    /\ \A i \in 1 .. Len(out.frame) - 2 : out.frame[i] # "l"
  BY DEF FrameBounded
<1>1. /\ call.text \in Seq(Typed)
      /\ out = [result |-> "envelope", envelope |-> make_envelope(call.text),
                frame |-> format_sse(make_envelope(call.text))]
  BY DEF CodecInv, CallsTyped, ResultOfCall, NoResult, Typed, str_replace
<1>2. PICK r \in Seq(Letters) : make_envelope(call.text) = cap_payload(r)
  BY <1>1, TwoPasses, PassesTyped DEF make_envelope
<1>3. PICK envelope : envelope = cap_payload(r) /\ out.frame = format_sse(envelope)
  BY <1>1, <1>2
<1>4. /\ MaxPayloadBytes \in Nat /\ PreviewSlack \in Nat /\ MarkerBytes \in Nat
      /\ MarkerBytes + 2 <= PreviewSlack /\ PreviewSlack < MaxPayloadBytes
  BY EncodingAssumption
<1>5. CASE envelope = [truncated |-> FALSE, text |-> r] /\ Len(Encoded(r)) <= MaxPayloadBytes
  <2>1. /\ Len(format_sse(envelope)) = 1 + Len(Dumped(r)) + 2
        /\ \A i \in 1 .. Len(format_sse(envelope)) - 2 : format_sse(envelope)[i] # "l"
    BY <1>5, FrameFacts
  <2>2. Len(Encoded(r)) = Len(Dumped(r)) + 1 /\ Len(Dumped(r)) \in Nat
    BY DumpedFacts
  <2>3. 1 + Len(Dumped(r)) + 2 <= 2 * MaxPayloadBytes
    BY <2>2, <1>4, <1>5
  <2> QED
    BY <2>1, <2>3, <1>3
<1>6. CASE /\ envelope = [truncated |-> TRUE,
                  text |-> SubSeq(Encoded(r), 1, MaxPayloadBytes - PreviewSlack)]
           /\ SubSeq(Encoded(r), 1, MaxPayloadBytes - PreviewSlack) \in Seq(Wire)
           /\ Len(SubSeq(Encoded(r), 1, MaxPayloadBytes - PreviewSlack))
                = MaxPayloadBytes - PreviewSlack
  <2>1. PICK cut \in Seq(Wire) : /\ envelope = [truncated |-> TRUE, text |-> cut]
                                 /\ Len(cut) = MaxPayloadBytes - PreviewSlack
    BY <1>6
  <2>2. cut \in Seq(Letters)
    BY Escapes
  <2>3. /\ Len(format_sse(envelope)) = MarkerBytes + Len(Dumped(cut)) + 2
        /\ \A i \in 1 .. Len(format_sse(envelope)) - 2 : format_sse(envelope)[i] # "l"
    BY <2>1, <2>2, FrameFacts
  <2>4. Len(Dumped(cut)) <= 2 * Len(cut) + 2 /\ Len(Dumped(cut)) \in Nat
    BY <2>2, DumpedFacts
  <2>5. MarkerBytes + Len(Dumped(cut)) + 2 <= 2 * MaxPayloadBytes
    BY <2>1, <2>4, <1>4
  <2> QED
    BY <2>3, <2>5, <1>3
<1> QED
  BY <1>3, <1>5, <1>6, CapFacts

\* Every SSE frame is at most twice as long as the payload cap and ends only at its end, for
\* payloads of any length and any value of the limits.
THEOREM FrameBound == CodecSpec => []FrameBounded
BY CodecInvariance, FrameStates, PTL

-----------------------------------------------------------------------------
(* make_envelope: where the characters of what is sent come from *)

\* The heads of the two patterns, and the characters of a secret.
Heads == {<<"k">>, <<"t", "e">>}
Word == {"k", "s", "t", "e"}

\* A match of MatchAt, said character by character.
Hits(head, text, i) ==
  /\ i + Len(head) + MinSecret - 1 <= Len(text)
  /\ \A h \in 1 .. Len(head) : text[i + h - 1] = head[h]
  /\ \A b \in 1 .. MinSecret : text[i + Len(head) + b - 1] \in SecretBody

\* A head is one or two word characters.
LEMMA HeadFacts ==
  ASSUME NEW head \in Heads
  PROVE  /\ head \in Seq(Word) /\ head # <<>> /\ Len(head) \in {1, 2}
         /\ \A h \in 1 .. Len(head) : head[h] \in Word
         /\ SecretBody \subseteq Word
<1>1. CASE head = <<"k">>
  <2>1. "k" \in Word
    BY DEF Word
  <2> QED
    BY <2>1, <1>1 DEF SecretBody, Word
<1>2. CASE head = <<"t", "e">>
  <2>1. "t" \in Word /\ "e" \in Word
    BY DEF Word
  <2> QED
    BY <2>1, <1>2 DEF SecretBody, Word
<1> QED
  BY <1>1, <1>2 DEF Heads

\* A run is as long as the body characters that are seen to follow.
LEMMA BodyRunAtLeast ==
  ASSUME NEW C, NEW text \in Seq(C), NEW i \in 1 .. Len(text) + 1, NEW n \in Nat,
         i + n - 1 <= Len(text), \A b \in 1 .. n : text[i + b - 1] \in SecretBody
  PROVE  n <= BodyRun(text, i)
<1>1. /\ Len(text) \in Nat /\ BodyRun(text, i) \in Nat
      /\ i + BodyRun(text, i) <= Len(text) => text[i + BodyRun(text, i)] \notin SecretBody
  BY BodyRunFacts
<1>2. PICK r \in Nat : r = BodyRun(text, i)
  BY <1>1
<1>3. ASSUME r < n
      PROVE  FALSE
  <2>1. r + 1 \in 1 .. n /\ i + (r + 1) - 1 = i + r /\ i + r <= Len(text)
    BY <1>1, <1>3
  <2>2. text[i + r] \in SecretBody
    BY <2>1
  <2> QED
    BY <2>1, <2>2, <1>1, <1>2
<1> QED
  BY <1>2, <1>3

\* MatchAt is positive exactly where a match can be read.
LEMMA MatchMeans ==
  ASSUME NEW C, NEW text \in Seq(C), NEW head \in Heads, NEW i \in 1 .. Len(text)
  PROVE  MatchAt(head, text, i) > 0 <=> Hits(head, text, i)
<1>1. /\ Len(text) \in Nat /\ Len(head) \in {1, 2} /\ MinSecret \in Nat \ {0}
      /\ head \in Seq(Word)
  BY HeadFacts, EncodingAssumption
<1>2. PICK b \in Nat : b = i + Len(head)
  BY <1>1
<1>3. CASE ~ (b <= Len(text) + 1)
  BY <1>1, <1>2, <1>3 DEF MatchAt, Hits
<1>4. CASE b <= Len(text) + 1
  <2>1. b \in 1 .. Len(text) + 1
    BY <1>1, <1>2, <1>4
  <2>2. PICK run \in Nat :
          /\ run = BodyRun(text, b) /\ b + run <= Len(text) + 1
          /\ \A j \in b .. b + run - 1 : text[j] \in SecretBody
    BY <2>1, BodyRunFacts
  <2>3. MatchAt(head, text, i) > 0 <=> (SubSeq(text, i, b - 1) = head /\ run >= MinSecret)
    BY <1>1, <1>2, <1>4, <2>2 DEF MatchAt
  <2>4. SubSeq(text, i, b - 1) = head <=> \A h \in 1 .. Len(head) : text[i + h - 1] = head[h]
    <3>1. PICK s \in Seq(C) : s = SubSeq(text, i, b - 1)
      <4>1. SubSeq(text, i, b - 1) \in Seq(C)
        BY <1>1, <1>2, <1>4
      <4> QED
        BY <4>1
    <3>2. Len(s) = Len(head) /\ \A h \in 1 .. Len(head) : s[h] = text[i + h - 1]
      BY <1>1, <1>2, <1>4, <3>1
    <3>3. s = head <=> \A h \in 1 .. Len(head) : s[h] = head[h]
      BY <1>1, <3>2, SeqEqual
    <3> QED
      BY <3>1, <3>2, <3>3
  <2>5. ASSUME run >= MinSecret
        PROVE  /\ b + MinSecret - 1 <= Len(text)
               /\ \A m \in 1 .. MinSecret : text[b + m - 1] \in SecretBody
    BY <2>2, <2>5, <1>1
  <2>6. ASSUME b + MinSecret - 1 <= Len(text),
               \A m \in 1 .. MinSecret : text[b + m - 1] \in SecretBody
        PROVE  run >= MinSecret
    BY <2>1, <2>2, <2>6, <1>1, BodyRunAtLeast
  <2> QED
    BY <2>3, <2>4, <2>5, <2>6, <1>2 DEF Hits
<1> QED
  BY <1>3, <1>4

\* Where the word characters of made come from: each from an equal one of src that
\* is Kept, two neighbours from two neighbours, and the first of all from place i.
Origins(made, src, i, Kept) ==
  {o \in [1 .. Len(made) -> Nat] :
     /\ \A m \in 1 .. Len(made) : made[m] \in Word => o[m] \in Kept /\ src[o[m]] = made[m]
     /\ \A m \in 1 .. Len(made) - 1 :
          made[m] \in Word /\ made[m + 1] \in Word => o[m + 1] = o[m] + 1
     /\ made # <<>> /\ made[1] \in Word => o[1] = i}

\* No word character is in s.
Bare(s) == \A m \in 1 .. Len(s) : s[m] \notin Word

\* Putting a piece in front keeps the origins: it has no word character, or is the one
\* at the place before.
LEMMA Prepending ==
  ASSUME NEW C, NEW src, NEW Kept, NEW made \in Seq(C), NEW block \in Seq(C), block # <<>>,
         NEW i \in Nat, NEW k, NEW o \in Origins(made, src, k, Kept),
         Bare(block) \/ (block = <<src[i]>> /\ i \in Kept /\ k = i + 1)
  PROVE  \E p : p \in Origins(block \o made, src, i, Kept)
<1> DEFINE n == Len(block)
           all == block \o made
           p == [m \in 1 .. n + Len(made) |-> IF m <= n THEN i ELSE o[m - n]]
<1>1. /\ n \in Nat \ {0} /\ Len(made) \in Nat /\ all \in Seq(C) /\ Len(all) = n + Len(made)
      /\ \A m \in 1 .. n : all[m] = block[m]
      /\ \A m \in n + 1 .. n + Len(made) : m - n \in 1 .. Len(made) /\ all[m] = made[m - n]
  OBVIOUS
<1>2. /\ o \in [1 .. Len(made) -> Nat]
      /\ \A m \in 1 .. Len(made) : made[m] \in Word => o[m] \in Kept /\ src[o[m]] = made[m]
      /\ \A m \in 1 .. Len(made) - 1 :
           made[m] \in Word /\ made[m + 1] \in Word => o[m + 1] = o[m] + 1
      /\ made # <<>> /\ made[1] \in Word => o[1] = k
  BY DEF Origins
<1>3. /\ \A m \in 1 .. n : p[m] = i
      /\ \A m \in n + 1 .. n + Len(made) : p[m] = o[m - n] /\ ~ (m <= n)
  BY <1>1
<1>4. p \in [1 .. Len(all) -> Nat]
  <2>1. ASSUME NEW m \in 1 .. n + Len(made), ~ (m <= n)
        PROVE  o[m - n] \in Nat
    <3>1. PICK h \in 1 .. Len(made) : h = m - n
      <4>1. m \in n + 1 .. n + Len(made)
        BY <1>1, <2>1
      <4> QED
        BY <4>1, <1>1
    <3>2. o[h] \in Nat
      BY <1>2
    <3> QED
      BY <3>1, <3>2
  <2>2. \A m \in 1 .. n + Len(made) : (IF m <= n THEN i ELSE o[m - n]) \in Nat
    BY <2>1
  <2> QED
    BY <2>2, <1>1, SMTT(30)
<1>5. block[1] \in Word \/ ~Bare(block) => n = 1 /\ block[1] = src[i] /\ i \in Kept /\ k = i + 1
  BY <1>1 DEF Bare
<1>6. \A m \in 1 .. n : block[m] \in Word => n = 1 /\ m = 1
  BY <1>1, <1>5 DEF Bare
<1> HIDE DEF p, n, all
<1>7. ASSUME NEW m \in 1 .. Len(all), all[m] \in Word
      PROVE  p[m] \in Kept /\ src[p[m]] = all[m]
  <2>1. CASE m \in 1 .. n
    BY <2>1, <1>1, <1>3, <1>5, <1>6, <1>7
  <2>2. CASE m \in n + 1 .. n + Len(made)
    BY <2>2, <1>1, <1>2, <1>3, <1>7
  <2> QED
    BY <2>1, <2>2, <1>1
<1>8. ASSUME NEW m \in 1 .. Len(all) - 1, all[m] \in Word, all[m + 1] \in Word
      PROVE  p[m + 1] = p[m] + 1
  <2>1. CASE m \in 1 .. n
    <3>1. block[m] \in Word /\ p[m] = i
      BY <2>1, <1>1, <1>3, <1>8
    <3>2. n = 1 /\ m = 1
      BY <2>1, <3>1, <1>6
    <3>3. block[1] \in Word
      BY <3>1, <3>2
    <3>4. k = i + 1
      BY <3>3, <1>5
    <3>5. m + 1 \in n + 1 .. n + Len(made) /\ m + 1 - n = 1 /\ made # <<>>
      BY <3>2, <1>1
    <3>6. made[1] \in Word /\ p[m + 1] = o[1]
      BY <3>5, <1>1, <1>3, <1>8
    <3> QED
      BY <3>1, <3>4, <3>5, <3>6, <1>2
  <2>2. CASE m \in n + 1 .. n + Len(made)
    <3>1. /\ m + 1 \in n + 1 .. n + Len(made) /\ m - n \in 1 .. Len(made) - 1
          /\ m + 1 - n = m - n + 1
      BY <2>2, <1>1
    <3>2. all[m] = made[m - n] /\ all[m + 1] = made[m - n + 1]
          /\ p[m] = o[m - n] /\ p[m + 1] = o[m - n + 1]
      BY <2>2, <3>1, <1>1, <1>3
    <3> QED
      BY <3>1, <3>2, <1>2, <1>8
  <2> QED
    BY <2>1, <2>2, <1>1
<1>9. all # <<>> /\ all[1] \in Word => p[1] = i
  <2>1. 1 \in 1 .. n
    BY <1>1
  <2> QED
    BY <2>1, <1>3
<1>10. p \in Origins(all, src, i, Kept)
  BY <1>4, <1>7, <1>8, <1>9 DEF Origins
<1> QED
  BY <1>10 DEF all

\* A text that is put together from the right, a piece for one or more places of
\* src at a time.
Assembles(from, src, Kept, block, next) ==
  /\ Bare(from[Len(src) + 1])
  /\ \A i \in 1 .. Len(src) :
       /\ from[i] = block[i] \o from[next[i]] /\ block[i] # <<>>
       /\ next[i] \in i + 1 .. Len(src) + 1
       /\ Bare(block[i]) \/ (block[i] = <<src[i]>> /\ i \in Kept /\ next[i] = i + 1)

\* A text put together that way has an origin for every word character of it.  This is
\* what a redaction, an escape and a cut have in common.
LEMMA Provenance ==
  ASSUME NEW C, NEW src \in Seq(C), NEW Kept, NEW from, NEW block, NEW next,
         \A i \in 1 .. Len(src) + 1 : from[i] \in Seq(C),
         \A i \in 1 .. Len(src) : block[i] \in Seq(C),
         Assembles(from, src, Kept, block, next)
  PROVE  \E o : o \in Origins(from[1], src, 1, Kept)
<1> DEFINE N == Len(src)
           Known(i) == \E o : o \in Origins(from[i], src, i, Kept)
           G == {n \in 0 .. N : \A i \in N + 1 - n .. N + 1 : Known(i)}
<1>1. N \in Nat
  OBVIOUS
<1>2. Known(N + 1)
  <2>1. PICK made \in Seq(C) : made = from[N + 1]
    BY <1>1
  <2>2. Len(made) \in Nat /\ (made # <<>> => 1 \in 1 .. Len(made))
    OBVIOUS
  <2>3. \A m \in 1 .. Len(made) : made[m] \notin Word
    BY <2>1 DEF Bare, Assembles
  <2>4. [m \in 1 .. Len(made) |-> 0] \in Origins(made, src, N + 1, Kept)
    <3> DEFINE o == [m \in 1 .. Len(made) |-> 0]
    <3>1. o \in [1 .. Len(made) -> Nat]
      OBVIOUS
    <3>2. \A m \in 1 .. Len(made) - 1 : m \in 1 .. Len(made)
      BY <2>2
    <3> HIDE DEF o
    <3>3. o \in Origins(made, src, N + 1, Kept)
      BY <2>2, <2>3, <3>1, <3>2 DEF Origins
    <3> QED
      BY <3>3 DEF o
  <2> QED
    BY <2>1, <2>4
<1>3. ASSUME NEW i \in 1 .. N, \A j \in i + 1 .. N + 1 : Known(j)
      PROVE  Known(i)
  <2>1. /\ from[i] = block[i] \o from[next[i]] /\ block[i] # <<>>
        /\ next[i] \in i + 1 .. N + 1
        /\ Bare(block[i]) \/ (block[i] = <<src[i]>> /\ i \in Kept /\ next[i] = i + 1)
    BY DEF Assembles
  <2>2. PICK k \in i + 1 .. N + 1 : k = next[i]
    BY <2>1
  <2>3. PICK o : o \in Origins(from[k], src, k, Kept)
    BY <1>3
  <2>4. PICK made \in Seq(C) : made = from[k]
    BY <1>1
  <2>5. PICK b \in Seq(C) : b = block[i]
    OBVIOUS
  <2>6. \E p : p \in Origins(b \o made, src, i, Kept)
    <3>1. o \in Origins(made, src, k, Kept) /\ b # <<>> /\ i \in Nat
          /\ (Bare(b) \/ (b = <<src[i]>> /\ i \in Kept /\ k = i + 1))
      BY <2>1, <2>2, <2>3, <2>4, <2>5, <1>1
    <3> QED
      BY <3>1, Prepending
  <2> QED
    BY <2>1, <2>2, <2>4, <2>5, <2>6
<1> HIDE DEF Known
<1>4. 0 \in G
  <2>1. 0 \in 0 .. N /\ \A i \in N + 1 - 0 .. N + 1 : i = N + 1
    BY <1>1
  <2> QED
    BY <2>1, <1>2
<1>5. ASSUME NEW n \in 1 .. N, n - 1 \in G
      PROVE  n \in G
  <2>1. /\ \A i \in N + 1 - (n - 1) .. N + 1 : Known(i)
        /\ n \in 0 .. N /\ N + 1 - n \in 1 .. N /\ N + 1 - n + 1 = N + 1 - (n - 1)
    BY <1>1, <1>5
  <2>2. Known(N + 1 - n)
    BY <2>1, <1>3
  <2>3. \A i \in N + 1 - n .. N + 1 : i = N + 1 - n \/ i \in N + 1 - (n - 1) .. N + 1
    <3> HIDE DEF G, N
    <3> QED
      BY <1>1
  <2> QED
    BY <2>1, <2>2, <2>3
<1>6. \A n \in 0 .. N : n \in G
  <2> HIDE DEF G, N
  <2> QED
    BY <1>1, <1>4, <1>5, Induction
<1>7. Known(1)
  <2>1. N \in 0 .. N /\ 1 \in N + 1 - N .. N + 1
    BY <1>1
  <2> QED
    BY <2>1, <1>6
<1> QED
  BY <1>7 DEF Known

\* What is read in a rewritten text was there to be read: a secret comes from a
\* secret, and a key head from one with as many body characters after it at least.
Reads(made, src, Kept) ==
  /\ \A head \in Heads, i \in 1 .. Len(made) :
       Hits(head, made, i) => \E j \in Kept : Hits(head, src, j)
  /\ \A i \in 1 .. Len(made) : made[i] = "k" =>
       \E j \in Kept : src[j] = "k" /\ BodyRun(made, i + 1) <= BodyRun(src, j + 1)

\* A run of word characters comes from a run of src.
Tracks(o, made, src, Kept, i, n) ==
  \A m \in 0 .. n : o[i + m] = o[i] + m /\ o[i + m] \in Kept /\ src[o[i] + m] = made[i + m]

\* Neighbouring word characters come from neighbours, however many there are.
LEMMA RunKept ==
  ASSUME NEW C, NEW made \in Seq(C), NEW src, NEW Kept, NEW k,
         NEW o \in Origins(made, src, k, Kept),
         NEW i \in 1 .. Len(made), NEW n \in Nat, i + n <= Len(made),
         \A m \in 0 .. n : made[i + m] \in Word
  PROVE  Tracks(o, made, src, Kept, i, n)
<1>1. /\ o \in [1 .. Len(made) -> Nat] /\ Len(made) \in Nat
      /\ \A m \in 1 .. Len(made) : made[m] \in Word => o[m] \in Kept /\ src[o[m]] = made[m]
      /\ \A m \in 1 .. Len(made) - 1 :
           made[m] \in Word /\ made[m + 1] \in Word => o[m + 1] = o[m] + 1
  BY DEF Origins
<1> DEFINE G == {m \in 0 .. n : o[i + m] = o[i] + m}
<1>2. 0 \in G
  <2>1. 0 \in 0 .. n /\ i + 0 = i /\ o[i] \in Nat
    BY <1>1
  <2>2. o[i] + 0 = o[i]
    BY <2>1
  <2> QED
    BY <2>1, <2>2
<1>3. ASSUME NEW m \in 1 .. n, m - 1 \in G
      PROVE  m \in G
  <2>1. /\ m \in 0 .. n /\ m - 1 \in 0 .. n /\ i + (m - 1) \in 1 .. Len(made) - 1
        /\ i + (m - 1) + 1 = i + m /\ o[i + (m - 1)] = o[i] + (m - 1) /\ o[i] \in Nat
    BY <1>1, <1>3
  <2>2. made[i + (m - 1)] \in Word /\ made[i + m] \in Word
    BY <2>1
  <2>3. o[i + m] = o[i + (m - 1)] + 1
    BY <2>1, <2>2, <1>1
  <2>4. o[i] + (m - 1) + 1 = o[i] + m
    BY <2>1
  <2> QED
    BY <2>1, <2>3, <2>4
<1>4. \A m \in 0 .. n : m \in G
  <2> HIDE DEF G
  <2> QED
    BY <1>2, <1>3, Induction
<1>5. ASSUME NEW m \in 0 .. n
      PROVE  o[i + m] = o[i] + m /\ o[i + m] \in Kept /\ src[o[i] + m] = made[i + m]
  <2>1. i + m \in 1 .. Len(made) /\ made[i + m] \in Word
    BY <1>1
  <2>2. o[i + m] = o[i] + m
    BY <1>4
  <2> QED
    BY <2>1, <2>2, <1>1
<1> QED
  BY <1>5 DEF Tracks

\* Where every word character has its origin, what is read was there to be read.
LEMMA ReadsBack ==
  ASSUME NEW C, NEW made \in Seq(C), NEW D, NEW src \in Seq(D),
         NEW Kept, Kept \subseteq 1 .. Len(src), NEW k,
         NEW o \in Origins(made, src, k, Kept)
  PROVE  Reads(made, src, Kept)
<1>0. /\ o \in [1 .. Len(made) -> Nat] /\ Len(made) \in Nat /\ Len(src) \in Nat
      /\ MinSecret \in Nat \ {0} /\ SecretBody \subseteq Word /\ "k" \in Word
  BY EncodingAssumption DEF Origins, SecretBody, Word
<1>1. ASSUME NEW head \in Heads, NEW i \in 1 .. Len(made), Hits(head, made, i)
      PROVE  \E j \in Kept : Hits(head, src, j)
  <2> DEFINE n == Len(head) + MinSecret - 1
  <2>1. Len(head) \in {1, 2} /\ \A h \in 1 .. Len(head) : head[h] \in Word
    BY HeadFacts
  <2>2. /\ i + Len(head) + MinSecret - 1 <= Len(made)
        /\ \A h \in 1 .. Len(head) : made[i + h - 1] = head[h]
        /\ \A b \in 1 .. MinSecret : made[i + Len(head) + b - 1] \in SecretBody
    BY <1>1 DEF Hits
  <2>3. n \in Nat /\ i + n <= Len(made)
    BY <2>1, <2>2, <1>0
  <2>4. ASSUME NEW m \in 0 .. n
        PROVE  made[i + m] \in Word
    <3>1. CASE m < Len(head)
      <4>1. m + 1 \in 1 .. Len(head) /\ i + (m + 1) - 1 = i + m
        BY <3>1, <2>1
      <4> QED
        BY <4>1, <2>1, <2>2
    <3>2. CASE ~ (m < Len(head))
      <4>1. /\ m - Len(head) + 1 \in 1 .. MinSecret
            /\ i + Len(head) + (m - Len(head) + 1) - 1 = i + m
        BY <3>2, <2>1, <1>0
      <4> QED
        BY <4>1, <2>2, <1>0
    <3> QED
      BY <3>1, <3>2
  <2> HIDE DEF n
  <2>5. \A m \in 0 .. n :
           o[i + m] = o[i] + m /\ o[i + m] \in Kept /\ src[o[i] + m] = made[i + m]
    <3>1. Tracks(o, made, src, Kept, i, n)
      BY <2>3, <2>4, RunKept
    <3> QED
      BY <3>1 DEF Tracks
  <2>6. PICK j \in Nat : j = o[i] /\ j \in Kept
    <3>1. 0 \in 0 .. n /\ i + 0 = i
      BY <2>3
    <3> QED
      BY <3>1, <2>5, <1>0
  <2>7. j + n <= Len(src)
    <3>1. n \in 0 .. n
      BY <2>3
    <3>2. j + n \in Kept
      BY <3>1, <2>5, <2>6
    <3> QED
      BY <3>2, <2>3, <1>0
  <2>8. ASSUME NEW h \in 1 .. Len(head)
        PROVE  src[j + h - 1] = head[h]
    <3>1. h - 1 \in 0 .. n /\ j + (h - 1) = j + h - 1 /\ i + (h - 1) = i + h - 1
      BY <2>1, <1>0 DEF n
    <3> QED
      BY <3>1, <2>2, <2>5, <2>6
  <2>9. ASSUME NEW b \in 1 .. MinSecret
        PROVE  src[j + Len(head) + b - 1] \in SecretBody
    <3>1. PICK m \in 0 .. n : m = Len(head) + b - 1
      <4>1. Len(head) + b - 1 \in 0 .. n
        BY <2>1, <1>0 DEF n
      <4> QED
        BY <4>1
    <3>2. j + m = j + Len(head) + b - 1 /\ i + m = i + Len(head) + b - 1
      BY <3>1, <2>1
    <3> QED
      BY <3>2, <2>2, <2>5, <2>6
  <2>10. j + Len(head) + MinSecret - 1 <= Len(src)
    BY <2>7, <2>1, <1>0 DEF n
  <2>11. Hits(head, src, j)
    BY <2>8, <2>9, <2>10 DEF Hits
  <2> QED
    BY <2>6, <2>11
<1>2. ASSUME NEW i \in 1 .. Len(made), made[i] = "k"
      PROVE  \E j \in Kept : src[j] = "k" /\ BodyRun(made, i + 1) <= BodyRun(src, j + 1)
  <2>1. i + 1 \in 1 .. Len(made) + 1
    BY <1>0
  <2>2. PICK n \in Nat : /\ n = BodyRun(made, i + 1) /\ i + 1 + n <= Len(made) + 1
                         /\ \A m \in i + 1 .. i + 1 + n - 1 : made[m] \in SecretBody
    BY <2>1, BodyRunFacts
  <2>3. i + n <= Len(made)
    BY <2>2, <1>0
  <2>4. ASSUME NEW m \in 0 .. n
        PROVE  made[i + m] \in Word
    <3>1. CASE m = 0
      BY <3>1, <1>0, <1>2
    <3>2. CASE m # 0
      <4>1. i + m \in i + 1 .. i + 1 + n - 1
        BY <3>2
      <4> QED
        BY <4>1, <2>2, <1>0
    <3> QED
      BY <3>1, <3>2
  <2>5. \A m \in 0 .. n :
           o[i + m] = o[i] + m /\ o[i + m] \in Kept /\ src[o[i] + m] = made[i + m]
    <3>1. Tracks(o, made, src, Kept, i, n)
      BY <2>3, <2>4, RunKept
    <3> QED
      BY <3>1 DEF Tracks
  <2>6. PICK j \in Nat : j = o[i] /\ j \in Kept /\ src[j] = "k"
    <3>1. 0 \in 0 .. n /\ i + 0 = i
      OBVIOUS
    <3>2. o[i] \in Nat /\ o[i] + 0 = o[i]
      BY <1>0
    <3> QED
      BY <3>1, <3>2, <2>5, <1>2
  <2>7. j + n \in Kept
    <3>1. n \in 0 .. n
      OBVIOUS
    <3> QED
      BY <3>1, <2>5, <2>6
  <2>8. j + 1 \in 1 .. Len(src) + 1 /\ j + 1 + n - 1 <= Len(src)
    BY <2>6, <2>7, <1>0
  <2>9. ASSUME NEW b \in 1 .. n
        PROVE  src[j + 1 + b - 1] \in SecretBody
    <3>1. b \in 0 .. n /\ j + 1 + b - 1 = j + b /\ i + b \in i + 1 .. i + 1 + n - 1
      OBVIOUS
    <3> QED
      BY <3>1, <2>2, <2>5, <2>6
  <2>10. n <= BodyRun(src, j + 1)
    BY <2>8, <2>9, BodyRunAtLeast
  <2> QED
    BY <2>2, <2>6, <2>10
<1> QED
  BY <1>1, <1>2 DEF Reads

\* A pass of redact_text reads back to places where its own pattern did not match.
LEMMA RedactedReads ==
  ASSUME NEW C, "R" \in C, NEW text \in Seq(C), NEW head \in Heads
  PROVE  Reads(Redacted(head, text), text, {j \in 1 .. Len(text) : ~Hits(head, text, j)})
<1> DEFINE Kept == {j \in 1 .. Len(text) : ~Hits(head, text, j)}
           m == [i \in 1 .. Len(text) |-> MatchAt(head, text, i)]
           block == [i \in 1 .. Len(text) |-> IF m[i] > 0 THEN <<"R">> ELSE <<text[i]>>]
           next == [i \in 1 .. Len(text) |-> IF m[i] > 0 THEN i + m[i] ELSE i + 1]
<1>1. head \in Seq(Word) /\ head # <<>> /\ Len(text) \in Nat
  BY HeadFacts
<1>2. PICK from \in [1 .. Len(text) + 1 -> Seq(C)] :
        Redacted(head, text) = from[1] /\ Redacts(head, text, from)
  BY <1>1, RedactedEquation
<1>3. \A i \in 1 .. Len(text) : /\ m[i] = MatchAt(head, text, i)
                                /\ m[i] \in Nat /\ i + m[i] <= Len(text) + 1
  BY <1>1, MatchAdvances
<1>4. ASSUME NEW i \in 1 .. Len(text), ~ (m[i] > 0)
      PROVE  i \in Kept
  BY <1>4, MatchMeans
<1> HIDE DEF m
<1>5. \A i \in 1 .. Len(text) : /\ block[i] = IF m[i] > 0 THEN <<"R">> ELSE <<text[i]>>
                                /\ next[i] = IF m[i] > 0 THEN i + m[i] ELSE i + 1
  OBVIOUS
<1> HIDE DEF block, next
<1>6. Bare(<<"R">>) /\ Bare(<<>>) /\ <<"R">> # <<>>
  BY DEF Bare, Word
<1>7. Assembles(from, text, Kept, block, next)
  <2>1. from[Len(text) + 1] = <<>>
    BY <1>2 DEF Redacts
  <2>2. ASSUME NEW i \in 1 .. Len(text)
        PROVE  /\ from[i] = block[i] \o from[next[i]] /\ block[i] # <<>>
               /\ next[i] \in i + 1 .. Len(text) + 1
               /\ Bare(block[i]) \/ (block[i] = <<text[i]>> /\ i \in Kept /\ next[i] = i + 1)
    <3>1. from[i] = IF m[i] > 0 THEN <<"R">> \o from[i + m[i]] ELSE <<text[i]>> \o from[i + 1]
      BY <1>2, <1>3 DEF Redacts
    <3>2. <<text[i]>> # <<>>
      OBVIOUS
    <3>3. next[i] \in i + 1 .. Len(text) + 1
      <4>1. m[i] \in Nat /\ i + m[i] <= Len(text) + 1
        BY <1>3
      <4>2. CASE m[i] > 0
        <5>1. i + m[i] \in i + 1 .. Len(text) + 1
          BY <4>1, <4>2, <1>1
        <5> QED
          BY <5>1, <4>2, <1>5
      <4>3. CASE ~ (m[i] > 0)
        <5>1. i + 1 \in i + 1 .. Len(text) + 1
          BY <1>1
        <5> QED
          BY <5>1, <4>3, <1>5
      <4> QED
        BY <4>2, <4>3
    <3>4. CASE m[i] > 0
      BY <3>1, <3>3, <3>4, <1>5, <1>6
    <3>5. CASE ~ (m[i] > 0)
      BY <3>1, <3>2, <3>3, <3>5, <1>4, <1>5
    <3> QED
      BY <3>4, <3>5
  <2> HIDE DEF Kept
  <2> QED
    BY <2>1, <2>2, <1>6 DEF Assembles
<1>8. \A i \in 1 .. Len(text) : block[i] \in Seq(C)
  <2>1. \A c \in C : <<c>> \in Seq(C)
    OBVIOUS
  <2>2. \A i \in 1 .. Len(text) : text[i] \in C
    OBVIOUS
  <2> QED
    BY <2>1, <2>2, <1>5
<1>9. \A i \in 1 .. Len(text) + 1 : from[i] \in Seq(C)
  OBVIOUS
<1>10. Kept \subseteq 1 .. Len(text)
  OBVIOUS
<1> HIDE DEF Kept
<1>11. PICK o : o \in Origins(from[1], text, 1, Kept)
  BY <1>7, <1>8, <1>9, Provenance
<1>12. PICK made \in Seq(C) : made = from[1]
  BY <1>1
<1>13. Reads(made, text, Kept)
  BY <1>10, <1>11, <1>12, ReadsBack
<1> QED
  BY <1>2, <1>12, <1>13 DEF Kept

\* json.dumps keeps a word character as it is and adds none.
LEMMA EscapeBlocks ==
  ASSUME NEW c \in Letters
  PROVE  /\ EscapeTable[c] \in Seq(Wire) /\ EscapeTable[c] # <<>>
         /\ Bare(EscapeTable[c]) \/ EscapeTable[c] = <<c>>
<1>1. EscapeTable[c] = Escaped(c) /\ EscapeTable[c] \in Seq(Wire)
  BY Escapes DEF EscapeTable, Tables
<1>2. CASE c \in {"q", "b"}
  <2>1. Escaped(c) = <<"b", c>> /\ c \notin Word /\ "b" \notin Word
    BY <1>2 DEF Escaped, Word
  <2> QED
    BY <2>1, <1>1 DEF Bare
<1>3. CASE c = "l"
  <2>1. Escaped(c) = <<"b", "n">> /\ "b" \notin Word /\ "n" \notin Word
    BY <1>3 DEF Escaped, Word
  <2> QED
    BY <2>1, <1>1 DEF Bare
<1>4. CASE c = "w"
  <2>1. /\ Escaped(c) = <<"b", "u", "0", "0", "0", "0">>
        /\ "b" \notin Word /\ "u" \notin Word /\ "0" \notin Word
    BY <1>4 DEF Escaped, Word
  <2> QED
    BY <2>1, <1>1 DEF Bare
<1>5. CASE c \notin {"q", "b", "l", "w"}
  <2>1. Escaped(c) = <<c>>
    BY <1>5 DEF Escaped
  <2> QED
    BY <2>1, <1>1
<1> QED
  BY <1>2, <1>3, <1>4, <1>5

\* The ends of a text, each a character and the next shorter one.
LEMMA Suffixed ==
  ASSUME NEW C, NEW s \in Seq(C)
  PROVE  /\ \A i \in 1 .. Len(s) + 1 : SubSeq(s, i, Len(s)) \in Seq(C)
         /\ SubSeq(s, Len(s) + 1, Len(s)) = <<>> /\ SubSeq(s, 1, Len(s)) = s
         /\ \A i \in 1 .. Len(s) :
              SubSeq(s, i, Len(s)) = <<s[i]>> \o SubSeq(s, i + 1, Len(s))
<1>1. Len(s) \in Nat
  OBVIOUS
<1>2. ASSUME NEW i \in 1 .. Len(s)
      PROVE  SubSeq(s, i, Len(s)) = <<s[i]>> \o SubSeq(s, i + 1, Len(s))
  <2>1. SubSeq(s, i, Len(s)) \in Seq(C) /\ SubSeq(s, i + 1, Len(s)) \in Seq(C)
        /\ Len(SubSeq(s, i + 1, Len(s))) = Len(s) - i
        /\ Len(SubSeq(s, i, Len(s))) = Len(s) - i + 1
    BY <1>1
  <2> QED
    BY <2>1
<1>3. \A i \in 1 .. Len(s) + 1 : SubSeq(s, i, Len(s)) \in Seq(C)
  BY <1>1
<1>4. SubSeq(s, Len(s) + 1, Len(s)) = <<>> /\ SubSeq(s, 1, Len(s)) = s
  BY <1>1
<1> QED
  BY <1>2, <1>3, <1>4

\* json.dumps makes no secret that the text did not have.
LEMMA EncodedReads ==
  ASSUME NEW text \in Seq(Letters)
  PROVE  Reads(Encoded(text), text, 1 .. Len(text))
<1> DEFINE N == Len(text)
           body == [i \in 1 .. N + 1 |-> Spread(EscapeTable, SubSeq(text, i, N))]
           from == [i \in 1 .. N + 1 |-> body[i] \o <<"q">>]
           block == [i \in 1 .. N |-> EscapeTable[text[i]]]
           next == [i \in 1 .. N |-> i + 1]
<1>1. N \in Nat /\ \A i \in 1 .. N : text[i] \in Letters /\ next[i] = i + 1
  OBVIOUS
<1>2. EscapeTable \in Tables(Letters, Wire) /\ <<"q">> \in Seq(Wire) /\ <<"x">> \in Seq(Wire)
      /\ Bare(<<"q">>) /\ Bare(<<"x">>) /\ <<"q">> # <<>> /\ <<"x">> # <<>>
  BY Escapes DEF Wire, Bare, Word
<1>3. ASSUME NEW i \in 1 .. N + 1
      PROVE  /\ body[i] \in Seq(Wire) /\ from[i] = body[i] \o <<"q">> /\ from[i] \in Seq(Wire)
             /\ body[i] = Spread(EscapeTable, SubSeq(text, i, N))
  <2>1. SubSeq(text, i, N) \in Seq(Letters)
    BY Suffixed
  <2>2. \A s \in Seq(Letters) : Spread(EscapeTable, s) \in Seq(Wire)
    BY <1>2, SpreadTyped
  <2>3. PICK b \in Seq(Wire) : b = body[i]
    BY <2>1, <2>2
  <2>4. b \o <<"q">> \in Seq(Wire)
    BY <1>2, ConcatProperties
  <2> QED
    BY <2>3, <2>4
<1>4. ASSUME NEW i \in 1 .. N
      PROVE  body[i] = block[i] \o body[i + 1]
  <2>1. PICK rest \in Seq(Letters) : rest = SubSeq(text, i + 1, N)
    <3>1. i + 1 \in 1 .. N + 1
      BY <1>1
    <3> QED
      BY <3>1, Suffixed
  <2>2. SubSeq(text, i, N) = <<text[i]>> \o rest
    BY <2>1, Suffixed
  <2>3. PICK c \in Letters : c = text[i]
    BY <1>1
  <2>4. PICK one \in Seq(Letters) : one = <<c>>
    <3>1. <<c>> \in Seq(Letters)
      OBVIOUS
    <3> QED
      BY <3>1
  <2>5. Spread(EscapeTable, one \o rest) = Spread(EscapeTable, one) \o Spread(EscapeTable, rest)
    BY <1>2, SpreadConcat
  <2>6. Spread(EscapeTable, one) = EscapeTable[c]
    BY <2>4, <1>2, SpreadOne
  <2>7. i \in 1 .. N + 1 /\ i + 1 \in 1 .. N + 1
    BY <1>1
  <2> QED
    BY <2>1, <2>2, <2>3, <2>4, <2>5, <2>6, <2>7
<1>5. body[N + 1] = <<>> /\ body[1] = Spread(EscapeTable, text)
  <2>1. 1 \in 1 .. N + 1 /\ N + 1 \in 1 .. N + 1
    BY <1>1
  <2> QED
    BY <2>1, SpreadEmpty, Suffixed
<1>6. \A i \in 1 .. N : block[i] = EscapeTable[text[i]]
  OBVIOUS
<1> HIDE DEF body, from, block, next
<1>7. Assembles(from, text, 1 .. N, block, next)
  <2>1. from[N + 1] = <<>> \o <<"q">> /\ <<>> \o <<"q">> = <<"q">>
    <3>1. N + 1 \in 1 .. N + 1
      BY <1>1
    <3> QED
      BY <3>1, <1>3, <1>5
  <2>2. ASSUME NEW i \in 1 .. N
        PROVE  /\ from[i] = block[i] \o from[next[i]] /\ block[i] # <<>>
               /\ next[i] \in i + 1 .. N + 1
               /\ Bare(block[i]) \/ (block[i] = <<text[i]>> /\ i \in 1 .. N /\ next[i] = i + 1)
    <3>1. i \in 1 .. N + 1 /\ i + 1 \in 1 .. N + 1
      BY <1>1
    <3>2. PICK a \in Seq(Wire) : a = block[i] /\ a # <<>> /\ (Bare(a) \/ a = <<text[i]>>)
      BY <1>1, <1>6, EscapeBlocks
    <3>3. PICK b \in Seq(Wire) : b = body[i + 1]
      BY <3>1, <1>3
    <3>4. Regroups(a, b, <<"q">>)
      BY <1>2, Associative
    <3>5. from[i] = a \o (b \o <<"q">>)
      BY <3>1, <3>2, <3>3, <3>4, <1>3, <1>4 DEF Regroups
    <3>6. next[i] = i + 1 /\ next[i] \in i + 1 .. N + 1
      BY <1>1
    <3> QED
      BY <3>1, <3>2, <3>3, <3>5, <3>6, <1>3
  <2> HIDE DEF N
  <2> QED
    BY <2>1, <2>2, <1>2 DEF N, Assembles
<1>8. /\ Wire \subseteq Letters
      /\ \A i \in 1 .. N + 1 : from[i] \in Seq(Letters)
      /\ \A i \in 1 .. N : block[i] \in Seq(Letters)
  <2>1. \A s \in Seq(Wire) : s \in Seq(Letters)
    BY Escapes
  <2> QED
    BY <2>1, <1>1, <1>3, <1>6, Escapes, EscapeBlocks
<1>9. PICK o : o \in Origins(from[1], text, 1, 1 .. N)
  BY <1>7, <1>8, Provenance
<1>10. PICK first \in Seq(Wire) : first = from[1] /\ first = Spread(EscapeTable, text) \o <<"q">>
  <2>1. 1 \in 1 .. N + 1
    BY <1>1
  <2> QED
    BY <2>1, <1>3, <1>5
<1>11. PICK p : p \in Origins(<<"q">> \o first, text, 1, 1 .. N)
  BY <1>2, <1>9, <1>10, Prepending
<1>12. PICK second \in Seq(Wire) : second = <<"q">> \o first
  BY <1>2, ConcatProperties
<1>13. PICK r : r \in Origins(<<"x">> \o second, text, 1, 1 .. N)
  BY <1>2, <1>11, <1>12, Prepending
<1>14. Encoded(text) = <<"x">> \o second
  <2>1. PICK s \in Seq(Wire) : s = Spread(EscapeTable, text)
    BY <1>2, SpreadTyped
  <2>2. Regroups(<<"q">>, s, <<"q">>)
    BY <1>2, Associative
  <2>3. Dumped(text) = (<<"q">> \o s) \o <<"q">>
    BY <2>1, DumpedFacts
  <2> QED
    BY <2>1, <2>2, <2>3, <1>10, <1>12 DEF Regroups, Encoded
<1>15. PICK made \in Seq(Wire) : made = Encoded(text)
  BY DumpedFacts
<1>16. Reads(made, text, 1 .. N)
  BY <1>13, <1>14, <1>15, ReadsBack
<1> QED
  BY <1>15, <1>16

\* A preview cut off anywhere has no secret that the whole did not have.
LEMMA CutReads ==
  ASSUME NEW C, NEW text \in Seq(C), NEW n \in 1 .. Len(text)
  PROVE  Reads(SubSeq(text, 1, n), text, 1 .. Len(text))
<1>1. PICK cut \in Seq(C) : /\ cut = SubSeq(text, 1, n) /\ Len(cut) = n
                            /\ \A m \in 1 .. n : cut[m] = text[m]
  <2>1. /\ SubSeq(text, 1, n) \in Seq(C) /\ Len(SubSeq(text, 1, n)) = n
        /\ \A m \in 1 .. n : SubSeq(text, 1, n)[m] = text[m]
    OBVIOUS
  <2> QED
    BY <2>1
<1> DEFINE o == [m \in 1 .. n |-> m]
<1>2. /\ Len(text) \in Nat /\ o \in [1 .. n -> Nat]
      /\ \A m \in 1 .. n : o[m] = m /\ m \in 1 .. Len(text)
      /\ (\A m \in 1 .. n - 1 : m + 1 \in 1 .. n /\ m \in 1 .. n) /\ 1 \in 1 .. n
  OBVIOUS
<1> HIDE DEF o
<1>3. o \in Origins(cut, text, 1, 1 .. Len(text))
  BY <1>1, <1>2 DEF Origins
<1>4. Reads(cut, text, 1 .. Len(text))
  BY <1>3, ReadsBack
<1> QED
  BY <1>1, <1>4

\* What holds of a text that may be sent: no secret, and its key heads those of
\* the payload that began none.
Discreet(sent, text) ==
  /\ \A head \in Heads, i \in 1 .. Len(sent) : ~Hits(head, sent, i)
  /\ \A i \in 1 .. Len(sent) : sent[i] = "k" =>
       \E j \in 1 .. Len(text) : /\ text[j] = "k" /\ BodyRun(text, j + 1) < MinSecret
                                 /\ BodyRun(sent, i + 1) <= BodyRun(text, j + 1)

\* Discretion survives everything that reads back.
LEMMA DiscreetReads ==
  ASSUME NEW C, NEW sent \in Seq(C), NEW D, NEW src \in Seq(D), NEW E, NEW text \in Seq(E),
         Discreet(src, text), Reads(sent, src, 1 .. Len(src))
  PROVE  Discreet(sent, text)
<1>1. ASSUME NEW head \in Heads, NEW i \in 1 .. Len(sent)
      PROVE  ~Hits(head, sent, i)
  BY DEF Discreet, Reads
<1>2. ASSUME NEW i \in 1 .. Len(sent), sent[i] = "k"
      PROVE  \E j \in 1 .. Len(text) : /\ text[j] = "k" /\ BodyRun(text, j + 1) < MinSecret
                                       /\ BodyRun(sent, i + 1) <= BodyRun(text, j + 1)
  <2>1. PICK h \in 1 .. Len(src) : src[h] = "k" /\ BodyRun(sent, i + 1) <= BodyRun(src, h + 1)
    BY <1>2 DEF Reads
  <2>2. PICK j \in 1 .. Len(text) : /\ text[j] = "k" /\ BodyRun(text, j + 1) < MinSecret
                                    /\ BodyRun(src, h + 1) <= BodyRun(text, j + 1)
    BY <2>1 DEF Discreet
  <2>3. BodyRun(sent, i + 1) \in Nat /\ BodyRun(src, h + 1) \in Nat /\ BodyRun(text, j + 1) \in Nat
    <3>1. /\ i + 1 \in 1 .. Len(sent) + 1 /\ h + 1 \in 1 .. Len(src) + 1
          /\ j + 1 \in 1 .. Len(text) + 1
      OBVIOUS
    <3>2. \A m \in 1 .. Len(sent) + 1 : BodyRun(sent, m) \in Nat
      BY BodyRunFacts
    <3>3. \A m \in 1 .. Len(src) + 1 : BodyRun(src, m) \in Nat
      BY BodyRunFacts
    <3>4. \A m \in 1 .. Len(text) + 1 : BodyRun(text, m) \in Nat
      BY BodyRunFacts
    <3> QED
      BY <3>1, <3>2, <3>3, <3>4
  <2>4. BodyRun(sent, i + 1) <= BodyRun(text, j + 1)
    BY <2>1, <2>2, <2>3
  <2> QED
    BY <2>2, <2>4
<1> QED
  BY <1>1, <1>2 DEF Discreet

\* Two passes leave a discreet text: the second cannot bring back a match of the first
\* pattern, since a redaction puts no word character beside another.
LEMMA RedactionDiscreet ==
  ASSUME NEW text \in Seq(Typed)
  PROVE  Discreet(Twice(text), text)
<1>1. PICK once \in Seq(Letters) : once = Once(text)
  BY PassesTyped
<1>2. PICK twice \in Seq(Letters) : twice = Twice(text)
  BY PassesTyped
<1>3. /\ "R" \in Letters /\ text \in Seq(Letters)
      /\ <<"k">> \in Heads /\ <<"t", "e">> \in Heads
      /\ \A head \in Heads : head = <<"k">> \/ head = <<"t", "e">>
  BY PassesTyped DEF Letters, Wire, Heads
<1>4. Reads(once, text, {j \in 1 .. Len(text) : ~Hits(<<"k">>, text, j)})
  <2>1. \A head \in Heads :
          Reads(Redacted(head, text), text, {j \in 1 .. Len(text) : ~Hits(head, text, j)})
    BY <1>3, RedactedReads
  <2> QED
    BY <2>1, <1>1, <1>3 DEF Once
<1>5. Reads(twice, once, {j \in 1 .. Len(once) : ~Hits(<<"t", "e">>, once, j)})
  <2>1. \A head \in Heads :
          Reads(Redacted(head, once), once, {j \in 1 .. Len(once) : ~Hits(head, once, j)})
    BY <1>3, RedactedReads
  <2> QED
    BY <2>1, <1>1, <1>2, <1>3 DEF Twice
<1>6. ASSUME NEW i \in 1 .. Len(twice)
      PROVE  ~Hits(<<"k">>, twice, i) /\ ~Hits(<<"t", "e">>, twice, i)
  <2>1. ~Hits(<<"t", "e">>, twice, i)
    BY <1>3, <1>5 DEF Reads
  <2>2. \A j \in 1 .. Len(once) : ~Hits(<<"k">>, once, j)
    BY <1>3, <1>4 DEF Reads
  <2>3. ~Hits(<<"k">>, twice, i)
    BY <2>2, <1>3, <1>5 DEF Reads
  <2> QED
    BY <2>1, <2>3
<1>7. ASSUME NEW h \in 1 .. Len(once), once[h] = "k"
      PROVE  \E j \in 1 .. Len(text) : /\ text[j] = "k" /\ BodyRun(text, j + 1) < MinSecret
                                       /\ BodyRun(once, h + 1) <= BodyRun(text, j + 1)
  <2>1. PICK j \in 1 .. Len(text) : /\ ~Hits(<<"k">>, text, j) /\ text[j] = "k"
                                    /\ BodyRun(once, h + 1) <= BodyRun(text, j + 1)
    BY <1>4, <1>7 DEF Reads
  <2>2. PICK n \in Nat : /\ n = BodyRun(text, j + 1) /\ j + 1 + n <= Len(text) + 1
                         /\ \A m \in j + 1 .. j + 1 + n - 1 : text[m] \in SecretBody
    <3>1. j + 1 \in 1 .. Len(text) + 1
      BY <1>3
    <3> QED
      BY <3>1, <1>3, BodyRunFacts
  <2>3. ASSUME ~ (n < MinSecret)
        PROVE  Hits(<<"k">>, text, j)
    <3>1. MinSecret \in Nat /\ Len(<<"k">>) = 1 /\ <<"k">>[1] = "k" /\ Len(text) \in Nat
      BY <1>3, EncodingAssumption
    <3>2. j + 1 + MinSecret - 1 <= Len(text)
      BY <2>2, <2>3, <3>1
    <3>3. ASSUME NEW b \in 1 .. MinSecret
          PROVE  text[j + 1 + b - 1] \in SecretBody
      <4>1. j + 1 + b - 1 \in j + 1 .. j + 1 + n - 1
        BY <2>3, <3>1
      <4> QED
        BY <4>1, <2>2
    <3>4. \A b \in 1 .. 1 : b = 1 /\ j + b - 1 = j
      OBVIOUS
    <3> QED
      BY <2>1, <3>1, <3>2, <3>3, <3>4 DEF Hits
  <2> QED
    BY <2>1, <2>2, <2>3
<1>8. ASSUME NEW i \in 1 .. Len(twice), twice[i] = "k"
      PROVE  \E j \in 1 .. Len(text) : /\ text[j] = "k" /\ BodyRun(text, j + 1) < MinSecret
                                       /\ BodyRun(twice, i + 1) <= BodyRun(text, j + 1)
  <2>1. PICK h \in 1 .. Len(once) : once[h] = "k" /\ BodyRun(twice, i + 1) <= BodyRun(once, h + 1)
    BY <1>5, <1>8 DEF Reads
  <2>2. PICK j \in 1 .. Len(text) : /\ text[j] = "k" /\ BodyRun(text, j + 1) < MinSecret
                                    /\ BodyRun(once, h + 1) <= BodyRun(text, j + 1)
    BY <2>1, <1>7
  <2>3. /\ BodyRun(twice, i + 1) \in Nat /\ BodyRun(once, h + 1) \in Nat
        /\ BodyRun(text, j + 1) \in Nat
    <3>1. /\ i + 1 \in 1 .. Len(twice) + 1 /\ h + 1 \in 1 .. Len(once) + 1
          /\ j + 1 \in 1 .. Len(text) + 1
      OBVIOUS
    <3>2. \A s \in Seq(Letters) : \A m \in 1 .. Len(s) + 1 : BodyRun(s, m) \in Nat
      BY BodyRunFacts
    <3> QED
      BY <3>1, <3>2, <1>3
  <2>4. BodyRun(twice, i + 1) <= BodyRun(text, j + 1)
    BY <2>1, <2>2, <2>3
  <2> QED
    BY <2>2, <2>4
<1> QED
  BY <1>2, <1>3, <1>6, <1>8 DEF Discreet

\* What holds after make_envelope, which redacts before it cuts.
LEMMA SecretStates == CodecInv => NoSecretEchoed
<1> SUFFICES ASSUME CodecInv, out.result = "envelope" PROVE NoSecretEchoed
  BY DEF NoSecretEchoed
<1>1. /\ call.text \in Seq(Typed)
      /\ out = [result |-> "envelope", envelope |-> make_envelope(call.text),
                frame |-> format_sse(make_envelope(call.text))]
  BY DEF CodecInv, CallsTyped, ResultOfCall, NoResult, Typed, str_replace
<1>2. PICK r \in Seq(Letters) : /\ make_envelope(call.text) = cap_payload(r)
                                /\ Discreet(r, call.text)
  BY <1>1, TwoPasses, PassesTyped, RedactionDiscreet DEF make_envelope
<1>3. PICK sent \in Seq(Letters) : sent = out.envelope.text /\ Discreet(sent, call.text)
  <2>1. CASE cap_payload(r) = [truncated |-> FALSE, text |-> r]
    BY <2>1, <1>1, <1>2
  <2>2. CASE /\ cap_payload(r) = [truncated |-> TRUE,
                  text |-> SubSeq(Encoded(r), 1, MaxPayloadBytes - PreviewSlack)]
             /\ SubSeq(Encoded(r), 1, MaxPayloadBytes - PreviewSlack) \in Seq(Wire)
             /\ MaxPayloadBytes - PreviewSlack \in 1 .. Len(Encoded(r))
    <3>1. PICK e \in Seq(Wire) : e = Encoded(r)
      BY DumpedFacts
    <3>2. PICK n \in 1 .. Len(e) : n = MaxPayloadBytes - PreviewSlack
      BY <2>2, <3>1
    <3>3. PICK cut \in Seq(Wire) : cut = SubSeq(e, 1, n)
      BY <2>2, <3>1, <3>2
    <3>4. Discreet(e, call.text)
      BY <3>1, <1>1, <1>2, EncodedReads, DiscreetReads
    <3>5. Discreet(cut, call.text)
      BY <3>3, <3>4, <1>1, CutReads, DiscreetReads
    <3>6. cut \in Seq(Letters) /\ cut = out.envelope.text
      BY <2>2, <3>1, <3>2, <3>3, <1>1, <1>2, Escapes
    <3> QED
      BY <3>5, <3>6
  <2> QED
    BY <2>1, <2>2, CapFacts
<1>4. DOMAIN sent = 1 .. Len(sent) /\ DOMAIN call.text = 1 .. Len(call.text)
  BY <1>1
<1>5. /\ DOMAIN SecretPatterns = {1, 2} /\ SecretPatterns[1] \in Heads
      /\ SecretPatterns[2] \in Heads
  BY DEF SecretPatterns, Heads
<1>6. ASSUME NEW p \in DOMAIN SecretPatterns, NEW i \in DOMAIN sent
      PROVE  MatchAt(SecretPatterns[p], sent, i) = 0
  <2>1. PICK head \in Heads : head = SecretPatterns[p]
    BY <1>5
  <2>2. i \in 1 .. Len(sent) /\ ~Hits(head, sent, i)
    BY <1>3, <1>4 DEF Discreet
  <2>3. ~ (MatchAt(head, sent, i) > 0) /\ MatchAt(head, sent, i) \in Nat
    BY <2>2, MatchMeans, MatchAdvances, HeadFacts
  <2> QED
    BY <2>1, <2>3
<1>7. ASSUME NEW i \in DOMAIN sent, sent[i] = "k"
      PROVE  \E j \in DOMAIN call.text :
               /\ call.text[j] = "k"
               /\ BodyRun(call.text, j + 1) < MinSecret
               /\ BodyRun(sent, i + 1) <= BodyRun(call.text, j + 1)
  BY <1>3, <1>4, <1>7 DEF Discreet
<1> QED
  BY <1>3, <1>6, <1>7 DEF NoSecretEchoed

\* No secret is echoed, for payloads of any length: not by the redacted text, not by its
\* cut preview, and a key head that is left had too short a body in the payload itself.
THEOREM NoSecretLeaves == CodecSpec => []NoSecretEchoed
BY CodecInvariance, SecretStates, PTL

-----------------------------------------------------------------------------
(* _truncate_diagnosis: the lines *)

\* A recursion over 0 .. N that makes a step at each place.
Iterates(f, N, v, step) == f[0] = v /\ \A i \in 1 .. N : f[i] = step[i][f[i - 1]]

\* A recursion that starts at 0, the same seen from the other end: splitlines and redact_text.
LEMMA Iteration ==
  ASSUME NEW N \in Nat, NEW V, NEW v \in V, NEW step \in Steps(N, V)
  PROVE  \E f \in [0 .. N -> V] : Iterates(f, N, v, step)
<1> DEFINE next == [i \in 1 .. N |-> i + 1]
           back == [i \in 1 .. N |-> step[N + 1 - i]]
<1>1. Advances(next, N) /\ \A i \in 1 .. N : next[i] = i + 1
  BY DEF Advances
<1>2. back \in Steps(N, V) /\ \A i \in 1 .. N : N + 1 - i \in 1 .. N /\ back[i] = step[N + 1 - i]
  BY DEF Steps
<1> HIDE DEF next, back
<1>3. PICK g \in [1 .. N + 1 -> V] : Unrolls(g, N, v, next, back)
  BY <1>1, <1>2, Recursion
<1> DEFINE f == [i \in 0 .. N |-> g[N + 1 - i]]
<1>4. f \in [0 .. N -> V] /\ f[0] = v
  <2>1. \A i \in 0 .. N : N + 1 - i \in 1 .. N + 1
    OBVIOUS
  <2> QED
    BY <2>1, <1>3 DEF Unrolls
<1>5. ASSUME NEW i \in 1 .. N
      PROVE  f[i] = step[i][f[i - 1]]
  <2>1. PICK k \in 1 .. N : k = N + 1 - i
    BY <1>2
  <2>2. N + 1 - k = i /\ k + 1 = N + 1 - (i - 1) /\ i \in 0 .. N /\ i - 1 \in 0 .. N
    BY <2>1
  <2>3. g[k] = back[k][g[next[k]]] /\ next[k] = k + 1
    BY <1>1, <1>3 DEF Unrolls
  <2>4. g[k] = step[i][g[k + 1]]
    BY <2>2, <2>3, <1>2
  <2>5. f[i] = g[k] /\ f[i - 1] = g[k + 1]
    BY <2>1, <2>2
  <2> QED
    BY <2>4, <2>5
<1> HIDE DEF f
<1>6. Iterates(f, N, v, step)
  BY <1>4, <1>5 DEF Iterates
<1> QED
  BY <1>4, <1>6

\* The characters of a line, of a diagnosis and of its encoding.
Inline == {"a", "w"}
Shown == {"a", "w", "l"}

\* splitlines leaves neither line feeds nor carriage returns within a line.
LEMMA LinesTyped ==
  ASSUME NEW text \in Seq({"a", "w", "l", "c"})
  PROVE  splitlines(text) \in Seq(Seq(Inline))
<1> DEFINE N == Len(text)
           All == {"a", "w", "l", "c"}
           Acc == [lines : Seq(Seq(Inline)), line : Seq(Inline), last : All]
           Step(acc, c) ==
             CASE c = "l" /\ acc.last = "c" -> [acc EXCEPT !.last = c]
               [] c \in {"l", "c"} /\ ~(c = "l" /\ acc.last = "c") ->
                    [lines |-> Append(acc.lines, acc.line), line |-> <<>>, last |-> c]
               [] OTHER -> [acc EXCEPT !.line = Append(@, c), !.last = c]
           start == [lines |-> <<>>, line |-> <<>>, last |-> "a"]
           step == [i \in 1 .. N |-> [acc \in Acc |-> Step(acc, text[i])]]
           Def(g) == [i \in 0 .. Len(text) |->
                        IF i = 0 THEN [lines |-> <<>>, line |-> <<>>, last |-> "a"]
                        ELSE Step(g[i - 1], text[i])]
           after == CHOOSE g : g = Def(g)
<1>1. N \in Nat /\ N = Len(text) /\ \A i \in 1 .. N : text[i] \in All
  OBVIOUS
<1>2. start \in Acc
  OBVIOUS
<1>3. ASSUME NEW acc \in Acc, NEW c \in All
      PROVE  Step(acc, c) \in Acc
  <2>0. acc.lines \in Seq(Seq(Inline)) /\ acc.line \in Seq(Inline) /\ acc.last \in All
    OBVIOUS
  <2>1. CASE c = "l" /\ acc.last = "c"
    <3>1. Step(acc, c) = [acc EXCEPT !.last = c]
      BY <2>1
    <3> HIDE DEF Step
    <3> QED
      BY <3>1
  <2>2. CASE c \in {"l", "c"} /\ ~(c = "l" /\ acc.last = "c")
    <3>1. Step(acc, c) = [lines |-> Append(acc.lines, acc.line), line |-> <<>>, last |-> c]
      BY <2>2
    <3>2. Append(acc.lines, acc.line) \in Seq(Seq(Inline)) /\ <<>> \in Seq(Inline)
      BY <2>0
    <3> HIDE DEF Step
    <3> QED
      BY <3>1, <3>2
  <2>3. CASE c \notin {"l", "c"}
    <3>1. Step(acc, c) = [acc EXCEPT !.line = Append(@, c), !.last = c]
      BY <2>3
    <3>2. Append(acc.line, c) \in Seq(Inline)
      <4>1. c \in Inline
        BY <2>3 DEF Inline
      <4> QED
        BY <4>1, <2>0
    <3>3. Step(acc, c) = [lines |-> acc.lines, line |-> Append(acc.line, c), last |-> c]
      BY <3>1
    <3> HIDE DEF Step
    <3> QED
      BY <3>2, <3>3, <2>0
  <2> QED
    BY <2>1, <2>2, <2>3
<1> HIDE DEF Step
<1>4. step \in Steps(N, Acc) /\ \A i \in 1 .. N, acc \in Acc : step[i][acc] = Step(acc, text[i])
  <2> HIDE DEF Acc, N, All
  <2> QED
    BY <1>1, <1>3 DEF Steps
<1>5. \E f \in [0 .. N -> Acc] : f[0] = start /\ \A i \in 1 .. N : f[i] = Step(f[i - 1], text[i])
  <2> HIDE DEF Acc, step, start, N
  <2>1. PICK f \in [0 .. N -> Acc] : Iterates(f, N, start, step)
    BY <1>1, <1>2, <1>4, Iteration
  <2>2. f[0] = start
    BY <2>1 DEF Iterates
  <2>3. ASSUME NEW i \in 1 .. N
        PROVE  f[i] = Step(f[i - 1], text[i])
    <3>1. i - 1 \in 0 .. N
      BY <1>1
    <3>2. PICK acc \in Acc : acc = f[i - 1]
      BY <3>1
    <3>3. f[i] = step[i][acc]
      BY <2>1, <3>2 DEF Iterates
    <3> QED
      BY <3>2, <3>3, <1>4
  <2> QED
    BY <2>2, <2>3
<1>6. \E g : g = Def(g)
  <2> HIDE DEF Acc
  <2>1. PICK f \in [0 .. N -> Acc] :
          f[0] = start /\ \A i \in 1 .. N : f[i] = Step(f[i - 1], text[i])
    BY <1>5
  <2>2. \A i \in 0 .. N : i = 0 \/ i \in 1 .. N
    BY <1>1
  <2>3. \A i \in 0 .. N : f[i] = IF i = 0 THEN start ELSE Step(f[i - 1], text[i])
    <3> HIDE DEF start, N
    <3> QED
      BY <2>1, <2>2
  <2>4. f = Def(f)
    BY <2>3
  <2> QED
    BY <2>4
<1>7. after = Def(after)
  <2> HIDE DEF Def
  <2> QED
    BY <1>6
<1>8. \A i \in 0 .. N : i \in {n \in 0 .. N : after[n] \in Acc}
  <2> HIDE DEF Acc, after
  <2> DEFINE G == {n \in 0 .. N : after[n] \in Acc}
  <2>1. 0 \in G
    <3>1. 0 \in 0 .. N
      BY <1>1
    <3>2. after[0] = start
      BY <3>1, <1>7
    <3> QED
      BY <3>1, <3>2, <1>2
  <2>2. ASSUME NEW n \in 1 .. N, n - 1 \in G
        PROVE  n \in G
    <3>1. n \in 0 .. N /\ n # 0 /\ after[n - 1] \in Acc /\ text[n] \in All
      BY <1>1, <2>2
    <3>2. after[n] = Step(after[n - 1], text[n])
      BY <3>1, <1>7
    <3> QED
      BY <3>1, <3>2, <1>3
  <2>3. \A i \in 0 .. N : i \in G
    <3> HIDE DEF G, N
    <3> QED
      BY <2>1, <2>2, <1>1, Induction
  <2> QED
    BY <2>3
<1>9. splitlines(text) = IF after[N].line = <<>> THEN after[N].lines
                         ELSE Append(after[N].lines, after[N].line)
  BY DEF splitlines, Step
<1>10. after[N].lines \in Seq(Seq(Inline)) /\ after[N].line \in Seq(Inline)
  <2> HIDE DEF after
  <2>1. N \in 0 .. N
    BY <1>1
  <2>2. after[N] \in Acc
    BY <2>1, <1>8
  <2> QED
    BY <2>2
<1>11. Append(after[N].lines, after[N].line) \in Seq(Seq(Inline))
  <2> HIDE DEF after
  <2> QED
    BY <1>10
<1> HIDE DEF after
<1> QED
  BY <1>9, <1>10, <1>11

\* The line feeds of a text, counted as DiagnosisIsLongestTail does.
Newlines(s) == Cardinality({i \in DOMAIN s : s[i] = "l"})

\* The same count as the length of a spread text.
FeedTable == [c \in Shown |-> IF c = "l" THEN <<"l">> ELSE <<>>]

\* The table gives texts.
LEMMA FeedTyped ==
  FeedTable \in Tables(Shown, Shown)
<1>1. "l" \in Shown /\ <<>> \in Seq(Shown)
  BY DEF Shown
<1>2. <<"l">> \in Seq(Shown)
  BY <1>1
<1> QED
  BY <1>1, <1>2 DEF FeedTable, Tables

\* Both counts agree.
LEMMA NewlinesSpread ==
  \A s \in Seq(Shown) : Newlines(s) = Len(Spread(FeedTable, s))
<1> DEFINE Feeds(s) == {i \in DOMAIN s : s[i] = "l"}
           G == {s \in Seq(Shown) : Newlines(s) = Len(Spread(FeedTable, s))}
<1>1. <<>> \in G
  <2>1. Feeds(<<>>) = {}
    OBVIOUS
  <2>2. Newlines(<<>>) = 0
    BY <2>1, FS_EmptySet DEF Newlines
  <2>3. Len(Spread(FeedTable, <<>>)) = 0
    BY SpreadEmpty
  <2> QED
    BY <2>2, <2>3
<1>2. ASSUME NEW s \in Seq(Shown), NEW c \in Shown, s \in G
      PROVE  s \o <<c>> \in G
  <2> DEFINE t == s \o <<c>>
             rest == Spread(FeedTable, s)
  <2>1. /\ t \in Seq(Shown) /\ Len(s) \in Nat /\ Len(t) = Len(s) + 1 /\ t[Len(s) + 1] = c
        /\ \A i \in 1 .. Len(s) : t[i] = s[i]
        /\ DOMAIN s = 1 .. Len(s) /\ DOMAIN t = 1 .. Len(s) + 1
    OBVIOUS
  <2> HIDE DEF t
  <2>2. IsFiniteSet(Feeds(s)) /\ Len(s) + 1 \notin Feeds(s)
    <3>1. IsFiniteSet(1 .. Len(s)) /\ Feeds(s) \subseteq 1 .. Len(s)
      BY <2>1, FS_Interval
    <3> QED
      BY <3>1, <2>1, FS_Subset
  <2>3. /\ FeedTable[c] = (IF c = "l" THEN <<"l">> ELSE <<>>)
        /\ Spread(FeedTable, t) = rest \o FeedTable[c]
        /\ rest \in Seq(Shown)
    BY FeedTyped, SpreadAppend, SpreadTyped DEF FeedTable, t
  <2>4. Newlines(s) = Len(rest) /\ Newlines(s) = Cardinality(Feeds(s)) /\ Len(rest) \in Nat
    BY <1>2, <2>3 DEF Newlines
  <2> HIDE DEF rest
  <2>5. CASE c = "l"
    <3>1. Feeds(t) = Feeds(s) \cup {Len(s) + 1}
      BY <2>1, <2>5
    <3> HIDE DEF Feeds
    <3>2. Cardinality(Feeds(t)) = Cardinality(Feeds(s)) + 1
      BY <3>1, <2>2, FS_AddElement
    <3>3. Len(rest \o <<"l">>) = Len(rest) + 1
      BY <2>3
    <3>4. Newlines(t) = Cardinality(Feeds(t))
      BY DEF Newlines, Feeds
    <3> QED
      BY <3>2, <3>3, <3>4, <2>1, <2>3, <2>4, <2>5 DEF t
  <2>6. CASE c # "l"
    <3>1. Feeds(t) = Feeds(s)
      BY <2>1, <2>6
    <3>2. rest \o <<>> = rest
      BY <2>3
    <3>3. Newlines(t) = Cardinality(Feeds(t))
      BY DEF Newlines
    <3> HIDE DEF Feeds
    <3> QED
      BY <3>1, <3>2, <3>3, <2>1, <2>3, <2>4, <2>6 DEF t
  <2> QED
    BY <2>5, <2>6
<1>3. \A s \in Seq(Shown) : s \in G
  <2> HIDE DEF G
  <2> QED
    BY <1>1, <1>2, SeqInduction
<1> QED
  BY <1>3

\* The line feeds of two texts put together add up.
LEMMA NewlinesConcat ==
  ASSUME NEW s \in Seq(Shown), NEW t \in Seq(Shown)
  PROVE  /\ Newlines(s) \in Nat /\ Newlines(t) \in Nat
         /\ Newlines(s \o t) = Newlines(s) + Newlines(t)
<1>1. PICK a \in Seq(Shown) : a = Spread(FeedTable, s)
  BY FeedTyped, SpreadTyped
<1>2. PICK b \in Seq(Shown) : b = Spread(FeedTable, t)
  BY FeedTyped, SpreadTyped
<1>3. Spread(FeedTable, s \o t) = a \o b
  <2>1. Spread(FeedTable, s \o t) = Spread(FeedTable, s) \o Spread(FeedTable, t)
    BY FeedTyped, SpreadConcat
  <2> QED
    BY <2>1, <1>1, <1>2
<1>4. PICK u \in Seq(Shown) : u = s \o t
  BY ConcatProperties
<1>5. Newlines(s) = Len(a) /\ Newlines(t) = Len(b) /\ Newlines(u) = Len(a \o b)
  BY <1>1, <1>2, <1>3, <1>4, NewlinesSpread
<1>6. Len(a \o b) = Len(a) + Len(b) /\ Len(a) \in Nat /\ Len(b) \in Nat
  OBVIOUS
<1> QED
  BY <1>4, <1>5, <1>6

\* A line has no line feed.
LEMMA NewlinesKnown ==
  /\ Newlines(<<"l">>) = 1 /\ <<"l">> \in Seq(Shown)
  /\ \A s \in Seq(Inline) : Newlines(s) = 0 /\ s \in Seq(Shown)
<1>1. {i \in DOMAIN <<"l">> : <<"l">>[i] = "l"} = {1}
  OBVIOUS
<1>2. Newlines(<<"l">>) = 1
  BY <1>1, FS_Singleton DEF Newlines
<1>3. Inline \subseteq Shown /\ "l" \notin Inline /\ "l" \in Shown
  BY DEF Inline, Shown
<1>4. ASSUME NEW s \in Seq(Inline)
      PROVE  Newlines(s) = 0 /\ s \in Seq(Shown)
  <2>1. {i \in DOMAIN s : s[i] = "l"} = {}
    BY <1>3
  <2>2. Newlines(s) = 0
    BY <2>1, FS_EmptySet DEF Newlines
  <2>3. s \in Seq(Shown)
    BY <1>3
  <2> QED
    BY <2>2, <2>3
<1>5. <<"l">> \in Seq(Shown)
  BY <1>3
<1> QED
  BY <1>2, <1>4, <1>5

\* The lines with a line feed in front of every one, also the first.
HeadTable == [line \in Seq(Inline) |-> <<"l">> \o line]
Headed(lines) == Spread(HeadTable, lines)

\* A line with a line feed in front of it is a text.
LEMMA HeadTyped ==
  HeadTable \in Tables(Seq(Inline), Shown)
<1>1. ASSUME NEW line \in Seq(Inline)
      PROVE  <<"l">> \o line \in Seq(Shown)
  BY NewlinesKnown, ConcatProperties
<1> QED
  BY <1>1 DEF HeadTable, Tables

\* Headed lines have as many line feeds as there are lines.
LEMMA HeadedNewlines ==
  \A lines \in Seq(Seq(Inline)) : Newlines(Headed(lines)) = Len(lines)
<1> DEFINE G == {lines \in Seq(Seq(Inline)) : Newlines(Headed(lines)) = Len(lines)}
<1>1. <<>> \in G
  <2>1. Headed(<<>>) = <<>> /\ <<>> \in Seq(Inline) /\ <<>> \in Seq(Seq(Inline)) /\ Len(<<>>) = 0
    BY SpreadEmpty DEF Headed
  <2>2. Newlines(<<>>) = 0
    BY <2>1, NewlinesKnown
  <2> QED
    BY <2>1, <2>2
<1>2. ASSUME NEW lines \in Seq(Seq(Inline)), NEW x \in Seq(Inline), lines \in G
      PROVE  lines \o <<x>> \in G
  <2>1. /\ lines \o <<x>> \in Seq(Seq(Inline)) /\ Len(lines \o <<x>>) = Len(lines) + 1
        /\ Len(lines) \in Nat
    OBVIOUS
  <2>2. Headed(lines \o <<x>>) = Headed(lines) \o HeadTable[x] /\ HeadTable[x] = <<"l">> \o x
        /\ Headed(lines) \in Seq(Shown) /\ HeadTable[x] \in Seq(Shown)
    <3>1. Headed(lines \o <<x>>) = Headed(lines) \o HeadTable[x]
      BY HeadTyped, SpreadAppend DEF Headed
    <3>2. Headed(lines) \in Seq(Shown)
      BY HeadTyped, SpreadTyped DEF Headed
    <3>3. HeadTable[x] = <<"l">> \o x
      BY DEF HeadTable
    <3>4. HeadTable[x] \in Seq(Shown)
      BY HeadTyped DEF Tables
    <3> QED
      BY <3>1, <3>2, <3>3, <3>4
  <2>3. PICK a \in Seq(Shown) : a = Headed(lines)
    BY <2>2
  <2>4. PICK b \in Seq(Shown) : b = HeadTable[x]
    BY <2>2
  <2>5. Newlines(a \o b) = Newlines(a) + Newlines(b)
    BY NewlinesConcat
  <2>6. Newlines(b) = 1
    <3>1. PICK f \in Seq(Shown) : f = <<"l">> /\ Newlines(f) = 1
      BY NewlinesKnown
    <3>2. x \in Seq(Shown) /\ Newlines(x) = 0
      BY NewlinesKnown
    <3>3. Newlines(f \o x) = Newlines(f) + Newlines(x)
      BY <3>2, NewlinesConcat
    <3> QED
      BY <3>1, <3>2, <3>3, <2>2, <2>4
  <2>7. Newlines(a) = Len(lines)
    BY <2>3, <1>2
  <2> QED
    BY <2>1, <2>2, <2>3, <2>4, <2>5, <2>6, <2>7
<1>3. \A lines \in Seq(Seq(Inline)) : lines \in G
  <2> HIDE DEF G
  <2> QED
    BY <1>1, <1>2, SeqInduction
<1> QED
  BY <1>3

\* A sequence with one element put in front.
LEMMA InFront ==
  ASSUME NEW D, NEW x \in D, NEW rest \in Seq(D)
  PROVE  /\ <<x>> \in Seq(D) /\ <<x>> \o rest \in Seq(D)
         /\ Len(<<x>> \o rest) = Len(rest) + 1 /\ (<<x>> \o rest)[1] = x
         /\ \A i \in 2 .. Len(rest) + 1 : (<<x>> \o rest)[i] = rest[i - 1]
OBVIOUS

\* "\n".join with one line feed more in front of it is the headed lines.
LEMMA JoinedHeaded ==
  ASSUME NEW lines \in Seq(Seq(Inline)), lines # <<>>
  PROVE  /\ Joined(lines) \in Seq(Shown)
         /\ <<"l">> \o Joined(lines) = Headed(lines)
<1> DEFINE pieces == [i \in DOMAIN lines |-> IF i = 1 THEN lines[i] ELSE <<"l">> \o lines[i]]
           heads == [i \in DOMAIN lines |-> HeadTable[lines[i]]]
           rest == [i \in 1 .. Len(lines) - 1 |-> HeadTable[lines[i + 1]]]
<1>1. /\ Len(lines) \in Nat \ {0} /\ DOMAIN lines = 1 .. Len(lines) /\ lines[1] \in Seq(Inline)
      /\ \A i \in 1 .. Len(lines) : lines[i] \in Seq(Inline)
  OBVIOUS
<1>2. \A line \in Seq(Inline) : HeadTable[line] = <<"l">> \o line /\ HeadTable[line] \in Seq(Shown)
  BY HeadTyped DEF HeadTable, Tables
<1>3. PICK first \in Seq(Shown) : first = lines[1]
  BY <1>1, NewlinesKnown
<1>4. PICK head \in Seq(Shown) : head = HeadTable[lines[1]] /\ head = <<"l">> \o first
  BY <1>1, <1>2, <1>3
<1>5. rest \in Seq(Seq(Shown)) /\ Len(rest) = Len(lines) - 1
  <2>1. \A i \in 1 .. Len(lines) - 1 : HeadTable[lines[i + 1]] \in Seq(Shown)
    BY <1>1, <1>2
  <2>2. Len(lines) - 1 \in Nat
    BY <1>1
  <2> QED
    BY <2>1, <2>2
<1>6. /\ <<first>> \in Seq(Seq(Shown)) /\ <<head>> \in Seq(Seq(Shown))
      /\ <<first>> \o rest \in Seq(Seq(Shown)) /\ <<head>> \o rest \in Seq(Seq(Shown))
      /\ Len(<<first>> \o rest) = Len(lines) /\ Len(<<head>> \o rest) = Len(lines)
      /\ (<<first>> \o rest)[1] = first /\ (<<head>> \o rest)[1] = head
      /\ \A i \in 2 .. Len(lines) :
           (<<first>> \o rest)[i] = rest[i - 1] /\ (<<head>> \o rest)[i] = rest[i - 1]
  <2> HIDE DEF rest
  <2>1. PICK r \in Seq(Seq(Shown)) : r = rest /\ Len(r) + 1 = Len(lines)
    <3>1. ASSUME NEW m \in Nat, NEW n, n = m - 1 PROVE n + 1 = m
      BY <3>1
    <3>2. Len(rest) + 1 = Len(lines)
      BY <3>1, <1>1, <1>5
    <3> QED
      BY <3>2, <1>5
  <2>2. /\ <<first>> \in Seq(Seq(Shown)) /\ <<first>> \o r \in Seq(Seq(Shown))
        /\ Len(<<first>> \o r) = Len(r) + 1 /\ (<<first>> \o r)[1] = first
        /\ \A i \in 2 .. Len(r) + 1 : (<<first>> \o r)[i] = r[i - 1]
    BY InFront
  <2>3. /\ <<head>> \in Seq(Seq(Shown)) /\ <<head>> \o r \in Seq(Seq(Shown))
        /\ Len(<<head>> \o r) = Len(r) + 1 /\ (<<head>> \o r)[1] = head
        /\ \A i \in 2 .. Len(r) + 1 : (<<head>> \o r)[i] = r[i - 1]
    BY InFront
  <2> QED
    BY <2>1, <2>2, <2>3
<1>7. \A i \in 2 .. Len(lines) : rest[i - 1] = HeadTable[lines[i]]
  <2>1. ASSUME NEW i \in 2 .. Len(lines)
        PROVE  rest[i - 1] = HeadTable[lines[i]]
    <3>1. i - 1 \in 1 .. Len(lines) - 1 /\ i - 1 + 1 = i
      BY <1>1
    <3> QED
      BY <3>1
  <2> QED
    BY <2>1
<1> HIDE DEF rest
<1>8. \A i \in 1 .. Len(lines) : i = 1 \/ (i # 1 /\ i \in 2 .. Len(lines))
  BY <1>1
<1>9. pieces = <<first>> \o rest
  <2>1. \A i \in 2 .. Len(lines) : rest[i - 1] = <<"l">> \o lines[i]
    <3>1. \A i \in 2 .. Len(lines) : i \in 1 .. Len(lines)
      BY <1>1
    <3> QED
      BY <3>1, <1>1, <1>2, <1>7
  <2>2. PICK p \in Seq(Seq(Shown)) :
          /\ p = <<first>> \o rest /\ Len(p) = Len(lines) /\ p[1] = first
          /\ \A i \in 2 .. Len(lines) : p[i] = rest[i - 1]
    BY <1>6
  <2>3. p = [i \in 1 .. Len(p) |-> p[i]]
    OBVIOUS
  <2>4. \A i \in 1 .. Len(lines) : p[i] = IF i = 1 THEN lines[i] ELSE <<"l">> \o lines[i]
    BY <2>1, <2>2, <1>3, <1>8
  <2> QED
    BY <2>2, <2>3, <2>4, <1>1
<1>10. heads = <<head>> \o rest
  <2>2. PICK p \in Seq(Seq(Shown)) :
          /\ p = <<head>> \o rest /\ Len(p) = Len(lines) /\ p[1] = head
          /\ \A i \in 2 .. Len(lines) : p[i] = rest[i - 1]
    BY <1>6
  <2>3. p = [i \in 1 .. Len(p) |-> p[i]]
    OBVIOUS
  <2>4. \A i \in 1 .. Len(lines) : p[i] = HeadTable[lines[i]]
    BY <2>2, <1>4, <1>7, <1>8
  <2> QED
    BY <2>2, <2>3, <2>4, <1>1
<1>11. PICK tail \in Seq(Shown) : tail = FlattenSeq(rest)
  BY <1>5, FlattenTyped
<1>12. Joined(lines) = first \o tail
  <2>1. FlattenSeq(<<first>> \o rest) = FlattenSeq(<<first>>) \o FlattenSeq(rest)
    <3>1. PICK one \in Seq(Seq(Shown)) : one = <<first>>
      BY <1>6
    <3>2. FlattenSeq(one \o rest) = FlattenSeq(one) \o FlattenSeq(rest)
      BY <1>5, FlattenConcat
    <3> QED
      BY <3>1, <3>2
  <2>2. FlattenSeq(<<first>>) = first
    BY FlattenOne
  <2>3. Joined(lines) = FlattenSeq(pieces)
    BY DEF Joined
  <2> HIDE DEF pieces
  <2> QED
    BY <2>1, <2>2, <2>3, <1>9, <1>11
<1>13. Headed(lines) = head \o tail
  <2>1. FlattenSeq(<<head>> \o rest) = FlattenSeq(<<head>>) \o FlattenSeq(rest)
    <3>1. PICK one \in Seq(Seq(Shown)) : one = <<head>>
      BY <1>6
    <3>2. FlattenSeq(one \o rest) = FlattenSeq(one) \o FlattenSeq(rest)
      BY <1>5, FlattenConcat
    <3> QED
      BY <3>1, <3>2
  <2>2. FlattenSeq(<<head>>) = head
    BY FlattenOne
  <2>3. Headed(lines) = FlattenSeq(heads)
    BY DEF Headed, Spread
  <2> HIDE DEF heads
  <2> QED
    BY <2>1, <2>2, <2>3, <1>10, <1>11
<1>14. Regroups(<<"l">>, first, tail)
  BY NewlinesKnown, Associative
<1>15. first \o tail \in Seq(Shown)
  BY ConcatProperties
<1> QED
  BY <1>4, <1>12, <1>13, <1>14, <1>15 DEF Regroups

\* The end of a sequence, place by place.
LEMMA EndFacts ==
  ASSUME NEW C, NEW s \in Seq(C), NEW i \in 1 .. Len(s) + 1
  PROVE  /\ SubSeq(s, i, Len(s)) \in Seq(C) /\ Len(SubSeq(s, i, Len(s))) = Len(s) - i + 1
         /\ \A j \in 1 .. Len(s) - i + 1 : SubSeq(s, i, Len(s))[j] = s[i + j - 1]
<1>1. i \in Int /\ Len(s) \in Nat /\ \A j \in i .. Len(s) : s[j] \in C
  OBVIOUS
<1>2. /\ SubSeq(s, i, Len(s)) \in Seq(C)
      /\ Len(SubSeq(s, i, Len(s))) = IF i <= Len(s) THEN Len(s) - i + 1 ELSE 0
      /\ \A j \in 1 .. Len(s) - i + 1 : SubSeq(s, i, Len(s))[j] = s[i + j - 1]
  BY <1>1, SubSeqProperties
<1> QED
  BY <1>1, <1>2

\* Two sequences put together, place by place.
LEMMA PartFacts ==
  ASSUME NEW C, NEW a \in Seq(C), NEW b \in Seq(C)
  PROVE  /\ a \o b \in Seq(C) /\ Len(a \o b) = Len(a) + Len(b)
         /\ \A i \in 1 .. Len(a) : (a \o b)[i] = a[i]
         /\ \A i \in 1 .. Len(b) : (a \o b)[Len(a) + i] = b[i]
<1>1. Len(a) \in Nat /\ Len(b) \in Nat
  OBVIOUS
<1>2. /\ a \o b \in Seq(C) /\ Len(a \o b) = Len(a) + Len(b)
      /\ \A i \in 1 .. Len(a) + Len(b) : (a \o b)[i] = IF i <= Len(a) THEN a[i] ELSE b[i - Len(a)]
  BY ConcatProperties
<1>3. ASSUME NEW i \in 1 .. Len(b)
      PROVE  (a \o b)[Len(a) + i] = b[i]
  <2>1. PICK k \in 1 .. Len(a) + Len(b) : k = Len(a) + i /\ ~ (k <= Len(a)) /\ k - Len(a) = i
    <3>1. /\ Len(a) + i \in 1 .. Len(a) + Len(b) /\ ~ (Len(a) + i <= Len(a))
          /\ Len(a) + i - Len(a) = i
      BY <1>1
    <3> QED
      BY <3>1
  <2> QED
    BY <2>1, <1>2
<1> QED
  BY <1>1, <1>2, <1>3

\* A sequence is its first k elements and the rest.
LEMMA Split ==
  ASSUME NEW C, NEW s \in Seq(C), NEW k \in 0 .. Len(s)
  PROVE  /\ SubSeq(s, 1, k) \in Seq(C) /\ SubSeq(s, k + 1, Len(s)) \in Seq(C)
         /\ s = SubSeq(s, 1, k) \o SubSeq(s, k + 1, Len(s))
         /\ Len(SubSeq(s, 1, k)) = k /\ Len(SubSeq(s, k + 1, Len(s))) = Len(s) - k
<1>1. Len(s) \in Nat
  OBVIOUS
<1>2. SubSeq(s, 1, k) \in Seq(C) /\ Len(SubSeq(s, 1, k)) = k
  BY <1>1
<1>3. SubSeq(s, k + 1, Len(s)) \in Seq(C) /\ Len(SubSeq(s, k + 1, Len(s))) = Len(s) - k
  BY <1>1
<1>4. SubSeq(s, 1, k) \o SubSeq(s, k + 1, Len(s)) = SubSeq(s, 1, Len(s))
  <2>1. 1 \in 1 .. Len(s) + 1 /\ k \in 1 - 1 .. Len(s) /\ Len(s) \in k .. Len(s)
    BY <1>1
  <2> QED
    BY <2>1, ConcatAdjacentSubSeq
<1>5. SubSeq(s, 1, Len(s)) = s
  BY SubSeqFull
<1> QED
  BY <1>2, <1>3, <1>4, <1>5

\* The end of a text of two parts.
Behind(p, t, l) == SubSeq(p \o t, l, Len(p \o t))

\* It begins in the first part, or in the second.
CutsFirst(p, t, l) == Behind(p, t, l) = SubSeq(p, l, Len(p)) \o t
CutsSecond(p, t, l) == Behind(p, t, l) = SubSeq(t, l - Len(p), Len(t))

\* An end of a text of two parts: the second part is whole, or is all that is left.
LEMMA BehindFacts ==
  ASSUME NEW C, NEW p \in Seq(C), NEW t \in Seq(C), NEW l \in 1 .. Len(p) + Len(t) + 1
  PROVE  /\ l <= Len(p) + 1 => CutsFirst(p, t, l)
         /\ ~ (l <= Len(p)) => CutsSecond(p, t, l)
         /\ Behind(p, t, l) \in Seq(C) /\ Len(Behind(p, t, l)) = Len(p) + Len(t) - l + 1
<1>1. Len(p) \in Nat /\ Len(t) \in Nat
  OBVIOUS
<1>2. PICK u \in Seq(C) : /\ u = p \o t /\ Len(u) = Len(p) + Len(t)
                          /\ \A i \in 1 .. Len(p) : u[i] = p[i]
                          /\ \A i \in 1 .. Len(t) : u[Len(p) + i] = t[i]
  <2>1. /\ p \o t \in Seq(C) /\ Len(p \o t) = Len(p) + Len(t)
        /\ \A i \in 1 .. Len(p) : (p \o t)[i] = p[i]
        /\ \A i \in 1 .. Len(t) : (p \o t)[Len(p) + i] = t[i]
    BY PartFacts
  <2> QED
    BY <2>1
<1>3. /\ SubSeq(u, l, Len(u)) \in Seq(C)
      /\ Len(SubSeq(u, l, Len(u))) = Len(p) + Len(t) - l + 1
      /\ \A i \in 1 .. Len(p) + Len(t) - l + 1 : SubSeq(u, l, Len(u))[i] = u[l + i - 1]
  <2>1. l \in 1 .. Len(u) + 1
    BY <1>2
  <2>2. /\ SubSeq(u, l, Len(u)) \in Seq(C)
        /\ Len(SubSeq(u, l, Len(u))) = Len(u) - l + 1
        /\ \A i \in 1 .. Len(u) - l + 1 : SubSeq(u, l, Len(u))[i] = u[l + i - 1]
    BY <2>1, EndFacts
  <2> QED
    BY <2>2, <1>2
<1>4. PICK e \in Seq(C) : /\ e = Behind(p, t, l) /\ Len(e) = Len(p) + Len(t) - l + 1
                          /\ \A i \in 1 .. Len(p) + Len(t) - l + 1 : e[i] = u[l + i - 1]
  BY <1>2, <1>3 DEF Behind
<1>5. ASSUME l <= Len(p) + 1
      PROVE  e = SubSeq(p, l, Len(p)) \o t
  <2>1. /\ SubSeq(p, l, Len(p)) \in Seq(C) /\ Len(SubSeq(p, l, Len(p))) = Len(p) - l + 1
        /\ \A i \in 1 .. Len(p) - l + 1 : SubSeq(p, l, Len(p))[i] = p[l + i - 1]
    BY <1>1, <1>5
  <2>2. PICK q \in Seq(C) : /\ q = SubSeq(p, l, Len(p)) /\ Len(q) = Len(p) - l + 1
                            /\ \A i \in 1 .. Len(p) - l + 1 : q[i] = p[l + i - 1]
    BY <2>1
  <2>3. /\ q \o t \in Seq(C) /\ Len(q \o t) = Len(q) + Len(t)
        /\ \A i \in 1 .. Len(q) : (q \o t)[i] = q[i]
        /\ \A i \in 1 .. Len(t) : (q \o t)[Len(q) + i] = t[i]
    BY PartFacts
  <2>0. Len(q \o t) = Len(e)
    BY <2>2, <2>3, <1>1, <1>4
  <2>4. ASSUME NEW i \in 1 .. Len(e)
        PROVE  e[i] = (q \o t)[i]
    <3>1. CASE i <= Len(q)
      <4>1. l + i - 1 \in 1 .. Len(p) /\ i \in 1 .. Len(p) - l + 1
        BY <3>1, <2>2, <1>1
      <4>2. (q \o t)[i] = q[i]
        BY <3>1, <2>3
      <4>3. e[i] = u[l + i - 1]
        BY <1>4
      <4> QED
        BY <4>1, <4>2, <4>3, <2>2, <1>2
    <3>2. CASE ~ (i <= Len(q))
      <4>1. i - Len(q) \in 1 .. Len(t) /\ Len(p) + (i - Len(q)) = l + i - 1
        BY <3>2, <2>2, <1>1, <1>4
      <4>2. (q \o t)[i] = t[i - Len(q)]
        <5>1. PICK j \in 1 .. Len(t) : j = i - Len(q)
          BY <4>1
        <5>2. Len(q) + j = i
          BY <5>1, <2>2, <1>1
        <5> QED
          BY <5>1, <5>2, <2>3
      <4>3. e[i] = u[l + i - 1]
        BY <1>4
      <4>4. u[Len(p) + (i - Len(q))] = t[i - Len(q)]
        BY <4>1, <1>2
      <4> QED
        BY <4>1, <4>2, <4>3, <4>4
    <3> QED
      BY <3>1, <3>2
  <2> QED
    BY <2>0, <2>2, <2>3, <2>4, SeqEqual
<1>6. ASSUME ~ (l <= Len(p))
      PROVE  e = SubSeq(t, l - Len(p), Len(t))
  <2>1. l - Len(p) \in 1 .. Len(t) + 1
    BY <1>1, <1>6
  <2>2. PICK k \in 1 .. Len(t) + 1 : k = l - Len(p)
    BY <2>1
  <2>3. /\ SubSeq(t, k, Len(t)) \in Seq(C) /\ Len(SubSeq(t, k, Len(t))) = Len(t) - k + 1
        /\ \A i \in 1 .. Len(t) - k + 1 : SubSeq(t, k, Len(t))[i] = t[k + i - 1]
    BY <1>1
  <2>4. PICK q \in Seq(C) : /\ q = SubSeq(t, k, Len(t)) /\ Len(q) = Len(t) - k + 1
                            /\ \A i \in 1 .. Len(t) - k + 1 : q[i] = t[k + i - 1]
    BY <2>3
  <2>5. Len(q) = Len(e)
    BY <2>2, <2>4, <1>1, <1>4
  <2>6. ASSUME NEW i \in 1 .. Len(e)
        PROVE  e[i] = q[i]
    <3>1. k + i - 1 \in 1 .. Len(t) /\ Len(p) + (k + i - 1) = l + i - 1 /\ i \in 1 .. Len(t) - k + 1
      BY <2>2, <1>1, <1>4
    <3>2. e[i] = u[l + i - 1] /\ u[Len(p) + (k + i - 1)] = t[k + i - 1]
      BY <3>1, <1>2, <1>4
    <3> QED
      BY <3>1, <3>2, <2>4
  <2> QED
    BY <2>2, <2>4, <2>5, <2>6, SeqEqual
<1> QED
  BY <1>4, <1>5, <1>6 DEF CutsFirst, CutsSecond

\* What the line limit leaves: all the lines, or so many that one more is too many.
LEMMA TailLines ==
  ASSUME NEW lines \in Seq(Seq(Inline)), NEW L \in Nat \ {0}
  PROVE  \E p, t \in Seq(Shown) :
           /\ Joined(lines) = p \o t /\ Joined(LastOf(lines, L)) = t
           /\ Newlines(t) < L
           /\ p # <<>> => p[Len(p)] = "l" /\ Newlines(t) = L - 1
<1>1. Len(lines) \in Nat
  OBVIOUS
<1>2. CASE lines = <<>>
  <2>1. Joined(lines) = <<>> /\ <<>> \in Seq(Inline) /\ <<>> \in Seq(Shown)
    <3>1. [i \in DOMAIN lines |-> IF i = 1 THEN lines[i] ELSE <<"l">> \o lines[i]] = <<>>
      BY <1>2
    <3> QED
      BY <3>1, FlattenEmpty DEF Joined
  <2>2. LastOf(lines, L) = lines
    <3>1. Len(lines) = 0 /\ SubSeq(lines, 1, 0) = lines
      BY <1>2
    <3> QED
      BY <3>1 DEF LastOf
  <2>3. Newlines(<<>>) < L
    <3>1. Newlines(<<>>) = 0
      BY <2>1, NewlinesKnown
    <3> QED
      BY <3>1
  <2>4. <<>> \o <<>> = <<>>
    OBVIOUS
  <2> QED
    BY <2>1, <2>2, <2>3, <2>4
<1>3. CASE lines # <<>> /\ Len(lines) <= L
  <2>1. LastOf(lines, L) = lines
    <3>1. SubSeq(lines, 1, Len(lines)) = lines /\ ~ (Len(lines) > L)
      BY <1>1, <1>3
    <3> QED
      BY <3>1 DEF LastOf
  <2>2. PICK t \in Seq(Shown) : t = Joined(lines) /\ <<"l">> \o t = Headed(lines)
    BY <1>3, JoinedHeaded
  <2>3. Newlines(<<"l">> \o t) = Newlines(<<"l">>) + Newlines(t) /\ Newlines(t) \in Nat
    BY NewlinesKnown, NewlinesConcat
  <2>4. 1 + Newlines(t) = Len(lines)
    BY <2>2, <2>3, NewlinesKnown, HeadedNewlines
  <2>5. Newlines(t) < L
    BY <2>3, <2>4, <1>1, <1>3
  <2>6. <<>> \o t = t /\ <<>> \in Seq(Shown)
    OBVIOUS
  <2> QED
    BY <2>1, <2>2, <2>5, <2>6
<1>4. CASE ~ (Len(lines) <= L)
  <2>1. PICK k \in 1 .. Len(lines) : k = Len(lines) - L
    <3>1. Len(lines) - L \in 1 .. Len(lines)
      BY <1>1, <1>4
    <3> QED
      BY <3>1
  <2>2. PICK a \in Seq(Seq(Inline)), b \in Seq(Seq(Inline)) :
          /\ a = SubSeq(lines, 1, k) /\ b = SubSeq(lines, k + 1, Len(lines))
          /\ lines = a \o b /\ Len(a) = k /\ Len(b) = L
    <3>1. k \in 0 .. Len(lines)
      BY <1>1
    <3>2. /\ SubSeq(lines, 1, k) \in Seq(Seq(Inline))
          /\ SubSeq(lines, k + 1, Len(lines)) \in Seq(Seq(Inline))
          /\ lines = SubSeq(lines, 1, k) \o SubSeq(lines, k + 1, Len(lines))
          /\ Len(SubSeq(lines, 1, k)) = k
          /\ Len(SubSeq(lines, k + 1, Len(lines))) = Len(lines) - k
      BY <3>1, Split
    <3>3. Len(lines) - k = L
      BY <1>1, <2>1
    <3> QED
      BY <3>2, <3>3
  <2>3. LastOf(lines, L) = b
    <3>1. Len(lines) > L /\ Len(lines) - L + 1 = k + 1
      BY <1>1, <1>4, <2>1
    <3> QED
      BY <3>1, <2>2 DEF LastOf
  <2>4. lines # <<>> /\ b # <<>>
    <3>1. Len(lines) # 0 /\ Len(b) # 0
      BY <1>1, <1>4, <2>2
    <3> QED
      BY <3>1
  <2>5. PICK t \in Seq(Shown) : t = Joined(b) /\ <<"l">> \o t = Headed(b)
    BY <2>4, JoinedHeaded
  <2>6. PICK w \in Seq(Shown) : w = Joined(lines) /\ <<"l">> \o w = Headed(lines)
    BY <2>4, JoinedHeaded
  <2>7. PICK h \in Seq(Shown) : h = Headed(a) /\ Newlines(h) = k
    <3>1. Headed(a) \in Seq(Shown)
      BY HeadTyped, SpreadTyped DEF Headed
    <3>2. Newlines(Headed(a)) = k
      BY <2>2, HeadedNewlines
    <3> QED
      BY <3>1, <3>2
  <2>8. Headed(lines) = h \o (<<"l">> \o t)
    <3>1. Headed(a \o b) = Headed(a) \o Headed(b)
      BY HeadTyped, SpreadConcat DEF Headed
    <3> QED
      BY <3>1, <2>2, <2>5, <2>7
  <2>9. h # <<>>
    <3>1. Newlines(<<>>) = 0
      <4>1. <<>> \in Seq(Inline)
        OBVIOUS
      <4> QED
        BY <4>1, NewlinesKnown
    <3> QED
      BY <3>1, <2>1, <2>7
  <2>10. PICK q \in Seq(Shown) : q = h \o <<"l">> /\ Len(q) = Len(h) + 1 /\ q[Len(q)] = "l"
    <3>1. h \o <<"l">> \in Seq(Shown) /\ Len(h \o <<"l">>) = Len(h) + 1
          /\ (h \o <<"l">>)[Len(h) + 1] = "l"
      BY NewlinesKnown
    <3> QED
      BY <3>1
  <2>11. <<"l">> \o w = q \o t
    <3>1. Regroups(h, <<"l">>, t)
      BY NewlinesKnown, Associative
    <3> QED
      BY <3>1, <2>6, <2>8, <2>10 DEF Regroups
  <2>12. PICK p \in Seq(Shown) : /\ p = SubSeq(q, 2, Len(q)) /\ Len(p) = Len(h)
                                 /\ \A i \in 1 .. Len(p) : p[i] = q[i + 1]
    <3>1. /\ SubSeq(q, 2, Len(q)) \in Seq(Shown) /\ Len(SubSeq(q, 2, Len(q))) = Len(h)
          /\ \A i \in 1 .. Len(h) : SubSeq(q, 2, Len(q))[i] = q[i + 1]
      <4>1. Len(h) \in Nat
        OBVIOUS
      <4> QED
        BY <4>1, <2>10
    <3> QED
      BY <3>1
  <2>13. w = p \o t
    <3>1. PICK f \in Seq(Shown) : f = <<"l">> /\ Len(f) = 1
      BY NewlinesKnown
    <3>2. /\ 2 \in 1 .. Len(f) + Len(w) + 1 /\ 2 \in 1 .. Len(q) + Len(t) + 1
          /\ 2 <= Len(f) + 1 /\ 2 <= Len(q) + 1
      BY <3>1, <2>10
    <3>3. Behind(f, w, 2) = SubSeq(f, 2, Len(f)) \o w
      <4>1. CutsFirst(f, w, 2)
        BY <3>2, BehindFacts
      <4> QED
        BY <4>1 DEF CutsFirst
    <3>4. Behind(q, t, 2) = SubSeq(q, 2, Len(q)) \o t
      <4>1. CutsFirst(q, t, 2)
        BY <3>2, BehindFacts
      <4> QED
        BY <4>1 DEF CutsFirst
    <3>5. Behind(f, w, 2) = Behind(q, t, 2)
      BY <3>1, <2>11 DEF Behind
    <3>6. SubSeq(f, 2, Len(f)) = <<>> /\ <<>> \o w = w
      BY <3>1
    <3> QED
      BY <3>3, <3>4, <3>5, <3>6, <2>12
  <2>14. p # <<>> /\ p[Len(p)] = "l"
    <3>1. Len(h) \in Nat \ {0}
      BY <2>9
    <3>2. Len(p) \in 1 .. Len(p) /\ Len(p) + 1 = Len(q)
      BY <3>1, <2>10, <2>12
    <3> QED
      BY <3>1, <3>2, <2>10, <2>12
  <2>15. Newlines(t) = L - 1
    <3>1. Newlines(<<"l">> \o t) = Newlines(<<"l">>) + Newlines(t) /\ Newlines(t) \in Nat
      BY NewlinesKnown, NewlinesConcat
    <3>2. 1 + Newlines(t) = L
      BY <3>1, <2>2, <2>5, NewlinesKnown, HeadedNewlines
    <3>3. ASSUME NEW n \in Nat, 1 + n = L PROVE n = L - 1
      BY <3>3
    <3> QED
      BY <3>1, <3>2, <3>3
  <2>16. Newlines(t) < L
    BY <2>15
  <2> QED
    BY <2>3, <2>5, <2>6, <2>13, <2>14, <2>15, <2>16
<1> QED
  BY <1>2, <1>3, <1>4

-----------------------------------------------------------------------------
(* _truncate_diagnosis: the bytes *)

\* UTF-8: a character outside ASCII has three bytes more.
Bytes == {"a", "w", "l", "more"}
WidthTable == [c \in Shown |-> IF c = "w" THEN <<"w", "more", "more", "more">> ELSE <<c>>]

\* An encoding has up to four bytes a character, and only the first begins it.
LEMMA Widths ==
  /\ WidthTable \in Tables(Shown, Bytes)
  /\ \A c \in Shown : WidthTable[c] \in Seq(Bytes) /\ Len(WidthTable[c]) \in 1 .. 4
  /\ \A c \in Shown : \A i \in 2 .. Len(WidthTable[c]) : WidthTable[c][i] = "more"
<1>1. ASSUME NEW c \in Shown
      PROVE  /\ WidthTable[c] \in Seq(Bytes) /\ Len(WidthTable[c]) \in 1 .. 4
             /\ \A i \in 2 .. Len(WidthTable[c]) : WidthTable[c][i] = "more"
  <2>1. CASE c = "w"
    <3>1. WidthTable[c] = <<"w", "more", "more", "more">> /\ "w" \in Bytes /\ "more" \in Bytes
      BY <2>1 DEF WidthTable, Bytes
    <3>2. ASSUME NEW s, s = <<"w", "more", "more", "more">>
          PROVE  /\ s \in Seq(Bytes) /\ Len(s) = 4
                 /\ s[2] = "more" /\ s[3] = "more" /\ s[4] = "more"
      BY <3>1, <3>2
    <3>3. \A i \in 2 .. 4 : i = 2 \/ i = 3 \/ i = 4
      OBVIOUS
    <3> QED
      BY <3>1, <3>2, <3>3
  <2>2. CASE c # "w"
    <3>1. WidthTable[c] = <<c>> /\ c \in Bytes
      BY <2>2 DEF WidthTable, Bytes, Shown
    <3>2. <<c>> \in Seq(Bytes) /\ Len(<<c>>) = 1
      BY <3>1
    <3>3. 2 .. 1 = {}
      OBVIOUS
    <3> QED
      BY <3>1, <3>2, <3>3
  <2> QED
    BY <2>1, <2>2
<1>2. WidthTable \in Tables(Shown, Bytes)
  <2>1. \A c \in Shown : WidthTable[c] \in Seq(Bytes)
    BY <1>1
  <2> QED
    BY <2>1 DEF WidthTable, Tables
<1> QED
  BY <1>1, <1>2

\* str.encode as a spread text.
LEMMA EncodeFacts ==
  ASSUME NEW s \in Seq(Shown)
  PROVE  Encode(s) = Spread(WidthTable, s) /\ Encode(s) \in Seq(Bytes)
<1>1. [i \in DOMAIN s |-> IF s[i] = "w" THEN <<"w", "more", "more", "more">> ELSE <<s[i]>>]
        = [i \in DOMAIN s |-> WidthTable[s[i]]]
  <2>1. \A i \in DOMAIN s : s[i] \in Shown
    OBVIOUS
  <2> QED
    BY <2>1 DEF WidthTable
<1>2. Encode(s) = Spread(WidthTable, s)
  BY <1>1 DEF Encode, Spread
<1>3. Spread(WidthTable, s) \in Seq(Bytes)
  BY Widths, SpreadTyped
<1> QED
  BY <1>2, <1>3

\* The encoding of two texts put together is their encodings put together.
LEMMA EncodeConcat ==
  ASSUME NEW s \in Seq(Shown), NEW t \in Seq(Shown)
  PROVE  /\ Encode(s \o t) = Encode(s) \o Encode(t)
         /\ Len(Encode(s \o t)) = Len(Encode(s)) + Len(Encode(t))
         /\ Len(Encode(s)) \in Nat /\ Len(Encode(t)) \in Nat
<1>1. PICK a \in Seq(Bytes) : a = Encode(s) /\ a = Spread(WidthTable, s)
  BY EncodeFacts
<1>2. PICK b \in Seq(Bytes) : b = Encode(t) /\ b = Spread(WidthTable, t)
  BY EncodeFacts
<1>3. PICK u \in Seq(Shown) : u = s \o t
  BY ConcatProperties
<1>4. Encode(u) = Spread(WidthTable, u)
  BY EncodeFacts
<1>5. Spread(WidthTable, s \o t) = Spread(WidthTable, s) \o Spread(WidthTable, t)
  BY Widths, SpreadConcat
<1>6. Encode(u) = a \o b
  BY <1>1, <1>2, <1>3, <1>4, <1>5
<1>7. Len(a \o b) = Len(a) + Len(b) /\ Len(a) \in Nat /\ Len(b) \in Nat
  BY ConcatProperties
<1> QED
  BY <1>1, <1>2, <1>3, <1>6, <1>7

\* One character is encoded by its entry in the table.
LEMMA EncodeOne ==
  ASSUME NEW c \in Shown
  PROVE  <<c>> \in Seq(Shown) /\ Encode(<<c>>) = WidthTable[c]
<1>1. <<c>> \in Seq(Shown)
  OBVIOUS
<1>2. Encode(<<c>>) = Spread(WidthTable, <<c>>)
  BY <1>1, EncodeFacts
<1>3. Spread(WidthTable, <<c>>) = WidthTable[c]
  BY Widths, SpreadOne
<1> QED
  BY <1>1, <1>2, <1>3

\* t is u, a character and v; v is within the byte limit, one character more is not.
LongestEnd(t, limit, u, c, v) ==
  /\ t = u \o (<<c>> \o v)
  /\ Len(Encode(v)) <= limit /\ Len(Encode(<<c>> \o v)) > limit

\* No end of t that begins before k is within the byte limit.
TooLongBefore(t, limit, k) ==
  \A j \in 1 .. k - 1 : Len(Encode(SubSeq(t, j, Len(t)))) > limit

\* A text over the byte limit has a longest end that is within it.
LEMMA LongestEndExists ==
  ASSUME NEW t \in Seq(Shown), NEW limit \in Nat, Len(Encode(t)) > limit
  PROVE  \E k \in 1 .. Len(t) + 1, u \in Seq(Shown), c \in Shown, v \in Seq(Shown) :
           /\ LongestEnd(t, limit, u, c, v) /\ v = SubSeq(t, k, Len(t))
           /\ TooLongBefore(t, limit, k)
<1> DEFINE From(k) == SubSeq(t, k, Len(t))
           Starts == {k \in 1 .. Len(t) + 1 : Len(Encode(From(k))) <= limit}
<1>1. Len(t) \in Nat
  OBVIOUS
<1>2. Len(t) + 1 \in Starts
  <2>1. Encode(<<>>) = <<>>
    <3>1. Encode(<<>>) = Spread(WidthTable, <<>>)
      <4>1. <<>> \in Seq(Shown)
        OBVIOUS
      <4> QED
        BY <4>1, EncodeFacts
    <3> QED
      BY <3>1, SpreadEmpty
  <2>2. Len(<<>>) <= limit
    OBVIOUS
  <2>3. From(Len(t) + 1) = <<>>
    BY Suffixed
  <2>4. Len(t) + 1 \in 1 .. Len(t) + 1
    BY <1>1
  <2> QED
    BY <2>1, <2>2, <2>3, <2>4
<1>3. PICK k \in Starts : \A j \in Starts : k <= j
  <2>1. Starts \subseteq Nat
    BY <1>1
  <2> HIDE DEF Starts
  <2> QED
    BY <2>1, <1>2, LeastNumber
<1>4. k \in 1 .. Len(t) + 1 /\ Len(Encode(From(k))) <= limit
  OBVIOUS
<1>5. k # 1
  <2>1. From(1) = t
    BY Suffixed
  <2>2. Len(Encode(t)) \in Nat
    <3>1. PICK e \in Seq(Bytes) : e = Encode(t)
      BY EncodeFacts
    <3> QED
      BY <3>1
  <2>3. ASSUME k = 1 PROVE FALSE
    <3>1. Len(Encode(t)) <= limit
      BY <2>1, <2>3, <1>4
    <3>2. ASSUME NEW n \in Nat, n > limit, n <= limit PROVE FALSE
      BY <3>2
    <3> QED
      BY <3>1, <3>2, <2>2
  <2> QED
    BY <2>3
<1>6. PICK j \in 1 .. Len(t) : j + 1 = k
  <2>1. k - 1 \in 1 .. Len(t) /\ k - 1 + 1 = k
    BY <1>1, <1>4, <1>5
  <2> QED
    BY <2>1
<1>7. PICK v \in Seq(Shown) : v = From(k)
  BY <1>4, Suffixed
<1>8. From(j) = <<t[j]>> \o v
  BY <1>6, <1>7, Suffixed
<1>9. PICK w \in Seq(Shown) : w = From(j)
  <2>1. j \in 1 .. Len(t) + 1
    BY <1>1
  <2> QED
    BY <2>1, Suffixed
<1>0. ASSUME NEW i \in 1 .. k - 1
      PROVE  Len(Encode(From(i))) > limit
  <2>1. i \in 1 .. Len(t) + 1 /\ ~ (k <= i)
    BY <1>1, <1>4
  <2>2. i \notin Starts
    BY <2>1, <1>3
  <2>3. ~ (Len(Encode(From(i))) <= limit)
    BY <2>1, <2>2
  <2>4. Len(Encode(From(i))) \in Nat
    <3>1. PICK e \in Seq(Bytes) : e = Encode(From(i))
      BY <2>1, Suffixed, EncodeFacts
    <3> QED
      BY <3>1
  <2> HIDE DEF From
  <2> QED
    BY <2>3, <2>4
<1>10. Len(Encode(w)) > limit
  <2>1. j \in 1 .. k - 1
    BY <1>1, <1>6
  <2> QED
    BY <2>1, <1>0, <1>9
<1>11. PICK u \in Seq(Shown) : t = u \o w
  <2>1. PICK m \in 0 .. Len(t) : m + 1 = j
    <3>1. j - 1 \in 0 .. Len(t) /\ j - 1 + 1 = j
      BY <1>1
    <3> QED
      BY <3>1
  <2>2. SubSeq(t, 1, m) \in Seq(Shown) /\ t = SubSeq(t, 1, m) \o SubSeq(t, m + 1, Len(t))
    BY Split
  <2> QED
    BY <2>1, <2>2, <1>9
<1>12. PICK c \in Shown : c = t[j]
  BY <1>1
<1>13. LongestEnd(t, limit, u, c, v)
  BY <1>4, <1>7, <1>8, <1>9, <1>10, <1>11, <1>12 DEF LongestEnd
<1>14. TooLongBefore(t, limit, k)
  BY <1>0 DEF TooLongBefore
<1> QED
  BY <1>4, <1>7, <1>13, <1>14

\* Bytes without a beginning, and what they are decoded to.
Mores(d) == [i \in 1 .. d |-> "more"]
Marks(d) == [i \in 1 .. d |-> "?"]

\* The last limit bytes of t are the encoding of v behind some of the bytes of a
\* character that v does not have.
CutsInto(t, limit, v) == \E d \in 0 .. 3 : LastOf(Encode(t), limit) = Mores(d) \o Encode(v)

\* encoded[-limit:] is the encoding of the longest end, after at most three bytes that
\* belong to the character before it.
LEMMA ByteCut ==
  ASSUME NEW t \in Seq(Shown), NEW limit \in Nat,
         NEW u \in Seq(Shown), NEW c \in Shown, NEW v \in Seq(Shown), LongestEnd(t, limit, u, c, v)
  PROVE  CutsInto(t, limit, v)
<1>1. PICK W \in Seq(Bytes) : /\ W = WidthTable[c] /\ Len(W) \in 1 .. 4
                              /\ \A i \in 2 .. Len(W) : W[i] = "more"
  BY Widths
<1>2. PICK V \in Seq(Bytes) : V = Encode(v)
  BY EncodeFacts
<1>3. PICK U \in Seq(Bytes) : U = Encode(u)
  BY EncodeFacts
<1>4. PICK x \in Seq(Shown) : x = <<c>> \o v
  BY EncodeOne, ConcatProperties
<1>5. Encode(x) = W \o V /\ Len(Encode(x)) = Len(W) + Len(V)
  <2>1. PICK one \in Seq(Shown) : one = <<c>> /\ Encode(one) = W
    BY <1>1, EncodeOne
  <2>2. Encode(one \o v) = Encode(one) \o Encode(v)
        /\ Len(Encode(one \o v)) = Len(Encode(one)) + Len(Encode(v))
    BY EncodeConcat
  <2> QED
    BY <2>1, <2>2, <1>2, <1>4
<1>6. PICK E \in Seq(Bytes) :
        E = Encode(t) /\ E = U \o (W \o V) /\ Len(E) = Len(U) + (Len(W) + Len(V))
  <2>1. t = u \o x
    BY <1>4 DEF LongestEnd
  <2>2. Encode(t) \in Seq(Bytes)
    BY EncodeFacts
  <2>3. /\ Encode(u \o x) = Encode(u) \o Encode(x)
        /\ Len(Encode(u \o x)) = Len(Encode(u)) + Len(Encode(x))
    BY EncodeConcat
  <2> QED
    BY <2>1, <2>2, <2>3, <1>3, <1>5
<1>7. /\ Len(U) \in Nat /\ Len(V) \in Nat /\ Len(W) \in 1 .. 4
      /\ Len(V) <= limit /\ limit < Len(W) + Len(V)
  <2>1. Len(V) <= limit /\ Len(W) + Len(V) > limit
    BY <1>2, <1>4, <1>5 DEF LongestEnd
  <2> QED
    BY <2>1, <1>1
<1>8. PICK m \in 2 .. Len(W) + 1 : m = Len(W) + Len(V) - limit + 1
  <2>1. Len(W) + Len(V) - limit + 1 \in 2 .. Len(W) + 1
    BY <1>7
  <2> QED
    BY <2>1
<1>9. PICK l \in 1 .. Len(U) + (Len(W) + Len(V)) + 1 : l = Len(E) - limit + 1
  <2>1. Len(E) - limit + 1 \in 1 .. Len(U) + (Len(W) + Len(V)) + 1
    BY <1>6, <1>7
  <2> QED
    BY <2>1
<1>0. l - Len(U) = m /\ ~ (l <= Len(U)) /\ Len(E) > limit
  BY <1>6, <1>7, <1>8, <1>9
<1>10. PICK R \in Seq(Bytes) : R = W \o V /\ Len(R) = Len(W) + Len(V)
  <2>1. W \o V \in Seq(Bytes) /\ Len(W \o V) = Len(W) + Len(V)
    BY ConcatProperties
  <2> QED
    BY <2>1
<1>11. LastOf(E, limit) = SubSeq(R, m, Len(R))
  <2>1. LastOf(E, limit) = SubSeq(E, l, Len(E))
    BY <1>0, <1>9 DEF LastOf
  <2>2. l \in 1 .. Len(U) + Len(R) + 1
    BY <1>9, <1>10
  <2>3. CutsSecond(U, R, l)
    BY <2>2, <1>0, <1>7, BehindFacts
  <2> QED
    BY <2>1, <2>3, <1>0, <1>6, <1>10 DEF Behind, CutsSecond
<1>12. SubSeq(R, m, Len(R)) = SubSeq(W, m, Len(W)) \o V
  <2>1. m \in 1 .. Len(W) + Len(V) + 1 /\ m <= Len(W) + 1
    BY <1>7
  <2>2. CutsFirst(W, V, m)
    BY <2>1, BehindFacts
  <2> QED
    BY <2>2, <1>10 DEF Behind, CutsFirst
<1>13. PICK d \in 0 .. 3 : d = Len(W) - m + 1
  <2>1. Len(W) - m + 1 \in 0 .. 3
    <3>1. ASSUME NEW n \in 1 .. 4, NEW k \in 2 .. n + 1 PROVE n - k + 1 \in 0 .. 3
      OBVIOUS
    <3> QED
      BY <3>1, <1>7
  <2> QED
    BY <2>1
<1>14. SubSeq(W, m, Len(W)) = Mores(d)
  <2>1. m \in 1 .. Len(W) + 1
    BY <1>7
  <2>2. PICK e \in Seq(Bytes) : /\ e = SubSeq(W, m, Len(W)) /\ Len(e) = d
                                /\ \A j \in 1 .. d : e[j] = W[m + j - 1]
    <3>1. /\ SubSeq(W, m, Len(W)) \in Seq(Bytes) /\ Len(SubSeq(W, m, Len(W))) = Len(W) - m + 1
          /\ \A j \in 1 .. Len(W) - m + 1 : SubSeq(W, m, Len(W))[j] = W[m + j - 1]
      BY <2>1, EndFacts
    <3> QED
      BY <3>1, <1>13
  <2>3. \A j \in 1 .. d : m + j - 1 \in 2 .. Len(W)
    BY <1>7, <1>13
  <2>4. \A j \in 1 .. d : e[j] = "more"
    BY <2>2, <2>3, <1>1
  <2>5. e = [j \in 1 .. Len(e) |-> e[j]]
    OBVIOUS
  <2> QED
    BY <2>2, <2>4, <2>5 DEF Mores
<1>15. LastOf(Encode(t), limit) = Mores(d) \o Encode(v)
  BY <1>2, <1>6, <1>11, <1>12, <1>14
<1> QED
  BY <1>15 DEF CutsInto

\* The characters of a decoded text.
Decoded == {"a", "w", "l", "?"}

\* What Decode makes of the byte x after bytes.
Piece(bytes, x) ==
  IF x # "more" THEN <<x>>
  ELSE IF \E j \in 1 .. Len(bytes) : bytes[j] # "more" THEN <<>> ELSE <<"?">>

\* What it makes is decoded text.
LEMMA PieceTyped ==
  ASSUME NEW bytes, NEW x \in Bytes
  PROVE  Piece(bytes, x) \in Seq(Decoded)
<1>1. CASE x # "more"
  <2>1. x \in Decoded
    BY <1>1 DEF Bytes, Decoded
  <2>2. <<x>> \in Seq(Decoded)
    BY <2>1
  <2> QED
    BY <2>2, <1>1 DEF Piece
<1>2. CASE x = "more"
  <2>1. "?" \in Decoded
    BY DEF Decoded
  <2>2. <<"?">> \in Seq(Decoded) /\ <<>> \in Seq(Decoded)
    BY <2>1
  <2> QED
    BY <2>2, <1>2 DEF Piece
<1> QED
  BY <1>1, <1>2

\* Decode reads from the left, a byte at a time.
LEMMA DecodeAppend ==
  ASSUME NEW bytes \in Seq(Bytes), NEW x \in Bytes
  PROVE  /\ Decode(bytes \o <<x>>) = Decode(bytes) \o Piece(bytes, x)
         /\ Decode(bytes) \in Seq(Decoded)
<1> DEFINE n == Len(bytes)
           Whole(b, i) == \E j \in 1 .. i : b[j] # "more"
           Pieces(b) == [i \in DOMAIN b |->
             IF b[i] # "more" THEN <<b[i]>> ELSE IF Whole(b, i) THEN <<>> ELSE <<"?">>]
<1>1. n \in Nat /\ n = Len(bytes)
  OBVIOUS
<1>2. PICK all \in Seq(Bytes) : /\ all = bytes \o <<x>> /\ Len(all) = n + 1 /\ all[n + 1] = x
                                /\ \A i \in 1 .. n : all[i] = bytes[i]
  <2>1. /\ bytes \o <<x>> \in Seq(Bytes) /\ Len(bytes \o <<x>>) = n + 1
        /\ (bytes \o <<x>>)[n + 1] = x
        /\ \A i \in 1 .. n : (bytes \o <<x>>)[i] = bytes[i]
    OBVIOUS
  <2> QED
    BY <2>1
<1>3. ASSUME NEW b \in Seq(Bytes)
      PROVE  /\ Decode(b) = FlattenSeq(Pieces(b))
             /\ Pieces(b) \in Seq(Seq(Decoded)) /\ Len(Pieces(b)) = Len(b)
  <2>1. Decode(b) = FlattenSeq(Pieces(b))
    BY DEF Decode
  <2>2. ASSUME NEW i \in 1 .. Len(b)
        PROVE  (IF b[i] # "more" THEN <<b[i]>> ELSE IF Whole(b, i) THEN <<>> ELSE <<"?">>)
                 \in Seq(Decoded)
    <3>1. <<>> \in Seq(Decoded) /\ <<"?">> \in Seq(Decoded)
      BY DEF Decoded
    <3>2. ASSUME b[i] # "more" PROVE <<b[i]>> \in Seq(Decoded)
      <4>1. b[i] \in Decoded
        BY <3>2 DEF Bytes, Decoded
      <4> QED
        BY <4>1
    <3> HIDE DEF Whole
    <3> QED
      BY <3>1, <3>2
  <2>3. DOMAIN b = 1 .. Len(b) /\ Len(b) \in Nat
    OBVIOUS
  <2>4. Pieces(b) \in [1 .. Len(b) -> Seq(Decoded)]
    <3> HIDE DEF Whole
    <3> QED
      BY <2>2, <2>3
  <2> HIDE DEF Pieces
  <2>5. Pieces(b) \in Seq(Seq(Decoded)) /\ Len(Pieces(b)) = Len(b)
    BY <2>3, <2>4
  <2> QED
    BY <2>1, <2>5
<1>4. ASSUME NEW i \in 1 .. n
      PROVE  Pieces(all)[i] = Pieces(bytes)[i]
  <2>1. i \in DOMAIN all /\ i \in DOMAIN bytes /\ all[i] = bytes[i]
    BY <1>1, <1>2
  <2>2. \A j \in 1 .. i : all[j] = bytes[j]
    BY <1>1, <1>2
  <2>3. Whole(all, i) <=> Whole(bytes, i)
    BY <2>2
  <2> HIDE DEF Whole
  <2> QED
    BY <2>1, <2>3
<1>5. Pieces(all)[n + 1] = Piece(bytes, x)
  <2>1. n + 1 \in DOMAIN all /\ all[n + 1] = x
    BY <1>1, <1>2
  <2>2. x = "more" => (Whole(all, n + 1) <=> \E j \in 1 .. Len(bytes) : bytes[j] # "more")
    <3>1. \A j \in 1 .. n + 1 : j \in 1 .. n \/ j = n + 1
      BY <1>1
    <3>2. \A j \in 1 .. n : j \in 1 .. n + 1
      BY <1>1
    <3> QED
      BY <3>1, <3>2, <1>2
  <2>3. Pieces(all)[n + 1] =
          IF x # "more" THEN <<x>> ELSE IF Whole(all, n + 1) THEN <<>> ELSE <<"?">>
    <3> HIDE DEF Whole, n
    <3> QED
      BY <2>1
  <2> HIDE DEF Whole, Pieces, n
  <2> QED
    BY <2>2, <2>3 DEF Piece
<1>6. PICK A \in Seq(Seq(Decoded)) : A = Pieces(all) /\ Len(A) = n + 1
  <2> HIDE DEF Pieces
  <2> QED
    BY <1>2, <1>3
<1>7. PICK B \in Seq(Seq(Decoded)) : B = Pieces(bytes) /\ Len(B) = n
  <2> HIDE DEF Pieces
  <2> QED
    BY <1>3
<1>8. PICK p \in Seq(Decoded) : p = Piece(bytes, x)
  BY PieceTyped
<1>9. PICK one \in Seq(Seq(Decoded)) : one = <<p>> /\ Len(one) = 1 /\ one[1] = p
  <2>1. <<p>> \in Seq(Seq(Decoded)) /\ Len(<<p>>) = 1 /\ <<p>>[1] = p
    OBVIOUS
  <2> QED
    BY <2>1
<1>10. A = B \o one
  <2> HIDE DEF Pieces
  <2>1. /\ B \o one \in Seq(Seq(Decoded)) /\ Len(B \o one) = n + 1
        /\ \A i \in 1 .. n : (B \o one)[i] = B[i]
        /\ \A i \in 1 .. 1 : (B \o one)[n + i] = one[i]
    <3>1. /\ B \o one \in Seq(Seq(Decoded)) /\ Len(B \o one) = Len(B) + Len(one)
          /\ \A i \in 1 .. Len(B) : (B \o one)[i] = B[i]
          /\ \A i \in 1 .. Len(one) : (B \o one)[Len(B) + i] = one[i]
      BY PartFacts
    <3> QED
      BY <3>1, <1>7, <1>9
  <2>2. ASSUME NEW i \in 1 .. n + 1
        PROVE  A[i] = (B \o one)[i]
    <3>1. CASE i \in 1 .. n
      BY <3>1, <2>1, <1>4, <1>6, <1>7
    <3>2. CASE i \notin 1 .. n
      <4>1. i = n + 1 /\ 1 \in 1 .. 1
        <5>1. ASSUME NEW m \in Nat, NEW j \in 1 .. m + 1, j \notin 1 .. m
              PROVE  j = m + 1 /\ 1 \in 1 .. 1
          BY <5>1
        <5> HIDE DEF n
        <5> QED
          BY <5>1, <3>2, <1>1
      <4> QED
        BY <4>1, <2>1, <1>5, <1>6, <1>8, <1>9
    <3> QED
      BY <3>1, <3>2
  <2> QED
    BY <2>1, <2>2, <1>6, SeqEqual
<1>11. FlattenSeq(A) = FlattenSeq(B) \o p
  <2>1. FlattenSeq(B \o one) = FlattenSeq(B) \o FlattenSeq(one)
    BY FlattenConcat
  <2>2. FlattenSeq(<<p>>) = p
    BY FlattenOne
  <2> QED
    BY <2>1, <2>2, <1>9, <1>10
<1>12. FlattenSeq(B) \in Seq(Decoded)
  BY FlattenTyped
<1> HIDE DEF Pieces
<1> QED
  BY <1>2, <1>3, <1>6, <1>7, <1>8, <1>11, <1>12

\* Up to three bytes without a beginning become as many replacement characters.
LEMMA DecodeMores ==
  ASSUME NEW d \in 0 .. 3
  PROVE  /\ Mores(d) \in Seq(Bytes) /\ Marks(d) \in Seq(Decoded)
         /\ Decode(Mores(d)) = Marks(d)
<1>1. "more" \in Bytes /\ "?" \in Decoded
  BY DEF Bytes, Decoded
<1>2. \A e \in 0 .. 3 : Mores(e) \in Seq(Bytes) /\ Marks(e) \in Seq(Decoded)
  BY <1>1 DEF Mores, Marks
<1> DEFINE G == {e \in 0 .. 3 : Decode(Mores(e)) = Marks(e)}
<1>3. 0 \in G
  <2>1. Mores(0) = <<>> /\ Marks(0) = <<>>
    BY DEF Mores, Marks
  <2>2. Decode(<<>>) = FlattenSeq(<<>>)
    <3> DEFINE Whole(i) == \E j \in 1 .. i : <<>>[j] # "more"
    <3>1. [i \in DOMAIN <<>> |->
             IF <<>>[i] # "more" THEN <<<<>>[i]>> ELSE IF Whole(i) THEN <<>> ELSE <<"?">>] = <<>>
      <4> HIDE DEF Whole
      <4> QED
        OBVIOUS
    <3> QED
      BY <3>1 DEF Decode
  <2> QED
    BY <2>1, <2>2, FlattenEmpty
<1>4. ASSUME NEW e \in 1 .. 3, e - 1 \in G
      PROVE  e \in G
  <2>1. PICK b \in Seq(Bytes) : b = Mores(e - 1) /\ Decode(b) = Marks(e - 1)
    <3>1. e - 1 \in 0 .. 3
      OBVIOUS
    <3> QED
      BY <3>1, <1>2, <1>4
  <2>2. Mores(e) = b \o <<"more">> /\ Marks(e) = Marks(e - 1) \o <<"?">>
    BY <2>1 DEF Mores, Marks
  <2>3. Piece(b, "more") = <<"?">>
    BY <2>1 DEF Piece, Mores
  <2>4. Decode(b \o <<"more">>) = Decode(b) \o Piece(b, "more")
    BY <1>1, DecodeAppend
  <2>5. Decode(Mores(e)) = Marks(e)
    <3> HIDE DEF G
    <3> QED
      BY <2>1, <2>2, <2>3, <2>4
  <2>6. e \in 0 .. 3
    OBVIOUS
  <2> QED
    BY <2>5, <2>6
<1>5. \A e \in 0 .. 3 : e \in G
  <2> HIDE DEF G
  <2> QED
    BY <1>3, <1>4, Induction
<1> QED
  BY <1>2, <1>5

\* bytes in which some character has begun.
Begun(bytes) == \E j \in 1 .. Len(bytes) : bytes[j] # "more"

\* Once a character has begun, the bytes that continue it add nothing.
LEMMA MoreIsSilent ==
  ASSUME NEW s \in Seq(Bytes), Begun(s)
  PROVE  \E a \in Seq(Bytes) : a = s \o <<"more">> /\ Decode(a) = Decode(s) /\ Begun(a)
<1>1. PICK j \in 1 .. Len(s) : s[j] # "more"
  BY DEF Begun
<1>2. "more" \in Bytes
  BY DEF Bytes
<1>3. /\ s \o <<"more">> \in Seq(Bytes) /\ j \in 1 .. Len(s \o <<"more">>)
      /\ (s \o <<"more">>)[j] # "more"
  BY <1>1, <1>2
<1>4. Decode(s \o <<"more">>) = Decode(s) \o Piece(s, "more") /\ Decode(s) \in Seq(Decoded)
  BY <1>2, DecodeAppend
<1>5. Piece(s, "more") = <<>>
  BY <1>1 DEF Piece
<1>6. Decode(s) \o <<>> = Decode(s)
  BY <1>4, ConcatEmptySeq
<1>7. Begun(s \o <<"more">>)
  BY <1>3 DEF Begun
<1> QED
  BY <1>3, <1>4, <1>5, <1>6, <1>7

\* Given a name so that the provers can match it.
FourAppend(z, w, m) == z \o <<w, m, m, m>> = ((z \o <<w>> \o <<m>>) \o <<m>>) \o <<m>>

\* The encoding of a wide character, byte by byte.
LEMMA FourMore ==
  ASSUME NEW S, NEW z \in Seq(S), NEW w \in S, NEW m \in S
  PROVE  FourAppend(z, w, m)
<1>1. /\ <<w>> \in Seq(S) /\ <<m>> \in Seq(S) /\ <<w, m>> \in Seq(S) /\ <<w, m, m>> \in Seq(S)
  OBVIOUS
<1>2. /\ <<w>> \o <<m>> = <<w, m>> /\ <<w, m>> \o <<m>> = <<w, m, m>>
      /\ <<w, m, m>> \o <<m>> = <<w, m, m, m>>
  <2>1. ASSUME NEW s \in Seq(S), NEW u \in Seq(S), Len(u) = Len(s) + 1, u[Len(s) + 1] = m,
               \A i \in 1 .. Len(s) : u[i] = s[i]
        PROVE  s \o <<m>> = u
    <3>1. PICK one \in Seq(S) : one = <<m>> /\ Len(one) = 1 /\ one[1] = m
      <4>1. <<m>> \in Seq(S) /\ Len(<<m>>) = 1 /\ <<m>>[1] = m
        OBVIOUS
      <4> QED
        BY <4>1
    <3>2. /\ s \o one \in Seq(S) /\ Len(s \o one) = Len(s) + 1
          /\ \A i \in 1 .. Len(s) : (s \o one)[i] = s[i]
          /\ \A i \in 1 .. 1 : (s \o one)[Len(s) + i] = m
      BY <3>1, PartFacts
    <3>3. ASSUME NEW i \in 1 .. Len(u)
          PROVE  (s \o one)[i] = u[i]
      <4>1. CASE i \in 1 .. Len(s)
        BY <4>1, <3>2, <2>1
      <4>2. CASE i \notin 1 .. Len(s)
        <5>1. i = Len(s) + 1 /\ 1 \in 1 .. 1
          BY <4>2, <2>1
        <5> QED
          BY <5>1, <3>2, <2>1
      <4> QED
        BY <4>1, <4>2
    <3> QED
      BY <3>1, <3>2, <3>3, <2>1, SeqEqual
  <2>2. /\ <<w>> \in Seq(S) /\ Len(<<w>>) = 1 /\ Len(<<w, m>>) = 2
        /\ <<w, m>>[2] = m /\ <<w, m>>[1] = <<w>>[1]
    OBVIOUS
  <2>3. /\ <<w, m, m>> \in Seq(S) /\ Len(<<w, m, m>>) = 3 /\ <<w, m, m>>[3] = m
        /\ <<w, m, m>>[1] = <<w, m>>[1] /\ <<w, m, m>>[2] = <<w, m>>[2]
    OBVIOUS
  <2>4. /\ <<w, m, m, m>> \in Seq(S) /\ Len(<<w, m, m, m>>) = 4 /\ <<w, m, m, m>>[4] = m
        /\ <<w, m, m, m>>[1] = <<w, m, m>>[1] /\ <<w, m, m, m>>[2] = <<w, m, m>>[2]
        /\ <<w, m, m, m>>[3] = <<w, m, m>>[3]
    OBVIOUS
  <2>5. 1 .. 1 = {1} /\ 1 .. 2 = {1, 2} /\ 1 .. 3 = {1, 2, 3} /\ 1 + 1 = 2 /\ 2 + 1 = 3 /\ 3 + 1 = 4
    OBVIOUS
  <2>6. <<w>> \o <<m>> = <<w, m>>
    BY <1>1, <2>1, <2>2, <2>5
  <2>7. <<w, m>> \o <<m>> = <<w, m, m>>
    BY <1>1, <2>1, <2>2, <2>3, <2>5
  <2>8. <<w, m, m>> \o <<m>> = <<w, m, m, m>>
    BY <1>1, <2>1, <2>3, <2>4, <2>5
  <2> QED
    BY <2>6, <2>7, <2>8
<1>3. Regroups(z, <<w>>, <<m>>) /\ Regroups(z, <<w, m>>, <<m>>) /\ Regroups(z, <<w, m, m>>, <<m>>)
  BY <1>1, Associative
<1> QED
  BY <1>2, <1>3 DEF Regroups, FourAppend

\* Decoding gives back what was encoded, whatever bytes were cut off before it.
LEMMA DecodeWhole ==
  ASSUME NEW d \in 0 .. 3
  PROVE  \A v \in Seq(Shown) : Decode(Mores(d) \o Encode(v)) = Marks(d) \o v
<1> DEFINE G == {v \in Seq(Shown) : Decode(Mores(d) \o Encode(v)) = Marks(d) \o v}
<1>1. PICK M \in Seq(Bytes), K \in Seq(Decoded) : M = Mores(d) /\ K = Marks(d) /\ Decode(M) = K
  BY DecodeMores
<1>2. Shown \subseteq Decoded /\ "more" \in Bytes /\ Shown \subseteq Bytes /\ "more" \notin Shown
  BY DEF Shown, Decoded, Bytes
<1>3. <<>> \in G
  <2>1. <<>> \in Seq(Shown)
    OBVIOUS
  <2>2. Encode(<<>>) = <<>>
    BY <2>1, EncodeFacts, SpreadEmpty
  <2>3. M \o <<>> = M /\ K \o <<>> = K
    BY ConcatEmptySeq
  <2> QED
    BY <2>1, <2>2, <2>3, <1>1
<1>4. ASSUME NEW v \in Seq(Shown), NEW c \in Shown, v \in G
      PROVE  v \o <<c>> \in G
  <2>1. PICK E \in Seq(Bytes) : E = Encode(v)
    BY EncodeFacts
  <2>2. PICK b \in Seq(Bytes) : b = M \o E
    BY ConcatProperties
  <2>3. Decode(b) = K \o v
    BY <2>1, <2>2, <1>1, <1>4
  <2>4. Encode(v \o <<c>>) = E \o WidthTable[c]
    <3>1. PICK one \in Seq(Shown) : one = <<c>> /\ Encode(one) = WidthTable[c]
      BY EncodeOne
    <3>2. Encode(v \o one) = Encode(v) \o Encode(one)
      BY EncodeConcat
    <3> QED
      BY <3>1, <3>2, <2>1
  <2>5. PICK W \in Seq(Bytes) : W = WidthTable[c]
    BY Widths
  <2>6. Mores(d) \o Encode(v \o <<c>>) = b \o W
    <3>1. Regroups(M, E, W)
      BY Associative
    <3> QED
      BY <3>1, <2>2, <2>4, <2>5, <1>1 DEF Regroups
  <2>7. PICK a \in Seq(Bytes) : a = b \o <<c>>
    <3>1. b \o <<c>> \in Seq(Bytes)
      BY <1>2
    <3> QED
      BY <3>1
  <2>8. Decode(a) = Decode(b) \o <<c>>
    <3>1. c \in Bytes /\ c # "more"
      BY <1>2
    <3>2. Decode(b \o <<c>>) = Decode(b) \o Piece(b, c)
      BY <3>1, DecodeAppend
    <3> QED
      BY <3>1, <3>2, <2>7 DEF Piece
  <2>9. Decode(b \o W) = Decode(a)
    <3>1. CASE c # "w"
      BY <3>1, <2>5, <2>7 DEF WidthTable
    <3>2. CASE c = "w"
      <4>2. Begun(a)
        <5>1. Len(b) + 1 \in 1 .. Len(a) /\ a[Len(b) + 1] = c /\ c # "more"
          BY <2>7, <1>2
        <5> QED
          BY <5>1 DEF Begun
      <4>3. PICK a1 \in Seq(Bytes) : a1 = a \o <<"more">> /\ Decode(a1) = Decode(a) /\ Begun(a1)
        BY <4>2, MoreIsSilent
      <4>4. PICK a2 \in Seq(Bytes) : a2 = a1 \o <<"more">> /\ Decode(a2) = Decode(a1) /\ Begun(a2)
        BY <4>3, MoreIsSilent
      <4>5. PICK a3 \in Seq(Bytes) : a3 = a2 \o <<"more">> /\ Decode(a3) = Decode(a2)
        BY <4>4, MoreIsSilent
      <4>6. W = <<"w", "more", "more", "more">>
        BY <3>2, <2>5 DEF WidthTable
      <4>7. a3 = b \o W
        <5>1. a3 = ((b \o <<"w">> \o <<"more">>) \o <<"more">>) \o <<"more">>
          BY <4>3, <4>4, <4>5, <3>2, <2>7
        <5>2. b \o <<"w", "more", "more", "more">>
                = ((b \o <<"w">> \o <<"more">>) \o <<"more">>) \o <<"more">>
          <6>1. PICK w \in Bytes, m \in Bytes : w = "w" /\ m = "more"
            BY DEF Bytes
          <6>2. FourAppend(b, w, m)
            BY FourMore
          <6> QED
            BY <6>1, <6>2 DEF FourAppend
        <5> QED
          BY <5>1, <5>2, <4>6
      <4> QED
        BY <4>3, <4>4, <4>5, <4>7
    <3> QED
      BY <3>1, <3>2
  <2>10. Marks(d) \o (v \o <<c>>) = (K \o v) \o <<c>>
    <3>1. v \in Seq(Decoded) /\ <<c>> \in Seq(Decoded)
      BY <1>2
    <3>2. Regroups(K, v, <<c>>)
      BY <3>1, Associative
    <3> QED
      BY <3>2, <1>1 DEF Regroups
  <2>11. v \o <<c>> \in Seq(Shown)
    OBVIOUS
  <2> QED
    BY <2>3, <2>6, <2>8, <2>9, <2>10, <2>11
<1>5. \A v \in Seq(Shown) : v \in G
  <2> HIDE DEF G
  <2> QED
    BY <1>3, <1>4, SeqInduction
<1> QED
  BY <1>5

-----------------------------------------------------------------------------
(* _truncate_diagnosis: the longest end within both limits *)

\* A reversed sequence, place by place (IsSuffix is written with it).
LEMMA ReverseFacts ==
  ASSUME NEW C, NEW s \in Seq(C)
  PROVE  \E r \in Seq(C) : /\ r = Reverse(s) /\ Len(r) = Len(s)
                           /\ \A i \in 1 .. Len(s) : r[i] = s[Len(s) - i + 1]
<1>1. \A i \in 1 .. Len(s) : Len(s) - i + 1 \in 1 .. Len(s)
  OBVIOUS
<1>2. \A i \in 1 .. Len(s) : s[Len(s) - i + 1] \in C
  BY <1>1
<1>3. /\ Reverse(s) \in Seq(C) /\ Len(Reverse(s)) = Len(s)
      /\ \A i \in 1 .. Len(s) : Reverse(s)[i] = s[Len(s) - i + 1]
  BY <1>2 DEF Reverse
<1> QED
  BY <1>3

\* The second part of a text is a suffix of it.
LEMMA SuffixOfConcat ==
  ASSUME NEW C, NEW a \in Seq(C), NEW b \in Seq(C)
  PROVE  IsSuffix(b, a \o b)
<1>1. Len(a) \in Nat /\ Len(b) \in Nat
  OBVIOUS
<1>2. PICK w \in Seq(C) : /\ w = a \o b /\ Len(w) = Len(a) + Len(b)
                          /\ \A i \in 1 .. Len(b) : w[Len(a) + i] = b[i]
  <2>1. /\ a \o b \in Seq(C) /\ Len(a \o b) = Len(a) + Len(b)
        /\ \A i \in 1 .. Len(b) : (a \o b)[Len(a) + i] = b[i]
    BY PartFacts
  <2> QED
    BY <2>1
<1>3. PICK B \in Seq(C) : /\ B = Reverse(b) /\ Len(B) = Len(b)
                          /\ \A i \in 1 .. Len(b) : B[i] = b[Len(b) - i + 1]
  BY ReverseFacts
<1>4. PICK W \in Seq(C) : /\ W = Reverse(w) /\ Len(W) = Len(w)
                          /\ \A i \in 1 .. Len(w) : W[i] = w[Len(w) - i + 1]
  BY ReverseFacts
<1>5. ASSUME NEW i \in 1 .. Len(b)
      PROVE  B[i] = W[i]
  <2>1. /\ Len(b) - i + 1 \in 1 .. Len(b) /\ i \in 1 .. Len(w)
        /\ Len(w) - i + 1 = Len(a) + (Len(b) - i + 1)
    BY <1>1, <1>2
  <2>2. w[Len(a) + (Len(b) - i + 1)] = b[Len(b) - i + 1]
    BY <2>1, <1>2
  <2> QED
    BY <2>1, <2>2, <1>3, <1>4
<1>6. Len(B) <= Len(W)
  BY <1>1, <1>2, <1>3, <1>4
<1>7. SubSeq(B, 1, Len(B)) = SubSeq(W, 1, Len(B))
  <2>1. PICK n \in Nat : n = Len(B) /\ n <= Len(W) /\ \A i \in 1 .. n : B[i] = W[i]
    BY <1>3, <1>5, <1>6
  <2>2. SubSeq(B, 1, n) = [i \in 1 .. n |-> B[i]] /\ SubSeq(W, 1, n) = [i \in 1 .. n |-> W[i]]
    <3>1. ASSUME NEW s \in Seq(C), n <= Len(s)
          PROVE  SubSeq(s, 1, n) = [i \in 1 .. n |-> s[i]]
      BY <3>1
    <3> QED
      BY <3>1, <2>1
  <2>3. [i \in 1 .. n |-> B[i]] = [i \in 1 .. n |-> W[i]]
    BY <2>1
  <2> QED
    BY <2>1, <2>2, <2>3
<1>8. IsPrefix(B, W)
  BY <1>6, <1>7 DEF IsPrefix
<1> QED
  BY <1>2, <1>3, <1>4, <1>8 DEF IsSuffix

\* An end of a text has no more line feeds than the text.
LEMMA EndNewlines ==
  ASSUME NEW t \in Seq(Shown), NEW k \in 1 .. Len(t) + 1
  PROVE  Newlines(SubSeq(t, k, Len(t))) <= Newlines(t)
<1>1. PICK m \in 0 .. Len(t) : m + 1 = k
  <2>1. k - 1 \in 0 .. Len(t) /\ k - 1 + 1 = k
    OBVIOUS
  <2> QED
    BY <2>1
<1>2. PICK u \in Seq(Shown), v \in Seq(Shown) :
        v = SubSeq(t, k, Len(t)) /\ t = u \o v
  <2>1. /\ SubSeq(t, 1, m) \in Seq(Shown) /\ SubSeq(t, m + 1, Len(t)) \in Seq(Shown)
        /\ t = SubSeq(t, 1, m) \o SubSeq(t, m + 1, Len(t))
    BY Split
  <2> QED
    BY <2>1, <1>1
<1>3. Newlines(u) \in Nat /\ Newlines(v) \in Nat /\ Newlines(u \o v) = Newlines(u) + Newlines(v)
  BY NewlinesConcat
<1>4. ASSUME NEW n \in Nat, NEW j \in Nat PROVE j <= n + j
  OBVIOUS
<1> QED
  BY <1>2, <1>3, <1>4

\* An end of a text that ends with a line feed has a line feed.
LEMMA EndsWithNewline ==
  ASSUME NEW p \in Seq(Shown), p[Len(p)] = "l", NEW l \in 1 .. Len(p)
  PROVE  /\ SubSeq(p, l, Len(p)) \in Seq(Shown)
         /\ Newlines(SubSeq(p, l, Len(p))) >= 1
<1>1. PICK s \in Seq(Shown) : /\ s = SubSeq(p, l, Len(p)) /\ Len(s) = Len(p) - l + 1
                              /\ \A j \in 1 .. Len(p) - l + 1 : s[j] = p[l + j - 1]
  <2>1. l \in 1 .. Len(p) + 1
    OBVIOUS
  <2>2. /\ SubSeq(p, l, Len(p)) \in Seq(Shown) /\ Len(SubSeq(p, l, Len(p))) = Len(p) - l + 1
        /\ \A j \in 1 .. Len(p) - l + 1 : SubSeq(p, l, Len(p))[j] = p[l + j - 1]
    BY <2>1, EndFacts
  <2> QED
    BY <2>2
<1>2. PICK j \in 1 .. Len(s) : j = Len(p) - l + 1 /\ l + j - 1 = Len(p)
  <2>1. Len(p) - l + 1 \in 1 .. Len(p) - l + 1 /\ l + (Len(p) - l + 1) - 1 = Len(p)
    OBVIOUS
  <2> QED
    BY <2>1, <1>1
<1>3. s[j] = "l"
  BY <1>1, <1>2
<1>4. Newlines(s) \in Nat
  BY NewlinesConcat
<1>5. Newlines(s) # 0
  <2> DEFINE Feeds == {i \in DOMAIN s : s[i] = "l"}
  <2>1. IsFiniteSet(Feeds)
    <3>1. DOMAIN s = 1 .. Len(s) /\ Len(s) \in Nat
      OBVIOUS
    <3>2. IsFiniteSet(1 .. Len(s))
      BY <3>1, FS_Interval
    <3> QED
      BY <3>1, <3>2, FS_Subset
  <2>2. j \in Feeds
    BY <1>3
  <2> HIDE DEF Feeds
  <2>3. Cardinality(Feeds) # 0
    BY <2>1, <2>2, FS_EmptySet
  <2> USE DEF Feeds
  <2> QED
    BY <2>3 DEF Newlines
<1>6. ASSUME NEW n \in Nat, n # 0 PROVE n >= 1
  BY <1>6
<1> QED
  BY <1>1, <1>4, <1>5, <1>6

\* What comes of a text t of at most the allowed lines: replacement characters,
\* and the longest end of t that the byte limit allows.
Cut(t, limit, text, d, k, v) ==
  /\ text = Marks(d) \o v /\ v = SubSeq(t, k, Len(t))
  /\ Len(Encode(v)) <= limit /\ TooLongBefore(t, limit, k)

\* Either branch of the byte limit leaves such a text.
LEMMA CutExists ==
  ASSUME NEW t \in Seq(Shown), NEW limit \in Nat
  PROVE  \E d \in 0 .. 3, k \in 1 .. Len(t) + 1, v \in Seq(Shown) :
           Cut(t, limit, IF Len(Encode(t)) > limit THEN Decode(LastOf(Encode(t), limit)) ELSE t,
               d, k, v)
<1>1. CASE Len(Encode(t)) > limit
  <2>1. PICK k \in 1 .. Len(t) + 1, u \in Seq(Shown), c \in Shown, v \in Seq(Shown) :
           /\ LongestEnd(t, limit, u, c, v) /\ v = SubSeq(t, k, Len(t))
           /\ TooLongBefore(t, limit, k)
    BY <1>1, LongestEndExists
  <2>2. PICK d \in 0 .. 3 : LastOf(Encode(t), limit) = Mores(d) \o Encode(v)
    <3>1. LongestEnd(t, limit, u, c, v)
      BY <2>1
    <3>2. CutsInto(t, limit, v)
      BY <3>1, ByteCut
    <3> QED
      BY <3>2 DEF CutsInto
  <2>3. Decode(Mores(d) \o Encode(v)) = Marks(d) \o v
    BY DecodeWhole
  <2>4. Cut(t, limit, Decode(LastOf(Encode(t), limit)), d, k, v)
    BY <2>1, <2>2, <2>3 DEF Cut, LongestEnd
  <2> QED
    BY <2>4, <1>1
<1>2. CASE ~ (Len(Encode(t)) > limit)
  <2>1. Marks(0) \o t = t
    <3>1. Marks(0) = <<>>
      BY DEF Marks
    <3> QED
      BY <3>1, ConcatEmptySeq
  <2>2. SubSeq(t, 1, Len(t)) = t
    BY SubSeqFull
  <2>3. Len(Encode(t)) <= limit
    <3>1. Len(Encode(t)) \in Nat
      BY EncodeConcat
    <3>2. ASSUME NEW n \in Nat, ~ (n > limit) PROVE n <= limit
      BY <3>2
    <3> QED
      BY <3>1, <3>2, <1>2
  <2>4. TooLongBefore(t, limit, 1)
    BY DEF TooLongBefore
  <2>5. Cut(t, limit, t, 0, 1, t)
    BY <2>1, <2>2, <2>3, <2>4 DEF Cut
  <2>6. 0 \in 0 .. 3 /\ 1 \in 1 .. Len(t) + 1
    OBVIOUS
  <2> QED
    BY <2>5, <2>6, <1>2
<1> QED
  BY <1>1, <1>2

\* The replacement characters are the first d characters, and the rest is v.
LEMMA LostAreFirst ==
  ASSUME NEW d \in 0 .. 3, NEW v \in Seq(Shown), NEW text, text = Marks(d) \o v
  PROVE  /\ {i \in DOMAIN text : text[i] = "?"} = 1 .. d /\ Cardinality(1 .. d) = d
         /\ SubSeq(text, d + 1, Len(text)) = v
<1>1. PICK K \in Seq(Decoded) : K = Marks(d) /\ Len(K) = d /\ \A i \in 1 .. d : K[i] = "?"
  <2>1. Marks(d) \in Seq(Decoded)
    BY DecodeMores
  <2>2. Len(Marks(d)) = d /\ \A i \in 1 .. d : Marks(d)[i] = "?"
    BY DEF Marks
  <2> QED
    BY <2>1, <2>2
<1>2. PICK w \in Seq(Decoded) : w = v /\ \A i \in 1 .. Len(v) : w[i] # "?"
  <2>1. v \in Seq(Decoded)
    BY DEF Shown, Decoded
  <2>2. \A i \in 1 .. Len(v) : v[i] # "?"
    BY DEF Shown
  <2> QED
    BY <2>1, <2>2
<1>3. PICK s \in Seq(Decoded) : /\ s = text /\ Len(s) = d + Len(v)
                                /\ \A i \in 1 .. d : s[i] = "?"
                                /\ \A i \in 1 .. Len(v) : s[d + i] # "?"
  <2>1. /\ K \o w \in Seq(Decoded) /\ Len(K \o w) = Len(K) + Len(w)
        /\ \A i \in 1 .. Len(K) : (K \o w)[i] = K[i]
        /\ \A i \in 1 .. Len(w) : (K \o w)[Len(K) + i] = w[i]
    BY PartFacts
  <2>2. K \o w = text
    BY <1>1, <1>2
  <2>3. PICK s \in Seq(Decoded) : s = K \o w
    BY <2>1
  <2>4. Len(s) = d + Len(v) /\ \A i \in 1 .. d : s[i] = "?"
    BY <2>1, <2>3, <1>1, <1>2
  <2>5. \A i \in 1 .. Len(v) : s[d + i] # "?"
    BY <2>1, <2>3, <1>1, <1>2
  <2> QED
    BY <2>2, <2>3, <2>4, <2>5
<1>4. DOMAIN s = 1 .. Len(s) /\ Len(v) \in Nat
  OBVIOUS
<1>5. ASSUME NEW i \in 1 .. Len(s), i \notin 1 .. d
      PROVE  s[i] # "?"
  <2>1. PICK j \in 1 .. Len(v) : d + j = i
    <3>1. i - d \in 1 .. Len(v) /\ d + (i - d) = i
      BY <1>3, <1>4, <1>5
    <3> QED
      BY <3>1
  <2> QED
    BY <2>1, <1>3
<1>6. \A i \in 1 .. d : i \in 1 .. Len(s)
  BY <1>3, <1>4
<1>7. {i \in DOMAIN s : s[i] = "?"} = 1 .. d
  BY <1>3, <1>4, <1>5, <1>6
<1>8. Cardinality(1 .. d) = d
  <2>1. Cardinality(1 .. d) = IF 1 > d THEN 0 ELSE d - 1 + 1
    BY FS_Interval
  <2> QED
    BY <2>1
<1>9. SubSeq(s, d + 1, Len(s)) = v
  <2>1. d + 1 \in 1 .. Len(K) + Len(w) + 1 /\ ~ (d + 1 <= Len(K)) /\ d + 1 - Len(K) = 1
    BY <1>1, <1>2, <1>4
  <2>2. CutsSecond(K, w, d + 1)
    BY <2>1, BehindFacts
  <2>3. SubSeq(w, 1, Len(w)) = w
    BY SubSeqFull
  <2> QED
    BY <2>1, <2>2, <2>3, <1>1, <1>2, <1>3 DEF CutsSecond, Behind
<1> QED
  BY <1>3, <1>7, <1>8, <1>9

\* No end of p \o t that is within both limits is longer than v.
LEMMA NoLongerEnd ==
  ASSUME NEW L \in Nat \ {0}, NEW limit \in Nat, NEW p \in Seq(Shown), NEW t \in Seq(Shown),
         p # <<>> => p[Len(p)] = "l" /\ Newlines(t) = L - 1,
         NEW k \in 1 .. Len(t) + 1, NEW v \in Seq(Shown), v = SubSeq(t, k, Len(t)),
         TooLongBefore(t, limit, k),
         NEW l \in 1 .. Len(p) + Len(t),
         Len(Encode(Behind(p, t, l))) <= limit, Newlines(Behind(p, t, l)) < L
  PROVE  Len(Behind(p, t, l)) <= Len(v)
<1>1. l \in 1 .. Len(p) + Len(t) + 1 /\ Len(p) \in Nat /\ Len(t) \in Nat
  OBVIOUS
<1>2. PICK s \in Seq(Shown) : s = Behind(p, t, l) /\ Len(s) = Len(p) + Len(t) - l + 1
  BY <1>1, BehindFacts
<1>3. Len(v) = Len(t) - k + 1
  BY EndFacts
<1>4. CASE l <= Len(p)
  <2>1. l \in 1 .. Len(p) /\ l <= Len(p) + 1 /\ p # <<>>
    BY <1>1, <1>4
  <2>2. s = SubSeq(p, l, Len(p)) \o t
    <3>1. CutsFirst(p, t, l)
      BY <1>1, <2>1, BehindFacts
    <3> QED
      BY <3>1, <1>2 DEF CutsFirst
  <2>3. PICK q \in Seq(Shown) : q = SubSeq(p, l, Len(p)) /\ Newlines(q) >= 1
    BY <2>1, EndsWithNewline
  <2>4. Newlines(q \o t) = Newlines(q) + Newlines(t) /\ Newlines(q) \in Nat
    BY NewlinesConcat
  <2>5. Newlines(q \o t) < L /\ Newlines(t) = L - 1
    BY <2>1, <2>2, <2>3, <1>2
  <2>6. ASSUME NEW n \in Nat, n >= 1, n + (L - 1) < L PROVE FALSE
    BY <2>6
  <2>7. Newlines(q) + (L - 1) < L
    BY <2>4, <2>5
  <2> QED
    BY <2>3, <2>4, <2>6, <2>7
<1>5. CASE ~ (l <= Len(p))
  <2>1. PICK j \in 1 .. Len(t) : j = l - Len(p)
    <3>1. l - Len(p) \in 1 .. Len(t)
      BY <1>1, <1>5
    <3> QED
      BY <3>1
  <2>2. s = SubSeq(t, j, Len(t))
    <3>1. CutsSecond(p, t, l)
      BY <1>1, <1>5, BehindFacts
    <3> QED
      BY <3>1, <2>1, <1>2 DEF CutsSecond
  <2>3. ~ (j \in 1 .. k - 1)
    <3>1. ASSUME j \in 1 .. k - 1 PROVE FALSE
      <4>1. Len(Encode(s)) > limit
        BY <3>1, <2>2 DEF TooLongBefore
      <4>2. Len(Encode(s)) <= limit /\ Len(Encode(s)) \in Nat
        BY <1>2, EncodeConcat
      <4>3. ASSUME NEW n \in Nat, n > limit, n <= limit PROVE FALSE
        BY <4>3
      <4> QED
        BY <4>1, <4>2, <4>3
    <3> QED
      BY <3>1
  <2>4. Len(s) <= Len(v)
    BY <2>1, <2>3, <1>1, <1>2, <1>3
  <2> QED
    BY <2>4, <1>2
<1> QED
  BY <1>4, <1>5

\* What holds after _truncate_diagnosis: both limits at once.
LEMMA DiagnosisStates == CodecInv => DiagnosisIsLongestTail
<1> SUFFICES ASSUME CodecInv, out.result = "diagnosis" PROVE DiagnosisIsLongestTail
  BY DEF DiagnosisIsLongestTail
<1>1. /\ call.text \in Seq({"a", "w", "l", "c"})
      /\ out = [result |-> "diagnosis", text |-> truncate_diagnosis(call.text)]
  BY DEF CodecInv, CallsTyped, ResultOfCall, NoResult, str_replace
<1> DEFINE L == MaxDiagnosisLines
           B == MaxDiagnosisBytes
<1>2. L \in Nat \ {0} /\ B \in Nat
  BY EncodingAssumption
<1>3. PICK lines \in Seq(Seq(Inline)) : lines = splitlines(call.text)
  BY <1>1, LinesTyped
<1> HIDE DEF L, B
<1>4. PICK p \in Seq(Shown), t \in Seq(Shown) :
        /\ Joined(lines) = p \o t /\ Joined(LastOf(lines, L)) = t
        /\ Newlines(t) < L
        /\ p # <<>> => p[Len(p)] = "l" /\ Newlines(t) = L - 1
  BY <1>2, TailLines
<1>5. out.text = IF Len(Encode(t)) > B THEN Decode(LastOf(Encode(t), B)) ELSE t
  <2>1. out.text = truncate_diagnosis(call.text)
    BY <1>1
  <2> QED
    BY <2>1, <1>3, <1>4 DEF truncate_diagnosis, L, B
<1>6. PICK d \in 0 .. 3, k \in 1 .. Len(t) + 1, v \in Seq(Shown) : Cut(t, B, out.text, d, k, v)
  BY <1>2, <1>5, CutExists
<1>7. /\ {i \in DOMAIN out.text : out.text[i] = "?"} = 1 .. d /\ Cardinality(1 .. d) = d
      /\ SubSeq(out.text, d + 1, Len(out.text)) = v
  <2>1. out.text = Marks(d) \o v
    BY <1>6 DEF Cut
  <2> QED
    BY <2>1, LostAreFirst
<1>8. PICK w \in Seq(Shown) : w = p \o t /\ Len(w) = Len(p) + Len(t)
  <2>1. p \o t \in Seq(Shown) /\ Len(p \o t) = Len(p) + Len(t)
    BY PartFacts
  <2> QED
    BY <2>1
<1>9. IsSuffix(v, w)
  <2>1. PICK l \in 1 .. Len(p) + Len(t) + 1 :
          l = Len(p) + k /\ ~ (l <= Len(p)) /\ l - Len(p) = k /\ l \in 1 .. Len(w) + 1
    <3>1. Len(p) + k \in 1 .. Len(p) + Len(t) + 1 /\ ~ (Len(p) + k <= Len(p))
          /\ Len(p) + k - Len(p) = k
      OBVIOUS
    <3> QED
      BY <3>1, <1>8
  <2>2. v = SubSeq(w, l, Len(w))
    <3>1. CutsSecond(p, t, l)
      BY <2>1, BehindFacts
    <3> QED
      BY <3>1, <2>1, <1>6, <1>8 DEF CutsSecond, Behind, Cut
  <2>3. PICK m \in 0 .. Len(w) : m + 1 = l
    <3>1. l - 1 \in 0 .. Len(w) /\ l - 1 + 1 = l
      BY <2>1
    <3> QED
      BY <3>1
  <2>4. PICK u \in Seq(Shown) : w = u \o v
    <3>1. /\ SubSeq(w, 1, m) \in Seq(Shown)
          /\ w = SubSeq(w, 1, m) \o SubSeq(w, m + 1, Len(w))
      BY Split
    <3> QED
      BY <3>1, <2>2, <2>3
  <2> QED
    BY <2>4, SuffixOfConcat
<1> DEFINE Fits(s) == Len(Encode(s)) <= B /\ Newlines(s) < L
<1>10. Fits(v)
  <2>1. Newlines(v) <= Newlines(t)
    BY <1>6, EndNewlines DEF Cut
  <2>2. Newlines(v) \in Nat /\ Newlines(t) \in Nat
    BY NewlinesConcat
  <2>3. ASSUME NEW m \in Nat, NEW n \in Nat, m <= n, n < L PROVE m < L
    BY <2>3, <1>2
  <2> QED
    BY <2>1, <2>2, <2>3, <1>4, <1>6 DEF Cut
<1>11. ASSUME NEW s \in Suffixes(w), Fits(s)
       PROVE  Len(s) <= Len(v)
  <2>1. CASE s = <<>>
    <3>1. Len(v) \in Nat /\ Len(<<>>) = 0
      OBVIOUS
    <3> QED
      BY <3>1, <2>1
  <2>2. CASE s # <<>>
    <3>1. PICK l \in 1 .. Len(p) + Len(t) : s = Behind(p, t, l)
      BY <2>2, <1>8 DEF Suffixes, Behind
    <3> QED
      BY <3>1, <1>2, <1>4, <1>6, <1>11, NoLongerEnd DEF Cut
  <2> QED
    BY <2>1, <2>2
<1>12. Joined(splitlines(call.text)) = w
  BY <1>3, <1>4, <1>8
<1>13. d <= 3
  OBVIOUS
<1> HIDE DEF Fits
<1>14. \A s : Fits(s) <=> /\ Len(Encode(s)) <= MaxDiagnosisBytes
                          /\ Cardinality({i \in DOMAIN s : s[i] = "l"}) < MaxDiagnosisLines
  BY DEF Fits, Newlines, L, B
<1> QED
  BY <1>7, <1>9, <1>10, <1>11, <1>12, <1>13, <1>14 DEF DiagnosisIsLongestTail

\* The agent is shown the longest end of the output that is within both limits, after at
\* most three replacement characters, for outputs of any length and any value of the limits.
THEOREM DiagnosisIsTail == CodecSpec => []DiagnosisIsLongestTail
BY CodecInvariance, DiagnosisStates, PTL
=============================================================================
