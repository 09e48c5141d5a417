----------------------------- MODULE SeamProofs -----------------------------
(***************************************************************************)
(* Proofs about the outbox and the seam, for every set of subjects, every  *)
(* capacity and every number of pushes.                                    *)
(***************************************************************************)
EXTENDS RuntimeSeam, SequenceTheorems, NaturalFacts, TLAPS

Entries == [msg : Messages, size : Nat]

\* The messages of a queue, and what the runtime has received or will receive if
\* queue p stands behind slot s.
Msgs(p) == [i \in 1 .. Len(p) |-> p[i].msg]
Line(d, s, p) == d \o s \o Msgs(p)

\* q is p without its place k.
Without(p, q, k) ==
  /\ k \in 1 .. Len(p)
  /\ Len(q) = Len(p) - 1
  /\ \A j \in 1 .. Len(q) : q[j] = IF j < k THEN p[j] ELSE p[j + 1]

\* q is p with m at its end.
Extended(p, q, m) ==
  /\ Len(q) = Len(p) + 1
  /\ q[Len(q)] = m
  /\ \A j \in 1 .. Len(p) : q[j] = p[j]

-----------------------------------------------------------------------------
(* Sequences.                                                              *)

\* What RemoveAt leaves.
LEMMA RemoveFacts ==
  ASSUME NEW S, NEW s \in Seq(S), NEW k \in 1 .. Len(s)
  PROVE  RemoveAt(s, k) \in Seq(S) /\ Without(s, RemoveAt(s, k), k)
<1> DEFINE before == SubSeq(s, 1, k - 1)
           after  == SubSeq(s, k + 1, Len(s))
<1>0. Len(s) \in Nat /\ \A i \in 1 .. Len(s) : s[i] \in S
  BY ElementOfSeq, LenProperties
<1>1. before \in Seq(S) /\ Len(before) = k - 1 /\ \A i \in 1 .. k - 1 : before[i] = s[i]
  <2>1. \A i \in 1 .. k - 1 : s[i] \in S
    BY <1>0
  <2>2. 1 \in Int /\ k - 1 \in Int
    BY <1>0
  <2> QED
    BY <1>0, <2>1, <2>2, SubSeqProperties
<1>2. after \in Seq(S) /\ Len(after) = Len(s) - k
      /\ \A i \in 1 .. Len(s) - k : after[i] = s[k + i]
  <2>1. \A i \in k + 1 .. Len(s) : s[i] \in S
    BY <1>0
  <2>2. k + 1 \in Int /\ Len(s) \in Int
    BY <1>0
  <2>3. /\ after \in Seq(S)
        /\ Len(after) = IF k + 1 <= Len(s) THEN Len(s) - (k + 1) + 1 ELSE 0
        /\ \A i \in 1 .. Len(s) - (k + 1) + 1 : after[i] = s[(k + 1) + i - 1]
    BY <2>1, <2>2, SubSeqProperties
  <2> HIDE DEF after
  <2> QED
    BY <1>0, <2>3
<1> HIDE DEF before, after
<1>3. /\ before \o after \in Seq(S)
      /\ Len(before \o after) = Len(before) + Len(after)
      /\ \A i \in 1 .. Len(before) + Len(after) :
           (before \o after)[i] = IF i <= Len(before) THEN before[i] ELSE after[i - Len(before)]
  BY Zenon, <1>1, <1>2, ConcatProperties
<1>4. RemoveAt(s, k) = before \o after
  BY DEF RemoveAt, before, after
<1> DEFINE t == before \o after
<1>5. ASSUME NEW j \in 1 .. Len(s) - 1 PROVE t[j] = IF j < k THEN s[j] ELSE s[j + 1]
  <2>1. j \in 1 .. Len(before) + Len(after)
    BY <1>0, <1>1, <1>2
  <2>2. t[j] = IF j <= Len(before) THEN before[j] ELSE after[j - Len(before)]
    BY <1>3, <2>1
  <2> HIDE DEF t
  <2>3. CASE j < k
    BY <1>0, <1>1, <2>2, <2>3
  <2>4. CASE ~(j < k)
    <3>1. j - Len(before) \in 1 .. Len(s) - k /\ ~(j <= Len(before)) /\ k + (j - Len(before)) = j + 1
      BY <1>0, <1>1, <2>4
    <3>2. after[j - Len(before)] = s[k + (j - Len(before))]
      BY <1>2, <3>1
    <3> QED
      BY <2>2, <2>4, <3>1, <3>2
  <2> QED
    BY <2>3, <2>4
<1>6. Len(t) = Len(s) - 1
  BY <1>0, <1>1, <1>2, <1>3
<1> HIDE DEF t
<1>7. RemoveAt(s, k) = t /\ t \in Seq(S)
  BY <1>3, <1>4 DEF t
<1> QED
  BY <1>0, <1>5, <1>6, <1>7 DEF Without

\* The line of three sequences, place by place.
LEMMA LineFacts ==
  ASSUME NEW d \in Seq(Messages), NEW s \in Seq(Messages), NEW p \in Seq(Entries)
  PROVE  /\ Line(d, s, p) \in Seq(Messages)
         /\ Len(Line(d, s, p)) = Len(d) + Len(s) + Len(p)
         /\ \A i \in 1 .. Len(d) : Line(d, s, p)[i] = d[i]
         /\ \A i \in 1 .. Len(s) : Line(d, s, p)[Len(d) + i] = s[i]
         /\ \A i \in 1 .. Len(p) : Line(d, s, p)[Len(d) + Len(s) + i] = p[i].msg
<1> DEFINE ds == d \o s
           ms == Msgs(p)
<1>0. Len(d) \in Nat /\ Len(s) \in Nat /\ Len(p) \in Nat
  BY LenProperties
<1>1. ASSUME NEW i \in 1 .. Len(p) PROVE p[i].msg \in Messages
  <2>1. p[i] \in Entries
    BY ElementOfSeq
  <2> QED
    BY <2>1 DEF Entries
<1>2. ms \in Seq(Messages) /\ Len(ms) = Len(p) /\ \A i \in 1 .. Len(p) : ms[i] = p[i].msg
  BY <1>0, <1>1 DEF Msgs
<1>3. /\ ds \in Seq(Messages) /\ Len(ds) = Len(d) + Len(s)
      /\ \A i \in 1 .. Len(d) + Len(s) : ds[i] = IF i <= Len(d) THEN d[i] ELSE s[i - Len(d)]
  BY ConcatProperties
<1> HIDE DEF ds, ms
<1>4. ds \in Seq(Messages) /\ ms \in Seq(Messages)
  BY <1>2, <1>3
<1> DEFINE l == ds \o ms
<1>5. /\ l \in Seq(Messages) /\ Len(l) = Len(ds) + Len(ms)
      /\ \A i \in 1 .. Len(ds) + Len(ms) : l[i] = IF i <= Len(ds) THEN ds[i] ELSE ms[i - Len(ds)]
  BY <1>4, ConcatProperties
<1>6. Line(d, s, p) = l
  BY DEF Line, ds, ms
<1> HIDE DEF l
<1>7. ASSUME NEW i \in 1 .. Len(d) PROVE l[i] = d[i]
  <2>1. i \in 1 .. Len(ds) + Len(ms) /\ i <= Len(ds) /\ i \in 1 .. Len(d) + Len(s)
    BY <1>0, <1>2, <1>3
  <2> QED
    BY <1>3, <1>5, <2>1
<1>8. ASSUME NEW i \in 1 .. Len(s) PROVE l[Len(d) + i] = s[i]
  <2>1. Len(d) + i \in 1 .. Len(ds) + Len(ms) /\ Len(d) + i <= Len(ds)
        /\ Len(d) + i \in 1 .. Len(d) + Len(s) /\ ~(Len(d) + i <= Len(d))
        /\ Len(d) + i - Len(d) = i
    BY <1>0, <1>2, <1>3
  <2>2. l[Len(d) + i] = ds[Len(d) + i]
    BY <1>5, <2>1
  <2> QED
    BY <1>3, <2>1, <2>2
<1>9. ASSUME NEW i \in 1 .. Len(p) PROVE l[Len(d) + Len(s) + i] = p[i].msg
  <2> DEFINE k == Len(d) + Len(s) + i
  <2>1. k \in 1 .. Len(ds) + Len(ms) /\ ~(k <= Len(ds)) /\ k - Len(ds) = i
    BY <1>0, <1>2, <1>3
  <2> HIDE DEF k
  <2>2. l[k] = ms[i]
    BY <1>5, <2>1
  <2> QED
    BY <1>2, <2>2 DEF k
<1> QED
  BY <1>0, <1>2, <1>3, <1>5, <1>6, <1>7, <1>8, <1>9

-----------------------------------------------------------------------------
(* What a push and a flush do to the line.                                 *)

\* The newest queued message about the subject of m is one, if there is any.
LEMMA LastSameFacts ==
  ASSUME NEW p \in Seq(Entries), NEW m, LastSame(p, m) # 0
  PROVE  LastSame(p, m) \in 1 .. Len(p) /\ SameProjection(p[LastSame(p, m)].msg, m)
<1> DEFINE I == {i \in 1 .. Len(p) : SameProjection(p[i].msg, m)}
<1>0. Len(p) \in Nat
  BY LenProperties
<1>1. LastSame(p, m) = IF I # {} THEN Max(I) ELSE 0
  BY DEF LastSame, SelectLastInSeq
<1>2. I # {}
  BY <1>1
<1>3. I \in SUBSET (0 .. Len(p))
  BY <1>0
<1>4. \E x \in I : \A y \in I : y <= x
  <2> HIDE DEF I
  <2> QED
    BY Zenon, <1>0, <1>2, <1>3, GreatestNatural
<1>5. \E x \in I : \A y \in I : x >= y
  BY <1>0, <1>4
<1>6. Max(I) \in I
  <2> HIDE DEF I
  <2> QED
    BY <1>5 DEF Max
<1> QED
  BY <1>1, <1>2, <1>6

\* Queue q is what push keeps of queue p, and m2 what it queues behind it for m:
\* both as they were, or q without the place k that m supersedes and m2 with the
\* flag of that place.
Supersedes(p, q, m, m2, k) ==
  /\ Without(p, q, k)
  /\ SameProjection(p[k].msg, m)
  /\ \A j \in k + 1 .. Len(p) : ~Barrier(p[j].msg)
  /\ m2 = Merge(p[k].msg, m)

\* Superseded and Merged do one of the two.
LEMMA PushFacts ==
  ASSUME NEW p \in Seq(Entries), NEW m \in Messages
  PROVE  /\ Superseded(p, m) \in Seq(Entries)
         /\ \/ Superseded(p, m) = p /\ Merged(p, m) = m
            \/ \E k \in 1 .. Len(p) : Supersedes(p, Superseded(p, m), m, Merged(p, m), k)
<1> DEFINE k == LastSame(p, m)
<1>1. CASE Replaceable(p, k)
  <2>1. k # 0 /\ \A j \in k + 1 .. Len(p) : ~Barrier(p[j].msg)
    BY <1>1 DEF Replaceable
  <2>2. k \in 1 .. Len(p) /\ SameProjection(p[k].msg, m)
    BY <2>1, LastSameFacts
  <2>3. Superseded(p, m) = RemoveAt(p, k) /\ Merged(p, m) = Merge(p[k].msg, m)
    BY <1>1 DEF Superseded, Merged
  <2> HIDE DEF k
  <2>4. RemoveAt(p, k) \in Seq(Entries) /\ Without(p, RemoveAt(p, k), k)
    BY <2>2, RemoveFacts
  <2> QED
    BY <2>1, <2>2, <2>3, <2>4 DEF Supersedes
<1>2. CASE ~Replaceable(p, k)
  BY <1>2 DEF Superseded, Merged
<1> QED
  BY <1>1, <1>2

\* A merged message is about the same subject, has the same ordinal, and reports
\* a change if either of the two did.
LEMMA MergeFacts ==
  ASSUME NEW old \in Messages, NEW m \in Messages
  PROVE  /\ Merge(old, m) \in Messages
         /\ Merge(old, m).kind = m.kind /\ Merge(old, m).key = m.key /\ Merge(old, m).n = m.n
         /\ m.changed => Merge(old, m).changed
         /\ (old.changed /\ m.kind = "PaneEvidence") => Merge(old, m).changed
         /\ Merge(old, m).changed => m.changed \/ m.kind = "PaneEvidence"
<1>1. CASE m.kind = "PaneEvidence"
  <2>1. Merge(old, m) = [m EXCEPT !.changed = m.changed \/ old.changed]
    BY <1>1 DEF Merge
  <2>2. (m.changed \/ old.changed) \in BOOLEAN
    OBVIOUS
  <2> QED
    BY <1>1, <2>1, <2>2 DEF Messages
<1>2. CASE m.kind # "PaneEvidence"
  BY <1>2 DEF Merge
<1> QED
  BY <1>1, <1>2

\* A place that leaves the queue leaves the line.
LEMMA LineWithout ==
  ASSUME NEW d \in Seq(Messages), NEW s \in Seq(Messages), NEW p \in Seq(Entries),
         NEW q \in Seq(Entries), NEW k \in 1 .. Len(p), Without(p, q, k)
  PROVE  Without(Line(d, s, p), Line(d, s, q), Len(d) + Len(s) + k)
<1> DEFINE l == Line(d, s, p)
           r == Line(d, s, q)
           a == Len(d) + Len(s)
<1>0. Len(d) \in Nat /\ Len(s) \in Nat /\ Len(p) \in Nat /\ Len(q) = Len(p) - 1 /\ Len(q) \in Nat
  BY LenProperties DEF Without
<1>1. /\ Len(l) = a + Len(p)
      /\ \A i \in 1 .. Len(d) : l[i] = d[i]
      /\ \A i \in 1 .. Len(s) : l[Len(d) + i] = s[i]
      /\ \A i \in 1 .. Len(p) : l[a + i] = p[i].msg
  BY Zenon, LineFacts
<1>2. /\ Len(r) = a + Len(q)
      /\ \A i \in 1 .. Len(d) : r[i] = d[i]
      /\ \A i \in 1 .. Len(s) : r[Len(d) + i] = s[i]
      /\ \A i \in 1 .. Len(q) : r[a + i] = q[i].msg
  BY Zenon, LineFacts
<1> HIDE DEF l, r
<1>3. ASSUME NEW j \in 1 .. Len(r) PROVE r[j] = IF j < a + k THEN l[j] ELSE l[j + 1]
  <2>1. CASE j <= Len(d)
    BY <1>0, <1>1, <1>2, <2>1
  <2>2. CASE j > Len(d) /\ j <= a
    <3>1. j - Len(d) \in 1 .. Len(s) /\ Len(d) + (j - Len(d)) = j /\ j < a + k
      BY <1>0, <2>2
    <3>2. r[Len(d) + (j - Len(d))] = s[j - Len(d)] /\ l[Len(d) + (j - Len(d))] = s[j - Len(d)]
      BY Zenon, <1>1, <1>2, <3>1
    <3> QED
      BY <3>1, <3>2
  <2>3. CASE j > a
    <3> DEFINE i == j - a
    <3>1. i \in 1 .. Len(q) /\ a + i = j /\ i \in 1 .. Len(p) /\ i + 1 \in 1 .. Len(p)
          /\ a + (i + 1) = j + 1 /\ (i < k <=> j < a + k)
      BY <1>0, <1>2, <2>3
    <3> HIDE DEF i
    <3>2. q[i] = IF i < k THEN p[i] ELSE p[i + 1]
      BY Zenon, <3>1 DEF Without
    <3>3. r[j] = q[i].msg /\ l[j] = p[i].msg /\ l[j + 1] = p[i + 1].msg
      <4>1. r[a + i] = q[i].msg
        BY Zenon, <1>2, <3>1
      <4>2. l[a + i] = p[i].msg
        BY <1>1, <3>1
      <4>3. l[a + (i + 1)] = p[i + 1].msg
        BY <1>1, <3>1
      <4> QED
        BY <3>1, <4>1, <4>2, <4>3
    <3> QED
      BY <3>1, <3>2, <3>3
  <2> QED
    BY <1>0, <1>2, <2>1, <2>2, <2>3
<1>4. a + k \in 1 .. Len(l) /\ Len(r) = Len(l) - 1
  BY <1>0, <1>1, <1>2
<1> QED
  BY <1>3, <1>4 DEF Without, l, r

\* A message queued at the end is the last of the line.
LEMMA LineExtended ==
  ASSUME NEW d \in Seq(Messages), NEW s \in Seq(Messages), NEW p \in Seq(Entries), NEW e \in Entries
  PROVE  Append(p, e) \in Seq(Entries) /\ Extended(Line(d, s, p), Line(d, s, Append(p, e)), e.msg)
<1> DEFINE q == Append(p, e)
           l == Line(d, s, p)
           r == Line(d, s, q)
           a == Len(d) + Len(s)
<1>0. Len(d) \in Nat /\ Len(s) \in Nat /\ Len(p) \in Nat
  BY LenProperties
<1>1. /\ q \in Seq(Entries) /\ Len(q) = Len(p) + 1 /\ q[Len(p) + 1] = e
      /\ \A i \in 1 .. Len(p) : q[i] = p[i]
  BY AppendProperties
<1> HIDE DEF q
<1>2. /\ Len(l) = a + Len(p)
      /\ \A i \in 1 .. Len(d) : l[i] = d[i]
      /\ \A i \in 1 .. Len(s) : l[Len(d) + i] = s[i]
      /\ \A i \in 1 .. Len(p) : l[a + i] = p[i].msg
  BY Zenon, LineFacts
<1>3. /\ Len(r) = a + Len(q)
      /\ \A i \in 1 .. Len(d) : r[i] = d[i]
      /\ \A i \in 1 .. Len(s) : r[Len(d) + i] = s[i]
      /\ \A i \in 1 .. Len(q) : r[a + i] = q[i].msg
  BY Zenon, <1>1, LineFacts
<1> HIDE DEF l, r
<1>4. ASSUME NEW j \in 1 .. Len(l) PROVE r[j] = l[j]
  <2>1. CASE j <= Len(d)
    BY <1>0, <1>2, <1>3, <2>1
  <2>2. CASE j > Len(d) /\ j <= a
    <3>1. j - Len(d) \in 1 .. Len(s) /\ Len(d) + (j - Len(d)) = j
      BY <1>0, <2>2
    <3>2. r[Len(d) + (j - Len(d))] = s[j - Len(d)] /\ l[Len(d) + (j - Len(d))] = s[j - Len(d)]
      BY Zenon, <1>2, <1>3, <3>1
    <3> QED
      BY <3>1, <3>2
  <2>3. CASE j > a
    <3> DEFINE i == j - a
    <3>1. i \in 1 .. Len(q) /\ a + i = j /\ i \in 1 .. Len(p)
      BY <1>0, <1>1, <1>2, <2>3
    <3> HIDE DEF i
    <3>2. r[a + i] = q[i].msg /\ l[a + i] = p[i].msg /\ q[i] = p[i]
      BY <1>1, <1>2, <1>3, <3>1
    <3> QED
      BY <3>1, <3>2
  <2> QED
    BY <1>0, <1>2, <2>1, <2>2, <2>3
<1>5. Len(r) = Len(l) + 1 /\ r[Len(r)] = e.msg
  <2>1. Len(p) + 1 \in 1 .. Len(q) /\ a + (Len(p) + 1) = Len(r)
    BY <1>0, <1>1, <1>3
  <2>2. r[a + (Len(p) + 1)] = e.msg
    BY <1>1, <1>3, <2>1
  <2> QED
    BY <1>0, <1>1, <1>2, <1>3, <2>1, <2>2
<1> QED
  BY <1>1, <1>4, <1>5 DEF Extended, q, l, r

-----------------------------------------------------------------------------
(* The inductive invariant, on a line l and the accepted messages a.       *)

\* The line carries accepted messages, each at most once and in push order: a
\* message's ordinal is its place among the accepted ones.
Good(l, a) ==
  /\ \A i \in 1 .. Len(a) : a[i].n = i
  /\ \A i \in 1 .. Len(l) :
       /\ l[i].n \in 1 .. Len(a)
       /\ l[i].kind = a[l[i].n].kind
       /\ l[i].key = a[l[i].n].key
       /\ l[i].changed => l[i].kind = "PaneEvidence"
  /\ \A i, j \in 1 .. Len(l) : i < j => l[i].n < l[j].n

Held(l, i) == \E x \in 1 .. Len(l) : l[x].n = i

\* No lifecycle operation was accepted after the i-th push and before the j-th.
NoBarrier(a, i, j) == \A b \in i + 1 .. j - 1 : ~Barrier(a[b])

Replaced(a, i) == \E j \in i + 1 .. Len(a) : SameProjection(a[i], a[j]) /\ NoBarrier(a, i, j)

\* What was accepted is on the line, or was replaced, or is what the push that
\* failed the outbox would have replaced.
Kept(l, a, failed) ==
  \A i \in 1 .. Len(a) :
    \/ Held(l, i)
    \/ Replaced(a, i)
    \/ failed /\ a[i].kind \in Projections /\ NoBarrier(a, i, Len(a) + 1)

\* A change that was accepted is reported on the line, at its place or later.
Told(l, a) ==
  \A i \in 1 .. Len(a) :
    a[i].changed => \E x \in 1 .. Len(l) : l[x].n >= i /\ l[x].key = a[i].key /\ l[x].changed

\* A place that leaves the line leaves it good, and every other message on it.
LEMMA GoodWithout ==
  ASSUME NEW a \in Seq(Messages), NEW l \in Seq(Messages), NEW r \in Seq(Messages),
         NEW k \in 1 .. Len(l), Without(l, r, k), Good(l, a)
  PROVE  /\ Good(r, a)
         /\ \A x \in 1 .. Len(l) : x # k => \E y \in 1 .. Len(r) : r[y] = l[x]
<1>0. Len(l) \in Nat /\ Len(a) \in Nat /\ Len(r) = Len(l) - 1
      /\ \A j \in 1 .. Len(r) : r[j] = IF j < k THEN l[j] ELSE l[j + 1]
  BY LenProperties DEF Without
<1> DEFINE from(j) == IF j < k THEN j ELSE j + 1
<1>1. \A j \in 1 .. Len(r) : from(j) \in 1 .. Len(l) /\ r[j] = l[from(j)]
  BY <1>0
<1>2. \A i, j \in 1 .. Len(r) : i < j => from(i) < from(j)
  BY <1>0
<1> HIDE DEF from
<1>3. Good(r, a)
  <2>1. \A i \in 1 .. Len(a) : a[i].n = i
    BY DEF Good
  <2>2. ASSUME NEW i \in 1 .. Len(r)
        PROVE  /\ r[i].n \in 1 .. Len(a)
               /\ r[i].kind = a[r[i].n].kind
               /\ r[i].key = a[r[i].n].key
               /\ r[i].changed => r[i].kind = "PaneEvidence"
    <3>1. PICK x \in 1 .. Len(l) : r[i] = l[x]
      BY <1>1
    <3> QED
      BY <3>1 DEF Good
  <2>3. ASSUME NEW i \in 1 .. Len(r), NEW j \in 1 .. Len(r), i < j PROVE r[i].n < r[j].n
    BY Zenon, <1>1, <1>2, <2>3 DEF Good
  <2> QED
    BY <2>1, <2>2, <2>3 DEF Good
<1>4. ASSUME NEW x \in 1 .. Len(l), x # k PROVE \E y \in 1 .. Len(r) : r[y] = l[x]
  <2>1. CASE x < k
    BY <1>0, <2>1
  <2>2. CASE x > k
    <3>1. x - 1 \in 1 .. Len(r) /\ ~(x - 1 < k) /\ (x - 1) + 1 = x
      BY <1>0, <2>2
    <3>2. r[x - 1] = l[(x - 1) + 1]
      BY <1>0, <3>1
    <3> QED
      BY <3>1, <3>2
  <2> QED
    BY <1>0, <1>4, <2>1, <2>2
<1> QED
  BY <1>3, <1>4

\* An accepted message at the end leaves the line good.
LEMMA GoodExtended ==
  ASSUME NEW a \in Seq(Messages), NEW l \in Seq(Messages), NEW r \in Seq(Messages),
         NEW m \in Messages, NEW m2 \in Messages, Good(l, a), Extended(l, r, m2),
         m.n = Len(a) + 1, m2.n = m.n, m2.kind = m.kind, m2.key = m.key,
         m2.changed => m2.kind = "PaneEvidence"
  PROVE  Good(r, Append(a, m))
<1> DEFINE c == Append(a, m)
<1>0. Len(l) \in Nat /\ Len(a) \in Nat
  BY LenProperties
<1>1. Len(c) = Len(a) + 1 /\ c[Len(a) + 1] = m /\ \A i \in 1 .. Len(a) : c[i] = a[i]
  BY AppendProperties
<1>2. Len(r) = Len(l) + 1 /\ r[Len(l) + 1] = m2 /\ \A j \in 1 .. Len(l) : r[j] = l[j]
  BY DEF Extended
<1> HIDE DEF c
<1>3. \A i \in 1 .. Len(c) : c[i].n = i
  BY <1>0, <1>1 DEF Good
<1>4. ASSUME NEW i \in 1 .. Len(r)
      PROVE  /\ r[i].n \in 1 .. Len(c)
             /\ r[i].kind = c[r[i].n].kind
             /\ r[i].key = c[r[i].n].key
             /\ r[i].changed => r[i].kind = "PaneEvidence"
  <2>1. CASE i = Len(l) + 1
    BY <1>0, <1>1, <1>2, <2>1
  <2>2. CASE i \in 1 .. Len(l)
    <3>1. r[i] = l[i] /\ l[i].n \in 1 .. Len(a) /\ l[i].n \in 1 .. Len(c)
      BY <1>0, <1>1, <1>2, <2>2 DEF Good
    <3>2. c[l[i].n] = a[l[i].n]
      BY <1>1, <3>1
    <3> QED
      BY <2>2, <3>1, <3>2 DEF Good
  <2> QED
    BY <1>0, <1>2, <2>1, <2>2
<1>5. ASSUME NEW i \in 1 .. Len(r), NEW j \in 1 .. Len(r), i < j PROVE r[i].n < r[j].n
  <2>1. i \in 1 .. Len(l) /\ r[i] = l[i] /\ l[i].n \in 1 .. Len(a)
    BY <1>0, <1>2, <1>5 DEF Good
  <2>2. CASE j = Len(l) + 1
    BY <1>0, <1>2, <2>1, <2>2
  <2>3. CASE j \in 1 .. Len(l)
    BY <1>2, <1>5, <2>1, <2>3 DEF Good
  <2> QED
    BY <1>0, <1>2, <2>2, <2>3
<1> QED
  BY <1>3, <1>4, <1>5 DEF Good, c

\* Once the outbox is healthy, a place with no lifecycle operation behind it on the
\* line has none accepted after it: those are never off the line.
LEMMA NoBarrierBehind ==
  ASSUME NEW a \in Seq(Messages), NEW l \in Seq(Messages), NEW k \in 1 .. Len(l),
         Good(l, a), Kept(l, a, FALSE), \A j \in k + 1 .. Len(l) : ~Barrier(l[j])
  PROVE  NoBarrier(a, l[k].n, Len(a) + 1)
<1>0. Len(l) \in Nat /\ Len(a) \in Nat /\ l[k].n \in 1 .. Len(a)
  BY LenProperties DEF Good
<1> SUFFICES ASSUME NEW b \in l[k].n + 1 .. (Len(a) + 1) - 1, Barrier(a[b]) PROVE FALSE
  BY DEF NoBarrier
<1>1. b \in 1 .. Len(a) /\ l[k].n < b
  BY <1>0
<1>2. ~Replaced(a, b)
  BY DEF Replaced, SameProjection, Barrier
<1>3. PICK x \in 1 .. Len(l) : l[x].n = b
  BY <1>1, <1>2 DEF Kept, Held
<1>4. x # k /\ ~(x < k)
  BY <1>0, <1>1, <1>3 DEF Good
<1>5. x \in k + 1 .. Len(l)
  BY <1>0, <1>4
<1>6. l[x].kind = a[b].kind
  BY <1>3 DEF Good
<1> QED
  BY <1>5, <1>6 DEF Barrier

\* A push that supersedes place k and then overflows loses that place only.
LEMMA KeptDropped ==
  ASSUME NEW a \in Seq(Messages), NEW l \in Seq(Messages), NEW r \in Seq(Messages),
         NEW k \in 1 .. Len(l), Without(l, r, k), Good(l, a), Kept(l, a, FALSE),
         l[k].kind \in Projections, \A j \in k + 1 .. Len(l) : ~Barrier(l[j])
  PROVE  /\ \A i \in 1 .. Len(a) : i # l[k].n => Held(r, i) \/ Replaced(a, i)
         /\ Kept(r, a, TRUE)
<1>1. NoBarrier(a, l[k].n, Len(a) + 1)
  BY Zenon, NoBarrierBehind
<1>2. \A x \in 1 .. Len(l) : x # k => \E y \in 1 .. Len(r) : r[y] = l[x]
  BY GoodWithout
<1>3. ASSUME NEW i \in 1 .. Len(a), i # l[k].n PROVE Held(r, i) \/ Replaced(a, i)
  <2>1. CASE Held(l, i)
    <3>1. PICK x \in 1 .. Len(l) : l[x].n = i
      BY <2>1 DEF Held
    <3>2. PICK y \in 1 .. Len(r) : r[y] = l[x]
      BY <1>2, <1>3, <3>1
    <3> QED
      BY Zenon, <3>1, <3>2 DEF Held
  <2> QED
    BY <2>1 DEF Kept
<1>4. l[k].n \in 1 .. Len(a) /\ a[l[k].n].kind \in Projections
  BY DEF Good
<1> QED
  BY <1>1, <1>3, <1>4 DEF Kept

\* One more accepted message leaves every earlier replacement a replacement.
LEMMA ReplacedStays ==
  ASSUME NEW a \in Seq(Messages), NEW m \in Messages, NEW i \in 1 .. Len(a), Replaced(a, i)
  PROVE  Replaced(Append(a, m), i)
<1> DEFINE c == Append(a, m)
<1>0. Len(a) \in Nat
  BY LenProperties
<1>1. Len(c) = Len(a) + 1 /\ \A x \in 1 .. Len(a) : c[x] = a[x]
  BY AppendProperties
<1> HIDE DEF c
<1>2. PICK j \in i + 1 .. Len(a) : SameProjection(a[i], a[j]) /\ NoBarrier(a, i, j)
  BY DEF Replaced
<1>3. j \in i + 1 .. Len(c) /\ j \in 1 .. Len(a)
  BY <1>0, <1>1
<1>4. c[i] = a[i] /\ c[j] = a[j]
  BY <1>1, <1>3
<1>5. \A b \in i + 1 .. j - 1 : b \in 1 .. Len(a)
  BY <1>0
<1>6. NoBarrier(c, i, j)
  BY <1>1, <1>2, <1>5 DEF NoBarrier
<1>7. Replaced(c, i)
  BY <1>2, <1>3, <1>4, <1>6 DEF Replaced
<1> QED
  BY <1>7 DEF c

\* A message accepted at the end of a line keeps what the line r kept, and replaces
\* the place k that left it for this message, if one did.
LEMMA KeptExtended ==
  ASSUME NEW a \in Seq(Messages), NEW r \in Seq(Messages), NEW t \in Seq(Messages),
         NEW m \in Messages, NEW m2 \in Messages, NEW old,
         Extended(r, t, m2), m2.n = Len(a) + 1,
         \A i \in 1 .. Len(a) : i # old => Held(r, i) \/ Replaced(a, i),
         old \in 1 .. Len(a) => SameProjection(a[old], m) /\ NoBarrier(a, old, Len(a) + 1)
  PROVE  Kept(t, Append(a, m), FALSE)
<1> DEFINE c == Append(a, m)
<1>0. Len(a) \in Nat /\ Len(r) \in Nat
  BY LenProperties
<1>1. Len(c) = Len(a) + 1 /\ c[Len(a) + 1] = m /\ \A x \in 1 .. Len(a) : c[x] = a[x]
  BY AppendProperties
<1>2. Len(t) = Len(r) + 1 /\ t[Len(r) + 1] = m2 /\ \A j \in 1 .. Len(r) : t[j] = r[j]
  BY DEF Extended
<1>3. \A i \in 1 .. Len(a) : Replaced(a, i) => Replaced(c, i)
  BY ReplacedStays
<1> HIDE DEF c
<1>4. ASSUME NEW i \in 1 .. Len(c) PROVE Held(t, i) \/ Replaced(c, i)
  <2>1. CASE i = Len(a) + 1
    BY <1>0, <1>2, <2>1 DEF Held
  <2>2. CASE i \in 1 .. Len(a) /\ i # old
    <3>1. \A x \in 1 .. Len(r) : x \in 1 .. Len(t)
      BY <1>0, <1>2
    <3>2. Held(r, i) => Held(t, i)
      BY <1>2, <3>1 DEF Held
    <3> QED
      BY <1>3, <2>2, <3>2
  <2>3. CASE i \in 1 .. Len(a) /\ i = old
    <3>1. SameProjection(a[i], m) /\ NoBarrier(a, i, Len(a) + 1)
      BY <2>3
    <3>2. c[i] = a[i] /\ c[Len(a) + 1] = m /\ Len(a) + 1 \in i + 1 .. Len(c)
      BY <1>0, <1>1, <2>3
    <3>3. \A b \in i + 1 .. (Len(a) + 1) - 1 : b \in 1 .. Len(a)
      BY <1>0, <2>3
    <3>4. NoBarrier(c, i, Len(a) + 1)
      BY <1>1, <3>1, <3>3 DEF NoBarrier
    <3> QED
      BY <3>1, <3>2, <3>4 DEF Replaced
  <2> QED
    BY <1>0, <1>1, <2>1, <2>2, <2>3
<1>5. Kept(t, c, FALSE)
  BY <1>4 DEF Kept
<1> QED
  BY Zenon, <1>5 DEF c

\* A message accepted at the end of a line reports what it was asked to report,
\* and what the place k that left the line for it reported.
LEMMA ToldExtended ==
  ASSUME NEW a \in Seq(Messages), NEW l \in Seq(Messages), NEW r \in Seq(Messages),
         NEW t \in Seq(Messages), NEW m \in Messages, NEW m2 \in Messages, NEW k,
         Good(l, a), Told(l, a), Extended(r, t, m2), m2.n = Len(a) + 1, m2.key = m.key,
         m.changed => m2.changed,
         \A x \in 1 .. Len(l) : x # k => \E y \in 1 .. Len(r) : r[y] = l[x],
         k \in 1 .. Len(l) => l[k].key = m.key /\ (l[k].changed => m2.changed)
  PROVE  Told(t, Append(a, m))
<1> DEFINE c == Append(a, m)
<1>0. Len(a) \in Nat /\ Len(r) \in Nat /\ Len(l) \in Nat
  BY LenProperties
<1>1. Len(c) = Len(a) + 1 /\ c[Len(a) + 1] = m /\ \A x \in 1 .. Len(a) : c[x] = a[x]
  BY AppendProperties
<1>2. Len(t) = Len(r) + 1 /\ t[Len(r) + 1] = m2 /\ \A j \in 1 .. Len(r) : t[j] = r[j]
  BY DEF Extended
<1> HIDE DEF c
<1>3. Len(r) + 1 \in 1 .. Len(t)
  BY <1>0, <1>2
<1>4. ASSUME NEW i \in 1 .. Len(c), c[i].changed
      PROVE  \E x \in 1 .. Len(t) : t[x].n >= i /\ t[x].key = c[i].key /\ t[x].changed
  <2>1. CASE i = Len(a) + 1
    <3> DEFINE last == Len(r) + 1
    <3>1. c[i] = m /\ m.changed
      BY <1>1, <1>4, <2>1
    <3>2. m2.n >= i
      BY <1>0, <2>1
    <3>3. t[last] = m2 /\ last \in 1 .. Len(t)
      BY <1>2, <1>3
    <3> HIDE DEF last
    <3>4. t[last].n >= i /\ t[last].key = c[i].key /\ t[last].changed
      BY <3>1, <3>2, <3>3
    <3> QED
      BY <3>3, <3>4
  <2>2. CASE i \in 1 .. Len(a)
    <3>1. c[i] = a[i] /\ a[i].changed
      BY <1>1, <1>4, <2>2
    <3>2. PICK x \in 1 .. Len(l) : l[x].n >= i /\ l[x].key = a[i].key /\ l[x].changed
      BY <2>2, <3>1 DEF Told
    <3>3. CASE x = k
      <4>1. t[Len(r) + 1].n >= i /\ t[Len(r) + 1].key = c[i].key /\ t[Len(r) + 1].changed
        BY <1>0, <1>2, <2>2, <3>1, <3>2, <3>3
      <4> QED
        BY <1>3, <4>1
    <3>4. CASE x # k
      <4>1. PICK y \in 1 .. Len(r) : r[y] = l[x]
        BY Zenon, <3>4
      <4>2. y \in 1 .. Len(t) /\ t[y] = l[x]
        BY <1>0, <1>2, <4>1
      <4> QED
        BY <3>1, <3>2, <4>2
    <3> QED
      BY <3>3, <3>4
  <2>3. i = Len(a) + 1 \/ i \in 1 .. Len(a)
    BY <1>0, <1>1
  <2> QED
    BY <2>1, <2>2, <2>3
<1>5. Told(t, c)
  BY <1>4 DEF Told
<1> QED
  BY <1>5 DEF c

-----------------------------------------------------------------------------
(* The steps.                                                              *)

\* The head of queue p is in slot s2, which was the empty slot s, and q is the rest.
HandedOver(s, p, s2, q) ==
  /\ Len(s) = 0 /\ Len(s2) = 1 /\ Len(p) >= 1 /\ s2[1] = p[1].msg
  /\ Len(q) = Len(p) - 1 /\ \A i \in 1 .. Len(q) : q[i] = p[i + 1]

\* The head of the queue in an empty slot stands where it stood.
LEMMA LineHandedOver ==
  ASSUME NEW d \in Seq(Messages), NEW s \in Seq(Messages), NEW p \in Seq(Entries),
         NEW s2 \in Seq(Messages), NEW q \in Seq(Entries), HandedOver(s, p, s2, q)
  PROVE  Line(d, s2, q) = Line(d, s, p)
<1> DEFINE l == Line(d, s, p)
           r == Line(d, s2, q)
<1>0. Len(d) \in Nat /\ Len(p) \in Nat /\ Len(q) \in Nat
      /\ Len(s) = 0 /\ Len(s2) = 1 /\ Len(p) >= 1 /\ s2[1] = p[1].msg
      /\ Len(q) = Len(p) - 1 /\ \A i \in 1 .. Len(q) : q[i] = p[i + 1]
  BY LenProperties DEF HandedOver
<1>1. /\ l \in Seq(Messages) /\ Len(l) = Len(d) + Len(s) + Len(p)
      /\ \A i \in 1 .. Len(d) : l[i] = d[i]
      /\ \A i \in 1 .. Len(p) : l[Len(d) + Len(s) + i] = p[i].msg
  BY Zenon, LineFacts
<1>2. /\ r \in Seq(Messages) /\ Len(r) = Len(d) + Len(s2) + Len(q)
      /\ \A i \in 1 .. Len(d) : r[i] = d[i]
      /\ \A i \in 1 .. Len(s2) : r[Len(d) + i] = s2[i]
      /\ \A i \in 1 .. Len(q) : r[Len(d) + Len(s2) + i] = q[i].msg
  BY Zenon, LineFacts
<1> HIDE DEF l, r
<1>3. Len(l) = Len(r) /\ Len(l) = Len(d) + Len(p)
  BY <1>0, <1>1, <1>2
<1>4. ASSUME NEW i \in 1 .. Len(l) PROVE l[i] = r[i]
  <2>1. CASE i <= Len(d)
    BY <1>0, <1>1, <1>2, <2>1
  <2>2. CASE i = Len(d) + 1
    <3>1. 1 \in 1 .. Len(p) /\ Len(d) + Len(s) + 1 = i /\ 1 \in 1 .. Len(s2)
      BY <1>0, <2>2
    <3>2. l[Len(d) + Len(s) + 1] = p[1].msg
      BY <1>1, <3>1
    <3>3. r[Len(d) + 1] = s2[1]
      BY <1>2, <3>1
    <3> QED
      BY <1>0, <2>2, <3>1, <3>2, <3>3
  <2>3. CASE i > Len(d) + 1
    <3> DEFINE x == i - (Len(d) + 1)
    <3>1. x \in 1 .. Len(q) /\ x + 1 \in 1 .. Len(p)
          /\ Len(d) + Len(s) + (x + 1) = i /\ Len(d) + Len(s2) + x = i
      BY <1>0, <1>3, <2>3
    <3> HIDE DEF x
    <3>2. l[Len(d) + Len(s) + (x + 1)] = p[x + 1].msg
      BY <1>1, <3>1
    <3>3. r[Len(d) + Len(s2) + x] = q[x].msg
      BY <1>2, <3>1
    <3>4. q[x] = p[x + 1]
      BY <1>0, <3>1
    <3> QED
      BY <3>1, <3>2, <3>3, <3>4
  <2>4. i <= Len(d) \/ i = Len(d) + 1 \/ i > Len(d) + 1
    <3>1. i \in Int /\ Len(d) \in Int
      BY <1>0, <1>3
    <3> QED
      BY ONLY <3>1
  <2> QED
    BY <2>1, <2>2, <2>3, <2>4
<1>5. l = r
  BY <1>1, <1>2, <1>3, <1>4, SeqEqual
<1> QED
  BY <1>5 DEF l, r

\* The runtime has taken the message in slot s, and slot s2 is empty.
Received(d, s, d2, s2) == Len(s) = 1 /\ Len(s2) = 0 /\ Extended(d, d2, s[1])

\* The message the runtime takes from the slot stands where it stood.
LEMMA LineReceived ==
  ASSUME NEW d \in Seq(Messages), NEW s \in Seq(Messages), NEW p \in Seq(Entries),
         NEW d2 \in Seq(Messages), NEW s2 \in Seq(Messages), Received(d, s, d2, s2)
  PROVE  Line(d2, s2, p) = Line(d, s, p)
<1> DEFINE l == Line(d, s, p)
           r == Line(d2, s2, p)
<1>0. Len(d) \in Nat /\ Len(p) \in Nat /\ Len(d2) = Len(d) + 1 /\ d2[Len(d) + 1] = s[1]
      /\ Len(s) = 1 /\ Len(s2) = 0 /\ \A i \in 1 .. Len(d) : d2[i] = d[i]
  BY LenProperties DEF Extended, Received
<1>1. /\ l \in Seq(Messages) /\ Len(l) = Len(d) + Len(s) + Len(p)
      /\ \A i \in 1 .. Len(d) : l[i] = d[i]
      /\ \A i \in 1 .. Len(s) : l[Len(d) + i] = s[i]
      /\ \A i \in 1 .. Len(p) : l[Len(d) + Len(s) + i] = p[i].msg
  BY Zenon, LineFacts
<1>2. /\ r \in Seq(Messages) /\ Len(r) = Len(d2) + Len(s2) + Len(p)
      /\ \A i \in 1 .. Len(d2) : r[i] = d2[i]
      /\ \A i \in 1 .. Len(p) : r[Len(d2) + Len(s2) + i] = p[i].msg
  BY Zenon, LineFacts
<1> HIDE DEF l, r
<1>3. Len(l) = Len(r) /\ Len(l) = Len(d) + 1 + Len(p)
  BY <1>0, <1>1, <1>2
<1>4. ASSUME NEW i \in 1 .. Len(l) PROVE l[i] = r[i]
  <2>1. CASE i <= Len(d)
    BY <1>0, <1>1, <1>2, <2>1
  <2>2. CASE i = Len(d) + 1
    <3>1. 1 \in 1 .. Len(s) /\ i \in 1 .. Len(d2)
      BY <1>0, <2>2
    <3>2. l[Len(d) + 1] = s[1]
      BY <1>1, <3>1
    <3>3. r[i] = d2[i]
      BY <1>2, <3>1
    <3> QED
      BY <1>0, <2>2, <3>2, <3>3
  <2>3. CASE i > Len(d) + 1
    <3> DEFINE x == i - (Len(d) + 1)
    <3>1. x \in 1 .. Len(p) /\ Len(d) + Len(s) + x = i /\ Len(d2) + Len(s2) + x = i
      BY <1>0, <1>3, <2>3
    <3> HIDE DEF x
    <3>2. l[Len(d) + Len(s) + x] = p[x].msg
      BY <1>1, <3>1
    <3>3. r[Len(d2) + Len(s2) + x] = p[x].msg
      BY <1>2, <3>1
    <3> QED
      BY <3>1, <3>2, <3>3
  <2>4. i <= Len(d) \/ i = Len(d) + 1 \/ i > Len(d) + 1
    <3>1. i \in Int /\ Len(d) \in Int
      BY <1>0, <1>3
    <3> QED
      BY ONLY <3>1
  <2> QED
    BY <2>1, <2>2, <2>3, <2>4
<1>5. l = r
  BY Zenon, <1>1, <1>2, <1>3, <1>4, SeqEqual
<1> QED
  BY <1>5 DEF l, r

\* The line of what an outbox and a slot hold.
LineOf(b, s) == Line(delivered, s, b.pending)

\* The outbox, the slot and the histories as far as the proof needs them, and what
\* the line of the outbox b and the slot s has to be.
Sound(b, s, a, connected) ==
  /\ b.pending \in Seq(Entries)
  /\ s \in Seq(Messages) /\ Len(s) <= 1
  /\ a \in Seq(Messages)
  /\ Good(LineOf(b, s), a)
  /\ connected => Kept(LineOf(b, s), a, ~Healthy(b))
  /\ (connected /\ Healthy(b)) => Told(LineOf(b, s), a)

IInv ==
  /\ delivered \in Seq(Messages)
  /\ Sound(box, slot, accepted, Connected)

\* A flush moves the head of the queue to the slot: the line is what it was while
\* the runtime lives, and loses that head once it is gone.
LEMMA FlushSound ==
  ASSUME NEW b, NEW s, NEW a, delivered \in Seq(Messages), NEW connected \in BOOLEAN,
         Sound(b, s, a, connected)
  PROVE  Sound(Flush(b, s, connected), FlushSlot(b, s, connected), a, connected)
<1> DEFINE d == delivered
           p == b.pending
           b2 == Flush(b, s, connected)
           s2 == FlushSlot(b, s, connected)
<1>0. /\ p \in Seq(Entries) /\ s \in Seq(Messages) /\ a \in Seq(Messages) /\ d \in Seq(Messages)
      /\ Len(d) \in Nat /\ Len(s) \in Nat /\ Len(p) \in Nat /\ Len(s) <= 1
  BY LenProperties DEF Sound
<1>1. CASE p = << >> \/ (connected /\ s # << >>)
  <2>1. b2 = b /\ s2 = s
    BY <1>1 DEF Flush, FlushSlot
  <2> QED
    BY <2>1
<1>2. CASE p # << >> /\ (connected => s = << >>)
  <2> DEFINE q == Tail(p)
  <2>0. /\ q \in Seq(Entries) /\ Head(p) = p[1] /\ Len(q) = Len(p) - 1
        /\ \A i \in 1 .. Len(q) : q[i] = p[i + 1]
        /\ Len(p) >= 1
    BY <1>0, <1>2, HeadTailProperties, EmptySeq
  <2>1. b2.pending = q /\ (connected => b2.failure = b.failure)
    BY <1>2 DEF Flush
  <2> HIDE DEF q
  <2>2. Head(p).msg \in Messages
    <3>1. p[1] \in Entries
      BY <1>0, <2>0, ElementOfSeq
    <3> QED
      BY <2>0, <3>1 DEF Entries
  <2>3. CASE connected
    <3>1. s2 = << Head(p).msg >> /\ s = << >>
      BY <1>2, <2>3 DEF FlushSlot
    <3>2. s2 \in Seq(Messages) /\ Len(s2) = 1 /\ s2[1] = p[1].msg /\ Len(s) = 0
      BY <2>0, <2>2, <3>1
    <3> HIDE DEF b2, s2
    <3>3. Line(d, s2, q) = Line(d, s, p)
      <4> HIDE DEF p, d
      <4>1. p \in Seq(Entries) /\ s \in Seq(Messages) /\ d \in Seq(Messages) /\ q \in Seq(Entries)
        BY <1>0, <2>0
      <4>2. HandedOver(s, p, s2, q) /\ s2 \in Seq(Messages)
        BY <2>0, <3>2 DEF HandedOver
      <4> QED
        BY ONLY <4>1, <4>2, LineHandedOver
    <3>4. LineOf(b2, s2) = LineOf(b, s)
      BY <2>1, <3>3 DEF LineOf
    <3>5. Healthy(b2) <=> Healthy(b)
      BY <2>1, <2>3 DEF Healthy
    <3>6. Sound(b2, s2, a, connected)
      <4>1. b2.pending \in Seq(Entries) /\ s2 \in Seq(Messages) /\ Len(s2) <= 1
        BY <2>0, <2>1, <3>2
      <4> QED
        BY <3>4, <3>5, <4>1 DEF Sound
    <3> QED
      BY <3>6 DEF b2, s2
  <2>4. CASE ~connected
    <3>1. s2 = s
      BY <2>4 DEF FlushSlot
    <3> HIDE DEF b2, s2
    <3>2. Without(p, q, 1) /\ 1 \in 1 .. Len(p)
      BY <1>0, <2>0 DEF Without
    <3>3. Without(Line(d, s, p), Line(d, s, q), Len(d) + Len(s) + 1)
      BY <1>0, <2>0, <3>2, LineWithout
    <3>4. Line(d, s, p) \in Seq(Messages) /\ Line(d, s, q) \in Seq(Messages)
      BY Zenon, <1>0, <2>0, LineFacts
    <3>5. Good(Line(d, s, p), a)
      BY DEF Sound, LineOf
    <3>6. Len(d) + Len(s) + 1 \in 1 .. Len(Line(d, s, p))
      BY <3>3 DEF Without
    <3>7. Good(Line(d, s, q), a)
      BY <1>0, <3>3, <3>4, <3>5, <3>6, GoodWithout
    <3>8. Sound(b2, s2, a, connected)
      <4>1. b2.pending \in Seq(Entries) /\ s2 \in Seq(Messages) /\ Len(s2) <= 1 /\ a \in Seq(Messages)
        BY <1>0, <2>0, <2>1, <3>1
      <4>2. Good(LineOf(b2, s2), a)
        BY <2>1, <3>1, <3>7 DEF LineOf
      <4> QED
        BY <2>4, <4>1, <4>2 DEF Sound
    <3> QED
      BY <3>8 DEF b2, s2
  <2> QED
    BY <2>3, <2>4
<1> QED
  BY <1>1, <1>2

\* What the line r keeps of the line l when push makes room for m, and how m2, the
\* message it queues, makes up for the place that left.
MadeRoom(l, r, a, m, m2) ==
  /\ Good(r, a)
  /\ Kept(l, a, FALSE) =>
       /\ Kept(r, a, TRUE)
       /\ \E old \in 0 .. Len(a) :
            /\ \A i \in 1 .. Len(a) : i # old => Held(r, i) \/ Replaced(a, i)
            /\ old # 0 => SameProjection(a[old], m) /\ NoBarrier(a, old, Len(a) + 1)
  /\ \E k \in 0 .. Len(l) :
       /\ \A x \in 1 .. Len(l) : x # k => \E y \in 1 .. Len(r) : r[y] = l[x]
       /\ k # 0 => l[k].key = m.key /\ (l[k].changed => m2.changed)

\* A push that supersedes nothing makes its room for free.
LEMMA RoomUnchanged ==
  ASSUME NEW a \in Seq(Messages), NEW l \in Seq(Messages), NEW m, Good(l, a)
  PROVE  MadeRoom(l, l, a, m, m)
<1>0. Len(l) \in Nat /\ Len(a) \in Nat
  BY LenProperties
<1>1. Kept(l, a, FALSE) => Kept(l, a, TRUE) /\ \A i \in 1 .. Len(a) : Held(l, i) \/ Replaced(a, i)
  BY DEF Kept
<1>2. 0 \in 0 .. Len(a) /\ 0 \in 0 .. Len(l)
  BY <1>0
<1>3. \A x \in 1 .. Len(l) : \E y \in 1 .. Len(l) : l[y] = l[x]
  OBVIOUS
<1> QED
  BY Zenon, <1>1, <1>2, <1>3 DEF MadeRoom

\* A push that supersedes place k of the line makes room by that place.
LEMMA RoomSuperseded ==
  ASSUME NEW a \in Seq(Messages), NEW l \in Seq(Messages), NEW r \in Seq(Messages),
         NEW m, NEW m2, NEW k \in 1 .. Len(l), Good(l, a), Without(l, r, k),
         SameProjection(l[k], m), \A j \in k + 1 .. Len(l) : ~Barrier(l[j]),
         l[k].changed => m2.changed
  PROVE  MadeRoom(l, r, a, m, m2)
<1>0. Len(l) \in Nat /\ Len(a) \in Nat
  BY LenProperties
<1>1. Good(r, a) /\ \A x \in 1 .. Len(l) : x # k => \E y \in 1 .. Len(r) : r[y] = l[x]
  BY GoodWithout
<1>2. l[k].kind \in Projections /\ l[k].kind = m.kind /\ l[k].key = m.key
  BY DEF SameProjection
<1> DEFINE old == l[k].n
<1>3. old \in 1 .. Len(a) /\ SameProjection(a[old], m)
  BY <1>2 DEF Good, SameProjection
<1>4. ASSUME Kept(l, a, FALSE)
      PROVE  /\ Kept(r, a, TRUE)
             /\ \A i \in 1 .. Len(a) : i # old => Held(r, i) \/ Replaced(a, i)
             /\ NoBarrier(a, old, Len(a) + 1)
  BY Zenon, <1>2, <1>4, KeptDropped, NoBarrierBehind
<1> HIDE DEF old
<1>5. old \in 0 .. Len(a) /\ old # 0 /\ k \in 0 .. Len(l) /\ k # 0
  BY <1>0, <1>3
<1> QED
  BY Zenon, <1>1, <1>2, <1>3, <1>4, <1>5 DEF MadeRoom

\* Once there is room, the message at the end of the line keeps all three facts.
LEMMA RoomFilled ==
  ASSUME NEW a \in Seq(Messages), NEW l \in Seq(Messages), NEW r \in Seq(Messages),
         NEW t \in Seq(Messages), NEW m \in Messages, NEW m2 \in Messages,
         Good(l, a), MadeRoom(l, r, a, m, m2), Extended(r, t, m2),
         m.n = Len(a) + 1, m2.n = m.n, m2.kind = m.kind, m2.key = m.key,
         m2.changed => m2.kind = "PaneEvidence", m.changed => m2.changed
  PROVE  /\ Good(t, Append(a, m))
         /\ Kept(l, a, FALSE) => Kept(t, Append(a, m), FALSE)
         /\ Told(l, a) => Told(t, Append(a, m))
<1>0. Len(l) \in Nat /\ Len(a) \in Nat /\ m2.n = Len(a) + 1
  BY LenProperties
<1>1. Good(t, Append(a, m))
  <2>1. Good(r, a)
    BY DEF MadeRoom
  <2> QED
    BY <2>1, GoodExtended
<1>2. ASSUME Kept(l, a, FALSE) PROVE Kept(t, Append(a, m), FALSE)
  <2>1. PICK old \in 0 .. Len(a) :
          /\ \A i \in 1 .. Len(a) : i # old => Held(r, i) \/ Replaced(a, i)
          /\ old # 0 => SameProjection(a[old], m) /\ NoBarrier(a, old, Len(a) + 1)
    BY <1>2 DEF MadeRoom
  <2>2. old \in 1 .. Len(a) => SameProjection(a[old], m) /\ NoBarrier(a, old, Len(a) + 1)
    BY <1>0, <2>1
  <2> QED
    BY Zenon, <1>0, <2>1, <2>2, KeptExtended
<1>3. ASSUME Told(l, a) PROVE Told(t, Append(a, m))
  <2>1. PICK k \in 0 .. Len(l) :
          /\ \A x \in 1 .. Len(l) : x # k => \E y \in 1 .. Len(r) : r[y] = l[x]
          /\ k # 0 => l[k].key = m.key /\ (l[k].changed => m2.changed)
    BY DEF MadeRoom
  <2>2. k \in 1 .. Len(l) => l[k].key = m.key /\ (l[k].changed => m2.changed)
    BY <1>0, <2>1
  <2> QED
    BY Zenon, <1>0, <1>3, <2>1, <2>2, ToldExtended
<1> QED
  BY Zenon, <1>1, <1>2, <1>3

\* The outbox after a push, and what was accepted by then, are sound.
LEMMA PushSound ==
  ASSUME NEW b, NEW s, NEW a, NEW connected \in BOOLEAN, delivered \in Seq(Messages),
         Sound(b, s, a, connected), NEW m \in Messages, NEW size \in Nat,
         m.n = Len(a) + 1, m.changed => m.kind = "PaneEvidence"
  PROVE  Sound(Push(b, m, size), s,
               IF Push(b, m, size).failure = "none" THEN Append(a, m) ELSE a, connected)
<1> DEFINE d    == delivered
           p    == b.pending
           q    == Superseded(p, m)
           m2   == Merged(p, m)
           b2   == Push(b, m, size)
           l    == Line(d, s, p)
           r    == Line(d, s, q)
<1>0. /\ p \in Seq(Entries) /\ s \in Seq(Messages) /\ a \in Seq(Messages) /\ d \in Seq(Messages)
      /\ Len(s) <= 1
  BY DEF Sound
<1>1. CASE b.failure # "none"
  <2>1. Push(b, m, size) = b
    BY <1>1 DEF Push
  <2> QED
    BY <1>1, <2>1
<1>2. CASE b.failure = "none"
  <2>0. q \in Seq(Entries) /\ l \in Seq(Messages) /\ r \in Seq(Messages) /\ Good(l, a)
    BY <1>0, PushFacts, LineFacts DEF Sound, LineOf
  <2>1. connected => Kept(l, a, FALSE) /\ Told(l, a)
    BY Zenon, <1>2 DEF Sound, LineOf, Healthy
  <2>2. /\ MadeRoom(l, r, a, m, m2) /\ m2 \in Messages
        /\ m2.n = m.n /\ m2.kind = m.kind /\ m2.key = m.key
        /\ m2.changed => m2.kind = "PaneEvidence"
        /\ m.changed => m2.changed
    <3>1. CASE q = p /\ m2 = m
      <4>1. MadeRoom(l, l, a, m, m)
        BY <1>0, <2>0, RoomUnchanged
      <4> QED
        BY <3>1, <4>1
    <3>2. CASE \E k \in 1 .. Len(p) : Supersedes(p, q, m, m2, k)
      <4>1. PICK k \in 1 .. Len(p) : Supersedes(p, q, m, m2, k)
        BY <3>2
      <4> DEFINE x == Len(d) + Len(s) + k
      <4>2. Without(l, r, x)
        BY <1>0, <2>0, <4>1, LineWithout DEF Supersedes
      <4>3. /\ Len(l) = Len(d) + Len(s) + Len(p)
            /\ \A i \in 1 .. Len(p) : l[Len(d) + Len(s) + i] = p[i].msg
            /\ Len(d) \in Nat /\ Len(s) \in Nat /\ Len(p) \in Nat
        BY Zenon, <1>0, LineFacts, LenProperties
      <4>4. /\ SameProjection(p[k].msg, m) /\ m2 = Merge(p[k].msg, m)
            /\ \A j \in k + 1 .. Len(p) : ~Barrier(p[j].msg)
        BY <4>1 DEF Supersedes
      <4>5. p[k].msg \in Messages
        <5>1. p[k] \in Entries
          BY <1>0, ElementOfSeq
        <5> QED
          BY <5>1 DEF Entries
      <4> HIDE DEF l, r, q, m2, p, d
      <4>6. x \in 1 .. Len(l) /\ l[x] = p[k].msg
        BY <4>3
      <4>7. ASSUME NEW j \in x + 1 .. Len(l) PROVE ~Barrier(l[j])
        <5> DEFINE i == j - (Len(d) + Len(s))
        <5>1. i \in k + 1 .. Len(p) /\ i \in 1 .. Len(p) /\ Len(d) + Len(s) + i = j
          BY <4>3
        <5> HIDE DEF i
        <5>2. l[Len(d) + Len(s) + i] = p[i].msg
          BY <4>3, <5>1
        <5> QED
          BY <4>4, <5>1, <5>2
      <4>8. SameProjection(l[x], m) /\ l[x].kind = m.kind
        BY <4>4, <4>6 DEF SameProjection
      <4>9. l[x].changed => l[x].kind = "PaneEvidence"
        BY <2>0, <4>6 DEF Good
      <4>10. /\ m2 \in Messages /\ m2.kind = m.kind /\ m2.key = m.key /\ m2.n = m.n
             /\ m.changed => m2.changed
             /\ l[x].changed /\ m.kind = "PaneEvidence" => m2.changed
             /\ m2.changed => m.changed \/ m.kind = "PaneEvidence"
        BY <4>4, <4>5, <4>6, MergeFacts
      <4> HIDE DEF x
      <4>11. MadeRoom(l, r, a, m, m2)
        BY <1>0, <2>0, <4>2, <4>6, <4>7, <4>8, <4>9, <4>10, RoomSuperseded
      <4> QED
        BY <4>10, <4>11
    <3> QED
      BY <1>0, <3>1, <3>2, PushFacts
  <2>3. CASE b2.failure = "none"
    <3> DEFINE e == [msg |-> m2, size |-> size]
    <3>1. b2.pending = Append(q, e)
      BY <1>2, <2>3 DEF Push
    <3>2. e \in Entries /\ e.msg = m2
      BY <2>2 DEF Entries
    <3> DEFINE t == Line(d, s, Append(q, e))
    <3> HIDE DEF e, m2, q
    <3>3. Append(q, e) \in Seq(Entries) /\ Extended(r, t, m2)
      BY <1>0, <2>0, <3>2, LineExtended
    <3>4. t \in Seq(Messages)
      BY Zenon, <1>0, <3>3, LineFacts
    <3> HIDE DEF l, r, t
    <3>5. /\ Good(t, Append(a, m))
          /\ Kept(l, a, FALSE) => Kept(t, Append(a, m), FALSE)
          /\ Told(l, a) => Told(t, Append(a, m))
      BY Zenon, <1>0, <2>0, <2>2, <3>3, <3>4, RoomFilled
    <3>6. Append(a, m) \in Seq(Messages)
      BY <1>0, AppendProperties
    <3>7. LineOf(b2, s) = t /\ Healthy(b2)
      BY <2>3, <3>1 DEF LineOf, t, Healthy
    <3> HIDE DEF b2, p
    <3>8. Sound(b2, s, Append(a, m), connected)
      BY Zenon, <1>0, <2>1, <3>1, <3>3, <3>5, <3>6, <3>7 DEF Sound
    <3> QED
      BY <2>3, <3>8 DEF b2
  <2>4. CASE b2.failure # "none"
    <3>1. b2.pending = q
      BY <1>2, <2>4 DEF Push
    <3> HIDE DEF q, m2
    <3>2. LineOf(b2, s) = r /\ ~Healthy(b2)
      BY <2>4, <3>1 DEF LineOf, Healthy
    <3> HIDE DEF b2, l, r, p
    <3>3. Good(r, a) /\ (connected => Kept(r, a, TRUE))
      BY Zenon, <2>1, <2>2 DEF MadeRoom
    <3>4. Sound(b2, s, a, connected)
      BY Zenon, <1>0, <2>0, <3>1, <3>2, <3>3 DEF Sound
    <3> QED
      BY <2>4, <3>4 DEF b2
  <2> QED
    BY <2>3, <2>4
<1> QED
  BY <1>1, <1>2

\* The line is the pipeline.
LEMMA PipelineIsLine == Pipeline = LineOf(box, slot)
BY DEF Pipeline, LineOf, Line, Msgs

\* Flushing an outbox that is sound.
LEMMA FlushIntoSound ==
  ASSUME NEW b, NEW a, delivered \in Seq(Messages), Sound(b, slot, a, Connected),
         FlushInto(b), UNCHANGED <<rt, delivered>>, accepted' = a
  PROVE  IInv'
<1>1. Connected \in BOOLEAN /\ Connected' = Connected
  BY DEF Connected
<1>2. Sound(box', slot', a, Connected)
  BY <1>1, FlushSound DEF FlushInto
<1>3. Sound(box', slot', a, Connected) = Sound(box, slot, accepted, Connected)'
  BY <1>1 DEF Sound, LineOf
<1> QED
  BY <1>2, <1>3 DEF IInv

-----------------------------------------------------------------------------
(* The invariant, and what follows from it.                                *)

\* A new seam has accepted and delivered nothing.
LEMMA InitSound == Init => IInv
<1> SUFFICES ASSUME Init PROVE IInv
  OBVIOUS
<1>1. /\ box.pending = << >> /\ slot = << >> /\ accepted = << >> /\ delivered = << >>
  BY DEF Init, EmptyOutbox
<1>2. /\ box.pending \in Seq(Entries) /\ slot \in Seq(Messages)
      /\ accepted \in Seq(Messages) /\ delivered \in Seq(Messages)
      /\ Len(slot) = 0 /\ Len(accepted) = 0 /\ Len(delivered) = 0 /\ Len(box.pending) = 0
  BY <1>1
<1> DEFINE l == LineOf(box, slot)
<1>3. Len(l) = 0
  <2>1. Len(l) = Len(delivered) + Len(slot) + Len(box.pending)
    BY <1>2, LineFacts DEF LineOf
  <2> HIDE DEF l
  <2> QED
    BY <1>2, <2>1
<1> HIDE DEF l
<1>4. Good(l, accepted) /\ Kept(l, accepted, ~Healthy(box)) /\ Told(l, accepted)
  BY <1>2, <1>3 DEF Good, Kept, Told
<1> QED
  BY <1>2, <1>4 DEF IInv, Sound, l

\* A message the core sends.
LEMMA SendSound ==
  ASSUME IInv, NEW subject \in Subjects, NEW changed \in BOOLEAN, Send(subject, changed)
  PROVE  IInv'
<1> DEFINE m      == NewMessage(subject, changed)
           pushed == Push(box, m, SizeOf(subject.kind))
           a      == IF pushed.failure = "none" THEN Append(accepted, m) ELSE accepted
<1>0. accepted \in Seq(Messages) /\ delivered \in Seq(Messages) /\ Len(accepted) \in Nat
  BY LenProperties DEF IInv, Sound
<1>1. m \in Messages /\ m.n = Len(accepted) + 1 /\ (m.changed => m.kind = "PaneEvidence")
  <2>1. Len(accepted) < MaxPush /\ (changed => subject.kind = "PaneEvidence")
    BY DEF Send
  <2>2. Len(accepted) + 1 \in 1 .. MaxPush
    BY <1>0, <2>1, SeamBounds
  <2> QED
    BY <2>1, <2>2 DEF NewMessage, Messages
<1>2. SizeOf(subject.kind) \in Nat
  BY SeamBounds
<1>3. FlushInto(pushed) /\ accepted' = a /\ UNCHANGED <<rt, delivered>>
  BY DEF Send
<1>4. Sound(box, slot, accepted, Connected) /\ Connected \in BOOLEAN
  BY DEF IInv, Connected
<1> HIDE DEF m
<1>5. Sound(pushed, slot, a, Connected)
  BY <1>0, <1>1, <1>2, <1>4, PushSound
<1> HIDE DEF pushed, a
<1> QED
  BY <1>0, <1>3, <1>5, FlushIntoSound

\* The runtime takes the message in the slot.
LEMMA ReceiveSound == ASSUME IInv, Receive PROVE IInv'
<1> DEFINE d == delivered
           d2 == delivered'
           s == slot
           s2 == slot'
           p == box.pending
<1>1. /\ d \in Seq(Messages) /\ s \in Seq(Messages) /\ p \in Seq(Entries) /\ Len(s) <= 1
      /\ Len(s) \in Nat /\ s # << >>
  BY LenProperties DEF IInv, Sound, Receive
<1>2. Len(s) = 1 /\ Head(s) = s[1] /\ s[1] \in Messages
  <2>1. Len(s) # 0 /\ Head(s) = s[1]
    BY <1>1, EmptySeq, HeadTailProperties
  <2>2. Len(s) = 1
    <3> DEFINE n == Len(s)
    <3>1. n \in Nat /\ n <= 1 /\ n # 0
      BY <1>1, <2>1
    <3> HIDE DEF n
    <3>2. n = 1
      BY <3>1
    <3> QED
      BY <3>2 DEF n
  <2>3. 1 \in 1 .. Len(s)
    BY <2>2
  <2> QED
    BY <1>1, <2>1, <2>2, <2>3, ElementOfSeq
<1>3. s2 \in Seq(Messages) /\ Len(s2) = 0
  BY DEF Receive
<1>4. d2 = Append(d, s[1])
  BY <1>2 DEF Receive
<1>5. d2 \in Seq(Messages) /\ Extended(d, d2, s[1])
  <2>1. /\ Append(d, s[1]) \in Seq(Messages) /\ Len(Append(d, s[1])) = Len(d) + 1
        /\ Append(d, s[1])[Len(d) + 1] = s[1] /\ \A i \in 1 .. Len(d) : Append(d, s[1])[i] = d[i]
    BY <1>1, <1>2, AppendProperties
  <2> QED
    BY <1>4, <2>1 DEF Extended
<1>6. Line(d2, s2, p) = Line(d, s, p)
  <2>1. Received(d, s, d2, s2)
    BY <1>2, <1>3, <1>5 DEF Received
  <2>2. d \in Seq(Messages) /\ s \in Seq(Messages) /\ p \in Seq(Entries)
        /\ d2 \in Seq(Messages) /\ s2 \in Seq(Messages)
    BY <1>1, <1>3, <1>5
  <2> HIDE DEF d, d2, s, s2, p
  <2> QED
    BY <2>1, <2>2, LineReceived
<1>7. LineOf(box, slot)' = LineOf(box, slot)
  BY <1>6 DEF LineOf, Receive
<1>8. Connected' /\ Connected /\ UNCHANGED <<box, accepted>>
  BY DEF Connected, Receive
<1>9. Healthy(box)' = Healthy(box)
  BY <1>8 DEF Healthy
<1> QED
  BY <1>1, <1>3, <1>5, <1>7, <1>8, <1>9 DEF IInv, Sound

\* What was in the slot goes with the runtime thread.
LEMMA DiesSound == ASSUME IInv, RuntimeDies PROVE IInv'
<1>1. /\ delivered \in Seq(Messages) /\ slot \in Seq(Messages) /\ box.pending \in Seq(Entries)
      /\ accepted \in Seq(Messages) /\ Len(slot) <= 1 /\ Len(slot) \in Nat
      /\ Good(LineOf(box, slot), accepted)
  BY LenProperties DEF IInv, Sound
<1>2. slot' = << >> /\ UNCHANGED <<box, accepted, delivered>> /\ ~Connected'
  BY DEF RuntimeDies, Connected
<1>3. Good(LineOf(box, << >>), accepted)
  <2>1. CASE Len(slot) = 0
    <3>1. slot = << >>
      BY <1>1, <2>1, EmptySeq
    <3> QED
      BY <1>1, <3>1
  <2>2. CASE Len(slot) = 1
    <3> DEFINE l == Line(delivered, slot, box.pending)
               r == Line(delivered, << >>, box.pending)
               D == Len(delivered)
               P == Len(box.pending)
    <3>0. << >> \in Seq(Messages) /\ Len(<< >>) = 0 /\ D \in Nat /\ P \in Nat
      BY <1>1, LenProperties
    <3>1. /\ l \in Seq(Messages) /\ Len(l) = D + 1 + P
          /\ \A i \in 1 .. D : l[i] = delivered[i]
          /\ \A i \in 1 .. P : l[D + 1 + i] = box.pending[i].msg
      <4>1. /\ l \in Seq(Messages) /\ Len(l) = D + Len(slot) + P
            /\ \A i \in 1 .. D : l[i] = delivered[i]
            /\ \A i \in 1 .. P : l[D + Len(slot) + i] = box.pending[i].msg
        BY Zenon, <1>1, LineFacts
      <4> HIDE DEF l
      <4> QED
        BY Zenon, <2>2, <4>1
    <3>2. /\ r \in Seq(Messages) /\ Len(r) = D + P
          /\ \A i \in 1 .. D : r[i] = delivered[i]
          /\ \A i \in 1 .. P : r[D + i] = box.pending[i].msg
      <4> DEFINE none == << >>
                 r0 == Line(delivered, none, box.pending)
      <4>0. Len(none) = 0
        BY <3>0
      <4>1. r = r0 /\ none \in Seq(Messages)
        BY <3>0
      <4> HIDE DEF none
      <4>2. /\ r0 \in Seq(Messages) /\ Len(r0) = D + Len(none) + P
            /\ \A i \in 1 .. D : r0[i] = delivered[i]
            /\ \A i \in 1 .. P : r0[D + Len(none) + i] = box.pending[i].msg
        BY Zenon, <1>1, <4>1, LineFacts
      <4> HIDE DEF r0, r
      <4>3. Len(r0) = D + P /\ \A i \in 1 .. P : r0[D + i] = box.pending[i].msg
        BY <3>0, <4>0, <4>2
      <4> QED
        BY Zenon, <4>1, <4>2, <4>3
    <3> HIDE DEF l, r, D, P
    <3>3. D + 1 \in 1 .. Len(l) /\ Len(r) = Len(l) - 1
      BY <3>0, <3>1, <3>2
    <3>4. ASSUME NEW j \in 1 .. Len(r) PROVE r[j] = IF j < D + 1 THEN l[j] ELSE l[j + 1]
      <4>1. CASE j < D + 1
        BY <3>0, <3>1, <3>2, <4>1
      <4>2. CASE ~(j < D + 1)
        <5> DEFINE i == j - D
        <5>1. i \in 1 .. P /\ D + i = j /\ D + 1 + i = j + 1
          BY <3>0, <3>2, <4>2
        <5> HIDE DEF i
        <5>2. r[D + i] = box.pending[i].msg /\ l[D + 1 + i] = box.pending[i].msg
          BY <3>1, <3>2, <5>1
        <5> QED
          BY <4>2, <5>1, <5>2
      <4> QED
        BY <4>1, <4>2
    <3>5. Without(l, r, D + 1)
      BY <3>3, <3>4 DEF Without
    <3>6. Good(l, accepted)
      BY <1>1 DEF LineOf, l
    <3>7. Good(r, accepted)
      BY <1>1, <3>1, <3>2, <3>3, <3>5, <3>6, GoodWithout
    <3> QED
      BY <3>7 DEF LineOf, r
  <2>3. Len(slot) = 0 \/ Len(slot) = 1
    <3>1. Len(slot) \in Nat /\ Len(slot) <= 1
      BY <1>1
    <3> QED
      BY ONLY <3>1
  <2> QED
    BY <2>1, <2>2, <2>3
<1>4. LineOf(box, slot)' = LineOf(box, << >>)
  BY <1>2 DEF LineOf
<1>5. slot' \in Seq(Messages) /\ Len(slot') <= 1
  BY <1>2
<1> QED
  BY <1>1, <1>2, <1>3, <1>4, <1>5 DEF IInv, Sound

\* Every step of the core and of the runtime.
LEMMA StepSound == ASSUME IInv, [Next]_vars PROVE IInv'
<1>0. delivered \in Seq(Messages) /\ Sound(box, slot, accepted, Connected)
  BY DEF IInv
<1>1. CASE \E subject \in Subjects, changed \in BOOLEAN : Send(subject, changed)
  BY <1>1, SendSound
<1>2. CASE Drain
  BY <1>0, <1>2, FlushIntoSound DEF Drain
<1>3. CASE FlushBacklog
  BY <1>0, <1>3, FlushIntoSound DEF FlushBacklog
<1>4. CASE Receive
  BY <1>4, ReceiveSound
<1>5. CASE RuntimeDies
  BY <1>5, DiesSound
<1>6. ASSUME UNCHANGED <<box, slot, accepted, delivered>>, Connected' => Connected PROVE IInv'
  <2>1. LineOf(box, slot)' = LineOf(box, slot) /\ Healthy(box)' = Healthy(box)
    BY <1>6 DEF LineOf, Healthy
  <2> QED
    BY <1>6, <2>1 DEF IInv, Sound
<1>7. CASE Stop \/ CloseRequests \/ FlushDeadline \/ JoinConsume \/ Joined \/ JoinDeadline \/ WorkerReply
  BY <1>6, <1>7 DEF Stop, CloseRequests, FlushDeadline, JoinConsume, Joined, JoinDeadline,
                    WorkerReply, Connected
<1>8. CASE Reply \/ RuntimeExit \/ UNCHANGED vars
  BY <1>6, <1>8 DEF Reply, RuntimeExit, vars, Connected
<1> QED
  BY <1>1, <1>2, <1>3, <1>4, <1>5, <1>7, <1>8 DEF Next

\* The line is good and keeps what was accepted, in every state of the seam.
THEOREM SeamInvariance == Spec => []IInv
<1>1. Init => IInv
  BY InitSound
<1>2. IInv /\ [Next]_vars => IInv'
  BY StepSound
<1> QED
  BY <1>1, <1>2, PTL DEF Spec

\* outbox.rs: whatever Outbox::push supersedes and Outbox::flush hands over or
\* drops, messages reach the runtime in the order of their pushes.
THEOREM PushOrderKept == Spec => []DeliveredInPushOrder
<1>1. IInv => DeliveredInPushOrder
  BY PipelineIsLine DEF IInv, Sound, Good, DeliveredInPushOrder
<1> QED
  BY <1>1, SeamInvariance, PTL

\* outbox.rs: while the runtime lives, Outbox::push loses an accepted message only
\* to a newer one about the same subject, never across a lifecycle operation; and the
\* process_changed flag of a superseded Pane observation is handed on, so a change
\* that was accepted is reported however often its report is replaced.
THEOREM AcceptedKept == Spec => []AcceptedIsKept
<1>1. ASSUME IInv PROVE OnlySupersededIsLost
  <2> SUFFICES ASSUME Connected, NEW i \in 1 .. Len(accepted)
               PROVE  \/ InPipeline(accepted[i])
                      \/ \E j \in i + 1 .. Len(accepted) :
                           /\ SameProjection(accepted[i], accepted[j])
                           /\ \A k \in i + 1 .. j - 1 : ~Barrier(accepted[k])
                      \/ /\ ~Healthy(box)
                         /\ accepted[i].kind \in Projections
                         /\ \A k \in i + 1 .. Len(accepted) : ~Barrier(accepted[k])
    BY DEF OnlySupersededIsLost
  <2>0. Len(accepted) \in Nat /\ (Len(accepted) + 1) - 1 = Len(accepted)
    BY <1>1, LenProperties DEF IInv, Sound
  <2>1. accepted[i].n = i
    BY <1>1 DEF IInv, Sound, Good
  <2>2. \/ Held(Pipeline, i)
        \/ Replaced(accepted, i)
        \/ ~Healthy(box) /\ accepted[i].kind \in Projections /\ NoBarrier(accepted, i, Len(accepted) + 1)
    BY <1>1, PipelineIsLine DEF IInv, Sound, Kept
  <2>3. CASE Held(Pipeline, i)
    BY <2>1, <2>3 DEF Held, InPipeline
  <2>4. CASE Replaced(accepted, i)
    BY <2>4 DEF Replaced, NoBarrier
  <2>5. CASE ~Healthy(box) /\ accepted[i].kind \in Projections /\ NoBarrier(accepted, i, Len(accepted) + 1)
    BY <2>0, <2>5 DEF NoBarrier
  <2> QED
    BY <2>2, <2>3, <2>4, <2>5
<1>2. ASSUME IInv PROVE ChangeReported
  <2> SUFFICES ASSUME Connected, Healthy(box), NEW i \in 1 .. Len(accepted), accepted[i].changed
               PROVE  \E j \in 1 .. Len(Pipeline) :
                        /\ Pipeline[j].n >= accepted[i].n
                        /\ Pipeline[j].key = accepted[i].key
                        /\ Pipeline[j].changed
    BY DEF ChangeReported
  <2>1. accepted[i].n = i
    BY <1>2 DEF IInv, Sound, Good
  <2> QED
    BY <1>2, <2>1, PipelineIsLine DEF IInv, Sound, Told
<1>3. IInv => AcceptedIsKept
  BY <1>1, <1>2 DEF AcceptedIsKept
<1> QED
  BY <1>3, SeamInvariance, PTL
=============================================================================
