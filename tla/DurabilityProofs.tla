-------------------------- MODULE DurabilityProofs --------------------------
(***************************************************************************)
(* Proofs about log and checkpoint, for every number of records, messages  *)
(* and crashes.                                                            *)
(***************************************************************************)
EXTENDS Durability, NaturalFacts, TLAPS

Events   == {Projected(s) : s \in Shapes} \cup {Note, Status}
Messages == [kind : {"EventAppend", "SnapshotSave", "SnapshotDelete"}, n : Nat, event : Events]
Records  == [n : Nat, event : Events]

\* Record m of the stream holds event e: in the file l, or queued in q before
\* place i.
Holds(l, q, m, e, i) ==
  \/ m \in 1 .. Len(l) /\ l[m].event = e
  \/ \E j \in 1 .. Len(q) : j < i /\ q[j] = AppendMsg(m, e)

\* The records after the file's last, up to m, are queued before place i.
Covered(l, q, m, i) ==
  \A k \in Len(l) + 1 .. m :
    \E j \in 1 .. Len(q) : j < i /\ q[j].kind = "EventAppend" /\ q[j].n = k

\* A queued record is the next one after those in the file and before it.
AppendsOK(q, l, n) ==
  \A i \in 1 .. Len(q) :
    q[i].kind = "EventAppend" =>
      /\ q[i].n \in Len(l) + 1 .. n
      /\ Covered(l, q, q[i].n - 1, i)
      /\ \A j \in 1 .. Len(q) : (j < i /\ q[j].kind = "EventAppend") => q[j].n < q[i].n

\* A queued checkpoint claims only records of the file and queued before it,
\* the last of which is its own projection.
SavesOK(q, l, n) ==
  \A i \in 1 .. Len(q) :
    q[i].kind = "SnapshotSave" =>
      /\ q[i].n <= n
      /\ Covered(l, q, q[i].n, i)
      /\ Holds(l, q, q[i].n, q[i].event, i)
      /\ \E s \in Shapes : q[i].event = Projected(s)

\* The file and the queue together hold the stream up to sequence n.
StreamOK(q, l, n, last) ==
  /\ Len(l) <= n
  /\ Covered(l, q, n, Len(q) + 1)
  /\ last # None => Holds(l, q, n, last, Len(q) + 1)

QueueOK(q, l, n, last) == AppendsOK(q, l, n) /\ SavesOK(q, l, n) /\ StreamOK(q, l, n, last)

TypeInv ==
  /\ shape \in Shapes
  /\ seq \in Nat
  /\ lastEv \in Events \cup {None}
  /\ poisoned \in BOOLEAN
  /\ torn \in BOOLEAN
  /\ queue \in Seq(Messages)
  /\ log \in Seq(Records)
  /\ synced \in 0 .. Len(log)
  /\ snap \in [n : Nat, shape : Shapes] \cup {None}
  /\ acked \subseteq Nat

\* The checkpoint is the projection that the log holds at its sequence.
SnapInv ==
  snap # None => /\ snap.n \in 1 .. synced
                 /\ log[snap.n].event = Projected(snap.shape)

AckInv == \A m \in acked : m \in 1 .. synced /\ log[m].event = Note

IInv ==
  /\ TypeInv
  /\ LogIsGapFree
  /\ (Running /\ ~poisoned) => QueueOK(queue, log, seq, lastEv)
  /\ SnapInv
  /\ AckInv

-----------------------------------------------------------------------------
(* Messages.                                                               *)

\* The messages and events the core builds are messages and events.
LEMMA MessageTypes ==
  /\ \A s \in Shapes : Projected(s) \in Events
  /\ Note \in Events /\ Status \in Events
  /\ \A n \in Nat, e \in Events : AppendMsg(n, e) \in Messages
  /\ \A n \in Nat, s \in Shapes : SaveMsg(n, s) \in Messages
  /\ DeleteMsg \in Messages
<1>1. /\ \A s \in Shapes : Projected(s) \in Events
      /\ Note \in Events /\ Status \in Events
  BY DEF Events
<1> QED
  BY <1>1 DEF Messages, AppendMsg, SaveMsg, DeleteMsg

-----------------------------------------------------------------------------
(* The queue.                                                              *)

\* If every record queued in q before place i is queued in p before place h,
\* what q covers and holds there, p covers and holds here.
LEMMA Carries ==
  ASSUME NEW l, NEW q, NEW p, NEW i, NEW h,
         \A j \in 1 .. Len(q) : (j < i /\ q[j].kind = "EventAppend") =>
                                  \E k \in 1 .. Len(p) : k < h /\ p[k] = q[j]
  PROVE  /\ \A m : Covered(l, q, m, i) => Covered(l, p, m, h)
         /\ \A m, e : Holds(l, q, m, e, i) => Holds(l, p, m, e, h)
<1>1. ASSUME NEW m, Covered(l, q, m, i) PROVE Covered(l, p, m, h)
  <2> SUFFICES ASSUME NEW k \in Len(l) + 1 .. m
               PROVE  \E j \in 1 .. Len(p) : j < h /\ p[j].kind = "EventAppend" /\ p[j].n = k
    BY DEF Covered
  <2>1. PICK j \in 1 .. Len(q) : j < i /\ q[j].kind = "EventAppend" /\ q[j].n = k
    BY <1>1 DEF Covered
  <2> QED
    BY <2>1
<1>2. ASSUME NEW m, NEW e, Holds(l, q, m, e, i) PROVE Holds(l, p, m, e, h)
  <2>1. CASE m \in 1 .. Len(l) /\ l[m].event = e
    BY <2>1 DEF Holds
  <2>2. CASE \E j \in 1 .. Len(q) : j < i /\ q[j] = AppendMsg(m, e)
    <3>1. PICK j \in 1 .. Len(q) : j < i /\ q[j] = AppendMsg(m, e)
      BY <2>2
    <3>2. q[j].kind = "EventAppend"
      BY <3>1 DEF AppendMsg
    <3> QED
      BY <3>1, <3>2 DEF Holds
  <2> QED
    BY <1>2, <2>1, <2>2 DEF Holds
<1> QED
  BY <1>1, <1>2

\* Appending a message leaves what was in front of it as it was.
LEMMA AppendCarries ==
  ASSUME NEW q \in Seq(Messages), NEW l, NEW m \in Messages,
         NEW i \in 1 .. Len(q) + 1
  PROVE  /\ \A k : Covered(l, q, k, i) => Covered(l, Append(q, m), k, i)
         /\ \A k, e : Holds(l, q, k, e, i) => Holds(l, Append(q, m), k, e, i)
<1> DEFINE p == Append(q, m)
<1>1. \A j \in 1 .. Len(q) : (j < i /\ q[j].kind = "EventAppend") =>
                               \E k \in 1 .. Len(p) : k < i /\ p[k] = q[j]
  <2> SUFFICES ASSUME NEW j \in 1 .. Len(q), j < i
               PROVE  j \in 1 .. Len(p) /\ p[j] = q[j]
    OBVIOUS
  <2> QED
    OBVIOUS
<1> HIDE DEF p
<1>2. /\ \A k : Covered(l, q, k, i) => Covered(l, p, k, i)
      /\ \A k, e : Holds(l, q, k, e, i) => Holds(l, p, k, e, i)
  BY Zenon, <1>1, Carries
<1> QED
  BY <1>2 DEF p

\* Appending a message leaves the claims of the queued ones true.
LEMMA AppendKeeps ==
  ASSUME NEW q \in Seq(Messages), NEW l \in Seq(Records), NEW n \in Nat, NEW n2 \in Nat,
         NEW m \in Messages, n <= n2, AppendsOK(q, l, n), SavesOK(q, l, n),
         m.kind = "EventAppend" =>
           /\ m.n \in Len(l) + 1 .. n2
           /\ Covered(l, q, m.n - 1, Len(q) + 1)
           /\ \A j \in 1 .. Len(q) : q[j].kind = "EventAppend" => q[j].n < m.n,
         m.kind = "SnapshotSave" =>
           /\ m.n <= n2
           /\ Covered(l, q, m.n, Len(q) + 1)
           /\ Holds(l, q, m.n, m.event, Len(q) + 1)
           /\ \E s \in Shapes : m.event = Projected(s)
  PROVE  AppendsOK(Append(q, m), l, n2) /\ SavesOK(Append(q, m), l, n2)
<1> DEFINE p == Append(q, m)
<1>1. /\ Len(p) = Len(q) + 1 /\ Len(q) \in Nat
      /\ \A i \in 1 .. Len(q) : p[i] = q[i] /\ q[i].n \in Nat
      /\ p[Len(q) + 1] = m
  <2>1. \A i \in 1 .. Len(q) : q[i] \in Messages
    OBVIOUS
  <2>2. \A i \in 1 .. Len(q) : q[i].n \in Nat
    BY <2>1 DEF Messages
  <2> QED
    BY <2>2
<1>2. ASSUME NEW i \in 1 .. Len(q) + 1
      PROVE  /\ \A k : Covered(l, q, k, i) => Covered(l, p, k, i)
             /\ \A k, e : Holds(l, q, k, e, i) => Holds(l, p, k, e, i)
  BY AppendCarries
<1> HIDE DEF p
<1>3. ASSUME NEW i \in 1 .. Len(p), p[i].kind = "EventAppend"
      PROVE  /\ p[i].n \in Len(l) + 1 .. n2
             /\ Covered(l, p, p[i].n - 1, i)
             /\ \A j \in 1 .. Len(p) : (j < i /\ p[j].kind = "EventAppend") => p[j].n < p[i].n
  <2>1. CASE i \in 1 .. Len(q)
    <3>1. /\ q[i].n \in Len(l) + 1 .. n
          /\ Covered(l, q, q[i].n - 1, i)
          /\ \A j \in 1 .. Len(q) : (j < i /\ q[j].kind = "EventAppend") => q[j].n < q[i].n
      BY <1>1, <1>3, <2>1 DEF AppendsOK
    <3>2. Covered(l, p, p[i].n - 1, i)
      BY <1>1, <1>2, <2>1, <3>1
    <3>3. p[i].n \in Len(l) + 1 .. n2
      BY <1>1, <2>1, <3>1
    <3>4. ASSUME NEW j \in 1 .. Len(p), j < i, p[j].kind = "EventAppend"
          PROVE  p[j].n < p[i].n
      <4>1. j \in 1 .. Len(q)
        BY <1>1, <2>1, <3>4
      <4> QED
        BY <1>1, <2>1, <3>1, <3>4, <4>1
    <3> QED
      BY <3>2, <3>3, <3>4
  <2>2. CASE i = Len(q) + 1
    <3>1. Covered(l, p, p[i].n - 1, i)
      BY <1>1, <1>2, <1>3, <2>2
    <3> QED
      BY <1>1, <1>3, <2>2, <3>1
  <2> QED
    BY <1>1, <2>1, <2>2
<1>4. ASSUME NEW i \in 1 .. Len(p), p[i].kind = "SnapshotSave"
      PROVE  /\ p[i].n <= n2
             /\ Covered(l, p, p[i].n, i)
             /\ Holds(l, p, p[i].n, p[i].event, i)
             /\ \E s \in Shapes : p[i].event = Projected(s)
  <2>1. CASE i \in 1 .. Len(q)
    <3>1. /\ q[i].n <= n
          /\ Covered(l, q, q[i].n, i)
          /\ Holds(l, q, q[i].n, q[i].event, i)
          /\ \E s \in Shapes : q[i].event = Projected(s)
      BY <1>1, <1>4, <2>1 DEF SavesOK
    <3> QED
      BY <1>1, <1>2, <2>1, <3>1
  <2>2. CASE i = Len(q) + 1
    BY <1>1, <1>2, <1>4, <2>2
  <2> QED
    BY <1>1, <2>1, <2>2
<1>5. AppendsOK(p, l, n2)
  BY <1>3 DEF AppendsOK
<1>6. SavesOK(p, l, n2)
  BY <1>4 DEF SavesOK
<1> QED
  BY <1>5, <1>6 DEF p

\* Nor does a message change what the stream holds.
LEMMA StreamKeeps ==
  ASSUME NEW q \in Seq(Messages), NEW l \in Seq(Records), NEW n \in Nat, NEW last,
         NEW m \in Messages, StreamOK(q, l, n, last)
  PROVE  StreamOK(Append(q, m), l, n, last)
<1> DEFINE p == Append(q, m)
<1>1. Len(p) = Len(q) + 1 /\ Len(q) \in Nat
  OBVIOUS
<1>2. \A j \in 1 .. Len(q) : (j < Len(q) + 1 /\ q[j].kind = "EventAppend") =>
                               \E k \in 1 .. Len(p) : k < Len(p) + 1 /\ p[k] = q[j]
  OBVIOUS
<1> HIDE DEF p
<1>3. /\ \A k : Covered(l, q, k, Len(q) + 1) => Covered(l, p, k, Len(p) + 1)
      /\ \A k, e : Holds(l, q, k, e, Len(q) + 1) => Holds(l, p, k, e, Len(p) + 1)
  BY Zenon, <1>2, Carries
<1>4. StreamOK(p, l, n, last)
  BY <1>3 DEF StreamOK
<1> QED
  BY <1>4 DEF p

\* A deletion claims nothing.
LEMMA DeleteKeeps ==
  ASSUME NEW q \in Seq(Messages), NEW l \in Seq(Records), NEW n \in Nat, NEW last,
         QueueOK(q, l, n, last)
  PROVE  QueueOK(Append(q, DeleteMsg), l, n, last)
<1>1. DeleteMsg \in Messages /\ DeleteMsg.kind = "SnapshotDelete"
  BY MessageTypes DEF DeleteMsg
<1>2. AppendsOK(Append(q, DeleteMsg), l, n) /\ SavesOK(Append(q, DeleteMsg), l, n)
  BY <1>1, AppendKeeps DEF QueueOK
<1>3. StreamOK(Append(q, DeleteMsg), l, n, last)
  BY <1>1, StreamKeeps DEF QueueOK
<1> QED
  BY <1>2, <1>3 DEF QueueOK

\* Recording an event queues the next record of the stream.
LEMMA RecordKeeps ==
  ASSUME NEW q \in Seq(Messages), NEW l \in Seq(Records), NEW n \in Nat, NEW last,
         NEW e \in Events, QueueOK(q, l, n, last)
  PROVE  QueueOK(Append(q, AppendMsg(n + 1, e)), l, n + 1, e)
<1> DEFINE m == AppendMsg(n + 1, e)
<1>1. m \in Messages /\ m.kind = "EventAppend" /\ m.n = n + 1
  BY MessageTypes DEF AppendMsg
<1>2. /\ Append(q, m) \in Seq(Messages) /\ Len(Append(q, m)) = Len(q) + 1
      /\ Append(q, m)[Len(q) + 1] = m
      /\ Len(q) \in Nat /\ Len(l) \in Nat
  BY <1>1
<1>3. \A j \in 1 .. Len(q) : q[j].kind = "EventAppend" => q[j].n < m.n
  BY <1>1 DEF QueueOK, AppendsOK
<1>4. Len(l) <= n /\ Covered(l, q, n, Len(q) + 1)
  BY DEF QueueOK, StreamOK
<1> HIDE DEF m
<1>5. AppendsOK(Append(q, m), l, n + 1) /\ SavesOK(Append(q, m), l, n + 1)
  BY <1>1, <1>2, <1>3, <1>4, AppendKeeps DEF QueueOK
<1>6. Covered(l, Append(q, m), n, Len(q) + 1)
  <2>1. Len(q) + 1 \in 1 .. Len(q) + 1
    BY <1>2
  <2>2. \A k : Covered(l, q, k, Len(q) + 1) => Covered(l, Append(q, m), k, Len(q) + 1)
    BY Zenon, <1>1, <2>1, AppendCarries
  <2> QED
    BY <1>4, <2>2
<1>7. Covered(l, Append(q, m), n + 1, Len(q) + 2)
  <2> SUFFICES ASSUME NEW k \in Len(l) + 1 .. n + 1
               PROVE  \E j \in 1 .. Len(Append(q, m)) :
                        /\ j < Len(q) + 2
                        /\ Append(q, m)[j].kind = "EventAppend"
                        /\ Append(q, m)[j].n = k
    BY DEF Covered
  <2>1. CASE k = n + 1
    BY <1>1, <1>2, <2>1
  <2>2. CASE k \in Len(l) + 1 .. n
    <3>1. PICK j \in 1 .. Len(Append(q, m)) :
            /\ j < Len(q) + 1
            /\ Append(q, m)[j].kind = "EventAppend"
            /\ Append(q, m)[j].n = k
      BY <1>6, <2>2 DEF Covered
    <3> QED
      BY <1>2, <3>1
  <2>3. k = n + 1 \/ k \in Len(l) + 1 .. n
    BY <1>2
  <2> QED
    BY <2>1, <2>2, <2>3
<1>8. Holds(l, Append(q, m), n + 1, e, Len(q) + 2)
  BY <1>2 DEF Holds, m
<1>9. StreamOK(Append(q, m), l, n + 1, e)
  BY <1>2, <1>4, <1>7, <1>8 DEF StreamOK
<1> QED
  BY <1>5, <1>9 DEF QueueOK, m

\* A message that is no record can leave the queue.
LEMMA RemoveKeeps ==
  ASSUME NEW q \in Seq(Messages), NEW l \in Seq(Records), NEW n \in Nat, NEW last,
         QueueOK(q, l, n, last), NEW x \in 1 .. Len(q), q[x].kind # "EventAppend"
  PROVE  RemoveIndex(q, x) \in Seq(Messages) /\ QueueOK(RemoveIndex(q, x), l, n, last)
<1> DEFINE p == RemoveIndex(q, x)
           Up(i) == IF i < x THEN i ELSE i + 1
<1>1. /\ p \in Seq(Messages) /\ Len(p) = Len(q) - 1 /\ Len(q) \in Nat
      /\ \A i \in 1 .. Len(p) : p[i] = q[Up(i)]
  <2> DEFINE a == SubSeq(q, 1, x - 1)
             b == SubSeq(q, x + 1, Len(q))
  <2>1. Len(q) \in Nat /\ x \in Nat /\ x >= 1 /\ x <= Len(q)
    OBVIOUS
  <2>2. a \in Seq(Messages) /\ Len(a) = x - 1 /\ \A i \in 1 .. x - 1 : a[i] = q[i]
    BY <2>1
  <2>3. /\ b \in Seq(Messages) /\ Len(b) = Len(q) - x
        /\ \A i \in 1 .. Len(q) - x : b[i] = q[x + i]
    BY <2>1
  <2>4. p = a \o b
    BY DEF RemoveIndex
  <2> HIDE DEF a, b, p
  <2>5. p \in Seq(Messages) /\ Len(p) = Len(q) - 1
    BY <2>1, <2>2, <2>3, <2>4
  <2>6. ASSUME NEW i \in 1 .. Len(p) PROVE p[i] = q[Up(i)]
    <3>1. CASE i < x
      BY <2>1, <2>2, <2>3, <2>4, <2>5, <3>1
    <3>2. CASE i >= x
      <4>1. p[i] = b[i - (x - 1)] /\ i - (x - 1) \in 1 .. Len(q) - x
        BY <2>1, <2>2, <2>3, <2>4, <2>5, <3>2
      <4>2. b[i - (x - 1)] = q[x + (i - (x - 1))]
        BY <2>3, <4>1
      <4>3. x + (i - (x - 1)) = i + 1 /\ ~(i < x)
        BY <2>1, <2>5, <3>2
      <4> QED
        BY <4>1, <4>2, <4>3
    <3> QED
      BY <2>1, <2>5, <3>1, <3>2
  <2> QED
    BY <2>1, <2>5, <2>6
<1> HIDE DEF p
<1>2. ASSUME NEW i \in 1 .. Len(p) + 1
      PROVE  /\ \A k : Covered(l, q, k, Up(i)) => Covered(l, p, k, i)
             /\ \A k, e : Holds(l, q, k, e, Up(i)) => Holds(l, p, k, e, i)
  <2>1. ASSUME NEW j \in 1 .. Len(q), j < Up(i), q[j].kind = "EventAppend"
        PROVE  \E k \in 1 .. Len(p) : k < i /\ p[k] = q[j]
    <3>1. j # x
      BY <2>1
    <3>2. CASE j < x
      BY <1>1, <2>1, <3>2
    <3>3. CASE j > x
      <4>1. j - 1 \in 1 .. Len(p) /\ j - 1 < i /\ Up(j - 1) = j
        BY <1>1, <2>1, <3>3
      <4> QED
        BY Zenon, <1>1, <4>1
    <3> QED
      BY <3>1, <3>2, <3>3
  <2> HIDE DEF Up
  <2> QED
    BY Zenon, <2>1, Carries
<1>3. ASSUME NEW i \in 1 .. Len(p), p[i].kind = "EventAppend"
      PROVE  /\ p[i].n \in Len(l) + 1 .. n
             /\ Covered(l, p, p[i].n - 1, i)
             /\ \A j \in 1 .. Len(p) : (j < i /\ p[j].kind = "EventAppend") => p[j].n < p[i].n
  <2>1. Up(i) \in 1 .. Len(q) /\ p[i] = q[Up(i)]
    BY <1>1
  <2>2. \A j \in 1 .. Len(p) : j < i => Up(j) \in 1 .. Len(q) /\ Up(j) < Up(i) /\ p[j] = q[Up(j)]
    BY <1>1
  <2> HIDE DEF Up
  <2>3. /\ q[Up(i)].n \in Len(l) + 1 .. n
        /\ Covered(l, q, q[Up(i)].n - 1, Up(i))
        /\ \A j \in 1 .. Len(q) : (j < Up(i) /\ q[j].kind = "EventAppend") => q[j].n < q[Up(i)].n
    BY <1>3, <2>1 DEF QueueOK, AppendsOK
  <2>4. i \in 1 .. Len(p) + 1
    BY <1>1
  <2>5. Covered(l, p, p[i].n - 1, i)
    BY <1>2, <2>1, <2>3, <2>4
  <2> QED
    BY <2>1, <2>2, <2>3, <2>5
<1>4. ASSUME NEW i \in 1 .. Len(p), p[i].kind = "SnapshotSave"
      PROVE  /\ p[i].n <= n
             /\ Covered(l, p, p[i].n, i)
             /\ Holds(l, p, p[i].n, p[i].event, i)
             /\ \E s \in Shapes : p[i].event = Projected(s)
  <2>1. Up(i) \in 1 .. Len(q) /\ p[i] = q[Up(i)]
    BY <1>1
  <2>2. i \in 1 .. Len(p) + 1
    BY <1>1
  <2> HIDE DEF Up
  <2>3. /\ q[Up(i)].n <= n
        /\ Covered(l, q, q[Up(i)].n, Up(i))
        /\ Holds(l, q, q[Up(i)].n, q[Up(i)].event, Up(i))
        /\ \E s \in Shapes : q[Up(i)].event = Projected(s)
    BY <1>4, <2>1 DEF QueueOK, SavesOK
  <2> QED
    BY <1>2, <2>1, <2>2, <2>3
<1>5. StreamOK(p, l, n, last)
  <2>1. Len(p) + 1 \in 1 .. Len(p) + 1 /\ Up(Len(p) + 1) = Len(q) + 1
    BY <1>1
  <2> HIDE DEF Up
  <2>2. /\ \A k : Covered(l, q, k, Len(q) + 1) => Covered(l, p, k, Len(p) + 1)
        /\ \A k, e : Holds(l, q, k, e, Len(q) + 1) => Holds(l, p, k, e, Len(p) + 1)
    BY <1>2, <2>1
  <2> QED
    BY <2>2 DEF QueueOK, StreamOK
<1>6. QueueOK(p, l, n, last)
  BY <1>3, <1>4, <1>5 DEF QueueOK, AppendsOK, SavesOK
<1> QED
  BY <1>1, <1>6 DEF p

\* What QueuedSave finds is a queued checkpoint.
LEMMA QueuedSaveIs ==
  ASSUME NEW q \in Seq(Messages), QueuedSave(q) > 0
  PROVE  QueuedSave(q) \in 1 .. Len(q) /\ q[QueuedSave(q)].kind = "SnapshotSave"
<1> DEFINE saves == {i \in 1 .. Len(q) : /\ q[i].kind = "SnapshotSave"
                                         /\ \A j \in i + 1 .. Len(q) : q[j].kind = "EventAppend"}
<1>1. QueuedSave(q) = IF saves = {} THEN 0 ELSE CHOOSE i \in saves : TRUE
  BY DEF QueuedSave
<1>2. QueuedSave(q) \in saves
  <2> HIDE DEF saves
  <2>1. saves # {}
    BY <1>1
  <2> QED
    BY <1>1, <2>1
<1> QED
  BY <1>2

\* A checkpoint of what the stream holds joins the queue in order, whether or
\* not it supersedes a queued one.
LEMMA SaveKeeps ==
  ASSUME NEW q \in Seq(Messages), NEW l \in Seq(Records), NEW n \in Nat, NEW last,
         NEW s \in Shapes, QueueOK(q, l, n, last), last = Projected(s), last # None,
         NEW q2 \in EnqueueSave(q, SaveMsg(n, s))
  PROVE  q2 \in Seq(Messages) /\ QueueOK(q2, l, n, last)
<1> DEFINE m == SaveMsg(n, s)
<1>1. /\ m \in Messages /\ m.kind = "SnapshotSave" /\ m.n = n /\ m.event = last
  BY MessageTypes DEF SaveMsg
<1> HIDE DEF m
<1>2. ASSUME NEW p \in Seq(Messages), QueueOK(p, l, n, last)
      PROVE  Append(p, m) \in Seq(Messages) /\ QueueOK(Append(p, m), l, n, last)
  <2>1. Covered(l, p, n, Len(p) + 1) /\ Holds(l, p, n, last, Len(p) + 1)
    BY <1>2 DEF QueueOK, StreamOK
  <2>2. AppendsOK(Append(p, m), l, n) /\ SavesOK(Append(p, m), l, n)
    BY <1>1, <1>2, <2>1, AppendKeeps DEF QueueOK
  <2>3. StreamOK(Append(p, m), l, n, last)
    BY <1>1, <1>2, StreamKeeps DEF QueueOK
  <2> QED
    BY <1>1, <2>2, <2>3 DEF QueueOK
<1>3. CASE q2 = Append(q, m)
  BY <1>2, <1>3
<1>4. CASE QueuedSave(q) > 0 /\ q2 = Append(RemoveIndex(q, QueuedSave(q)), m)
  <2>1. QueuedSave(q) \in 1 .. Len(q) /\ q[QueuedSave(q)].kind = "SnapshotSave"
    BY <1>4, QueuedSaveIs
  <2> QED
    BY <1>2, <1>4, <2>1, RemoveKeeps
<1> QED
  BY <1>3, <1>4 DEF EnqueueSave, m

\* The worker takes a checkpoint or a deletion.
LEMMA TakeOther ==
  ASSUME NEW q \in Seq(Messages), NEW l \in Seq(Records), NEW n \in Nat, NEW last,
         QueueOK(q, l, n, last), q # << >>, Head(q).kind # "EventAppend"
  PROVE  QueueOK(Tail(q), l, n, last)
<1>1. 1 \in 1 .. Len(q) /\ q[1] = Head(q)
  OBVIOUS
<1>2. RemoveIndex(q, 1) = Tail(q)
  <2>1. SubSeq(q, 1, 0) = << >> /\ SubSeq(q, 2, Len(q)) = Tail(q)
    BY <1>1
  <2> QED
    BY <2>1 DEF RemoveIndex
<1> QED
  BY Zenon, <1>1, <1>2, RemoveKeeps

\* The worker takes a record and writes it: it is the file's next one, and
\* the rest of the queue continues the longer file.
LEMMA TakeAppend ==
  ASSUME NEW q \in Seq(Messages), NEW l \in Seq(Records), NEW n \in Nat, NEW last,
         QueueOK(q, l, n, last), q # << >>, Head(q).kind = "EventAppend",
         NEW l2, l2 = Append(l, [n |-> Head(q).n, event |-> Head(q).event])
  PROVE  /\ Head(q).n = Len(l) + 1
         /\ l2 \in Seq(Records) /\ Len(l2) = Len(l) + 1
         /\ QueueOK(Tail(q), l2, n, last)
<1> DEFINE p == Tail(q)
<1>1. /\ p \in Seq(Messages) /\ Len(p) = Len(q) - 1 /\ Len(q) \in Nat /\ Len(q) >= 1
      /\ \A i \in 1 .. Len(p) : p[i] = q[i + 1]
      /\ q[1] = Head(q) /\ q[1] \in Messages
      /\ 1 \in 1 .. Len(q)
  OBVIOUS
<1>2. q[1].n \in Nat /\ q[1].event \in Events /\ Len(l) \in Nat
  BY <1>1 DEF Messages
<1>3. q[1].n = Len(l) + 1
  <2>1. /\ q[1].n \in Len(l) + 1 .. n
        /\ Covered(l, q, q[1].n - 1, 1)
    BY <1>1 DEF QueueOK, AppendsOK
  <2>2. ASSUME Len(l) + 1 \in Len(l) + 1 .. q[1].n - 1 PROVE FALSE
    <3>1. PICK j \in 1 .. Len(q) : j < 1
      BY <2>1, <2>2 DEF Covered
    <3> QED
      BY <3>1
  <2> QED
    BY <1>2, <2>1, <2>2
<1>4. /\ l2 \in Seq(Records) /\ Len(l2) = Len(l) + 1
      /\ \A k \in 1 .. Len(l) : l2[k] = l[k]
      /\ l2[Len(l) + 1].event = q[1].event
  BY <1>1, <1>2 DEF Records
<1> HIDE DEF p
<1>5. ASSUME NEW i \in Nat, NEW k, Covered(l, q, k, i + 1) PROVE Covered(l2, p, k, i)
  <2> SUFFICES ASSUME NEW x \in Len(l2) + 1 .. k
               PROVE  \E j \in 1 .. Len(p) : j < i /\ p[j].kind = "EventAppend" /\ p[j].n = x
    BY DEF Covered
  <2>1. x \in Len(l) + 1 .. k /\ x # Len(l) + 1
    BY <1>2, <1>4
  <2>2. PICK j \in 1 .. Len(q) : j < i + 1 /\ q[j].kind = "EventAppend" /\ q[j].n = x
    BY <1>5, <2>1 DEF Covered
  <2>3. j # 1
    BY <1>3, <2>1, <2>2
  <2>4. j - 1 \in 1 .. Len(p) /\ j - 1 < i /\ p[j - 1] = q[j]
    BY <1>1, <2>2, <2>3
  <2> QED
    BY <2>2, <2>4
<1>6. ASSUME NEW i \in Nat, NEW k, NEW e, Holds(l, q, k, e, i + 1) PROVE Holds(l2, p, k, e, i)
  <2>1. CASE k \in 1 .. Len(l) /\ l[k].event = e
    BY <1>2, <1>4, <2>1 DEF Holds
  <2>2. CASE \E j \in 1 .. Len(q) : j < i + 1 /\ q[j] = AppendMsg(k, e)
    <3>1. PICK j \in 1 .. Len(q) : j < i + 1 /\ q[j] = AppendMsg(k, e)
      BY <2>2
    <3>2. CASE j = 1
      <4>1. k = Len(l) + 1 /\ l2[k].event = e
        BY <1>3, <1>4, <3>1, <3>2 DEF AppendMsg
      <4> QED
        BY <1>2, <1>4, <4>1 DEF Holds
    <3>3. CASE j # 1
      <4>1. j - 1 \in 1 .. Len(p) /\ j - 1 < i /\ p[j - 1] = q[j]
        BY <1>1, <3>1, <3>3
      <4> QED
        BY <3>1, <4>1 DEF Holds
    <3> QED
      BY <3>2, <3>3
  <2> QED
    BY <1>6, <2>1, <2>2 DEF Holds
<1>7. ASSUME NEW i \in 1 .. Len(p), p[i].kind = "EventAppend"
      PROVE  /\ p[i].n \in Len(l2) + 1 .. n
             /\ Covered(l2, p, p[i].n - 1, i)
             /\ \A j \in 1 .. Len(p) : (j < i /\ p[j].kind = "EventAppend") => p[j].n < p[i].n
  <2>1. i + 1 \in 1 .. Len(q) /\ p[i] = q[i + 1] /\ i \in Nat /\ 1 < i + 1
    BY <1>1
  <2>2. /\ q[i + 1].n \in Len(l) + 1 .. n
        /\ Covered(l, q, q[i + 1].n - 1, i + 1)
        /\ \A j \in 1 .. Len(q) : (j < i + 1 /\ q[j].kind = "EventAppend") => q[j].n < q[i + 1].n
    BY <1>7, <2>1 DEF QueueOK, AppendsOK
  <2>3. q[1].n < q[i + 1].n
    BY <1>1, <2>1, <2>2
  <2>4. p[i].n \in Len(l2) + 1 .. n
    BY <1>2, <1>3, <1>4, <2>1, <2>2, <2>3
  <2>5. Covered(l2, p, p[i].n - 1, i)
    BY <1>5, <2>1, <2>2
  <2>6. ASSUME NEW j \in 1 .. Len(p), j < i, p[j].kind = "EventAppend" PROVE p[j].n < p[i].n
    <3>1. j + 1 \in 1 .. Len(q) /\ j + 1 < i + 1 /\ p[j] = q[j + 1]
      BY <1>1, <2>6
    <3> QED
      BY Zenon, <2>1, <2>2, <2>6, <3>1
  <2> QED
    BY <2>4, <2>5, <2>6
<1>8. ASSUME NEW i \in 1 .. Len(p), p[i].kind = "SnapshotSave"
      PROVE  /\ p[i].n <= n
             /\ Covered(l2, p, p[i].n, i)
             /\ Holds(l2, p, p[i].n, p[i].event, i)
             /\ \E s \in Shapes : p[i].event = Projected(s)
  <2>1. i + 1 \in 1 .. Len(q) /\ p[i] = q[i + 1] /\ i \in Nat
    BY <1>1
  <2>2. /\ q[i + 1].n <= n
        /\ Covered(l, q, q[i + 1].n, i + 1)
        /\ Holds(l, q, q[i + 1].n, q[i + 1].event, i + 1)
        /\ \E s \in Shapes : q[i + 1].event = Projected(s)
    BY <1>8, <2>1 DEF QueueOK, SavesOK
  <2> QED
    BY <1>5, <1>6, <2>1, <2>2
<1>9. StreamOK(p, l2, n, last)
  <2>1. Len(p) + 1 \in Nat /\ Len(q) + 1 = (Len(p) + 1) + 1
    BY <1>1
  <2>2. q[1].n \in Len(l) + 1 .. n
    BY <1>1 DEF QueueOK, AppendsOK
  <2>3. Covered(l2, p, n, Len(p) + 1)
    BY <1>5, <2>1 DEF QueueOK, StreamOK
  <2>4. last # None => Holds(l2, p, n, last, Len(p) + 1)
    BY <1>6, <2>1 DEF QueueOK, StreamOK
  <2> QED
    BY <1>2, <1>3, <1>4, <2>2, <2>3, <2>4 DEF StreamOK
<1>10. QueueOK(p, l2, n, last)
  BY <1>7, <1>8, <1>9 DEF QueueOK, AppendsOK, SavesOK
<1> QED
  BY <1>1, <1>3, <1>4, <1>10 DEF p

\* A stream without queued messages.
LEMMA FreshQueue ==
  ASSUME NEW l \in Seq(Records)
  PROVE  QueueOK(<< >>, l, Len(l), None)
BY DEF QueueOK, AppendsOK, SavesOK, StreamOK, Covered

-----------------------------------------------------------------------------
(* The inductive invariant.                                                *)

\* Superseding builds a sequence of messages.
LEMMA EnqueueType ==
  ASSUME NEW q \in Seq(Messages), NEW m \in Messages, NEW q2 \in EnqueueSave(q, m)
  PROVE  q2 \in Seq(Messages)
<1>1. ASSUME NEW x \in 1 .. Len(q) PROVE RemoveIndex(q, x) \in Seq(Messages)
  <2>1. SubSeq(q, 1, x - 1) \in Seq(Messages) /\ SubSeq(q, x + 1, Len(q)) \in Seq(Messages)
    OBVIOUS
  <2> QED
    BY <2>1 DEF RemoveIndex
<1>2. QueuedSave(q) > 0 => QueuedSave(q) \in 1 .. Len(q)
  BY QueuedSaveIs
<1>3. CASE q2 = Append(q, m)
  BY <1>3
<1>4. CASE QueuedSave(q) > 0 /\ q2 = Append(RemoveIndex(q, QueuedSave(q)), m)
  BY <1>1, <1>2, <1>4
<1> QED
  BY <1>3, <1>4 DEF EnqueueSave

\* persist_snapshot keeps the queue in order.
LEMMA PersistKeeps ==
  ASSUME NEW q \in Seq(Messages), NEW l \in Seq(Records), NEW n \in Nat,
         NEW previous \in Events \cup {None}, NEW s \in Shapes,
         PersistSnapshot(s, q, n, previous)
  PROVE  /\ queue' \in Seq(Messages) /\ seq' \in Nat /\ lastEv' \in Events
         /\ QueueOK(q, l, n, previous) => QueueOK(queue', l, seq', lastEv')
<1> DEFINE e == Projected(s)
           r == Recorded(e, q, n, previous)
<1>1. e \in Events /\ e # None
  BY MessageTypes, NoneIsNoEvent
<1>2. /\ r.q \in Seq(Messages) /\ r.n \in Nat /\ r.last = e
      /\ QueueOK(q, l, n, previous) => QueueOK(r.q, l, r.n, e)
  <2>1. CASE Repeats(e, previous)
    BY <2>1 DEF Recorded, Repeats
  <2>2. CASE ~Repeats(e, previous)
    <3>1. /\ r.q = Append(q, AppendMsg(n + 1, e)) /\ r.n = n + 1 /\ r.last = e
      BY <2>2 DEF Recorded
    <3>2. AppendMsg(n + 1, e) \in Messages
      BY <1>1, MessageTypes
    <3> HIDE DEF r, e
    <3> QED
      BY <1>1, <3>1, <3>2, RecordKeeps
  <2> QED
    BY <2>1, <2>2
<1>3. queue' \in EnqueueSave(r.q, SaveMsg(r.n, s)) /\ seq' = r.n /\ lastEv' = r.last
  BY DEF PersistSnapshot
<1>4. SaveMsg(r.n, s) \in Messages
  BY <1>2, MessageTypes
<1> HIDE DEF r
<1>5. queue' \in Seq(Messages)
  BY <1>2, <1>3, <1>4, EnqueueType
<1>6. QueueOK(r.q, l, r.n, e) => QueueOK(queue', l, r.n, e)
  BY <1>1, <1>2, <1>3, SaveKeeps
<1> QED
  BY <1>1, <1>2, <1>3, <1>5, <1>6

\* The invariant holds initially.
LEMMA InitEstablishes == Init => IInv
<1> SUFFICES ASSUME Init PROVE IInv
  OBVIOUS
<1>1. TypeInv
  <2>1. queue \in Seq(Messages) /\ log \in Seq(Records)
    BY DEF Init
  <2>2. synced \in 0 .. Len(log)
    BY DEF Init
  <2>3. snap \in [n : Nat, shape : Shapes] \cup {None} /\ lastEv \in Events \cup {None}
    BY DEF Init
  <2>4. shape \in Shapes /\ seq \in Nat /\ poisoned \in BOOLEAN /\ torn \in BOOLEAN /\ acked \subseteq Nat
    BY Zenon DEF Init
  <2> QED
    BY <2>1, <2>2, <2>3, <2>4 DEF TypeInv
<1>2. LogIsGapFree
  BY DEF Init, LogIsGapFree
<1>3. ~Running
  BY DEF Init, Running
<1>4. SnapInv /\ AckInv
  BY DEF Init, SnapInv, AckInv
<1> QED
  BY <1>1, <1>2, <1>3, <1>4 DEF IInv

\* Recording a status or a note keeps the invariant.
LEMMA RecordStep ==
  ASSUME IInv, NEW event \in {Note, Status}, Record(event)
  PROVE  IInv'
<1> DEFINE r == Recorded(event, queue, seq, lastEv)
<1>1. event \in Events
  BY MessageTypes
<1>2. queue' = r.q /\ seq' = r.n /\ lastEv' = r.last
  BY DEF Record
<1>3. /\ r.q \in Seq(Messages) /\ r.n \in Nat /\ r.last \in Events \cup {None}
      /\ QueueOK(queue, log, seq, lastEv) => QueueOK(r.q, log, r.n, r.last)
  <2>1. CASE Repeats(event, lastEv)
    BY Zenon, <2>1 DEF Recorded, IInv, TypeInv
  <2>2. CASE ~Repeats(event, lastEv)
    <3>1. r.q = Append(queue, AppendMsg(seq + 1, event)) /\ r.n = seq + 1 /\ r.last = event
      BY <2>2 DEF Recorded
    <3>2. AppendMsg(seq + 1, event) \in Messages
      BY <1>1, MessageTypes DEF IInv, TypeInv
    <3> HIDE DEF r
    <3> QED
      BY <1>1, <3>1, <3>2, RecordKeeps DEF IInv, TypeInv
  <2> QED
    BY <2>1, <2>2
<1>4. UNCHANGED <<phase, shape, poisoned, log, torn, synced, snap, acked>>
  BY DEF Record, disk
<1> HIDE DEF r
<1>5. TypeInv'
  BY <1>2, <1>3, <1>4 DEF IInv, TypeInv
<1>6. (Running /\ ~poisoned)' => QueueOK(queue, log, seq, lastEv)'
  BY <1>2, <1>3, <1>4 DEF IInv, Running
<1> QED
  BY <1>4, <1>5, <1>6 DEF IInv, LogIsGapFree, SnapInv, AckInv

\* Persisting leaves the files alone and the queue in order.
LEMMA PersistStep ==
  ASSUME IInv, NEW s \in Shapes, PersistSnapshot(s, queue, seq, lastEv),
         shape' \in Shapes, Running' => Running,
         UNCHANGED <<poisoned, log, torn, synced, snap, acked>>
  PROVE  IInv'
<1>1. /\ queue' \in Seq(Messages) /\ seq' \in Nat /\ lastEv' \in Events
      /\ QueueOK(queue, log, seq, lastEv) => QueueOK(queue', log, seq', lastEv')
  BY PersistKeeps DEF IInv, TypeInv
<1>2. TypeInv'
  BY <1>1 DEF IInv, TypeInv
<1>3. (Running /\ ~poisoned)' => QueueOK(queue, log, seq, lastEv)'
  BY <1>1 DEF IInv
<1> QED
  BY <1>2, <1>3 DEF IInv, LogIsGapFree, SnapInv, AckInv

\* The worker writes a record, or fails to, or refuses to.
LEMMA AppendStep ==
  ASSUME IInv, AppendEvent
  PROVE  IInv'
<1> DEFINE m == Head(queue)
           written == Append(log, [n |-> m.n, event |-> m.event])
<1>1. /\ queue # << >> /\ m.kind = "EventAppend" /\ queue' = Tail(queue) /\ Running
      /\ m \in Messages /\ Tail(queue) \in Seq(Messages)
      /\ UNCHANGED <<phase, shape, seq, lastEv, snap>>
  BY DEF AppendEvent, TakeKind, Next1, IInv, TypeInv, core
<1>2. CASE AppendRefused /\ UNCHANGED <<poisoned, log, torn, synced, acked>>
  <2>1. TypeInv'
    BY <1>1, <1>2 DEF IInv, TypeInv
  <2> QED
    BY <1>1, <1>2, <2>1 DEF IInv, AppendRefused, LogIsGapFree, SnapInv, AckInv
<1>3. ASSUME ~AppendRefused, log' = written
      PROVE  /\ m.n = Len(log) + 1 /\ Len(log) \in Nat
             /\ log' \in Seq(Records) /\ Len(log') = Len(log) + 1
             /\ \A i \in 1 .. Len(log) : log'[i] = log[i]
             /\ log'[m.n] = [n |-> m.n, event |-> m.event]
             /\ QueueOK(queue', log', seq, lastEv)
             /\ LogIsGapFree'
  <2>1. QueueOK(queue, log, seq, lastEv) /\ log \in Seq(Records) /\ queue \in Seq(Messages)
        /\ seq \in Nat
    BY <1>1, <1>3 DEF IInv, TypeInv, AppendRefused
  <2>2. /\ m.n = Len(log) + 1
        /\ log' \in Seq(Records) /\ Len(log') = Len(log) + 1
        /\ QueueOK(queue', log', seq, lastEv)
    <3> HIDE DEF m
    <3>1. /\ Head(queue).n = Len(log) + 1
          /\ written \in Seq(Records) /\ Len(written) = Len(log) + 1
          /\ QueueOK(Tail(queue), written, seq, lastEv)
      BY Zenon, <1>1, <2>1, TakeAppend DEF m
    <3> QED
      BY <1>1, <1>3, <3>1 DEF m
  <2>3. /\ Len(log) \in Nat
        /\ \A i \in 1 .. Len(log) : log'[i] = log[i]
        /\ log'[Len(log) + 1] = [n |-> m.n, event |-> m.event]
    BY <1>3, <2>1
  <2>4. LogIsGapFree'
    BY <2>2, <2>3 DEF IInv, LogIsGapFree
  <2> QED
    BY <2>2, <2>3, <2>4
<1>4. CASE /\ ~AppendRefused
           /\ log' = written
           /\ synced' = SyncedByAppend(m.event)
           /\ acked' = IF m.event = Note THEN acked \cup {m.n} ELSE acked
           /\ UNCHANGED <<poisoned, torn>>
  <2>1. synced \in 0 .. Len(log) /\ synced' \in 0 .. Len(log') /\ synced <= synced'
    BY <1>3, <1>4 DEF IInv, TypeInv, SyncedByAppend
  <2>2. TypeInv'
    <3>1. acked' \subseteq Nat
      <4>1. m.n \in Nat /\ acked \subseteq Nat
        BY <1>3, <1>4 DEF IInv, TypeInv
      <4>2. acked' = acked \/ acked' = acked \cup {m.n}
        BY <1>4
      <4> HIDE DEF m
      <4> QED
        BY Zenon, <4>1, <4>2
    <3>2. log' \in Seq(Records)
      BY <1>3, <1>4
    <3> HIDE DEF m, written
    <3> QED
      BY <1>1, <1>4, <2>1, <3>1, <3>2 DEF IInv, TypeInv
  <2>3. SnapInv'
    BY <1>1, <1>3, <1>4, <2>1 DEF IInv, SnapInv
  <2>4. AckInv'
    <3> SUFFICES ASSUME NEW a \in acked'
                 PROVE  a \in 1 .. synced' /\ log'[a].event = Note
      BY DEF AckInv
    <3>1. CASE a \in acked
      BY <1>3, <1>4, <2>1, <3>1 DEF IInv, AckInv
    <3>2. CASE m.event = Note /\ a = m.n
      BY <1>3, <1>4, <2>1, <3>2 DEF SyncedByAppend
    <3> QED
      BY Zenon, <1>4, <3>1, <3>2
  <2> QED
    BY <1>1, <1>3, <1>4, <2>2, <2>3, <2>4 DEF IInv
<1>5. CASE /\ ~AppendRefused
           /\ poisoned' = TRUE
           /\ \/ log' = log /\ torn' \in BOOLEAN
              \/ m.event = Note /\ log' = written /\ torn' = torn
           /\ UNCHANGED <<synced, acked>>
  <2>1. CASE log' = log /\ torn' \in BOOLEAN
    <3>1. TypeInv'
      BY <1>1, <1>5, <2>1 DEF IInv, TypeInv
    <3> QED
      BY <1>1, <1>5, <2>1, <3>1 DEF IInv, LogIsGapFree, SnapInv, AckInv
  <2>2. CASE log' = written /\ torn' = torn
    <3>1. synced \in 0 .. Len(log) /\ synced' \in 0 .. Len(log')
      BY <1>3, <1>5, <2>2 DEF IInv, TypeInv
    <3>2. TypeInv'
      BY <1>1, <1>3, <1>5, <2>2, <3>1 DEF IInv, TypeInv
    <3>3. SnapInv' /\ AckInv'
      BY <1>1, <1>3, <1>5, <2>2, <3>1 DEF IInv, SnapInv, AckInv
    <3> QED
      BY <1>1, <1>3, <1>5, <2>2, <3>2, <3>3 DEF IInv
  <2> QED
    BY <1>5, <2>1, <2>2
<1> QED
  BY Zenon, <1>2, <1>4, <1>5 DEF AppendEvent

\* The worker publishes a checkpoint, or fails to, or refuses to.
LEMMA SaveStep ==
  ASSUME IInv, SaveSnapshot
  PROVE  IInv'
<1> DEFINE m == Head(queue)
<1>1. /\ queue # << >> /\ m.kind = "SnapshotSave" /\ queue' = Tail(queue) /\ Running
      /\ queue \in Seq(Messages) /\ m \in Messages /\ Tail(queue) \in Seq(Messages)
      /\ UNCHANGED <<phase, shape, seq, lastEv, poisoned, log, torn, acked>>
  BY DEF SaveSnapshot, TakeKind, Next1, IInv, TypeInv, core
<1>2. (Running /\ ~poisoned)' => QueueOK(queue, log, seq, lastEv)'
  <2> SUFFICES ASSUME ~poisoned PROVE QueueOK(queue', log, seq, lastEv)
    BY <1>1
  <2>1. QueueOK(queue, log, seq, lastEv) /\ log \in Seq(Records) /\ seq \in Nat
    BY <1>1 DEF IInv, TypeInv
  <2> QED
    BY <1>1, <2>1, TakeOther
<1>3. CASE UNCHANGED <<synced, snap>>
  <2>1. TypeInv'
    BY <1>1, <1>3 DEF IInv, TypeInv
  <2> QED
    BY <1>1, <1>2, <1>3, <2>1 DEF IInv, LogIsGapFree, SnapInv, AckInv
<1>4. CASE /\ ~SaveRefused
           /\ synced' = SyncedForSave
           /\ snap' \in {snap, [n |-> m.n, shape |-> m.event.shape]}
  <2>1. PICK s \in Shapes : m.event = Projected(s)
    BY <1>1, <1>4 DEF IInv, QueueOK, SavesOK, SaveRefused
  <2>2. m.event.shape = s /\ m.n \in Nat
    BY <1>1, <2>1 DEF Projected, Messages
  <2>3. m.n \in 1 .. Len(log) /\ log[m.n].event = Projected(s)
    <3>1. Holds(log, queue, m.n, m.event, 1) /\ 1 \in 1 .. Len(queue)
      BY <1>1, <1>4 DEF IInv, QueueOK, SavesOK, SaveRefused
    <3>2. ~ \E j \in 1 .. Len(queue) : j < 1 /\ queue[j] = AppendMsg(m.n, m.event)
      OBVIOUS
    <3> HIDE DEF m
    <3> QED
      BY <2>1, <3>1, <3>2 DEF Holds
  <2>4. synced' = Len(log) /\ synced \in 0 .. Len(log) /\ log \in Seq(Records) /\ Len(log) \in Nat
    BY <1>4 DEF SyncedForSave, IInv, TypeInv
  <2>5. snap' = snap \/ (snap' = [n |-> m.n, shape |-> s])
    BY <1>4, <2>2
  <2> HIDE DEF m
  <2>6. TypeInv'
    <3>1. snap' \in [n : Nat, shape : Shapes] \cup {None}
      BY <2>2, <2>5 DEF IInv, TypeInv
    <3> QED
      BY <1>1, <2>4, <3>1 DEF IInv, TypeInv
  <2>7. SnapInv'
    BY <1>1, <2>3, <2>4, <2>5 DEF IInv, SnapInv
  <2>8. AckInv'
    BY <1>1, <2>4 DEF IInv, AckInv
  <2> QED
    BY <1>1, <1>2, <2>6, <2>7, <2>8 DEF IInv, LogIsGapFree
<1> QED
  BY <1>3, <1>4 DEF SaveSnapshot

\* The worker deletes the checkpoint, or keeps it.
LEMMA DeleteStep ==
  ASSUME IInv, DeleteSnapshot
  PROVE  IInv'
<1>1. /\ queue # << >> /\ Head(queue).kind = "SnapshotDelete" /\ queue' = Tail(queue) /\ Running
      /\ queue \in Seq(Messages) /\ Tail(queue) \in Seq(Messages)
      /\ UNCHANGED <<phase, shape, seq, lastEv, poisoned, log, torn, synced, acked>>
      /\ (snap' = None \/ snap' = snap)
  BY DEF DeleteSnapshot, TakeKind, Next1, IInv, TypeInv, core
<1>2. (Running /\ ~poisoned)' => QueueOK(queue, log, seq, lastEv)'
  <2> SUFFICES ASSUME ~poisoned PROVE QueueOK(queue', log, seq, lastEv)
    BY <1>1
  <2>1. QueueOK(queue, log, seq, lastEv) /\ log \in Seq(Records) /\ seq \in Nat
    BY <1>1 DEF IInv, TypeInv
  <2> QED
    BY <1>1, <2>1, TakeOther
<1>3. TypeInv'
  BY <1>1 DEF IInv, TypeInv
<1> QED
  BY <1>1, <1>2, <1>3 DEF IInv, LogIsGapFree, SnapInv, AckInv

\* A lost suffix lies behind everything that was synced.
LEMMA LossStep ==
  ASSUME IInv, ~Running', ProcessDies \/ PowerLost, poisoned' \in BOOLEAN,
         queue' = queue \/ queue' = << >>, UNCHANGED <<shape, seq, lastEv, acked>>
  PROVE  IInv'
<1>1. /\ log \in Seq(Records) /\ synced \in 0 .. Len(log) /\ Len(log) \in Nat
      /\ synced' = synced /\ snap' = snap /\ torn' \in BOOLEAN
  <2>1. log \in Seq(Records) /\ synced \in 0 .. Len(log) /\ Len(log) \in Nat /\ torn \in BOOLEAN
    BY DEF IInv, TypeInv
  <2>2. CASE ProcessDies
    BY Zenon, <2>1, <2>2 DEF ProcessDies
  <2>3. CASE PowerLost
    BY <2>1, <2>3 DEF PowerLost
  <2> QED
    BY <2>2, <2>3
<1>2. PICK keep \in synced .. Len(log) :
        /\ log' \in Seq(Records) /\ Len(log') = keep
        /\ \A i \in 1 .. keep : log'[i] = log[i]
  <2>1. CASE ProcessDies
    BY <1>1, <2>1 DEF ProcessDies
  <2>2. CASE PowerLost
    <3>1. PICK keep \in synced .. Len(log) : log' = SubSeq(log, 1, keep)
      BY <2>2 DEF PowerLost
    <3>2. /\ log' \in Seq(Records) /\ Len(log') = keep
          /\ \A i \in 1 .. keep : log'[i] = log[i]
      BY <1>1, <3>1
    <3> QED
      BY <3>2
  <2> QED
    BY <2>1, <2>2
<1>3. queue' \in Seq(Messages)
  <2>1. queue \in Seq(Messages) /\ << >> \in Seq(Messages)
    BY DEF IInv, TypeInv
  <2> QED
    BY Zenon, <2>1
<1>4. TypeInv'
  BY <1>1, <1>2, <1>3 DEF IInv, TypeInv
<1>5. LogIsGapFree'
  BY <1>1, <1>2 DEF IInv, LogIsGapFree
<1>6. SnapInv' /\ AckInv'
  BY <1>1, <1>2 DEF IInv, SnapInv, AckInv
<1> QED
  BY <1>4, <1>5, <1>6 DEF IInv

\* The newest projection recovery looks for exists and is the last one.
LEMMA NewestIs ==
  ASSUME NEW n \in Nat, log \in Seq(Records), ProjectedAfter(n) # {}
  PROVE  /\ Newest(ProjectedAfter(n)) \in ProjectedAfter(n)
         /\ \A j \in ProjectedAfter(n) : j <= Newest(ProjectedAfter(n))
<1> DEFINE S == ProjectedAfter(n)
<1>1. S \in SUBSET (0 .. Len(log)) /\ Len(log) \in Nat
  BY DEF ProjectedAfter
<1> HIDE DEF S
<1>2. \E i \in S : \A j \in S : j <= i
  <2>1. S # {}
    BY DEF S
  <2> QED
    BY Zenon, <1>1, <2>1, GreatestNatural
<1>3. Newest(S) \in S /\ \A j \in S : j <= Newest(S)
  BY <1>2 DEF Newest
<1> QED
  BY <1>3 DEF S

\* What recovery rebuilds is the newest projection of the whole log.
LEMMA RecoveryReads ==
  ASSUME IInv, snap # None
  PROVE  /\ RecoverSnapshot = log[Newest(ProjectedAfter(0))].event.shape
         /\ RecoverSnapshot \in Shapes
<1>1. /\ log \in Seq(Records) /\ snap \in [n : Nat, shape : Shapes]
      /\ snap.n \in 1 .. Len(log) /\ snap.n \in Nat /\ snap.n > 0 /\ snap.shape \in Shapes
      /\ log[snap.n].event = Projected(snap.shape)
      /\ \A i \in 1 .. Len(log) : log[i].n = i /\ log[i] \in Records
  BY DEF IInv, TypeInv, SnapInv, LogIsGapFree
<1>2. Projected(snap.shape).kind = "WorkspaceProjected" /\ Projected(snap.shape).shape = snap.shape
  BY DEF Projected
<1>3. /\ snap.n \in ProjectedAfter(0)
      /\ \A i : i \in ProjectedAfter(snap.n) <=> i \in ProjectedAfter(0) /\ i > snap.n
      /\ \A i \in ProjectedAfter(0) : i \in 1 .. Len(log) /\ i \in Nat
  BY <1>1, <1>2 DEF ProjectedAfter
<1>4. /\ Newest(ProjectedAfter(0)) \in ProjectedAfter(0)
      /\ \A j \in ProjectedAfter(0) : j <= Newest(ProjectedAfter(0))
  BY <1>1, <1>3, NewestIs
<1>5. ASSUME NEW i \in ProjectedAfter(0) PROVE log[i].event.shape \in Shapes
  <2>1. log[i].event \in Events /\ log[i].event.kind = "WorkspaceProjected"
    BY <1>1, <1>3, <1>5 DEF Records, ProjectedAfter
  <2>2. log[i].event # Note /\ log[i].event # Status
    BY <2>1 DEF Note, Status
  <2>3. PICK s \in Shapes : log[i].event = Projected(s)
    BY <2>1, <2>2 DEF Events
  <2> QED
    BY <2>3 DEF Projected
<1>6. CASE ProjectedAfter(snap.n) = {}
  <2>1. Newest(ProjectedAfter(0)) = snap.n
    BY <1>1, <1>3, <1>4, <1>6
  <2>2. RecoverSnapshot = snap.shape
    BY <1>6 DEF RecoverSnapshot, Suffix
  <2> QED
    BY <1>1, <1>2, <2>1, <2>2
<1>7. CASE ProjectedAfter(snap.n) # {}
  <2>1. /\ Newest(ProjectedAfter(snap.n)) \in ProjectedAfter(snap.n)
        /\ \A j \in ProjectedAfter(snap.n) : j <= Newest(ProjectedAfter(snap.n))
    BY <1>1, <1>7, NewestIs
  <2>2. Newest(ProjectedAfter(snap.n)) = Newest(ProjectedAfter(0))
    BY <1>1, <1>3, <1>4, <2>1
  <2>3. RecoverSnapshot = log[Newest(ProjectedAfter(snap.n))].event.shape
    BY <1>7 DEF RecoverSnapshot, Suffix
  <2> QED
    BY <1>4, <1>5, <2>2, <2>3
<1> QED
  BY <1>6, <1>7

\* A start rebuilds one of the shapes and begins a queue of its own.
LEMMA StartStep ==
  ASSUME IInv, NEW restore \in BOOLEAN, Start(restore)
  PROVE  IInv'
<1>0. shape' \in Shapes
  <2>1. CASE restore /\ snap # None
    BY <2>1, RecoveryReads DEF Start
  <2>2. CASE ~(restore /\ snap # None)
    BY <2>2 DEF Start
  <2> QED
    BY <2>1, <2>2
<1>1. log \in Seq(Records) /\ Len(log) \in Nat /\ synced \in 0 .. Len(log)
      /\ << >> \in Seq(Messages)
  BY DEF IInv, TypeInv
<1>2. PersistSnapshot(shape', << >>, Len(log), None)
  BY DEF Start
<1>3. /\ log' = log /\ acked' = acked /\ poisoned' = FALSE /\ torn' = FALSE
      /\ synced' \in 0 .. Len(log) /\ synced <= synced'
      /\ (snap' = snap \/ snap' = None)
  BY <1>1 DEF Start
<1>4. /\ queue' \in Seq(Messages) /\ seq' \in Nat /\ lastEv' \in Events
      /\ QueueOK(queue', log, seq', lastEv')
  <2>1. QueueOK(<< >>, log, Len(log), None)
    BY <1>1, FreshQueue
  <2> QED
    BY Zenon, <1>0, <1>1, <1>2, <2>1, PersistKeeps
<1>5. TypeInv'
  BY Zenon, <1>0, <1>1, <1>3, <1>4 DEF IInv, TypeInv
<1>6. SnapInv' /\ AckInv'
  BY <1>1, <1>3 DEF IInv, SnapInv, AckInv
<1> QED
  BY <1>3, <1>4, <1>5, <1>6 DEF IInv, LogIsGapFree

\* Every step keeps the invariant.
LEMMA StepPreserves == IInv /\ [Next]_vars => IInv'
<1> SUFFICES ASSUME IInv, [Next]_vars PROVE IInv'
  OBVIOUS
<1>1. ASSUME NEW event \in {Note, Status}, Record(event) PROVE IInv'
  BY <1>1, RecordStep
<1>2. CASE Persist
  <2>1. shape' \in Shapes /\ PersistSnapshot(shape', queue, seq, lastEv)
        /\ UNCHANGED <<phase, poisoned, log, torn, synced, snap, acked>>
    BY <1>2 DEF Persist, disk
  <2> QED
    BY <2>1, PersistStep DEF Running
<1>3. CASE RetryPane
  <2>1. shape \in Shapes /\ shape' = shape /\ PersistSnapshot(shape, queue, seq, lastEv)
        /\ UNCHANGED <<phase, poisoned, log, torn, synced, snap, acked>>
    BY <1>3 DEF RetryPane, disk, IInv, TypeInv
  <2> QED
    BY <2>1, PersistStep DEF Running
<1>4. CASE Shutdown
  <2>1. /\ shape' \in Shapes /\ Running
        /\ UNCHANGED <<shape, poisoned, log, torn, synced, snap, acked>>
    BY <1>4 DEF Shutdown, disk, IInv, TypeInv, Running
  <2>2. CASE unavail
    <3>1. PICK stripped \in Shapes : PersistSnapshot(stripped, queue, seq, lastEv)
      BY <1>4, <2>2 DEF Shutdown
    <3> QED
      BY <2>1, <3>1, PersistStep
  <2>3. CASE ~unavail
    <3>1. queue' = Append(queue, DeleteMsg) /\ seq' = seq /\ lastEv' = lastEv
      BY <1>4, <2>3 DEF Shutdown
    <3>2. queue' \in Seq(Messages)
      BY <3>1, MessageTypes DEF IInv, TypeInv
    <3>3. QueueOK(queue, log, seq, lastEv) => QueueOK(queue', log, seq, lastEv)
      BY <3>1, DeleteKeeps DEF IInv, TypeInv
    <3>4. TypeInv'
      BY <2>1, <3>1, <3>2 DEF IInv, TypeInv
    <3> QED
      BY <2>1, <3>1, <3>3, <3>4 DEF IInv, LogIsGapFree, SnapInv, AckInv
  <2> QED
    BY <2>2, <2>3
<1>5. CASE Exit
  <2>1. ~Running'
    BY <1>5 DEF Exit, Running
  <2>2. TypeInv'
    BY <1>5 DEF Exit, disk, IInv, TypeInv
  <2> QED
    BY <1>5, <2>1, <2>2 DEF Exit, disk, IInv, LogIsGapFree, SnapInv, AckInv
<1>6. CASE AppendEvent
  BY <1>6, AppendStep
<1>7. CASE SaveSnapshot
  BY <1>7, SaveStep
<1>8. CASE DeleteSnapshot
  BY <1>8, DeleteStep
<1>9. CASE Crash
  <2>1. /\ ~Running' /\ (ProcessDies \/ PowerLost) /\ poisoned' \in BOOLEAN /\ queue' = << >>
        /\ UNCHANGED <<shape, seq, lastEv, acked>>
    BY Zenon, <1>9 DEF Crash, Running
  <2> QED
    BY <2>1, LossStep
<1>10. CASE PowerLostWhileStopped
  <2>1. /\ ~Running' /\ PowerLost /\ poisoned' \in BOOLEAN /\ queue' = queue
        /\ UNCHANGED <<shape, seq, lastEv, acked>>
    BY <1>10 DEF PowerLostWhileStopped, Running, core, IInv, TypeInv
  <2> QED
    BY <2>1, LossStep
<1>11. ASSUME NEW restore \in BOOLEAN, Start(restore) PROVE IInv'
  BY <1>11, StartStep
<1>12. CASE UNCHANGED vars
  <2>1. UNCHANGED <<phase, shape, seq, lastEv, queue, poisoned, log, torn, synced, snap, acked>>
    BY <1>12 DEF vars, core, disk
  <2>2. TypeInv'
    BY <2>1 DEF IInv, TypeInv
  <2>3. (Running /\ ~poisoned)' => QueueOK(queue, log, seq, lastEv)'
    BY <2>1 DEF IInv, Running
  <2> QED
    BY <2>1, <2>2, <2>3 DEF IInv, LogIsGapFree, SnapInv, AckInv
<1> QED
  BY <1>1, <1>2, <1>3, <1>4, <1>5, <1>6, <1>7, <1>8, <1>9, <1>10, <1>11, <1>12 DEF Next

-----------------------------------------------------------------------------
(* The theorems.                                                           *)

\* The inductive invariant holds in every reachable state.
THEOREM Invariance == Spec => []IInv
BY InitEstablishes, StepPreserves, PTL DEF Spec

\* save_snapshot never leaves a checkpoint that claims a record which is not
\* on stable storage, whatever fails and whenever the machine stops.
THEOREM CheckpointSafe == Spec => []CheckpointWithinLog
<1>1. IInv => CheckpointWithinLog
  BY DEF IInv, TypeInv, SnapInv, CheckpointWithinLog
<1> QED
  BY <1>1, Invariance, PTL

\* The log file is never left with a gap (append_event's poisoning), so the
\* next start keeps every complete record of it.
THEOREM LogGapFree == Spec => []LogIsGapFree
<1>1. IInv => LogIsGapFree
  BY DEF IInv
<1> QED
  BY <1>1, Invariance, PTL

\* recover_snapshot, which reads only the checkpoint and the log after it,
\* rebuilds the newest structure of the whole log.
THEOREM RecoveryIsComplete == Spec => []RecoveryFindsNewest
<1>1. IInv => RecoveryFindsNewest
  BY RecoveryReads DEF RecoveryFindsNewest
<1> QED
  BY <1>1, Invariance, PTL

\* A timeline entry acknowledged by append_event is never lost.
THEOREM AcknowledgedSurvives == Spec => []TimelineSurvives
<1>1. ASSUME IInv PROVE TimelineSurvives
  <2> SUFFICES ASSUME NEW n \in acked
               PROVE  \E i \in 1 .. Len(log) : log[i] = [n |-> n, event |-> Note]
    BY DEF TimelineSurvives
  <2>1. n \in 1 .. Len(log) /\ log[n].event = Note /\ log[n].n = n /\ log[n] \in Records
    BY <1>1 DEF IInv, TypeInv, AckInv, LogIsGapFree
  <2>2. log[n] = [n |-> n, event |-> Note]
    BY <2>1 DEF Records
  <2> QED
    BY <2>1, <2>2
<1> QED
  BY <1>1, Invariance, PTL
=============================================================================
