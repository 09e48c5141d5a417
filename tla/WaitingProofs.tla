---------------------------- MODULE WaitingProofs ----------------------------
(***************************************************************************)
(* Proofs about the waiting queue, for every set of Panes, summaries and   *)
(* envelopes and every bound.                                              *)
(***************************************************************************)
EXTENDS WaitingQueue, SequenceTheorems, NaturalFacts, TLAPS

-----------------------------------------------------------------------------
(* The inductive invariant, on queues.                                     *)

IsItem(i) ==
  /\ i = Item(i.id, i.pane, i.inv, i.kind, i.text)
  /\ i.id \in Nat /\ i.pane \in Panes
  /\ i.kind \in Blocked => i.inv # 0

\* A queue numbers its items below its allocator, one per Pane.
WellFormed(q) ==
  /\ q = [items |-> q.items, next |-> q.next]
  /\ q.next \in Nat
  /\ \A i \in q.items : IsItem(i) /\ i.id < q.next
  /\ \A i, j \in q.items : i.id = j.id \/ i.pane = j.pane => i = j

\* The same prompt, whatever its summary says by now.
Agree(i, j) == i.id = j.id /\ i.pane = j.pane /\ i.inv = j.inv /\ i.kind = j.kind

\* q2 comes after q: what is not new since q is a prompt of q.
Follows(q, q2) ==
  /\ WellFormed(q2)
  /\ q.next <= q2.next
  /\ \A j \in q2.items : j.id >= q.next \/ \E i \in q.items : Agree(i, j)

\* The live queue of w comes after q, and the log replays to it.
Fine(q, w) == w.r = w.q /\ Follows(q, w.q)

\* A queue that did not change comes after itself.
LEMMA FollowsSame == ASSUME NEW q, WellFormed(q) PROVE Follows(q, q)
BY DEF WellFormed, Follows, Agree

\* Coming after is transitive: an id of the middle queue is new, or a prompt of the first.
LEMMA FollowsOn ==
  ASSUME NEW q, NEW q2, NEW q3, WellFormed(q), Follows(q, q2), Follows(q2, q3)
  PROVE  Follows(q, q3)
<1>1. q.next \in Nat /\ q2.next \in Nat /\ q3.next \in Nat
  BY DEF Follows, WellFormed
<1>2. q.next <= q2.next /\ q2.next <= q3.next
  BY DEF Follows
<1>3. ASSUME NEW j \in q3.items PROVE j.id >= q.next \/ \E i \in q.items : Agree(i, j)
  <2>0. j.id \in Nat
    BY DEF Follows, WellFormed, IsItem
  <2>1. CASE j.id >= q2.next
    BY <1>1, <1>2, <2>0, <2>1
  <2>2. CASE \E i \in q2.items : Agree(i, j)
    BY <2>2 DEF Follows, Agree
  <2> QED
    BY <2>1, <2>2 DEF Follows
<1> QED
  BY <1>1, <1>2, <1>3 DEF Follows

\* Two changes recorded one after the other are one.
LEMMA FineOn ==
  ASSUME NEW q, NEW w, NEW w2, WellFormed(q), Fine(q, w), Fine(w.q, w2)
  PROVE  Fine(q, w2)
BY FollowsOn DEF Fine

\* record_waiting_change for a change that creates no item: what is resolved and
\* refreshed replays.
LEMMA ApplyOld ==
  ASSUME NEW w, NEW q2, WellFormed(w.q), w.r = w.q, WellFormed(q2), q2.next = w.q.next,
         \A j \in q2.items : \E i \in w.q.items : Agree(i, j)
  PROVE  Apply(w, q2).q = q2 /\ Fine(w.q, Apply(w, q2))
<1> DEFINE q    == w.q
           gone == {i.id : i \in q.items} \ {i.id : i \in q2.items}
           new  == {i \in q2.items : i.id >= q.next}
           r    == Resolve(w.r, gone)
           Now2(i) == IF \E j \in q2.items : j.id = i.id
                      THEN CHOOSE j \in q2.items : j.id = i.id ELSE i
<1>1. new = {}
  <2>1. \A j \in q2.items : j.id \in Nat /\ j.id < q.next
    BY DEF WellFormed, IsItem
  <2> QED
    BY <2>1 DEF WellFormed
<1>2. Apply(w, q2) = [q |-> q2, r |-> Refresh(q, q2, r)]
  BY <1>1 DEF Apply
<1> DEFINE kept  == {i \in q.items : i.id \notin gone}
           fresh == {Now2(i) : i \in kept}
<1>3. r = [items |-> kept, next |-> q.next]
  <2>1. q = [items |-> q.items, next |-> q.next]
    BY DEF WellFormed
  <2>2. r = [q EXCEPT !.items = kept]
    BY DEF Resolve
  <2> HIDE DEF r, kept
  <2> QED
    BY <2>1, <2>2
<1>4. Refresh(q, q2, r) = [items |-> fresh, next |-> q.next]
  <2>1. r.items = kept
    <3> HIDE DEF r, kept
    <3> QED
      BY <1>3
  <2> HIDE DEF kept, r
  <2>2. Refresh(q, q2, r) = [r EXCEPT !.items = fresh]
    BY <2>1 DEF Refresh
  <2> HIDE DEF fresh
  <2> QED
    BY <1>3, <2>2
<1>5. \A i \in q.items : i.id \notin gone <=> \E j \in q2.items : j.id = i.id
  OBVIOUS
<1>6. \A j \in q2.items : \A i \in q.items : j.id = i.id => Now2(i) = j
  BY DEF WellFormed
<1>7. fresh = q2.items
  <2>1. ASSUME NEW i \in q.items, i.id \notin gone PROVE Now2(i) \in q2.items
    BY <1>5, <1>6, <2>1
  <2>2. ASSUME NEW j \in q2.items PROVE \E i \in q.items : i.id \notin gone /\ Now2(i) = j
    <3>1. PICK i \in q.items : Agree(i, j)
      OBVIOUS
    <3>2. j.id = i.id
      BY <3>1 DEF Agree
    <3>3. i.id \notin gone /\ Now2(i) = j
      BY <1>5, <1>6, <3>2
    <3> QED
      BY <3>3
  <2> HIDE DEF Now2, gone
  <2> QED
    BY <2>1, <2>2
<1>8. q2 = [items |-> q2.items, next |-> q.next]
  BY DEF WellFormed
<1>9. Apply(w, q2) = [q |-> q2, r |-> q2]
  <2> HIDE DEF fresh, r
  <2> QED
    BY <1>2, <1>4, <1>7, <1>8
<1>10. Follows(q, q2)
  BY DEF Follows, WellFormed
<1> QED
  BY <1>9, <1>10 DEF Fine

\* record_waiting_change for a new item, which replaces what its Pane waited for.
LEMMA ApplyNew ==
  ASSUME NEW w, WellFormed(w.q), w.r = w.q, NEW p \in Panes, NEW inv, NEW kind, NEW text,
         kind \in Blocked => inv # 0
  PROVE  Fine(w.q, Apply(w, Request(w.q, p, inv, kind, text)))
<1> DEFINE q    == w.q
           n    == Item(q.next, p, inv, kind, text)
           rest == {i \in q.items : i.pane # p}
           q2   == Request(q, p, inv, kind, text)
           gone == {i.id : i \in q.items} \ {i.id : i \in q2.items}
           new  == {i \in q2.items : i.id >= q.next}
           r    == Resolve(w.r, gone)
<1>0. q.next \in Nat /\ q = [items |-> q.items, next |-> q.next]
      /\ \A i \in q.items : IsItem(i) /\ i.id < q.next
  BY DEF WellFormed
<1>1. q2 = [items |-> rest \cup {n}, next |-> q.next + 1]
  <2>1. ResolvePane(q, p).items = rest
    <3>1. ResolvePane(q, p) = [items |-> q.items \ OfPane(q, p), next |-> q.next]
      BY <1>0 DEF ResolvePane
    <3> QED
      BY <3>1 DEF OfPane
  <2> QED
    BY <2>1 DEF Request
<1>2. n.id = q.next /\ n.pane = p /\ n.inv = inv /\ n.kind = kind /\ n.text = text /\ IsItem(n)
  BY <1>0 DEF Item, IsItem
<1> HIDE DEF n
<1>3. new = {n}
  <2>1. \A i \in rest : i.id \in Nat /\ i.id < q.next
    BY <1>0 DEF IsItem
  <2>2. \A i \in rest : ~(i.id >= q.next)
    BY <1>0, <2>1
  <2>3. n.id >= q.next
    BY <1>0, <1>2
  <2> HIDE DEF q2, rest
  <2> QED
    BY <1>1, <2>2, <2>3
<1>4. (CHOOSE i \in new : TRUE) = n
  BY <1>3
<1>5. \A i \in q.items : i.id \notin gone <=> i.pane # p
  <2>1. ASSUME NEW i \in q.items, i.pane # p PROVE i.id \notin gone
    BY <1>1, <2>1
  <2>2. ASSUME NEW i \in q.items, i.pane = p, NEW j \in q2.items, j.id = i.id PROVE FALSE
    <3>1. CASE j = n
      BY <1>0, <1>2, <2>2, <3>1 DEF IsItem
    <3>2. CASE j \in rest
      BY <2>2, <3>2 DEF WellFormed
    <3> QED
      BY <1>1, <3>1, <3>2
  <2> QED
    BY <2>1, <2>2
<1>6. r = [items |-> rest, next |-> q.next]
  <2>1. {i \in q.items : i.id \notin gone} = rest
    BY <1>5
  <2> HIDE DEF gone, rest
  <2> QED
    BY <1>0, <2>1 DEF Resolve
<1>7. Insert(r, n) = [items |-> rest \cup {n}, next |-> q.next + 1]
  <2>1. {i \in rest : i.id # n.id /\ i.pane # n.pane} = rest
    <3>1. \A i \in rest : i.id # n.id /\ i.pane # n.pane
      BY <1>0, <1>2 DEF IsItem
    <3> HIDE DEF rest
    <3> QED
      BY <3>1
  <2>2. ~(q.next > n.id)
    BY <1>0, <1>2
  <2> HIDE DEF r, rest
  <2>3. r.items = rest /\ r.next = q.next
    BY <1>6
  <2>4. Insert(r, n) = [items |-> {i \in rest : i.id # n.id /\ i.pane # n.pane} \cup {n},
                        next  |-> IF q.next > n.id THEN q.next ELSE n.id + 1]
    BY <2>3 DEF Insert
  <2> QED
    BY Zenon, <1>2, <2>1, <2>2, <2>4
<1>8. Apply(w, q2) = [q |-> q2, r |-> q2]
  <2>1. Apply(w, q2) = [q |-> q2, r |-> IF new # {} THEN Insert(r, CHOOSE i \in new : TRUE)
                                        ELSE Refresh(q, q2, r)]
    BY DEF Apply
  <2> HIDE DEF q2, r, new
  <2> QED
    BY Zenon, <1>1, <1>3, <1>4, <1>7, <2>1
<1> HIDE DEF q2
<1>9. WellFormed(q2)
  <2>1. q2.items = rest \cup {n} /\ q2.next = q.next + 1 /\ q2 = [items |-> q2.items, next |-> q2.next]
    BY <1>1
  <2>2. \A i \in q2.items : IsItem(i) /\ i.id < q2.next
    <3>1. \A i \in rest : IsItem(i) /\ i.id < q.next + 1
      BY <1>0 DEF IsItem
    <3>2. IsItem(n) /\ n.id < q.next + 1
      BY <1>0, <1>2
    <3> HIDE DEF rest
    <3> QED
      BY <2>1, <3>1, <3>2
  <2>3. ASSUME NEW i \in q2.items, NEW j \in q2.items, i.id = j.id \/ i.pane = j.pane PROVE i = j
    <3>1. \A k \in rest : k.id # n.id /\ k.pane # n.pane
      BY <1>0, <1>2 DEF IsItem
    <3>2. \A k, l \in rest : k.id = l.id \/ k.pane = l.pane => k = l
      BY DEF WellFormed
    <3> HIDE DEF rest
    <3> QED
      BY <2>1, <2>3, <3>1, <3>2
  <2> QED
    BY <1>0, <2>1, <2>2, <2>3 DEF WellFormed
<1>10. Follows(q, q2)
  <2>1. q2.items = rest \cup {n} /\ q2.next = q.next + 1
    BY <1>1
  <2>2. \A j \in rest : \E i \in q.items : Agree(i, j)
    BY DEF Agree
  <2>3. n.id >= q.next /\ q.next <= q.next + 1
    BY <1>0, <1>2
  <2> HIDE DEF rest
  <2> QED
    BY <1>9, <2>1, <2>2, <2>3 DEF Follows
<1> QED
  BY <1>8, <1>10 DEF Fine, q2

\* What is left of a queue is well formed.
LEMMA PartWellFormed ==
  ASSUME NEW q, WellFormed(q), NEW part, part \subseteq q.items
  PROVE  LET q2 == [q EXCEPT !.items = part] IN
           /\ WellFormed(q2) /\ q2.items = part /\ q2.next = q.next
           /\ \A j \in q2.items : \E i \in q.items : Agree(i, j)
<1> DEFINE q2 == [q EXCEPT !.items = part]
<1>1. q2 = [items |-> part, next |-> q.next]
  BY DEF WellFormed
<1>2. q2.items = part /\ q2.next = q.next
  BY <1>1
<1> HIDE DEF q2
<1>3. WellFormed(q2)
  BY <1>1, <1>2 DEF WellFormed
<1>4. \A j \in q2.items : \E i \in q.items : Agree(i, j)
  BY <1>2 DEF Agree
<1> QED
  BY <1>2, <1>3, <1>4 DEF q2

\* resolve, recorded: the items with these ids go from the queue and from its replay.
LEMMA ResolveFine ==
  ASSUME NEW w, WellFormed(w.q), w.r = w.q, NEW ids
  PROVE  Fine(w.q, Apply(w, Resolve(w.q, ids)))
<1> DEFINE part == {i \in w.q.items : i.id \notin ids}
           q2 == [w.q EXCEPT !.items = part]
<1>1. Resolve(w.q, ids) = q2
  BY DEF Resolve
<1>2. part \subseteq w.q.items
  OBVIOUS
<1> HIDE DEF part
<1>3. /\ WellFormed(q2) /\ q2.next = w.q.next
      /\ \A j \in q2.items : \E i \in w.q.items : Agree(i, j)
  BY <1>2, PartWellFormed
<1> HIDE DEF q2
<1> QED
  BY <1>1, <1>3, ApplyOld

\* resolve_pane, recorded: what the Pane waited for goes from both.
LEMMA ResolvePaneFine ==
  ASSUME NEW w, WellFormed(w.q), w.r = w.q, NEW p
  PROVE  Fine(w.q, Apply(w, ResolvePane(w.q, p)))
<1> DEFINE part == w.q.items \ OfPane(w.q, p)
           q2 == [w.q EXCEPT !.items = part]
<1>1. ResolvePane(w.q, p) = q2
  BY DEF ResolvePane
<1>2. part \subseteq w.q.items
  OBVIOUS
<1> HIDE DEF part
<1>3. /\ WellFormed(q2) /\ q2.next = w.q.next
      /\ \A j \in q2.items : \E i \in w.q.items : Agree(i, j)
  BY <1>2, PartWellFormed
<1> HIDE DEF q2
<1> QED
  BY <1>1, <1>3, ApplyOld

\* update_summary, recorded: only the wording of one item changes.
LEMMA UpdateFine ==
  ASSUME NEW w, WellFormed(w.q), w.r = w.q, NEW id, NEW text
  PROVE  Fine(w.q, Apply(w, UpdateSummary(w.q, id, text)))
<1> DEFINE q == w.q
           Said(i) == IF i.id = id THEN [i EXCEPT !.text = text] ELSE i
           said == {Said(i) : i \in q.items}
           q2 == [items |-> said, next |-> q.next]
<1>1. UpdateSummary(q, id, text) = q2
  <2>1. q = [items |-> q.items, next |-> q.next]
    BY DEF WellFormed
  <2>2. UpdateSummary(q, id, text) = [q EXCEPT !.items = said]
    BY DEF UpdateSummary
  <2> HIDE DEF said
  <2> QED
    BY <2>1, <2>2
<1>2. ASSUME NEW i \in q.items PROVE IsItem(Said(i)) /\ Agree(i, Said(i))
  <2>1. i = Item(i.id, i.pane, i.inv, i.kind, i.text) /\ IsItem(i)
    BY DEF WellFormed, IsItem
  <2>2. CASE i.id = id
    <3>1. Said(i) = Item(i.id, i.pane, i.inv, i.kind, text)
      BY <2>1, <2>2 DEF Item
    <3> DEFINE s == Said(i)
    <3> HIDE DEF Said
    <3>2. s.id = i.id /\ s.pane = i.pane /\ s.inv = i.inv /\ s.kind = i.kind /\ s.text = text
      BY <3>1 DEF Item
    <3> QED
      BY <2>1, <3>1, <3>2 DEF IsItem, Agree
  <2>3. CASE i.id # id
    BY <2>1, <2>3 DEF Agree
  <2> QED
    BY <2>2, <2>3
<1> HIDE DEF Said
<1>3. WellFormed(q2)
  <2>1. q2.items = said /\ q2.next = q.next /\ q.next \in Nat /\ q2 = [items |-> q2.items, next |-> q2.next]
    BY DEF WellFormed
  <2>2. ASSUME NEW i \in q2.items PROVE IsItem(i) /\ i.id < q2.next
    <3>1. PICK k \in q.items : i = Said(k)
      BY <2>1
    <3>2. IsItem(i) /\ i.id = k.id /\ k.id < q.next
      BY <1>2, <3>1 DEF Agree, WellFormed
    <3> QED
      BY <2>1, <3>2
  <2>3. ASSUME NEW i \in q2.items, NEW j \in q2.items, i.id = j.id \/ i.pane = j.pane PROVE i = j
    <3>1. PICK k \in q.items : i = Said(k)
      BY <2>1
    <3>2. PICK l \in q.items : j = Said(l)
      BY <2>1
    <3>3. k.id = l.id \/ k.pane = l.pane
      BY <1>2, <2>3, <3>1, <3>2 DEF Agree
    <3>4. k = l
      BY <3>3 DEF WellFormed
    <3> QED
      BY <3>1, <3>2, <3>4
  <2> HIDE DEF q2
  <2> QED
    BY <2>1, <2>2, <2>3 DEF WellFormed
<1>4. \A j \in q2.items : \E i \in q.items : Agree(i, j)
  BY <1>2
<1>5. q2.next = q.next
  OBVIOUS
<1> HIDE DEF q2
<1> QED
  BY <1>1, <1>3, <1>4, <1>5, ApplyOld

\* sync_waiting_agent, with a status reported by an invocation.
LEMMA ObserveFine ==
  ASSUME NEW w, WellFormed(w.q), w.r = w.q, NEW p \in Panes, NEW inv, inv # 0,
         NEW status, NEW text
  PROVE  Fine(w.q, Apply(w, ObserveAgent(w.q, p, inv, status, text)))
<1> DEFINE same == {i \in OfPane(w.q, p) : SamePrompt(i, inv, status)}
           id   == (CHOOSE i \in same : TRUE).id
<1>1. ObserveAgent(w.q, p, inv, status, text) =
        IF status \notin Blocked THEN ResolvePane(w.q, p)
        ELSE IF same # {} THEN UpdateSummary(w.q, id, text)
        ELSE Request(w.q, p, inv, status, text)
  BY DEF ObserveAgent
<1> HIDE DEF same, id
<1>2. /\ Fine(w.q, Apply(w, ResolvePane(w.q, p)))
      /\ Fine(w.q, Apply(w, UpdateSummary(w.q, id, text)))
      /\ Fine(w.q, Apply(w, Request(w.q, p, inv, status, text)))
  BY ResolvePaneFine, UpdateFine, ApplyNew
<1> QED
  BY <1>1, <1>2

-----------------------------------------------------------------------------
(* Panes, what is held, and the invariant.                                 *)

Reported == Statuses \cup {NoAgent} \cup {e.status : e \in Envelopes}

PaneRecords ==
  [live : BOOLEAN, status : Reported, pid : Nat, fg : Nat \ {0}, own : Nat \ {0},
   last : Nat \ {0}, dead : Nat]

\* An item read earlier is of a prompt that was created, and agrees with the item
\* of its id if that still waits.
Remembered(q, s) ==
  /\ IsItem(s) /\ s.id < q.next
  /\ \A i \in q.items : s.id = i.id => Agree(s, i)

TypedRight ==
  \A t \in typed :
    t.read.kind \in Blocked =>
      /\ t.read.pane = t.pane
      /\ t.read.inv = Current(panes[t.pane])
      /\ t.read.kind = panes[t.pane].status

IInv ==
  /\ WellFormed(queue) /\ replayed = queue
  /\ panes \in [Panes -> PaneRecords]
  /\ \A s \in held \cup rollback : Remembered(queue, s)
  /\ born \in Nat /\ born <= queue.next /\ NothingWorn
  /\ TypedRight

\* The invocation a Pane answers for is never 0, the mark of none.
LEMMA CurrentFact == ASSUME NEW pane \in PaneRecords PROVE Current(pane) # 0
BY DEF PaneRecords, Current

\* sync_waiting_agent, with the Pane's own status.
LEMMA SyncFine ==
  ASSUME NEW w, WellFormed(w.q), w.r = w.q, NEW p \in Panes, NEW pane \in PaneRecords,
         NEW status, NEW text
  PROVE  Fine(w.q, Sync(w, p, pane, status, text))
BY Zenon, CurrentFact, ObserveFine DEF Sync

\* What a client remembers of an earlier queue holds of a later one.
LEMMA RememberedOn ==
  ASSUME NEW q, NEW q2, NEW s, WellFormed(q), Follows(q, q2), Remembered(q, s)
  PROVE  Remembered(q2, s)
<1>1. q.next \in Nat /\ q2.next \in Nat /\ q.next <= q2.next /\ s.id \in Nat /\ s.id < q.next
  BY DEF Follows, WellFormed, Remembered, IsItem
<1>2. ASSUME NEW j \in q2.items, s.id = j.id PROVE Agree(s, j)
  <2>1. ~(j.id >= q.next)
    BY <1>1, <1>2
  <2>2. PICK i \in q.items : Agree(i, j)
    BY <2>1 DEF Follows
  <2> QED
    BY <1>2, <2>2 DEF Remembered, Agree
<1> QED
  BY <1>1, <1>2 DEF Remembered

\* An item of the queue, read now.
LEMMA RememberedNow ==
  ASSUME NEW q, WellFormed(q), NEW i \in q.items PROVE Remembered(q, i)
BY DEF WellFormed, Remembered, Agree

\* What a step that publishes a queue after the old one has to show.
LEMMA PublishKeeps ==
  ASSUME IInv, NEW w, Publish(w), Fine(queue, w), UNCHANGED born,
         \A s \in held' \cup rollback' : Remembered(queue, s),
         panes' \in [Panes -> PaneRecords], TypedRight'
  PROVE  IInv'
<1>1. queue' = w.q /\ replayed' = w.q /\ Follows(queue, queue') /\ WellFormed(queue')
  BY DEF Publish, Fine, Follows
<1>2. WellFormed(queue)
  BY DEF IInv
<1>3. \A s \in held' \cup rollback' : Remembered(queue', s)
  BY <1>1, <1>2, RememberedOn
<1>4. born' \in Nat /\ born' <= queue'.next /\ NothingWorn'
  <2>1. born \in Nat /\ queue.next \in Nat /\ queue'.next \in Nat /\ born <= queue.next
        /\ queue.next <= queue'.next
    BY <1>1 DEF IInv, WellFormed, Follows
  <2>2. ASSUME NEW j \in queue'.items PROVE j.id >= born
    <3>0. j.id \in Nat
      BY <1>1 DEF WellFormed, IsItem
    <3>1. CASE j.id >= queue.next
      BY <2>1, <3>0, <3>1
    <3>2. CASE \E i \in queue.items : Agree(i, j)
      BY <3>2 DEF Agree, IInv, NothingWorn
    <3> QED
      BY <1>1, <3>1, <3>2 DEF Follows
  <2> QED
    BY <2>1, <2>2 DEF NothingWorn
<1> QED
  BY <1>1, <1>3, <1>4 DEF IInv

-----------------------------------------------------------------------------
(* A batch of envelopes.                                                   *)

\* What reading a batch keeps: the log replays to a queue after the one it began with.
Reading(b) ==
  /\ b = [pane |-> b.pane, w |-> b.w, moves |-> b.moves, refresh |-> b.refresh]
  /\ b.pane \in PaneRecords
  /\ b.moves \in Seq(Reported)
  /\ Fine(queue, b.w)

\* One envelope of a batch (the body of on_pane_readable's loop).
LEMMA EnvelopeKeeps ==
  ASSUME WellFormed(queue), NEW b, Reading(b), NEW ev \in Envelopes, NEW p
  PROVE  Reading(Envelope(b, ev, p))
<1> DEFINE pane  == b.pane
           fresh == ~Bound(pane) \/ pane.own # pane.pid
           drop  == (fresh /\ Bound(pane)) \/ (~fresh /\ ev.with = "session")
           moved == pane.status # ev.status
           kept  == IF drop THEN <<>> ELSE b.moves
           w2    == IF drop THEN Apply(b.w, ResolvePane(b.w.q, p)) ELSE b.w
           moves == IF moved THEN Append(kept, ev.status) ELSE kept
           pane2 == [pane EXCEPT !.status = ev.status, !.pid = IF fresh THEN pane.own ELSE @]
           again == b.refresh \/ drop \/ ev.with = "asked"
           b2    == [pane |-> pane2, w |-> w2, moves |-> moves, refresh |-> again]
<1>0. ev.status \in Reported /\ NoAgent \in Reported /\ b.pane \in PaneRecords
  BY DEF Reported, Reading
<1>1. CASE ev.status = "Exited"
  <2> DEFINE gone == [pane EXCEPT !.status = NoAgent, !.pid = 0]
  <2>1. gone \in PaneRecords
    BY Zenon, <1>0 DEF PaneRecords
  <2>2. Envelope(b, ev, p) = [b EXCEPT !.pane = gone]
    <3>1. Envelope(b, ev, p) = [b EXCEPT !.pane.status = NoAgent, !.pane.pid = 0]
      BY <1>1 DEF Envelope
    <3>2. b = [pane |-> b.pane, w |-> b.w, moves |-> b.moves, refresh |-> b.refresh]
      BY DEF Reading
    <3> QED
      BY Zenon, <3>1, <3>2
  <2>3. Envelope(b, ev, p) = [pane |-> gone, w |-> b.w, moves |-> b.moves, refresh |-> b.refresh]
    <3> HIDE DEF gone
    <3> QED
      BY <2>2 DEF Reading
  <2> HIDE DEF gone
  <2> QED
    BY <2>1, <2>3 DEF Reading
<1>2. CASE ev.status # "Exited"
  <2>1. Envelope(b, ev, p) = b2
    BY <1>2 DEF Envelope
  <2>2. pane2 \in PaneRecords
    <3>1. pane.own \in Nat
      BY <1>0 DEF PaneRecords
    <3> HIDE DEF fresh
    <3> QED
      BY Zenon, <1>0, <3>1 DEF PaneRecords
  <2>3. moves \in Seq(Reported)
    <3>1. kept \in Seq(Reported)
      <4>1. << >> \in Seq(Reported) /\ b.moves \in Seq(Reported)
        BY DEF Reading
      <4> HIDE DEF drop
      <4> QED
        BY <4>1
    <3> HIDE DEF kept, moved
    <3>2. Append(kept, ev.status) \in Seq(Reported)
      BY <1>0, <3>1, AppendProperties
    <3> QED
      BY <3>1, <3>2
  <2>4. Fine(queue, w2)
    <3>1. Fine(queue, b.w) /\ WellFormed(b.w.q) /\ b.w.r = b.w.q
      BY DEF Reading, Fine, Follows
    <3>2. Fine(b.w.q, Apply(b.w, ResolvePane(b.w.q, p)))
      BY <3>1, ResolvePaneFine
    <3>3. Fine(queue, Apply(b.w, ResolvePane(b.w.q, p)))
      BY <3>1, <3>2, FineOn
    <3> HIDE DEF drop
    <3> QED
      BY <3>1, <3>3
  <2> HIDE DEF pane2, moves, w2, again
  <2> QED
    BY <2>1, <2>2, <2>3, <2>4 DEF Reading
<1> QED
  BY <1>1, <1>2

\* on_pane_readable's loop over the envelopes keeps it (the function that defines
\* ReadAll exists, and no n is the least at which it fails).
LEMMA ReadAllKeeps ==
  ASSUME WellFormed(queue), NEW b0, Reading(b0), NEW batch \in Seq(Envelopes), NEW p
  PROVE  Reading(ReadAll(b0, batch, p))
<1> DEFINE N == Len(batch)
           Rec(k, f) == f = [n \in 0 .. k |-> IF n = 0 THEN b0 ELSE Envelope(f[n - 1], batch[n], p)]
           S == {k \in 0 .. N : ~\E f : Rec(k, f)}
<1>0. N \in Nat /\ \A n \in 1 .. N : batch[n] \in Envelopes
  BY LenProperties, ElementOfSeq
<1> HIDE DEF N
<1>1. S = {}
  <2> SUFFICES ASSUME S # {} PROVE FALSE
    OBVIOUS
  <2>1. PICK x \in S : \A y \in S : x <= y
    <3>1. S \in SUBSET Nat
      OBVIOUS
    <3> HIDE DEF S
    <3> QED
      BY <3>1, LeastNatural
  <2>2. Rec(0, [n \in 0 .. 0 |-> b0])
    OBVIOUS
  <2>3. x \in 1 .. N
    <3>1. x # 0
      <4> HIDE DEF Rec
      <4> QED
        BY <2>2
    <3> QED
      BY <1>0, <3>1
  <2>4. PICK f : Rec(x - 1, f)
    <3>1. x - 1 \in 0 .. N /\ ~(x <= x - 1)
      BY <1>0, <2>3
    <3> HIDE DEF Rec
    <3> QED
      BY <2>1, <3>1
  <2> DEFINE g == [n \in 0 .. x |-> IF n = x THEN Envelope(f[x - 1], batch[x], p) ELSE f[n]]
  <2>5. ASSUME NEW n \in 0 .. x PROVE g[n] = IF n = 0 THEN b0 ELSE Envelope(g[n - 1], batch[n], p)
    <3>1. CASE n = x
      BY <1>0, <2>3, <3>1
    <3>2. CASE n # x
      <4>1. n \in 0 .. x - 1 /\ (n # 0 => n - 1 \in 0 .. x /\ n - 1 # x)
        BY <1>0, <2>3, <3>2
      <4>2. f[n] = IF n = 0 THEN b0 ELSE Envelope(f[n - 1], batch[n], p)
        BY <2>4, <4>1
      <4> QED
        BY <3>2, <4>1, <4>2
    <3> QED
      BY <3>1, <3>2
  <2>6. Rec(x, g)
    BY <2>5
  <2> QED
    BY Zenon, <2>6
<1>2. \E f : Rec(N, f)
  BY <1>0, <1>1
<1> DEFINE read == CHOOSE f : Rec(N, f)
<1>3. Rec(N, read)
  <2> HIDE DEF Rec
  <2> QED
    BY <1>2
<1>4. ReadAll(b0, batch, p) = read[N]
  BY DEF ReadAll, N
<1> HIDE DEF read
<1>5. \A n \in 0 .. N : read[n] = IF n = 0 THEN b0 ELSE Envelope(read[n - 1], batch[n], p)
  BY Zenon, <1>3
<1> HIDE DEF Rec
<1> DEFINE Bad == {n \in 0 .. N : ~Reading(read[n])}
<1>6. Bad = {}
  <2> SUFFICES ASSUME Bad # {} PROVE FALSE
    OBVIOUS
  <2>1. PICK x \in Bad : \A y \in Bad : x <= y
    <3>1. Bad \in SUBSET Nat
      OBVIOUS
    <3> HIDE DEF Bad
    <3> QED
      BY <3>1, LeastNatural
  <2>2. x # 0
    BY <1>0, <1>5
  <2>3. x \in 1 .. N /\ x - 1 \in 0 .. N /\ ~(x <= x - 1)
    BY <1>0, <2>2
  <2>4. Reading(read[x - 1])
    BY <2>1, <2>3
  <2>5. Reading(Envelope(read[x - 1], batch[x], p))
    BY <1>0, <2>3, <2>4, EnvelopeKeeps
  <2> QED
    BY <1>5, <2>3, <2>5
<1> QED
  BY <1>0, <1>4, <1>6

\* The loop over the transitions keeps it.
LEMMA TellAllFine ==
  ASSUME WellFormed(queue), NEW w, Fine(queue, w), NEW p \in Panes, NEW pane \in PaneRecords,
         NEW moves \in Seq(Reported), NEW text
  PROVE  Fine(queue, TellAll(w, p, pane, moves, text))
<1> DEFINE N == Len(moves)
           Rec(k, f) == f = [n \in 0 .. k |-> IF n = 0 THEN w
                                              ELSE Sync(f[n - 1], p, pane, moves[n], text)]
           S == {k \in 0 .. N : ~\E f : Rec(k, f)}
<1>0. N \in Nat
  BY LenProperties
<1> HIDE DEF N
<1>1. S = {}
  <2> SUFFICES ASSUME S # {} PROVE FALSE
    OBVIOUS
  <2>1. PICK x \in S : \A y \in S : x <= y
    <3>1. S \in SUBSET Nat
      OBVIOUS
    <3> HIDE DEF S
    <3> QED
      BY <3>1, LeastNatural
  <2>2. Rec(0, [n \in 0 .. 0 |-> w])
    OBVIOUS
  <2>3. x \in 1 .. N
    <3>1. x # 0
      <4> HIDE DEF Rec
      <4> QED
        BY <2>2
    <3> QED
      BY <1>0, <3>1
  <2>4. PICK f : Rec(x - 1, f)
    <3>1. x - 1 \in 0 .. N /\ ~(x <= x - 1)
      BY <1>0, <2>3
    <3> HIDE DEF Rec
    <3> QED
      BY <2>1, <3>1
  <2> DEFINE g == [n \in 0 .. x |-> IF n = x THEN Sync(f[x - 1], p, pane, moves[x], text) ELSE f[n]]
  <2>5. ASSUME NEW n \in 0 .. x PROVE g[n] = IF n = 0 THEN w ELSE Sync(g[n - 1], p, pane, moves[n], text)
    <3>1. CASE n = x
      BY <1>0, <2>3, <3>1
    <3>2. CASE n # x
      <4>1. n \in 0 .. x - 1 /\ (n # 0 => n - 1 \in 0 .. x /\ n - 1 # x)
        BY <1>0, <2>3, <3>2
      <4>2. f[n] = IF n = 0 THEN w ELSE Sync(f[n - 1], p, pane, moves[n], text)
        BY <2>4, <4>1
      <4> QED
        BY <3>2, <4>1, <4>2
    <3> QED
      BY <3>1, <3>2
  <2>6. Rec(x, g)
    BY <2>5
  <2> QED
    BY Zenon, <2>6
<1>2. \E f : Rec(N, f)
  BY <1>0, <1>1
<1> DEFINE told == CHOOSE f : Rec(N, f)
<1>3. Rec(N, told)
  <2> HIDE DEF Rec
  <2> QED
    BY <1>2
<1>4. TellAll(w, p, pane, moves, text) = told[N]
  BY DEF TellAll, N
<1> HIDE DEF told
<1>5. \A n \in 0 .. N : told[n] = IF n = 0 THEN w ELSE Sync(told[n - 1], p, pane, moves[n], text)
  BY Zenon, <1>3
<1> HIDE DEF Rec
<1> DEFINE Bad == {n \in 0 .. N : ~Fine(queue, told[n])}
<1>6. Bad = {}
  <2> SUFFICES ASSUME Bad # {} PROVE FALSE
    OBVIOUS
  <2>1. PICK x \in Bad : \A y \in Bad : x <= y
    <3>1. Bad \in SUBSET Nat
      OBVIOUS
    <3> HIDE DEF Bad
    <3> QED
      BY <3>1, LeastNatural
  <2>2. x # 0
    BY <1>0, <1>5
  <2>3. x \in 1 .. N /\ x - 1 \in 0 .. N /\ ~(x <= x - 1)
    BY <1>0, <2>2
  <2> DEFINE v == told[x - 1]
  <2>4. Fine(queue, v) /\ WellFormed(v.q) /\ v.r = v.q
    BY <2>1, <2>3 DEF Fine, Follows
  <2> HIDE DEF v
  <2>5. Fine(queue, Sync(v, p, pane, moves[x], text))
    BY <2>4, SyncFine, FineOn
  <2> QED
    BY <1>5, <2>3, <2>5 DEF v
<1> QED
  BY <1>0, <1>4, <1>6

-----------------------------------------------------------------------------
(* The steps.                                                              *)

\* What is known of the queue a step begins with.
LEMMA NowFine ==
  ASSUME IInv
  PROVE  /\ Now.q = queue /\ Now.r = queue /\ WellFormed(queue) /\ Fine(queue, Now)
         /\ \A p \in Panes : panes[p] \in PaneRecords
         /\ \A s \in held \cup rollback : Remembered(queue, s)
BY FollowsSame DEF IInv, Now, Fine

\* A step that only changes a Pane, or none.
LEMMA QueueKept ==
  ASSUME IInv, UNCHANGED <<queue, replayed, born>>, panes' \in [Panes -> PaneRecords],
         \A s \in held' \cup rollback' : Remembered(queue, s), typed' = {}
  PROVE  IInv'
BY DEF IInv, NothingWorn, TypedRight

\* A step that publishes a queue and leaves what is held alone.
LEMMA QuietPublish ==
  ASSUME IInv, NEW w, Publish(w), Fine(queue, w), panes' \in [Panes -> PaneRecords], Quiet
  PROVE  IInv'
<1>1. TypedRight' /\ UNCHANGED <<held, rollback, born>>
  BY DEF Quiet, TypedRight
<1> QED
  BY <1>1, NowFine, PublishKeeps

\* Replacing one Pane's record keeps the type of all.
LEMMA PaneSet ==
  ASSUME IInv, NEW p \in Panes, NEW pane \in PaneRecords, SetPane(p, pane)
  PROVE  panes' \in [Panes -> PaneRecords]
BY DEF IInv, SetPane

\* bind_agent makes a Pane's record of one.
LEMMA BoundToPane == ASSUME NEW pane \in PaneRecords PROVE BoundTo(pane) \in PaneRecords
BY Zenon DEF BoundTo, PaneRecords, Reported, Statuses

\* close_pane makes a Pane's record of one.
LEMMA ClosedPane == ASSUME NEW pane \in PaneRecords PROVE Closed(pane) \in PaneRecords
BY Zenon DEF Closed, PaneRecords, Reported

\* A program of the Pane comes to the foreground: no queue moves.
LEMMA ForegroundKeeps == ASSUME IInv, NEW p \in Panes, ForegroundChanges(p) PROVE IInv'
<1>1. panes[p] \in PaneRecords /\ \A s \in held \cup rollback : Remembered(queue, s)
  BY NowFine
<1>2. UNCHANGED <<queue, replayed, held, rollback, born>> /\ typed' = {}
  BY DEF ForegroundChanges, Quiet
<1>3. [panes[p] EXCEPT !.own = panes[p].last + 1, !.last = @ + 1] \in PaneRecords
  <2>1. panes[p].last + 1 \in Nat \ {0}
    BY <1>1 DEF PaneRecords
  <2> QED
    BY Zenon, <1>1, <2>1 DEF PaneRecords
<1>4. [panes[p] EXCEPT !.own = 1] \in PaneRecords
  BY <1>1 DEF PaneRecords
<1>5. panes' \in [Panes -> PaneRecords]
  BY <1>3, <1>4, PaneSet DEF ForegroundChanges
<1> QED
  BY <1>1, <1>2, <1>5, QueueKept

\* launch_agent_at: no queue moves.
LEMMA LaunchKeeps == ASSUME IInv, NEW p \in Panes, LaunchHere(p) PROVE IInv'
<1>1. panes[p] \in PaneRecords /\ \A s \in held \cup rollback : Remembered(queue, s)
  BY NowFine
<1>2. UNCHANGED <<queue, replayed, held, rollback, born>> /\ typed' = {}
  BY DEF LaunchHere, Quiet
<1>3. panes' \in [Panes -> PaneRecords]
  BY <1>1, BoundToPane, PaneSet DEF LaunchHere
<1> QED
  BY <1>1, <1>2, <1>3, QueueKept

\* on_pane_readable, a whole batch of envelopes.
LEMMA OutputKeeps ==
  ASSUME IInv, NEW p \in Panes, NEW batch \in Batches, NEW text, Output(p, batch, text)
  PROVE  IInv'
<1> DEFINE b0    == [pane |-> panes[p], w |-> Now, moves |-> <<>>, refresh |-> FALSE]
           b     == ReadAll(b0, batch, p)
           pane  == [b.pane EXCEPT !.fg = b.pane.own]
           again == IF b.moves = <<>> /\ b.refresh /\ Bound(pane) THEN <<pane.status>> ELSE b.moves
           w     == TellAll(b.w, p, pane, again, text)
<1>1. batch \in Seq(Envelopes)
  <2>1. PICK n \in 0 .. MaxBatch : batch \in [1 .. n -> Envelopes]
    BY DEF Batches
  <2>2. n \in Nat
    BY BoundsAssumption
  <2> QED
    BY <2>1, <2>2
<1>2. Reading(b0)
  BY NowFine DEF Reading
<1>3. WellFormed(queue)
  BY NowFine
<1> HIDE DEF b0
<1>4. Reading(b)
  BY <1>1, <1>2, <1>3, ReadAllKeeps
<1>5. SetPane(p, pane) /\ Publish(w) /\ Quiet
  BY DEF Output, b0
<1> HIDE DEF b
<1>6. b.pane \in PaneRecords /\ b.moves \in Seq(Reported) /\ Fine(queue, b.w)
  BY <1>4 DEF Reading
<1>7. pane \in PaneRecords
  BY <1>6 DEF PaneRecords
<1> HIDE DEF pane
<1>8. again \in Seq(Reported)
  <2>1. pane.status \in Reported
    BY <1>7 DEF PaneRecords
  <2>2. <<pane.status>> \in Seq(Reported)
    BY <2>1
  <2> QED
    BY <1>6, <2>2
<1> HIDE DEF again
<1>9. Fine(queue, w)
  BY <1>3, <1>6, <1>7, <1>8, TellAllFine
<1> HIDE DEF w
<1> QED
  BY <1>5, <1>7, <1>9, PaneSet, QuietPublish

\* flush_detection_due, for a Pane with an agent.
LEMMA StatusKeeps ==
  ASSUME IInv, NEW p \in Panes, NEW status \in Statuses, NEW text, StatusMoves(p, status, text)
  PROVE  IInv'
<1> DEFINE pane == [panes[p] EXCEPT !.status = status]
           w == Sync(Now, p, pane, status, text)
<1>1. pane \in PaneRecords
  <2>1. panes[p] \in PaneRecords /\ status \in Reported
    BY NowFine DEF Reported
  <2> QED
    BY <2>1 DEF PaneRecords
<1>2. SetPane(p, pane) /\ Publish(w) /\ Quiet
  BY DEF StatusMoves
<1> HIDE DEF pane
<1>3. Fine(queue, w)
  BY <1>1, NowFine, SyncFine
<1> HIDE DEF w
<1> QED
  BY <1>1, <1>2, <1>3, PaneSet, QuietPublish

\* apply_agent_detection, which resolves for the old agent and asks for the new one.
LEMMA DetectedKeeps ==
  ASSUME IInv, NEW p \in Panes, NEW status \in Statuses, NEW text, Detected(p, status, text)
  PROVE  IInv'
<1> DEFINE pane == [panes[p] EXCEPT !.status = status, !.pid = panes[p].own, !.fg = panes[p].own]
           v == Apply(Now, ResolvePane(queue, p))
           w == Sync(v, p, pane, status, text)
<1>1. pane \in PaneRecords
  <2>1. panes[p] \in PaneRecords /\ status \in Reported
    BY NowFine DEF Reported
  <2> QED
    BY Zenon, <2>1 DEF PaneRecords
<1>2. SetPane(p, pane) /\ Publish(w) /\ Quiet
  BY DEF Detected
<1>3. Fine(queue, v)
  BY NowFine, ResolvePaneFine
<1> HIDE DEF pane, v
<1>4. WellFormed(v.q) /\ v.r = v.q
  BY <1>3 DEF Fine, Follows
<1>5. Fine(queue, w)
  BY <1>1, <1>3, <1>4, NowFine, SyncFine, FineOn
<1> HIDE DEF w
<1> QED
  BY <1>1, <1>2, <1>5, PaneSet, QuietPublish

\* on_process_exit and close_pane resolve what their Pane waited for.
LEMMA ExitKeeps == ASSUME IInv, NEW p \in Panes, ProcessExit(p) \/ ClosePane(p) PROVE IInv'
<1> DEFINE w == Apply(Now, ResolvePane(queue, p))
           ended == [panes[p] EXCEPT !.status = NoAgent, !.pid = 0, !.dead = panes[p].pid]
<1>1. Fine(queue, w)
  BY NowFine, ResolvePaneFine
<1>2. panes[p] \in PaneRecords
  BY NowFine
<1>3. ended \in PaneRecords /\ Closed(panes[p]) \in PaneRecords
  BY Zenon, <1>2, ClosedPane DEF PaneRecords, Reported
<1>4. Publish(w) /\ Quiet /\ (SetPane(p, ended) \/ SetPane(p, Closed(panes[p])))
  BY DEF ProcessExit, ClosePane
<1> HIDE DEF w, ended
<1> QED
  BY <1>1, <1>3, <1>4, PaneSet, QuietPublish

\* on_workflow_submit, where a run asks for a human.
LEMMA RequestRunKeeps ==
  ASSUME IInv, NEW p \in Panes, NEW inv, NEW kind \in Runs, RequestRun(p, inv, kind)
  PROVE  IInv'
<1> DEFINE w == Apply(Now, Request(queue, p, inv, kind, "run"))
<1>1. kind \notin Blocked
  BY DEF Runs, Blocked
<1>2. Fine(queue, w)
  BY Zenon, <1>1, NowFine, ApplyNew
<1>3. Publish(w) /\ Quiet /\ panes' \in [Panes -> PaneRecords]
  BY DEF RequestRun, IInv
<1> HIDE DEF w
<1> QED
  BY <1>2, <1>3, QuietPublish

\* flush_prompt_deliveries_due, where a run no longer asks.
LEMMA RunMovesKeeps ==
  ASSUME IInv, NEW p \in Panes, NEW kind, NEW first \in BOOLEAN, RunMovesOn(p, kind, first)
  PROVE  IInv'
<1> DEFINE ids == {i.id : i \in {j \in OfPane(queue, p) : j.kind = kind}}
           w   == Apply(Now, Resolve(queue, ids))
<1>1. Fine(queue, w)
  <2> HIDE DEF ids
  <2> QED
    BY NowFine, ResolveFine
<1>2. panes[p] \in PaneRecords /\ BoundTo(panes[p]) \in PaneRecords
  BY NowFine, BoundToPane
<1>3. Publish(w) /\ Quiet /\ (SetPane(p, BoundTo(panes[p])) \/ SetPane(p, panes[p]))
  BY DEF RunMovesOn
<1> HIDE DEF w
<1> QED
  BY <1>1, <1>2, <1>3, PaneSet, QuietPublish

\* waiting_snapshot: a client holds an item as it is now.
LEMMA ReadKeeps == ASSUME IInv, ReadQueue PROVE IInv'
<1>1. PICK i \in queue.items : held' = {i}
  BY DEF ReadQueue
<1>2. Remembered(queue, i) /\ \A s \in rollback : Remembered(queue, s)
  BY NowFine, RememberedNow
<1>3. UNCHANGED <<queue, replayed, panes, rollback, born>> /\ typed' = {}
  BY DEF ReadQueue
<1>4. panes' \in [Panes -> PaneRecords]
  BY <1>3 DEF IInv
<1> QED
  BY <1>1, <1>2, <1>3, <1>4, QueueKept

\* resume_waiting_orchestration leaves the Panes what they are.
LEMMA ResumedPanes ==
  ASSUME IInv, NEW p \in Panes, NEW accepted \in BOOLEAN, Resumed(p, accepted)
  PROVE  panes' \in [Panes -> PaneRecords]
<1>1. panes[p] \in PaneRecords /\ BoundTo(panes[p]) \in PaneRecords
  BY NowFine, BoundToPane
<1>2. CASE UNCHANGED panes
  BY <1>2 DEF IInv
<1>3. CASE SetPane(p, BoundTo(panes[p]))
  BY <1>1, <1>3, PaneSet
<1> QED
  BY <1>2, <1>3 DEF Resumed

\* waiting_action, on the item that has the id the client holds.
LEMMA ActKeeps ==
  ASSUME IInv, NEW read \in held, NEW item \in queue.items, NEW action, NEW phase,
         NEW accepted \in BOOLEAN, Act(read, item, action, phase, accepted)
  PROVE  IInv'
<1> DEFINE pane == panes[item.pane]
           w    == Apply(Now, ResolvePane(queue, item.pane))
<1>1. WellFormed(queue) /\ IsItem(item) /\ item.pane \in Panes /\ pane \in PaneRecords
  BY NowFine DEF WellFormed, IsItem
<1>2. Fine(queue, w)
  BY NowFine, ResolvePaneFine
<1>3. Remembered(queue, item) /\ \A s \in held \cup rollback : Remembered(queue, s)
  BY <1>1, NowFine, RememberedNow
<1>4. UNCHANGED <<held, born>> /\ item.id = read.id
  BY DEF Act
<1>5. Agree(read, item)
  BY <1>3, <1>4 DEF Remembered
<1>6. Dropped(item) <=> Publish(w)
  BY DEF Dropped
<1> HIDE DEF w
<1>7. ASSUME Dropped(item), UNCHANGED rollback, panes' \in [Panes -> PaneRecords], TypedRight'
      PROVE  IInv'
  BY <1>2, <1>3, <1>4, <1>6, <1>7, PublishKeeps
<1>8. typed' = {} => TypedRight'
  BY DEF TypedRight
<1>9. UNCHANGED panes => panes' \in [Panes -> PaneRecords]
  BY DEF IInv
<1>10. CASE Dropped(item) /\ typed' = {} /\ UNCHANGED <<panes, rollback>>
  BY <1>7, <1>8, <1>9, <1>10
<1>11. CASE /\ ~Stale(item, pane) /\ ~Advanced(item, pane) /\ Dropped(item)
            /\ typed' = {[read |-> read, pane |-> item.pane]}
            /\ UNCHANGED <<panes, rollback>>
  <2>1. read.kind \in Blocked =>
          read.pane = item.pane /\ read.inv = Current(pane) /\ read.kind = pane.status
    BY <1>1, <1>5, <1>11 DEF Agree, Stale, Advanced, IsItem
  <2>2. TypedRight'
    <3> SUFFICES ASSUME NEW t \in typed', t.read.kind \in Blocked
                 PROVE  /\ t.read.pane = t.pane
                        /\ t.read.inv = Current(panes'[t.pane])
                        /\ t.read.kind = panes'[t.pane].status
      BY DEF TypedRight
    <3>1. t.read = read /\ t.pane = item.pane /\ panes' = panes
      BY <1>11
    <3> QED
      BY <2>1, <3>1
  <2> QED
    BY <1>7, <1>9, <1>11, <2>2
<1>12. CASE Dropped(item) /\ SetPane(item.pane, Closed(pane)) /\ typed' = {} /\ UNCHANGED rollback
  <2>1. panes' \in [Panes -> PaneRecords]
    BY <1>1, <1>12, ClosedPane, PaneSet
  <2> QED
    BY <1>7, <1>8, <1>12, <2>1
<1>13. CASE Dropped(item) /\ Resumed(item.pane, accepted) /\ typed' = {} /\ UNCHANGED rollback
  <2>1. panes' \in [Panes -> PaneRecords]
    BY <1>1, <1>13, ResumedPanes
  <2> QED
    BY <1>7, <1>8, <1>13, <2>1
<1>14. CASE rollback' = {item} /\ typed' = {} /\ UNCHANGED <<queue, replayed, panes>>
  BY <1>3, <1>4, <1>9, <1>14, QueueKept
<1> HIDE DEF pane
<1> QED
  BY <1>10, <1>11, <1>12, <1>13, <1>14 DEF Act, pane

\* The answer of a rollback that was asked for an item.
LEMMA RolledBackKeeps ==
  ASSUME IInv, NEW ok \in BOOLEAN, NEW accepted \in BOOLEAN, RolledBack(ok, accepted)
  PROVE  IInv'
<1> DEFINE item == CHOOSE i \in rollback : TRUE
           here == {i \in queue.items : i.id = item.id}
           w1   == Apply(Now, ResolvePane(queue, item.pane))
           w2   == Apply(Now, Request(queue, item.pane, item.inv, "Relay", "run"))
<1>1. rollback # {} /\ item \in rollback
  BY DEF RolledBack
<1>2. Remembered(queue, item) /\ \A s \in held : Remembered(queue, s)
  BY <1>1, NowFine
<1>3. item.pane \in Panes
  BY <1>2 DEF Remembered, IsItem
<1>4. "Relay" \notin Blocked
  BY DEF Blocked
<1>5. /\ rollback' = {} /\ typed' = {} /\ UNCHANGED <<held, born>>
      /\ IF here = {} THEN UNCHANGED <<queue, replayed>> ELSE Publish(IF ok THEN w1 ELSE w2)
      /\ IF ok /\ here # {} THEN Resumed(item.pane, accepted) ELSE UNCHANGED panes
  BY DEF RolledBack
<1> HIDE DEF item, here
<1>6. Fine(queue, w1) /\ Fine(queue, w2)
  BY <1>3, <1>4, NowFine, ResolvePaneFine, ApplyNew
<1> HIDE DEF w1, w2
<1>7. panes' \in [Panes -> PaneRecords]
  BY <1>3, <1>5, ResumedPanes DEF IInv
<1>8. TypedRight' /\ \A s \in held' \cup rollback' : Remembered(queue, s)
  BY <1>2, <1>5 DEF TypedRight
<1>9. CASE here = {}
  BY <1>5, <1>7, <1>8, <1>9, QueueKept
<1>10. CASE here # {}
  BY <1>5, <1>6, <1>7, <1>8, <1>10, PublishKeeps
<1> QED
  BY <1>9, <1>10

\* A restart resolves every item of the log before the new shells can reuse a Pane.
LEMMA RestartKeeps ==
  ASSUME IInv, NEW restored \in {{}} \cup {{p} : p \in Panes}, Restart(restored)
  PROVE  IInv'
<1> DEFINE pids == [p \in Panes |-> 0]
           worn == {i.id : i \in {j \in replayed.items : Worn(j, pids)}}
           q    == Resolve(Recovered(replayed), worn)
           w    == [q |-> q, r |-> q]
           ask  == {p \in restored : OfPane(q, p) = {}}
           p1   == CHOOSE p \in ask : TRUE
           v    == Apply(w, Request(q, p1, 0, "Workflow", "run"))
<1>1. /\ panes' = [p \in Panes |-> [Shell EXCEPT !.last = panes[p].last]]
      /\ Publish(IF ask = {} THEN w ELSE v)
      /\ rollback' = {} /\ typed' = {} /\ born' = q.next /\ UNCHANGED held
  BY Zenon DEF Restart
<1>2. WellFormed(queue) /\ replayed = queue
  BY DEF IInv
<1>3. q = [queue EXCEPT !.items = {}]
  <2>1. ASSUME NEW i \in queue.items PROVE i.id \in worn
    <3>1. i.pane \in Panes
      BY <1>2 DEF WellFormed, IsItem
    <3>2. Worn(i, pids)
      BY <3>1 DEF Worn
    <3> QED
      BY <1>2, <3>2
  <2>2. {i \in queue.items : i.id \notin worn} = {}
    BY <2>1
  <2> HIDE DEF worn
  <2> QED
    BY Zenon, <1>2, <2>2 DEF Resolve, Recovered
<1>4. WellFormed(q) /\ q.items = {} /\ q.next = queue.next
  <2>1. LET q2 == [queue EXCEPT !.items = {}] IN
          WellFormed(q2) /\ q2.items = {} /\ q2.next = queue.next
    BY <1>2, PartWellFormed
  <2> HIDE DEF q
  <2> QED
    BY <1>3, <2>1
<1>5. Follows(queue, q)
  <2> HIDE DEF q
  <2> QED
    BY <1>2, <1>4 DEF Follows, WellFormed
<1>6. restored \subseteq Panes
  OBVIOUS
<1> HIDE DEF q
<1>7. Fine(q, w) /\ WellFormed(w.q) /\ w.r = w.q /\ w.q = q
  BY <1>4, FollowsSame DEF Fine
<1>8. ask # {} => Fine(q, v)
  <2> SUFFICES ASSUME ask # {} PROVE Fine(q, v)
    OBVIOUS
  <2>1. p1 \in ask
    OBVIOUS
  <2>2. p1 \in Panes
    BY <1>6, <2>1
  <2>3. "Workflow" \notin Blocked
    BY DEF Blocked
  <2> HIDE DEF p1, w, ask
  <2>4. Fine(w.q, Apply(w, Request(w.q, p1, 0, "Workflow", "run")))
    BY <1>7, <2>2, <2>3, ApplyNew
  <2> QED
    BY <1>7, <2>4
<1> DEFINE u == IF ask = {} THEN w ELSE v
<1>9. Publish(u) /\ Fine(q, u)
  <2> HIDE DEF w, v, ask
  <2> QED
    BY <1>1, <1>7, <1>8
<1> HIDE DEF u, w, v, ask
<1>10. queue' = u.q /\ replayed' = queue' /\ Follows(q, queue') /\ WellFormed(queue')
  BY <1>9 DEF Publish, Fine, Follows
<1>11. Follows(queue, queue')
  BY <1>2, <1>5, <1>10, FollowsOn
<1>12. \A s \in held' \cup rollback' : Remembered(queue', s)
  BY <1>1, <1>2, <1>11, NowFine, RememberedOn
<1>13. born' \in Nat /\ born' <= queue'.next /\ NothingWorn'
  BY <1>1, <1>4, <1>10 DEF Follows, WellFormed, NothingWorn
<1>14. panes' \in [Panes -> PaneRecords]
  <2>1. ASSUME NEW p \in Panes PROVE [Shell EXCEPT !.last = panes[p].last] \in PaneRecords
    <3>1. panes[p].last \in Nat \ {0}
      BY NowFine DEF PaneRecords
    <3>2. Shell \in PaneRecords
      BY DEF Shell, PaneRecords, Reported
    <3> QED
      BY <3>1, <3>2 DEF PaneRecords
  <2> QED
    BY <1>1, <2>1
<1>15. TypedRight'
  BY <1>1 DEF TypedRight
<1> QED
  BY <1>10, <1>12, <1>13, <1>14, <1>15 DEF IInv

\* A new server waits for nothing.
LEMMA InitKeeps == Init => IInv
<1> SUFFICES ASSUME Init PROVE IInv
  OBVIOUS
<1>1. WellFormed(queue) /\ replayed = queue /\ queue.items = {} /\ queue.next = 1
  BY DEF Init, New, WellFormed
<1>2. panes \in [Panes -> PaneRecords]
  BY DEF Init, Shell, PaneRecords, Reported
<1> QED
  BY <1>1, <1>2 DEF Init, IInv, NothingWorn, TypedRight

\* Every step of server, agents and clients keeps the invariant.
LEMMA StepKeeps == ASSUME IInv, [Next]_vars PROVE IInv'
<1>1. CASE UNCHANGED vars
  BY <1>1 DEF vars, IInv, NothingWorn, TypedRight
<1>2. CASE Steps
  <2>1. ASSUME NEW p \in Panes, ForegroundChanges(p) \/ LaunchHere(p) PROVE IInv'
    BY <2>1, ForegroundKeeps, LaunchKeeps
  <2>2. ASSUME NEW p \in Panes, ProcessExit(p) \/ ClosePane(p) PROVE IInv'
    BY <2>2, ExitKeeps
  <2>3. ASSUME NEW p \in Panes, NEW batch \in Batches, NEW text \in Summaries, Output(p, batch, text)
        PROVE  IInv'
    BY <2>3, OutputKeeps
  <2>4. ASSUME NEW p \in Panes, NEW status \in Statuses, NEW text \in Summaries,
               StatusMoves(p, status, text) \/ Detected(p, status, text)
        PROVE  IInv'
    BY <2>4, StatusKeeps, DetectedKeeps
  <2>5. ASSUME NEW p \in Panes, NEW kind \in Runs,
               RequestRun(p, 0, kind) \/ RequestRun(p, Current(panes[p]), kind)
        PROVE  IInv'
    BY <2>5, RequestRunKeeps
  <2>6. ASSUME NEW p \in Panes, NEW kind \in Runs, NEW first \in BOOLEAN, RunMovesOn(p, kind, first)
        PROVE  IInv'
    BY <2>6, RunMovesKeeps
  <2>7. CASE ReadQueue
    BY <2>7, ReadKeeps
  <2>8. ASSUME NEW read \in held, NEW item \in queue.items,
               NEW action \in {"Answer", "Dismiss", "Stop", "Resume", "Rollback"},
               NEW phase \in {"None", "Awaiting", "Paused"}, NEW accepted \in BOOLEAN,
               Act(read, item, action, phase, accepted)
        PROVE  IInv'
    BY <2>8, ActKeeps
  <2>9. ASSUME NEW ok \in BOOLEAN, NEW accepted \in BOOLEAN, RolledBack(ok, accepted) PROVE IInv'
    BY <2>9, RolledBackKeeps
  <2>10. ASSUME NEW restored \in {{}} \cup {{p} : p \in Panes}, Restart(restored) PROVE IInv'
    BY <2>10, RestartKeeps
  <2> QED
    BY <1>2, <2>1, <2>2, <2>3, <2>4, <2>5, <2>6, <2>7, <2>8, <2>9, <2>10 DEF Steps
<1> QED
  BY <1>1, <1>2 DEF Next

\* The invariant of the waiting queue, the Panes and what clients hold.
THEOREM WaitingInvariance == Spec => []IInv
<1>1. Init => IInv
  BY InitKeeps
<1>2. IInv /\ [Next]_vars => IInv'
  BY StepKeeps
<1> QED
  BY <1>1, <1>2, PTL DEF Spec

\* The events record_waiting_change appends replay to the live queue, allocator
\* included, whatever replaced, refreshed or resolved what.
THEOREM LogReplays == Spec => []ReplayAgrees
<1>1. IInv => ReplayAgrees
  BY DEF IInv, ReplayAgrees
<1> QED
  BY <1>1, WaitingInvariance, PTL

\* waiting_action and RelayCheckpointRolledBack: an id never comes to name another
\* prompt, text typed for an agent's item reaches the invocation it was read for,
\* blocked the same way, and a restart leaves none of the old items.
THEOREM WaitingCurrent == Spec => []WaitingIsCurrent
<1>1. IInv => WaitingIsCurrent
  BY DEF IInv, WaitingIsCurrent, AnswerReachesItsPrompt, TypedRight, Remembered, Agree
<1> QED
  BY <1>1, WaitingInvariance, PTL
=============================================================================
